--------------------------- MODULE MCSingleFlight ---------------------------
(* The instance of SingleFlight for TLC is in server_runs.cfg.             *)
EXTENDS SingleFlight
=============================================================================
