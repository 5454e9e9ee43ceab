--------------------------- MODULE MCDiagnosisScan ---------------------------
(* Small stores for the diagnosis loop. *)
EXTENDS DiagnosisScan

FourIncidents == 1 .. 4
TwoIncidents == 1 .. 2
=============================================================================
