-------------------------- MODULE MCSchedulerLock --------------------------
(***************************************************************************)
(* Instances of SchedulerLock for TLC.                                     *)
(***************************************************************************)
EXTENDS SchedulerLock

CONSTANTS s1, s2, q1, q2, q3
=============================================================================
