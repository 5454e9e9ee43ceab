-------------------------- MODULE MCIncidentStore --------------------------
(***************************************************************************)
(* Instances of IncidentStore for TLC.                                     *)
(***************************************************************************)
EXTENDS IncidentStore, TLC

CONSTANTS p1, p2, i1, b1, a1, s1, s2, r1, l1, f1, f2

OneProcess == {p1}
TwoProcesses == {p1, p2}
OneIncident == {i1}

AllRequests == OperationName \ {"rebuild"}
SharedRequests == {"promote", "lifecycle", "rebuild"}
LifecycleRequests == {"promote", "add_incident", "transition", "mark", "lifecycle"}
ProtectedRequests == {"promote", "transition"}

SharedSymmetry == Permutations({p1, p2}) \cup Permutations({f1, f2})
                  \cup Permutations({s1, s2})

=============================================================================
