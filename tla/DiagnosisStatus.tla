--------------------------- MODULE DiagnosisStatus ---------------------------
(***************************************************************************)
(* How the statuses of incidents move, in the classes that the automatic   *)
(* diagnosis loop tells apart: absent (no row), active (open, collecting   *)
(* evidence, investigating), review (ready for review, which the loop      *)
(* lists and turns down) and closed (suppressed, duplicate, resolved).     *)
(* Module IncidentStore guarantees these moves and module DiagnosisScan    *)
(* assumes them of everyone but the loop, which moves no status.           *)
(***************************************************************************)
CONSTANT Incident
VARIABLE status

\* A store with some open incidents.
Init == status \in [Incident -> {"absent", "active"}]

Move(i, from, to) == /\ status[i] \in from
                     /\ status' = [status EXCEPT ![i] = to]

\* A promotion opens an incident, and with a bundle takes up a closed one.
Open(i)      == Move(i, {"absent", "closed"}, "active")
AskReview(i) == Move(i, {"active"}, "review")
Resume(i)    == Move(i, {"review"}, "active")
Close(i)     == Move(i, {"active", "review"}, "closed")

Next == \E i \in Incident : Open(i) \/ AskReview(i) \/ Resume(i) \/ Close(i)

Spec == Init /\ [][Next]_status
=============================================================================
