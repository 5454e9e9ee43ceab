------------------------- MODULE IncidentLifecycle -------------------------
(***************************************************************************)
(* What an incident store promises about the lifecycle of an incident: the *)
(* transitions of domain/incident_lifecycle.py, with the two ways in which *)
(* a promotion that carries a snapshot bundle moves an incident            *)
(* (collect/incident_bundle_promotion.py).  No process, cache, transaction *)
(* or crash appears here; module IncidentStore implements this one.        *)
(***************************************************************************)
CONSTANT Incident       \* incident identifiers

VARIABLE status         \* status[i]: lifecycle status of incident i

Status == {"open", "collecting_evidence", "ready_for_review", "investigating",
           "suppressed", "duplicate", "resolved"}

\* TERMINAL_STATUSES: no transition leaves them.
Terminal == {"suppressed", "duplicate", "resolved"}

Active == Status \ Terminal

TypeOK == status \in [Incident -> Status \cup {"absent"}]

Init == status = [i \in Incident |-> "absent"]

Move(i, from, to) == /\ status[i] \in from
                     /\ status' = [status EXCEPT ![i] = to]

\* A candidate without an incident opens one; with a bundle, evidence
\* collection starts in the same transaction.
Open(i) == \E to \in {"open", "collecting_evidence"} : Move(i, {"absent"}, to)

mark_collecting_evidence(i) == Move(i, {"open"}, "collecting_evidence")
mark_ready_for_review(i)    == Move(i, {"collecting_evidence"}, "ready_for_review")
mark_investigating(i)       == Move(i, {"ready_for_review"}, "investigating")
resolve_incident(i)         == Move(i, {"investigating"}, "resolved")
suppress_incident(i)        == Move(i, Active, "suppressed")
mark_duplicate(i)           == Move(i, Active, "duplicate")

\* A later candidate with a bundle sends an incident back to evidence
\* collection, unless it waits for review or is terminal.
MergeBundle(i) == Move(i, Active \ {"ready_for_review"}, "collecting_evidence")

Next == \E i \in Incident :
           \/ Open(i)
           \/ mark_collecting_evidence(i)
           \/ mark_ready_for_review(i)
           \/ mark_investigating(i)
           \/ resolve_incident(i)
           \/ suppress_incident(i)
           \/ mark_duplicate(i)
           \/ MergeBundle(i)

Spec == Init /\ [][Next]_status
=============================================================================
