------------------------------ MODULE RunView ------------------------------
(***************************************************************************)
(* What the run control of the frontend promises to the user, without      *)
(* requests, timers and effects: what is on display belongs to the         *)
(* selected run, and goes only when another run is selected, the run is    *)
(* fetched again or the page is loaded anew; a load is answered once.      *)
(* Module RunControl implements this one.                                  *)
(***************************************************************************)
CONSTANTS
  Run,          \* run ids
  None,         \* no run, no payload
  MayFallBack   \* a run may be answered with another one

VARIABLES
  selected,     \* the selected run
  shown,        \* its payload, with the run it was asked for
  phase,        \* where the load of the selected run stands
  saved         \* the selection that survives a reload of the page

vars == <<selected, shown, phase, saved>>

Init == /\ selected \in Run \cup {None}
        /\ shown = None
        /\ phase = "idle"
        /\ saved = selected

\* What is on display, if it is of run r.
Kept(r) == IF shown # None /\ shown.runId = r THEN shown ELSE None

\* The user selects a run, the latest one or the selected one once more.
Select(r) == /\ selected' = r
             /\ phase' = "loading"
             /\ shown' = Kept(r)
             /\ UNCHANGED saved

\* The list does not have the selected run: the latest run takes its place.
Follow(r) == /\ selected # r
             /\ selected' = r
             /\ phase' = "loading"
             /\ shown' = None
             /\ UNCHANGED saved

\* The list has the selected run, which is fetched again.
Refetch == /\ selected # None
           /\ phase # "loading"
           /\ phase' = "loading"
           /\ shown' = None
           /\ UNCHANGED <<selected, saved>>

Slow == /\ phase = "loading"
        /\ phase' = "slow"
        /\ UNCHANGED <<selected, shown, saved>>

Answer == /\ phase \in {"loading", "slow"}
          /\ phase' = "loaded"
          /\ \E r \in Run : /\ r = selected \/ MayFallBack
                            /\ shown' = [runId |-> r, asked |-> selected]
          /\ UNCHANGED <<selected, saved>>

Fail == /\ phase \in {"loading", "slow"}
        /\ phase' = "failed"
        /\ shown' = Kept(selected)
        /\ UNCHANGED <<selected, saved>>

Clear == /\ selected' = None
         /\ phase' = "idle"
         /\ shown' = None
         /\ UNCHANGED saved

Save == /\ saved' = selected
        /\ UNCHANGED <<selected, shown, phase>>

Reload == /\ selected' = saved
          /\ phase' = "idle"
          /\ shown' = None
          /\ UNCHANGED saved

Next == \/ \E r \in Run : Select(r) \/ Follow(r)
        \/ Refetch \/ Slow \/ Answer \/ Fail
        \/ Clear \/ Save \/ Reload

Spec == Init /\ [][Next]_vars
=============================================================================
