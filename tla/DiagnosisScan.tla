---------------------------- MODULE DiagnosisScan ----------------------------
(***************************************************************************)
(* The automatic diagnosis loop that ends a health run: which incidents it *)
(* takes (all that a scan of the store lists after a persisted cursor, or  *)
(* those the run's promotion named), what it does with each of them, and   *)
(* how it moves the cursor.  Incidents are opened, reviewed and closed by  *)
(* others meanwhile, the process may die at any step, and every read or    *)
(* write of the cursor file, the store and the backend may fail.           *)
(*                                                                         *)
(* An incident is its position in the order of the listing                 *)
(* (first_observed_at, incident_id), so that the cursor, a position, is    *)
(* the incident after which the next listing starts.                       *)
(***************************************************************************)
EXTENDS Integers, FiniteSets

CONSTANTS
  Incident,       \* positions of the incidents in the order of the listing
  MaxDiagnoses,   \* config.max_incidents_per_run
  ScanBound,      \* rows of a page: max_incidents_per_run * 3 in the code
  Limits,         \* values of config.max_review_packets, 1 by default
  MaxChanges,     \* bound on the steps of the environment
  MaxFaults       \* bound on crashes and failed reads and writes

ASSUME IncidentAssumption == Incident \subseteq Nat \ {0} /\ IsFiniteSet(Incident)
ASSUME BoundAssumption == /\ MaxDiagnoses \in Nat \ {0}
                          /\ ScanBound \in Nat \ {0}
                          /\ Limits \subseteq Nat
                          /\ MaxChanges \in Nat
                          /\ MaxFaults \in Nat

VARIABLES
  status,     \* status[i]: class of the status of incident i in the store
  started,    \* incidents whose last recorded loop event is started
  file,       \* the cursor file: a position, Absent, or Unusable
  limit,      \* max_review_packets of this deployment, never changes
  pc,         \* where the collector is; "idle" between runs
  mode,       \* "scan", or "ids" for incidents that the promotion named
  after,      \* cursor the scan listed from, 0 without one
  page,       \* the rows of this run
  todo,       \* the rows not examined yet
  more,       \* has_more of the listing
  row,        \* the row examined last, 0 before the first
  eligible,   \* summary.eligible
  used,       \* review_packet_budget.used
  owed,       \* history: incidents listed since the sweep began, not examined
  lost,       \* history: incidents whose diagnosis a fault left unrecorded
  changes, faults

run  == <<mode, after, page, todo, more, row, eligible, used>>
vars == <<status, started, file, limit, pc, run, owed, lost, changes, faults>>

\* Everyone but the loop, as far as it depends on them: what IncidentStore
\* guarantees of its rows.
Others == INSTANCE DiagnosisStatus

Absent   == 0     \* no cursor file
Unusable == -1    \* a file of an older schema, or whose content is no cursor

\* ACTIVE_DIAGNOSIS_STATUS_VALUES: the listing takes the incidents that wait
\* for review, which the evaluation of eligibility then turns down.
Listed == {i \in Incident : status[i] \in {"active", "review"}}

TypeOK ==
  /\ status \in [Incident -> {"absent", "active", "review", "closed"}]
  /\ started \in SUBSET Incident
  /\ file \in Incident \cup {Absent, Unusable}
  /\ limit \in Limits
  /\ pc \in {"idle", "list", "rows", "start", "work", "record", "dispose"}
  /\ mode \in {"scan", "ids"}
  /\ after \in Incident \cup {0}
  /\ page \in SUBSET Incident
  /\ todo \in SUBSET page
  /\ more \in BOOLEAN
  /\ row \in Incident \cup {0}
  /\ eligible \in 0 .. MaxDiagnoses
  /\ used \in 0 .. limit
  /\ owed \in SUBSET Incident
  /\ lost \in SUBSET Incident
  /\ changes \in 0 .. MaxChanges
  /\ faults \in 0 .. MaxFaults

\* A store with some open incidents, and a cursor file left by an older
\* version or none.
Init ==
  /\ Others!Init
  /\ started = {}
  /\ file \in {Absent, Unusable}
  /\ limit \in Limits
  /\ pc = "idle"
  /\ mode = "scan"
  /\ after = 0
  /\ page = {}
  /\ todo = {}
  /\ more = FALSE
  /\ row = 0
  /\ eligible = 0
  /\ used = 0
  /\ owed = {}
  /\ lost = {}
  /\ changes = 0
  /\ faults = 0

Fault   == faults < MaxFaults /\ faults' = faults + 1
NoFault == UNCHANGED faults
Change  == changes < MaxChanges /\ changes' = changes + 1

-----------------------------------------------------------------------------
(* The incidents, as promotions and operators move them.                   *)

SetStatus(i, move) ==
  /\ Change
  /\ move
  /\ owed' = IF status'[i] = "closed" THEN owed \ {i} ELSE owed
  /\ UNCHANGED <<started, file, limit, pc, run, lost, faults>>

Open(i)      == SetStatus(i, Others!Open(i))
AskReview(i) == SetStatus(i, Others!AskReview(i))
Resume(i)    == SetStatus(i, Others!Resume(i))
Close(i)     == SetStatus(i, Others!Close(i))

-----------------------------------------------------------------------------
(* Selection of the rows. *)

\* Faulty variant: the budget is shared by all runs of the process.
SharedBudget == /\ mode' = "scan"
                /\ after' = 0
                /\ page' = {}
                /\ todo' = {}
                /\ more' = FALSE
                /\ row' = 0
                /\ eligible' = 0
                /\ UNCHANGED used

\* Result, page and budget are those of one run and end with it.
NoRun == /\ mode' = "scan"
         /\ after' = 0
         /\ page' = {}
         /\ todo' = {}
         /\ more' = FALSE
         /\ row' = 0
         /\ eligible' = 0
         /\ used' = 0

\* A health run that recorded no promotion scans the store.  The cursor is
\* loaded first; a file that is no cursor is removed, unless it is of the oldest
\* schema and names no incident.  When the file cannot be read or removed the
\* scan starts from the beginning and the file stays.
BeginScan ==
  /\ pc = "idle"
  /\ pc' = "list"
  /\ \/ NoFault /\ file \in Incident /\ after' = file /\ UNCHANGED file
     \/ NoFault /\ file \notin Incident /\ after' = 0 /\ file' \in {Absent, file}
     \/ Fault /\ after' = 0 /\ UNCHANGED file
  /\ owed' = IF file \in Incident THEN owed ELSE Listed
  /\ UNCHANGED <<status, started, limit, mode, page, todo, more, row, eligible,
                 used, lost, changes>>

\* A promotion that succeeded names the incidents of the run; the first
\* max_incidents_per_run of them are taken, in the order it gives.
BeginIds(ids) ==
  /\ pc = "idle"
  /\ Change
  /\ ids # {}
  /\ \A i \in ids : status[i] # "absent"
  /\ Cardinality(ids) <= MaxDiagnoses
  /\ pc' = "rows"
  /\ mode' = "ids"
  /\ page' = ids
  /\ todo' = ids
  /\ UNCHANGED <<status, started, file, limit, after, more, row, eligible, used,
                 owed, lost, faults>>

\* Keyset pagination: the first ScanBound listed incidents after the cursor.
Ahead(p) == {i \in Listed : i > p}
FirstOf(S) == {i \in S : Cardinality({j \in S : j < i}) < ScanBound}

List ==
  /\ pc = "list"
  /\ page' = FirstOf(Ahead(after))
  /\ todo' = page'
  /\ more' = (page' # Ahead(after))
  /\ pc' = IF page' = {} THEN "dispose" ELSE "rows"
  /\ UNCHANGED <<status, started, file, limit, mode, after, row, eligible, used,
                 owed, lost, changes, faults>>

-----------------------------------------------------------------------------
(* One row: _process_incident. *)

\* An incident is diagnosed while its status is active and the run may still
\* write a review packet.
Eligible(i) == status[i] = "active" /\ used < limit

\* The next row of the scan, or the next of the incidents that were named.
IsNext(i) == /\ pc = "rows"
             /\ i \in todo
             /\ mode = "scan" => \A j \in todo : i <= j

Examine(i) == /\ IsNext(i)
              /\ row' = i
              /\ todo' = todo \ {i}
              /\ owed' = owed \ {i}

RowOrDisposal(rest) == IF rest = {} THEN "dispose" ELSE "rows"

\* The lookup fails, or the incident is not eligible: the batch goes on.
PassOver(i) ==
  /\ Examine(i)
  /\ \/ NoFault /\ ~ Eligible(i)
     \/ Fault
  /\ pc' = RowOrDisposal(todo')
  /\ UNCHANGED <<status, started, file, limit, mode, after, page, more, eligible,
                 used, lost, changes>>

TakeUp(i) ==
  /\ Examine(i)
  /\ Eligible(i)
  /\ pc' = "start"
  /\ UNCHANGED <<status, started, file, limit, mode, after, page, more, eligible,
                 used, lost, changes, faults>>

\* Faulty variant: one diagnosis more than the run may make.
CountOneMore ==
  /\ eligible' = eligible + 1
  /\ pc' = IF eligible' > MaxDiagnoses THEN "dispose" ELSE RowOrDisposal(todo)

\* The batch ends with the last row or the last diagnosis it may make.
CountEligible ==
  /\ eligible' = eligible + 1
  /\ pc' = IF eligible' >= MaxDiagnoses THEN "dispose" ELSE RowOrDisposal(todo)

\* record_diagnosis_loop_started: without it the diagnosis does not begin,
\* also when the backend recorded it and only its answer is lost.
RecordStarted ==
  /\ pc = "start"
  /\ \/ /\ NoFault
        /\ started' = started \cup {row}
        /\ lost' = lost \ {row}
        /\ pc' = "work"
        /\ UNCHANGED eligible
     \/ /\ Fault
        /\ started' \in {started, started \cup {row}}
        /\ lost' = lost \cup (started' \ started)
        /\ CountEligible
  /\ UNCHANGED <<status, file, limit, mode, after, page, todo, more, row, used,
                 owed, changes>>

\* Faulty variant: a failed pass returns without a record.
DiagnoseUnrecorded ==
  /\ pc = "work"
  /\ pc' \in {"record", RowOrDisposal(todo)}
  /\ used' \in {n \in {used, used + 1} : n <= limit}
  /\ UNCHANGED <<status, started, file, limit, mode, after, page, todo, more, row,
                 eligible, owed, lost, changes, faults>>

\* Case file, hypotheses and one policy-enforced pass; a pass that ends well
\* may write a review packet, which takes a unit of the budget.
Diagnose ==
  /\ pc = "work"
  /\ pc' = "record"
  /\ used' \in {n \in {used, used + 1} : n <= limit}
  /\ UNCHANGED <<status, started, file, limit, mode, after, page, todo, more, row,
                 eligible, owed, lost, changes, faults>>

\* Faulty variant: a diagnosis whose record fails does not count.
RecordUncounted ==
  /\ pc = "record"
  /\ \/ /\ NoFault
        /\ started' = started \ {row}
        /\ UNCHANGED lost
        /\ CountEligible
     \/ /\ Fault
        /\ started' \in {started, started \ {row}}
        /\ lost' = lost \cup {row}
        /\ pc' = RowOrDisposal(todo)
        /\ UNCHANGED eligible
  /\ UNCHANGED <<status, file, limit, mode, after, page, todo, more, row, used,
                 owed, changes>>

\* record_diagnosis_loop_completed or _failed; the row counts all the same
\* when the write fails or its answer is lost.
RecordEnded ==
  /\ pc = "record"
  /\ \/ NoFault /\ started' = started \ {row} /\ UNCHANGED lost
     \/ /\ Fault
        /\ started' \in {started, started \ {row}}
        /\ lost' = lost \cup {row}
  /\ CountEligible
  /\ UNCHANGED <<status, file, limit, mode, after, page, todo, more, row, used,
                 owed, changes>>

-----------------------------------------------------------------------------
(* The cursor after the batch: decide_cursor_disposition. *)

\* Faulty variant: a page that was not finished is read again from its start.
RepeatsPage == mode = "ids" \/ (page = {} /\ after = 0) \/ todo # {}

\* Incidents that were named leave the cursor alone, and so does an empty
\* listing without one.
KeepsCursor == mode = "ids" \/ (page = {} /\ after = 0)

\* Faulty variant: the end of a page is taken for the end of the listing.
ClearsAtEndOfPage == page = {} \/ todo = {}

\* Nothing is listed after the cursor, or the last page is consumed.
ClearsCursor == page = {} \/ (todo = {} /\ ~ more)

\* Faulty variant: the cursor moves to the end of the page, examined or not.
EndOfPage ==
  CASE KeepsCursor                    -> file
    [] ~ KeepsCursor /\ ClearsCursor -> Absent
    [] OTHER -> CHOOSE i \in page : \A j \in page : i >= j

\* More pages, or the rest of this one: resume after the row examined last.
Disposition ==
  CASE KeepsCursor                    -> file
    [] ~ KeepsCursor /\ ClearsCursor -> Absent
    [] OTHER                          -> row

\* The decision is carried out or, when the file cannot be written, dropped.
Dispose ==
  /\ pc = "dispose"
  /\ pc' = "idle"
  /\ \/ NoFault /\ file' = Disposition
     \/ Fault /\ UNCHANGED file
  /\ NoRun
  /\ UNCHANGED <<status, started, limit, owed, lost, changes>>

\* The process dies, the listing fails, or a step raises an exception that
\* only the caller of the collector catches.
Abort ==
  /\ pc # "idle"
  /\ Fault
  /\ pc' = "idle"
  /\ lost' = IF pc \in {"work", "record"} THEN lost \cup {row} ELSE lost
  /\ NoRun
  /\ UNCHANGED <<status, started, file, limit, owed, changes>>

-----------------------------------------------------------------------------
Collect == \/ BeginScan
           \/ List
           \/ \E i \in Incident : PassOver(i) \/ TakeUp(i)
           \/ RecordStarted
           \/ Diagnose
           \/ RecordEnded
           \/ Dispose

Next == \/ Collect
        \/ Abort
        \/ \E ids \in SUBSET Incident : BeginIds(ids)
        \/ \E i \in Incident : Open(i) \/ AskReview(i) \/ Resume(i) \/ Close(i)

Spec == Init /\ [][Next]_vars

\* The scheduler starts run after run and a run goes on.
FairSpec == Spec /\ WF_vars(Collect)
-----------------------------------------------------------------------------
\* The saved cursor passes no incident by: every incident that was listed all
\* the time since the sweep began and has not been examined lies behind the
\* cursor, whatever pages were left half done, crashed or failed to be saved.
CursorPassesNoRow == file \in Incident => \A i \in owed : i > file

\* A cursor is removed only when the sweep is complete: nothing that was
\* listed all the time since it began is left unexamined.
SweepIsComplete == [][(file \in Incident /\ file' = Absent) => owed = {}]_vars

\* A diagnosis runs only after its start is on record, and one that is on
\* record as started and never ended is the one that runs now or fell to a
\* fault: no path through a row forgets the second event.
LoopAccounted ==
  /\ pc \in {"work", "record"} => row \in started
  /\ \A i \in started :
        i \in lost \/ (row = i /\ pc \in {"work", "record"})

\* If the run may write as many packets as it may make diagnoses, no row is
\* turned down for want of budget: the batch ends before the budget does.
BudgetOutlastsRun == limit >= MaxDiagnoses /\ pc = "rows" => used < limit

\* An incident that stays listed is examined again and again.
EveryRowExamined ==
  \A i \in Incident : <>[](i \in Listed) => []<><<Examine(i)>>_vars

\* No incident that stays active is starved: it is diagnosed again and again.
NeverStarved ==
  \A i \in Incident :
     <>[](status[i] = "active") => []<>(pc = "work" /\ row = i)

\* That holds when the packets suffice for the diagnoses of a run.
FairWithBudget == limit >= MaxDiagnoses => NeverStarved
=============================================================================
