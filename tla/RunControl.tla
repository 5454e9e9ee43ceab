----------------------------- MODULE RunControl -----------------------------
(***************************************************************************)
(* The run control of the frontend (src/frontend/src/run-control): which   *)
(* run is selected, what is shown of it, and the requests for the list of  *)
(* runs and for the selected run.                                          *)
(*                                                                         *)
(* The reducer updates the model and queues effects; after React has       *)
(* committed the model, the hook useRunControl executes them.  Requests    *)
(* are answered in any order, also after they were superseded or aborted.  *)
(* A message is one step: setModel runs the reducer on the latest model.   *)
(*                                                                         *)
(* Left out: times, error texts and the reason of a selection, which are   *)
(* displayed only; the contents of the list but for the ids the reducer    *)
(* looks at; the second execution of updaters in React's StrictMode, which *)
(* the production build does not do.                                       *)
(***************************************************************************)
EXTENDS Integers, FiniteSets

CONSTANTS
  Run,              \* run ids
  None,             \* null
  MayFallBack,      \* the server answers with another run for one it lacks
  MaxCommands       \* bound: commands of the user and ticks of the poll timer

ASSUME ConstantsAssumption ==
  /\ None \notin Run
  /\ None \notin Nat
  /\ None \notin [runId : Run, asked : Run]
  /\ None \notin [requestSeq : Nat, runId : Run]
  /\ MayFallBack \in BOOLEAN
  /\ MaxCommands \in Nat

VARIABLES
  nextRequestSeq,
  runs,             \* [status, requestSeq, lastRefreshReason]
  selection,        \* [selectedRunId, latestRunId]
  selectedRun,      \* [status, requestSeq, requestedRunId, payload]
  hasNewerLatest,
  effects,          \* pendingEffectsRef
  inFlight,         \* inFlightRequestSeqRef, inFlightRunIdRef
  fetches,          \* calls of fetchRun that have not settled
  listFetches,      \* requestSeqs of calls of fetchRunsList not settled
  slowTimers,       \* slowTimersRef
  stored,           \* the selected run in localStorage
  commands          \* counter of the bound

model == <<nextRequestSeq, runs, selection, selectedRun, hasNewerLatest>>
hook == <<inFlight, fetches, listFetches, slowTimers, stored>>
vars == <<model, effects, hook, commands>>

\* What is shown of a run; asked is history: the run its request was for.
Payload == [runId : Run, asked : Run]
Request == [requestSeq : Nat, runId : Run]

\* A list of runs, newest first: its first id and the ids in it.
RunsList ==
  {l \in [latest : Run \cup {None}, items : SUBSET Run] :
     IF l.items = {} THEN l.latest = None ELSE l.latest \in l.items}

Loading == {"loading", "slow"}

-----------------------------------------------------------------------------
Idle == [status |-> "idle", requestSeq |-> None, requestedRunId |-> None,
         payload |-> None]

NoList == [status |-> "idle", requestSeq |-> None, lastRefreshReason |-> None]

\* createInitialRunControlModel, with the selection of localStorage.
Init ==
  /\ stored \in Run \cup {None}
  /\ nextRequestSeq = 1
  /\ runs = NoList
  /\ selection = [selectedRunId |-> stored, latestRunId |-> None]
  /\ selectedRun = Idle
  /\ hasNewerLatest = FALSE
  /\ effects = {}
  /\ inFlight = None
  /\ fetches = {}
  /\ listFetches = {}
  /\ slowTimers = {}
  /\ commands = 0

Command == /\ commands < MaxCommands
           /\ commands' = commands + 1

FetchRun(q, r) == [type |-> "fetchRun", requestSeq |-> q, runId |-> r]
FetchRuns(q) == [type |-> "fetchRuns", requestSeq |-> q, runId |-> None]
CancelTimer(q) == [type |-> "cancelSlowRunTimer", requestSeq |-> q, runId |-> None]

\* A new request for run r; its slow timer is scheduled with the fetch.
Load(r, payload) ==
  /\ nextRequestSeq' = nextRequestSeq + 1
  /\ selectedRun' = [status |-> "loading", requestSeq |-> nextRequestSeq,
                     requestedRunId |-> r, payload |-> payload]
  /\ effects' = effects \cup {FetchRun(nextRequestSeq, r)}

\* Faulty variant: the payload on display, whatever its run.
AnyPayload(r) == selectedRun.payload

\* The payload on display, if it is of run r.
SamePayload(r) ==
  IF selectedRun.payload # None /\ selectedRun.payload.runId = r
  THEN selectedRun.payload ELSE None

Newer(r, latest) == latest # None /\ latest # r

RequestRuns(reason) ==
  /\ nextRequestSeq' = nextRequestSeq + 1
  /\ runs' = [status |-> "loading", requestSeq |-> nextRequestSeq,
              lastRefreshReason |-> reason]
  /\ effects' = effects \cup {FetchRuns(nextRequestSeq)}
  /\ UNCHANGED <<selection, selectedRun, hasNewerLatest>>

-----------------------------------------------------------------------------
(* Commands                                                                *)

Boot ==
  /\ Command
  /\ runs.status \notin {"loading", "loaded"}
  /\ RequestRuns("boot")
  /\ UNCHANGED hook

ManualRefreshClicked ==
  /\ Command
  /\ RequestRuns("manual")
  /\ UNCHANGED hook

PollTick ==
  /\ Command
  /\ RequestRuns("poll")
  /\ UNCHANGED hook

RunSelected(r) ==
  /\ Command
  /\ Load(r, SamePayload(r))
  /\ selection' = [selection EXCEPT !.selectedRunId = r]
  /\ hasNewerLatest' = Newer(r, selection.latestRunId)
  /\ UNCHANGED <<runs, hook>>

\* Faulty variant: without a latest run, null is selected.
LatestUnknownClicked ==
  /\ Command
  /\ Load(selection.latestRunId, SamePayload(selection.latestRunId))
  /\ selection' = [selection EXCEPT !.selectedRunId = selection.latestRunId]
  /\ hasNewerLatest' = FALSE
  /\ UNCHANGED <<runs, hook>>

LatestClicked ==
  /\ Command
  /\ selection.latestRunId # None
  /\ Load(selection.latestRunId, SamePayload(selection.latestRunId))
  /\ selection' = [selection EXCEPT !.selectedRunId = selection.latestRunId]
  /\ hasNewerLatest' = FALSE
  /\ UNCHANGED <<runs, hook>>

\* The request in flight and its timer go on.
SelectionCleared ==
  /\ Command
  /\ selection' = [selection EXCEPT !.selectedRunId = None]
  /\ selectedRun' = Idle
  /\ hasNewerLatest' = FALSE
  /\ UNCHANGED <<nextRequestSeq, runs, effects, hook>>

RetrySelectedRunClicked ==
  /\ Command
  /\ LET r == IF selectedRun.requestedRunId # None
              THEN selectedRun.requestedRunId ELSE selection.selectedRunId
     IN  /\ r # None
         /\ Load(r, SamePayload(r))
  /\ UNCHANGED <<runs, selection, hasNewerLatest, hook>>

\* The page is loaded again: only localStorage is left.
Reload ==
  /\ Command
  /\ nextRequestSeq' = 1
  /\ runs' = NoList
  /\ selection' = [selectedRunId |-> stored, latestRunId |-> None]
  /\ selectedRun' = Idle
  /\ hasNewerLatest' = FALSE
  /\ effects' = {}
  /\ inFlight' = None
  /\ fetches' = {}
  /\ listFetches' = {}
  /\ slowTimers' = {}
  /\ UNCHANGED stored

-----------------------------------------------------------------------------
(* Answers for the list: the messages RunsLoaded and RunsFailed            *)

ListSettles(q) ==
  /\ q \in listFetches
  /\ listFetches' = listFetches \ {q}
  /\ UNCHANGED <<inFlight, fetches, slowTimers, stored, commands>>

\* The answer, or the failure, of a request that a later one superseded.
ListStale(q) ==
  /\ ListSettles(q)
  /\ runs.requestSeq # q
  /\ UNCHANGED <<model, effects>>

RunsFailed(q) ==
  /\ ListSettles(q)
  /\ runs.requestSeq = q
  /\ runs' = [runs EXCEPT !.status = "failed"]
  /\ UNCHANGED <<nextRequestSeq, selection, selectedRun, hasNewerLatest, effects>>

ListAccepted(q, list) ==
  /\ ListSettles(q)
  /\ runs.requestSeq = q
  /\ runs' = [runs EXCEPT !.status = "loaded"]

\* No selection, or one that the list no longer has: the latest run is loaded.
SelectsLatest(list) ==
  /\ list.latest # None
  /\ selection.selectedRunId \notin list.items

RunsLoadedSelectsLatest(q, list) ==
  /\ ListAccepted(q, list)
  /\ SelectsLatest(list)
  /\ Load(list.latest, None)
  /\ selection' = [selectedRunId |-> list.latest, latestRunId |-> list.latest]
  /\ hasNewerLatest' = FALSE

\* Faulty variant: a poll fetches a loaded run again.
SkipsWhileLoading ==
  /\ selectedRun.status = "loading"
  /\ selectedRun.requestedRunId = selection.selectedRunId

\* The selection is in the list: it is fetched again, unless a poll finds it
\* loaded or it is being loaded.  A slow load does not count as a load.
SkipsRefetch ==
  \/ /\ runs.lastRefreshReason = "poll"
     /\ selectedRun.status = "loaded"
     /\ SamePayload(selection.selectedRunId) # None
  \/ /\ selectedRun.status = "loading"
     /\ selectedRun.requestedRunId = selection.selectedRunId

\* Faulty variant: the offer of the latest run is not updated.
RunsLoadedKeepsOffer(q, list) ==
  /\ ListAccepted(q, list)
  /\ selection.selectedRunId \in list.items
  /\ IF SkipsRefetch
     THEN UNCHANGED <<nextRequestSeq, selectedRun, effects>>
     ELSE Load(selection.selectedRunId, None)
  /\ selection' = [selection EXCEPT !.latestRunId = list.latest]
  /\ UNCHANGED hasNewerLatest

RunsLoadedKeepsSelection(q, list) ==
  /\ ListAccepted(q, list)
  /\ selection.selectedRunId \in list.items
  /\ IF SkipsRefetch
     THEN UNCHANGED <<nextRequestSeq, selectedRun, effects>>
     ELSE Load(selection.selectedRunId, None)
  /\ selection' = [selection EXCEPT !.latestRunId = list.latest]
  /\ hasNewerLatest' = Newer(selection.selectedRunId, list.latest)

\* An empty list, which a failed build of the list is answered with as well.
RunsLoadedEmpty(q, list) ==
  /\ ListAccepted(q, list)
  /\ list.latest = None
  /\ selection' = [selection EXCEPT !.latestRunId = None]
  /\ hasNewerLatest' = FALSE
  /\ UNCHANGED <<nextRequestSeq, selectedRun, effects>>

RunsLoaded(q) == \E list \in RunsList : \/ RunsLoadedSelectsLatest(q, list)
                                       \/ RunsLoadedKeepsSelection(q, list)
                                       \/ RunsLoadedEmpty(q, list)

-----------------------------------------------------------------------------
(* Answers for the selected run: the messages RunLoaded and RunFailed      *)

RequestOf(f) == [requestSeq |-> f.requestSeq, runId |-> f.runId]

\* Faulty variant: any answer clears the refs.
SettlesAny(f) ==
  /\ fetches' = fetches \ {f}
  /\ inFlight' = None
  /\ UNCHANGED <<listFetches, slowTimers, stored, commands>>

\* The refs are cleared by the request that they name only.
Settles(f) ==
  /\ fetches' = fetches \ {f}
  /\ inFlight' = IF inFlight = RequestOf(f) THEN None ELSE inFlight
  /\ UNCHANGED <<listFetches, slowTimers, stored, commands>>

\* Faulty variant: any request for that run.
MatchesRun(f) == selectedRun.requestedRunId = f.runId

\* The request is the one the selected run waits for.
Matches(f) == /\ selectedRun.requestSeq = f.requestSeq
              /\ selectedRun.requestedRunId = f.runId

Accepts(f) == Matches(f) /\ selectedRun.status \in Loading

RunLoaded(f) ==
  /\ f \in fetches
  /\ inFlight = RequestOf(f)
  /\ Accepts(f)
  /\ \E r \in Run :
       /\ r = f.runId \/ MayFallBack
       /\ selectedRun' = [selectedRun EXCEPT !.status = "loaded",
                          !.payload = [runId |-> r, asked |-> f.runId]]
  /\ effects' = effects \cup {CancelTimer(f.requestSeq)}
  /\ Settles(f)
  /\ UNCHANGED <<nextRequestSeq, runs, selection, hasNewerLatest>>

RunFailed(f) ==
  /\ f \in fetches
  /\ inFlight = RequestOf(f)
  /\ Matches(f)
  /\ selectedRun' = [selectedRun EXCEPT !.status = "failed",
                                        !.payload = SamePayload(f.runId)]
  /\ effects' = effects \cup {CancelTimer(f.requestSeq)}
  /\ Settles(f)
  /\ UNCHANGED <<nextRequestSeq, runs, selection, hasNewerLatest>>

\* The hook ignores an answer whose request is no longer the one in flight,
\* aborted or not; the reducer one that the model does not wait for.
RunStale(f) ==
  /\ f \in fetches
  /\ inFlight # RequestOf(f) \/ ~Accepts(f)
  /\ Settles(f)
  /\ UNCHANGED <<model, effects>>

\* RunSlowThresholdReached
SlowTimer(t) ==
  /\ t \in slowTimers
  /\ slowTimers' = slowTimers \ {t}
  /\ selectedRun' = IF Matches(t) /\ selectedRun.status = "loading"
                    THEN [selectedRun EXCEPT !.status = "slow"] ELSE selectedRun
  /\ UNCHANGED <<nextRequestSeq, runs, selection, hasNewerLatest, effects,
                 inFlight, fetches, listFetches, stored, commands>>

-----------------------------------------------------------------------------
(* The commit of a model: the hook executes the effects and persists the   *)
(* selection.  The effects of a queue are in the order of their requests.  *)

Pending(t) == {e \in effects : e.type = t}

\* The requests in flight when effect e is executed: that of the effect before
\* it in the queue, or the present one.
InFlightAt(e) ==
  LET earlier == {d \in Pending("fetchRun") : d.requestSeq < e.requestSeq}
  IN  IF earlier = {} THEN {inFlight}
      ELSE {RequestOf(d) : d \in {c \in earlier :
              \A b \in earlier : b.requestSeq <= c.requestSeq}}

\* Faulty variant: a run that is in flight is not requested again.
DuplicateRun(e) ==
  \E request \in InFlightAt(e) : request # None /\ request.runId = e.runId

\* Deduplication: a request that is in flight is not sent again.
Duplicate(e) == RequestOf(e) \in InFlightAt(e)

Sent == {e \in Pending("fetchRun") : ~Duplicate(e)}

\* Faulty variant: no request aborts another one.
StartWithoutAbort ==
  IF Sent = {} THEN UNCHANGED <<inFlight, fetches>>
  ELSE \E last \in Sent :
         /\ \A e \in Sent : e.requestSeq <= last.requestSeq
         /\ inFlight' = RequestOf(last)
         /\ fetches' = fetches \cup
              {[requestSeq |-> e.requestSeq, runId |-> e.runId,
                aborted |-> FALSE] : e \in Sent}

\* Every request aborts the one before it: the last is in flight.
StartFetches ==
  IF Sent = {} THEN UNCHANGED <<inFlight, fetches>>
  ELSE \E last \in Sent :
         /\ \A e \in Sent : e.requestSeq <= last.requestSeq
         /\ inFlight' = RequestOf(last)
         /\ fetches' = {[f EXCEPT !.aborted = TRUE] : f \in fetches} \cup
              {[requestSeq |-> e.requestSeq, runId |-> e.runId,
                aborted |-> e # last] : e \in Sent}

Commit ==
  /\ effects # {} \/ stored # selection.selectedRunId
  /\ StartFetches
  /\ listFetches' = listFetches \cup {e.requestSeq : e \in Pending("fetchRuns")}
  /\ slowTimers' =
       {t \in slowTimers \cup {RequestOf(e) : e \in Pending("fetchRun")} :
          CancelTimer(t.requestSeq) \notin effects}
  /\ stored' = selection.selectedRunId
  /\ effects' = {}
  /\ UNCHANGED <<model, commands>>

-----------------------------------------------------------------------------
ListAnswer(q) == ListStale(q) \/ RunsLoaded(q) \/ RunsFailed(q)
RunAnswer(f) == RunLoaded(f) \/ RunFailed(f) \/ RunStale(f)

Next ==
  \/ Boot \/ ManualRefreshClicked \/ PollTick
  \/ \E r \in Run : RunSelected(r)
  \/ LatestClicked \/ SelectionCleared \/ RetrySelectedRunClicked \/ Reload
  \/ \E q \in listFetches : ListAnswer(q)
  \/ \E f \in fetches : RunAnswer(f)
  \/ \E t \in slowTimers : SlowTimer(t)
  \/ Commit

Spec == Init /\ [][Next]_vars

\* A request is answered or fails, and React commits a changed model.
FairSpec ==
  /\ Spec
  /\ WF_vars(Commit)
  /\ WF_vars(\E q \in listFetches : ListAnswer(q))
  /\ WF_vars(\E f \in fetches : RunAnswer(f))

-----------------------------------------------------------------------------
(* Properties                                                              *)

Seq0 == Nat \cup {None}
RunId == Run \cup {None}

TypeOK ==
  /\ nextRequestSeq \in Nat
  /\ runs \in [status : {"idle", "loading", "loaded", "failed"},
               requestSeq : Seq0,
               lastRefreshReason : {"boot", "manual", "poll", None}]
  /\ selection \in [selectedRunId : RunId, latestRunId : RunId]
  /\ selectedRun \in [status : {"idle", "loading", "slow", "loaded", "failed"},
                      requestSeq : Seq0, requestedRunId : RunId,
                      payload : Payload \cup {None}]
  /\ hasNewerLatest \in BOOLEAN
  /\ effects \subseteq [type : {"fetchRun", "fetchRuns", "cancelSlowRunTimer"},
                        requestSeq : Nat, runId : RunId]
  /\ inFlight \in Request \cup {None}
  /\ fetches \subseteq [requestSeq : Nat, runId : Run, aborted : BOOLEAN]
  /\ listFetches \subseteq Nat
  /\ slowTimers \subseteq [requestSeq : Nat, runId : RunId]
  /\ stored \in RunId
  /\ commands \in Nat

\* What is requested and shown is the selected run.  A payload of another run
\* is on display only if the server gave it for the request of this one.
ShowsSelected ==
  IF selectedRun.status = "idle"
  THEN selectedRun = Idle
  ELSE /\ selection.selectedRunId # None
       /\ selectedRun.requestedRunId = selection.selectedRunId
       /\ selectedRun.payload # None =>
            selection.selectedRunId \in {selectedRun.payload.runId,
                                         selectedRun.payload.asked}

\* The jump to the latest run is offered when there is another latest run than
\* the selected one, and never otherwise (shouldShowLatestJump).
JumpHonest ==
  hasNewerLatest <=> /\ selection.selectedRunId # None
                     /\ selection.latestRunId # None
                     /\ selection.selectedRunId # selection.latestRunId

Wanted == [requestSeq |-> selectedRun.requestSeq,
           runId |-> selectedRun.requestedRunId]

Queued == /\ FetchRun(Wanted.requestSeq, Wanted.runId) \in effects
          /\ \A e \in Pending("fetchRun") : e.requestSeq <= Wanted.requestSeq

Outstanding == /\ Pending("fetchRun") = {}
               /\ inFlight = Wanted
               /\ \E f \in fetches : RequestOf(f) = Wanted /\ ~f.aborted

\* No request is lost: what the model waits for is queued, with no later one
\* that would abort it, or is in flight and not aborted.
NoLostLoad ==
  /\ selectedRun.status \in Loading => Queued \/ Outstanding
  /\ runs.status = "loading" =>
       runs.requestSeq \in listFetches \/ FetchRuns(runs.requestSeq) \in effects

\* At most the request in flight is not aborted.
OneFetch == \A f \in fetches : ~f.aborted <=> inFlight = RequestOf(f)

\* The answer of a request that the selected run does not wait for changes
\* neither the selection nor what is shown.
LateAnswersIgnored ==
  [][\A f \in fetches :
       /\ f.requestSeq \notin {g.requestSeq : g \in fetches'}
       /\ f.requestSeq # selectedRun.requestSeq
       /\ commands' = commands
       => UNCHANGED model]_vars

\* A poll never takes a loaded payload of the selected run off the display as
\* long as the run is in the list.
PollKeepsPayload ==
  [][(\E q \in listFetches : q \notin listFetches')
       /\ commands' = commands
       /\ runs.lastRefreshReason = "poll"
       /\ selectedRun.status = "loaded"
       /\ SamePayload(selection.selectedRunId) # None
       /\ selection'.selectedRunId = selection.selectedRunId
     => selectedRun' = selectedRun]_vars

\* Every load ends, whatever is superseded and aborted meanwhile, once the user
\* and the poll timer leave it alone.
LoadEnds == selectedRun.status \in Loading ~> selectedRun.status \notin Loading

\* A poll does not restart the load of the selected run, slow or not
\* (runControlReducer.ts:349: no duplicate fetch for a run that is loading).
PollKeepsLoad ==
  [][(\E q \in listFetches : q \notin listFetches')
       /\ commands' = commands
       /\ runs.lastRefreshReason = "poll"
       /\ selectedRun.status \in Loading
       /\ selection'.selectedRunId = selection.selectedRunId
     => selectedRun'.requestSeq = selectedRun.requestSeq]_vars

View == INSTANCE RunView
          WITH selected <- selection.selectedRunId, shown <- selectedRun.payload,
               phase <- selectedRun.status, saved <- stored

\* Whatever is requested, superseded, aborted and answered late, the user sees
\* what RunView describes; every step of the run control is one of its steps or
\* changes nothing that it shows.
ImplementsView == View!Spec
=============================================================================
