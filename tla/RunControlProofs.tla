-------------------------- MODULE RunControlProofs --------------------------
(***************************************************************************)
(* Proofs about RunControl, for any set of runs, any number of commands    *)
(* and any server.                                                         *)
(***************************************************************************)
EXTENDS RunControl, FiniteSetTheorems, FunctionTheorems, TLAPS

\* Requests are numbered in the order in which they are queued: what is in
\* flight was queued before what is pending, and no two share a number.
SeqInv ==
  /\ \A e \in Pending("fetchRun") :
       /\ e.requestSeq < nextRequestSeq /\ e.runId \in Run
       /\ \A d \in Pending("fetchRun") : d.requestSeq = e.requestSeq => d = e
       /\ \A f \in fetches : f.requestSeq < e.requestSeq
       /\ inFlight # None => inFlight.requestSeq < e.requestSeq
  /\ \A f \in fetches : f.requestSeq < nextRequestSeq
  /\ inFlight # None => inFlight.requestSeq < nextRequestSeq

IInv == TypeOK /\ ShowsSelected /\ JumpHonest /\ NoLostLoad /\ OneFetch /\ SeqInv

-----------------------------------------------------------------------------
\* What is kept of a payload is a payload of the run asked for, or nothing.
LEMMA SamePayloadType ==
  ASSUME TypeOK, NEW r
  PROVE  /\ SamePayload(r) \in Payload \cup {None}
         /\ SamePayload(r) # None => SamePayload(r).runId = r
BY DEF TypeOK, SamePayload

\* A new request keeps the order of requests and is not lost.
LEMMA LoadKeeps ==
  ASSUME IInv, NEW r \in Run, NEW p \in Payload \cup {None},
         p # None => p.runId = r,
         Load(r, p), UNCHANGED <<inFlight, fetches>>,
         selection' \in [selectedRunId : {r}, latestRunId : RunId]
  PROVE  /\ nextRequestSeq' \in Nat
         /\ selectedRun' \in [status : {"loading"}, requestSeq : Nat,
                              requestedRunId : {r}, payload : {p}]
         /\ effects' \subseteq [type : {"fetchRun", "fetchRuns", "cancelSlowRunTimer"},
                                requestSeq : Nat, runId : RunId]
         /\ effects \subseteq effects'
         /\ ShowsSelected'
         /\ (Queued \/ Outstanding)'
         /\ OneFetch'
         /\ SeqInv'
<1> USE ConstantsAssumption
<1>1. /\ nextRequestSeq \in Nat
      /\ nextRequestSeq' = nextRequestSeq + 1
      /\ effects' = effects \cup {FetchRun(nextRequestSeq, r)}
      /\ selectedRun' = [status |-> "loading", requestSeq |-> nextRequestSeq,
                         requestedRunId |-> r, payload |-> p]
  BY DEF IInv, TypeOK, Load
<1>2. Pending("fetchRun")' = Pending("fetchRun") \cup {FetchRun(nextRequestSeq, r)}
  BY <1>1 DEF Pending, FetchRun
<1>3. /\ effects' \subseteq [type : {"fetchRun", "fetchRuns", "cancelSlowRunTimer"},
                             requestSeq : Nat, runId : RunId]
      /\ effects \subseteq effects'
  BY <1>1 DEF IInv, TypeOK, FetchRun, RunId
<1>4. ShowsSelected'
  <2>1. selectedRun'.status # "idle"
    BY <1>1
  <2>2. selection'.selectedRunId = r /\ r # None
    OBVIOUS
  <2> QED BY <2>1, <2>2, <1>1 DEF ShowsSelected
<1>5. (Queued \/ Outstanding)'
  <2>1. \A e \in Pending("fetchRun") : e.requestSeq \in Nat /\ e.requestSeq < nextRequestSeq
    BY DEF IInv, SeqInv, TypeOK, Pending
  <2>2. \A e \in Pending("fetchRun")' : e.requestSeq <= nextRequestSeq
    BY <1>1, <1>2, <2>1 DEF FetchRun
  <2>3. Wanted'.requestSeq = nextRequestSeq /\ Wanted'.runId = r
    BY <1>1 DEF Wanted
  <2> QED BY <1>1, <2>2, <2>3 DEF Queued, FetchRun
<1>6. OneFetch'
  BY DEF IInv, OneFetch, RequestOf
<1>7. SeqInv'
  <2>1. \A e \in Pending("fetchRun") : e.requestSeq \in Nat /\ e.requestSeq < nextRequestSeq
    BY DEF IInv, SeqInv, TypeOK, Pending
  <2>2. \A f \in fetches : f.requestSeq \in Nat
    BY DEF IInv, TypeOK
  <2>3. inFlight # None => inFlight.requestSeq \in Nat
    BY DEF IInv, TypeOK, Request
  <2>4. inFlight' = inFlight /\ fetches' = fetches
    OBVIOUS
  <2>5. \A e \in Pending("fetchRun")' :
          /\ e.requestSeq < nextRequestSeq' /\ e.runId \in Run
          /\ \A d \in Pending("fetchRun")' : d.requestSeq = e.requestSeq => d = e
    BY <1>1, <1>2, <2>1 DEF IInv, SeqInv, FetchRun
  <2>6. \A e \in Pending("fetchRun")' :
          /\ \A f \in fetches' : f.requestSeq < e.requestSeq
          /\ inFlight' # None => inFlight'.requestSeq < e.requestSeq
    BY <1>1, <1>2, <2>1, <2>2, <2>3, <2>4 DEF IInv, SeqInv, FetchRun
  <2>7. \A f \in fetches' : f.requestSeq < nextRequestSeq'
    BY <1>1, <2>2, <2>4 DEF IInv, SeqInv
  <2>8. inFlight' # None => inFlight'.requestSeq < nextRequestSeq'
    BY <1>1, <2>3, <2>4 DEF IInv, SeqInv
  <2> QED BY <2>5, <2>6, <2>7, <2>8 DEF SeqInv
<1> QED BY <1>1, <1>3, <1>4, <1>5, <1>6, <1>7

\* A step that queues and settles no request for a run keeps their order.
LEMMA QuietKeeps ==
  ASSUME IInv, UNCHANGED <<inFlight, fetches>>,
         nextRequestSeq' \in Nat, nextRequestSeq' >= nextRequestSeq,
         Pending("fetchRun")' = Pending("fetchRun")
  PROVE  OneFetch' /\ SeqInv'
<1>1. OneFetch'
  BY DEF IInv, OneFetch, RequestOf
<1>2. SeqInv'
  <2>1. \A e \in Pending("fetchRun") : e.requestSeq \in Nat
    BY DEF IInv, TypeOK, Pending
  <2>2. \A f \in fetches : f.requestSeq \in Nat
    BY DEF IInv, TypeOK
  <2>3. inFlight # None => inFlight.requestSeq \in Nat
    BY DEF IInv, TypeOK, Request
  <2>4. nextRequestSeq \in Nat
    BY DEF IInv, TypeOK
  <2> QED BY <2>1, <2>2, <2>3, <2>4 DEF IInv, SeqInv
<1> QED BY <1>1, <1>2

\* It loses no load if the selected run waits for the same request as before.
LEMMA QuietLoses ==
  ASSUME Queued \/ Outstanding, UNCHANGED <<inFlight, fetches>>,
         effects \subseteq effects',
         Pending("fetchRun")' = Pending("fetchRun"), Wanted' = Wanted
  PROVE  (Queued \/ Outstanding)'
BY DEF Queued, Outstanding, RequestOf

\* A request for the list is queued.
LEMMA RequestRunsKeeps ==
  ASSUME IInv, NEW reason \in {"boot", "manual", "poll"},
         RequestRuns(reason), UNCHANGED hook, commands' \in Nat
  PROVE  IInv'
<1> USE ConstantsAssumption
<1>1. Pending("fetchRun")' = Pending("fetchRun")
  BY DEF Pending, RequestRuns, FetchRuns
<1>2. /\ nextRequestSeq \in Nat /\ nextRequestSeq' = nextRequestSeq + 1
      /\ UNCHANGED <<selection, selectedRun, hasNewerLatest>>
      /\ UNCHANGED <<inFlight, fetches, listFetches, slowTimers, stored>>
      /\ effects' = effects \cup {FetchRuns(nextRequestSeq)}
      /\ runs' = [status |-> "loading", requestSeq |-> nextRequestSeq,
                  lastRefreshReason |-> reason]
  BY DEF IInv, TypeOK, RequestRuns, hook
<1>3. TypeOK'
  BY <1>2 DEF IInv, TypeOK, FetchRuns, RunId, Seq0
<1>4. ShowsSelected' /\ JumpHonest'
  BY <1>2 DEF IInv, ShowsSelected, JumpHonest
<1>5. NoLostLoad'
  <2>1. Wanted' = Wanted
    BY <1>2 DEF Wanted
  <2>2. (selectedRun.status \in Loading => Queued \/ Outstanding)'
    BY <1>1, <1>2, <2>1, QuietLoses DEF IInv, NoLostLoad, Loading
  <2>3. FetchRuns(runs'.requestSeq) \in effects'
    BY <1>2
  <2> QED BY <2>2, <2>3 DEF NoLostLoad, FetchRuns
<1>6. OneFetch' /\ SeqInv'
  BY <1>1, <1>2, QuietKeeps
<1> QED BY <1>3, <1>4, <1>5, <1>6 DEF IInv

\* A command of the user that loads run r.
LEMMA CommandLoadKeeps ==
  ASSUME IInv, NEW r \in Run, NEW p \in Payload \cup {None},
         p # None => p.runId = r, Load(r, p), UNCHANGED <<runs, hook>>,
         selection' \in [selectedRunId : {r}, latestRunId : RunId],
         hasNewerLatest' = Newer(r, selection'.latestRunId),
         commands' \in Nat
  PROVE  IInv'
<1> USE ConstantsAssumption
<1>1. /\ UNCHANGED <<inFlight, fetches, listFetches, slowTimers, stored>>
      /\ UNCHANGED runs
  BY DEF hook
<1>2. /\ nextRequestSeq' \in Nat
      /\ selectedRun' \in [status : {"loading"}, requestSeq : Nat,
                           requestedRunId : {r}, payload : {p}]
      /\ effects' \subseteq [type : {"fetchRun", "fetchRuns", "cancelSlowRunTimer"},
                             requestSeq : Nat, runId : RunId]
      /\ effects \subseteq effects'
      /\ ShowsSelected' /\ (Queued \/ Outstanding)' /\ OneFetch' /\ SeqInv'
  BY <1>1, LoadKeeps
<1>3. TypeOK'
  BY <1>1, <1>2 DEF IInv, TypeOK, RunId, Seq0, Newer
<1>4. JumpHonest'
  BY DEF JumpHonest, Newer
<1>5. NoLostLoad'
  BY <1>1, <1>2 DEF IInv, NoLostLoad, FetchRuns
<1> QED BY <1>2, <1>3, <1>4, <1>5 DEF IInv

-----------------------------------------------------------------------------
LEMMA Initial == Init => IInv
<1> SUFFICES ASSUME Init PROVE IInv
  OBVIOUS
<1> USE ConstantsAssumption
<1>1. TypeOK
  BY DEF Init, TypeOK, NoList, Idle, Seq0, RunId
<1>2. ShowsSelected /\ JumpHonest /\ NoLostLoad
  BY DEF Init, ShowsSelected, JumpHonest, NoLostLoad, NoList, Idle, Loading
<1>3. OneFetch /\ SeqInv
  BY DEF Init, OneFetch, SeqInv, Pending
<1> QED BY <1>1, <1>2, <1>3 DEF IInv

-----------------------------------------------------------------------------
(* The commands                                                            *)

LEMMA BootKeeps == IInv /\ (Boot \/ ManualRefreshClicked \/ PollTick) => IInv'
<1> SUFFICES ASSUME IInv, Boot \/ ManualRefreshClicked \/ PollTick
             PROVE  IInv'
  OBVIOUS
<1>1. commands' \in Nat
  BY DEF IInv, TypeOK, Boot, ManualRefreshClicked, PollTick, Command
<1>2. \E reason \in {"boot", "manual", "poll"} : RequestRuns(reason)
  BY DEF Boot, ManualRefreshClicked, PollTick
<1>3. UNCHANGED hook
  BY DEF Boot, ManualRefreshClicked, PollTick
<1> QED BY <1>1, <1>2, <1>3, RequestRunsKeeps

LEMMA RunSelectedKeeps == IInv /\ (\E r \in Run : RunSelected(r)) => IInv'
<1> SUFFICES ASSUME IInv, NEW r \in Run, RunSelected(r)
             PROVE  IInv'
  OBVIOUS
<1>1. /\ SamePayload(r) \in Payload \cup {None}
      /\ SamePayload(r) # None => SamePayload(r).runId = r
  BY SamePayloadType DEF IInv
<1>2. /\ Load(r, SamePayload(r)) /\ UNCHANGED <<runs, hook>>
      /\ commands' \in Nat
  BY DEF IInv, TypeOK, RunSelected, Command
<1>3. /\ selection' \in [selectedRunId : {r}, latestRunId : RunId]
      /\ hasNewerLatest' = Newer(r, selection'.latestRunId)
  BY DEF IInv, TypeOK, RunSelected, Newer
<1> QED BY <1>1, <1>2, <1>3, CommandLoadKeeps

LEMMA LatestClickedKeeps == IInv /\ LatestClicked => IInv'
<1> SUFFICES ASSUME IInv, LatestClicked
             PROVE  IInv'
  OBVIOUS
<1> DEFINE r == selection.latestRunId
<1>1. r \in Run
  BY DEF IInv, TypeOK, LatestClicked, RunId
<1>2. /\ SamePayload(r) \in Payload \cup {None}
      /\ SamePayload(r) # None => SamePayload(r).runId = r
  BY SamePayloadType DEF IInv
<1>3. /\ Load(r, SamePayload(r)) /\ UNCHANGED <<runs, hook>>
      /\ commands' \in Nat
  BY DEF IInv, TypeOK, LatestClicked, Command
<1>4. /\ selection' \in [selectedRunId : {r}, latestRunId : RunId]
      /\ hasNewerLatest' = Newer(r, selection'.latestRunId)
  BY DEF IInv, TypeOK, LatestClicked, Newer
<1> HIDE DEF r
<1> QED BY <1>1, <1>2, <1>3, <1>4, CommandLoadKeeps

LEMMA RetryKeeps == IInv /\ RetrySelectedRunClicked => IInv'
<1> SUFFICES ASSUME IInv, RetrySelectedRunClicked
             PROVE  IInv'
  OBVIOUS
<1> DEFINE r == selection.selectedRunId
<1> USE ConstantsAssumption
<1>1. r # None /\ Load(r, SamePayload(r))
  \* What is loaded or was loaded is the selected run.
  <2>1. CASE selectedRun.requestedRunId # None
    <3>1. selectedRun.requestedRunId = r
      BY <2>1 DEF IInv, ShowsSelected, Idle
    <3> QED BY <2>1, <3>1 DEF RetrySelectedRunClicked
  <2>2. CASE selectedRun.requestedRunId = None
    BY <2>2 DEF RetrySelectedRunClicked
  <2> QED BY <2>1, <2>2
<1>2. r \in Run
  BY <1>1 DEF IInv, TypeOK, RunId
<1>3. /\ SamePayload(r) \in Payload \cup {None}
      /\ SamePayload(r) # None => SamePayload(r).runId = r
  BY SamePayloadType DEF IInv
<1>4. /\ UNCHANGED <<runs, selection, hasNewerLatest, hook>>
      /\ commands' \in Nat
  BY DEF IInv, TypeOK, RetrySelectedRunClicked, Command
<1>5. /\ selection' \in [selectedRunId : {r}, latestRunId : RunId]
      /\ hasNewerLatest' = Newer(r, selection'.latestRunId)
  BY <1>1, <1>4 DEF IInv, TypeOK, JumpHonest, Newer
<1> HIDE DEF r
<1> QED BY <1>1, <1>2, <1>3, <1>4, <1>5, CommandLoadKeeps

LEMMA SelectionClearedKeeps == IInv /\ SelectionCleared => IInv'
<1> SUFFICES ASSUME IInv, SelectionCleared
             PROVE  IInv'
  OBVIOUS
<1> USE ConstantsAssumption
<1>1. /\ UNCHANGED <<nextRequestSeq, runs, effects>>
      /\ UNCHANGED <<inFlight, fetches, listFetches, slowTimers, stored>>
      /\ selection' = [selection EXCEPT !.selectedRunId = None]
      /\ selectedRun' = Idle /\ hasNewerLatest' = FALSE
      /\ commands' \in Nat
  BY DEF SelectionCleared, hook, Command, IInv, TypeOK
<1>2. TypeOK'
  BY <1>1 DEF IInv, TypeOK, Idle, Seq0, RunId
<1>3. ShowsSelected' /\ JumpHonest'
  BY <1>1 DEF IInv, TypeOK, ShowsSelected, JumpHonest, Idle
<1>4. NoLostLoad'
  BY <1>1 DEF IInv, NoLostLoad, Idle, Loading
<1>5. OneFetch' /\ SeqInv'
  BY <1>1, QuietKeeps DEF Pending, IInv, TypeOK
<1> QED BY <1>2, <1>3, <1>4, <1>5 DEF IInv

LEMMA ReloadKeeps == IInv /\ Reload => IInv'
<1> SUFFICES ASSUME IInv, Reload
             PROVE  IInv'
  OBVIOUS
<1> USE ConstantsAssumption
<1>1. TypeOK'
  <2>1. stored \in RunId /\ commands' \in Nat
    BY DEF Reload, Command, IInv, TypeOK
  <2>2. nextRequestSeq' \in Nat /\ hasNewerLatest' \in BOOLEAN /\ stored' \in RunId
    BY <2>1 DEF Reload
  <2>3. runs' \in [status : {"idle", "loading", "loaded", "failed"},
                  requestSeq : Seq0,
                  lastRefreshReason : {"boot", "manual", "poll", None}]
    BY DEF Reload, NoList, Seq0
  <2>4. selection' \in [selectedRunId : RunId, latestRunId : RunId]
    BY <2>1 DEF Reload, RunId
  <2>5. selectedRun' \in [status : {"idle", "loading", "slow", "loaded", "failed"},
                         requestSeq : Seq0, requestedRunId : RunId,
                         payload : Payload \cup {None}]
    BY DEF Reload, Idle, Seq0, RunId
  <2> QED BY <2>1, <2>2, <2>3, <2>4, <2>5 DEF Reload, TypeOK
<1>2. ShowsSelected' /\ JumpHonest' /\ NoLostLoad'
  BY DEF Reload, ShowsSelected, JumpHonest, NoLostLoad, NoList, Idle, Loading
<1>3. OneFetch' /\ SeqInv'
  BY DEF Reload, OneFetch, SeqInv, Pending
<1> QED BY <1>1, <1>2, <1>3 DEF IInv

-----------------------------------------------------------------------------
(* The answers for the list                                                *)

\* Settling a list that is not waited for, or no longer, loses nothing.
LEMMA ListQuietKeeps ==
  ASSUME IInv, NEW q, ListSettles(q),
         UNCHANGED <<nextRequestSeq, selectedRun, effects>>,
         runs'.status # "loading" \/ (UNCHANGED runs /\ runs.requestSeq # q)
  PROVE  NoLostLoad' /\ OneFetch' /\ SeqInv'
<1>1. /\ UNCHANGED <<inFlight, fetches>>
      /\ listFetches' = listFetches \ {q}
  BY DEF ListSettles
<1>2. Pending("fetchRun")' = Pending("fetchRun") /\ Wanted' = Wanted
  BY DEF Pending, Wanted
<1>3. NoLostLoad'
  BY <1>1, <1>2, QuietLoses DEF IInv, NoLostLoad, FetchRuns
<1>4. OneFetch' /\ SeqInv'
  BY <1>1, <1>2, QuietKeeps DEF IInv, TypeOK
<1> QED BY <1>3, <1>4

LEMMA ListStaleKeeps ==
  ASSUME IInv, NEW q \in listFetches, ListStale(q) \/ RunsFailed(q)
  PROVE  IInv'
<1>1. ListSettles(q) /\ UNCHANGED <<nextRequestSeq, selection, selectedRun,
                                   hasNewerLatest, effects>>
  BY DEF ListStale, RunsFailed, model
<1>2. \/ UNCHANGED runs /\ runs.requestSeq # q
      \/ runs' = [runs EXCEPT !.status = "failed"]
  BY DEF ListStale, RunsFailed, model
<1>3. NoLostLoad' /\ OneFetch' /\ SeqInv'
  BY <1>1, <1>2, ListQuietKeeps DEF IInv, TypeOK
<1>4. TypeOK'
  BY <1>1, <1>2 DEF IInv, TypeOK, ListSettles
<1>5. ShowsSelected' /\ JumpHonest'
  BY <1>1 DEF IInv, ShowsSelected, JumpHonest
<1> QED BY <1>3, <1>4, <1>5 DEF IInv

\* The list makes a run r be loaded.
LEMMA ListLoadKeeps ==
  ASSUME IInv, NEW q \in listFetches, NEW list \in RunsList,
         ListAccepted(q, list), NEW r \in Run, Load(r, None),
         selection' = [selectedRunId |-> r, latestRunId |-> list.latest],
         hasNewerLatest' = Newer(r, list.latest)
  PROVE  IInv'
<1> USE ConstantsAssumption
<1>1. /\ UNCHANGED <<inFlight, fetches, slowTimers, stored, commands>>
      /\ listFetches' = listFetches \ {q}
      /\ runs' = [runs EXCEPT !.status = "loaded"]
  BY DEF ListAccepted, ListSettles
<1>2. list.latest \in RunId
  BY DEF RunsList, RunId
<1>3. selection' \in [selectedRunId : {r}, latestRunId : RunId]
  BY <1>2
<1>4. /\ nextRequestSeq' \in Nat
      /\ selectedRun' \in [status : {"loading"}, requestSeq : Nat,
                           requestedRunId : {r}, payload : {None}]
      /\ effects' \subseteq [type : {"fetchRun", "fetchRuns", "cancelSlowRunTimer"},
                             requestSeq : Nat, runId : RunId]
      /\ ShowsSelected' /\ (Queued \/ Outstanding)' /\ OneFetch' /\ SeqInv'
  <2>1. UNCHANGED <<inFlight, fetches>> /\ None \in Payload \cup {None}
    BY <1>1
  <2> QED BY <2>1, <1>3, LoadKeeps
<1>5. TypeOK'
  BY <1>1, <1>3, <1>4 DEF IInv, TypeOK, RunId, Seq0, Newer
<1>6. JumpHonest'
  BY DEF JumpHonest, Newer
<1>7. NoLostLoad'
  BY <1>1, <1>4 DEF IInv, TypeOK, NoLostLoad
<1> QED BY <1>4, <1>5, <1>6, <1>7 DEF IInv

LEMMA RunsLoadedKeeps ==
  ASSUME IInv, NEW q \in listFetches, RunsLoaded(q)
  PROVE  IInv'
<1> USE ConstantsAssumption
<1> PICK list \in RunsList : \/ RunsLoadedSelectsLatest(q, list)
                            \/ RunsLoadedKeepsSelection(q, list)
                            \/ RunsLoadedEmpty(q, list)
  BY DEF RunsLoaded
<1>1. list.latest \in RunId /\ list.items \subseteq Run
  BY DEF RunsList, RunId
<1>2. CASE RunsLoadedSelectsLatest(q, list)
  <2>1. list.latest \in Run /\ Load(list.latest, None) /\ ListAccepted(q, list)
    BY <1>1, <1>2 DEF RunsLoadedSelectsLatest, SelectsLatest, RunId
  <2>2. /\ selection' = [selectedRunId |-> list.latest, latestRunId |-> list.latest]
        /\ hasNewerLatest' = Newer(list.latest, list.latest)
    BY <1>2 DEF RunsLoadedSelectsLatest, Newer
  <2> QED BY <2>1, <2>2, ListLoadKeeps
<1>3. CASE RunsLoadedKeepsSelection(q, list)
  <2> DEFINE r == selection.selectedRunId
  <2>1. r \in Run /\ ListAccepted(q, list)
    BY <1>1, <1>3 DEF RunsLoadedKeepsSelection
  <2>2. /\ selection' = [selectedRunId |-> r, latestRunId |-> list.latest]
        /\ hasNewerLatest' = Newer(r, list.latest)
    BY <1>3 DEF RunsLoadedKeepsSelection, IInv, TypeOK
  <2>3. CASE Load(r, None)
    <3> HIDE DEF r
    <3> QED BY <2>1, <2>2, <2>3, ListLoadKeeps
  <2>4. CASE UNCHANGED <<nextRequestSeq, selectedRun, effects>>
    <3>1. ListSettles(q) /\ runs' = [runs EXCEPT !.status = "loaded"]
      BY <2>1 DEF ListAccepted
    <3>2. NoLostLoad' /\ OneFetch' /\ SeqInv'
      BY <2>4, <3>1, ListQuietKeeps DEF IInv, TypeOK
    <3>3. TypeOK'
      BY <1>1, <2>1, <2>2, <2>4, <3>1 DEF IInv, TypeOK, ListSettles, RunId, Newer
    <3>4. ShowsSelected' /\ JumpHonest'
      BY <2>1, <2>2, <2>4 DEF IInv, ShowsSelected, JumpHonest, Newer
    <3> QED BY <3>2, <3>3, <3>4 DEF IInv
  <2> QED BY <1>3, <2>3, <2>4 DEF RunsLoadedKeepsSelection
<1>4. CASE RunsLoadedEmpty(q, list)
  <2>1. /\ ListSettles(q) /\ runs' = [runs EXCEPT !.status = "loaded"]
        /\ UNCHANGED <<nextRequestSeq, selectedRun, effects>>
        /\ selection' = [selection EXCEPT !.latestRunId = None]
        /\ hasNewerLatest' = FALSE
    BY <1>4 DEF RunsLoadedEmpty, ListAccepted
  <2>2. NoLostLoad' /\ OneFetch' /\ SeqInv'
    BY <2>1, ListQuietKeeps DEF IInv, TypeOK
  <2>3. TypeOK'
    BY <2>1 DEF IInv, TypeOK, ListSettles, RunId
  <2>4. ShowsSelected' /\ JumpHonest'
    BY <2>1 DEF IInv, TypeOK, ShowsSelected, JumpHonest
  <2> QED BY <2>2, <2>3, <2>4 DEF IInv
<1> QED BY <1>2, <1>3, <1>4

-----------------------------------------------------------------------------
(* The answers for the selected run                                        *)

\* A request that settles leaves at most the one in flight unaborted.
LEMMA SettlesKeeps ==
  ASSUME IInv, NEW f \in fetches, Settles(f), UNCHANGED nextRequestSeq,
         Pending("fetchRun")' = Pending("fetchRun")
  PROVE  OneFetch' /\ SeqInv'
<1> USE ConstantsAssumption
<1>1. /\ fetches' = fetches \ {f}
      /\ inFlight' = IF inFlight = RequestOf(f) THEN None ELSE inFlight
  BY DEF Settles
<1>2. \A g \in fetches : /\ g \in [requestSeq : Nat, runId : Run, aborted : BOOLEAN]
                         /\ RequestOf(g) # None
                         /\ ~g.aborted <=> inFlight = RequestOf(g)
  BY DEF IInv, TypeOK, OneFetch, RequestOf
<1>3. OneFetch'
  <2> SUFFICES ASSUME NEW g \in fetches, g # f
               PROVE  ~g.aborted <=> inFlight' = RequestOf(g)
    BY <1>1 DEF OneFetch, RequestOf
  <2>1. CASE inFlight # RequestOf(f)
    BY <1>1, <1>2, <2>1
  <2>2. CASE inFlight = RequestOf(f)
    \* Two requests that are not aborted would both be the one in flight.
    <3>1. ASSUME ~g.aborted PROVE FALSE
      <4>1. g.requestSeq = f.requestSeq /\ g.runId = f.runId
        BY <1>2, <2>2, <3>1 DEF RequestOf
      <4>2. g.aborted = FALSE /\ f.aborted = FALSE
        BY <1>2, <2>2, <3>1
      <4>3. /\ g = [requestSeq |-> g.requestSeq, runId |-> g.runId, aborted |-> g.aborted]
            /\ f = [requestSeq |-> f.requestSeq, runId |-> f.runId, aborted |-> f.aborted]
        BY <1>2
      <4> QED BY <4>1, <4>2, <4>3
    <3>2. inFlight' = None
      BY <1>1, <2>2
    <3> QED BY <1>2, <3>1, <3>2
  <2> QED BY <2>1, <2>2
<1>4. SeqInv'
  BY <1>1 DEF IInv, SeqInv
<1> QED BY <1>3, <1>4

\* The answer of the request that is waited for, or its failure.
LEMMA RunAnswerKeeps ==
  ASSUME IInv, NEW f \in fetches, RunLoaded(f) \/ RunFailed(f)
  PROVE  IInv'
<1> USE ConstantsAssumption
<1>1. /\ Settles(f) /\ Matches(f)
      /\ effects' = effects \cup {CancelTimer(f.requestSeq)}
      /\ UNCHANGED <<nextRequestSeq, runs, selection, hasNewerLatest>>
  BY DEF RunLoaded, RunFailed, Accepts
<1>2. UNCHANGED <<listFetches, slowTimers, stored, commands>>
  BY <1>1 DEF Settles
<1>3. f \in [requestSeq : Nat, runId : Run, aborted : BOOLEAN]
  BY DEF IInv, TypeOK
<1>4. f.runId = selection.selectedRunId
  BY <1>1, <1>3 DEF IInv, ShowsSelected, Matches, Idle
<1>5. \E p \in Payload \cup {None}, status \in {"loaded", "failed"} :
        /\ selectedRun' = [selectedRun EXCEPT !.status = status, !.payload = p]
        /\ p # None => f.runId \in {p.runId, p.asked}
  <2>1. CASE RunLoaded(f)
    <3> PICK r \in Run :
           selectedRun' = [selectedRun EXCEPT !.status = "loaded",
                            !.payload = [runId |-> r, asked |-> f.runId]]
      BY <2>1 DEF RunLoaded
    <3> DEFINE p == [runId |-> r, asked |-> f.runId]
    <3>1. p \in Payload /\ f.runId \in {p.runId, p.asked}
      BY <1>3 DEF Payload
    <3> QED BY <3>1
  <2>2. CASE RunFailed(f)
    BY <2>2, SamePayloadType DEF RunFailed, IInv
  <2> QED BY <2>1, <2>2
<1>6. Pending("fetchRun")' = Pending("fetchRun")
  BY <1>1 DEF Pending, CancelTimer
<1>7. TypeOK'
  <2>1. selectedRun' \in [status : {"idle", "loading", "slow", "loaded", "failed"},
                         requestSeq : Seq0, requestedRunId : RunId,
                         payload : Payload \cup {None}]
    BY <1>5 DEF IInv, TypeOK
  <2>2. effects' \subseteq [type : {"fetchRun", "fetchRuns", "cancelSlowRunTimer"},
                           requestSeq : Nat, runId : RunId]
    BY <1>1, <1>3 DEF IInv, TypeOK, CancelTimer, RunId
  <2>3. /\ inFlight' \in Request \cup {None}
        /\ fetches' \subseteq [requestSeq : Nat, runId : Run, aborted : BOOLEAN]
    BY <1>1 DEF IInv, TypeOK, Settles
  <2> QED BY <1>1, <1>2, <2>1, <2>2, <2>3 DEF IInv, TypeOK
<1>8. ShowsSelected' /\ JumpHonest'
  BY <1>1, <1>3, <1>4, <1>5 DEF IInv, TypeOK, ShowsSelected, JumpHonest, Matches
<1>9. NoLostLoad'
  BY <1>1, <1>2, <1>5 DEF IInv, TypeOK, NoLostLoad, Loading, FetchRuns
<1>10. OneFetch' /\ SeqInv'
  BY <1>1, <1>6, SettlesKeeps
<1> QED BY <1>7, <1>8, <1>9, <1>10 DEF IInv

\* An answer that is ignored is not of the request that is waited for.
LEMMA RunStaleKeeps ==
  ASSUME IInv, NEW f \in fetches, RunStale(f)
  PROVE  IInv'
<1> USE ConstantsAssumption
<1>1. /\ Settles(f)
      /\ UNCHANGED <<nextRequestSeq, runs, selection, selectedRun, hasNewerLatest>>
      /\ UNCHANGED effects
      /\ UNCHANGED <<listFetches, slowTimers, stored, commands>>
  BY DEF RunStale, Settles, model
<1>2. Pending("fetchRun")' = Pending("fetchRun") /\ Wanted' = Wanted
  BY <1>1 DEF Pending, Wanted
<1>3. TypeOK'
  BY <1>1 DEF IInv, TypeOK, Settles
<1>4. ShowsSelected' /\ JumpHonest'
  BY <1>1 DEF IInv, ShowsSelected, JumpHonest
<1>5. NoLostLoad'
  <2>1. ASSUME selectedRun.status \in Loading, Outstanding PROVE Outstanding'
    <3>1. inFlight = Wanted
      BY <2>1 DEF Outstanding
    <3>2. RequestOf(f) # Wanted
      BY <2>1, <3>1 DEF RunStale, Accepts, Matches, RequestOf, Wanted
    <3>3. inFlight' = Wanted
      BY <1>1, <3>1, <3>2 DEF Settles
    <3>4. PICK g \in fetches : RequestOf(g) = Wanted /\ ~g.aborted
      BY <2>1 DEF Outstanding
    <3>5. g \in fetches'
      BY <1>1, <3>2, <3>4 DEF Settles
    <3> QED BY <1>2, <2>1, <3>3, <3>4, <3>5 DEF Outstanding, RequestOf
  <2>2. Queued => Queued'
    BY <1>1, <1>2 DEF Queued
  <2> QED BY <1>1, <2>1, <2>2 DEF IInv, NoLostLoad, FetchRuns
<1>6. OneFetch' /\ SeqInv'
  BY <1>1, <1>2, SettlesKeeps
<1> QED BY <1>3, <1>4, <1>5, <1>6 DEF IInv

LEMMA SlowTimerKeeps ==
  ASSUME IInv, NEW t \in slowTimers, SlowTimer(t)
  PROVE  IInv'
<1> USE ConstantsAssumption
<1>1. /\ UNCHANGED <<nextRequestSeq, runs, selection, hasNewerLatest, effects>>
      /\ UNCHANGED <<inFlight, fetches, listFetches, stored, commands>>
      /\ slowTimers' = slowTimers \ {t}
  BY DEF SlowTimer
<1>2. \/ UNCHANGED selectedRun
      \/ /\ selectedRun.status = "loading"
         /\ selectedRun' = [selectedRun EXCEPT !.status = "slow"]
  BY DEF SlowTimer
<1>3. Pending("fetchRun")' = Pending("fetchRun") /\ Wanted' = Wanted
  BY <1>1, <1>2 DEF Pending, Wanted, IInv, TypeOK
<1>4. TypeOK'
  BY <1>1, <1>2 DEF IInv, TypeOK
<1>5. ShowsSelected' /\ JumpHonest'
  BY <1>1, <1>2 DEF IInv, TypeOK, ShowsSelected, JumpHonest, Idle
<1>6. NoLostLoad'
  <2>1. selectedRun'.status \in Loading => selectedRun.status \in Loading
    BY <1>2 DEF Loading
  <2>2. Queued \/ Outstanding => (Queued \/ Outstanding)'
    BY <1>1, <1>3, QuietLoses
  <2> QED BY <1>1, <2>1, <2>2 DEF IInv, NoLostLoad, FetchRuns, Loading
<1>7. OneFetch' /\ SeqInv'
  BY <1>1, <1>3, QuietKeeps DEF IInv, TypeOK
<1> QED BY <1>4, <1>5, <1>6, <1>7 DEF IInv

-----------------------------------------------------------------------------
(* The commit                                                              *)

\* The request that the selected run waits for is sent, and is the last one.
LEMMA WantedIsSent ==
  ASSUME IInv, Queued
  PROVE  /\ FetchRun(Wanted.requestSeq, Wanted.runId) \in Sent
         /\ \A e \in Sent : e.requestSeq <= Wanted.requestSeq
<1> DEFINE w == FetchRun(Wanted.requestSeq, Wanted.runId)
<1>1. w \in Pending("fetchRun")
  BY DEF Queued, Pending, FetchRun
<1>2. \A e \in Pending("fetchRun") : e.requestSeq \in Nat
  BY DEF IInv, TypeOK, Pending
<1>3. inFlight # RequestOf(w)
  <2>1. CASE inFlight = None
    BY <2>1, <1>1, ConstantsAssumption DEF IInv, TypeOK, SeqInv, RequestOf, Pending
  <2>2. CASE inFlight # None
    BY <2>2, <1>1, <1>2 DEF IInv, SeqInv, RequestOf
  <2> QED BY <2>1, <2>2
<1>4. \A d \in Pending("fetchRun") : d.requestSeq < w.requestSeq => RequestOf(d) # RequestOf(w)
  BY <1>1, <1>2 DEF RequestOf
<1>5. ~Duplicate(w)
  BY <1>3, <1>4 DEF Duplicate, InFlightAt
<1> QED BY <1>1, <1>5 DEF Sent, Queued

LEMMA CommitKeeps == IInv /\ Commit => IInv'
<1> SUFFICES ASSUME IInv, Commit
             PROVE  IInv'
  OBVIOUS
<1> USE ConstantsAssumption
<1>1. /\ UNCHANGED <<nextRequestSeq, runs, selection, selectedRun, hasNewerLatest>>
      /\ UNCHANGED commands
      /\ stored' = selection.selectedRunId
      /\ effects' = {}
      /\ listFetches' = listFetches \cup {e.requestSeq : e \in Pending("fetchRuns")}
      /\ StartFetches
  BY DEF Commit, model
<1>2. Pending("fetchRun")' = {} /\ Wanted' = Wanted
  BY <1>1 DEF Pending, Wanted
<1>3. \A e \in Sent : /\ e \in Pending("fetchRun") /\ e.requestSeq \in Nat
                      /\ e.runId \in Run /\ e.requestSeq < nextRequestSeq
                      /\ \A f \in fetches : f.requestSeq < e.requestSeq
                      /\ \A d \in Sent : d.requestSeq = e.requestSeq => d = e
  BY DEF IInv, TypeOK, SeqInv, Sent, Pending
<1>4. \A f \in fetches : /\ f \in [requestSeq : Nat, runId : Run, aborted : BOOLEAN]
                         /\ ~f.aborted <=> inFlight = RequestOf(f)
                         /\ f.requestSeq < nextRequestSeq
  BY DEF IInv, TypeOK, OneFetch, SeqInv
<1> DEFINE Started ==
             /\ OneFetch' /\ SeqInv'
             /\ inFlight' \in Request \cup {None}
             /\ fetches' \subseteq [requestSeq : Nat, runId : Run, aborted : BOOLEAN]
             /\ Queued \/ Outstanding => Outstanding'
<1>5. ASSUME Sent = {} PROVE Started
  <2>1. UNCHANGED <<inFlight, fetches>>
    BY <1>1, <1>5 DEF StartFetches
  <2>2. OneFetch' /\ SeqInv'
    BY <1>1, <1>2, <2>1 DEF IInv, OneFetch, SeqInv, RequestOf
  <2>3. inFlight' \in Request \cup {None}
        /\ fetches' \subseteq [requestSeq : Nat, runId : Run, aborted : BOOLEAN]
    BY <2>1 DEF IInv, TypeOK
  <2>4. Queued \/ Outstanding => Outstanding'
    <3>1. ~Queued
      BY <1>5, WantedIsSent
    <3> QED BY <1>2, <2>1, <3>1 DEF Outstanding, RequestOf
  <2> QED BY <2>2, <2>3, <2>4
<1>6. ASSUME Sent # {} PROVE Started
  <2> PICK last \in Sent :
         /\ \A e \in Sent : e.requestSeq <= last.requestSeq
         /\ inFlight' = RequestOf(last)
         /\ fetches' = {[f EXCEPT !.aborted = TRUE] : f \in fetches} \cup
              {[requestSeq |-> e.requestSeq, runId |-> e.runId,
                aborted |-> e # last] : e \in Sent}
    BY <1>1, <1>6 DEF StartFetches
  <2>1. inFlight' \in Request \cup {None}
        /\ fetches' \subseteq [requestSeq : Nat, runId : Run, aborted : BOOLEAN]
    <3>1. inFlight' \in Request
      BY <1>3 DEF Request, RequestOf
    <3>2. \A f \in fetches : [f EXCEPT !.aborted = TRUE]
                            \in [requestSeq : Nat, runId : Run, aborted : BOOLEAN]
      BY <1>4
    <3>3. \A e \in Sent : [requestSeq |-> e.requestSeq, runId |-> e.runId,
                           aborted |-> e # last]
                         \in [requestSeq : Nat, runId : Run, aborted : BOOLEAN]
      BY <1>3
    <3> QED BY <3>1, <3>2, <3>3
  <2>2. OneFetch'
    <3>1. \A f \in fetches : RequestOf([f EXCEPT !.aborted = TRUE]) # RequestOf(last)
      BY <1>3, <1>4 DEF RequestOf
    <3>2. \A e \in Sent : e = last <=> RequestOf(e) = RequestOf(last)
      BY <1>3 DEF RequestOf
    <3>3. \A f \in fetches' : ~f.aborted <=> inFlight' = RequestOf(f)
      <4>1. ASSUME NEW f \in fetches, NEW g, g = [f EXCEPT !.aborted = TRUE]
            PROVE  ~g.aborted <=> inFlight' = RequestOf(g)
        BY <1>4, <3>1, <4>1
      <4>2. ASSUME NEW e \in Sent, NEW g,
                   g = [requestSeq |-> e.requestSeq, runId |-> e.runId,
                        aborted |-> e # last]
            PROVE  ~g.aborted <=> inFlight' = RequestOf(g)
        <5>1. RequestOf(g) = RequestOf(e)
          BY <4>2 DEF RequestOf
        <5>2. g.aborted = (e # last)
          BY <4>2
        <5> QED BY <3>2, <5>1, <5>2
      <4> QED BY <4>1, <4>2
    <3> QED BY <3>3 DEF OneFetch, RequestOf
  <2>3. SeqInv'
    <3>1. \A f \in fetches' : f.requestSeq < nextRequestSeq'
      BY <1>1, <1>3, <1>4
    <3>2. inFlight'.requestSeq < nextRequestSeq'
      BY <1>1, <1>3 DEF RequestOf
    <3> QED BY <1>2, <3>1, <3>2 DEF SeqInv
  <2>4. Queued \/ Outstanding => Outstanding'
    <3>1. ASSUME Queued PROVE Outstanding'
      <4> DEFINE w == FetchRun(Wanted.requestSeq, Wanted.runId)
      <4>1. w \in Sent /\ w.requestSeq = Wanted.requestSeq /\ w.runId = Wanted.runId
        BY <3>1, WantedIsSent DEF FetchRun
      <4>2. last.requestSeq = w.requestSeq
        BY <1>3, <3>1, <4>1, WantedIsSent
      <4>3. last = w
        BY <1>3, <4>1, <4>2
      <4>4. RequestOf(last) = Wanted
        BY <4>1, <4>3 DEF RequestOf, Wanted
      <4>5. \E f \in fetches' : RequestOf(f) = Wanted /\ ~f.aborted
        <5> DEFINE g == [requestSeq |-> last.requestSeq, runId |-> last.runId,
                         aborted |-> last # last]
        <5>1. g \in fetches' /\ ~g.aborted
          OBVIOUS
        <5>2. RequestOf(g) = Wanted
          BY <4>4 DEF RequestOf
        <5> QED BY <5>1, <5>2
      <4> QED BY <1>2, <4>4, <4>5 DEF Outstanding, RequestOf
    <3>2. ~Outstanding
      BY <1>3, <1>6 DEF Outstanding
    <3> QED BY <3>1, <3>2
  <2> QED BY <2>1, <2>2, <2>3, <2>4
<1> HIDE DEF Started
<1>s. Started
  BY <1>5, <1>6
<1>7. TypeOK'
  <2>1. listFetches' \subseteq Nat /\ stored' \in RunId
    <3>1. \A e \in Pending("fetchRuns") : e.requestSeq \in Nat
      BY DEF IInv, TypeOK, Pending
    <3>2. listFetches \subseteq Nat /\ selection.selectedRunId \in RunId
      BY DEF IInv, TypeOK
    <3> QED BY <1>1, <3>1, <3>2
  <2>2. slowTimers' \subseteq [requestSeq : Nat, runId : RunId]
    BY DEF IInv, TypeOK, Commit, Pending, RequestOf
  <2>3. inFlight' \in Request \cup {None}
        /\ fetches' \subseteq [requestSeq : Nat, runId : Run, aborted : BOOLEAN]
    BY <1>s DEF Started
  <2> QED BY <1>1, <2>1, <2>2, <2>3 DEF IInv, TypeOK
<1>8. ShowsSelected' /\ JumpHonest'
  BY <1>1 DEF IInv, ShowsSelected, JumpHonest
<1>9. NoLostLoad'
  <2>1. (selectedRun.status \in Loading)' => Outstanding'
    BY <1>1, <1>s DEF Started, IInv, NoLostLoad
  <2>2. FetchRuns(runs.requestSeq) \in effects => runs.requestSeq \in listFetches'
    BY <1>1 DEF Pending, FetchRuns
  <2>3. runs.status = "loading" => runs.requestSeq \in listFetches'
    BY <1>1, <2>2 DEF IInv, NoLostLoad
  <2> QED BY <1>1, <2>1, <2>3 DEF NoLostLoad
<1>10. OneFetch' /\ SeqInv'
  BY <1>s DEF Started
<1> QED BY <1>7, <1>8, <1>9, <1>10 DEF IInv

-----------------------------------------------------------------------------
LEMMA Preserved == IInv /\ [Next]_vars => IInv'
<1> SUFFICES ASSUME IInv, [Next]_vars
             PROVE  IInv'
  OBVIOUS
<1>1. CASE Boot \/ ManualRefreshClicked \/ PollTick
  BY <1>1, BootKeeps
<1>2. CASE \E r \in Run : RunSelected(r)
  BY <1>2, RunSelectedKeeps
<1>3. CASE LatestClicked
  BY <1>3, LatestClickedKeeps
<1>4. CASE SelectionCleared
  BY <1>4, SelectionClearedKeeps
<1>5. CASE RetrySelectedRunClicked
  BY <1>5, RetryKeeps
<1>6. CASE Reload
  BY <1>6, ReloadKeeps
<1>7. ASSUME NEW q \in listFetches, ListAnswer(q) PROVE IInv'
  BY <1>7, ListStaleKeeps, RunsLoadedKeeps DEF ListAnswer
<1>8. ASSUME NEW f \in fetches, RunAnswer(f) PROVE IInv'
  BY <1>8, RunAnswerKeeps, RunStaleKeeps DEF RunAnswer
<1>9. ASSUME NEW t \in slowTimers, SlowTimer(t) PROVE IInv'
  BY <1>9, SlowTimerKeeps
<1>10. CASE Commit
  BY <1>10, CommitKeeps
<1>11. CASE UNCHANGED vars
  BY <1>11 DEF vars, model, hook, IInv, TypeOK, ShowsSelected, JumpHonest,
     NoLostLoad, Queued, Outstanding, Wanted, Pending, OneFetch, SeqInv
<1> QED
  BY <1>1, <1>2, <1>3, <1>4, <1>5, <1>6, <1>7, <1>8, <1>9, <1>10, <1>11 DEF Next

LEMMA Invariance == Spec => []IInv
BY Initial, Preserved, PTL DEF Spec

\* The state of the run control is well typed.
THEOREM RunControlTyped == Spec => []TypeOK
<1>1. IInv => TypeOK
  BY DEF IInv
<1> QED BY <1>1, Invariance, PTL

\* What is requested and shown is the selected run (runControlReducer.ts).
THEOREM SelectedIsShown == Spec => []ShowsSelected
<1>1. IInv => ShowsSelected
  BY DEF IInv
<1> QED BY <1>1, Invariance, PTL

\* The jump to the latest run is offered exactly when there is another one.
THEOREM JumpIsHonest == Spec => []JumpHonest
<1>1. IInv => JumpHonest
  BY DEF IInv
<1> QED BY <1>1, Invariance, PTL

\* A request that the model waits for is queued or in flight, and not aborted
\* by an earlier or later one (useRunControl.ts, the effect drainer).
THEOREM LoadsAreNotLost == Spec => []NoLostLoad
<1>1. IInv => NoLostLoad
  BY DEF IInv
<1> QED BY <1>1, Invariance, PTL

\* All requests but the one in flight are aborted.
THEOREM FetchesAreAborted == Spec => []OneFetch
<1>1. IInv => OneFetch
  BY DEF IInv
<1> QED BY <1>1, Invariance, PTL

-----------------------------------------------------------------------------
(* What no step does                                                       *)

\* The steps that count no command: neither of the user nor of the poll timer.
LEMMA Uncounted ==
  ASSUME IInv, [Next]_vars, commands' = commands
  PROVE  \/ \E q \in listFetches : ListAnswer(q)
         \/ \E f \in fetches : RunAnswer(f)
         \/ \E t \in slowTimers : SlowTimer(t)
         \/ Commit
         \/ UNCHANGED vars
<1>1. commands' # commands + 1
  BY DEF IInv, TypeOK
<1> QED
  BY <1>1 DEF Next, Boot, ManualRefreshClicked, PollTick, RunSelected,
     LatestClicked, SelectionCleared, RetrySelectedRunClicked, Reload, Command

\* The answer of a superseded request changes neither the selection nor what
\* is shown (the requestSeq checks of runControlReducer.ts).
THEOREM LateAnswersAreIgnored == Spec => LateAnswersIgnored
<1> DEFINE A == \A f \in fetches :
                  /\ f.requestSeq \notin {g.requestSeq : g \in fetches'}
                  /\ f.requestSeq # selectedRun.requestSeq
                  /\ commands' = commands
                  => UNCHANGED model
<1>1. IInv /\ [Next]_vars => A
  <2> SUFFICES ASSUME IInv, [Next]_vars, commands' = commands,
                      NEW f \in fetches,
                      f.requestSeq \notin {g.requestSeq : g \in fetches'},
                      f.requestSeq # selectedRun.requestSeq
               PROVE  UNCHANGED model
    OBVIOUS
  <2>1. f \notin fetches'
    OBVIOUS
  <2>2. ASSUME NEW q \in listFetches, ListAnswer(q) PROVE UNCHANGED fetches
    BY <2>2 DEF ListAnswer, ListStale, RunsLoaded, RunsFailed, ListSettles,
       RunsLoadedSelectsLatest, RunsLoadedKeepsSelection, RunsLoadedEmpty,
       ListAccepted
  <2>3. ASSUME NEW g \in fetches, RunAnswer(g) PROVE UNCHANGED model
    <3>1. Settles(g)
      BY <2>3 DEF RunAnswer, RunLoaded, RunFailed, RunStale
    <3>2. f = g
      BY <2>1, <3>1 DEF Settles
    <3> QED BY <2>3, <3>2 DEF RunAnswer, RunLoaded, RunFailed, RunStale, Accepts, Matches
  <2>4. ASSUME NEW t \in slowTimers, SlowTimer(t) PROVE UNCHANGED fetches
    BY <2>4 DEF SlowTimer
  <2>5. Commit \/ UNCHANGED vars => UNCHANGED model
    BY DEF Commit, vars
  <2> QED BY <2>1, <2>2, <2>3, <2>4, <2>5, Uncounted
<1> QED BY <1>1, Invariance, PTL DEF Spec, LateAnswersIgnored

\* A poll keeps a loaded run on display (SkipsRefetch, runControlReducer.ts).
THEOREM PollsKeepThePayload == Spec => PollKeepsPayload
<1> DEFINE A == (\E q \in listFetches : q \notin listFetches')
                /\ commands' = commands
                /\ runs.lastRefreshReason = "poll"
                /\ selectedRun.status = "loaded"
                /\ SamePayload(selection.selectedRunId) # None
                /\ selection'.selectedRunId = selection.selectedRunId
                => selectedRun' = selectedRun
<1>1. IInv /\ [Next]_vars => A
  <2> SUFFICES ASSUME IInv, [Next]_vars, commands' = commands,
                      NEW p \in listFetches, p \notin listFetches',
                      runs.lastRefreshReason = "poll",
                      selectedRun.status = "loaded",
                      SamePayload(selection.selectedRunId) # None,
                      selection'.selectedRunId = selection.selectedRunId
               PROVE  selectedRun' = selectedRun
    OBVIOUS
  <2>1. ASSUME NEW q \in listFetches, RunsLoaded(q) PROVE selectedRun' = selectedRun
    <3> PICK list \in RunsList : \/ RunsLoadedSelectsLatest(q, list)
                                \/ RunsLoadedKeepsSelection(q, list)
                                \/ RunsLoadedEmpty(q, list)
      BY <2>1 DEF RunsLoaded
    \* The latest run is in the list: it is not the selection that is not.
    <3>1. ~RunsLoadedSelectsLatest(q, list)
      BY DEF RunsLoadedSelectsLatest, SelectsLatest, RunsList
    <3>2. SkipsRefetch
      BY DEF SkipsRefetch
    <3> QED BY <3>1, <3>2 DEF RunsLoadedKeepsSelection, RunsLoadedEmpty
  <2>2. ASSUME NEW q \in listFetches, ListStale(q) \/ RunsFailed(q)
        PROVE  selectedRun' = selectedRun
    BY <2>2 DEF ListStale, RunsFailed, model
  <2>3. ASSUME NEW f \in fetches, RunAnswer(f) PROVE UNCHANGED listFetches
    BY <2>3 DEF RunAnswer, RunLoaded, RunFailed, RunStale, Settles
  <2>4. ASSUME NEW t \in slowTimers, SlowTimer(t) PROVE UNCHANGED listFetches
    BY <2>4 DEF SlowTimer
  <2>5. Commit \/ UNCHANGED vars => selectedRun' = selectedRun
    BY DEF Commit, vars, model
  <2> QED BY <2>1, <2>2, <2>3, <2>4, <2>5, Uncounted DEF ListAnswer
<1> QED BY <1>1, Invariance, PTL DEF Spec, PollKeepsPayload

-----------------------------------------------------------------------------
(* The run control implements RunView                                      *)

\* A request that is queued or in flight and that the selected run names is
\* one that it still waits for: it is neither answered nor failed yet.
Unanswered ==
  /\ inFlight # None /\ inFlight = Wanted => selectedRun.status \in Loading
  /\ \A e \in Pending("fetchRun") : RequestOf(e) = Wanted =>
       selectedRun.status \in Loading

LEMMA UnansweredInitially == Init => Unanswered
BY DEF Init, Unanswered, Pending

\* A step that queues or sends no new request and restarts no load.
LEMMA UnansweredQuiet ==
  ASSUME Unanswered, inFlight' \in {inFlight, None}, Wanted' = Wanted,
         Pending("fetchRun")' \subseteq Pending("fetchRun"),
         selectedRun.status \in Loading => selectedRun'.status \in Loading
  PROVE  Unanswered'
BY DEF Unanswered, RequestOf

\* A new load is waited for.
LEMMA UnansweredLoad ==
  ASSUME NEW r, NEW p, Load(r, p)
  PROVE  Unanswered'
BY DEF Load, Unanswered, Loading

\* Without a selected run, or with none requested yet, nothing is waited for.
LEMMA UnansweredIdle ==
  ASSUME TypeOK', selectedRun' = Idle
  PROVE  Unanswered'
<1> USE ConstantsAssumption
<1>1. Wanted'.requestSeq \notin Nat
  BY DEF Wanted, Idle
<1>2. inFlight' # None => inFlight'.requestSeq \in Nat
  BY DEF TypeOK, Request
<1>3. \A e \in Pending("fetchRun")' : RequestOf(e).requestSeq \in Nat
  BY DEF TypeOK, Pending, RequestOf
<1> QED BY <1>1, <1>2, <1>3 DEF Unanswered, RequestOf

LEMMA UnansweredAnswer ==
  ASSUME IInv, NEW f \in fetches, RunAnswer(f), Unanswered
  PROVE  Unanswered'
<1> USE ConstantsAssumption
<1>1. /\ Settles(f) /\ Pending("fetchRun")' = Pending("fetchRun")
      /\ Wanted' = Wanted
  <2>1. CASE RunLoaded(f) \/ RunFailed(f)
    <3>1. Settles(f) /\ effects' = effects \cup {CancelTimer(f.requestSeq)}
      BY <2>1 DEF RunLoaded, RunFailed
    <3>2. Pending("fetchRun")' = Pending("fetchRun")
      BY <3>1 DEF Pending, CancelTimer
    <3>3. \E s, p : selectedRun' = [selectedRun EXCEPT !.status = s, !.payload = p]
      BY <2>1 DEF RunLoaded, RunFailed
    <3>4. Wanted' = Wanted
      BY <3>3 DEF Wanted, IInv, TypeOK
    <3> QED BY <3>1, <3>2, <3>4
  <2>2. CASE RunStale(f)
    BY <2>2 DEF RunStale, model, Pending, Wanted
  <2> QED BY <2>1, <2>2 DEF RunAnswer
<1>2. CASE RunStale(f)
  BY <1>1, <1>2, UnansweredQuiet DEF RunStale, model, Settles
\* What is in flight was queued before what is pending.
<1>3. CASE RunLoaded(f) \/ RunFailed(f)
  <2>1. inFlight = RequestOf(f) /\ inFlight = Wanted /\ inFlight' = None
    BY <1>3, <1>1 DEF RunLoaded, RunFailed, Accepts, Matches, RequestOf, Wanted, Settles
  <2>2. inFlight # None /\ inFlight.requestSeq \in Nat
    BY <2>1 DEF IInv, TypeOK, RequestOf, Request
  <2>3. \A e \in Pending("fetchRun") : e.requestSeq \in Nat /\ inFlight.requestSeq < e.requestSeq
    BY <2>2 DEF IInv, SeqInv, TypeOK, Pending
  <2>4. \A e \in Pending("fetchRun") : RequestOf(e) # Wanted
    BY <2>1, <2>2, <2>3 DEF RequestOf
  <2> QED BY <1>1, <2>1, <2>4 DEF Unanswered, RequestOf
<1> QED BY <1>2, <1>3 DEF RunAnswer

LEMMA UnansweredCommit ==
  ASSUME Commit, Unanswered
  PROVE  Unanswered'
<1>1. Pending("fetchRun")' = {} /\ Wanted' = Wanted /\ UNCHANGED selectedRun
  BY DEF Commit, Pending, Wanted, model
<1>2. inFlight' = inFlight \/ \E e \in Pending("fetchRun") : inFlight' = RequestOf(e)
  BY DEF Commit, StartFetches, Sent
<1> QED BY <1>1, <1>2 DEF Unanswered

LEMMA UnansweredPreserved ==
  ASSUME IInv, IInv', [Next]_vars, Unanswered
  PROVE  Unanswered'
<1>1. CASE Boot \/ ManualRefreshClicked \/ PollTick
  <2>1. UNCHANGED <<inFlight, selectedRun>> /\ Pending("fetchRun")' = Pending("fetchRun")
    BY <1>1 DEF Boot, ManualRefreshClicked, PollTick, RequestRuns, hook, Pending, FetchRuns
  <2> QED BY <2>1, UnansweredQuiet DEF Wanted
<1>2. CASE \/ \E r \in Run : RunSelected(r)
           \/ LatestClicked \/ RetrySelectedRunClicked
  BY <1>2, UnansweredLoad DEF RunSelected, LatestClicked, RetrySelectedRunClicked
<1>3. CASE SelectionCleared \/ Reload
  BY <1>3, UnansweredIdle DEF SelectionCleared, Reload, IInv
<1>4. ASSUME NEW q \in listFetches, ListAnswer(q) PROVE Unanswered'
  <2>1. UNCHANGED inFlight
    BY <1>4 DEF ListAnswer, ListStale, RunsFailed, RunsLoaded, RunsLoadedSelectsLatest,
       RunsLoadedKeepsSelection, RunsLoadedEmpty, ListAccepted, ListSettles
  <2>2. \/ \E r \in RunId : Load(r, None)
        \/ UNCHANGED <<selectedRun, effects>>
    BY <1>4 DEF ListAnswer, ListStale, RunsFailed, RunsLoaded, RunsLoadedSelectsLatest,
       RunsLoadedKeepsSelection, RunsLoadedEmpty, model, RunsList, RunId
  <2>3. UNCHANGED <<selectedRun, effects>> => Unanswered'
    BY <2>1, UnansweredQuiet DEF Wanted, Pending
  <2> QED BY <2>2, <2>3, UnansweredLoad
<1>5. ASSUME NEW f \in fetches, RunAnswer(f) PROVE Unanswered'
  BY <1>5, UnansweredAnswer
<1>6. ASSUME NEW t \in slowTimers, SlowTimer(t) PROVE Unanswered'
  <2>1. UNCHANGED <<inFlight, effects>>
    BY <1>6 DEF SlowTimer
  <2>2. Wanted' = Wanted /\ (selectedRun.status \in Loading => selectedRun'.status \in Loading)
    BY <1>6 DEF SlowTimer, Wanted, Loading, IInv, TypeOK
  <2> QED BY <2>1, <2>2, UnansweredQuiet DEF Pending
<1>7. CASE Commit
  BY <1>7, UnansweredCommit
<1>8. CASE UNCHANGED vars
  BY <1>8, UnansweredQuiet DEF vars, model, hook, Wanted, Pending
<1> QED BY <1>1, <1>2, <1>3, <1>4, <1>5, <1>6, <1>7, <1>8 DEF Next

LEMMA AnsweredOnce == Spec => []Unanswered
BY UnansweredInitially, UnansweredPreserved, Invariance, PTL DEF Spec

-----------------------------------------------------------------------------
\* The initial state of RunView.
LEMMA ViewInitially == Init => View!Init
BY DEF Init, Idle, View!Init

\* The load of run r by the user, with what is on display of that run.
LEMMA ViewSelect ==
  ASSUME NEW r \in Run, Load(r, SamePayload(r)), UNCHANGED stored,
         selection'.selectedRunId = r
  PROVE  View!Next
<1>1. View!Select(r)
  BY DEF Load, View!Select, View!Kept, SamePayload
<1> QED BY <1>1 DEF View!Next

\* A list of runs: the latest run is followed, the selected run is fetched
\* again, or nothing that is on display changes.
LEMMA ViewList ==
  ASSUME IInv, NEW q \in listFetches, ListAnswer(q)
  PROVE  [View!Next]_View!vars
<1> USE ConstantsAssumption
<1>1. UNCHANGED stored
  BY DEF ListAnswer, ListStale, RunsFailed, RunsLoaded, RunsLoadedSelectsLatest,
     RunsLoadedKeepsSelection, RunsLoadedEmpty, ListAccepted, ListSettles
<1>2. CASE ListStale(q) \/ RunsFailed(q)
  BY <1>1, <1>2 DEF ListStale, RunsFailed, model, View!vars
<1>3. CASE RunsLoaded(q)
  <2> PICK list \in RunsList : \/ RunsLoadedSelectsLatest(q, list)
                              \/ RunsLoadedKeepsSelection(q, list)
                              \/ RunsLoadedEmpty(q, list)
    BY <1>3 DEF RunsLoaded
  <2>1. list.items \subseteq Run /\ (list.latest # None => list.latest \in list.items)
    BY DEF RunsList
  <2>2. CASE RunsLoadedSelectsLatest(q, list)
    <3>1. list.latest \in Run /\ selection.selectedRunId # list.latest
      BY <2>1, <2>2 DEF RunsLoadedSelectsLatest, SelectsLatest
    <3>2. View!Follow(list.latest)
      BY <1>1, <2>2, <3>1 DEF RunsLoadedSelectsLatest, Load, View!Follow
    <3> QED BY <3>1, <3>2 DEF View!Next
  <2>3. CASE RunsLoadedKeepsSelection(q, list)
    <3>1. selection.selectedRunId \in Run /\ selection'.selectedRunId = selection.selectedRunId
      BY <2>1, <2>3 DEF RunsLoadedKeepsSelection, IInv, TypeOK
    <3>2. CASE SkipsRefetch
      BY <1>1, <2>3, <3>1, <3>2 DEF RunsLoadedKeepsSelection, View!vars
    <3>3. CASE ~SkipsRefetch
      <4>1. selectedRun.status # "loading"
        BY <3>3 DEF SkipsRefetch, IInv, ShowsSelected
      <4>2. Load(selection.selectedRunId, None)
        BY <2>3, <3>3 DEF RunsLoadedKeepsSelection
      <4>3. View!Refetch
        BY <1>1, <3>1, <4>1, <4>2 DEF Load, View!Refetch
      <4> QED BY <4>3 DEF View!Next
    <3> QED BY <3>2, <3>3
  <2>4. CASE RunsLoadedEmpty(q, list)
    BY <1>1, <2>4 DEF RunsLoadedEmpty, View!vars, IInv, TypeOK
  <2> QED BY <2>2, <2>3, <2>4
<1> QED BY <1>2, <1>3 DEF ListAnswer

\* An answer for a run is shown, fails the load that waits for it, or changes
\* nothing that is on display.
LEMMA ViewAnswer ==
  ASSUME IInv, Unanswered, NEW f \in fetches, RunAnswer(f)
  PROVE  [View!Next]_View!vars
<1> USE ConstantsAssumption
<1>1. UNCHANGED <<selection, stored>>
  BY DEF RunAnswer, RunLoaded, RunFailed, RunStale, Settles, model
<1>2. ASSUME Matches(f) PROVE f.runId = selection.selectedRunId
  BY <1>2 DEF IInv, TypeOK, ShowsSelected, Matches, Idle
<1>3. CASE RunLoaded(f)
  <2>1. selectedRun.status \in {"loading", "slow"} /\ f.runId = selection.selectedRunId
    BY <1>2, <1>3 DEF RunLoaded, Accepts, Loading
  <2> PICK r \in Run :
         /\ r = f.runId \/ MayFallBack
         /\ selectedRun' = [selectedRun EXCEPT !.status = "loaded",
                            !.payload = [runId |-> r, asked |-> f.runId]]
    BY <1>3 DEF RunLoaded
  <2>2. /\ selectedRun'.status = "loaded"
        /\ selectedRun'.payload = [runId |-> r, asked |-> f.runId]
    BY DEF IInv, TypeOK
  <2>3. View!Answer
    BY <1>1, <2>1, <2>2 DEF View!Answer
  <2> QED BY <2>3 DEF View!Next
<1>4. CASE RunFailed(f)
  <2>1. inFlight = Wanted /\ inFlight # None /\ f.runId = selection.selectedRunId
    <3>1. inFlight = RequestOf(f) /\ Matches(f)
      BY <1>4 DEF RunFailed
    <3>2. RequestOf(f) # None
      BY DEF IInv, TypeOK, RequestOf
    <3> QED BY <1>2, <3>1, <3>2 DEF Matches, RequestOf, Wanted
  <2>2. selectedRun.status \in {"loading", "slow"}
    BY <2>1 DEF Unanswered, Loading
  <2>3. /\ selectedRun'.status = "failed"
        /\ selectedRun'.payload = SamePayload(selection.selectedRunId)
    BY <1>4, <2>1 DEF RunFailed, IInv, TypeOK
  <2>4. View!Fail
    BY <1>1, <2>2, <2>3 DEF View!Fail, View!Kept, SamePayload
  <2> QED BY <2>4 DEF View!Next
<1>5. CASE RunStale(f)
  BY <1>1, <1>5 DEF RunStale, model, View!vars
<1> QED BY <1>3, <1>4, <1>5 DEF RunAnswer

LEMMA ViewStep ==
  ASSUME IInv, Unanswered, [Next]_vars
  PROVE  [View!Next]_View!vars
<1> USE ConstantsAssumption
<1>1. CASE Boot \/ ManualRefreshClicked \/ PollTick
  BY <1>1 DEF Boot, ManualRefreshClicked, PollTick, RequestRuns, hook, View!vars
<1>2. ASSUME NEW r \in Run, RunSelected(r) PROVE View!Next
  BY <1>2, ViewSelect DEF RunSelected, hook, IInv, TypeOK
<1>3. CASE LatestClicked
  <2>1. selection.latestRunId \in Run
    BY <1>3 DEF LatestClicked, IInv, TypeOK, RunId
  <2> QED BY <1>3, <2>1, ViewSelect DEF LatestClicked, hook, IInv, TypeOK
<1>4. CASE RetrySelectedRunClicked
  <2>1. /\ selection.selectedRunId # None
        /\ Load(selection.selectedRunId, SamePayload(selection.selectedRunId))
    BY <1>4 DEF RetrySelectedRunClicked, IInv, ShowsSelected, Idle
  <2>2. selection.selectedRunId \in Run
    BY <2>1 DEF IInv, TypeOK, RunId
  <2> QED BY <1>4, <2>1, <2>2, ViewSelect DEF RetrySelectedRunClicked, hook
<1>5. CASE SelectionCleared
  <2>1. View!Clear
    BY <1>5 DEF SelectionCleared, hook, Idle, View!Clear, IInv, TypeOK
  <2> QED BY <2>1 DEF View!Next
<1>6. CASE Reload
  <2>1. View!Reload
    BY <1>6 DEF Reload, Idle, View!Reload
  <2> QED BY <2>1 DEF View!Next
<1>7. ASSUME NEW q \in listFetches, ListAnswer(q) PROVE [View!Next]_View!vars
  BY <1>7, ViewList
<1>8. ASSUME NEW f \in fetches, RunAnswer(f) PROVE [View!Next]_View!vars
  BY <1>8, ViewAnswer
<1>9. ASSUME NEW t \in slowTimers, SlowTimer(t) PROVE [View!Next]_View!vars
  <2>1. UNCHANGED <<selection, stored>>
    BY <1>9 DEF SlowTimer
  <2>2. \/ UNCHANGED selectedRun
        \/ /\ selectedRun.status = "loading"
           /\ selectedRun' = [selectedRun EXCEPT !.status = "slow"]
    BY <1>9 DEF SlowTimer
  <2>3. CASE UNCHANGED selectedRun
    BY <2>1, <2>3 DEF View!vars
  <2>4. CASE /\ selectedRun.status = "loading"
             /\ selectedRun' = [selectedRun EXCEPT !.status = "slow"]
    <3>1. View!Slow
      BY <2>1, <2>4 DEF View!Slow, IInv, TypeOK
    <3> QED BY <3>1 DEF View!Next
  <2> QED BY <2>2, <2>3, <2>4
<1>10. CASE Commit
  <2>1. View!Save
    BY <1>10 DEF Commit, model, View!Save
  <2> QED BY <2>1 DEF View!Next
<1>11. CASE UNCHANGED vars
  BY <1>11 DEF vars, model, hook, View!vars
<1> QED BY <1>1, <1>2, <1>3, <1>4, <1>5, <1>6, <1>7, <1>8, <1>9, <1>10, <1>11 DEF Next

\* The requests, effects, timers and aborts of the hook and the reducer show the
\* user what RunView describes (useRunControl.ts, runControlReducer.ts).
THEOREM RunControlImplementsView == Spec => ImplementsView
BY ViewInitially, ViewStep, Invariance, AnsweredOnce, PTL DEF Spec, ImplementsView, View!Spec

-----------------------------------------------------------------------------
(* What of LoadEnds needs no fairness                                      *)

\* What the hook and the server still have to do, weighted by what it leads to:
\* a list may make a run be loaded and the selection be saved, a request for a
\* run becomes a call and a timer, and its answer cancels the timer.
Unsaved == IF stored = selection.selectedRunId THEN 0 ELSE 1

Work == 7 * Cardinality(Pending("fetchRuns")) + 6 * Cardinality(listFetches)
        + 4 * Cardinality(Pending("fetchRun")) + 2 * Cardinality(fetches)
        + Cardinality(slowTimers) + Cardinality(Pending("cancelSlowRunTimer"))
        + Unsaved

\* Without a command of the user or a tick of the poll timer the work runs out,
\* in whatever order requests are answered, superseded and aborted.
WorkRunsOut == [][commands' = commands => Work' < Work]_vars

\* When it has run out, nothing is loading.
LoadsAreWork ==
  /\ Work \in Nat
  /\ Work = 0 => selectedRun.status \notin Loading /\ runs.status # "loading"

Finite == /\ IsFiniteSet(effects) /\ IsFiniteSet(fetches)
          /\ IsFiniteSet(listFetches) /\ IsFiniteSet(slowTimers)

LEMMA AddOne ==
  ASSUME NEW S, NEW x, IsFiniteSet(S)
  PROVE  /\ IsFiniteSet(S \cup {x}) /\ Cardinality(S) \in Nat
         /\ Cardinality(S \cup {x}) \in Nat
         /\ Cardinality(S \cup {x}) <= Cardinality(S) + 1
BY FS_AddElement, FS_CardinalityType

LEMMA TakeOne ==
  ASSUME NEW S, NEW x \in S, IsFiniteSet(S)
  PROVE  /\ IsFiniteSet(S \ {x}) /\ Cardinality(S) \in Nat
         /\ Cardinality(S \ {x}) \in Nat
         /\ Cardinality(S \ {x}) = Cardinality(S) - 1
BY FS_RemoveElement, FS_CardinalityType

LEMMA UnionOf ==
  ASSUME NEW S, NEW T, IsFiniteSet(S), IsFiniteSet(T)
  PROVE  /\ IsFiniteSet(S \cup T)
         /\ Cardinality(S \cup T) \in Nat
         /\ Cardinality(S \cup T) <= Cardinality(S) + Cardinality(T)
<1>1. IsFiniteSet(S \cap T)
  BY FS_Subset
<1>2. /\ Cardinality(S) \in Nat /\ Cardinality(T) \in Nat
      /\ Cardinality(S \cap T) \in Nat
  BY <1>1, FS_CardinalityType
<1>3. /\ IsFiniteSet(S \cup T)
      /\ Cardinality(S \cup T) = Cardinality(S) + Cardinality(T) - Cardinality(S \cap T)
  BY FS_Union
<1>4. Cardinality(S \cup T) \in Nat
  BY <1>3, FS_CardinalityType
<1> QED BY <1>2, <1>3, <1>4

LEMMA ImageOf ==
  ASSUME NEW S, IsFiniteSet(S), NEW f, DOMAIN f = S, f = [x \in S |-> f[x]]
  PROVE  /\ IsFiniteSet({f[x] : x \in S})
         /\ Cardinality({f[x] : x \in S}) \in Nat
         /\ Cardinality({f[x] : x \in S}) <= Cardinality(S)
<1> DEFINE T == {f[x] : x \in S}
<1>1. f \in [S -> T]
  OBVIOUS
<1>2. \A t \in T : \E s \in S : f[s] = t
  OBVIOUS
<1>3. f \in Surjection(S, T)
  BY <1>1, <1>2, Fun_IsSurj
<1> HIDE DEF T
<1>4. IsFiniteSet(T) /\ Cardinality(T) <= Cardinality(S)
  BY <1>3, FS_Surjection
<1>5. Cardinality(T) \in Nat
  BY <1>4, FS_CardinalityType
<1> QED BY <1>4, <1>5 DEF T

\* What is counted can be counted.
LEMMA Counts ==
  ASSUME Finite
  PROVE  /\ \A t : IsFiniteSet(Pending(t)) /\ Cardinality(Pending(t)) \in Nat
         /\ Cardinality(listFetches) \in Nat /\ Cardinality(fetches) \in Nat
         /\ Cardinality(slowTimers) \in Nat
         /\ Unsaved \in {0, 1}
<1>1. \A t : IsFiniteSet(Pending(t))
  BY FS_Subset DEF Finite, Pending
<1> QED BY <1>1, FS_CardinalityType DEF Finite, Unsaved

LEMMA PendingDisjoint ==
  ASSUME NEW e, NEW t, effects' = effects \cup {e}
  PROVE  Pending(t)' = IF e.type = t THEN Pending(t) \cup {e} ELSE Pending(t)
BY DEF Pending

LEMMA FiniteLoad ==
  ASSUME Finite, NEW r, NEW p, Load(r, p)
  PROVE  /\ IsFiniteSet(effects')
         /\ Cardinality(Pending("fetchRun")') \in Nat
         /\ Cardinality(Pending("fetchRun")') <= Cardinality(Pending("fetchRun")) + 1
         /\ Pending("fetchRuns")' = Pending("fetchRuns")
         /\ Pending("cancelSlowRunTimer")' = Pending("cancelSlowRunTimer")
<1> DEFINE e == FetchRun(nextRequestSeq, r)
<1>1. effects' = effects \cup {e} /\ e.type = "fetchRun"
  BY DEF Load, FetchRun
<1> HIDE DEF e
<1>2. Pending("fetchRun")' = Pending("fetchRun") \cup {e}
  BY <1>1, PendingDisjoint
<1>3. /\ Pending("fetchRuns")' = Pending("fetchRuns")
      /\ Pending("cancelSlowRunTimer")' = Pending("cancelSlowRunTimer")
  BY <1>1, PendingDisjoint
<1> QED BY <1>1, <1>2, <1>3, Counts, AddOne DEF Finite

LEMMA ListWork ==
  ASSUME IInv, Finite, NEW q \in listFetches, ListAnswer(q)
  PROVE  Finite' /\ Work' < Work
<1>1. /\ listFetches' = listFetches \ {q}
      /\ UNCHANGED <<fetches, slowTimers, stored>>
  BY DEF ListAnswer, ListStale, RunsFailed, RunsLoaded, RunsLoadedSelectsLatest,
     RunsLoadedKeepsSelection, RunsLoadedEmpty, ListAccepted, ListSettles
<1>2. /\ IsFiniteSet(listFetches') /\ Cardinality(listFetches') \in Nat
      /\ Cardinality(listFetches') = Cardinality(listFetches) - 1
  BY <1>1, TakeOne DEF Finite
<1>3. \/ \E r, p : Load(r, p)
      \/ /\ UNCHANGED <<effects, nextRequestSeq>>
         /\ selection'.selectedRunId = selection.selectedRunId
  BY DEF ListAnswer, ListStale, RunsFailed, RunsLoaded, RunsLoadedSelectsLatest,
     RunsLoadedKeepsSelection, RunsLoadedEmpty, ListAccepted, model, IInv, TypeOK
<1>4. /\ IsFiniteSet(effects')
      /\ Cardinality(Pending("fetchRun")') \in Nat
      /\ \/ /\ Cardinality(Pending("fetchRun")') <= Cardinality(Pending("fetchRun")) + 1
            /\ Unsaved' \in {0, 1}
         \/ /\ Pending("fetchRun")' = Pending("fetchRun")
            /\ Unsaved' = Unsaved
      /\ Pending("fetchRuns")' = Pending("fetchRuns")
      /\ Pending("cancelSlowRunTimer")' = Pending("cancelSlowRunTimer")
  <2>1. CASE \E r, p : Load(r, p)
    BY <2>1, FiniteLoad DEF Unsaved
  <2>2. CASE /\ UNCHANGED <<effects, nextRequestSeq>>
             /\ selection'.selectedRunId = selection.selectedRunId
    BY <1>1, <2>2, Counts DEF Finite, Pending, Unsaved
  <2> QED BY <1>3, <2>1, <2>2
<1>5. Finite'
  BY <1>1, <1>2, <1>4 DEF Finite
<1>6. Work' < Work
  BY <1>1, <1>2, <1>4, Counts DEF Work
<1> QED BY <1>5, <1>6

LEMMA AnswerWork ==
  ASSUME IInv, Finite, NEW f \in fetches, RunAnswer(f)
  PROVE  Finite' /\ Work' < Work
<1> DEFINE cancel == CancelTimer(f.requestSeq)
<1>1. /\ fetches' = fetches \ {f}
      /\ UNCHANGED <<listFetches, slowTimers, stored, selection>>
      /\ UNCHANGED effects \/ effects' = effects \cup {cancel}
  BY DEF RunAnswer, RunLoaded, RunFailed, RunStale, Settles, model
<1>2. /\ IsFiniteSet(fetches') /\ Cardinality(fetches') \in Nat
      /\ Cardinality(fetches') = Cardinality(fetches) - 1
  BY <1>1, TakeOne DEF Finite
<1>3. cancel.type = "cancelSlowRunTimer"
  BY DEF CancelTimer
<1> HIDE DEF cancel
<1>4. /\ IsFiniteSet(effects')
      /\ Cardinality(Pending("cancelSlowRunTimer")') \in Nat
      /\ Cardinality(Pending("cancelSlowRunTimer")')
           <= Cardinality(Pending("cancelSlowRunTimer")) + 1
      /\ Pending("fetchRuns")' = Pending("fetchRuns")
      /\ Pending("fetchRun")' = Pending("fetchRun")
  <2>1. CASE UNCHANGED effects
    <3>1. \A t : Pending(t)' = Pending(t)
      BY <2>1 DEF Pending
    <3> QED BY <2>1, <3>1, Counts DEF Finite
  <2>2. CASE effects' = effects \cup {cancel}
    <3>1. /\ Pending("cancelSlowRunTimer")' = Pending("cancelSlowRunTimer") \cup {cancel}
          /\ Pending("fetchRuns")' = Pending("fetchRuns")
          /\ Pending("fetchRun")' = Pending("fetchRun")
      BY <1>3, <2>2, PendingDisjoint
    <3> QED BY <2>2, <3>1, Counts, AddOne DEF Finite
  <2> QED BY <1>1, <2>1, <2>2
<1>5. Finite'
  BY <1>1, <1>2, <1>4 DEF Finite
<1>6. Unsaved' = Unsaved
  BY <1>1 DEF Unsaved
<1>7. Work' < Work
  BY <1>1, <1>2, <1>4, <1>6, Counts DEF Work
<1> QED BY <1>5, <1>7

LEMMA TimerWork ==
  ASSUME Finite, NEW t \in slowTimers, SlowTimer(t)
  PROVE  Finite' /\ Work' < Work
<1>1. /\ slowTimers' = slowTimers \ {t}
      /\ UNCHANGED <<listFetches, fetches, effects, stored, selection>>
  BY DEF SlowTimer
<1>2. /\ IsFiniteSet(slowTimers') /\ Cardinality(slowTimers') \in Nat
      /\ Cardinality(slowTimers') = Cardinality(slowTimers) - 1
  BY <1>1, TakeOne DEF Finite
<1>3. Unsaved' = Unsaved /\ \A type : Pending(type)' = Pending(type)
  BY <1>1 DEF Unsaved, Pending
<1> QED BY <1>1, <1>2, <1>3, Counts DEF Finite, Work

LEMMA CommitWork ==
  ASSUME IInv, Finite, Commit
  PROVE  Finite' /\ Work' < Work
<1> DEFINE P == Pending("fetchRun")
           L == Pending("fetchRuns")
           C == Pending("cancelSlowRunTimer")
<1>1. /\ IsFiniteSet(P) /\ IsFiniteSet(L) /\ IsFiniteSet(C)
      /\ Cardinality(P) \in Nat /\ Cardinality(L) \in Nat /\ Cardinality(C) \in Nat
  BY Counts
<1>2. /\ IsFiniteSet(listFetches') /\ Cardinality(listFetches') \in Nat
      /\ Cardinality(listFetches') <= Cardinality(listFetches) + Cardinality(L)
  <2> DEFINE f == [e \in L |-> e.requestSeq]
             T == {f[e] : e \in L}
  <2>1. IsFiniteSet(T) /\ Cardinality(T) \in Nat /\ Cardinality(T) <= Cardinality(L)
    <3>1. DOMAIN f = L /\ f = [e \in L |-> f[e]]
      OBVIOUS
    <3> HIDE DEF f
    <3> QED BY <1>1, <3>1, ImageOf
  <2>2. listFetches' = listFetches \cup T
    BY DEF Commit
  <2> HIDE DEF T, L
  <2> QED BY <1>1, <2>1, <2>2, Counts, UnionOf DEF Finite
<1>3. /\ IsFiniteSet(fetches') /\ Cardinality(fetches') \in Nat
      /\ Cardinality(fetches') <= Cardinality(fetches) + Cardinality(P)
  <2>1. StartFetches
    BY DEF Commit
  <2>2. IsFiniteSet(Sent) /\ Cardinality(Sent) \in Nat /\ Cardinality(Sent) <= Cardinality(P)
    <3>1. Sent \in SUBSET P
      BY DEF Sent
    <3> QED BY <1>1, <3>1, FS_Subset, FS_CardinalityType
  <2>3. CASE Sent = {}
    <3>1. fetches' = fetches
      BY <2>1, <2>3 DEF StartFetches
    <3> HIDE DEF P
    <3> QED BY <1>1, <3>1, Counts DEF Finite
  <2>4. CASE Sent # {}
    <3> PICK last \in Sent :
           fetches' = {[f EXCEPT !.aborted = TRUE] : f \in fetches} \cup
                        {[requestSeq |-> e.requestSeq, runId |-> e.runId,
                          aborted |-> e # last] : e \in Sent}
      BY <2>1, <2>4 DEF StartFetches
    <3> DEFINE g == [f \in fetches |-> [f EXCEPT !.aborted = TRUE]]
               h == [e \in Sent |-> [requestSeq |-> e.requestSeq, runId |-> e.runId,
                                     aborted |-> e # last]]
               G == {g[f] : f \in fetches}
               H == {h[e] : e \in Sent}
    <3>1. fetches' = G \cup H
      OBVIOUS
    <3>2. IsFiniteSet(G) /\ Cardinality(G) \in Nat /\ Cardinality(G) <= Cardinality(fetches)
      <4>1. DOMAIN g = fetches /\ g = [f \in fetches |-> g[f]]
        OBVIOUS
      <4> HIDE DEF g
      <4> QED BY <4>1, ImageOf DEF Finite
    <3>3. IsFiniteSet(H) /\ Cardinality(H) \in Nat /\ Cardinality(H) <= Cardinality(Sent)
      <4>1. DOMAIN h = Sent /\ h = [e \in Sent |-> h[e]]
        OBVIOUS
      <4> HIDE DEF h
      <4> QED BY <2>2, <4>1, ImageOf
    <3> HIDE DEF G, H, P
    <3>4. /\ IsFiniteSet(G \cup H) /\ Cardinality(G \cup H) \in Nat
          /\ Cardinality(G \cup H) <= Cardinality(G) + Cardinality(H)
      BY <3>2, <3>3, UnionOf
    <3>5. Cardinality(fetches) \in Nat
      BY Counts
    <3>6. /\ Cardinality(G \cup H) \in Nat
          /\ Cardinality(G \cup H) <= Cardinality(fetches) + Cardinality(P)
      BY <1>1, <2>2, <3>2, <3>3, <3>4, <3>5
    <3>7. IsFiniteSet(fetches') /\ Cardinality(fetches') = Cardinality(G \cup H)
      BY <3>1, <3>4, Zenon
    <3> QED BY <3>6, <3>7
  <2> QED BY <2>3, <2>4
<1>4. /\ IsFiniteSet(slowTimers') /\ Cardinality(slowTimers') \in Nat
      /\ Cardinality(slowTimers') <= Cardinality(slowTimers) + Cardinality(P)
  <2> DEFINE f == [e \in P |-> RequestOf(e)]
             T == {f[e] : e \in P}
             U == slowTimers \cup T
  <2>1. IsFiniteSet(T) /\ Cardinality(T) \in Nat /\ Cardinality(T) <= Cardinality(P)
    <3>1. DOMAIN f = P /\ f = [e \in P |-> f[e]]
      OBVIOUS
    <3> HIDE DEF f
    <3> QED BY <1>1, <3>1, ImageOf
  <2>2. slowTimers' \in SUBSET U
    BY DEF Commit
  <2> HIDE DEF T, P
  <2>3. IsFiniteSet(U) /\ Cardinality(U) \in Nat
        /\ Cardinality(U) <= Cardinality(slowTimers) + Cardinality(T)
    BY <2>1, UnionOf DEF Finite
  <2> HIDE DEF U
  <2>4. /\ IsFiniteSet(slowTimers') /\ Cardinality(slowTimers') <= Cardinality(U)
        /\ Cardinality(slowTimers') \in Nat
    BY <2>2, <2>3, FS_Subset, FS_CardinalityType
  <2> QED BY <1>1, <2>1, <2>3, <2>4, Counts
<1>5. /\ effects' = {} /\ Unsaved' = 0
      /\ \A t : Pending(t)' = {}
  BY DEF Commit, Unsaved, Pending, model
<1>6. Cardinality({}) = 0 /\ IsFiniteSet({})
  BY FS_EmptySet
\* The commit has something to do.
<1>7. Cardinality(P) > 0 \/ Cardinality(L) > 0 \/ Cardinality(C) > 0 \/ Unsaved = 1
  <2>1. CASE effects # {}
    <3>1. P # {} \/ L # {} \/ C # {}
      BY <2>1 DEF Pending, IInv, TypeOK
    <3> HIDE DEF P, L, C
    <3> QED BY <1>1, <3>1, FS_EmptySet
  <2>2. CASE stored # selection.selectedRunId
    BY <2>2 DEF Unsaved
  <2> QED BY <2>1, <2>2 DEF Commit
<1>8. Finite'
  BY <1>2, <1>3, <1>4, <1>5, <1>6 DEF Finite
<1>9. Work' < Work
  <2>1. Work = 7 * Cardinality(L) + 6 * Cardinality(listFetches) + 4 * Cardinality(P)
               + 2 * Cardinality(fetches) + Cardinality(slowTimers) + Cardinality(C)
               + Unsaved
    BY DEF Work
  <2>2. Work' = 6 * Cardinality(listFetches') + 2 * Cardinality(fetches')
                + Cardinality(slowTimers')
    <3>1. /\ Cardinality(Pending("fetchRuns")') = 0
          /\ Cardinality(Pending("fetchRun")') = 0
          /\ Cardinality(Pending("cancelSlowRunTimer")') = 0
          /\ Unsaved' = 0
      BY <1>5, <1>6, Zenon
    <3>2. Work' = 7 * Cardinality(Pending("fetchRuns")') + 6 * Cardinality(listFetches')
                  + 4 * Cardinality(Pending("fetchRun")') + 2 * Cardinality(fetches')
                  + Cardinality(slowTimers') + Cardinality(Pending("cancelSlowRunTimer")')
                  + Unsaved'
      BY DEF Work
    <3> QED BY <1>2, <1>3, <1>4, <3>1, <3>2
  <2> HIDE DEF P, L, C
  <2> QED BY <1>1, <1>2, <1>3, <1>4, <1>7, <2>1, <2>2, Counts
<1> QED BY <1>8, <1>9

LEMMA CommandsFinite ==
  ASSUME Finite,
         \/ Boot \/ ManualRefreshClicked \/ PollTick
         \/ \E r \in Run : RunSelected(r)
         \/ LatestClicked \/ SelectionCleared \/ RetrySelectedRunClicked \/ Reload
  PROVE  Finite'
<1>1. CASE Boot \/ ManualRefreshClicked \/ PollTick
  BY <1>1, AddOne DEF Boot, ManualRefreshClicked, PollTick, RequestRuns, hook, Finite
<1>2. CASE \/ \E r \in Run : RunSelected(r)
           \/ LatestClicked \/ RetrySelectedRunClicked
  BY <1>2, FiniteLoad DEF RunSelected, LatestClicked, RetrySelectedRunClicked, hook, Finite
<1>3. CASE SelectionCleared
  BY <1>3 DEF SelectionCleared, hook, Finite
<1>4. CASE Reload
  BY <1>4, FS_EmptySet DEF Reload, Finite
<1> QED BY <1>1, <1>2, <1>3, <1>4

\* Once the user and the poll timer leave the run control alone it comes to
\* rest after finitely many steps, and at rest nothing is loading: no sequence
\* of answers, refetches, timers and commits keeps a load from its end
\* (useRunControl.ts, runControlReducer.ts).
THEOREM LoadsRunOut == Spec => []LoadsAreWork /\ WorkRunsOut
<1>1. Init => Finite
  BY FS_EmptySet DEF Init, Finite
<1>2. IInv /\ Finite /\ [Next]_vars => Finite' /\ [commands' = commands => Work' < Work]_vars
  <2> SUFFICES ASSUME IInv, Finite, [Next]_vars
               PROVE  Finite' /\ [commands' = commands => Work' < Work]_vars
    OBVIOUS
  <2>1. ASSUME NEW q \in listFetches, ListAnswer(q) PROVE Finite' /\ Work' < Work
    BY <2>1, ListWork
  <2>2. ASSUME NEW f \in fetches, RunAnswer(f) PROVE Finite' /\ Work' < Work
    BY <2>2, AnswerWork
  <2>3. ASSUME NEW t \in slowTimers, SlowTimer(t) PROVE Finite' /\ Work' < Work
    BY <2>3, TimerWork
  <2>4. CASE Commit
    BY <2>4, CommitWork
  <2>5. CASE UNCHANGED vars
    BY <2>5 DEF vars, model, hook, Finite
  <2>6. Finite'
    BY <2>1, <2>2, <2>3, <2>4, <2>5, CommandsFinite DEF Next
  <2>7. commands' = commands => UNCHANGED vars \/ Work' < Work
    BY <2>1, <2>2, <2>3, <2>4, Uncounted
  <2> QED BY <2>6, <2>7
<1>3. IInv /\ Finite => LoadsAreWork
  <2> SUFFICES ASSUME IInv, Finite PROVE LoadsAreWork
    OBVIOUS
  <2>1. Work \in Nat
    BY Counts DEF Work
  <2>2. ASSUME Work = 0
        PROVE  /\ Pending("fetchRun") = {} /\ Pending("fetchRuns") = {}
               /\ fetches = {} /\ listFetches = {}
    <3>1. /\ Cardinality(Pending("fetchRun")) = 0 /\ Cardinality(Pending("fetchRuns")) = 0
          /\ Cardinality(fetches) = 0 /\ Cardinality(listFetches) = 0
      <4> DEFINE l == Cardinality(Pending("fetchRuns"))
                 p == Cardinality(Pending("fetchRun"))
                 c == Cardinality(Pending("cancelSlowRunTimer"))
                 m == Cardinality(listFetches)
                 n == Cardinality(fetches)
                 k == Cardinality(slowTimers)
      <4>1. 7 * l + 6 * m + 4 * p + 2 * n + k + c + Unsaved = 0
        BY <2>2 DEF Work
      <4>2. /\ l \in Nat /\ m \in Nat /\ p \in Nat /\ n \in Nat /\ k \in Nat /\ c \in Nat
            /\ Unsaved \in {0, 1}
        BY Counts
      <4> HIDE DEF l, p, c, m, n, k
      <4>3. l = 0 /\ p = 0 /\ m = 0 /\ n = 0
        BY <4>1, <4>2
      <4> QED BY <4>3 DEF l, p, m, n
    <3> QED BY <3>1, Counts, FS_EmptySet DEF Finite
  <2>3. ASSUME Work = 0 PROVE selectedRun.status \notin Loading
    <3>1. ~Queued /\ ~Outstanding
      BY <2>2, <2>3 DEF Queued, Outstanding, Pending, FetchRun
    <3> QED BY <3>1 DEF IInv, NoLostLoad
  <2>4. ASSUME Work = 0 PROVE runs.status # "loading"
    BY <2>2, <2>4 DEF IInv, NoLostLoad, Pending, FetchRuns
  <2> QED BY <2>1, <2>3, <2>4 DEF LoadsAreWork
<1> QED BY <1>1, <1>2, <1>3, Invariance, PTL DEF Spec, WorkRunsOut
=============================================================================
