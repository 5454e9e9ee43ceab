--------------------------- MODULE IncidentStore ---------------------------
(***************************************************************************)
(* The event-sourced SQLite incident store                                 *)
(* (src/src/k8s_diag_agent/collect/incident_store_sqlite*.py).             *)
(*                                                                         *)
(* Durable state, shared by every process that opens the database file:    *)
(*   events  the append-only table incident_events, per incident           *)
(*   row     the projection incident_current                               *)
(*   idem    the table lifecycle_idempotency                               *)
(* Volatile state, one copy per process:                                   *)
(*   cache   SQLiteIncidentStore._incidents                                *)
(*   pc, job the request inside _write_context(): the process-wide write   *)
(*           lock admits one at a time, so a process has one job           *)
(*   rebuild, loaded   progress of store.rebuild_projection() after it has *)
(*           left the write context                                        *)
(*                                                                         *)
(* A request reads the cache under the write lock (its admission), opens a *)
(* BEGIN IMMEDIATE transaction, appends events and projects them, commits, *)
(* and only then updates the cache.  Between any two of these steps the    *)
(* process may crash and another process may run.                          *)
(*                                                                         *)
(* Requests that find nothing to do (unknown incident, transition rejected *)
(* by the cached status, duplicate observation) change no state and are    *)
(* stuttering steps.  Timestamps, hashes and the wording of payloads are   *)
(* left out; a list of signals or links is the set of its members.         *)
(***************************************************************************)
EXTENDS Integers, Sequences, FiniteSets

CONSTANTS
  Process,          \* store instances (processes) on one database file
  Incident,         \* incident identifiers
  Bundle,           \* snapshot bundles
  PromotionBundle,  \* the bundles that promotions carry
  Artifact,         \* other evidence artifacts
  Signal,           \* signatures of candidate signals
  Run,              \* runs named by requests to the transition endpoint
  LocalRun,         \* runs of diagnosis loops that mark the store directly
  Fingerprint,      \* payload fingerprints of transition requests
  None,             \* Python's None
  Operations,       \* the requests that the environment issues
  Requested,        \* the transitions that clients of the endpoint request
  MaxEvents,        \* bound: events of one incident
  MaxCrashes,       \* bound: crashes of processes
  MaxTruncations    \* bound: truncations of incident_current

Status == {"open", "collecting_evidence", "ready_for_review", "investigating",
           "suppressed", "duplicate", "resolved"}
Protected == {"suppressed", "duplicate", "resolved"}
Transition == {"started", "completed", "failed"}
\* updated and imported, which the store never appends, are left out.
EventType == Transition \cup
  {"opened", "signal_observed", "collecting_evidence_started",
   "ready_for_review", "investigation_started", "suppressed",
   "marked_duplicate", "resolved", "evidence_attached"}
Link == Bundle \cup Artifact
OperationName == {"promote", "add_incident", "transition", "attach", "mark",
                  "lifecycle", "rebuild"}

ASSUME ConstantsAssumption ==
  /\ PromotionBundle \subseteq Bundle
  /\ Operations \subseteq OperationName
  /\ Requested \subseteq Transition
  /\ Run \cap LocalRun = {}
  /\ None \notin Bundle \cup Artifact \cup Run \cup LocalRun \cup Fingerprint
  /\ None \notin Process
  /\ MaxEvents \in Nat /\ MaxCrashes \in Nat /\ MaxTruncations \in Nat

\* The key of the unique index of lifecycle_idempotency; a run stands for the
\* pair of collector and diagnosis run.
Key == [incident : Incident, transition : Transition, run : Run]

\* An aggregate: current_state_json of a row, or a cached Incident.
State == [status : Status \cup {None}, bundle : Bundle \cup {None},
          links : SUBSET Link, signals : SUBSET Signal,
          loop : Transition \cup {None}, run : Run \cup LocalRun \cup {None}]

\* Event payloads; None stands for a field that the payload does not have.
Payload == [type : EventType, bundle : Bundle \cup {None},
            links : (SUBSET Link) \cup {None}, signals : (SUBSET Signal) \cup {None},
            run : Run \cup LocalRun \cup {None}]

Row == [version : Nat, state : State]
Event == [version : Nat, payload : Payload]

\* None is not an aggregate and not a row.
ASSUME NoneAssumption == None \notin State \cup Row

Job == [op : {"write", "mark", "lifecycle"}, incident : Incident,
        specs : Seq(Payload), next : State \cup {None},
        key : Key \cup {None}, fingerprint : Fingerprint \cup {None},
        base : Nat]

VARIABLES events, row, idem, cache, pc, job, rebuild, loaded,
          replies, crashes, truncations

durable  == <<events, row, idem>>
rebuilds == <<rebuild, loaded>>
bounds   == <<crashes, truncations>>
vars == <<durable, cache, pc, job, rebuilds, replies, bounds>>

-----------------------------------------------------------------------------
(* Payloads and the projector                                              *)

Fact(type) == [type |-> type, bundle |-> None, links |-> None,
               signals |-> None, run |-> None]
Opened(sigs)       == [Fact("opened") EXCEPT !.signals = sigs]
Observed(sigs)     == [Fact("signal_observed") EXCEPT !.signals = sigs]
Collecting(b, ls)  == [Fact("collecting_evidence_started")
                         EXCEPT !.bundle = b, !.links = ls]
Attached(ls)       == [Fact("evidence_attached") EXCEPT !.links = ls]
Diagnosis(t, r)    == [Fact(t) EXCEPT !.run = r]

\* The state {} on which the first event of an incident is projected.
Blank == [status |-> None, bundle |-> None, links |-> {}, signals |-> {},
          loop |-> None, run |-> None]

StatusOf == [opened |-> "open",
             collecting_evidence_started |-> "collecting_evidence",
             ready_for_review |-> "ready_for_review",
             investigation_started |-> "investigating",
             suppressed |-> "suppressed",
             marked_duplicate |-> "duplicate",
             resolved |-> "resolved"]

\* apply_event_to_state: one event applied to the state of a row.
apply_event_to_state(s, e) ==
  [status  |-> IF e.type \in DOMAIN StatusOf THEN StatusOf[e.type] ELSE s.status,
   bundle  |-> IF e.type \in {"opened", "collecting_evidence_started"}
               THEN e.bundle ELSE s.bundle,
   links   |-> IF e.type = "opened" THEN {}
               ELSE IF e.links # None THEN e.links ELSE s.links,
   signals |-> IF e.type \in {"opened", "signal_observed"} /\ e.signals # None
               THEN e.signals ELSE s.signals,
   loop    |-> IF e.type \in Transition THEN e.type ELSE s.loop,
   run     |-> IF e.type \in Transition THEN e.run ELSE s.run]

\* Faulty variant: an update starts over from {} instead of the stored state.
StateOfBlank(r) == Blank

StateOf(r) == IF r = None THEN Blank ELSE r.state

\* Faulty variant: the row counts its own updates.
update_projection_by_count(r, v, e) ==
  [version |-> IF r = None THEN 1 ELSE r.version + 1,
   state |-> apply_event_to_state(StateOf(r), e)]

\* update_projection_for_event: the row after event e, stored as version v.
update_projection_for_event(r, v, e) ==
  [version |-> v, state |-> apply_event_to_state(StateOf(r), e)]

\* The rows of a SELECT on incident_current, as a cache.
CacheOf(rows) == [i \in Incident |-> IF rows[i] = None THEN None
                                     ELSE rows[i].state]

-----------------------------------------------------------------------------
Init ==
  /\ events = [i \in Incident |-> <<>>]
  /\ row = [i \in Incident |-> None]
  /\ idem = [k \in Key |-> None]
  /\ cache = [p \in Process |-> [i \in Incident |-> None]]
  /\ pc = [p \in Process |-> "idle"]
  /\ job = [p \in Process |-> None]
  /\ rebuild = [p \in Process |-> "none"]
  /\ loaded = [p \in Process |-> None]
  /\ replies = {}
  /\ crashes = 0
  /\ truncations = 0

\* No transaction holds the write lock of the database file.
DatabaseFree == \A q \in Process : pc[q] # "txn"

\* Bound: the log of an incident has room for n events more.
Room(i, n) == Len(events[i]) + n <= MaxEvents

\* A request is admitted under the write lock of its process.
Admit(p, j) ==
  /\ pc[p] = "idle"
  /\ j.op = "lifecycle" \/ Room(j.incident, Len(j.specs))
  /\ pc' = [pc EXCEPT ![p] = "begin"]
  /\ job' = [job EXCEPT ![p] = j]
  /\ UNCHANGED <<durable, cache, rebuilds, replies, bounds>>

Write(i, specs, next) ==
  [op |-> "write", incident |-> i, specs |-> specs, next |-> next,
   key |-> None, fingerprint |-> None, base |-> 0]

-----------------------------------------------------------------------------
(* Admission of the requests: what each does is decided from the cache     *)

\* Faulty variant: the candidate's signals replace those of the incident.
merge_candidate_replacing(s, sigs) == [s EXCEPT !.signals = sigs]

\* merge_candidate_into_incident and its variant with a bundle, which builds
\* the incident field by field and leaves its diagnosis_loop out.
merge_candidate(s, sigs) == [s EXCEPT !.signals = @ \cup sigs]
merge_candidate_with_bundle(s, sigs, b) ==
  LET merged == [merge_candidate(s, sigs) EXCEPT !.loop = None, !.run = None]
  IN  IF s.status \in Protected \cup {"ready_for_review"} THEN merged
      ELSE [merged EXCEPT !.status = "collecting_evidence",
                          !.bundle = b, !.links = @ \cup {b}]

\* open_incident_from_candidate and its variant with a bundle, which keeps
\* the status open.
open_incident(sigs) == [Blank EXCEPT !.status = "open", !.signals = sigs]
\* (Faulty variant: the cached incident lacks the link.)
open_incident_unlinked(sigs, b) == [open_incident(sigs) EXCEPT !.bundle = b]
open_incident_with_bundle(sigs, b) ==
  [open_incident(sigs) EXCEPT !.bundle = b, !.links = {b}]

PromoteOpen(p, i, sigs, b) ==
  /\ cache[p][i] = None
  /\ Admit(p, IF b = None
              THEN Write(i, <<Opened(sigs)>>, open_incident(sigs))
              ELSE Write(i, <<Opened(sigs), Collecting(b, {b})>>,
                         open_incident_with_bundle(sigs, b)))

PromoteMerge(p, i, sigs, b) ==
  /\ cache[p][i] # None
  /\ LET merged == IF b = None THEN merge_candidate(cache[p][i], sigs)
                   ELSE merge_candidate_with_bundle(cache[p][i], sigs, b)
     IN  Admit(p, Write(i, <<IF b = None THEN Observed(merged.signals)
                             ELSE [Collecting(b, merged.links)
                                     EXCEPT !.signals = merged.signals]>>,
                        merged))

Promote(p) ==
  /\ "promote" \in Operations
  /\ \E i \in Incident, sigs \in (SUBSET Signal) \ {{}},
        b \in PromotionBundle \cup {None} :
        PromoteOpen(p, i, sigs, b) \/ PromoteMerge(p, i, sigs, b)

\* add_incident: an incident that alert promotion opened; skipped when the
\* cache has it.
AddIncident(p) ==
  /\ "add_incident" \in Operations
  /\ \E i \in Incident, sigs \in SUBSET Signal :
        /\ cache[p][i] = None
        /\ Admit(p, Write(i, <<Opened(sigs)>>, open_incident(sigs)))

\* Faulty variant: resolved and duplicate incidents can be suppressed.
MovesFromTerminal ==
  [collecting_evidence_started |-> {"open"},
   ready_for_review            |-> {"collecting_evidence"},
   investigation_started       |-> {"ready_for_review"},
   resolved                    |-> {"investigating"},
   suppressed                  |-> Status \ {"suppressed"},
   marked_duplicate            |-> Status \ Protected]

\* The lifecycle transitions of the store: the cached status decides, the
\* cached aggregate gets the new status and nothing else.
Moves == [collecting_evidence_started |-> {"open"},
          ready_for_review            |-> {"collecting_evidence"},
          investigation_started       |-> {"ready_for_review"},
          resolved                    |-> {"investigating"},
          suppressed                  |-> Status \ Protected,
          marked_duplicate            |-> Status \ Protected]

MarkStatus(p) ==
  /\ "transition" \in Operations
  /\ \E i \in Incident, m \in DOMAIN Moves, b \in Bundle :
        /\ cache[p][i] # None
        /\ cache[p][i].status \in Moves[m]
        /\ Admit(p, Write(i, <<IF m = "collecting_evidence_started"
                               THEN Collecting(b, None) ELSE Fact(m)>>,
                          [cache[p][i] EXCEPT !.status = StatusOf[m]]))

\* attach_evidence: the payload carries the cached links and the new one.
AttachEvidence(p) ==
  /\ "attach" \in Operations
  /\ \E i \in Incident, a \in Artifact :
        /\ cache[p][i] # None
        /\ LET next == [cache[p][i] EXCEPT !.links = @ \cup {a}]
           IN  Admit(p, Write(i, <<Attached(next.links)>>, next))

\* mark_diagnosis_loop_started / completed / failed, not idempotent.
MarkDiagnosisLoop(p) ==
  /\ "mark" \in Operations
  /\ \E i \in Incident, t \in Transition, r \in LocalRun :
        /\ cache[p][i] # None
        /\ Admit(p, [Write(i, <<Diagnosis(t, r)>>, None) EXCEPT !.op = "mark"])

TransitionJob(k, f) ==
  [op |-> "lifecycle", incident |-> k.incident,
   specs |-> <<Diagnosis(k.transition, k.run)>>, next |-> None,
   key |-> k, fingerprint |-> f, base |-> 0]

\* POST diagnosis-loop-transition: admitted whatever the cache holds.
RequestTransition(p) ==
  /\ "lifecycle" \in Operations
  /\ \E k \in {key \in Key : key.transition \in Requested}, f \in Fingerprint :
        Admit(p, TransitionJob(k, f))

-----------------------------------------------------------------------------
(* The transaction                                                         *)

\* BEGIN IMMEDIATE and the read of the previous version of the aggregate.
Begin(p) ==
  /\ pc[p] = "begin"
  /\ job[p].op # "lifecycle"
  /\ DatabaseFree
  /\ pc' = [pc EXCEPT ![p] = "txn"]
  /\ job' = [job EXCEPT ![p].base = Len(events[job[p].incident])]
  /\ UNCHANGED <<durable, cache, rebuilds, replies, bounds>>

Reply(k, f, outcome) ==
  replies' = replies \cup {[key |-> k, fingerprint |-> f, outcome |-> outcome]}

\* The idempotency lookup that follows BEGIN IMMEDIATE: a fingerprint that
\* differs is refused, the same one is a replay, and an incident without a
\* row is not found; otherwise the event is appended.
BeginFirst(p) ==
  LET j == job[p] IN
  /\ idem[j.key] = None
  /\ row[j.incident] # None
  /\ Room(j.incident, 1)
  /\ pc' = [pc EXCEPT ![p] = "txn"]
  /\ job' = [job EXCEPT ![p].base = Len(events[j.incident])]
  /\ UNCHANGED replies

\* (Faulty variant: any earlier request with the key counts as a replay.)
BeginReplayAny(p) ==
  /\ idem[job[p].key] # None
  /\ pc' = [pc EXCEPT ![p] = "refresh"]
  /\ UNCHANGED <<job, replies>>

BeginReplay(p) ==
  LET j == job[p] IN
  /\ idem[j.key] = j.fingerprint
  /\ pc' = [pc EXCEPT ![p] = "refresh"]
  /\ UNCHANGED <<job, replies>>

BeginMismatch(p) ==
  LET j == job[p] IN
  /\ idem[j.key] \notin {None, j.fingerprint}
  /\ pc' = [pc EXCEPT ![p] = "idle"]
  /\ job' = [job EXCEPT ![p] = None]
  /\ Reply(j.key, j.fingerprint, "replay_mismatch")

BeginNotFound(p) ==
  LET j == job[p] IN
  /\ idem[j.key] = None
  /\ row[j.incident] = None
  /\ pc' = [pc EXCEPT ![p] = "idle"]
  /\ job' = [job EXCEPT ![p] = None]
  /\ UNCHANGED replies

BeginLifecycle(p) ==
  /\ pc[p] = "begin"
  /\ job[p].op = "lifecycle"
  /\ DatabaseFree
  /\ BeginFirst(p) \/ BeginReplay(p) \/ BeginMismatch(p) \/ BeginNotFound(p)
  /\ UNCHANGED <<durable, cache, rebuilds, bounds>>

\* Faulty variant: the events of one transaction share a version.
StampOnce(base, specs) ==
  [n \in 1..Len(specs) |-> [version |-> base + 1, payload |-> specs[n]]]

\* Faulty variant: the first event takes the last version read, not the next.
StampFromLast(base, specs) ==
  [n \in 1..Len(specs) |-> [version |-> base + n - 1, payload |-> specs[n]]]

\* _append_event_in_transaction, for one spec: version after the last one
\* read, event inserted, row updated.
Stamp(base, specs) ==
  [n \in 1..Len(specs) |-> [version |-> base + n, payload |-> specs[n]]]

Projected(r, base, specs) ==
  LET first == update_projection_for_event(r, base + 1, specs[1])
  IN  IF Len(specs) = 1 THEN first
      ELSE update_projection_for_event(first, base + 2, specs[2])

\* idx_incident_events_incident_version: no version is stored twice.
VersionsUnused(i, base) == \A n \in DOMAIN events[i] : events[i][n].version <= base

\* append_event and append_events_atomic: every event of the job and its
\* projection commit together.
Commit(p) ==
  LET j == job[p] IN
  /\ pc[p] = "txn"
  /\ j.op # "lifecycle"
  /\ VersionsUnused(j.incident, j.base)
  /\ events' = [events EXCEPT ![j.incident] = @ \o Stamp(j.base, j.specs)]
  /\ row' = [row EXCEPT ![j.incident] = Projected(@, j.base, j.specs)]
  /\ pc' = [pc EXCEPT ![p] = IF j.op = "write" THEN "publish" ELSE "refresh"]
  /\ UNCHANGED <<idem, cache, job, rebuilds, replies, bounds>>

\* Faulty variant: the transition commits without its idempotency row.
CommitUnrecorded(p) ==
  LET j == job[p] IN
  /\ pc[p] = "txn"
  /\ j.op = "lifecycle"
  /\ VersionsUnused(j.incident, j.base)
  /\ idem[j.key] = None
  /\ events' = [events EXCEPT ![j.incident] = @ \o Stamp(j.base, j.specs)]
  /\ row' = [row EXCEPT ![j.incident] = Projected(@, j.base, j.specs)]
  /\ pc' = [pc EXCEPT ![p] = "refresh"]
  /\ UNCHANGED <<idem, cache, job, rebuilds, replies, bounds>>

\* apply_diagnosis_lifecycle_idempotently: the event, its projection and the
\* idempotency row commit together.
CommitLifecycle(p) ==
  LET j == job[p] IN
  /\ pc[p] = "txn"
  /\ j.op = "lifecycle"
  /\ VersionsUnused(j.incident, j.base)
  /\ idem[j.key] = None
  /\ events' = [events EXCEPT ![j.incident] = @ \o Stamp(j.base, j.specs)]
  /\ row' = [row EXCEPT ![j.incident] = Projected(@, j.base, j.specs)]
  /\ idem' = [idem EXCEPT ![j.key] = j.fingerprint]
  /\ pc' = [pc EXCEPT ![p] = "refresh"]
  /\ UNCHANGED <<cache, job, rebuilds, replies, bounds>>

\* The busy timeout of BEGIN, or an error before the commit: rolled back, and
\* answered persistence_failed by the transition endpoint.
Abort(p) ==
  /\ pc[p] \in {"begin", "txn"}
  /\ pc' = [pc EXCEPT ![p] = "idle"]
  /\ job' = [job EXCEPT ![p] = None]
  /\ UNCHANGED <<durable, cache, rebuilds, replies, bounds>>

-----------------------------------------------------------------------------
(* The cache, after the commit                                             *)

Leave(p) == /\ pc' = [pc EXCEPT ![p] = "idle"]
            /\ job' = [job EXCEPT ![p] = None]

\* Faulty variant: an aggregate that is cached already stays.
PublishNew(p) ==
  LET i == job[p].incident IN
  /\ pc[p] = "publish"
  /\ cache' = [cache EXCEPT ![p][i] = IF @ = None THEN job[p].next ELSE @]
  /\ Leave(p)
  /\ UNCHANGED <<durable, rebuilds, replies, bounds>>

\* put_cached_incident: the aggregate computed at admission.
Publish(p) ==
  /\ pc[p] = "publish"
  /\ cache' = [cache EXCEPT ![p][job[p].incident] = job[p].next]
  /\ Leave(p)
  /\ UNCHANGED <<durable, rebuilds, replies, bounds>>

\* Faulty variant: the cache gets the row, not the incident in it.
RefreshWithRow(p) ==
  LET j == job[p] IN
  /\ pc[p] = "refresh"
  /\ cache' = [cache EXCEPT ![p][j.incident] = row[j.incident]]
  /\ UNCHANGED replies
  /\ Leave(p)
  /\ UNCHANGED <<durable, rebuilds, bounds>>

\* _refresh_cache_from_projection: the row, if there is one; the transition
\* endpoint then answers applied.
Refresh(p) ==
  LET j == job[p] IN
  /\ pc[p] = "refresh"
  /\ cache' = [cache EXCEPT ![p][j.incident] =
                 IF row[j.incident] = None THEN @ ELSE row[j.incident].state]
  /\ IF j.op = "lifecycle" THEN Reply(j.key, j.fingerprint, "applied")
                           ELSE UNCHANGED replies
  /\ Leave(p)
  /\ UNCHANGED <<durable, rebuilds, bounds>>

\* Faulty variant: the request is retried for as long as the refresh fails.
RefreshRetries(p) ==
  /\ pc[p] = "refresh"
  /\ pc' = [pc EXCEPT ![p] = "begin"]
  /\ UNCHANGED <<durable, cache, job, rebuilds, replies, bounds>>

\* The SELECT of the refresh fails: what is committed stays committed, and
\* the caller is told that persistence failed.
RefreshFails(p) ==
  /\ pc[p] = "refresh"
  /\ Leave(p)
  /\ UNCHANGED <<durable, cache, rebuilds, replies, bounds>>

-----------------------------------------------------------------------------
(* Rebuild, crash, restart                                                 *)

\* rebuild_projection: DELETE and INSERTs open an implicit transaction that
\* nobody commits, so closing the connection rolls the rebuilt rows back.
RebuildRows(p) ==
  /\ "rebuild" \in Operations
  /\ pc[p] = "idle" /\ rebuild[p] = "none"
  /\ DatabaseFree
  /\ rebuild' = [rebuild EXCEPT ![p] = "clear"]
  /\ UNCHANGED <<durable, cache, pc, job, loaded, replies, bounds>>

\* Outside the write lock: self._incidents.clear() ...
RebuildClear(p) ==
  /\ rebuild[p] = "clear"
  /\ cache' = [cache EXCEPT ![p] = [i \in Incident |-> None]]
  /\ rebuild' = [rebuild EXCEPT ![p] = "load"]
  /\ UNCHANGED <<durable, pc, job, loaded, replies, bounds>>

\* ... then _load_from_projection: a SELECT ...
RebuildLoad(p) ==
  /\ rebuild[p] = "load"
  /\ loaded' = [loaded EXCEPT ![p] = row]
  /\ rebuild' = [rebuild EXCEPT ![p] = "install"]
  /\ UNCHANGED <<durable, cache, pc, job, replies, bounds>>

\* ... whose rows overwrite the cache entries.
RebuildInstall(p) ==
  /\ rebuild[p] = "install"
  /\ cache' = [cache EXCEPT ![p] = [i \in Incident |->
                 IF loaded[p][i] = None THEN @[i] ELSE loaded[p][i].state]]
  /\ rebuild' = [rebuild EXCEPT ![p] = "none"]
  /\ loaded' = [loaded EXCEPT ![p] = None]
  /\ UNCHANGED <<durable, pc, job, replies, bounds>>

\* A crash loses the memory of the process; SQLite rolls an open
\* transaction back.
Crash(p) ==
  /\ pc[p] # "down"
  /\ crashes < MaxCrashes
  /\ crashes' = crashes + 1
  /\ pc' = [pc EXCEPT ![p] = "down"]
  /\ job' = [job EXCEPT ![p] = None]
  /\ cache' = [cache EXCEPT ![p] = [i \in Incident |-> None]]
  /\ rebuild' = [rebuild EXCEPT ![p] = "none"]
  /\ loaded' = [loaded EXCEPT ![p] = None]
  /\ UNCHANGED <<durable, replies, truncations>>

\* Faulty variant: the cache starts empty.
RestartEmpty(p) ==
  /\ pc[p] = "down"
  /\ pc' = [pc EXCEPT ![p] = "idle"]
  /\ UNCHANGED <<durable, cache, job, rebuilds, replies, bounds>>

\* SQLiteIncidentStore.__init__: the cache is loaded from the projection.
Restart(p) ==
  /\ pc[p] = "down"
  /\ pc' = [pc EXCEPT ![p] = "idle"]
  /\ cache' = [cache EXCEPT ![p] = CacheOf(row)]
  /\ UNCHANGED <<durable, job, rebuilds, replies, bounds>>

\* An operator empties the projection while no process runs; the events are
\* protected by triggers.
Truncate ==
  /\ truncations < MaxTruncations
  /\ \A p \in Process : pc[p] = "down"
  /\ truncations' = truncations + 1
  /\ row' = [i \in Incident |-> None]
  /\ UNCHANGED <<events, idem, cache, pc, job, rebuilds, replies, crashes>>

-----------------------------------------------------------------------------
Step(p) == Begin(p) \/ BeginLifecycle(p) \/ Commit(p) \/ CommitLifecycle(p)
           \/ Abort(p) \/ Publish(p) \/ Refresh(p) \/ RefreshFails(p)

Request(p) == Promote(p) \/ AddIncident(p) \/ MarkStatus(p) \/ AttachEvidence(p)
              \/ MarkDiagnosisLoop(p) \/ RequestTransition(p)

Rebuild(p) == RebuildRows(p) \/ RebuildClear(p) \/ RebuildLoad(p)
              \/ RebuildInstall(p)

Next == \/ \E p \in Process : Step(p) \/ Request(p) \/ Rebuild(p)
                              \/ Crash(p) \/ Restart(p)
        \/ Truncate

Spec == Init /\ [][Next]_vars

\* A request that is being served keeps running: its thread is scheduled.
\* Nothing is assumed of clients, operators and crashes.
FairSpec == Spec /\ \A p \in Process : WF_vars(Step(p))

-----------------------------------------------------------------------------
(* Properties                                                              *)

TypeOK ==
  /\ events \in [Incident -> Seq(Event)]
  /\ row \in [Incident -> Row \cup {None}]
  /\ idem \in [Key -> Fingerprint \cup {None}]
  /\ cache \in [Process -> [Incident -> State \cup {None}]]
  /\ pc \in [Process -> {"down", "idle", "begin", "txn", "publish", "refresh"}]
  /\ job \in [Process -> Job \cup {None}]
  /\ rebuild \in [Process -> {"none", "clear", "load", "install"}]
  /\ loaded \in [Process -> [Incident -> Row \cup {None}] \cup {None}]
  /\ replies \subseteq [key : Key, fingerprint : Fingerprint,
                        outcome : {"applied", "replay_mismatch"}]
  /\ crashes \in Nat
  /\ truncations \in Nat

\* The events of incident i that record the transition of key k.
EventsOf(k) == {n \in DOMAIN events[k.incident] :
                  /\ events[k.incident][n].payload.type = k.transition
                  /\ events[k.incident][n].payload.run = k.run}

\* The versions of an incident's events are 1, 2, 3, ... without gap or
\* repetition, whatever processes interleave, abort or crash: the optimistic
\* read of the previous version is safe inside BEGIN IMMEDIATE.
Ledger == \A i \in Incident : \A n \in DOMAIN events[i] :
            events[i][n].version = n

\* A row is never behind the log: event and projection commit together.
RowIsCurrent == \A i \in Incident :
                  row[i] # None => row[i].version = Len(events[i])

\* rebuild_projection_for_incident: the aggregate that replaying all events of
\* a log gives, from the first on.
Replayed(log) ==
  LET state[n \in 0..Len(log)] ==
        IF n = 0 THEN Blank
        ELSE apply_event_to_state(state[n - 1], log[n].payload)
  IN  state[Len(log)]

\* The live projection equals the replay of the log: updating row by row
\* through stored JSON loses nothing that a rebuild would find.
RowIsReplay == \A i \in Incident :
  IF events[i] = <<>> THEN row[i] = None
  ELSE row[i] # None /\ row[i].state = Replayed(events[i])

\* Exactly-once transitions: over retries, replays, crashes and restarts, and
\* from any process, a key has one event if it has an idempotency row and
\* none otherwise.
ExactlyOnce == \A k \in Key :
  /\ idem[k] # None <=> EventsOf(k) # {}
  /\ \A m, n \in EventsOf(k) : m = n

\* What clients were told stays true: "applied" was answered to the
\* fingerprint that is durable, "replay_mismatch" only to another one.
RepliesTruthful == \A r \in replies :
  IF r.outcome = "applied" THEN idem[r.key] = r.fingerprint
                           ELSE idem[r.key] \notin {None, r.fingerprint}

\* With one process, an incident is opened once: has_incident() asks the
\* cache, which a crash between commit and publication must not mislead.
OpenedOnce == \A i \in Incident : \A m, n \in DOMAIN events[i] :
  events[i][m].payload.type = "opened" /\ events[i][n].payload.type = "opened"
    => m = n

\* With one process, the cache between two requests knows every incident that
\* has a row, and every signal and link of the row: the payloads built from
\* the cache lose nothing.
CacheCoversRow == \A p \in Process, i \in Incident :
  pc[p] = "idle" /\ row[i] # None =>
    /\ cache[p][i] # None
    /\ row[i].state.signals \subseteq cache[p][i].signals
    /\ row[i].state.links \subseteq cache[p][i].links

\* With one process, no step takes a signal or a link out of a row.
EvidenceKept == [][\A i \in Incident :
  row[i] # None /\ row'[i] # None =>
    /\ row[i].state.signals \subseteq row'[i].state.signals
    /\ row[i].state.links \subseteq row'[i].state.links]_vars

\* A request that holds the write lock of its process releases it.
Served == \A p \in Process :
  pc[p] \in {"begin", "txn", "publish", "refresh"} ~> pc[p] \in {"idle", "down"}

\* docs/data-model/incidents.md: suppressed, duplicate and resolved "are
\* protected from normal bundle reactivation", and ready_for_review "should
\* not be downgraded by a later bundle merge".  The cached aggregate is, the
\* row is not: collecting_evidence_started overwrites the status.
BundleKeepsProtected == [][\A i \in Incident :
  /\ row[i] # None /\ row'[i] # None
  /\ row[i].state.status \in Protected \cup {"ready_for_review"}
  => row'[i].state.status # "collecting_evidence"]_vars

\* incident_store_sqlite_projection.py: the projection "can be safely
\* truncated and rebuilt".  When rebuild_projection() returns, every incident
\* with events should have a row again.
RebuildRestores == [][\A p \in Process :
  rebuild[p] = "install" /\ rebuild'[p] = "none" /\ pc'[p] # "down"
    => \A i \in Incident : events[i] # <<>> => row'[i] # None]_vars

\* While promotions carry no bundle, the status of the rows of one process
\* follows the lifecycle of the domain, over crashes and restarts, although
\* transitions are decided from the cached status.
Lifecycle == INSTANCE IncidentLifecycle WITH
  status <- [i \in Incident |-> IF row[i] = None THEN "absent"
                                ELSE row[i].state.status]
ImplementsLifecycle == Lifecycle!Spec

\* For any processes that share the file, with crashes, aborts, rebuilds and
\* truncations, the transition endpoint keeps the promise of an idempotent
\* register: what a key recorded, and where, is never changed, and no answer
\* precedes what it tells of.
Register == INSTANCE TransitionRegister WITH
  recorded <- idem,
  length <- [i \in Incident |-> Len(events[i])],
  positions <- [k \in Key |-> EventsOf(k)]
ImplementsRegister == Register!Spec

\* With one process, the rows move as the diagnosis loop assumes of those it
\* lists, bundles and crashes included: none comes up for review again once it
\* is closed, unless a promotion takes it up first.  The status that decides is
\* the cached one, and with bundles it is not that of the row.
Feed == INSTANCE DiagnosisStatus WITH
  status <- [i \in Incident |->
               IF row[i] = None THEN "absent"
               ELSE IF row[i].state.status \in Protected THEN "closed"
               ELSE IF row[i].state.status = "ready_for_review" THEN "review"
               ELSE "active"]
FeedsDiagnosis == Feed!Spec
=============================================================================
