# k9b: specifications, model checking and proofs

TLA+ modules of the parts of k9b (`src/src/k8s_diag_agent`, `src/frontend`) whose
correctness depends on order: transactions, crashes, locks, retries. Paths below
are relative to `src/`, and `collect/`, `ui/`, `health/`, `domain/` stand for the
packages of `src/k8s_diag_agent`.

## 1. The system

k9b is a Kubernetes diagnosis service. A **scheduler** process runs the health
loop, which writes run artifacts. A **backend** process serves the UI, receives
alerts, and keeps **incidents** in an event-sourced SQLite store. **Collectors**
run diagnosis loops for incidents and report their progress to the backend over
HTTP. The **frontend** polls the backend and submits runs and approvals.

| Component | State | Operations | Interacts with | What is hard | What makes it correct |
|---|---|---|---|---|---|
| SQLite incident store (`collect/incident_store_sqlite*.py`) | tables `incident_events`, `incident_current`, `lifecycle_idempotency`; per process the cache `_incidents` and a write lock | promote candidates, add incident, status transitions, attach evidence, diagnosis marks, idempotent transitions, rebuild, start | called by promotion, the transition endpoint, read models | crash between commit and cache; several processes; retries; payloads built from a cache | versions without gaps; rows never behind the log; transitions exactly once; nothing lost by restarts |
| Incident lifecycle domain (`domain/incident_lifecycle.py`) | the status of an incident | guarded moves | its guards are repeated by the store | two implementations of one machine | the store moves as the domain allows |
| Transition endpoint (`ui/server_incident_diagnosis_lifecycle_*.py`) | none of its own | one POST | store | duplicates, answers lost | answers stay true |
| In-memory and file stores (`collect/incident_store.py`, `incident_store_provider.py`) | dictionaries, a JSON file | as the SQLite store | same callers | two kinds of store, one contract | same outcomes |
| Scheduler and its lock (`health/loop_scheduler*.py`) | lock file, `/proc`, the present run | acquire, judge, remove, run, release, sleep | health loop | stale locks, reused PIDs, crashes | one health loop at a time; it runs again |
| Single-flight (`ui/server_singleflight.py`, `ui/server_run_detail_reads.py`, `ui/server_runs_list_reads.py`) | map of builds in progress, result holders, payload caches | acquire, wait, build, release | the index that the health loop writes | leader fails or is slow, waiters give up, entry replaced | one build; one answer for the waiters of an entry; nobody waits for a leader that is gone |
| Alert and bundle promotion (`incident_alert_promotion*.py`, `collect/incident_promotion_*.py`) | accumulator of outcomes, the store | read, merge, add, promote, dispatch | store, diagnosis loop | read-modify-write across the store's lock, batches that fail halfway | reported outcomes equal durable ones |
| Diagnosis loop and scan cursor (`collect/incident_diagnosis_auto_loop_*.py`, `health/loop_automatic_diagnosis.py`) | cursor file, the rows and budget of a run | select, list, evaluate, start, diagnose, end, move the cursor | store, backend, promotion | cursor and progress are persisted apart; crashes between them; the store changes meanwhile | no incident is passed by; each is diagnosed; starts are ended |
| Batch execution state (`ui/_batch_execution_state.py`) | derived from artifacts | eligibility, counts, summary | frontend | counts of overlapping sets | counts add up |
| Frontend run control (`frontend/src/run-control/`) | reducer model, queued effects, the request in flight, timers, localStorage | boot, poll, refresh, select, jump, clear, retry, answers, slow timer, commit | backend | late and superseded answers, aborts, polls during a load | the selected run is shown; an answer changes only what waits for it; loads end |
| Frontend approval, batch and manual execution (`frontend/src/app`) | component state | approve, execute | backend | double submission | one execution for each approval |
| Auth session (`ui/auth_session.py`) | session table | log in, check, expire | server | expiry | no session outlives its window |
| Alertmanager discovery and webhooks (`external_analysis/`) | sources, overrides | discover, promote, intake | promotion | repeated deliveries | - |
| Tool approval, deadlines, budgets (`collect/tool_approval_*.py`) | approvals, deadlines | request, grant, expire | diagnosis loop | grant racing expiry | nothing runs after expiry |
| Content index (`content_index/`) | a derived SQLite index of artifacts | index, rebuild, read | scheduler, read models | rebuild while it is read | the index is the artifacts |
| LLM, notifications, read models, CLI, charts, scripts, the Go lab | files | - | - | input and output | - |

`PROJECT.json` lists the components with their status and the hazards, each at
the line where it bites, with the properties that cover it.

## 2. The plan

In this order, the most important behaviour first; each component has a module, an
MC module with its small instance, and a module of proofs:

1. **IncidentStore** with three abstract specifications: **IncidentLifecycle**,
   the status machine of the domain; **TransitionRegister**, what the clients of the
   transition endpoint are promised; **DiagnosisStatus**, what the diagnosis loop
   assumes of statuses. **IncidentStoreProofs** for any processes,
   **IncidentStoreReplayProofs** on the projection and the log, and
   **IncidentStoreSoloProofs** on what one process alone guarantees.
2. **SchedulerLock** and **SchedulerLockProofs**.
3. **RunControl** with its abstract specification **RunView**, what the user is shown,
   and **RunControlProofs**.
4. **DiagnosisScan** and **DiagnosisScanProofs**. It takes the incidents as
   IncidentStore leaves them and runs in the cycle that SchedulerLock guards. Its
   interface to the store is DiagnosisStatus: the steps of its environment are the
   actions of that module, and IncidentStore implements it (`FeedsDiagnosis`).
5. **SingleFlight** and **SingleFlightProofs**: how the server answers RunControl's
   requests for a run. RunControl allows any answer at any time, so it does not
   depend on this module.

Written so far: all five. What would come next: the reports of alert promotion
over IncidentStore, and the approval and batch forms of the frontend.

Liveness needs fairness and stays with TLC. What it rests on besides is proved for every
value of the constants: a measure that each step of a request, a scan, or a load
decreases, so that nothing is retried, restarted or answered for ever, and that at its
end says what was to be reached. The theorems are `RequestsEnd`, `RunsEnd`,
`RequestsRunOut` and `LoadsRunOut`; for the scheduler lock, which has no such measure,
`OrphansAreCleared`. What they leave to TLC is that some step is enabled and is taken.

## 3. The incident store

### IncidentStore and the code

`events`, `row` and `idem` are the three tables; `cache` is
`SQLiteIncidentStore._incidents` of each process. The write lock of
`_write_context` admits one request at a time, so a process has one `job`, whose
progress is `pc`:

| `pc` | Action | Code |
|---|---|---|
| idle | `Promote`, `AddIncident`, `MarkStatus`, `AttachEvidence`, `MarkDiagnosisLoop`, `RequestTransition`: the request reads the cache, decides, and builds its payloads and the next aggregate | `incident_store_sqlite_lifecycle.py`, `_state.py`, the bundle variants of merge and open |
| begin | `Begin`, `BeginLifecycle`: `BEGIN IMMEDIATE`, the read of the previous version, the idempotency lookup | `_events_writer.py`, `_context.py` |
| txn | `Commit`, `CommitLifecycle`: events, projection and idempotency row become durable together | `_events_writer.py`, `_context.py:434` |
| begin, txn | `Abort`: the busy timeout or an error; rolled back | `_events_writer.py` |
| publish | `Publish`: `put_cached_incident` | `_context.py:239` |
| refresh | `Refresh`, `RefreshFails`: the cache from the row; the reply | `_context.py:488` |
| idle | `RebuildRows` and, outside the write lock, `RebuildClear`, `RebuildLoad`, `RebuildInstall` | `incident_store_sqlite.py:473` |
| any | `Crash`; `Restart` loads the cache from the rows; `Truncate` by an operator while no process runs | `incident_store_sqlite.py:117` |

SQLite is modelled as it is used: one writer at a time from `BEGIN IMMEDIATE`
on, rollback when the process dies or the connection closes, atomic commit.
Timestamps, hashes, messages and counters of a payload are left out; signals and
links are sets of their keys; a run stands for collector and diagnosis run
together. A request that changes nothing is a stuttering step.

Three specifications say what the store is for, without its processes, caches,
transactions and crashes:

- `IncidentLifecycle`, the status machine of the domain with its guards;
  `ImplementsLifecycle` maps the status of the rows to it, while promotions carry no
  bundle;
- `TransitionRegister`, the idempotent register that clients of the transition
  endpoint rely on: a key is recorded once, together with its one event, and no answer
  precedes what it tells of. `ImplementsRegister` takes `idem` for what is recorded,
  the lengths of the logs, and `EventsOf(k)` for the positions of a key's events;
- `DiagnosisStatus`, the classes of statuses that the diagnosis loop tells apart and
  how they move; `FeedsDiagnosis` takes them from the rows, which is where the listing
  reads them, with bundles and all. It holds of one process: the stale cache of a
  second one can send a closed incident to review.

### Runs

| Run | Asks | Bounds | Answer |
|---|---|---|---|
| `store_single` | one process, every request but rebuild | 1 incident, 4 events, 1 crash | `TypeOK`, `Ledger`, `OpenedOnce`, `CacheCoversRow`, `RowIsReplay`, `EvidenceKept`, `FeedsDiagnosis`, `Served` hold |
| `store_shared` | two processes with caches of their own, rebuilds after a truncation | 3 events, 2 crashes, 2 fingerprints, 1 truncation | `Ledger`, `RowIsCurrent`, `ExactlyOnce`, `RepliesTruthful` hold; implements TransitionRegister |
| `store_lifecycle` | promotions without bundles | 5 events, 2 crashes | implements IncidentLifecycle |
| `store_protected` | promotions with bundles | 4 events | violated: finding 1 |
| `store_truncate` | what a rebuild restores | 3 events, 1 truncation | violated: finding 2 |

Why these bounds are enough: incidents share nothing but the database lock, and
every property speaks of one incident (or one key) at a time. Four events hold
an opening with its bundle (two events of one transaction) and two more requests
that meet its stale or fresh cache; five reach every terminal status from `open`.
Two processes give a reader and a writer; two fingerprints a replay and a
mismatch; one crash meets every step of a request, a second one the request after
the restart. One truncation is followed by everything the events still allow.
`store_shared` promotes without bundles and leaves other transitions out; what it
checks is proved for every request, and transactions of two events are in
`store_single`.

Fairness: `WF(Step(p))` for each process, that is, the thread which holds the
write lock is scheduled. The code justifies no more (clients, operators and
crashes are not fair) and `Served` needs no more: every step out of begin, txn,
publish and refresh is one that the thread takes by itself, and waiting for the
database ends by the busy timeout (`Abort`) if not by success. `store_single`
has one process; with more, `Abort` alone makes `Step` enabled.

### Proofs (IncidentStoreProofs)

For any processes, incidents, runs, fingerprints and bounds, from
`ConstantsAssumption` and `NoneAssumption` (`None` is no constant, state or row).
The inductive invariant is

- `TypeOK`;
- `JobsGood`: a job has one or two events, a transition job exactly the event of
  its key, no other job names a run of a client (needed for `ExactlyOnce`: other
  events cannot be mistaken for a transition);
- `LoadedGood`: what a rebuild is about to install are rows;
- `OneTransaction` and `BaseFresh`: at most one transaction, whose base is the
  last version of its incident (needed for `Ledger`; it is what `BEGIN IMMEDIATE`
  before the read of the version buys);
- `RefreshDurable`: a transition about to be acknowledged is durable (needed for
  `RepliesTruthful`);
- `Ledger`, `RowIsCurrent`, `ExactlyOnce`, `RepliesTruthful`.

Proved: `Invariance`, `TypesCorrect`, `LedgerCorrect`, `RowsCurrent`,
`TransitionsExactlyOnce`, `RepliesStayTrue`, and the refinement
`StoreImplementsRegister`: a `Commit` appends other events (`CommitSparesKeys`: to no
key), a `CommitLifecycle` records its key with the event that it adds
(`CommitRecordsKey`), a step that answers acknowledges or refuses what is recorded
(`OnlyTheseAnswer`), and every other step, a truncation of the projection included, is a
stuttering step of the register.

`NoCommitIsRefused`: the model has no commit that fails on a unique index, because none
can. What a transaction looked up after `BEGIN IMMEDIATE` (`LookupHolds`: its key is
unused, its incident has a row) and the versions it is about to take
(`CommitsUnrefused`) still hold at the commit. It follows from `OneTransaction` and
`BaseFresh`, and from the fact that rows are emptied only while no process runs.

`RequestsEnd`: `Ahead` bounds the steps of a request by 3, and every step that moves
a process which serves a request decreases it. No path of the store retries.

IncidentStoreReplayProofs proves `RowsAreReplays`: while nothing has been truncated, every
row is the replay of its log (`RowIsReplay`), for any processes. `Replayed` is defined by
recursion over the log, and the induction theorems of the library, which take the
induction hypothesis as an operator, cannot be used. The proof goes without them:

- a *history* of a log is a function that has the blank aggregate at 0 and at n the
  aggregate at n - 1 with event n applied. Two histories of a log agree (`OneHistory`): of
  the places where they differ there would be a least (`LeastNumber`, from the
  well-foundedness of the natural numbers, a theorem without an operator parameter), and
  the place before it refutes it;
- so the function by which `Replayed` is defined, the only one that satisfies its
  definition, is the history of the log as soon as the log has one (`ReplayedHistory`);
- `ReplayInv` says that each log has a history whose last aggregate is the row. A commit
  extends the history by its one or two events (`HistoryExtends`) as it extends the row
  (`ProjectedHistory`).

IncidentStoreSoloProofs adds what holds under `Solo`: one process, no rebuild and no
truncation (two processes, or the window of a rebuild, violate it, as the hazards
say). Its invariant `SoloInv` relates the cache to the rows and the log:

- `Undisturbed`: no rebuild is on its way and nothing was truncated;
- `RowsLogged` and `StatusKnown`: an incident with events has a row, whose status is
  one of the lifecycle's;
- `CacheKnown` and `Covered`: what is cached has a row, and the cache, or the aggregate
  about to be cached, knows every signal and link of a row (so a crash before the
  publication and the reload after it lose nothing), and that it is closed if it is;
- `JobsKeep`: the events of a job keep the signals and links of the row that they
  will update, move its status as the domain and the diagnosis loop allow, and open only
  an incident without a row.

Proved: `SoloInvariance`, `SoloOpensOnce`, `SoloCacheCovers`, `SoloKeepsEvidence` and,
with `NoBundles` in addition (finding 1 is what bundles do), the refinement
`SoloImplementsLifecycle`: `Init` implies the initial states of IncidentLifecycle, and
a `Commit` is one of its moves or a stuttering step, as every other step is. With bundles
the cached status, which admits a transition, and the status of the row part; that the
cache still knows what is closed is what `SoloFeedsDiagnosis` needs: the rows move as
DiagnosisStatus says.

Only model-checked: `Served` (liveness); `RequestsEnd` is its part without fairness.

## 4. The scheduler lock

### SchedulerLock and the code

Schedulers of one host (one PID namespace) share the output directory. Each
system call on the lock file is a step:

| `pc` | Action | Code |
|---|---|---|
| down | `Start`: a process with a new PID and instance | `loop_scheduler_runner.py` |
| idle | `Create` (the file exists, empty) or `Contend` | `acquire_lock` |
| write | `WritePayload` at the close of the file | `acquire_lock` |
| stat, read | `Stat`, `StatFails`, `Read`: age and contents are taken apart | `load_lock_snapshot` |
| evaluate | `kill(pid, 0)`: `EvaluateStale`, `EvaluateAlive`, `EvaluateHeld` | `evaluate_lock_state` |
| identify | `/proc`: `IdentifyStale`, `IdentifyHeld` | `identity_matches` |
| remove | `remove_stale_lock`, `RemoveFails` | same name |
| run | `release_lock`, `ReleaseFails` | the `finally` of `run_scheduler_loop` |
| any | `Crash`; `Age` (the file outlives the threshold); `OtherStarts`, `OtherEnds` take and free PIDs | the operating system |

The identity of a process and its `scheduler_instance_id` are both the number of
its start. `examined` and `stolen` are history variables: they never influence a
step.

Assumed of the environment, and named in the module: `/proc` exists; a live
scheduler closes the file that it created, and computes the age of a file that it
read, within the threshold (two minutes or more). A scheduler stopped for longer
between the two could take an empty file for abandoned.

### Runs

| Run | Asks | Bounds | Answer |
|---|---|---|---|
| `lock_stale` | crashes, restarts, reused PIDs, failing unlinks | 2 schedulers, 3 PIDs, 1 end, 1 failing call, 1 other process | `TypeOK`, `ExclusiveUnlessStolen`, `CondemnsTheDead`, `RunsAgain` hold |
| `lock_overlap` | exclusion without a proviso | 2 schedulers, 1 end, no faults | violated: finding 3 |

One end leaves a stale file with either a dead PID, a PID of another process or
no payload at all, and both schedulers then judge it. Three PIDs let the PID of
the dead be taken by the other process while both schedulers live.

Fairness: weak fairness of each scheduler's own steps (it is a running process),
of `Start` (the Deployment restarts a scheduler that ended) and of `Age` (time
passes). Nothing is assumed of crashes, faults and other processes. `RunsAgain`
excepts one case that the run exposes: when `unlink` fails in `release_lock`, the
error is swallowed and the scheduler finds its own live lock from then on.

### Proofs (SchedulerLockProofs)

For any number of schedulers, PIDs, ends, faults and other processes. The
inductive invariant adds to `TypeOK` and `CondemnsTheDead`:

- `Incarnations`: starts are numbered, live ones are not shared;
- `Files`: a file or snapshot names an incarnation that started and, while it
  lives, its PID (so a differing identity means a dead owner);
- `EmptyFile`: the live owner of an empty file is about to write it, within the
  threshold (so an empty old file means a dead owner);
- `Reading`: what a snapshot has at each step of the judgement;
- `Knows`: what is known of the examined file while it is still there (it may have
  been written since, never rewritten, and if it is condemned its owner is dead);
- `Holds`: as long as nothing was stolen, a holder owns the file.

Proved: `Invariance`, `TypesCorrect`, `OnlyTheDeadAreCondemned`, `Exclusion`.
`NoOverlap` is false, and `Exclusion` says what is missing for it: an unlink
that is certain to remove the judged file.

`OrphansAreCleared`: a file whose owner is dead (`Orphaned`) is only aged and removed
(`OrphanStays`: incarnations are numbered, so a reused PID does not revive its owner),
and whoever has examined it, seen it old and judges it goes on to condemn it
(`OrphanCondemned`, from `Knows`). So nobody waits for an owner that is gone.

Only model-checked: `RunsAgain` (liveness); `OrphansAreCleared` is its part without
fairness. There is no measure of the attempts: a scheduler contends again after each
removal, as long as others are faster.

## 5. The run control of the frontend

### RunControl and the code

The reducer `updateRunControl` changes the model and returns effects; `setModel`
runs it on the latest model, and after React has committed, the drainer of
`useRunControl` executes the queued effects. So one message is one step, and the
execution of what several messages queued is another:

| Action | Code |
|---|---|
| `Boot`, `ManualRefreshClicked`, `PollTick`, `RunSelected`, `LatestClicked`, `SelectionCleared`, `RetrySelectedRunClicked` | the messages of the same names |
| `RunsLoadedSelectsLatest`, `RunsLoadedKeepsSelection`, `RunsLoadedEmpty`, `RunsFailed`, `ListStale` | the cases of `RunsLoaded`, `RunsFailed`, and both with a superseded number |
| `RunLoaded`, `RunFailed`, `RunStale` | `then` and `catch` of the call of `fetchRun` together with the message that they dispatch, or none |
| `SlowTimer` | `RunSlowThresholdReached` |
| `Commit` | the drainer and the effect that persists the selection |
| `Reload` | the page is loaded again with what localStorage has |

`inFlight` is the pair of refs that the hook compares; `fetches` are the calls that
have not settled, aborted or not. Answers settle in any order. A payload
remembers, as history, for which run it was requested: the server may answer with
another run for one that it has no longer (`MayFallBack`).

RunView is the abstract specification: four variables, the selected run, its payload,
the phase of its load and the saved selection, and what may become of them. It knows of
no request: a load ends by one answer or one failure, a payload goes only when another
run is selected, when the selected run is fetched again or when the page is loaded anew.
`ImplementsView` maps `selection.selectedRunId`, `selectedRun.payload`,
`selectedRun.status` and `stored` to them. `Answer` in RunView names the selected run as
the one that was asked for; an answer that were accepted for a request of the run
selected before would be no step of it.

### Runs

| Run | Asks | Bounds | Answer |
|---|---|---|---|
| `ui_run_control` | clicks, polls, reloads, answers in any order | 2 runs, 3 commands | `TypeOK`, `ShowsSelected`, `JumpHonest`, `NoLostLoad`, `OneFetch`, `LateAnswersIgnored`, `PollKeepsPayload`, `LoadEnds` hold; implements RunView |
| `ui_slow_poll` | does a poll leave a load alone | 2 runs, 3 commands | violated: finding 4 |

Two runs give a selected one and another to go to or to find as the latest. Three
commands, each of which may start a request of the list and, by its answer, one of
a run, give a request in flight, its successor, and a third that supersedes both
before one commit. `MaxCommands` counts what users and the poll timer do: `LoadEnds`
says that a load ends when they leave it alone, which after the bound they do.

Fairness: `Commit` (React commits a model that changed), and of answers: every
`fetch` is answered or fails. The code sets no timeout on its calls and leaves that
to the browser and the server, so it is an assumption about them. Nothing is assumed of users, polls, timers and reloads. The page is idle after the
last command, so deadlock is not checked.

### Proofs (RunControlProofs)

For any runs and any number of commands, from `ConstantsAssumption` (`None` is no
run, number or record). The inductive invariant adds to `TypeOK`, `ShowsSelected`,
`JumpHonest`, `NoLostLoad` and `OneFetch` one conjunct, `SeqInv`: the numbers of
requests grow from what is in flight over what is queued to `nextRequestSeq`, and no
two are equal. It is what makes the comparison of one number enough, and what lets
`Commit` abort all but the last without losing what the model waits for.

Proved: `RunControlTyped`, `SelectedIsShown`, `JumpIsHonest`, `LoadsAreNotLost`,
`FetchesAreAborted`, and from the same invariant the action properties
`LateAnswersAreIgnored` and `PollsKeepThePayload`.

The refinement `RunControlImplementsView` has one lemma for each kind of step
(`ViewSelect`, `ViewAnswer`, ...: see `ViewStep`). It needs one more invariant,
`Unanswered`: no request that can still be accepted has been answered before, which
makes a second answer to one load impossible.

`LoadsRunOut`: `Work` counts queued requests, calls in flight, timers and an unsaved
selection, each weighted by what it can lead to (an answered list may cause a load, a
load a call and a timer, an answer a cancellation). It is a natural number because all
of these sets are finite (`Finite`, from the theorems on cardinalities), every step that
is no command decreases it, and at 0 nothing is loading, by `NoLostLoad`.

Only model-checked: `LoadEnds` (liveness); `LoadsRunOut` is its part without fairness.

## 6. The scan of the diagnosis loop

### DiagnosisScan and the code

A health run ends with the automatic diagnosis loop. Without a promotion it scans
the active incidents of the store page by page, from a cursor kept in a file over
the runs; after a promotion it takes the incidents which that named.

| `pc` | Action | Code |
|---|---|---|
| idle | `BeginScan`: the cursor is loaded, or removed if it is none | `load_cursor_for_scan` |
| idle | `BeginIds` | `_build_diagnosis_selection_for_execution` |
| list | `List`: keyset pagination | `incident_diagnosis_dispatch_page.py` |
| rows | `PassOver` (lookup failed, or not eligible), `TakeUp` | `_process_incident`, `evaluate_incident_eligibility` |
| start | `RecordStarted` | `record_diagnosis_loop_started` |
| work | `Diagnose`: case file, hypotheses, one pass, the review packet | `_process_incident` |
| record | `RecordEnded` and the count of the batch | `record_diagnosis_loop_completed`, `_failed`, `process_incident_batch` |
| dispose | `Dispose` | `decide_cursor_disposition`, `handle_cursor_disposition` |
| any | `Abort`: death, failed listing, an exception that only `run_automatic_diagnosis_loop` catches | `health/loop_automatic_diagnosis.py` |
| any | `Open`, `AskReview`, `Resume`, `Close`: the actions of DiagnosisStatus | promotions and operators, over the store |

An incident is its position in the order of the listing, which its first
observation fixes, so a cursor is a number. `status` has a class for each reaction
of the loop: listed and eligible, listed only (`ready_for_review`), closed, absent. It
is the status of the row, and `SoloFeedsDiagnosis` proves that the rows move that way. The
lookup before a diagnosis asks the backend, whose cached status differs from the row's
after finding 1; such an incident, listed and never eligible, is not in the model.
`owed` and `lost` are history variables: what the sweep has listed and not examined,
and whose diagnosis a fault left without a record. A record that the backend made
and whose answer is lost is one of the faults.

Left out: the packet budget that is checked again after the pass (it cannot be
exhausted there, the row has been found eligible by the same budget), run ids that
are unsafe, promotions that are blocked or of unknown outcome (no run follows), and
the one-pass run that the UI starts for named incidents, which is a run in `ids` mode.

`BeginScan` covers the outcomes of `load_scan_cursor`: a position, a file that is removed,
a file that stays (of the oldest schema without an incident, or because a read or a
removal failed). Of what the program itself never writes, JSON that is no object or a
file that is no UTF-8, at which the load raises, there is none in the initial states.

### Runs

| Run | Asks | Bounds | Answer |
|---|---|---|---|
| `diag_scan` | scans over crashes, failing files and changes of the store | 4 incidents, pages of 3, 2 diagnoses a run, 1 or 2 packets, 2 changes, 1 fault | `TypeOK`, `CursorPassesNoRow`, `LoopAccounted`, `BudgetOutlastsRun`, `SweepIsComplete`, `EveryRowExamined`, `FairWithBudget` hold |
| `diag_starved` | is every active incident diagnosed | 2 incidents, 1 packet, no faults | violated: finding 5 |

Four incidents and pages of three give a second page, and two diagnoses end a page
in its middle; with both packet limits a page is ended by diagnoses and gone
through by rows that find the budget exhausted. The fault meets every step of a
sweep, and two changes open, close or review incidents before and behind the cursor.

Fairness: weak fairness of `Collect`, the steps of the collector, because the
scheduler starts run after run and a run goes on. Runs with a promotion count
as changes and are bounded: were each run to have a promotion, no scan would ever
take place, and the code does not exclude it. Faults are bounded as well: an
incident whose diagnosis raises an uncaught exception in every run would stop all
scans at its row.

### Proofs (DiagnosisScanProofs)

For any finite set of incidents, page size, number of diagnoses, packet limits,
changes and faults, from `IncidentAssumption` and `BoundAssumption`. The inductive
invariant adds to `TypeOK`, `CursorPassesNoRow` and `LoopAccounted`:

- `RunInv`: what a run has at each step, and that it has examined a row when it
  disposes of a page that had rows (or `Disposition` would save no position);
- `SweepInv`: an incident that is owed is listed, comes after the cursor of the run,
  and after the listing is among the rows to come or comes after all rows of the page,
  of which there are more. It needs that a page is a prefix of the listing
  (`PageIsPrefix`, from the cardinalities of initial segments);
- `BudgetInv`: every packet was written for a diagnosis that counts.

Proved: `Invariance`, `TypesCorrect`, `NoRowIsPassedBy`, `DiagnosesAreAccounted`,
`BudgetSuffices` and the action property `SweepsAreComplete`.

`RunsEnd`: `StepsAhead` is four steps for each row to come and what is left for the
present one; every step that moves a run decreases it, whatever the store does meanwhile,
and it is bounded (`RunBounded`), since a run lists at most `ScanBound` rows
(`PageIsShort`: two rows of a page have different numbers of rows before them) or takes
those that it was given (`PagesAreBounded`).

Only model-checked: `EveryRowExamined` and `FairWithBudget` (liveness over many runs, of
which `RunsEnd` is the part of one).

## 7. The single flight of run payloads

### SingleFlight and the code

GET /api/run, one thread for each request. Requests are numbered as the server
accepts them, and a request is also the name of the entry that it makes:

| `pc` | Action | Code |
|---|---|---|
| new | `Load`: the files of the run, before anything is acquired | `_load_context` |
| acquire | `Lead`, `Join` under `_single_flight_lock` | `_single_flight_acquire_impl` |
| poll | `PollServed`, `PollInVain`; after the last poll, on to build without an entry | `_single_flight_wait`, `handle_run_detail_route` |
| stat, lookup | `Stat`, `LookupHit`, `LookupMiss`: the cache key and the cache | same handler |
| build | `Build` with the context loaded at first; `Fail`: an exception, no release | same handler, `handle_error` |
| release | `Release` fills the entry that the run has now and sleeps with the lock; `ReleaseNothing` | `_single_flight_release_impl` |
| sleep | `Delete` removes the entry | same function |
| any | `WriteIndex` by the health loop | `health/ui.py` |

`flights` is the map of entries, `result` what a holder has (its marker "_READY_" is
the same as a result), `cache` the payload cache in the order of its dictionary. A
payload is the run and the version of the index it was built from. Reading a file
is one step, so a request that meets a half-written index, and is answered 500, is
left out; so is an exception at the `stat()` of the index, which leaves the same entry
behind as one in the build. The list of runs uses the same single flight over a cache of its own.

### Runs

| Run | Asks | Bounds | Answer |
|---|---|---|---|
| `server_runs` | slow and failing leaders, a rewritten index | 4 requests for 1 run, 1 poll, cache of 1, 1 write, 1 failure | `TypeOK`, `EntryAttended`, `OneBuilder`, `SameAnswer`, `Healed`, `Answered` hold |

Entries of different runs share only the lock and the cache. Four requests give a
leader, a waiter that gives up and releases the leader's entry, and two waiters that
could be served before and after it. One poll in vain stands for ten; one write gives
two payloads and a cache that has to drop one.

What holds is less than the module's docstring hopes ("one builds while others
wait"): `OneBuilder` has the proviso that no waiter of the run has given up. A build
of more than 100 ms is repeated by each of its waiters, and the first of them to
release lets the next request lead while the leader still builds. What never goes
wrong is that two waiters of one entry get different answers, or that an entry stays
for good.

Fairness: weak fairness of the steps of each request, since threads are scheduled and
a build ends or raises. The lock is released after a sleep of 5 ms, and requests are
finitely many, so weak fairness suffices for the lock. Requests end, so deadlock is
not checked.

### Proofs (SingleFlightProofs)

For any number of requests, runs, polls, writes and failures and any size of the
cache, from `ConstantsAssumption` and `NoneAssumption`. The inductive invariant adds to
`TypeOK` and `Healed`:

- `Loaded`, `Waited`: who is past a step has what that step gave it;
- `Holders`: an entry belongs to a request for its run, at work or failed;
- `Sleeping`: the lock is kept exactly by who sleeps in a release;
- `Written`: an entry that can be found has a result only while its releaser sleeps.
  With the lock free, then, the entry that `Release` fills has none, which is why a
  second release of it cannot change what waiters were served (`ServedResult`);
- `BuilderHolds`: in a run whose waiters are patient, who builds holds the entry.

Proved: `Invariance`, `TypeCorrect`, `EntriesAttended`, `BuildsOnce`,
`ServesOneAnswer`, `Heals`.

`AnswersTheRun`: a request is answered with a payload of its own run that is not newer
than the files, whichever way it came: built, from the cache or from the entry it waited
for. The inductive invariant `Owned` follows the payload on its way: an entry's waiters
and the request that writes its result are of one run (`OneRun`), a request's context is
not newer than its cache key (`Aged`), so neither is what it caches under that key
(`Cached`). The payload may be older than its key, as the hazards say.

`RequestsRunOut`: `Ahead` bounds the steps of a request by `MaxPolls` + 7; every step
of the server decreases it for one request and changes it for no other, and the lock is
kept only by a request whose next step returns it.

Only model-checked: `Answered` (liveness); `RequestsRunOut` is its part without fairness.

## 8. Findings

1. **A bundle reopens a protected incident in the row** (`store_protected`).
   `promote_candidates_with_records_impl` appends
   `incident_collecting_evidence_started` for every merge with a bundle, also
   when the merge kept the status; the projector overwrites the status. The
   documentation (`docs/data-model/incidents.md:197-198`) excludes it.
2. **A rebuild is not committed** (`store_truncate`). `rebuild_projection()`
   leaves its implicit transaction open, and closing the connection rolls the rows
   back; the projection "can be safely truncated and rebuilt"
   (`incident_store_sqlite_projection.py:7-10`).
3. **Two schedulers can overlap after a crash** (`lock_overlap`):
   `remove_stale_lock` removes whatever is there, not what was judged, against
   `docs/beta-release-notes.md:180`.
4. **A poll restarts a slow load** (`ui_slow_poll`). `RunsLoaded` asks whether the
   selected run is `loading`, and a load that has become `slow` is not, so the poll
   requests it again and the commit aborts the call in flight
   (`runControlReducer.ts:352`, against its line 349). A load becomes slow after ten
   seconds and polls come every five by default: an answer that takes longer than
   that is aborted as long as the page polls.
5. **Active incidents are starved by the first one** (`diag_starved`).
   `max_review_packets` is 1 by default, and the scheduler asks for ten diagnoses
   without raising it: the first active incident takes the packet of each run, the
   others are examined, turned down for want of budget, and passed by the cursor;
   the next sweep begins with the same incident. `incident_diagnosis_auto_loop_cursor.py:4`
   promises otherwise. `FairWithBudget` shows what is missing: a packet for each
   diagnosis.

Noticed while modelling, without a run: a merge with a bundle drops `diagnosis_loop`
from the cached incident (`collect/incident_bundle_promotion.py:216`), which the
comment at the field (`collect/incident_lifecycle.py:91-98`) promises to keep; the
row keeps it and a restart restores it. The payload cache keeps a payload of an
older index under the mtime of a newer one when the index is rewritten between the
load of a request and its `stat` (`ui/server_run_detail_reads.py:137-144, 237`); until
the next rewrite it answers for the newer index.

## 9. Not modelled

The components with status `not_modelled` in `PROJECT.json`: those that are named at
the end of the plan, and those that are input and output, formats or deployment. Of
the modelled ones: timestamps and hashes of events (the hash chain follows the
versions of `Ledger`), event records inside the aggregate, the counters and payload
fields that no property compares, the reads of the store (they copy under the lock),
freshness and skip counters of the scheduler, the diagnostic pack and the content
index, texts and times of the run control, the checks and hypotheses of a diagnosis.

Most of the repository is outside of the five modules: scripts and verifiers of the
build, formats of artifacts, read models, charts and clients, whose correctness is a
matter of one function at a time.

## 10. Running

In this directory:

    tlc -workers 2 -config store_single.cfg MCIncidentStore.tla
    tlc -workers 2 -config lock_stale.cfg MCSchedulerLock.tla
    tlc -workers 2 -config ui_run_control.cfg MCRunControl.tla
    tlc -workers 2 -config diag_scan.cfg MCDiagnosisScan.tla
    tlc -workers 2 -config server_runs.cfg MCSingleFlight.tla
    tlapm IncidentStoreProofs.tla
    tlapm IncidentStoreReplayProofs.tla
    tlapm IncidentStoreSoloProofs.tla
    tlapm SchedulerLockProofs.tla
    tlapm RunControlProofs.tla
    tlapm DiagnosisScanProofs.tla
    tlapm SingleFlightProofs.tla
