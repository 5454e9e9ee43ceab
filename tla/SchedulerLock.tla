--------------------------- MODULE SchedulerLock ---------------------------
(***************************************************************************)
(* The lock file of the health scheduler                                   *)
(* (src/src/k8s_diag_agent/health/loop_scheduler_locking.py): schedulers   *)
(* on one host, that is in one PID namespace, that share the output        *)
(* directory.                                                              *)
(*                                                                         *)
(* A scheduler creates runs/health/.health-loop.lock with O_EXCL, writes   *)
(* who it is, runs the health loop and removes the file.  A scheduler that *)
(* finds the file reads it, judges whether its owner is gone, and either   *)
(* removes it and tries again or skips the cycle.  Every system call is a  *)
(* step of its own: schedulers interleave between them, crash and start    *)
(* again, and PIDs are taken over by other processes.                      *)
(*                                                                         *)
(* The identity of a process (start time, command line, host name) and the *)
(* scheduler_instance_id are both the number of its start; /proc is there. *)
(* The provenance test of the code, same instance and same run, cannot     *)
(* change a verdict here: only the process itself has its instance, so the *)
(* identity matches as well.  Skip counters and logging are left out.      *)
(***************************************************************************)
EXTENDS Integers, FiniteSets

CONSTANTS
  Scheduler,        \* schedulers, each a process that may end and start again
  Pid,              \* process identifiers of the host
  None,             \* no file, no snapshot
  MaxEnds,          \* bound: exits and crashes of schedulers
  MaxFaults,        \* bound: unlink calls that fail
  MaxOthers         \* bound: other processes that hold a Pid at a time

ASSUME ConstantsAssumption ==
  /\ None \notin Pid
  /\ None \notin [instance : Nat, pid : Pid, written : BOOLEAN, old : BOOLEAN]
  /\ MaxEnds \in Nat /\ MaxFaults \in Nat /\ MaxOthers \in Nat

VARIABLES
  pc,               \* what each scheduler is doing
  instance, pid,    \* its present incarnation: number of the start, and PID
  others,           \* PIDs of processes that are no schedulers
  lock,             \* the lock file, or None
  snapshot,         \* what each scheduler has read of it
  started,          \* starts of schedulers so far
  ends, faults,     \* counters of the bounds
  examined,         \* history: schedulers whose examined file is still there
  stolen            \* history: a scheduler has removed a file it did not examine

processes == <<instance, pid, others, started>>
counters == <<ends, faults>>
history == <<examined, stolen>>
vars == <<pc, processes, lock, snapshot, counters, history>>

\* The file.  Without its payload it names no process; owner and PID are then
\* only known to the model.  old: it has outlived stale_lock_age_threshold.
File == [instance : Nat, pid : Pid, written : BOOLEAN, old : BOOLEAN]

Live(s) == pc[s] # "down"

\* os.kill(q, 0)
pid_is_alive(q) == q \in others \/ \E s \in Scheduler : Live(s) /\ pid[s] = q

\* The process that has the PID of file f now is the one that wrote f.
identity_matches(f) ==
  \E s \in Scheduler : Live(s) /\ pid[s] = f.pid /\ instance[s] = f.instance

\* Faulty variants: an empty file is stale at once; an old one is stale
\* whoever holds its PID; one whose PID is gone never is.
StaleWhenEmpty(f) == ~f.written \/ (f.old /\ ~pid_is_alive(f.pid))
StaleWhenOld(f) == f.old
StaleWhenReused(f) == f.old /\ ~f.written

\* evaluate_lock_state, without the identity: a file that names no PID, or one
\* that is gone, is stale when it is old.
ShouldCleanup(f) == f.old /\ (f.written => ~pid_is_alive(f.pid))

-----------------------------------------------------------------------------
Init ==
  /\ pc = [s \in Scheduler |-> "down"]
  /\ instance = [s \in Scheduler |-> 0]
  /\ pid = [s \in Scheduler |-> None]
  /\ others = {}
  /\ lock = None
  /\ snapshot = [s \in Scheduler |-> None]
  /\ started = 0
  /\ ends = 0
  /\ faults = 0
  /\ examined = {}
  /\ stolen = FALSE

Goto(s, label) == pc' = [pc EXCEPT ![s] = label]

\* unlink(lock): no snapshot is of the present file any more.
Unlink == /\ lock' = None
          /\ examined' = {}

\* The process ends: its PID is free, the lock file stays.
End(s) ==
  /\ ends < MaxEnds
  /\ ends' = ends + 1
  /\ Goto(s, "down")
  /\ instance' = [instance EXCEPT ![s] = 0]
  /\ pid' = [pid EXCEPT ![s] = None]
  /\ snapshot' = [snapshot EXCEPT ![s] = None]
  /\ UNCHANGED <<others, started>>

\* After a cycle the scheduler sleeps, or leaves: --once, --max-runs, no
\* interval, a run that failed.
EndCycle(s) ==
  \/ End(s)
  \/ /\ Goto(s, "idle")
     /\ snapshot' = [snapshot EXCEPT ![s] = None]
     /\ UNCHANGED <<processes, ends>>

-----------------------------------------------------------------------------
\* Faulty variant: the process does not know its PID.
StartUnknown(s) ==
  /\ pc[s] = "down"
  /\ started' = started + 1
  /\ instance' = [instance EXCEPT ![s] = started + 1]
  /\ Goto(s, "idle")
  /\ UNCHANGED <<pid, others, lock, snapshot, counters, history>>

\* A scheduler starts, as a process with a new identity.
Start(s) ==
  /\ pc[s] = "down"
  /\ \E q \in Pid : /\ ~pid_is_alive(q)
                    /\ pid' = [pid EXCEPT ![s] = q]
  /\ started' = started + 1
  /\ instance' = [instance EXCEPT ![s] = started + 1]
  /\ Goto(s, "idle")
  /\ UNCHANGED <<others, lock, snapshot, counters, history>>

\* acquire_lock: open(path, "x") creates the file, empty ...
Create(s) ==
  /\ pc[s] = "idle"
  /\ lock = None
  /\ lock' = [instance |-> instance[s], pid |-> pid[s],
              written |-> FALSE, old |-> FALSE]
  /\ Goto(s, "write")
  /\ UNCHANGED <<processes, snapshot, counters, history>>

\* ... and closing it writes the payload, into the file that was opened.
WritePayload(s) ==
  /\ pc[s] = "write"
  /\ lock' = IF lock # None /\ lock.instance = instance[s]
             THEN [lock EXCEPT !.written = TRUE] ELSE lock
  /\ Goto(s, "run")
  /\ UNCHANGED <<processes, snapshot, counters, history>>

\* FileExistsError.
Contend(s) ==
  /\ pc[s] = "idle"
  /\ lock # None
  /\ Goto(s, "stat")
  /\ UNCHANGED <<processes, lock, snapshot, counters, history>>

\* load_lock_snapshot: stat() ...
Stat(s) ==
  /\ pc[s] = "stat"
  /\ lock # None
  /\ snapshot' = [snapshot EXCEPT ![s] = lock]
  /\ examined' = examined \cup {s}
  /\ Goto(s, "read")
  /\ UNCHANGED <<processes, lock, counters, stolen>>

\* (The file is gone: the verdict is unreadable, and the cycle is skipped.)
StatFails(s) ==
  /\ pc[s] = "stat"
  /\ lock = None
  /\ EndCycle(s)
  /\ UNCHANGED <<lock, faults, history>>

\* ... then read_text(), whose failure leaves empty contents.  The age is that
\* of the timestamp in the contents, without one that of the stat().  Bound on
\* timing: less than the threshold passes until the age is computed.
Read(s) ==
  /\ pc[s] = "read"
  /\ snapshot' = [snapshot EXCEPT ![s] =
       IF lock = None THEN [@ EXCEPT !.written = FALSE]
       ELSE IF lock.written THEN lock
       ELSE [lock EXCEPT !.old = snapshot[s].old]]
  /\ Goto(s, "evaluate")
  /\ UNCHANGED <<processes, lock, counters, history>>

EvaluateStale(s) ==
  /\ pc[s] = "evaluate"
  /\ ShouldCleanup(snapshot[s])
  /\ Goto(s, "remove")
  /\ UNCHANGED <<processes, lock, snapshot, counters, history>>

EvaluateAlive(s) ==
  /\ pc[s] = "evaluate"
  /\ snapshot[s].written /\ pid_is_alive(snapshot[s].pid)
  /\ Goto(s, "identify")
  /\ UNCHANGED <<processes, lock, snapshot, counters, history>>

\* log_lock_held: the cycle is skipped.
Skip(s) ==
  /\ EndCycle(s)
  /\ examined' = examined \ {s}
  /\ UNCHANGED <<lock, stolen>>

EvaluateHeld(s) ==
  /\ pc[s] = "evaluate"
  /\ ~ShouldCleanup(snapshot[s])
  /\ snapshot[s].written => ~pid_is_alive(snapshot[s].pid)
  /\ Skip(s)
  /\ UNCHANGED faults

\* The identity of the PID is read from /proc.  One that differs is stale at
\* once, for its scheduler instance and run differ from the present ones; so
\* is that of a process that has gone since, of which only the host is known.
IdentifyStale(s) ==
  /\ pc[s] = "identify"
  /\ ~identity_matches(snapshot[s])
  /\ Goto(s, "remove")
  /\ UNCHANGED <<processes, lock, snapshot, counters, history>>

IdentifyHeld(s) ==
  /\ pc[s] = "identify"
  /\ identity_matches(snapshot[s])
  /\ Skip(s)
  /\ UNCHANGED faults

\* remove_stale_lock unlinks what is there now, and the cycle tries again.
remove_stale_lock(s) ==
  /\ pc[s] = "remove"
  /\ Unlink
  /\ stolen' = (stolen \/ (lock # None /\ s \notin examined))
  /\ Goto(s, "idle")
  /\ snapshot' = [snapshot EXCEPT ![s] = None]
  /\ UNCHANGED <<processes, counters>>

\* unlink() raises OSError, for want of a permission or because the file has
\* gone since exists(): the cycle is skipped.
RemoveFails(s) ==
  /\ pc[s] = "remove"
  /\ \/ lock = None /\ faults' = faults
     \/ lock # None /\ faults < MaxFaults /\ faults' = faults + 1
  /\ Skip(s)

\* The run is over, whatever its result: release_lock unlinks what is there.
release_lock(s) ==
  /\ pc[s] = "run"
  /\ Unlink
  /\ EndCycle(s)
  /\ UNCHANGED <<faults, stolen>>

\* unlink() raises OSError, which is swallowed.
ReleaseFails(s) ==
  /\ pc[s] = "run"
  /\ lock # None
  /\ faults < MaxFaults
  /\ faults' = faults + 1
  /\ EndCycle(s)
  /\ UNCHANGED <<lock, history>>

Crash(s) ==
  /\ Live(s)
  /\ End(s)
  /\ examined' = examined \ {s}
  /\ UNCHANGED <<lock, faults, stolen>>

\* Time passes.  Bound on timing: a live scheduler closes the file that it has
\* created within the threshold (two minutes or more).
Age ==
  /\ lock # None
  /\ ~lock.old
  /\ \A s \in Scheduler : pc[s] = "write" => instance[s] # lock.instance
  /\ lock' = [lock EXCEPT !.old = TRUE]
  /\ UNCHANGED <<pc, processes, snapshot, counters, history>>

\* Other processes come and go.
OtherStarts ==
  /\ Cardinality(others) < MaxOthers
  /\ \E q \in Pid : ~pid_is_alive(q) /\ others' = others \cup {q}
  /\ UNCHANGED <<pc, instance, pid, lock, snapshot, started, counters, history>>

OtherEnds ==
  /\ \E q \in others : others' = others \ {q}
  /\ UNCHANGED <<pc, instance, pid, lock, snapshot, started, counters, history>>

-----------------------------------------------------------------------------
Step(s) == \/ Create(s) \/ WritePayload(s) \/ Contend(s)
           \/ Stat(s) \/ StatFails(s) \/ Read(s)
           \/ EvaluateStale(s) \/ EvaluateAlive(s) \/ EvaluateHeld(s)
           \/ IdentifyStale(s) \/ IdentifyHeld(s)
           \/ remove_stale_lock(s) \/ release_lock(s)

Next == \/ \E s \in Scheduler : \/ Step(s) \/ Start(s) \/ Crash(s)
                                \/ RemoveFails(s) \/ ReleaseFails(s)
        \/ Age \/ OtherStarts \/ OtherEnds

Spec == Init /\ [][Next]_vars

\* A live scheduler goes on, one that ended is started again (the Deployment
\* restarts it), and time passes.
FairSpec == /\ Spec
            /\ \A s \in Scheduler : WF_vars(Step(s)) /\ WF_vars(Start(s))
            /\ WF_vars(Age)

-----------------------------------------------------------------------------
(* Properties                                                              *)

TypeOK ==
  /\ pc \in [Scheduler -> {"down", "idle", "write", "run", "stat", "read",
                           "evaluate", "identify", "remove"}]
  /\ instance \in [Scheduler -> Nat]
  /\ pid \in [Scheduler -> Pid \cup {None}]
  /\ others \subseteq Pid
  /\ lock \in File \cup {None}
  /\ snapshot \in [Scheduler -> File \cup {None}]
  /\ started \in Nat /\ ends \in Nat /\ faults \in Nat
  /\ examined \subseteq Scheduler
  /\ stolen \in BOOLEAN

\* At most one scheduler runs the health loop.
NoOverlap == \A s, t \in Scheduler : pc[s] = "run" /\ pc[t] = "run" => s = t

\* The lock works up to the one thing that it does not check: as long as no
\* scheduler has unlinked another file than the one it examined, at most one
\* scheduler holds the lock, over crashes, restarts, reused PIDs, files of
\* any age and unlink calls that fail.
ExclusiveUnlessStolen == ~stolen =>
  \A s, t \in Scheduler :
    pc[s] \in {"write", "run"} /\ pc[t] \in {"write", "run"} => s = t

\* A file with an owner is condemned only when its owner is dead, also when
\* its PID is alive again as another process.
CondemnsTheDead == \A s \in Scheduler :
  pc[s] = "remove" /\ snapshot[s].written =>
    \A t \in Scheduler : instance[t] # snapshot[s].instance

\* A live scheduler does not run and has its own lock against it: the release
\* failed, and its file matches a live process.
BlocksItself == \E s \in Scheduler :
  /\ pc[s] \in {"idle", "stat", "read", "evaluate", "identify"}
  /\ lock # None /\ lock.instance = instance[s]

\* The health loop runs again and again, whatever crashes leave behind; only
\* a release that failed can stop it for good.
RunsAgain == []<>(\E s \in Scheduler : pc[s] = "run") \/ <>[]BlocksItself

=============================================================================
