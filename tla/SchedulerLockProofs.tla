------------------------ MODULE SchedulerLockProofs ------------------------
(***************************************************************************)
(* Proofs about SchedulerLock, for any number of schedulers, PIDs, ends,   *)
(* failing calls and other processes.                                      *)
(***************************************************************************)
EXTENDS SchedulerLock, TLAPS

Dead(n) == \A t \in Scheduler : instance[t] # n

\* Incarnations are numbered from 1, and no two schedulers share one.
Incarnations ==
  /\ \A s \in Scheduler : /\ pc[s] = "down" <=> instance[s] = 0
                          /\ instance[s] <= started
                          /\ pc[s] # "down" => pid[s] \in Pid
  /\ \A s, t \in Scheduler : instance[s] # 0 /\ instance[s] = instance[t] => s = t

\* A file names an incarnation that has started, and its PID while it lives.
Names(f) == /\ f.instance # 0 /\ f.instance <= started
            /\ \A t \in Scheduler : instance[t] = f.instance => pid[t] = f.pid
Files == /\ lock # None => Names(lock)
         /\ \A s \in Scheduler : snapshot[s] # None => Names(snapshot[s])

\* The owner of an empty file is about to write it, within the threshold, or
\* is dead.
EmptyFile == lock # None /\ ~lock.written =>
  \A t \in Scheduler : instance[t] = lock.instance => pc[t] = "write" /\ ~lock.old

Reading == \A s \in Scheduler :
  /\ pc[s] \in {"read", "evaluate", "identify", "remove"} => snapshot[s] # None
  /\ pc[s] = "identify" => snapshot[s].written
  /\ pc[s] = "remove" => snapshot[s].written \/ snapshot[s].old

\* What a scheduler knows of the file that it examined and that is still there.
Knows == \A s \in examined :
  /\ lock # None
  /\ pc[s] \in {"read", "evaluate", "identify", "remove"}
  /\ snapshot[s].instance = lock.instance
  /\ snapshot[s].written => lock.written
  /\ snapshot[s].old /\ ~snapshot[s].written => Dead(lock.instance)

\* Who holds the lock has the file, as long as none was stolen.
Holds == ~stolen => \A s \in Scheduler :
  pc[s] \in {"write", "run"} => lock # None /\ lock.instance = instance[s]

IInv == /\ TypeOK /\ Incarnations /\ Files /\ EmptyFile
        /\ Reading /\ Knows /\ CondemnsTheDead /\ Holds

-----------------------------------------------------------------------------
\* Every action keeps every part of the invariant.
LEMMA Preserved == IInv /\ [Next]_vars => IInv'
<1> SUFFICES ASSUME IInv, [Next]_vars PROVE IInv'
  OBVIOUS
<1> USE ConstantsAssumption DEF IInv
<1>1. ASSUME NEW s \in Scheduler, Create(s) PROVE IInv'
  <2>0. lock' \in File
    <3>1. instance[s] \in Nat /\ pid[s] \in Pid
      BY <1>1 DEF Create, TypeOK, Incarnations
    <3> QED
      BY <1>1, <3>1 DEF Create, File
  <2>a. lock' # None
    BY <2>0 DEF File
  <2>1. TypeOK'
    BY <1>1 DEF Create, Goto, processes, counters, history, TypeOK, File,
       Incarnations
  <2>2. Incarnations'
    BY <1>1 DEF Create, Goto, processes, counters, history, Incarnations
  <2>3. Files'
    BY <1>1 DEF Create, Goto, processes, counters, history, Files, Names,
       Incarnations
  <2>4. EmptyFile'
    BY <1>1 DEF Create, Goto, processes, counters, history, EmptyFile,
       Incarnations, TypeOK
  <2>5. Reading'
    BY <1>1 DEF Create, Goto, processes, counters, history, Reading
  <2>6. Knows'
    BY <1>1 DEF Create, Goto, processes, counters, history, Knows, Dead
  <2>7. CondemnsTheDead'
    BY <1>1 DEF Create, Goto, processes, counters, history, CondemnsTheDead
  <2>8. Holds'
    BY <1>1, <2>a DEF Create, Goto, processes, history, Holds, TypeOK
  <2> QED
    BY <2>1, <2>2, <2>3, <2>4, <2>5, <2>6, <2>7, <2>8
<1>2. ASSUME NEW s \in Scheduler, WritePayload(s) PROVE IInv'
  <2>1. TypeOK'
    BY <1>2 DEF WritePayload, Goto, processes, counters, history, TypeOK, File
  <2>2. Incarnations'
    BY <1>2 DEF WritePayload, Goto, processes, counters, history, Incarnations
  <2>3. Files'
    BY <1>2 DEF WritePayload, Goto, processes, counters, history, Files, Names
  <2>4. EmptyFile'
    BY <1>2 DEF WritePayload, Goto, processes, counters, history, EmptyFile
  <2>5. Reading'
    BY <1>2 DEF WritePayload, Goto, processes, counters, history, Reading
  <2>6. Knows'
    BY <1>2 DEF WritePayload, Goto, processes, counters, history, Knows, Dead,
       TypeOK, File
  <2>7. CondemnsTheDead'
    BY <1>2 DEF WritePayload, Goto, processes, counters, history,
       CondemnsTheDead
  <2>8. Holds'
    BY <1>2 DEF WritePayload, Goto, processes, counters, history, Holds,
       TypeOK, File
  <2> QED
    BY <2>1, <2>2, <2>3, <2>4, <2>5, <2>6, <2>7, <2>8
<1>3. ASSUME NEW s \in Scheduler, Contend(s) PROVE IInv'
  <2>1. TypeOK'
    BY <1>3 DEF Contend, Goto, processes, counters, history, TypeOK, File
  <2>2. Incarnations'
    BY <1>3 DEF Contend, Goto, processes, counters, history, Incarnations
  <2>3. Files'
    BY <1>3 DEF Contend, Goto, processes, counters, history, Files, Names
  <2>4. EmptyFile'
    BY <1>3 DEF Contend, Goto, processes, counters, history, EmptyFile
  <2>5. Reading'
    BY <1>3 DEF Contend, Goto, processes, counters, history, Reading
  <2>6. Knows'
    BY <1>3 DEF Contend, Goto, processes, counters, history, Knows, Dead
  <2>7. CondemnsTheDead'
    BY <1>3 DEF Contend, Goto, processes, counters, history, CondemnsTheDead
  <2>8. Holds'
    BY <1>3 DEF Contend, Goto, processes, counters, history, Holds
  <2> QED
    BY <2>1, <2>2, <2>3, <2>4, <2>5, <2>6, <2>7, <2>8
<1>4. ASSUME NEW s \in Scheduler, Stat(s) PROVE IInv'
  <2>1. TypeOK'
    BY <1>4 DEF Stat, Goto, processes, counters, TypeOK, File
  <2>2. Incarnations'
    BY <1>4 DEF Stat, Goto, processes, counters, Incarnations
  <2>3. Files'
    BY <1>4 DEF Stat, Goto, processes, counters, Files, Names
  <2>4. EmptyFile'
    BY <1>4 DEF Stat, Goto, processes, counters, EmptyFile
  <2>5. Reading'
    BY <1>4 DEF Stat, Goto, processes, counters, Reading, TypeOK
  <2>6. Knows'
    BY <1>4 DEF Stat, Goto, processes, counters, Knows, Dead, Incarnations,
       Files, EmptyFile, Reading, TypeOK, File, Names
  <2>7. CondemnsTheDead'
    BY <1>4 DEF Stat, Goto, processes, counters, CondemnsTheDead, Incarnations,
       Files, Reading, TypeOK, File, Names
  <2>8. Holds'
    BY <1>4 DEF Stat, Goto, processes, counters, Holds
  <2> QED
    BY <2>1, <2>2, <2>3, <2>4, <2>5, <2>6, <2>7, <2>8
<1>5. ASSUME NEW s \in Scheduler, StatFails(s) PROVE IInv'
  <2>1. TypeOK'
    BY <1>5 DEF StatFails, EndCycle, End, Goto, processes, history, TypeOK,
       File
  <2>2. Incarnations'
    BY <1>5 DEF StatFails, EndCycle, End, Goto, processes, history,
       Incarnations, TypeOK
  <2>3. Files'
    BY <1>5 DEF StatFails, EndCycle, End, Goto, processes, history, Files,
       Names, TypeOK
  <2>4. EmptyFile'
    BY <1>5 DEF StatFails, EndCycle, End, Goto, processes, history, EmptyFile
  <2>5. Reading'
    BY <1>5 DEF StatFails, EndCycle, End, Goto, processes, history, Reading,
       TypeOK
  <2>6. Knows'
    BY <1>5 DEF StatFails, EndCycle, End, Goto, processes, history, Knows, Dead
  <2>7. CondemnsTheDead'
    BY <1>5 DEF StatFails, EndCycle, End, Goto, processes, history,
       CondemnsTheDead, Incarnations, Files, Reading, TypeOK, File, Names
  <2>8. Holds'
    BY <1>5 DEF StatFails, EndCycle, End, Goto, processes, history, Holds,
       TypeOK
  <2> QED
    BY <2>1, <2>2, <2>3, <2>4, <2>5, <2>6, <2>7, <2>8
<1>6. ASSUME NEW s \in Scheduler, Read(s) PROVE IInv'
  <2> DEFINE f == IF lock = None THEN [snapshot[s] EXCEPT !.written = FALSE]
                   ELSE IF lock.written THEN lock
                   ELSE [lock EXCEPT !.old = snapshot[s].old]
  <2>0. f \in File /\ (Names(lock) \/ lock = None => Names(f))
    <3>1. snapshot[s] \in File /\ Names(snapshot[s])
      BY <1>6 DEF Read, Reading, TypeOK, Files
    <3>2. lock = None => f \in File /\ f.instance = snapshot[s].instance
                         /\ f.pid = snapshot[s].pid
      BY <3>1 DEF File
    <3>3. lock # None => f \in File /\ f.instance = lock.instance
                         /\ f.pid = lock.pid
      BY <3>1 DEF File, TypeOK
    <3> QED
      BY <3>1, <3>2, <3>3 DEF Names
  <2>a. snapshot' = [snapshot EXCEPT ![s] = f]
    BY <1>6 DEF Read
  <2> HIDE DEF f
  <2>1. TypeOK'
    BY <1>6, <2>0, <2>a DEF Read, Goto, processes, counters, history, TypeOK
  <2>2. Incarnations'
    BY <1>6 DEF Read, Goto, processes, counters, history, Incarnations
  <2>3. Files'
    <3>1. Names(f) /\ snapshot'[s] = f
      BY <2>0, <2>a DEF Files, TypeOK
    <3>2. Names(snapshot[s])'
      BY <1>6, <3>1 DEF Read, processes, Names
    <3>3. ASSUME NEW t \in Scheduler, t # s, snapshot'[t] # None
          PROVE  Names(snapshot[t])'
      <4>1. snapshot'[t] = snapshot[t] /\ Names(snapshot[t])
        BY <2>a, <3>3 DEF Files, TypeOK
      <4> QED
        BY <1>6, <4>1 DEF Read, processes, Names
    <3>4. lock' # None => Names(lock)'
      BY <1>6 DEF Read, processes, Names, Files
    <3> QED
      BY <3>2, <3>3, <3>4 DEF Files
  <2>4. EmptyFile'
    BY <1>6 DEF Read, Goto, processes, counters, history, EmptyFile
  <2>5. Reading'
    BY <1>6 DEF Read, Goto, processes, counters, history, Reading, TypeOK, File
  <2>6. Knows'
    BY <1>6 DEF Read, Goto, processes, counters, history, Knows, Dead
  <2>7. CondemnsTheDead'
    BY <1>6 DEF Read, Goto, processes, counters, history, CondemnsTheDead
  <2>8. Holds'
    BY <1>6 DEF Read, Goto, processes, counters, history, Holds
  <2> QED
    BY <2>1, <2>2, <2>3, <2>4, <2>5, <2>6, <2>7, <2>8
<1>7. ASSUME NEW s \in Scheduler, EvaluateStale(s) PROVE IInv'
  <2>1. TypeOK'
    BY <1>7 DEF EvaluateStale, Goto, processes, counters, history,
       ShouldCleanup, TypeOK, File
  <2>2. Incarnations'
    BY <1>7 DEF EvaluateStale, Goto, processes, counters, history,
       ShouldCleanup, Incarnations
  <2>3. Files'
    BY <1>7 DEF EvaluateStale, Goto, processes, counters, history,
       ShouldCleanup, Files, Names
  <2>4. EmptyFile'
    BY <1>7 DEF EvaluateStale, Goto, processes, counters, history,
       ShouldCleanup, EmptyFile
  <2>5. Reading'
    BY <1>7 DEF EvaluateStale, Goto, processes, counters, history,
       ShouldCleanup, Reading
  <2>6. Knows'
    BY <1>7 DEF EvaluateStale, Goto, processes, counters, history,
       ShouldCleanup, Knows, Dead
  <2>7. CondemnsTheDead'
    BY <1>7 DEF EvaluateStale, Goto, processes, counters, history,
       ShouldCleanup, pid_is_alive, Live, CondemnsTheDead, Incarnations, Files,
       Reading, TypeOK, File, Names
  <2>8. Holds'
    BY <1>7 DEF EvaluateStale, Goto, processes, counters, history,
       ShouldCleanup, Holds
  <2> QED
    BY <2>1, <2>2, <2>3, <2>4, <2>5, <2>6, <2>7, <2>8
<1>8. ASSUME NEW s \in Scheduler, EvaluateAlive(s) PROVE IInv'
  <2>1. TypeOK'
    BY <1>8 DEF EvaluateAlive, Goto, processes, counters, history, TypeOK, File
  <2>2. Incarnations'
    BY <1>8 DEF EvaluateAlive, Goto, processes, counters, history, Incarnations
  <2>3. Files'
    BY <1>8 DEF EvaluateAlive, Goto, processes, counters, history, Files, Names
  <2>4. EmptyFile'
    BY <1>8 DEF EvaluateAlive, Goto, processes, counters, history, EmptyFile
  <2>5. Reading'
    BY <1>8 DEF EvaluateAlive, Goto, processes, counters, history, Reading
  <2>6. Knows'
    BY <1>8 DEF EvaluateAlive, Goto, processes, counters, history, Knows, Dead
  <2>7. CondemnsTheDead'
    BY <1>8 DEF EvaluateAlive, Goto, processes, counters, history,
       CondemnsTheDead, Incarnations, Files, Reading, TypeOK, File, Names
  <2>8. Holds'
    BY <1>8 DEF EvaluateAlive, Goto, processes, counters, history, Holds
  <2> QED
    BY <2>1, <2>2, <2>3, <2>4, <2>5, <2>6, <2>7, <2>8
<1>9. ASSUME NEW s \in Scheduler, EvaluateHeld(s) PROVE IInv'
  <2>1. TypeOK'
    BY <1>9 DEF EvaluateHeld, Skip, EndCycle, End, Goto, processes, TypeOK,
       File
  <2>2. Incarnations'
    BY <1>9 DEF EvaluateHeld, Skip, EndCycle, End, Goto, processes,
       Incarnations, TypeOK
  <2>3. Files'
    BY <1>9 DEF EvaluateHeld, Skip, EndCycle, End, Goto, processes, Files,
       Names, TypeOK
  <2>4. EmptyFile'
    BY <1>9 DEF EvaluateHeld, Skip, EndCycle, End, Goto, processes, EmptyFile,
       Incarnations, Files, Names, TypeOK
  <2>5. Reading'
    BY <1>9 DEF EvaluateHeld, Skip, EndCycle, End, Goto, processes, Reading,
       TypeOK
  <2>6. Knows'
    BY <1>9 DEF EvaluateHeld, Skip, EndCycle, End, Goto, processes, Knows,
       Dead, Incarnations, Files, Names, TypeOK
  <2>7. CondemnsTheDead'
    BY <1>9 DEF EvaluateHeld, Skip, EndCycle, End, Goto, processes,
       CondemnsTheDead, Incarnations, Files, Reading, TypeOK, File, Names
  <2>8. Holds'
    BY <1>9 DEF EvaluateHeld, Skip, EndCycle, End, Goto, processes, Holds,
       TypeOK
  <2> QED
    BY <2>1, <2>2, <2>3, <2>4, <2>5, <2>6, <2>7, <2>8
<1>10. ASSUME NEW s \in Scheduler, IdentifyStale(s) PROVE IInv'
  <2>1. TypeOK'
    BY <1>10 DEF IdentifyStale, Goto, processes, counters, history,
       identity_matches, Live, TypeOK, File
  <2>2. Incarnations'
    BY <1>10 DEF IdentifyStale, Goto, processes, counters, history,
       identity_matches, Live, Incarnations
  <2>3. Files'
    BY <1>10 DEF IdentifyStale, Goto, processes, counters, history,
       identity_matches, Live, Files, Names
  <2>4. EmptyFile'
    BY <1>10 DEF IdentifyStale, Goto, processes, counters, history,
       identity_matches, Live, EmptyFile
  <2>5. Reading'
    BY <1>10 DEF IdentifyStale, Goto, processes, counters, history,
       identity_matches, Live, Reading
  <2>6. Knows'
    BY <1>10 DEF IdentifyStale, Goto, processes, counters, history,
       identity_matches, Live, Knows, Dead
  <2>7. CondemnsTheDead'
    BY <1>10 DEF IdentifyStale, Goto, processes, counters, history,
       identity_matches, Live, CondemnsTheDead, Incarnations, Files, Reading,
       TypeOK, File, Names
  <2>8. Holds'
    BY <1>10 DEF IdentifyStale, Goto, processes, counters, history,
       identity_matches, Live, Holds
  <2> QED
    BY <2>1, <2>2, <2>3, <2>4, <2>5, <2>6, <2>7, <2>8
<1>11. ASSUME NEW s \in Scheduler, IdentifyHeld(s) PROVE IInv'
  <2>1. TypeOK'
    BY <1>11 DEF IdentifyHeld, Skip, EndCycle, End, Goto, processes, TypeOK,
       File
  <2>2. Incarnations'
    BY <1>11 DEF IdentifyHeld, Skip, EndCycle, End, Goto, processes,
       Incarnations, TypeOK
  <2>3. Files'
    BY <1>11 DEF IdentifyHeld, Skip, EndCycle, End, Goto, processes, Files,
       Names, TypeOK
  <2>4. EmptyFile'
    BY <1>11 DEF IdentifyHeld, Skip, EndCycle, End, Goto, processes, EmptyFile,
       Incarnations, Files, Names, TypeOK
  <2>5. Reading'
    BY <1>11 DEF IdentifyHeld, Skip, EndCycle, End, Goto, processes, Reading,
       TypeOK
  <2>6. Knows'
    BY <1>11 DEF IdentifyHeld, Skip, EndCycle, End, Goto, processes, Knows,
       Dead, Incarnations, Files, Names, TypeOK
  <2>7. CondemnsTheDead'
    BY <1>11 DEF IdentifyHeld, Skip, EndCycle, End, Goto, processes,
       CondemnsTheDead, Incarnations, Files, Reading, TypeOK, File, Names
  <2>8. Holds'
    BY <1>11 DEF IdentifyHeld, Skip, EndCycle, End, Goto, processes, Holds,
       TypeOK
  <2> QED
    BY <2>1, <2>2, <2>3, <2>4, <2>5, <2>6, <2>7, <2>8
<1>12. ASSUME NEW s \in Scheduler, remove_stale_lock(s) PROVE IInv'
  <2>1. TypeOK'
    BY <1>12 DEF remove_stale_lock, Unlink, Goto, processes, counters, TypeOK,
       File
  <2>2. Incarnations'
    BY <1>12 DEF remove_stale_lock, Unlink, Goto, processes, counters,
       Incarnations
  <2>3. Files'
    BY <1>12 DEF remove_stale_lock, Unlink, Goto, processes, counters, Files,
       Names
  <2>4. EmptyFile'
    BY <1>12 DEF remove_stale_lock, Unlink, Goto, processes, counters,
       EmptyFile
  <2>5. Reading'
    BY <1>12 DEF remove_stale_lock, Unlink, Goto, processes, counters, Reading,
       TypeOK
  <2>6. Knows'
    BY <1>12 DEF remove_stale_lock, Unlink, Goto, processes, counters, Knows,
       Dead
  <2>7. CondemnsTheDead'
    BY <1>12 DEF remove_stale_lock, Unlink, Goto, processes, counters,
       CondemnsTheDead, TypeOK
  <2>8. Holds'
    BY <1>12 DEF remove_stale_lock, Unlink, Goto, processes, counters, Holds,
       Incarnations, Files, Knows, CondemnsTheDead, Reading, TypeOK, File,
       Names, Dead
  <2> QED
    BY <2>1, <2>2, <2>3, <2>4, <2>5, <2>6, <2>7, <2>8
<1>13. ASSUME NEW s \in Scheduler, release_lock(s) PROVE IInv'
  <2>1. TypeOK'
    BY <1>13 DEF release_lock, Unlink, EndCycle, End, Goto, processes, TypeOK,
       File
  <2>2. Incarnations'
    BY <1>13 DEF release_lock, Unlink, EndCycle, End, Goto, processes,
       Incarnations, TypeOK
  <2>3. Files'
    BY <1>13 DEF release_lock, Unlink, EndCycle, End, Goto, processes, Files,
       Names, TypeOK
  <2>4. EmptyFile'
    BY <1>13 DEF release_lock, Unlink, EndCycle, End, Goto, processes,
       EmptyFile
  <2>5. Reading'
    BY <1>13 DEF release_lock, Unlink, EndCycle, End, Goto, processes, Reading,
       TypeOK
  <2>6. Knows'
    BY <1>13 DEF release_lock, Unlink, EndCycle, End, Goto, processes, Knows,
       Dead
  <2>7. CondemnsTheDead'
    BY <1>13 DEF release_lock, Unlink, EndCycle, End, Goto, processes,
       CondemnsTheDead, Incarnations, Files, Reading, TypeOK, File, Names
  <2>8. Holds'
    BY <1>13 DEF release_lock, Unlink, EndCycle, End, Goto, processes, Holds,
       Incarnations, TypeOK
  <2> QED
    BY <2>1, <2>2, <2>3, <2>4, <2>5, <2>6, <2>7, <2>8
<1>14. ASSUME NEW s \in Scheduler, Start(s) PROVE IInv'
  <2>1. TypeOK'
    BY <1>14 DEF Start, Goto, counters, history, TypeOK, File
  <2>2. Incarnations'
    BY <1>14 DEF Start, Goto, counters, history, Incarnations, TypeOK
  <2>3. Files'
    BY <1>14 DEF Start, Goto, counters, history, Files, Names, TypeOK, File
  <2>4. EmptyFile'
    BY <1>14 DEF Start, Goto, counters, history, EmptyFile, Incarnations,
       Files, Names, TypeOK
  <2>5. Reading'
    BY <1>14 DEF Start, Goto, counters, history, Reading
  <2>6. Knows'
    BY <1>14 DEF Start, Goto, counters, history, Knows, Dead, Incarnations,
       Files, Names, TypeOK
  <2>7. CondemnsTheDead'
    BY <1>14 DEF Start, Goto, counters, history, CondemnsTheDead, Incarnations,
       Files, Reading, TypeOK, File, Names
  <2>8. Holds'
    BY <1>14 DEF Start, Goto, counters, history, Holds, Incarnations, Files,
       Knows, CondemnsTheDead, Reading, TypeOK, File, Names, Dead
  <2> QED
    BY <2>1, <2>2, <2>3, <2>4, <2>5, <2>6, <2>7, <2>8
<1>15. ASSUME NEW s \in Scheduler, Crash(s) PROVE IInv'
  <2>1. TypeOK'
    BY <1>15 DEF Crash, End, Goto, Live, TypeOK, File
  <2>2. Incarnations'
    BY <1>15 DEF Crash, End, Goto, Live, Incarnations, TypeOK
  <2>3. Files'
    BY <1>15 DEF Crash, End, Goto, Live, Files, Names, TypeOK
  <2>4. EmptyFile'
    BY <1>15 DEF Crash, End, Goto, Live, EmptyFile, Incarnations, Files, Names,
       TypeOK
  <2>5. Reading'
    BY <1>15 DEF Crash, End, Goto, Live, Reading, TypeOK
  <2>6. Knows'
    BY <1>15 DEF Crash, End, Goto, Live, Knows, Dead, Incarnations, Files,
       Names, TypeOK
  <2>7. CondemnsTheDead'
    BY <1>15 DEF Crash, End, Goto, Live, CondemnsTheDead, Incarnations, Files,
       Reading, TypeOK, File, Names
  <2>8. Holds'
    BY <1>15 DEF Crash, End, Goto, Live, Holds, TypeOK
  <2> QED
    BY <2>1, <2>2, <2>3, <2>4, <2>5, <2>6, <2>7, <2>8
<1>16. ASSUME NEW s \in Scheduler, RemoveFails(s) PROVE IInv'
  <2>1. TypeOK'
    BY <1>16 DEF RemoveFails, Skip, EndCycle, End, Goto, processes, TypeOK,
       File
  <2>2. Incarnations'
    BY <1>16 DEF RemoveFails, Skip, EndCycle, End, Goto, processes,
       Incarnations, TypeOK
  <2>3. Files'
    BY <1>16 DEF RemoveFails, Skip, EndCycle, End, Goto, processes, Files,
       Names, TypeOK
  <2>4. EmptyFile'
    BY <1>16 DEF RemoveFails, Skip, EndCycle, End, Goto, processes, EmptyFile,
       Incarnations, Files, Names, TypeOK
  <2>5. Reading'
    BY <1>16 DEF RemoveFails, Skip, EndCycle, End, Goto, processes, Reading,
       TypeOK
  <2>6. Knows'
    BY <1>16 DEF RemoveFails, Skip, EndCycle, End, Goto, processes, Knows,
       Dead, Incarnations, Files, Names, TypeOK
  <2>7. CondemnsTheDead'
    BY <1>16 DEF RemoveFails, Skip, EndCycle, End, Goto, processes,
       CondemnsTheDead, Incarnations, Files, Reading, TypeOK, File, Names
  <2>8. Holds'
    BY <1>16 DEF RemoveFails, Skip, EndCycle, End, Goto, processes, Holds,
       TypeOK
  <2> QED
    BY <2>1, <2>2, <2>3, <2>4, <2>5, <2>6, <2>7, <2>8
<1>17. ASSUME NEW s \in Scheduler, ReleaseFails(s) PROVE IInv'
  <2>1. TypeOK'
    BY <1>17 DEF ReleaseFails, EndCycle, End, Goto, processes, history, TypeOK,
       File
  <2>2. Incarnations'
    BY <1>17 DEF ReleaseFails, EndCycle, End, Goto, processes, history,
       Incarnations, TypeOK
  <2>3. Files'
    BY <1>17 DEF ReleaseFails, EndCycle, End, Goto, processes, history, Files,
       Names, TypeOK
  <2>4. EmptyFile'
    BY <1>17 DEF ReleaseFails, EndCycle, End, Goto, processes, history,
       EmptyFile, Incarnations, Files, Names, TypeOK
  <2>5. Reading'
    BY <1>17 DEF ReleaseFails, EndCycle, End, Goto, processes, history,
       Reading, TypeOK
  <2>6. Knows'
    BY <1>17 DEF ReleaseFails, EndCycle, End, Goto, processes, history, Knows,
       Dead, Incarnations, Files, Names, TypeOK
  <2>7. CondemnsTheDead'
    BY <1>17 DEF ReleaseFails, EndCycle, End, Goto, processes, history,
       CondemnsTheDead, Incarnations, Files, Reading, TypeOK, File, Names
  <2>8. Holds'
    BY <1>17 DEF ReleaseFails, EndCycle, End, Goto, processes, history, Holds,
       TypeOK
  <2> QED
    BY <2>1, <2>2, <2>3, <2>4, <2>5, <2>6, <2>7, <2>8
<1>18. ASSUME Age PROVE IInv'
  <2>1. TypeOK'
    BY <1>18 DEF Age, processes, counters, history, TypeOK, File
  <2>2. Incarnations'
    BY <1>18 DEF Age, processes, counters, history, Incarnations
  <2>3. Files'
    BY <1>18 DEF Age, processes, counters, history, Files, Names
  <2>4. EmptyFile'
    BY <1>18 DEF Age, processes, counters, history, EmptyFile
  <2>5. Reading'
    BY <1>18 DEF Age, processes, counters, history, Reading
  <2>6. Knows'
    BY <1>18 DEF Age, processes, counters, history, Knows, Dead, TypeOK, File
  <2>7. CondemnsTheDead'
    BY <1>18 DEF Age, processes, counters, history, CondemnsTheDead
  <2>8. Holds'
    BY <1>18 DEF Age, processes, counters, history, Holds, Incarnations, Files,
       Knows, CondemnsTheDead, Reading, TypeOK, File, Names, Dead
  <2> QED
    BY <2>1, <2>2, <2>3, <2>4, <2>5, <2>6, <2>7, <2>8
<1>19. ASSUME OtherStarts PROVE IInv'
  <2>1. TypeOK'
    BY <1>19 DEF OtherStarts, counters, history, TypeOK, File
  <2>2. Incarnations'
    BY <1>19 DEF OtherStarts, counters, history, Incarnations
  <2>3. Files'
    BY <1>19 DEF OtherStarts, counters, history, Files, Names
  <2>4. EmptyFile'
    BY <1>19 DEF OtherStarts, counters, history, EmptyFile
  <2>5. Reading'
    BY <1>19 DEF OtherStarts, counters, history, Reading
  <2>6. Knows'
    BY <1>19 DEF OtherStarts, counters, history, Knows, Dead, Incarnations,
       Files, EmptyFile, Reading, TypeOK, File, Names
  <2>7. CondemnsTheDead'
    BY <1>19 DEF OtherStarts, counters, history, CondemnsTheDead
  <2>8. Holds'
    BY <1>19 DEF OtherStarts, counters, history, Holds
  <2> QED
    BY <2>1, <2>2, <2>3, <2>4, <2>5, <2>6, <2>7, <2>8
<1>20. ASSUME OtherEnds PROVE IInv'
  <2>1. TypeOK'
    BY <1>20 DEF OtherEnds, counters, history, TypeOK, File
  <2>2. Incarnations'
    BY <1>20 DEF OtherEnds, counters, history, Incarnations
  <2>3. Files'
    BY <1>20 DEF OtherEnds, counters, history, Files, Names
  <2>4. EmptyFile'
    BY <1>20 DEF OtherEnds, counters, history, EmptyFile
  <2>5. Reading'
    BY <1>20 DEF OtherEnds, counters, history, Reading
  <2>6. Knows'
    BY <1>20 DEF OtherEnds, counters, history, Knows, Dead
  <2>7. CondemnsTheDead'
    BY <1>20 DEF OtherEnds, counters, history, CondemnsTheDead
  <2>8. Holds'
    BY <1>20 DEF OtherEnds, counters, history, Holds
  <2> QED
    BY <2>1, <2>2, <2>3, <2>4, <2>5, <2>6, <2>7, <2>8
<1>21. CASE UNCHANGED vars
  BY <1>21 DEF vars, processes, counters, history, TypeOK, Incarnations,
     Files, Names, EmptyFile, Reading, Knows, Dead, CondemnsTheDead, Holds
<1> QED
  BY <1>1, <1>2, <1>3, <1>4, <1>5, <1>6, <1>7, <1>8, <1>9, <1>10, <1>11,
     <1>12, <1>13, <1>14, <1>15, <1>16, <1>17, <1>18, <1>19, <1>20,
     <1>21 DEF Next, Step

LEMMA Initial == Init => IInv
<1> SUFFICES ASSUME Init PROVE IInv
  OBVIOUS
<1>1. TypeOK
  BY DEF Init, TypeOK
<1>2. Incarnations
  BY DEF Init, Incarnations
<1>3. Files /\ EmptyFile /\ Reading /\ Knows /\ CondemnsTheDead /\ Holds
  BY DEF Init, Files, EmptyFile, Reading, Knows, CondemnsTheDead, Holds
<1> QED
  BY <1>1, <1>2, <1>3 DEF IInv

\* The inductive invariant holds of every behaviour: what the lock file names,
\* what each scheduler knows of it, and who holds it.
THEOREM Invariance == Spec => []IInv
<1>1. IInv /\ [Next]_vars => IInv'
  BY Preserved
<1> QED
  BY Initial, <1>1, PTL DEF Spec

\* Every variable of the lock protocol keeps its type.
THEOREM TypesCorrect == Spec => []TypeOK
<1>1. IInv => TypeOK
  BY DEF IInv
<1> QED
  BY Invariance, <1>1, PTL

\* A lock file with a payload is condemned by evaluate_lock_state only when
\* the scheduler that wrote it is dead.
THEOREM OnlyTheDeadAreCondemned == Spec => []CondemnsTheDead
<1>1. IInv => CondemnsTheDead
  BY DEF IInv
<1> QED
  BY Invariance, <1>1, PTL

\* At most one scheduler holds the lock, as long as remove_stale_lock has not
\* unlinked another file than the one that was examined: two holders would
\* both own the one lock file, but incarnations are not shared.
THEOREM Exclusion == Spec => []ExclusiveUnlessStolen
<1>1. IInv => ExclusiveUnlessStolen
  <2> SUFFICES ASSUME IInv, ~stolen,
                      NEW s \in Scheduler, NEW t \in Scheduler,
                      pc[s] \in {"write", "run"}, pc[t] \in {"write", "run"}
               PROVE  s = t
    BY DEF ExclusiveUnlessStolen
  <2>1. instance[s] = lock.instance /\ instance[t] = lock.instance
    BY DEF IInv, Holds
  <2>2. instance[s] # 0
    BY DEF IInv, Incarnations
  <2> QED
    BY <2>1, <2>2 DEF IInv, Incarnations
<1> QED
  BY Invariance, <1>1, PTL


-----------------------------------------------------------------------------
(* What of RunsAgain needs no fairness                                     *)

\* The owner of the lock file is dead.
Orphaned == lock # None /\ Dead(lock.instance)

\* A file without an owner gets none again, though PIDs are reused, and nothing
\* happens to it but that it grows old and is removed.
OrphanStays ==
  [][Orphaned => \/ lock' = None
                 \/ Orphaned' /\ lock' \in {lock, [lock EXCEPT !.old = TRUE]}]_vars

\* A scheduler that has seen it old and judges it does not leave it: it goes on
\* to condemn it, unless it crashes before.
OrphanCondemned ==
  [][\A s \in examined :
       Orphaned /\ snapshot[s].old /\ pc[s] \in {"evaluate", "identify"} =>
         pc'[s] \in {pc[s], "identify", "remove", "down"}]_vars

LEMMA OrphanStep ==
  ASSUME IInv, [Next]_vars, Orphaned
  PROVE  \/ lock' = None
         \/ Orphaned' /\ lock' \in {lock, [lock EXCEPT !.old = TRUE]}
<1>1. /\ lock \in File /\ lock.instance \in Nat
      /\ lock.instance # 0 /\ lock.instance <= started
  BY DEF IInv, TypeOK, Files, Names, Orphaned, File
<1>2. \/ lock' = None \/ lock' = lock
      \/ lock' = [lock EXCEPT !.old = TRUE]
  BY DEF Next, Step, vars, processes, counters, history, Start, Create, WritePayload, Contend,
     Stat, StatFails, Read, EvaluateStale, EvaluateAlive, EvaluateHeld, Skip, EndCycle, End,
     IdentifyStale, IdentifyHeld, remove_stale_lock, release_lock, Unlink, RemoveFails,
     ReleaseFails, Crash, Age, OtherStarts, OtherEnds, Orphaned, Dead
<1>3. \A t \in Scheduler : instance'[t] \in {instance[t], 0, started + 1}
  BY DEF Next, Step, vars, processes, counters, history, Start, Create, WritePayload, Contend,
     Stat, StatFails, Read, EvaluateStale, EvaluateAlive, EvaluateHeld, Skip, EndCycle, End,
     IdentifyStale, IdentifyHeld, remove_stale_lock, release_lock, RemoveFails,
     ReleaseFails, Crash, Age, OtherStarts, OtherEnds, IInv, TypeOK
<1>4. \A t \in Scheduler : instance'[t] # lock.instance
  BY <1>1, <1>3 DEF Orphaned, Dead, IInv, TypeOK
<1>5. lock' # None => lock'.instance = lock.instance
  BY <1>1, <1>2 DEF File
<1>6. lock' # None => Orphaned'
  BY <1>4, <1>5 DEF Orphaned, Dead
<1> QED BY <1>2, <1>6

LEMMA OrphanVerdict ==
  ASSUME IInv, [Next]_vars, Orphaned, NEW s \in examined, snapshot[s].old,
         pc[s] \in {"evaluate", "identify"}
  PROVE  pc'[s] \in {pc[s], "identify", "remove", "down"}
<1>1. s \in Scheduler /\ snapshot[s].instance = lock.instance
  BY DEF IInv, TypeOK, Knows
<1>2. ~identity_matches(snapshot[s])
  BY <1>1 DEF identity_matches, Orphaned, Dead
<1>3. ~EvaluateHeld(s)
  BY DEF EvaluateHeld, ShouldCleanup
<1>4. ~IdentifyHeld(s)
  BY <1>2 DEF IdentifyHeld
<1>5. \A t \in Scheduler : t # s /\ (\/ Step(t) \/ Start(t) \/ Crash(t)
                                     \/ RemoveFails(t) \/ ReleaseFails(t))
                             => pc'[s] = pc[s]
  BY <1>1 DEF Step, Goto, processes, Start, Create, WritePayload, Contend,
     Stat, StatFails, Read, EvaluateStale, EvaluateAlive, EvaluateHeld, Skip, EndCycle, End,
     IdentifyStale, IdentifyHeld, remove_stale_lock, release_lock, RemoveFails,
     ReleaseFails, Crash, IInv, TypeOK
<1>6. Step(s) \/ Start(s) \/ Crash(s) \/ RemoveFails(s) \/ ReleaseFails(s)
        => pc'[s] \in {"identify", "remove", "down"}
  BY <1>1, <1>3, <1>4 DEF Step, Goto, Start, Create, WritePayload, Contend,
     Stat, StatFails, Read, EvaluateStale, EvaluateAlive, End,
     IdentifyStale, remove_stale_lock, release_lock, RemoveFails,
     ReleaseFails, Crash, IInv, TypeOK
<1>7. Age \/ OtherStarts \/ OtherEnds \/ UNCHANGED vars => pc' = pc
  BY DEF Age, OtherStarts, OtherEnds, vars
<1> QED BY <1>1, <1>5, <1>6, <1>7 DEF Next

\* A lock file whose scheduler died stays an orphan until it is removed, and
\* whoever has seen it old and judges it condemns it: a reused PID delays no
\* verdict, and no scheduler waits for an owner that is gone
\* (evaluate_lock_state, loop_scheduler_lock_eval.py).
THEOREM OrphansAreCleared == Spec => OrphanStays /\ OrphanCondemned
<1>1. IInv /\ [Next]_vars =>
        [Orphaned => \/ lock' = None
                     \/ Orphaned' /\ lock' \in {lock, [lock EXCEPT !.old = TRUE]}]_vars
  BY OrphanStep
<1>2. IInv /\ [Next]_vars =>
        [\A s \in examined :
           Orphaned /\ snapshot[s].old /\ pc[s] \in {"evaluate", "identify"} =>
             pc'[s] \in {pc[s], "identify", "remove", "down"}]_vars
  BY OrphanVerdict
<1> QED BY <1>1, <1>2, Invariance, PTL DEF Spec, OrphanStays, OrphanCondemned
=============================================================================
