------------------------- MODULE SingleFlightProofs -------------------------
(***************************************************************************)
(* Proofs about SingleFlight, for any number of requests, runs and polls   *)
(* and any size of the payload cache.                                      *)
(***************************************************************************)
EXTENDS SingleFlight, TLAPS

\* A request that has started has loaded the files of a run, and one that waits
\* has found an entry and has polls left.
Loaded == \A q \in Request :
  /\ pc[q] # "new" => context[q] # None
  /\ pc[q] = "poll" => flight[q] # None
  /\ pc[q] \in {"new", "acquire", "poll"} => polls[q] < MaxPolls

\* The entry of a run is that of a request for the run, which is at work on it
\* or has failed.
Holders == \A r \in Run : flights[r] # None =>
  /\ flights[r] \in OfRun(r)
  /\ pc[flights[r]] \in Building \cup {"failed"}

\* The lock is kept over the sleep of a release, and over nothing else.
Sleeping == \A q \in Request : pc[q] = "sleep" <=> lock = q

\* Who was served has found an entry, and its maker is past acquire.
Waited == \A q \in Request :
  /\ pc[q] = "served" => flight[q] # None
  /\ flight[q] # None => pc[flight[q]] \notin {"new", "acquire"}

\* A result belongs to a request past acquire, and it is in an entry that can
\* still be found only while its releaser sleeps.
Written ==
  /\ \A h \in Request : result[h] # None => pc[h] \notin {"new", "acquire"}
  /\ \A r \in Run : flights[r] # None /\ result[flights[r]] # None =>
       lock # None /\ lock \in OfRun(r)

\* A waiter is served the result of its entry.
ServedResult == \A q \in Request : pc[q] = "served" =>
  result[flight[q]] # None /\ answer[q] = result[flight[q]]

\* As long as no waiter of a run has given up, its builder holds its entry.
BuilderHolds == \A r \in Run : Patient(r) =>
  \A q \in OfRun(r) : pc[q] \in Building => flights[r] = q

IInv == /\ TypeOK /\ Loaded /\ Holders /\ Sleeping /\ Waited /\ Written
        /\ ServedResult /\ BuilderHolds /\ Healed

-----------------------------------------------------------------------------
(* Type correctness                                                        *)

\* An entry more in a cache that is not full leaves a cache.
LEMMA InsertedType ==
  ASSUME NEW kept \in Seq(CacheEntry), Len(kept) < MaxCached, NEW entry \in CacheEntry
  PROVE  Inserted(kept, entry) \in Seq(CacheEntry) /\ Len(Inserted(kept, entry)) <= MaxCached
<1> USE ConstantsAssumption
<1> DEFINE same == KeyIn(kept, entry.run, entry.mtime)
           Replaced == [n \in 1..Len(kept) |-> IF n \in same THEN entry ELSE kept[n]]
<1>0. Len(kept) \in Nat /\ DOMAIN kept = 1..Len(kept)
  OBVIOUS
<1>1. Append(kept, entry) \in Seq(CacheEntry) /\ Len(Append(kept, entry)) = Len(kept) + 1
  OBVIOUS
<1>2. \A n \in 1..Len(kept) : kept[n] \in CacheEntry
  OBVIOUS
<1>3. Replaced \in [1..Len(kept) -> CacheEntry]
  BY <1>2
<1>4. Replaced \in Seq(CacheEntry) /\ Len(Replaced) = Len(kept)
  BY <1>0, <1>3
<1>5. Inserted(kept, entry) = IF same = {} THEN Append(kept, entry) ELSE Replaced
  BY <1>0 DEF Inserted
<1> HIDE DEF same, Replaced
<1> QED BY <1>0, <1>1, <1>4, <1>5

\* A cache from which a full one has dropped its oldest entry is not full.
LEMMA EvictedType ==
  ASSUME NEW c \in Seq(CacheEntry), Len(c) <= MaxCached
  PROVE  Evicted(c) \in Seq(CacheEntry) /\ Len(Evicted(c)) < MaxCached
<1> USE ConstantsAssumption
<1>1. CASE Len(c) < MaxCached
  BY <1>1 DEF Evicted
<1>2. CASE Len(c) >= MaxCached
  <2>1. c # <<>> /\ Len(c) \in Nat \ {0}
    BY <1>2
  <2>2. Tail(c) \in Seq(CacheEntry) /\ Len(Tail(c)) = Len(c) - 1
    BY <2>1
  <2> QED BY <1>2, <2>1, <2>2 DEF Evicted
<1> QED BY <1>1, <1>2

\* A request that has started is for a run.
LEMMA RunOfRequest ==
  ASSUME TypeOK, Loaded, NEW q \in Request, pc[q] # "new"
  PROVE  context[q] \in Payload /\ context[q].run \in Run /\ q \in OfRun(context[q].run)
BY NoneAssumption DEF TypeOK, Loaded, OfRun, Payload

LEMMA TypeStep ==
  ASSUME TypeOK, Loaded, [Next]_vars
  PROVE  TypeOK' /\ Loaded'
<1> USE ConstantsAssumption, NoneAssumption
<1> USE DEF shared, locals, At, Goto
<1>1. CASE UNCHANGED vars
  BY <1>1 DEF vars, TypeOK, Loaded
<1>2. CASE WriteIndex
  BY <1>2 DEF WriteIndex, TypeOK, Loaded
<1>3. ASSUME NEW q \in Request, Load(q) PROVE TypeOK' /\ Loaded'
  BY <1>3 DEF Load, Payload, TypeOK, Loaded
<1>4. ASSUME NEW q \in Request, Lead(q) PROVE TypeOK' /\ Loaded'
  <2>1. context[q].run \in Run
    BY <1>4, RunOfRequest DEF Lead
  <2> QED BY <1>4, <2>1 DEF Lead, Building, TypeOK, Loaded
<1>5. ASSUME NEW q \in Request, Join(q) PROVE TypeOK' /\ Loaded'
  <2>1. context[q].run \in Run
    BY <1>5, RunOfRequest DEF Join
  <2> QED BY <1>5, <2>1 DEF Join, TypeOK, Loaded
<1>6. ASSUME NEW q \in Request, PollServed(q) PROVE TypeOK' /\ Loaded'
  <2>1. flight[q] \in Request => result[flight[q]] \in Payload \cup {None}
    BY DEF TypeOK
  <2>2. flight[q] \in Request
    BY <1>6 DEF PollServed, TypeOK, Loaded
  <2> QED BY <1>6, <2>1, <2>2 DEF PollServed, Ended, TypeOK, Loaded
<1>7. ASSUME NEW q \in Request, PollInVain(q) PROVE TypeOK' /\ Loaded'
  BY <1>7 DEF PollInVain, Building, TypeOK, Loaded
<1>8. ASSUME NEW q \in Request, Stat(q) PROVE TypeOK' /\ Loaded'
  BY <1>8 DEF Stat, Building, TypeOK, Loaded
<1>9. ASSUME NEW q \in Request, LookupHit(q) PROVE TypeOK' /\ Loaded'
  <2>1. \A n \in DOMAIN cache : cache[n].payload \in Payload
    <3>1. cache \in Seq(CacheEntry)
      BY DEF TypeOK
    <3>2. \A n \in 1..Len(cache) : cache[n] \in CacheEntry
      BY <3>1
    <3>3. DOMAIN cache = 1..Len(cache)
      BY <3>1
    <3> QED BY <3>2, <3>3 DEF CacheEntry
  <2> QED BY <1>9, <2>1 DEF LookupHit, KeyIn, Building, TypeOK, Loaded
<1>10. ASSUME NEW q \in Request, LookupMiss(q) PROVE TypeOK' /\ Loaded'
  BY <1>10 DEF LookupMiss, Building, TypeOK, Loaded
<1>11. ASSUME NEW q \in Request, Build(q) PROVE TypeOK' /\ Loaded'
  <2> DEFINE entry == [run |-> context[q].run, mtime |-> mtime[q], payload |-> context[q]]
  <2>1. entry \in CacheEntry
    BY <1>11, RunOfRequest DEF Build, CacheEntry, TypeOK
  <2>2. cache' \in Seq(CacheEntry) /\ Len(cache') <= MaxCached
    <3>1. cache' = Inserted(Evicted(cache), entry)
      BY <1>11 DEF Build
    <3> HIDE DEF entry
    <3> QED BY <2>1, <3>1, InsertedType, EvictedType DEF TypeOK
  <2> QED BY <1>11, <2>2 DEF Build, Building, TypeOK, Loaded
<1>12. ASSUME NEW q \in Request, Fail(q) PROVE TypeOK' /\ Loaded'
  BY <1>12 DEF Fail, Ended, TypeOK, Loaded
<1>13. ASSUME NEW q \in Request, Release(q) PROVE TypeOK' /\ Loaded'
  BY <1>13 DEF Release, Building, TypeOK, Loaded
<1>14. ASSUME NEW q \in Request, Delete(q) PROVE TypeOK' /\ Loaded'
  BY <1>14 DEF Delete, Ended, TypeOK, Loaded
<1>15. ASSUME NEW q \in Request, ReleaseNothing(q) PROVE TypeOK' /\ Loaded'
  BY <1>15 DEF ReleaseNothing, Ended, TypeOK, Loaded
<1> HIDE DEF shared, locals, At, Goto
<1> QED
  BY <1>1, <1>2, <1>3, <1>4, <1>5, <1>6, <1>7, <1>8, <1>9, <1>10, <1>11, <1>12,
     <1>13, <1>14, <1>15 DEF Next, Step

LEMMA TypeInit == Init => TypeOK /\ Loaded
BY ConstantsAssumption DEF Init, TypeOK, Loaded

\* Shapes and bounds hold in every state: the cache of payloads keeps its size.
THEOREM TypeCorrect == Spec => []TypeOK
<1>1. TypeOK /\ Loaded /\ [Next]_vars => TypeOK' /\ Loaded'
  BY TypeStep
<1> QED BY TypeInit, <1>1, PTL DEF Spec
-----------------------------------------------------------------------------
(* The steps                                                               *)

\* What is left of the invariant once the types are known.
Rest == /\ Holders /\ Sleeping /\ Waited /\ Written
        /\ ServedResult /\ BuilderHolds /\ Healed

\* Only Load gives a request its run, and only PollInVain counts polls.
LEMMA SameRuns ==
  ASSUME UNCHANGED context
  PROVE  \A r : /\ OfRun(r)' = OfRun(r)
                /\ UNCHANGED polls => Patient(r)' = Patient(r)
BY DEF OfRun, Patient

\* A request that starts comes to its run with all its polls ahead.
LEMMA LoadKeeps ==
  ASSUME TypeOK, Loaded, Rest, NEW q \in Request, Load(q)
  PROVE  Rest'
<1> USE NoneAssumption
<1>1. /\ pc[q] = "new" /\ pc' = [pc EXCEPT ![q] = "acquire"]
      /\ UNCHANGED <<flights, result, lock, flight, polls, answer>>
      /\ \A p \in Request : p # q => context'[p] = context[p]
  BY DEF Load, At, Goto, shared, TypeOK
<1>2. \A r \in Run, p \in Request : p # q => (p \in OfRun(r)' <=> p \in OfRun(r))
  BY <1>1 DEF OfRun
<1>3. \A r \in Run : Patient(r)' => Patient(r)
  BY <1>1, <1>2 DEF Loaded, Patient, OfRun
<1>4. Holders'
  BY <1>1, <1>2 DEF Rest, Holders, TypeOK, Building
<1>5. Sleeping' /\ ServedResult'
  BY <1>1 DEF Rest, Sleeping, ServedResult, TypeOK
<1>6. Waited' /\ Healed'
  <2>1. \A p \in Request : flight[p] # None => flight[p] # q
    BY <1>1 DEF Rest, Waited
  <2>2. Waited'
    BY <1>1, <2>1 DEF Rest, Waited, TypeOK
  <2>3. \A p \in Request : pc'[p] = "done" => p # q /\ pc[p] = "done"
    BY <1>1 DEF TypeOK
  <2> QED BY <1>1, <2>2, <2>3 DEF Rest, Healed
<1>7. Written'
  <2>1. lock # q
    BY <1>1 DEF Rest, Sleeping
  <2>2. result[q] = None
    BY <1>1 DEF Rest, Written
  <2> QED BY <1>1, <1>2, <2>1, <2>2 DEF Rest, Written, TypeOK
<1>8. BuilderHolds'
  <2> SUFFICES ASSUME NEW r \in Run, Patient(r)', NEW p \in OfRun(r)', pc'[p] \in Building
               PROVE  flights'[r] = p
    BY DEF BuilderHolds
  <2>1. p \in Request /\ p # q
    BY <1>1 DEF OfRun, Building, TypeOK
  <2>2. p \in OfRun(r) /\ pc[p] \in Building
    BY <1>1, <1>2, <2>1 DEF TypeOK
  <2> QED BY <1>1, <1>3, <2>2 DEF Rest, BuilderHolds
<1> QED BY <1>4, <1>5, <1>6, <1>7, <1>8 DEF Rest

\* A leader enters a run that has no entry: if no waiter has given up, nobody
\* builds for it.
LEMMA LeadKeeps ==
  ASSUME TypeOK, Loaded, Rest, NEW q \in Request, Lead(q)
  PROVE  Rest'
<1> USE NoneAssumption, ConstantsAssumption
<1> DEFINE run == context[q].run
<1>1. /\ pc[q] = "acquire" /\ pc' = [pc EXCEPT ![q] = "stat"]
      /\ flights[run] = None /\ flights' = [flights EXCEPT ![run] = q]
      /\ UNCHANGED <<result, lock, context, flight, polls, answer>>
  BY DEF Lead, At, Goto
<1>2. run \in Run /\ q \in OfRun(run)
  BY <1>1, RunOfRequest
<1>3. \A r \in Run : OfRun(r)' = OfRun(r) /\ Patient(r)' = Patient(r)
  BY <1>1, SameRuns
<1> HIDE DEF run
<1>4. Holders'
  BY <1>1, <1>2, <1>3 DEF Rest, Holders, TypeOK, Building
<1>5. Sleeping' /\ ServedResult'
  BY <1>1 DEF Rest, Sleeping, ServedResult, TypeOK
<1>6. Waited'
  BY <1>1 DEF Rest, Waited, TypeOK
<1>7. Written'
  <2>1. result[q] = None
    BY <1>1 DEF Rest, Written
  <2> QED BY <1>1, <1>2, <1>3, <2>1 DEF Rest, Written, TypeOK
<1>8. BuilderHolds'
  <2> SUFFICES ASSUME NEW r \in Run, Patient(r), NEW p \in OfRun(r), pc'[p] \in Building
               PROVE  flights'[r] = p
    BY <1>3 DEF BuilderHolds
  <2>1. CASE p = q
    BY <1>1, <1>2, <2>1 DEF TypeOK, OfRun, run
  <2>2. CASE p # q
    <3>1. p \in Request /\ pc[p] \in Building
      BY <1>1, <2>2 DEF TypeOK, OfRun
    <3>2. flights[r] = p
      BY <3>1 DEF Rest, BuilderHolds
    <3>3. r # run
      BY <1>1, <3>1, <3>2
    <3> QED BY <1>1, <3>2, <3>3 DEF TypeOK
  <2> QED BY <2>1, <2>2
<1>9. Healed'
  <2>1. \A p \in Request : flight[p] # None => flight[p] # q
    BY <1>1 DEF Rest, Waited
  <2>2. \A p \in Request : pc'[p] = "done" => pc[p] = "done" /\ context[p].run \in Run
    BY <1>1, RunOfRequest DEF TypeOK
  <2> QED BY <1>1, <1>2, <2>1, <2>2 DEF Rest, Healed, TypeOK
<1> QED BY <1>4, <1>5, <1>6, <1>7, <1>8, <1>9 DEF Rest

\* A waiter takes the entry of a request that is at work or has failed.
LEMMA JoinKeeps ==
  ASSUME TypeOK, Loaded, Rest, NEW q \in Request, Join(q)
  PROVE  Rest'
<1> DEFINE run == context[q].run
<1>1. /\ pc[q] = "acquire" /\ pc' = [pc EXCEPT ![q] = "poll"]
      /\ flights[run] # None /\ flight' = [flight EXCEPT ![q] = flights[run]]
      /\ UNCHANGED <<flights, result, lock, context, polls, answer>>
  BY DEF Join, At, Goto, shared
<1>2. flights[run] \in Request /\ pc[flights[run]] \in Building \cup {"failed"}
  BY <1>1, RunOfRequest DEF Rest, Holders, OfRun
<1>3. \A r \in Run : OfRun(r)' = OfRun(r) /\ Patient(r)' = Patient(r)
  BY <1>1, SameRuns
<1> HIDE DEF run
<1>4. Holders'
  BY <1>1, <1>3 DEF Rest, Holders, TypeOK, OfRun, Building
<1>5. Sleeping' /\ ServedResult'
  BY <1>1 DEF Rest, Sleeping, ServedResult, TypeOK
<1>6. Waited'
  BY <1>1, <1>2 DEF Rest, Waited, TypeOK, Building
<1>7. Written'
  BY <1>1, <1>3 DEF Rest, Written, TypeOK
<1>8. BuilderHolds'
  BY <1>1, <1>3 DEF Rest, BuilderHolds, OfRun, Building, TypeOK
<1>9. Healed'
  BY <1>1 DEF Rest, Healed, TypeOK
<1> QED BY <1>4, <1>5, <1>6, <1>7, <1>8, <1>9 DEF Rest

LEMMA PollServedKeeps ==
  ASSUME TypeOK, Loaded, Rest, NEW q \in Request, PollServed(q)
  PROVE  Rest'
<1>1. /\ pc[q] = "poll" /\ pc' = [pc EXCEPT ![q] = "served"]
      /\ result[flight[q]] # None
      /\ answer' = [answer EXCEPT ![q] = result[flight[q]]]
      /\ UNCHANGED <<flights, result, lock, context, flight, polls>>
  BY DEF PollServed, At, Goto, shared
<1>2. \A r \in Run : OfRun(r)' = OfRun(r) /\ Patient(r)' = Patient(r)
  BY <1>1, SameRuns
<1>3. Holders'
  BY <1>1, <1>2 DEF Rest, Holders, TypeOK, OfRun, Building
<1>4. Sleeping' /\ ServedResult'
  BY <1>1 DEF Rest, Sleeping, ServedResult, TypeOK
<1>5. Waited'
  BY <1>1 DEF Rest, Waited, TypeOK, Loaded
<1>6. Written'
  BY <1>1, <1>2 DEF Rest, Written, TypeOK
<1>7. BuilderHolds'
  BY <1>1, <1>2 DEF Rest, BuilderHolds, OfRun, Building, TypeOK
<1>8. Healed'
  BY <1>1 DEF Rest, Healed, TypeOK
<1> QED BY <1>3, <1>4, <1>5, <1>6, <1>7, <1>8 DEF Rest

\* A waiter that gives up ends the patience of its run.
LEMMA PollInVainKeeps ==
  ASSUME TypeOK, Loaded, Rest, NEW q \in Request, PollInVain(q)
  PROVE  Rest'
<1> USE ConstantsAssumption
<1>1. /\ pc[q] = "poll" /\ polls' = [polls EXCEPT ![q] = @ + 1]
      /\ pc' = [pc EXCEPT ![q] = IF polls[q] + 1 = MaxPolls THEN "stat" ELSE "poll"]
      /\ UNCHANGED <<flights, result, lock, context, flight, answer>>
  BY DEF PollInVain, At, Goto, shared
<1>2. \A r \in Run : OfRun(r)' = OfRun(r)
  BY <1>1, SameRuns
<1>3. Holders'
  BY <1>1, <1>2 DEF Rest, Holders, TypeOK, OfRun, Building
<1>4. Sleeping' /\ ServedResult'
  BY <1>1 DEF Rest, Sleeping, ServedResult, TypeOK
<1>5. Waited'
  BY <1>1 DEF Rest, Waited, TypeOK
<1>6. Written'
  BY <1>1, <1>2 DEF Rest, Written, TypeOK
<1>7. BuilderHolds'
  <2> SUFFICES ASSUME NEW r \in Run, Patient(r)', NEW p \in OfRun(r), pc'[p] \in Building
               PROVE  flights[r] = p
    BY <1>1, <1>2 DEF BuilderHolds
  <2>1. p \in Request
    BY DEF OfRun
  <2>2. polls'[p] < MaxPolls
    BY <1>2 DEF Patient
  <2>3. p # q
    BY <1>1, <2>2 DEF TypeOK, Building
  <2>4. Patient(r)
    BY <1>1, <1>2 DEF Patient, OfRun, TypeOK
  <2>5. pc[p] \in Building
    BY <1>1, <2>1, <2>3 DEF TypeOK
  <2> QED BY <2>4, <2>5 DEF Rest, BuilderHolds
<1>8. Healed'
  BY <1>1 DEF Rest, Healed, TypeOK
<1> QED BY <1>3, <1>4, <1>5, <1>6, <1>7, <1>8 DEF Rest

\* The steps of a build: only the builder's own place and answer change.
LEMMA BuildingKeeps ==
  ASSUME TypeOK, Loaded, Rest, NEW q \in Request,
         Stat(q) \/ LookupHit(q) \/ LookupMiss(q) \/ Build(q)
  PROVE  Rest'
<1> USE DEF Stat, LookupHit, LookupMiss, Build, At, Goto, shared
<1>1. /\ pc[q] \in {"stat", "lookup", "build"}
      /\ UNCHANGED <<flights, result, lock, context, flight, polls>>
  OBVIOUS
<1>2. PICK place \in {"lookup", "build", "release"} : pc' = [pc EXCEPT ![q] = place]
  OBVIOUS
<1>3. \A p \in Request : p # q => answer'[p] = answer[p]
  BY DEF TypeOK
<1> USE DEF Building
<1>4. \A r \in Run : OfRun(r)' = OfRun(r) /\ Patient(r)' = Patient(r)
  BY <1>1, SameRuns
<1> HIDE DEF Stat, LookupHit, LookupMiss, Build, At, Goto, shared
<1>5. Holders'
  BY <1>1, <1>2, <1>4 DEF Rest, Holders, TypeOK, OfRun
<1>6. Sleeping' /\ ServedResult'
  BY <1>1, <1>2, <1>3 DEF Rest, Sleeping, ServedResult, TypeOK
<1>7. Waited'
  BY <1>1, <1>2 DEF Rest, Waited, TypeOK
<1>8. Written'
  BY <1>1, <1>2, <1>4 DEF Rest, Written, TypeOK
<1>9. BuilderHolds'
  BY <1>1, <1>2, <1>4 DEF Rest, BuilderHolds, OfRun, TypeOK
<1>10. Healed'
  BY <1>1, <1>2 DEF Rest, Healed, TypeOK
<1> QED BY <1>5, <1>6, <1>7, <1>8, <1>9, <1>10 DEF Rest

\* A request that fails keeps its entry.
LEMMA FailKeeps ==
  ASSUME TypeOK, Loaded, Rest, NEW q \in Request, Fail(q)
  PROVE  Rest'
<1>1. /\ pc[q] = "build" /\ pc' = [pc EXCEPT ![q] = "failed"]
      /\ UNCHANGED <<flights, result, lock, context, flight, polls, answer>>
  BY DEF Fail, At, Goto, shared
<1>2. \A r \in Run : OfRun(r)' = OfRun(r) /\ Patient(r)' = Patient(r)
  BY <1>1, SameRuns
<1>3. Holders'
  BY <1>1, <1>2 DEF Rest, Holders, TypeOK, OfRun
<1>4. Sleeping' /\ ServedResult'
  BY <1>1 DEF Rest, Sleeping, ServedResult, TypeOK
<1>5. Waited'
  BY <1>1 DEF Rest, Waited, TypeOK
<1>6. Written'
  BY <1>1, <1>2 DEF Rest, Written, TypeOK
<1>7. BuilderHolds'
  BY <1>1, <1>2 DEF Rest, BuilderHolds, OfRun, Building, TypeOK
<1>8. Healed'
  BY <1>1 DEF Rest, Healed, TypeOK
<1> QED BY <1>3, <1>4, <1>5, <1>6, <1>7, <1>8 DEF Rest

\* A release finds the lock free, so the entry it fills has no result yet: no
\* waiter has been served from it.
LEMMA ReleaseKeeps ==
  ASSUME TypeOK, Loaded, Rest, NEW q \in Request, Release(q)
  PROVE  Rest'
<1> USE ConstantsAssumption
<1> DEFINE run == context[q].run
           holder == flights[run]
<1>1. /\ pc[q] = "release" /\ pc' = [pc EXCEPT ![q] = "sleep"]
      /\ lock = None /\ lock' = q /\ holder # None
      /\ result' = [result EXCEPT ![holder] = answer[q]]
      /\ UNCHANGED <<flights, context, flight, polls, answer>>
  BY DEF Release, At, Goto
<1>2. run \in Run /\ q \in OfRun(run)
  BY <1>1, RunOfRequest
<1>3. holder \in OfRun(run) /\ pc[holder] \in Building \cup {"failed"}
  BY <1>1, <1>2 DEF Rest, Holders
<1>4. result[holder] = None
  BY <1>1, <1>2 DEF Rest, Written
<1>5. \A r \in Run : OfRun(r)' = OfRun(r) /\ Patient(r)' = Patient(r)
  BY <1>1, SameRuns
<1>6. \A r \in Run : flights[r] = holder => r = run
  BY <1>1, <1>3 DEF Rest, Holders, OfRun
<1>7. \A h \in Request : h # holder => result'[h] = result[h]
  BY <1>1 DEF TypeOK
<1>8. flights' = flights
  BY <1>1
<1> HIDE DEF run, holder
<1>9. Holders'
  BY <1>1, <1>5, <1>8 DEF Rest, Holders, TypeOK, OfRun, Building
<1>10. Sleeping'
  BY <1>1 DEF Rest, Sleeping, TypeOK
<1>11. ServedResult'
  <2> SUFFICES ASSUME NEW p \in Request, pc'[p] = "served"
               PROVE  result'[flight'[p]] # None /\ answer'[p] = result'[flight'[p]]
    BY DEF ServedResult
  <2>1. pc[p] = "served"
    BY <1>1 DEF TypeOK
  <2>2. flight[p] \in Request /\ result[flight[p]] # None /\ answer[p] = result[flight[p]]
    BY <2>1 DEF Rest, ServedResult, Waited, TypeOK
  <2>3. flight[p] # holder
    BY <1>4, <2>2
  <2> QED BY <1>1, <1>7, <2>2, <2>3
<1>12. Waited'
  BY <1>1 DEF Rest, Waited, TypeOK
<1>13. Written'
  <2>1. \A h \in Request : result'[h] # None => pc'[h] \notin {"new", "acquire"}
    <3>1. \A h \in Request : result'[h] # None => pc[h] \notin {"new", "acquire"}
      BY <1>3, <1>7 DEF Rest, Written, Building
    <3> QED BY <1>1, <3>1 DEF TypeOK
  <2>2. ASSUME NEW r \in Run, flights[r] # None, result'[flights[r]] # None
        PROVE  q \in OfRun(r)
    <3>1. flights[r] = holder
      <4> SUFFICES ASSUME flights[r] # holder PROVE FALSE
        OBVIOUS
      <4>1. flights[r] \in Request
        BY <2>2 DEF TypeOK
      <4>2. result[flights[r]] # None
        BY <1>7, <2>2, <4>1
      <4> QED BY <1>1, <2>2, <4>2 DEF Rest, Written
    <3> QED BY <1>2, <1>6, <3>1
  <2> QED BY <1>1, <1>5, <1>8, <2>1, <2>2 DEF Written
<1>14. BuilderHolds'
  BY <1>1, <1>5, <1>8 DEF Rest, BuilderHolds, OfRun, Building, TypeOK
<1>15. Healed'
  BY <1>1, <1>8 DEF Rest, Healed, TypeOK
<1> QED BY <1>9, <1>10, <1>11, <1>12, <1>13, <1>14, <1>15 DEF Rest

\* The entry of the run is gone, and with it whoever held it is no builder of
\* a run whose waiters are patient.
LEMMA DeleteKeeps ==
  ASSUME TypeOK, Loaded, Rest, NEW q \in Request, Delete(q)
  PROVE  Rest'
<1> USE ConstantsAssumption
<1> DEFINE run == context[q].run
<1>1. /\ pc[q] = "sleep" /\ pc' = [pc EXCEPT ![q] = "done"]
      /\ flights' = [flights EXCEPT ![run] = None] /\ lock' = None
      /\ UNCHANGED <<result, context, flight, polls, answer>>
  BY DEF Delete, At, Goto
<1>2. run \in Run /\ q \in OfRun(run)
  BY <1>1, RunOfRequest
<1>3. lock = q
  BY <1>1 DEF Rest, Sleeping
<1>4. \A r \in Run : OfRun(r)' = OfRun(r) /\ Patient(r)' = Patient(r)
  BY <1>1, SameRuns
<1>5. \A r \in Run : flights'[r] # None => r # run /\ flights'[r] = flights[r]
  BY <1>1, <1>2 DEF TypeOK
<1>6. \A r \in Run : q \in OfRun(r) => r = run
  BY DEF OfRun
<1> HIDE DEF run
<1>7. Holders'
  <2> SUFFICES ASSUME NEW r \in Run, flights'[r] # None
               PROVE  flights'[r] \in OfRun(r)' /\ pc'[flights'[r]] \in Building \cup {"failed"}
    BY DEF Holders
  <2>1. flights[r] \in OfRun(r) /\ pc[flights[r]] \in Building \cup {"failed"}
    BY <1>5 DEF Rest, Holders
  <2>2. flights[r] # q
    BY <1>5, <1>6, <2>1
  <2> QED BY <1>1, <1>4, <1>5, <2>1, <2>2 DEF OfRun, TypeOK
<1>8. Sleeping' /\ ServedResult'
  BY <1>1, <1>3 DEF Rest, Sleeping, ServedResult, TypeOK
<1>9. Waited'
  BY <1>1 DEF Rest, Waited, TypeOK
<1>10. Written'
  <2>1. \A h \in Request : result'[h] # None => pc'[h] \notin {"new", "acquire"}
    BY <1>1 DEF Rest, Written, TypeOK
  <2>2. \A r \in Run : flights'[r] # None => result'[flights'[r]] = None
    BY <1>1, <1>3, <1>5, <1>6 DEF Rest, Written
  <2> QED BY <2>1, <2>2 DEF Written
<1>11. BuilderHolds'
  <2> SUFFICES ASSUME NEW r \in Run, Patient(r), NEW p \in OfRun(r), pc'[p] \in Building
               PROVE  flights'[r] = p
    BY <1>4 DEF BuilderHolds
  <2>1. p # q /\ pc[p] \in Building
    BY <1>1 DEF OfRun, TypeOK, Building
  <2>2. flights[r] = p
    BY <2>1 DEF Rest, BuilderHolds
  <2>3. r # run
    <3>1. q \in OfRun(run) /\ pc[q] \in Building
      BY <1>1, <1>2 DEF Building
    <3>2. r = run => flights[r] = q
      BY <3>1 DEF Rest, BuilderHolds
    <3> QED BY <2>1, <2>2, <3>2
  <2> QED BY <1>1, <2>2, <2>3 DEF TypeOK
<1>12. Healed'
  <2> SUFFICES ASSUME NEW p \in Request, pc'[p] = "done", flight'[p] # None
               PROVE  flights'[context'[p].run] # flight'[p]
    BY DEF Healed
  <2>1. CASE p = q
    BY <1>1, <1>2, <2>1 DEF run, TypeOK
  <2>2. CASE p # q
    <3>1. pc[p] = "done" /\ context[p].run \in Run
      BY <1>1, <2>2, RunOfRequest DEF TypeOK
    <3> QED BY <1>1, <1>5, <3>1 DEF Rest, Healed
  <2> QED BY <2>1, <2>2
<1> QED BY <1>7, <1>8, <1>9, <1>10, <1>11, <1>12 DEF Rest

LEMMA ReleaseNothingKeeps ==
  ASSUME TypeOK, Loaded, Rest, NEW q \in Request, ReleaseNothing(q)
  PROVE  Rest'
<1> DEFINE run == context[q].run
<1>1. /\ pc[q] = "release" /\ pc' = [pc EXCEPT ![q] = "done"]
      /\ flights[run] = None
      /\ UNCHANGED <<flights, result, lock, context, flight, polls, answer>>
  BY DEF ReleaseNothing, At, Goto, shared
<1>2. \A r \in Run : OfRun(r)' = OfRun(r) /\ Patient(r)' = Patient(r)
  BY <1>1, SameRuns
<1>3. Holders'
  BY <1>1, <1>2 DEF Rest, Holders, TypeOK, OfRun
<1>4. Sleeping' /\ ServedResult'
  BY <1>1 DEF Rest, Sleeping, ServedResult, TypeOK
<1>5. Waited'
  BY <1>1 DEF Rest, Waited, TypeOK
<1>6. Written'
  BY <1>1, <1>2 DEF Rest, Written, TypeOK
<1>7. BuilderHolds'
  BY <1>1, <1>2 DEF Rest, BuilderHolds, OfRun, Building, TypeOK
<1>8. Healed'
  BY <1>1 DEF Rest, Healed, TypeOK
<1> QED BY <1>3, <1>4, <1>5, <1>6, <1>7, <1>8 DEF Rest

\* The inductive invariant.
LEMMA InvStep == IInv /\ [Next]_vars => IInv'
<1> SUFFICES ASSUME IInv, [Next]_vars PROVE IInv'
  OBVIOUS
<1>1. TypeOK /\ Loaded /\ Rest
  BY DEF IInv, Rest
<1>2. TypeOK' /\ Loaded'
  BY <1>1, TypeStep
<1>3. ASSUME UNCHANGED vars \/ WriteIndex PROVE Rest'
  <2>1. UNCHANGED <<flights, result, lock, pc, context, flight, polls, answer>>
    BY <1>3 DEF vars, shared, locals, WriteIndex
  <2>2. \A r : OfRun(r)' = OfRun(r) /\ Patient(r)' = Patient(r)
    BY <2>1, SameRuns
  <2>3. Holders' /\ Sleeping' /\ Waited' /\ Written'
    BY <1>1, <2>1, <2>2 DEF Rest, Holders, Sleeping, Waited, Written
  <2>4. ServedResult' /\ BuilderHolds' /\ Healed'
    BY <1>1, <2>1, <2>2 DEF Rest, ServedResult, BuilderHolds, Healed
  <2> QED BY <2>3, <2>4 DEF Rest
<1>4. ASSUME NEW q \in Request, Load(q) \/ Step(q) \/ Fail(q) PROVE Rest'
  BY <1>1, <1>4, LoadKeeps, LeadKeeps, JoinKeeps, PollServedKeeps, PollInVainKeeps,
     BuildingKeeps, FailKeeps, ReleaseKeeps, DeleteKeeps, ReleaseNothingKeeps DEF Step
<1>5. Rest'
  BY <1>3, <1>4 DEF Next
<1> QED BY <1>2, <1>5 DEF IInv, Rest

THEOREM Invariance == Spec => []IInv
<1> USE ConstantsAssumption
<1>1. Init => IInv
  <2> SUFFICES ASSUME Init PROVE IInv
    OBVIOUS
  <2>1. TypeOK /\ Loaded
    BY TypeInit
  <2>2. Holders /\ Sleeping /\ Waited /\ Written
    BY DEF Init, Holders, Sleeping, Waited, Written
  <2>3. ServedResult /\ BuilderHolds /\ Healed
    BY DEF Init, ServedResult, BuilderHolds, Healed, OfRun, Building
  <2> QED BY <2>1, <2>2, <2>3 DEF IInv
<1> QED BY <1>1, InvStep, PTL DEF Spec

-----------------------------------------------------------------------------
(* What the single flight promises                                         *)

\* An entry is never left by a request that has answered.
THEOREM EntriesAttended == Spec => []EntryAttended
<1>1. IInv => EntryAttended
  BY DEF IInv, Holders, EntryAttended
<1> QED BY <1>1, Invariance, PTL

\* One request builds the payload of a run as long as no waiter has given up.
THEOREM BuildsOnce == Spec => []OneBuilder
<1>1. IInv => OneBuilder
  BY DEF IInv, BuilderHolds, OneBuilder
<1> QED BY <1>1, Invariance, PTL

\* The waiters of one entry are served one payload.
THEOREM ServesOneAnswer == Spec => []SameAnswer
<1>1. IInv => SameAnswer
  BY DEF IInv, ServedResult, SameAnswer
<1> QED BY <1>1, Invariance, PTL

\* An entry that a waiter has waited for in vain does not outlive that waiter.
THEOREM Heals == Spec => []Healed
<1>1. IInv => Healed
  BY DEF IInv
<1> QED BY <1>1, Invariance, PTL

-----------------------------------------------------------------------------
(* What is answered                                                        *)

\* Of a request with context c: a payload of its run, built from files that
\* were there before the answer.
Own(payload, c) == payload.run = c.run /\ payload.version <= index

\* A cache entry is about the run of its key, and is not newer than the key.
Honest(entry) == /\ entry.payload.run = entry.run
                 /\ entry.payload.version <= entry.mtime
                 /\ entry.mtime <= index

\* A request is never answered with the payload of another run, whether it
\* built the payload, found it in the cache or got it from the entry it waited
\* for, and never with one newer than the files.
AnswersOwnRun == \A q \in Request : answer[q] # None => Own(answer[q], context[q])

\* A request that has not started has no answer and no entry.
Unstarted == \A q \in Request : pc[q] = "new" => answer[q] = None /\ flight[q] = None

\* The context of a request is as old as its cache key, or older.
Aged == \A q \in Request :
  /\ mtime[q] <= index
  /\ context[q] # None => context[q].version <= index
  /\ pc[q] \in {"lookup", "build"} => context[q].version <= mtime[q]

\* Waiters of an entry, and who writes its result, are of its maker's run.
OneRun ==
  /\ \A q \in Request : flight[q] # None => context[flight[q]].run = context[q].run
  /\ \A h \in Request : result[h] # None => Own(result[h], context[h])

Cached == \A n \in DOMAIN cache : Honest(cache[n])

Owned == AnswersOwnRun /\ Unstarted /\ Aged /\ OneRun /\ Cached

\* What the cache holds after an insertion was there or is the new entry.
LEMMA InsertedElements ==
  ASSUME NEW c \in Seq(CacheEntry), Len(c) <= MaxCached, NEW entry \in CacheEntry,
         NEW n \in DOMAIN Inserted(Evicted(c), entry)
  PROVE  \/ Inserted(Evicted(c), entry)[n] = entry
         \/ \E m \in DOMAIN c : Inserted(Evicted(c), entry)[n] = c[m]
<1> USE ConstantsAssumption
<1> DEFINE kept == Evicted(c)
           same == KeyIn(kept, entry.run, entry.mtime)
<1>1. kept \in Seq(CacheEntry) /\ Len(kept) \in Nat
  BY EvictedType
<1>2. \A m \in DOMAIN kept : \E l \in DOMAIN c : kept[m] = c[l]
  <2>1. CASE Len(c) >= MaxCached
    <3>1. kept = Tail(c) /\ c # <<>>
      BY <2>1 DEF Evicted
    <3> QED BY <3>1
  <2>2. CASE ~(Len(c) >= MaxCached)
    BY <2>2 DEF Evicted
  <2> QED BY <2>1, <2>2
<1>3. Inserted(kept, entry) = IF same = {} THEN Append(kept, entry)
                              ELSE [m \in DOMAIN kept |-> IF m \in same THEN entry ELSE kept[m]]
  BY DEF Inserted
<1> HIDE DEF kept, same
<1>4. CASE same = {}
  <2>1. Inserted(kept, entry) = Append(kept, entry)
    BY <1>3, <1>4
  <2>2. n \in 1 .. Len(kept) + 1
    BY <1>1, <2>1 DEF kept
  <2>3. CASE n = Len(kept) + 1
    BY <1>1, <2>1, <2>3 DEF kept
  <2>4. CASE n # Len(kept) + 1
    <3>1. n \in DOMAIN kept /\ Append(kept, entry)[n] = kept[n]
      BY <1>1, <2>2, <2>4
    <3> QED BY <1>2, <2>1, <3>1 DEF kept
  <2> QED BY <2>3, <2>4
<1>5. CASE same # {}
  <2>1. n \in DOMAIN kept
    BY <1>3, <1>5 DEF kept
  <2>2. Inserted(kept, entry)[n] = entry \/ Inserted(kept, entry)[n] = kept[n]
    BY <1>3, <1>5, <2>1
  <2> QED BY <1>2, <2>1, <2>2 DEF kept
<1> QED BY <1>4, <1>5

LEMMA EntryTyped ==
  ASSUME TypeOK, NEW n \in DOMAIN cache
  PROVE  cache[n] \in CacheEntry
BY DEF TypeOK

\* What a rewriting of the files leaves as it was stays owned.
LEMMA OwnedQuiet ==
  ASSUME TypeOK, Owned, index' \in Nat, index' >= index,
         UNCHANGED <<result, cache, context, mtime, flight, answer>>,
         \A q \in Request : /\ pc'[q] = "new" => pc[q] = "new"
                            /\ pc'[q] \in {"lookup", "build"} =>
                                 pc[q] \in {"lookup", "build"}
  PROVE  Owned'
<1>1. \A q \in Request : /\ answer[q] # None => answer[q].version \in Nat
                         /\ context[q] # None => context[q].version \in Nat
                         /\ result[q] # None => result[q].version \in Nat
                         /\ mtime[q] \in Nat
  BY DEF TypeOK, Payload
<1>2. index \in Nat /\ \A n \in DOMAIN cache : cache[n].mtime \in Nat
  BY EntryTyped DEF TypeOK, CacheEntry
<1>3. AnswersOwnRun' /\ Unstarted' /\ OneRun'
  BY <1>1, <1>2 DEF Owned, AnswersOwnRun, Unstarted, OneRun, Own
<1>4. Aged'
  BY <1>1, <1>2 DEF Owned, Aged
<1>5. Cached'
  BY <1>2 DEF Owned, Cached, Honest
<1> QED BY <1>3, <1>4, <1>5 DEF Owned

LEMMA OwnedLoad ==
  ASSUME IInv, Owned, NEW q \in Request, Load(q)
  PROVE  Owned'
<1> USE ConstantsAssumption
<1> PICK r \in Run : context' = [context EXCEPT ![q] = [run |-> r, version |-> index]]
  BY DEF Load
<1>1. /\ pc[q] = "new" /\ pc' = [pc EXCEPT ![q] = "acquire"]
      /\ UNCHANGED <<index, flights, result, cache, mtime, flight, answer>>
  BY DEF Load, At, Goto, shared
<1>2. TypeOK /\ TypeOK' /\ Unstarted
  BY TypeStep DEF IInv, Owned, Next
<1>3. answer[q] = None /\ flight[q] = None /\ result[q] = None
  BY <1>1, <1>2 DEF Unstarted, IInv, Written
<1>4. \A p \in Request : flight[p] # q
  BY <1>1 DEF IInv, Waited
<1>5. \A p \in Request \ {q} : context'[p] = context[p] /\ pc'[p] = pc[p]
  BY <1>1, <1>2 DEF TypeOK
<1>6. pc'[q] = "acquire" /\ context'[q] = [run |-> r, version |-> index]
  BY <1>1, <1>2 DEF TypeOK
<1>7. index \in Nat /\ mtime[q] \in Nat
  BY <1>2 DEF TypeOK
<1>8. AnswersOwnRun'
  BY <1>1, <1>3, <1>5 DEF Owned, AnswersOwnRun, Own
<1>9. Unstarted'
  BY <1>1, <1>5, <1>6 DEF Owned, Unstarted
<1>10. OneRun'
  <2>1. \A p \in Request : flight'[p] # None => context'[flight'[p]].run = context'[p].run
    <3> SUFFICES ASSUME NEW p \in Request, flight[p] # None
                 PROVE  context'[flight[p]].run = context'[p].run
      BY <1>1
    <3>1. p # q /\ flight[p] # q /\ flight[p] \in Request
      BY <1>2, <1>3, <1>4 DEF TypeOK
    <3> QED BY <1>5, <3>1 DEF Owned, OneRun
  <2>2. \A h \in Request : result'[h] # None =>
          result'[h].run = context'[h].run /\ result'[h].version <= index'
    BY <1>1, <1>3, <1>5 DEF Owned, OneRun, Own
  <2> QED BY <2>1, <2>2 DEF OneRun, Own
<1>11. Aged'
  BY <1>1, <1>5, <1>6, <1>7 DEF Owned, Aged
<1>12. Cached'
  BY <1>1 DEF Owned, Cached, Honest
<1> QED BY <1>8, <1>9, <1>10, <1>11, <1>12 DEF Owned

LEMMA OwnedJoin ==
  ASSUME IInv, Owned, NEW q \in Request, Join(q)
  PROVE  Owned'
<1> USE NoneAssumption
<1> DEFINE r == context[q].run
<1>1. /\ pc[q] = "acquire" /\ pc' = [pc EXCEPT ![q] = "poll"]
      /\ flights[r] # None /\ flight' = [flight EXCEPT ![q] = flights[r]]
      /\ UNCHANGED <<index, result, cache, context, mtime, answer>>
  BY DEF Join, At, Goto, shared
<1>2. r \in Run
  BY <1>1, RunOfRequest DEF IInv
<1>3. context[flights[r]].run = r
  BY <1>1, <1>2 DEF IInv, Holders, OfRun
<1>4. \A p \in Request : flight'[p] = IF p = q THEN flights[r] ELSE flight[p]
  BY <1>1 DEF IInv, TypeOK
<1>5. \A p \in Request : pc'[p] = IF p = q THEN "poll" ELSE pc[p]
  BY <1>1 DEF IInv, TypeOK
<1>6. AnswersOwnRun' /\ Cached'
  BY <1>1 DEF Owned, AnswersOwnRun, Own, Cached, Honest
<1>7. Unstarted' /\ Aged'
  BY <1>1, <1>4, <1>5 DEF Owned, Unstarted, Aged
<1>8. OneRun'
  BY <1>1, <1>3, <1>4 DEF Owned, OneRun, Own
<1> QED BY <1>6, <1>7, <1>8 DEF Owned

LEMMA OwnedPollServed ==
  ASSUME IInv, Owned, NEW q \in Request, PollServed(q)
  PROVE  Owned'
<1> USE NoneAssumption
<1> DEFINE h == flight[q]
<1>1. /\ pc[q] = "poll" /\ pc' = [pc EXCEPT ![q] = "served"]
      /\ result[h] # None /\ answer' = [answer EXCEPT ![q] = result[h]]
      /\ UNCHANGED <<index, result, cache, context, mtime, flight>>
  BY DEF PollServed, At, Goto, shared
<1>2. h \in Request /\ h # None
  BY <1>1 DEF IInv, TypeOK, Loaded
<1>3. Own(result[h], context[q])
  BY <1>1, <1>2 DEF Owned, OneRun, Own
<1>4. \A p \in Request : /\ answer'[p] = IF p = q THEN result[h] ELSE answer[p]
                         /\ pc'[p] = IF p = q THEN "served" ELSE pc[p]
  BY <1>1 DEF IInv, TypeOK
<1> HIDE DEF h
<1>5. AnswersOwnRun'
  BY <1>1, <1>3, <1>4 DEF Owned, AnswersOwnRun, Own
<1>6. Unstarted' /\ Aged'
  BY <1>1, <1>4 DEF Owned, Unstarted, Aged
<1>7. OneRun' /\ Cached'
  BY <1>1 DEF Owned, OneRun, Own, Cached, Honest
<1> QED BY <1>5, <1>6, <1>7 DEF Owned

LEMMA OwnedStat ==
  ASSUME IInv, Owned, NEW q \in Request, Stat(q)
  PROVE  Owned'
<1>1. /\ pc[q] = "stat" /\ pc' = [pc EXCEPT ![q] = "lookup"]
      /\ mtime' = [mtime EXCEPT ![q] = index]
      /\ UNCHANGED <<index, result, cache, context, flight, answer>>
  BY DEF Stat, At, Goto, shared
<1>2. \A p \in Request : /\ mtime'[p] = IF p = q THEN index ELSE mtime[p]
                         /\ pc'[p] = IF p = q THEN "lookup" ELSE pc[p]
  BY <1>1 DEF IInv, TypeOK
<1>3. context[q] # None /\ index \in Nat
  BY <1>1 DEF IInv, Loaded, TypeOK
<1>4. Aged'
  BY <1>1, <1>2, <1>3 DEF Owned, Aged
<1>5. AnswersOwnRun' /\ Unstarted'
  BY <1>1, <1>2 DEF Owned, AnswersOwnRun, Own, Unstarted
<1>6. OneRun' /\ Cached'
  BY <1>1 DEF Owned, OneRun, Own, Cached, Honest
<1> QED BY <1>4, <1>5, <1>6 DEF Owned

\* The cache has the payload under the request's run.
LEMMA OwnedLookupHit ==
  ASSUME IInv, Owned, NEW q \in Request, LookupHit(q)
  PROVE  Owned'
<1> PICK n \in KeyIn(cache, context[q].run, mtime[q]) :
       answer' = [answer EXCEPT ![q] = cache[n].payload]
  BY DEF LookupHit
<1>1. /\ pc[q] = "lookup" /\ pc' = [pc EXCEPT ![q] = "release"]
      /\ UNCHANGED <<index, result, cache, context, mtime, flight>>
  BY DEF LookupHit, At, Goto, shared
<1>2. n \in DOMAIN cache /\ cache[n].run = context[q].run
  BY DEF KeyIn
<1>3. Own(cache[n].payload, context[q])
  <2>1. Honest(cache[n])
    BY <1>2 DEF Owned, Cached
  <2>2. /\ cache[n].payload.version \in Nat /\ cache[n].mtime \in Nat
        /\ index \in Nat
    BY <1>2, EntryTyped DEF IInv, TypeOK, CacheEntry, Payload
  <2> QED BY <1>2, <2>1, <2>2 DEF Honest, Own
<1>4. \A p \in Request : /\ answer'[p] = IF p = q THEN cache[n].payload ELSE answer[p]
                         /\ pc'[p] = IF p = q THEN "release" ELSE pc[p]
  BY <1>1 DEF IInv, TypeOK
<1>5. AnswersOwnRun'
  BY <1>1, <1>3, <1>4 DEF Owned, AnswersOwnRun, Own
<1>6. Unstarted' /\ Aged'
  BY <1>1, <1>4 DEF Owned, Unstarted, Aged
<1>7. OneRun' /\ Cached'
  BY <1>1 DEF Owned, OneRun, Own, Cached, Honest
<1> QED BY <1>5, <1>6, <1>7 DEF Owned

LEMMA OwnedBuild ==
  ASSUME IInv, Owned, NEW q \in Request, Build(q)
  PROVE  Owned'
<1> DEFINE entry == [run |-> context[q].run, mtime |-> mtime[q], payload |-> context[q]]
<1>1. /\ pc[q] = "build" /\ pc' = [pc EXCEPT ![q] = "release"]
      /\ answer' = [answer EXCEPT ![q] = context[q]]
      /\ cache' = Inserted(Evicted(cache), entry)
      /\ UNCHANGED <<index, result, context, mtime, flight>>
  BY DEF Build, At, Goto, shared
<1>2. context[q] \in Payload /\ context[q] # None /\ entry \in CacheEntry
  <2>1. context[q] \in Payload /\ context[q].run \in Run /\ mtime[q] \in Nat
    BY <1>1, RunOfRequest DEF IInv, TypeOK
  <2> QED BY <2>1, NoneAssumption DEF CacheEntry
<1>3. \A p \in Request : /\ answer'[p] = IF p = q THEN context[q] ELSE answer[p]
                         /\ pc'[p] = IF p = q THEN "release" ELSE pc[p]
  BY <1>1 DEF IInv, TypeOK
<1>4. AnswersOwnRun'
  BY <1>1, <1>2, <1>3 DEF Owned, AnswersOwnRun, Own, Aged
<1>5. Unstarted' /\ Aged'
  BY <1>1, <1>3 DEF Owned, Unstarted, Aged
<1>6. OneRun'
  BY <1>1 DEF Owned, OneRun, Own
<1>7. Cached'
  <2>1. Honest(entry)
    BY <1>1, <1>2 DEF Owned, Aged, Honest
  <2>2. cache \in Seq(CacheEntry) /\ Len(cache) <= MaxCached
    BY DEF IInv, TypeOK
  <2> HIDE DEF entry
  <2>3. ASSUME NEW n \in DOMAIN cache' PROVE Honest(cache'[n])
    <3>1. cache'[n] = entry \/ \E m \in DOMAIN cache : cache'[n] = cache[m]
      BY <1>1, <1>2, <2>2, InsertedElements
    <3> QED BY <2>1, <3>1 DEF Owned, Cached
  <2> QED BY <1>1, <2>3 DEF Cached, Honest
<1> QED BY <1>4, <1>5, <1>6, <1>7 DEF Owned

\* Whoever releases the entry of a run writes a payload of that run.
LEMMA OwnedRelease ==
  ASSUME IInv, Owned, NEW q \in Request, Release(q)
  PROVE  Owned'
<1> USE NoneAssumption
<1> DEFINE r == context[q].run
           h == flights[r]
<1>1. /\ pc[q] = "release" /\ pc' = [pc EXCEPT ![q] = "sleep"]
      /\ h # None /\ result' = [result EXCEPT ![h] = answer[q]]
      /\ UNCHANGED <<index, cache, context, mtime, flight, answer>>
  BY DEF Release, At, Goto
<1>2. r \in Run
  BY <1>1, RunOfRequest DEF IInv
<1>3. h \in Request /\ context[h].run = r
  BY <1>1, <1>2 DEF IInv, Holders, OfRun
<1>4. answer[q] # None => Own(answer[q], context[h])
  BY <1>3 DEF Owned, AnswersOwnRun, Own
<1> HIDE DEF r, h
<1>5. \A p \in Request : /\ result'[p] = IF p = h THEN answer[q] ELSE result[p]
                         /\ pc'[p] = IF p = q THEN "sleep" ELSE pc[p]
  BY <1>1 DEF IInv, TypeOK
<1>6. OneRun'
  BY <1>1, <1>4, <1>5 DEF Owned, OneRun, Own
<1>7. Unstarted' /\ Aged'
  BY <1>1, <1>5 DEF Owned, Unstarted, Aged
<1>8. AnswersOwnRun' /\ Cached'
  BY <1>1 DEF Owned, AnswersOwnRun, Own, Cached, Honest
<1> QED BY <1>6, <1>7, <1>8 DEF Owned

LEMMA OwnedStep ==
  ASSUME IInv, Owned, [Next]_vars
  PROVE  Owned'
<1>1. index \in Nat /\ TypeOK
  BY DEF IInv, TypeOK
<1>2. CASE WriteIndex \/ UNCHANGED vars
  BY <1>1, <1>2, OwnedQuiet DEF WriteIndex, vars, shared, locals
<1>3. ASSUME NEW q \in Request,
             Lead(q) \/ PollInVain(q) \/ LookupMiss(q) \/ Fail(q) \/ Delete(q) \/ ReleaseNothing(q)
      PROVE  Owned'
  <2>1. UNCHANGED <<index, result, cache, context, mtime, flight, answer>>
    BY <1>3 DEF Lead, PollInVain, LookupMiss, Fail, Delete, ReleaseNothing, shared
  <2>2. PICK place \in {"stat", "poll", "build", "failed", "done"} :
          pc' = [pc EXCEPT ![q] = place] /\ (place = "build" => pc[q] = "lookup")
    BY <1>3 DEF Lead, PollInVain, LookupMiss, Fail, Delete, ReleaseNothing, At, Goto
  <2>3. \A p \in Request : /\ pc'[p] = "new" => pc[p] = "new"
                           /\ pc'[p] \in {"lookup", "build"} => pc[p] \in {"lookup", "build"}
    BY <2>2 DEF IInv, TypeOK
  <2> QED BY <1>1, <2>1, <2>3, OwnedQuiet
<1>4. ASSUME NEW q \in Request, Load(q) \/ Step(q) \/ Fail(q) PROVE Owned'
  BY <1>3, <1>4, OwnedLoad, OwnedJoin, OwnedPollServed, OwnedStat, OwnedLookupHit,
     OwnedBuild, OwnedRelease DEF Step
<1> QED BY <1>2, <1>4 DEF Next

\* A request is answered with a payload of its own run, built from files that
\* were there before it, whichever way the payload came.
THEOREM AnswersTheRun == Spec => []AnswersOwnRun
<1>1. Init => Owned
  BY DEF Init, Owned, AnswersOwnRun, Unstarted, Aged, OneRun, Cached
<1>2. Owned => AnswersOwnRun
  BY DEF Owned
<1> QED BY <1>1, <1>2, OwnedStep, Invariance, PTL DEF Spec

-----------------------------------------------------------------------------
(* Why every request ends: what of Answered needs no fairness              *)

\* A bound of the steps that the thread of a request has ahead of it.
Ahead(q) == CASE pc[q] = "new" -> MaxPolls + 7
              [] pc[q] = "acquire" -> MaxPolls + 6
              [] pc[q] = "poll" -> (MaxPolls - polls[q]) + 5
              [] pc[q] = "stat" -> 5
              [] pc[q] = "lookup" -> 4
              [] pc[q] = "build" -> 3
              [] pc[q] = "release" -> 2
              [] pc[q] = "sleep" -> 1
              [] pc[q] \in Ended -> 0

requests == <<shared, cache, locals, faults>>

\* Every step of the server takes one request nearer to its end and no other
\* one farther from it: no request polls, builds or releases for ever.
StepsRunOut ==
  [][\E q \in Request : /\ Ahead(q)' < Ahead(q)
                        /\ \A p \in Request \ {q} : Ahead(p)' = Ahead(p)]_requests

\* The bound is one, and nobody keeps the lock while it waits for another.
StepsBounded == /\ \A q \in Request : Ahead(q) \in 0 .. MaxPolls + 7
                /\ lock # None => pc[lock] = "sleep"

LEMMA AheadTyped ==
  ASSUME IInv, NEW q \in Request
  PROVE  /\ Ahead(q) \in 0 .. MaxPolls + 7
         /\ pc[q] = "poll" => polls[q] \in Nat /\ polls[q] < MaxPolls
<1>1. pc[q] \in {"new", "acquire", "poll"} \cup Building \cup Ended
  BY DEF IInv, TypeOK
<1>2. MaxPolls \in Nat /\ polls[q] \in 0..MaxPolls
  BY ConstantsAssumption DEF IInv, TypeOK
<1>3. pc[q] = "poll" => polls[q] \in Nat /\ polls[q] < MaxPolls
  BY <1>2 DEF IInv, Loaded
<1>4. Ahead(q) \in 0 .. MaxPolls + 7
  <2>1. CASE pc[q] = "poll"
    <3>1. Ahead(q) = (MaxPolls - polls[q]) + 5
      BY <2>1 DEF Ahead, Ended
    <3> QED BY <1>2, <1>3, <2>1, <3>1
  <2>2. CASE pc[q] \in {"new", "acquire"}
    <3>1. Ahead(q) \in {MaxPolls + 6, MaxPolls + 7}
      BY <2>2 DEF Ahead, Ended
    <3> QED BY <1>2, <3>1
  <2>3. CASE pc[q] \in Building \cup Ended
    <3>1. Ahead(q) \in 0 .. 5
      BY <2>3 DEF Ahead, Building, Ended
    <3> QED BY <1>2, <3>1
  <2> QED BY <1>1, <2>1, <2>2, <2>3
<1> QED BY <1>3, <1>4

LEMMA AheadStep ==
  ASSUME IInv, NEW q \in Request, Load(q) \/ Step(q) \/ Fail(q)
  PROVE  /\ Ahead(q)' < Ahead(q)
         /\ \A p \in Request \ {q} : Ahead(p)' = Ahead(p)
<1> USE DEF At, Goto
<1>1. /\ pc \in [Request -> {"new", "acquire", "poll"} \cup Building \cup Ended]
      /\ polls \in [Request -> 0..MaxPolls] /\ MaxPolls \in Nat \ {0}
  BY ConstantsAssumption DEF IInv, TypeOK
<1>2. pc[q] = "poll" => polls[q] \in Nat /\ polls[q] < MaxPolls
  BY AheadTyped
<1>3. CASE PollInVain(q)
  <2>1. /\ pc[q] = "poll" /\ polls' = [polls EXCEPT ![q] = @ + 1]
        /\ pc' = [pc EXCEPT ![q] = IF polls[q] + 1 = MaxPolls THEN "stat" ELSE "poll"]
    BY <1>3 DEF PollInVain
  <2>2. \A p \in Request \ {q} : pc'[p] = pc[p] /\ polls'[p] = polls[p]
    BY <1>1, <2>1
  <2>3. polls'[q] = polls[q] + 1 /\ pc'[q] = IF polls[q] + 1 = MaxPolls THEN "stat" ELSE "poll"
    BY <1>1, <2>1
  <2>4. Ahead(q) = (MaxPolls - polls[q]) + 5
    BY <2>1 DEF Ahead, Ended
  <2>5. Ahead(q)' = IF polls[q] + 1 = MaxPolls THEN 5 ELSE (MaxPolls - (polls[q] + 1)) + 5
    BY <2>3 DEF Ahead, Ended
  <2>6. Ahead(q)' < Ahead(q)
    BY <1>1, <1>2, <2>1, <2>4, <2>5
  <2> QED BY <2>2, <2>6 DEF Ahead
<1>4. CASE ~PollInVain(q)
  <2>1. UNCHANGED polls
    BY <1>4 DEF Load, Step, Fail, Lead, Join, PollServed, Stat, LookupHit,
       LookupMiss, Build, Release, Delete, ReleaseNothing
  <2>2. \E from, to \in {"new", "acquire", "poll"} \cup Building \cup Ended :
          /\ pc[q] = from /\ pc' = [pc EXCEPT ![q] = to]
          /\ \/ from = "new" /\ to = "acquire"
             \/ from = "acquire" /\ to \in {"poll", "stat"}
             \/ from = "poll" /\ to = "served"
             \/ from = "stat" /\ to = "lookup"
             \/ from = "lookup" /\ to \in {"build", "release"}
             \/ from = "build" /\ to \in {"release", "failed"}
             \/ from = "release" /\ to \in {"sleep", "done"}
             \/ from = "sleep" /\ to = "done"
    BY <1>4 DEF Load, Step, Fail, Lead, Join, PollServed, Stat, LookupHit,
       LookupMiss, Build, Release, Delete, ReleaseNothing, Building, Ended
  <2>3. \A p \in Request \ {q} : pc'[p] = pc[p] /\ polls'[p] = polls[p]
    BY <1>1, <2>1, <2>2
  <2>4. polls[q] \in 0..MaxPolls /\ polls'[q] = polls[q]
    BY <1>1, <2>1
  <2>5. Ahead(q)' < Ahead(q)
    BY <1>1, <1>2, <2>2, <2>4 DEF Ahead, Building, Ended
  <2> QED BY <2>3, <2>5 DEF Ahead
<1> QED BY <1>3, <1>4

\* A request makes at most MaxPolls + 7 steps, whatever the others do, and the
\* lock is only ever kept by one that is about to return it: with the threads
\* scheduled, every request ends (server_singleflight.py).
THEOREM RequestsRunOut == Spec => []StepsBounded /\ StepsRunOut
<1> DEFINE A == \E q \in Request : /\ Ahead(q)' < Ahead(q)
                                   /\ \A p \in Request \ {q} : Ahead(p)' = Ahead(p)
<1>1. IInv => StepsBounded
  <2> SUFFICES ASSUME IInv PROVE StepsBounded
    OBVIOUS
  <2>1. \A q \in Request : Ahead(q) \in 0 .. MaxPolls + 7
    BY AheadTyped
  <2>2. lock # None => pc[lock] = "sleep"
    BY DEF IInv, TypeOK, Sleeping
  <2> QED BY <2>1, <2>2 DEF StepsBounded
<1>2. IInv /\ [Next]_vars => [A]_requests
  <2> SUFFICES ASSUME IInv, [Next]_vars PROVE [A]_requests
    OBVIOUS
  <2>1. CASE WriteIndex \/ UNCHANGED vars
    BY <2>1 DEF WriteIndex, vars, requests
  <2>2. ASSUME NEW q \in Request, Load(q) \/ Step(q) \/ Fail(q) PROVE A
    BY <2>2, AheadStep
  <2> QED BY <2>1, <2>2 DEF Next
<1> QED BY <1>1, <1>2, Invariance, PTL DEF Spec, StepsRunOut
=============================================================================
