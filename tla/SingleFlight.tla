---------------------------- MODULE SingleFlight ----------------------------
(***************************************************************************)
(* The server's GET /api/run (src/src/k8s_diag_agent/ui/                   *)
(* server_run_detail_reads.py) over the single flight of builds and the    *)
(* payload cache (server_singleflight.py).                                 *)
(*                                                                         *)
(* Every request has a thread of its own.  The first request for a run     *)
(* leads: it enters the run in _single_flight_events, builds the payload   *)
(* and releases the entry.  The others poll the result of the entry they   *)
(* found, ten times in 100 ms; after that they build like a leader,        *)
(* without an entry of their own, and release whatever entry the run has   *)
(* by then.  A request that fails in between releases nothing.             *)
(*                                                                         *)
(* A payload stands for the files it was built from: the run and the       *)
(* version of ui-index.json (written by the health loop) that its context  *)
(* was loaded from.  Timings, logs and the rendering are left out.         *)
(***************************************************************************)
EXTENDS Naturals, Sequences

CONSTANTS
  MaxRequests, \* bound: requests, numbered as the server accepts them
  Run,         \* runs that requests select
  None,        \* Python's None
  MaxPolls,    \* polls of a waiter (10 in the code)
  MaxCached,   \* entries of the payload cache (10 in the code)
  MaxWrites,   \* bound: rewritings of ui-index.json
  MaxFaults    \* bound: requests that end in an exception

Request == 1..MaxRequests

ASSUME ConstantsAssumption ==
  /\ None \notin Request
  /\ MaxRequests \in Nat
  /\ MaxPolls \in Nat \ {0} /\ MaxCached \in Nat \ {0}
  /\ MaxWrites \in Nat /\ MaxFaults \in Nat

Payload == [run : Run, version : Nat]

ASSUME NoneAssumption == None \notin Payload

VARIABLES
  index,     \* version (mtime) of ui-index.json
  flights,   \* _single_flight_events: the request that entered a run
  result,    \* result[h]: result_holder[0] of the entry that h made
  lock,      \* who keeps _single_flight_lock while it sleeps
  cache,     \* _run_payload_cache, oldest entry first
  pc,        \* where the thread of a request is
  context,   \* context[q]: what q would build, from the files it has loaded
  mtime,     \* mtime[q]: the version of ui-index.json in q's cache key
  flight,    \* flight[q]: the entry that q waits for, or has waited for
  polls,     \* polls[q]: polls without a result
  answer,    \* answer[q]: the payload that q sends
  faults     \* counter of MaxFaults

shared == <<flights, result, lock>>
locals == <<pc, context, mtime, flight, polls, answer>>
vars == <<index, shared, cache, locals, faults>>

Building == {"stat", "lookup", "build", "release", "sleep"}
Ended == {"done", "served", "failed"}

Init ==
  /\ index = 0
  /\ flights = [r \in Run |-> None]
  /\ result = [h \in Request |-> None]
  /\ lock = None
  /\ cache = <<>>
  /\ pc = [q \in Request |-> "new"]
  /\ context = [q \in Request |-> None]
  /\ mtime = [q \in Request |-> 0]
  /\ flight = [q \in Request |-> None]
  /\ polls = [q \in Request |-> 0]
  /\ answer = [q \in Request |-> None]
  /\ faults = 0

At(q, place) == pc[q] = place
Goto(q, place) == pc' = [pc EXCEPT ![q] = place]

-----------------------------------------------------------------------------
(* The environment                                                         *)

\* The health loop rewrites ui-index.json at the end of a run.
WriteIndex ==
  /\ index < MaxWrites
  /\ index' = index + 1
  /\ UNCHANGED <<shared, cache, locals, faults>>

\* _load_context: the files of the run as they are now.  (A request whose
\* files cannot be read is answered 500 at once and is left out.)
Load(q) ==
  /\ At(q, "new")
  /\ \A p \in Request : p < q => pc[p] # "new"
  /\ \E r \in Run : context' = [context EXCEPT ![q] = [run |-> r, version |-> index]]
  /\ Goto(q, "acquire")
  /\ UNCHANGED <<index, shared, cache, mtime, flight, polls, answer, faults>>

-----------------------------------------------------------------------------
(* _single_flight_acquire and _single_flight_wait                          *)

\* (Faulty variant: the look at the entry and its making are not one step.)
LeadUnchecked(q) ==
  /\ At(q, "acquire")
  /\ lock = None
  /\ flights' = [flights EXCEPT ![context[q].run] = q]
  /\ Goto(q, "stat")
  /\ UNCHANGED <<index, result, lock, cache, context, mtime, flight, polls, answer, faults>>

Lead(q) ==
  /\ At(q, "acquire")
  /\ lock = None
  /\ flights[context[q].run] = None
  /\ flights' = [flights EXCEPT ![context[q].run] = q]
  /\ Goto(q, "stat")
  /\ UNCHANGED <<index, result, lock, cache, context, mtime, flight, polls, answer, faults>>

Join(q) ==
  /\ At(q, "acquire")
  /\ lock = None
  /\ flights[context[q].run] # None
  /\ flight' = [flight EXCEPT ![q] = flights[context[q].run]]
  /\ Goto(q, "poll")
  /\ UNCHANGED <<index, shared, cache, context, mtime, polls, answer, faults>>

\* A poll that finds the result; the waiter sends it.
PollServed(q) ==
  /\ At(q, "poll")
  /\ result[flight[q]] # None
  /\ answer' = [answer EXCEPT ![q] = result[flight[q]]]
  /\ Goto(q, "served")
  /\ UNCHANGED <<index, shared, cache, context, mtime, flight, polls, faults>>

\* Faulty variant: the waiter polls for as long as there is no result.
PollForever(q) ==
  /\ At(q, "poll")
  /\ result[flight[q]] = None
  /\ UNCHANGED vars

\* A poll in vain; after the last one the waiter goes on to build.
PollInVain(q) ==
  /\ At(q, "poll")
  /\ result[flight[q]] = None
  /\ polls' = [polls EXCEPT ![q] = @ + 1]
  /\ Goto(q, IF polls[q] + 1 = MaxPolls THEN "stat" ELSE "poll")
  /\ UNCHANGED <<index, shared, cache, context, mtime, flight, answer, faults>>

-----------------------------------------------------------------------------
(* The build                                                               *)

\* The mtime of ui-index.json for the cache key: read after the context.
Stat(q) ==
  /\ At(q, "stat")
  /\ mtime' = [mtime EXCEPT ![q] = index]
  /\ Goto(q, "lookup")
  /\ UNCHANGED <<index, shared, cache, context, flight, polls, answer, faults>>

\* run_cache_key: where entries of c have the run r and the mtime m.
KeyIn(c, r, m) == {n \in DOMAIN c : c[n].run = r /\ c[n].mtime = m}

\* Faulty variant: an answer from the cache does not release the flight.
LookupHitKeeping(q) ==
  /\ At(q, "lookup")
  /\ \E n \in KeyIn(cache, context[q].run, mtime[q]) :
        answer' = [answer EXCEPT ![q] = cache[n].payload]
  /\ Goto(q, "done")
  /\ UNCHANGED <<index, shared, cache, context, mtime, flight, polls, faults>>

\* A payload cached under the key is sent, and handed to the waiters.
LookupHit(q) ==
  /\ At(q, "lookup")
  /\ \E n \in KeyIn(cache, context[q].run, mtime[q]) :
        answer' = [answer EXCEPT ![q] = cache[n].payload]
  /\ Goto(q, "release")
  /\ UNCHANGED <<index, shared, cache, context, mtime, flight, polls, faults>>

LookupMiss(q) ==
  /\ At(q, "lookup")
  /\ KeyIn(cache, context[q].run, mtime[q]) = {}
  /\ Goto(q, "build")
  /\ UNCHANGED <<index, shared, cache, context, mtime, flight, polls, answer, faults>>

\* (Faulty variant: the cache holds one entry more.)
EvictedLate(c) == IF Len(c) > MaxCached THEN Tail(c) ELSE c

\* A full cache drops its oldest entry, even for a key that it has.
Evicted(c) == IF Len(c) >= MaxCached THEN Tail(c) ELSE c

\* A dict's assignment: in place if the key is there, else as the newest.
Inserted(kept, entry) ==
  LET same == KeyIn(kept, entry.run, entry.mtime)
  IN  IF same = {} THEN Append(kept, entry)
      ELSE [n \in DOMAIN kept |-> IF n \in same THEN entry ELSE kept[n]]

\* build_run_payload, from the context loaded before the request waited; the
\* payload is cached under the mtime read since.
Build(q) ==
  /\ At(q, "build")
  /\ answer' = [answer EXCEPT ![q] = context[q]]
  /\ cache' = Inserted(Evicted(cache), [run |-> context[q].run, mtime |-> mtime[q],
                                            payload |-> context[q]])
  /\ Goto(q, "release")
  /\ UNCHANGED <<index, shared, context, mtime, flight, polls, faults>>

\* An exception while the payload is built: the thread ends without a release.
\* (So does one at the stat() of the index; it leaves the same entry behind.)
Fail(q) ==
  /\ At(q, "build")
  /\ faults < MaxFaults
  /\ faults' = faults + 1
  /\ Goto(q, "failed")
  /\ UNCHANGED <<index, shared, cache, context, mtime, flight, polls, answer>>

-----------------------------------------------------------------------------
(* _single_flight_release                                                  *)

\* Faulty variant: only the request that made an entry releases it.
ReleaseOwn(q) ==
  /\ At(q, "release")
  /\ lock = None
  /\ flights[context[q].run] # None
  /\ \/ /\ flights[context[q].run] = q
        /\ result' = [result EXCEPT ![q] = answer[q]]
        /\ lock' = q
        /\ Goto(q, "sleep")
     \/ /\ flights[context[q].run] # q
        /\ Goto(q, "done")
        /\ UNCHANGED <<result, lock>>
  /\ UNCHANGED <<index, flights, cache, context, mtime, flight, polls, answer, faults>>

\* Faulty variant: the lock is not kept while waiters get time to read.
ReleaseUnlocked(q) ==
  /\ At(q, "release")
  /\ flights[context[q].run] # None
  /\ result' = [result EXCEPT ![flights[context[q].run]] = answer[q]]
  /\ Goto(q, "sleep")
  /\ UNCHANGED <<index, flights, lock, cache, context, mtime, flight, polls, answer, faults>>

\* The result of the entry that the run has now, whoever made it; the lock
\* is kept over a sleep in which waiters read.
Release(q) ==
  /\ At(q, "release")
  /\ lock = None
  /\ flights[context[q].run] # None
  /\ result' = [result EXCEPT ![flights[context[q].run]] = answer[q]]
  /\ lock' = q
  /\ Goto(q, "sleep")
  /\ UNCHANGED <<index, flights, cache, context, mtime, flight, polls, answer, faults>>

\* ... then the entry is deleted.
Delete(q) ==
  /\ At(q, "sleep")
  /\ flights' = [flights EXCEPT ![context[q].run] = None]
  /\ lock' = None
  /\ Goto(q, "done")
  /\ UNCHANGED <<index, result, cache, context, mtime, flight, polls, answer, faults>>

\* Another request has released the entry of the run already.
ReleaseNothing(q) ==
  /\ At(q, "release")
  /\ lock = None
  /\ flights[context[q].run] = None
  /\ Goto(q, "done")
  /\ UNCHANGED <<index, shared, cache, context, mtime, flight, polls, answer, faults>>

-----------------------------------------------------------------------------
Step(q) == \/ Lead(q) \/ Join(q) \/ PollServed(q) \/ PollInVain(q)
           \/ Stat(q) \/ LookupHit(q) \/ LookupMiss(q) \/ Build(q)
           \/ Release(q) \/ Delete(q) \/ ReleaseNothing(q)

Next == WriteIndex \/ \E q \in Request : Load(q) \/ Step(q) \/ Fail(q)

Spec == Init /\ [][Next]_vars

\* The threads of requests are scheduled.
FairSpec == Spec /\ \A q \in Request : WF_vars(Step(q))

-----------------------------------------------------------------------------
(* Properties                                                              *)

CacheEntry == [run : Run, mtime : Nat, payload : Payload]

\* Shapes and bounds: the payload cache never holds more than it should.
TypeOK ==
  /\ index \in Nat
  /\ flights \in [Run -> Request \cup {None}]
  /\ result \in [Request -> Payload \cup {None}]
  /\ lock \in Request \cup {None}
  /\ cache \in Seq(CacheEntry) /\ Len(cache) <= MaxCached
  /\ pc \in [Request -> {"new", "acquire", "poll"} \cup Building \cup Ended]
  /\ context \in [Request -> Payload \cup {None}]
  /\ mtime \in [Request -> Nat]
  /\ flight \in [Request -> Request \cup {None}]
  /\ polls \in [Request -> 0..MaxPolls]
  /\ answer \in [Request -> Payload \cup {None}]
  /\ faults \in Nat

\* An entry never outlives the work of the request that made it, unless that
\* request failed: by then it, or one that had stopped waiting, has released it.
EntryAttended == \A r \in Run : flights[r] # None =>
  pc[flights[r]] \in Building \cup {"failed"}

OfRun(r) == {q \in Request : context[q] # None /\ context[q].run = r}

\* No waiter of the run has given up.
Patient(r) == \A q \in OfRun(r) : polls[q] < MaxPolls

\* "One builds while others wait": so it is as long as no waiter of the run has
\* given up.  (One that has may build beside the leader, and its release lets
\* the next request lead while the leader still builds.)
OneBuilder == \A r \in Run : Patient(r) =>
  \A p, q \in OfRun(r) : pc[p] \in Building /\ pc[q] \in Building => p = q

\* "Sharing the result": two waiters of one entry are never served different
\* payloads, although several requests may release that entry.
SameAnswer == \A p, q \in Request :
  pc[p] = "served" /\ pc[q] = "served" /\ flight[p] = flight[q]
    => answer[p] = answer[q]

\* The entry of a request that failed does not hold up the run for good: who
\* waited for it in vain and then answered has removed it.
Healed == \A q \in Request :
  pc[q] = "done" /\ flight[q] # None => flights[context[q].run] # flight[q]

\* Every request ends, whatever its leader does: no waiter depends on it.
Answered == <>[](\A q \in Request : pc[q] \in {"new"} \cup Ended)
=============================================================================
