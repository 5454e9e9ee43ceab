------------------------- MODULE IncidentStoreProofs -------------------------
(***************************************************************************)
(* Theorems about IncidentStore, for any processes, incidents, runs and    *)
(* bounds: types, the ledger of versions, rows that are never behind the   *)
(* log, exactly-once transitions and truthful replies.                     *)
(***************************************************************************)
EXTENDS IncidentStore, TLAPS

Busy == {"begin", "txn", "publish", "refresh"}

\* What the requests admit: at most two events; a transition request carries
\* the one event of its key, and no other request names a run of a client.
GoodJob(j) ==
  /\ j \in Job
  /\ Len(j.specs) \in {1, 2}
  /\ IF j.op = "lifecycle"
     THEN /\ j.key \in Key
          /\ j.fingerprint \in Fingerprint
          /\ j.incident = j.key.incident
          /\ j.specs = <<Diagnosis(j.key.transition, j.key.run)>>
     ELSE \A n \in DOMAIN j.specs : j.specs[n].run \notin Run

JobsGood == \A p \in Process : pc[p] \in Busy => GoodJob(job[p])

\* A rebuild that is about to install rows has selected them.
LoadedGood == \A p \in Process :
  rebuild[p] = "install" => loaded[p] \in [Incident -> Row \cup {None}]

\* The transaction that holds the database has read the last version.
OneTransaction == \A p, q \in Process : pc[p] = "txn" /\ pc[q] = "txn" => p = q
BaseFresh == \A p \in Process :
  pc[p] = "txn" => job[p].base = Len(events[job[p].incident])

\* A transition about to be acknowledged is durable.
RefreshDurable == \A p \in Process :
  pc[p] = "refresh" /\ job[p].op = "lifecycle"
    => idem[job[p].key] = job[p].fingerprint

IInv == /\ TypeOK
        /\ JobsGood
        /\ LoadedGood
        /\ OneTransaction
        /\ BaseFresh
        /\ RefreshDurable
        /\ Ledger
        /\ RowIsCurrent
        /\ ExactlyOnce
        /\ RepliesTruthful

-----------------------------------------------------------------------------
(* Payloads, states and jobs                                               *)

USE DEF Status, Protected, Transition, EventType, Link

\* Constructors of payloads yield payloads.
LEMMA PayloadTyped ==
  /\ \A t \in EventType : Fact(t) \in Payload
  /\ \A sigs \in SUBSET Signal : Opened(sigs) \in Payload /\ Observed(sigs) \in Payload
  /\ \A b \in Bundle \cup {None}, ls \in (SUBSET Link) \cup {None} :
       Collecting(b, ls) \in Payload
  /\ \A b \in Bundle \cup {None}, ls \in (SUBSET Link) \cup {None},
        sigs \in SUBSET Signal :
       [Collecting(b, ls) EXCEPT !.signals = sigs] \in Payload
  /\ \A ls \in SUBSET Link : Attached(ls) \in Payload
  /\ \A t \in Transition, r \in Run \cup LocalRun : Diagnosis(t, r) \in Payload
<1> DEFINE R == Run \cup LocalRun
<1>1. \A x \in EventType : Fact(x) \in Payload
  BY DEF Fact, Payload
<1>2. ASSUME NEW e \in Payload, NEW x \in Bundle \cup {None},
             NEW y \in (SUBSET Link) \cup {None},
             NEW z \in (SUBSET Signal) \cup {None}, NEW w \in R \cup {None}
      PROVE  /\ [e EXCEPT !.signals = z] \in Payload
             /\ [e EXCEPT !.bundle = x, !.links = y] \in Payload
             /\ [e EXCEPT !.links = y] \in Payload
             /\ [e EXCEPT !.run = w] \in Payload
  <2> HIDE DEF R, EventType, Link
  <2>1. [e EXCEPT !.signals = z] \in Payload
    BY DEF Payload
  <2>2. [e EXCEPT !.links = y] \in Payload
    BY DEF Payload
  <2>3. [e EXCEPT !.bundle = x] \in Payload
    BY DEF Payload
  <2>4. [[e EXCEPT !.bundle = x] EXCEPT !.links = y] \in Payload
    BY <2>3 DEF Payload
  <2>5. [e EXCEPT !.run = w] \in Payload
    BY DEF Payload, R
  <2> QED BY <2>1, <2>2, <2>4, <2>5
<1> HIDE DEF R, Link
<1>3. \A sigs \in SUBSET Signal : Opened(sigs) \in Payload /\ Observed(sigs) \in Payload
  BY <1>1, <1>2 DEF Opened, Observed
<1>4. \A b \in Bundle \cup {None}, ls \in (SUBSET Link) \cup {None} :
        Collecting(b, ls) \in Payload
  BY <1>1, <1>2 DEF Collecting
<1>5. \A ls \in SUBSET Link : Attached(ls) \in Payload
  BY <1>1, <1>2 DEF Attached
<1>6. \A t \in Transition, r \in Run \cup LocalRun : Diagnosis(t, r) \in Payload
  BY <1>1, <1>2 DEF Diagnosis, R
<1>7. \A b \in Bundle \cup {None}, ls \in (SUBSET Link) \cup {None},
         sigs \in SUBSET Signal :
        [Collecting(b, ls) EXCEPT !.signals = sigs] \in Payload
  BY <1>2, <1>4
<1> QED BY <1>1, <1>3, <1>4, <1>5, <1>6, <1>7

\* Only the events of transitions name a run.
LEMMA PayloadRun ==
  /\ None \notin Run
  /\ \A t : Fact(t).run = None
  /\ \A sigs : Opened(sigs).run = None /\ Observed(sigs).run = None
  /\ \A b, ls : Collecting(b, ls).run = None
  /\ \A b, ls, sigs : [Collecting(b, ls) EXCEPT !.signals = sigs].run = None
  /\ \A ls : Attached(ls).run = None
  /\ \A t, r : Diagnosis(t, r).run = r /\ Diagnosis(t, r).type = t
  BY ConstantsAssumption
  DEF Fact, Opened, Observed, Collecting, Attached, Diagnosis

\* A write is good when it has one or two events, none of which names a run.
LEMMA WriteGood ==
  ASSUME NEW i \in Incident, NEW specs \in Seq(Payload), NEW next \in State \cup {None},
         Len(specs) \in {1, 2}, \A n \in DOMAIN specs : specs[n].run \notin Run
  PROVE  /\ GoodJob(Write(i, specs, next))
         /\ GoodJob([Write(i, specs, next) EXCEPT !.op = "mark"])
  BY DEF Write, GoodJob, Job

LEMMA OneEvent ==
  ASSUME NEW i \in Incident, NEW e \in Payload, NEW next \in State \cup {None},
         e.run \notin Run
  PROVE  /\ GoodJob(Write(i, <<e>>, next))
         /\ GoodJob([Write(i, <<e>>, next) EXCEPT !.op = "mark"])
<1>1. <<e>> \in Seq(Payload) /\ Len(<<e>>) = 1
  OBVIOUS
<1>2. \A n \in DOMAIN <<e>> : <<e>>[n].run \notin Run
  OBVIOUS
<1> QED BY <1>1, <1>2, WriteGood

LEMMA TwoEvents ==
  ASSUME NEW i \in Incident, NEW e \in Payload, NEW f \in Payload,
         NEW next \in State \cup {None}, e.run \notin Run, f.run \notin Run
  PROVE  GoodJob(Write(i, <<e, f>>, next))
<1>1. <<e, f>> \in Seq(Payload) /\ Len(<<e, f>>) = 2
  OBVIOUS
<1>2. \A n \in DOMAIN <<e, f>> : <<e, f>>[n].run \notin Run
  OBVIOUS
<1> QED BY <1>1, <1>2, WriteGood

\* The aggregates that the requests compute are aggregates.
LEMMA BlankTyped == Blank \in State
  BY DEF Blank, State

LEMMA OpenTyped ==
  ASSUME NEW sigs \in SUBSET Signal
  PROVE  /\ open_incident(sigs) \in State
         /\ \A b \in Bundle : open_incident_with_bundle(sigs, b) \in State
  BY DEF State, Blank, open_incident, open_incident_with_bundle

LEMMA MergeTyped ==
  ASSUME NEW s \in State, NEW sigs \in SUBSET Signal
  PROVE  /\ merge_candidate(s, sigs) \in State
         /\ \A b \in Bundle : merge_candidate_with_bundle(s, sigs, b) \in State
  BY DEF State, merge_candidate, merge_candidate_with_bundle

\* The projector maps aggregates to aggregates.
LEMMA ApplyTyped ==
  ASSUME NEW s \in State, NEW e \in Payload
  PROVE  apply_event_to_state(s, e) \in State
<1>1. e.type \in DOMAIN StatusOf => StatusOf[e.type] \in Status
  BY DEF StatusOf
<1>2. e.type \in Transition => e.type \in Transition /\ e.run \in Run \cup LocalRun \cup {None}
  BY DEF Payload
<1>3. /\ e.bundle \in Bundle \cup {None}
      /\ e.links # None => e.links \in SUBSET Link
      /\ e.signals # None => e.signals \in SUBSET Signal
  BY DEF Payload
<1> QED BY <1>1, <1>2, <1>3 DEF State, apply_event_to_state

LEMMA ProjectedTyped ==
  ASSUME NEW r \in Row \cup {None}, NEW base \in Nat, NEW specs \in Seq(Payload),
         Len(specs) \in {1, 2}
  PROVE  /\ Projected(r, base, specs) \in Row
         /\ Projected(r, base, specs).version = base + Len(specs)
<1>1. StateOf(r) \in State
  BY BlankTyped DEF StateOf, Row
<1>2. specs[1] \in Payload
  OBVIOUS
<1>3. apply_event_to_state(StateOf(r), specs[1]) \in State
  BY <1>1, <1>2, ApplyTyped
<1> DEFINE first == update_projection_for_event(r, base + 1, specs[1])
<1>4. first \in Row /\ first.version = base + 1
  BY <1>3 DEF update_projection_for_event, Row
<1>5. CASE Len(specs) = 1
  BY <1>4, <1>5 DEF Projected
<1>6. CASE Len(specs) = 2
  <2>1. specs[2] \in Payload
    BY <1>6
  <2>2. StateOf(first) \in State
    BY <1>4, BlankTyped DEF StateOf, Row
  <2>3. apply_event_to_state(StateOf(first), specs[2]) \in State
    BY <2>1, <2>2, ApplyTyped
  <2> QED BY <1>6, <2>3 DEF Projected, update_projection_for_event, Row
<1> QED BY <1>5, <1>6

\* Appending stamped events to a log keeps it, and numbers the new events.
LEMMA Appended ==
  ASSUME NEW es \in Seq(Event), NEW specs \in Seq(Payload)
  PROVE  /\ es \o Stamp(Len(es), specs) \in Seq(Event)
         /\ Len(es \o Stamp(Len(es), specs)) = Len(es) + Len(specs)
         /\ \A n \in 1..Len(es) : (es \o Stamp(Len(es), specs))[n] = es[n]
         /\ \A n \in (Len(es) + 1)..(Len(es) + Len(specs)) :
              /\ (es \o Stamp(Len(es), specs))[n].version = n
              /\ (es \o Stamp(Len(es), specs))[n].payload = specs[n - Len(es)]
<1> DEFINE new == Stamp(Len(es), specs)
<1>1. Len(es) \in Nat /\ Len(specs) \in Nat
  OBVIOUS
<1>2. \A n \in 1..Len(specs) :
        [version |-> Len(es) + n, payload |-> specs[n]] \in Event
  BY <1>1 DEF Event
<1>3. new \in Seq(Event) /\ Len(new) = Len(specs)
  BY <1>1, <1>2 DEF Stamp
<1>4. ASSUME NEW n \in (Len(es) + 1)..(Len(es) + Len(specs))
      PROVE  /\ new[n - Len(es)].version = n
             /\ new[n - Len(es)].payload = specs[n - Len(es)]
  <2>1. n - Len(es) \in 1..Len(specs) /\ Len(es) + (n - Len(es)) = n
    BY <1>1
  <2> QED BY <2>1 DEF Stamp
<1> HIDE DEF new
<1>5. ASSUME NEW n \in (Len(es) + 1)..(Len(es) + Len(specs))
      PROVE  (es \o new)[n] = new[n - Len(es)]
  BY <1>1, <1>3
<1>6. /\ es \o new \in Seq(Event)
      /\ Len(es \o new) = Len(es) + Len(specs)
      /\ \A n \in 1..Len(es) : (es \o new)[n] = es[n]
  BY <1>1, <1>3
<1>7. \A n \in (Len(es) + 1)..(Len(es) + Len(specs)) :
        /\ (es \o new)[n].version = n
        /\ (es \o new)[n].payload = specs[n - Len(es)]
  BY <1>4, <1>5
<1> QED BY <1>6, <1>7 DEF new

-----------------------------------------------------------------------------
(* What the requests admit                                                 *)

\* Every request is the admission of one good job.
LEMMA RequestAdmits ==
  ASSUME TypeOK, NEW p \in Process, Request(p)
  PROVE  \E j : GoodJob(j) /\ Admit(p, j)
<1>0. cache[p] \in [Incident -> State \cup {None}]
  BY DEF TypeOK
<1>1. CASE Promote(p)
  <2>1. PICK i \in Incident, sigs \in (SUBSET Signal) \ {{}},
             b \in PromotionBundle \cup {None} :
             PromoteOpen(p, i, sigs, b) \/ PromoteMerge(p, i, sigs, b)
    BY <1>1 DEF Promote
  <2>2. b \in Bundle \cup {None} /\ sigs \in SUBSET Signal
    BY ConstantsAssumption
  <2>3. CASE PromoteOpen(p, i, sigs, b) /\ b = None
    <3>1. GoodJob(Write(i, <<Opened(sigs)>>, open_incident(sigs)))
      BY <2>2, PayloadTyped, PayloadRun, OpenTyped, OneEvent
    <3> QED BY <2>3, <3>1 DEF PromoteOpen
  <2>4. CASE PromoteOpen(p, i, sigs, b) /\ b # None
    <3>0. b \in Bundle /\ {b} \in SUBSET Link
      BY <2>2, <2>4
    <3>1. Opened(sigs) \in Payload /\ Collecting(b, {b}) \in Payload
      BY <3>0, <2>2, PayloadTyped
    <3>2. open_incident_with_bundle(sigs, b) \in State
      BY <3>0, <2>2, OpenTyped
    <3>3. Opened(sigs).run \notin Run /\ Collecting(b, {b}).run \notin Run
      BY PayloadRun
    <3>4. GoodJob(Write(i, <<Opened(sigs), Collecting(b, {b})>>,
                        open_incident_with_bundle(sigs, b)))
      BY <3>1, <3>2, <3>3, TwoEvents
    <3> QED BY <2>4, <3>4 DEF PromoteOpen
  <2>5. CASE PromoteMerge(p, i, sigs, b) /\ b = None
    <3> DEFINE merged == merge_candidate(cache[p][i], sigs)
    <3>0. merged \in State /\ merged.signals \in SUBSET Signal
      BY <1>0, <2>2, <2>5, MergeTyped DEF PromoteMerge, State
    <3>1. GoodJob(Write(i, <<Observed(merged.signals)>>, merged))
      BY <3>0, PayloadTyped, PayloadRun, OneEvent
    <3> QED BY <2>5, <3>1 DEF PromoteMerge
  <2>6. CASE PromoteMerge(p, i, sigs, b) /\ b # None
    <3> DEFINE merged == merge_candidate_with_bundle(cache[p][i], sigs, b)
    <3>0. /\ merged \in State /\ merged.signals \in SUBSET Signal
          /\ merged.links \in SUBSET Link /\ b \in Bundle
      BY <1>0, <2>2, <2>6, MergeTyped DEF PromoteMerge, State
    <3> DEFINE e == [Collecting(b, merged.links) EXCEPT !.signals = merged.signals]
    <3>1. e \in Payload
      BY <3>0, PayloadTyped
    <3>2. e.run \notin Run
      BY PayloadRun
    <3>3. GoodJob(Write(i, <<e>>, merged))
      BY <3>0, <3>1, <3>2, OneEvent
    <3> QED BY <2>6, <3>3 DEF PromoteMerge
  <2> QED BY <2>1, <2>3, <2>4, <2>5, <2>6
<1>2. CASE AddIncident(p)
  <2>1. PICK i \in Incident, sigs \in SUBSET Signal :
          Admit(p, Write(i, <<Opened(sigs)>>, open_incident(sigs)))
    BY <1>2 DEF AddIncident
  <2> QED BY <2>1, PayloadTyped, PayloadRun, OpenTyped, OneEvent
<1>3. CASE MarkStatus(p)
  <2>1. PICK i \in Incident, m \in DOMAIN Moves, b \in Bundle :
          /\ cache[p][i] # None
          /\ Admit(p, Write(i, <<IF m = "collecting_evidence_started"
                                 THEN Collecting(b, None) ELSE Fact(m)>>,
                            [cache[p][i] EXCEPT !.status = StatusOf[m]]))
    BY <1>3 DEF MarkStatus
  <2> DEFINE e == IF m = "collecting_evidence_started"
                  THEN Collecting(b, None) ELSE Fact(m)
             next == [cache[p][i] EXCEPT !.status = StatusOf[m]]
  <2>2. m \in EventType /\ StatusOf[m] \in Status
    BY DEF Moves, StatusOf
  <2>3. next \in State
    BY <1>0, <2>1, <2>2 DEF State
  <2>4. e \in Payload /\ e.run = None
    BY <2>2, PayloadTyped, PayloadRun
  <2>5. GoodJob(Write(i, <<e>>, next))
    BY <2>3, <2>4, PayloadRun, OneEvent
  <2> QED BY <2>1, <2>5
<1>4. CASE AttachEvidence(p)
  <2>1. PICK i \in Incident, a \in Artifact :
          /\ cache[p][i] # None
          /\ LET next == [cache[p][i] EXCEPT !.links = @ \cup {a}]
             IN  Admit(p, Write(i, <<Attached(next.links)>>, next))
    BY <1>4 DEF AttachEvidence
  <2> DEFINE next == [cache[p][i] EXCEPT !.links = @ \cup {a}]
  <2>2. next \in State /\ next.links \in SUBSET Link
    BY <1>0, <2>1 DEF State
  <2>3. Attached(next.links) \in Payload /\ Attached(next.links).run = None
    BY <2>2, PayloadTyped, PayloadRun
  <2>4. GoodJob(Write(i, <<Attached(next.links)>>, next))
    BY <2>2, <2>3, PayloadRun, OneEvent
  <2> QED BY <2>1, <2>4
<1>5. CASE MarkDiagnosisLoop(p)
  <2>1. PICK i \in Incident, t \in Transition, r \in LocalRun :
          Admit(p, [Write(i, <<Diagnosis(t, r)>>, None) EXCEPT !.op = "mark"])
    BY <1>5 DEF MarkDiagnosisLoop
  <2>2. Diagnosis(t, r) \in Payload /\ Diagnosis(t, r).run \notin Run
    BY PayloadTyped, PayloadRun, ConstantsAssumption
  <2> QED BY <2>1, <2>2, OneEvent
<1>6. CASE RequestTransition(p)
  <2>1. PICK k \in Key, f \in Fingerprint :
          k.transition \in Transition /\ Admit(p, TransitionJob(k, f))
    BY <1>6, ConstantsAssumption DEF RequestTransition
  <2>2. k.incident \in Incident /\ k.run \in Run
    BY DEF Key
  <2> DEFINE e == Diagnosis(k.transition, k.run)
  <2>3. e \in Payload
    BY <2>1, <2>2, PayloadTyped
  <2> HIDE DEF e
  <2>4. <<e>> \in Seq(Payload) /\ Len(<<e>>) = 1
    BY <2>3
  <2>5. TransitionJob(k, f) = [op |-> "lifecycle", incident |-> k.incident,
                               specs |-> <<e>>, next |-> None,
                               key |-> k, fingerprint |-> f, base |-> 0]
    BY DEF TransitionJob, e
  <2>6. TransitionJob(k, f) \in Job
    BY <2>2, <2>4, <2>5 DEF Job
  <2>7. GoodJob(TransitionJob(k, f))
    BY <2>4, <2>5, <2>6 DEF GoodJob, e
  <2> QED BY <2>1, <2>7
<1> QED BY <1>1, <1>2, <1>3, <1>4, <1>5, <1>6 DEF Request

\* Reading the previous version changes nothing else of a job.
LEMMA Rebased ==
  ASSUME NEW j, GoodJob(j), NEW n \in Nat
  PROVE  /\ GoodJob([j EXCEPT !.base = n])
         /\ [j EXCEPT !.base = n].base = n
         /\ [j EXCEPT !.base = n].incident = j.incident
         /\ [j EXCEPT !.base = n].specs = j.specs
         /\ [j EXCEPT !.base = n].op = j.op
         /\ [j EXCEPT !.base = n].key = j.key
         /\ [j EXCEPT !.base = n].fingerprint = j.fingerprint
  BY DEF GoodJob, Job

-----------------------------------------------------------------------------
(* Types                                                                   *)

LEMMA InitTyped == ASSUME Init PROVE TypeOK /\ JobsGood
<1>1. <<>> \in Seq(Event)
  OBVIOUS
<1> QED BY <1>1 DEF Init, TypeOK, JobsGood, Busy

\* A step of a request keeps the types.
LEMMA StepTyped ==
  ASSUME IInv, NEW p \in Process, Step(p)
  PROVE  TypeOK' /\ JobsGood'
<1>0. TypeOK /\ JobsGood
  BY DEF IInv
<1>1. CASE Begin(p)
  <2>1. GoodJob(job[p]) /\ job[p].incident \in Incident
    BY <1>0, <1>1 DEF Begin, JobsGood, Busy, GoodJob, Job
  <2> DEFINE n == Len(events[job[p].incident])
  <2>2. n \in Nat
    BY <1>0, <2>1 DEF TypeOK
  <2>3. /\ GoodJob([job[p] EXCEPT !.base = n])
        /\ [job[p] EXCEPT !.base = n] \in Job
    BY <2>1, <2>2, Rebased DEF GoodJob
  <2>4. job' = [job EXCEPT ![p] = [job[p] EXCEPT !.base = n]]
    BY <1>0, <1>1 DEF Begin, TypeOK
  <2> HIDE DEF n
  <2>5. TypeOK'
    BY <1>0, <1>1, <2>3, <2>4 DEF TypeOK, Begin, durable, rebuilds, bounds
  <2>6. JobsGood'
    BY <1>0, <1>1, <2>3, <2>4 DEF TypeOK, JobsGood, Begin
  <2> QED BY <2>5, <2>6
<1>2. CASE BeginLifecycle(p)
  <2>1. /\ GoodJob(job[p]) /\ job[p].incident \in Incident
        /\ job[p].key \in Key /\ job[p].fingerprint \in Fingerprint
    BY <1>0, <1>2 DEF BeginLifecycle, JobsGood, Busy, GoodJob, Job
  <2>2. CASE BeginFirst(p)
    <3> DEFINE n == Len(events[job[p].incident])
    <3>2. n \in Nat
      BY <1>0, <2>1 DEF TypeOK
    <3>3. /\ GoodJob([job[p] EXCEPT !.base = n])
          /\ [job[p] EXCEPT !.base = n] \in Job
      BY <2>1, <3>2, Rebased DEF GoodJob
    <3>4. job' = [job EXCEPT ![p] = [job[p] EXCEPT !.base = n]]
      BY <1>0, <2>2 DEF BeginFirst, TypeOK
    <3> HIDE DEF n
    <3>1. /\ pc' = [pc EXCEPT ![p] = "txn"]
          /\ UNCHANGED <<durable, cache, rebuilds, replies, bounds>>
      BY <1>2, <2>2 DEF BeginLifecycle, BeginFirst
    <3>5. TypeOK'
      BY <1>0, <3>1, <3>3, <3>4 DEF TypeOK, durable, rebuilds, bounds
    <3>6. JobsGood'
      BY <1>0, <2>2, <3>3, <3>4 DEF TypeOK, JobsGood, BeginFirst
    <3> QED BY <3>5, <3>6
  <2>3. CASE BeginReplay(p)
    <3>1. TypeOK'
      BY <1>0, <1>2, <2>3
      DEF TypeOK, BeginLifecycle, BeginReplay, durable, rebuilds, bounds
    <3>2. JobsGood'
      BY <1>0, <2>1, <2>3 DEF TypeOK, JobsGood, BeginReplay
    <3> QED BY <3>1, <3>2
  <2>4. CASE BeginMismatch(p)
    <3>1. TypeOK'
      BY <1>0, <1>2, <2>1, <2>4
      DEF TypeOK, BeginLifecycle, BeginMismatch, Reply, durable, rebuilds, bounds
    <3>2. JobsGood'
      BY <1>0, <2>4 DEF TypeOK, JobsGood, BeginMismatch, Busy
    <3> QED BY <3>1, <3>2
  <2>5. CASE BeginNotFound(p)
    <3>1. TypeOK'
      BY <1>0, <1>2, <2>5
      DEF TypeOK, BeginLifecycle, BeginNotFound, durable, rebuilds, bounds
    <3>2. JobsGood'
      BY <1>0, <2>5 DEF TypeOK, JobsGood, BeginNotFound, Busy
    <3> QED BY <3>1, <3>2
  <2> QED BY <1>2, <2>2, <2>3, <2>4, <2>5 DEF BeginLifecycle
<1>3. CASE Commit(p) \/ CommitLifecycle(p)
  <2>1. GoodJob(job[p]) /\ job[p].base = Len(events[job[p].incident])
    BY <1>3 DEF IInv, JobsGood, BaseFresh, Busy, Commit, CommitLifecycle
  <2> DEFINE i == job[p].incident
             specs == job[p].specs
             base == job[p].base
  <2>2. i \in Incident /\ specs \in Seq(Payload) /\ Len(specs) \in {1, 2}
    BY <2>1 DEF GoodJob, Job
  <2>3. events[i] \in Seq(Event) /\ row[i] \in Row \cup {None}
    BY <1>0, <2>2 DEF TypeOK
  <2>4. base = Len(events[i]) /\ base \in Nat
    BY <2>1, <2>3
  <2>5. /\ events' = [events EXCEPT ![i] = @ \o Stamp(base, specs)]
        /\ row' = [row EXCEPT ![i] = Projected(@, base, specs)]
    BY <1>3 DEF Commit, CommitLifecycle
  <2> HIDE DEF i, specs, base
  <2>6. events[i] \o Stamp(base, specs) \in Seq(Event)
    BY <2>2, <2>3, <2>4, Appended
  <2>7. Projected(row[i], base, specs) \in Row
    BY <2>2, <2>3, <2>4, ProjectedTyped
  <2>8. /\ \E s \in {"publish", "refresh"} : pc' = [pc EXCEPT ![p] = s]
        /\ UNCHANGED <<cache, job, rebuilds, replies, bounds>>
        /\ \/ UNCHANGED idem
           \/ job[p].op = "lifecycle" /\ idem' = [idem EXCEPT ![job[p].key] = job[p].fingerprint]
    BY <1>3 DEF Commit, CommitLifecycle
  <2>9. idem' \in [Key -> Fingerprint \cup {None}]
    BY <1>0, <2>1, <2>8 DEF TypeOK, GoodJob
  <2>10. TypeOK'
    BY <1>0, <2>2, <2>6, <2>7, <2>8, <2>5, <2>9 DEF TypeOK, rebuilds, bounds
  <2>11. JobsGood'
    BY <1>0, <2>1, <2>8 DEF TypeOK, JobsGood
  <2> QED BY <2>10, <2>11
<1>4. CASE Abort(p)
  BY <1>0, <1>4 DEF TypeOK, JobsGood, Abort, Busy, durable, rebuilds, bounds
<1>5. CASE Publish(p)
  <2>1. job[p].next \in State \cup {None} /\ job[p].incident \in Incident
    BY <1>0, <1>5 DEF Publish, JobsGood, Busy, GoodJob, Job
  <2>2. TypeOK'
    BY <1>0, <1>5, <2>1 DEF TypeOK, Publish, Leave, durable, rebuilds, bounds
  <2>3. JobsGood'
    BY <1>0, <1>5 DEF TypeOK, JobsGood, Publish, Leave, Busy
  <2> QED BY <2>2, <2>3
<1>6. CASE Refresh(p)
  <2>1. /\ job[p].incident \in Incident
        /\ job[p].op = "lifecycle" => /\ job[p].key \in Key
                                      /\ job[p].fingerprint \in Fingerprint
    BY <1>0, <1>6 DEF Refresh, JobsGood, Busy, GoodJob, Job
  <2>2. /\ row[job[p].incident] \in Row \cup {None}
        /\ cache[p][job[p].incident] \in State \cup {None}
    BY <1>0, <2>1 DEF TypeOK
  <2>3. (IF row[job[p].incident] = None THEN cache[p][job[p].incident]
         ELSE row[job[p].incident].state) \in State \cup {None}
    BY <2>2 DEF Row
  <2>4. cache' \in [Process -> [Incident -> State \cup {None}]]
    BY <1>0, <1>6, <2>1, <2>3 DEF TypeOK, Refresh
  <2>5. replies' \subseteq [key : Key, fingerprint : Fingerprint,
                            outcome : {"applied", "replay_mismatch"}]
    BY <1>0, <1>6, <2>1 DEF TypeOK, Refresh, Reply
  <2>6. TypeOK'
    BY <1>0, <1>6, <2>4, <2>5 DEF TypeOK, Refresh, Leave, durable, rebuilds, bounds
  <2>7. JobsGood'
    BY <1>0, <1>6 DEF TypeOK, JobsGood, Refresh, Leave, Busy
  <2> QED BY <2>6, <2>7
<1>7. CASE RefreshFails(p)
  BY <1>0, <1>7 DEF TypeOK, JobsGood, RefreshFails, Leave, Busy, durable, rebuilds, bounds
<1> QED BY <1>1, <1>2, <1>3, <1>4, <1>5, <1>6, <1>7 DEF Step

\* Every step keeps the types.
LEMMA NextTyped ==
  ASSUME IInv, [Next]_vars
  PROVE  TypeOK' /\ JobsGood'
<1>0. TypeOK /\ JobsGood
  BY DEF IInv
<1>1. ASSUME NEW p \in Process, Step(p)
      PROVE  TypeOK' /\ JobsGood'
  BY <1>1, StepTyped
<1>2. ASSUME NEW p \in Process, Request(p)
      PROVE  TypeOK' /\ JobsGood'
  <2>1. PICK j : GoodJob(j) /\ Admit(p, j)
    BY <1>0, <1>2, RequestAdmits
  <2>2. j \in Job
    BY <2>1 DEF GoodJob
  <2> HIDE DEF GoodJob
  <2>3. TypeOK'
    BY <1>0, <2>1, <2>2 DEF TypeOK, Admit, durable, rebuilds, bounds
  <2>4. JobsGood'
    BY <1>0, <2>1 DEF TypeOK, JobsGood, Admit
  <2> QED BY <2>3, <2>4
<1>3. ASSUME NEW p \in Process, Rebuild(p)
      PROVE  TypeOK' /\ JobsGood'
  <2>1. JobsGood'
    BY <1>0, <1>3 DEF JobsGood, Rebuild, RebuildRows, RebuildClear, RebuildLoad,
                      RebuildInstall
  <2>2. CASE RebuildRows(p)
    BY <1>0, <2>1, <2>2 DEF TypeOK, RebuildRows, durable, bounds
  <2>3. CASE RebuildClear(p)
    BY <1>0, <2>1, <2>3 DEF TypeOK, RebuildClear, durable, bounds
  <2>4. CASE RebuildLoad(p)
    BY <1>0, <2>1, <2>4 DEF TypeOK, RebuildLoad, durable, bounds
  <2>5. CASE RebuildInstall(p)
    <3>1. /\ cache[p] \in [Incident -> State \cup {None}]
          /\ loaded[p] \in [Incident -> Row \cup {None}]
      BY <1>0, <2>5 DEF TypeOK, IInv, LoadedGood, RebuildInstall
    <3>2. [i \in Incident |-> IF loaded[p][i] = None THEN cache[p][i]
                              ELSE loaded[p][i].state]
            \in [Incident -> State \cup {None}]
      BY <3>1 DEF Row
    <3> QED BY <1>0, <2>1, <2>5, <3>2 DEF TypeOK, RebuildInstall, durable, bounds
  <2> QED BY <1>3, <2>2, <2>3, <2>4, <2>5 DEF Rebuild
<1>4. ASSUME NEW p \in Process, Crash(p)
      PROVE  TypeOK' /\ JobsGood'
  BY <1>0, <1>4 DEF TypeOK, JobsGood, Crash, Busy, durable
<1>5. ASSUME NEW p \in Process, Restart(p)
      PROVE  TypeOK' /\ JobsGood'
  <2>1. CacheOf(row) \in [Incident -> State \cup {None}]
    BY <1>0 DEF TypeOK, CacheOf, Row
  <2> QED BY <1>0, <1>5, <2>1 DEF TypeOK, JobsGood, Restart, Busy, durable, rebuilds, bounds
<1>6. CASE Truncate
  BY <1>0, <1>6 DEF TypeOK, JobsGood, Truncate, rebuilds
<1>7. CASE UNCHANGED vars
  BY <1>0, <1>7 DEF TypeOK, JobsGood, vars, durable, rebuilds, bounds
<1> QED BY <1>1, <1>2, <1>3, <1>4, <1>5, <1>6, <1>7 DEF Next

\* Only RebuildLoad makes a rebuild ready to install.
LEMMA NextLoaded ==
  ASSUME IInv, [Next]_vars
  PROVE  LoadedGood'
<1>0. TypeOK /\ LoadedGood
  BY DEF IInv
<1>1. CASE UNCHANGED rebuilds
  BY <1>0, <1>1 DEF LoadedGood, rebuilds
<1>2. ASSUME NEW p \in Process, Step(p) \/ Request(p)
      PROVE  UNCHANGED rebuilds
  <2>1. Step(p) => UNCHANGED rebuilds
    BY DEF Step, Begin, BeginLifecycle, Commit, CommitLifecycle, Abort, Publish,
           Refresh, RefreshFails
  <2>2. CASE Request(p)
    BY <1>0, <2>2, RequestAdmits DEF Admit
  <2> QED BY <1>2, <2>1, <2>2
<1>3. ASSUME NEW p \in Process, Rebuild(p)
      PROVE  LoadedGood'
  BY <1>0, <1>3 DEF TypeOK, LoadedGood, Rebuild, RebuildRows, RebuildClear,
                    RebuildLoad, RebuildInstall
<1>4. ASSUME NEW p \in Process, Crash(p)
      PROVE  LoadedGood'
  BY <1>0, <1>4 DEF TypeOK, LoadedGood, Crash
<1>5. ASSUME NEW p \in Process, Restart(p)
      PROVE  UNCHANGED rebuilds
  BY <1>5 DEF Restart
<1>6. Truncate \/ UNCHANGED vars => UNCHANGED rebuilds
  BY DEF Truncate, vars
<1> QED BY <1>1, <1>2, <1>3, <1>4, <1>5, <1>6 DEF Next

-----------------------------------------------------------------------------
(* Transactions                                                            *)

\* At most one transaction is open, and what it read stays current: the
\* write lock of the database file is all that the store relies on.
LEMMA NextTransaction ==
  ASSUME IInv, [Next]_vars
  PROVE  OneTransaction' /\ BaseFresh'
<1>0. TypeOK /\ OneTransaction /\ BaseFresh /\ JobsGood
  BY DEF IInv
<1>1. ASSUME NEW p \in Process, Begin(p) \/ (BeginLifecycle(p) /\ BeginFirst(p))
      PROVE  OneTransaction' /\ BaseFresh'
  <2>1. /\ DatabaseFree
        /\ pc' = [pc EXCEPT ![p] = "txn"]
        /\ job' = [job EXCEPT ![p].base = Len(events[job[p].incident])]
        /\ events' = events
        /\ pc[p] = "begin"
    BY <1>1 DEF Begin, BeginLifecycle, BeginFirst, durable
  <2>2. /\ GoodJob(job[p])
        /\ events[job[p].incident] \in Seq(Event)
    BY <1>0, <2>1 DEF TypeOK, JobsGood, Busy, GoodJob, Job
  <2> DEFINE n == Len(events[job[p].incident])
  <2>3. job'[p] = [job[p] EXCEPT !.base = n]
    BY <1>0, <2>1 DEF TypeOK
  <2>4. n \in Nat
    BY <2>2
  <2> HIDE DEF n
  <2>5. job'[p].base = n /\ job'[p].incident = job[p].incident
    BY <2>2, <2>3, <2>4, Rebased
  <2>6. \A q \in Process : pc'[q] = "txn" => q = p
    BY <1>0, <2>1 DEF TypeOK, DatabaseFree
  <2>7. job'[p].base = Len(events'[job'[p].incident])
    BY <2>1, <2>5 DEF n
  <2> QED BY <2>6, <2>7 DEF OneTransaction, BaseFresh
<1>2. ASSUME UNCHANGED events,
             \A q \in Process : pc'[q] = "txn" => pc[q] = "txn" /\ job'[q] = job[q]
      PROVE  OneTransaction' /\ BaseFresh'
  BY <1>0, <1>2 DEF OneTransaction, BaseFresh
<1>3. ASSUME NEW p \in Process, Commit(p) \/ CommitLifecycle(p)
      PROVE  OneTransaction' /\ BaseFresh'
  <2>1. /\ pc[p] = "txn"
        /\ \E s \in {"publish", "refresh"} : pc' = [pc EXCEPT ![p] = s]
    BY <1>3 DEF Commit, CommitLifecycle
  <2>2. \A q \in Process : pc'[q] # "txn"
    BY <1>0, <2>1 DEF TypeOK, OneTransaction
  <2> QED BY <2>2 DEF OneTransaction, BaseFresh
<1>4. ASSUME NEW p \in Process, Step(p)
      PROVE  OneTransaction' /\ BaseFresh'
  <2>1. CASE \/ BeginLifecycle(p) /\ ~BeginFirst(p)
             \/ Abort(p) \/ Publish(p) \/ Refresh(p) \/ RefreshFails(p)
    <3>1. /\ UNCHANGED events
          /\ \E s \in {"idle", "refresh"} : pc' = [pc EXCEPT ![p] = s]
          /\ UNCHANGED job \/ job' = [job EXCEPT ![p] = None]
      BY <2>1 DEF BeginLifecycle, BeginReplay, BeginMismatch, BeginNotFound, Abort,
                  Publish, Refresh, RefreshFails, Leave, durable
    <3>2. \A q \in Process : pc'[q] = "txn" => pc[q] = "txn" /\ job'[q] = job[q]
      BY <1>0, <3>1 DEF TypeOK
    <3> QED BY <1>2, <3>1, <3>2
  <2> QED BY <1>1, <1>3, <1>4, <2>1 DEF Step
<1>5. ASSUME NEW p \in Process, Request(p)
      PROVE  OneTransaction' /\ BaseFresh'
  <2>1. PICK j : Admit(p, j)
    BY <1>0, <1>5, RequestAdmits
  <2> QED BY <1>0, <1>2, <2>1 DEF Admit, TypeOK, durable
<1>6. ASSUME NEW p \in Process, Rebuild(p) \/ Crash(p) \/ Restart(p)
      PROVE  OneTransaction' /\ BaseFresh'
  <2>1. /\ UNCHANGED events
        /\ \/ UNCHANGED <<pc, job>>
           \/ pc' = [pc EXCEPT ![p] = "down"] /\ job' = [job EXCEPT ![p] = None]
           \/ pc' = [pc EXCEPT ![p] = "idle"] /\ UNCHANGED job
    BY <1>6 DEF Rebuild, RebuildRows, RebuildClear, RebuildLoad, RebuildInstall,
                Crash, Restart, durable
  <2>2. \A q \in Process : pc'[q] = "txn" => pc[q] = "txn" /\ job'[q] = job[q]
    BY <1>0, <2>1 DEF TypeOK
  <2> QED BY <1>2, <2>1, <2>2
<1>7. CASE Truncate \/ UNCHANGED vars
  BY <1>0, <1>2, <1>7 DEF Truncate, vars, durable
<1> QED BY <1>4, <1>5, <1>6, <1>7 DEF Next

-----------------------------------------------------------------------------
(* The log                                                                 *)

\* Only the two commits write events and idempotency rows; a truncation
\* removes rows and nothing adds one without its event.
LEMMA OnlyCommitsWrite ==
  ASSUME IInv, [Next]_vars, ~\E p \in Process : Commit(p) \/ CommitLifecycle(p)
  PROVE  /\ UNCHANGED <<events, idem>>
         /\ UNCHANGED row \/ row' = [i \in Incident |-> None]
<1>0. TypeOK
  BY DEF IInv
<1>1. ASSUME NEW p \in Process, Step(p)
      PROVE  UNCHANGED durable
  BY <1>1 DEF Step, Begin, BeginLifecycle, Abort, Publish, Refresh, RefreshFails
<1>2. ASSUME NEW p \in Process, Request(p)
      PROVE  UNCHANGED durable
  BY <1>0, <1>2, RequestAdmits DEF Admit
<1>3. ASSUME NEW p \in Process, Rebuild(p) \/ Crash(p) \/ Restart(p)
      PROVE  UNCHANGED durable
  BY <1>3 DEF Rebuild, RebuildRows, RebuildClear, RebuildLoad, RebuildInstall,
              Crash, Restart
<1> QED BY <1>1, <1>2, <1>3 DEF Next, Truncate, vars, durable

\* What a commit does to the tables.
LEMMA CommitWrites ==
  ASSUME IInv, NEW p \in Process, Commit(p) \/ CommitLifecycle(p)
  PROVE  \E i \in Incident, specs \in Seq(Payload), n \in Nat :
           /\ i = job[p].incident /\ specs = job[p].specs /\ Len(specs) \in {1, 2}
           /\ events[i] \in Seq(Event) /\ n = Len(events[i])
           /\ events' = [events EXCEPT ![i] = events[i] \o Stamp(n, specs)]
           /\ row' = [row EXCEPT ![i] = Projected(row[i], n, specs)]
           /\ Projected(row[i], n, specs).version = n + Len(specs)
<1>0. TypeOK /\ JobsGood /\ BaseFresh
  BY DEF IInv
<1>1. pc[p] = "txn" /\ GoodJob(job[p])
  BY <1>0 DEF Commit, CommitLifecycle, JobsGood, Busy
<1>2. PICK i \in Incident, specs \in Seq(Payload) :
        i = job[p].incident /\ specs = job[p].specs /\ Len(specs) \in {1, 2}
  BY <1>1 DEF GoodJob, Job
<1>3. events[i] \in Seq(Event) /\ row[i] \in Row \cup {None}
  BY <1>0 DEF TypeOK
<1>4. PICK n \in Nat : n = Len(events[i])
  BY <1>3
<1>5. job[p].base = n
  BY <1>0, <1>1, <1>2, <1>4 DEF BaseFresh
<1>6. /\ events' = [events EXCEPT ![i] = events[i] \o Stamp(n, specs)]
      /\ row' = [row EXCEPT ![i] = Projected(row[i], n, specs)]
  BY <1>0, <1>2, <1>5 DEF Commit, CommitLifecycle, TypeOK
<1>7. Projected(row[i], n, specs).version = n + Len(specs)
  BY <1>2, <1>3, ProjectedTyped
<1> QED BY <1>2, <1>3, <1>4, <1>6, <1>7

\* Versions stay consecutive, and rows keep up.
LEMMA NextLedger ==
  ASSUME IInv, [Next]_vars
  PROVE  Ledger' /\ RowIsCurrent'
<1>0. TypeOK /\ Ledger /\ RowIsCurrent
  BY DEF IInv
<1>1. CASE ~\E p \in Process : Commit(p) \/ CommitLifecycle(p)
  BY <1>0, <1>1, OnlyCommitsWrite DEF Ledger, RowIsCurrent
<1>2. ASSUME NEW p \in Process, Commit(p) \/ CommitLifecycle(p)
      PROVE  Ledger' /\ RowIsCurrent'
  <2>1. PICK i \in Incident, specs \in Seq(Payload), n \in Nat :
          /\ events[i] \in Seq(Event) /\ n = Len(events[i])
          /\ events' = [events EXCEPT ![i] = events[i] \o Stamp(n, specs)]
          /\ row' = [row EXCEPT ![i] = Projected(row[i], n, specs)]
          /\ Projected(row[i], n, specs).version = n + Len(specs)
    BY <1>2, CommitWrites
  <2> DEFINE es == events[i]
             log == es \o Stamp(Len(es), specs)
  <2> HIDE DEF es, log
  <2>2. /\ log \in Seq(Event)
        /\ Len(log) = Len(es) + Len(specs)
        /\ \A m \in 1..Len(es) : log[m] = es[m]
        /\ \A m \in (Len(es) + 1)..(Len(es) + Len(specs)) :
             log[m].version = m /\ log[m].payload = specs[m - Len(es)]
    BY <2>1, Appended DEF log, es
  <2>3. \A m \in 1..Len(es) : es[m].version = m
    BY <1>0, <2>1 DEF Ledger, es
  <2>4. Len(es) \in Nat /\ Len(specs) \in Nat /\ n = Len(es)
    BY <2>1 DEF es
  <2>5. ASSUME NEW m \in DOMAIN log
        PROVE  log[m].version = m
    <3>1. m \in 1..(Len(es) + Len(specs))
      BY <2>2
    <3>2. CASE m \in 1..Len(es)
      BY <2>2, <2>3, <3>2
    <3>3. CASE m \notin 1..Len(es)
      <4>1. m \in (Len(es) + 1)..(Len(es) + Len(specs))
        BY <2>4, <3>1, <3>3
      <4> QED BY <2>2, <4>1
    <3> QED BY <3>2, <3>3
  <2>6. events'[i] = log /\ \A h \in Incident \ {i} : events'[h] = events[h]
    BY <1>0, <2>1 DEF TypeOK, log, es
  <2>7. Ledger'
    BY <1>0, <2>5, <2>6 DEF Ledger
  <2>8. /\ row'[i].version = Len(log)
        /\ \A h \in Incident \ {i} : row'[h] = row[h]
    BY <1>0, <2>1, <2>2, <2>4 DEF TypeOK
  <2>9. RowIsCurrent'
    BY <1>0, <2>6, <2>8 DEF RowIsCurrent
  <2> QED BY <2>7, <2>9
<1> QED BY <1>1, <1>2

\* The positions that specs take after base, of those that record key k.
Recording(specs, base, k) ==
  {n \in (base + 1)..(base + Len(specs)) :
     /\ specs[n - base].type = k.transition
     /\ specs[n - base].run = k.run}

\* What appending does to the events of a key.
LEMMA EventsOfAppended ==
  ASSUME TypeOK, NEW i \in Incident, NEW specs \in Seq(Payload), NEW k \in Key,
         events' = [events EXCEPT ![i] = events[i] \o Stamp(Len(events[i]), specs)]
  PROVE  /\ k.incident # i => EventsOf(k)' = EventsOf(k)
         /\ k.incident = i =>
              EventsOf(k)' = EventsOf(k) \cup Recording(specs, Len(events[i]), k)
<1> DEFINE es == events[i]
           log == es \o Stamp(Len(es), specs)
<1>1. es \in Seq(Event) /\ Len(es) \in Nat /\ Len(specs) \in Nat
  BY DEF TypeOK
<1>2. k.incident \in Incident
  BY DEF Key
<1>3. CASE k.incident # i
  BY <1>2, <1>3 DEF TypeOK, EventsOf
<1>4. CASE k.incident = i
  <2>1. events'[i] = log
    BY DEF TypeOK
  <2> HIDE DEF log
  <2>2. /\ log \in Seq(Event)
        /\ Len(log) = Len(es) + Len(specs)
        /\ \A n \in 1..Len(es) : log[n] = es[n]
        /\ \A n \in (Len(es) + 1)..(Len(es) + Len(specs)) :
             log[n].version = n /\ log[n].payload = specs[n - Len(es)]
    BY <1>1, Appended DEF log
  <2> HIDE DEF es
  <2>3. ASSUME NEW n \in (Len(es) + 1)..(Len(es) + Len(specs))
        PROVE  log[n].payload = specs[n - Len(es)]
    BY <2>2
  <2>4. DOMAIN log = 1..Len(es) \cup (Len(es) + 1)..(Len(es) + Len(specs))
    BY <1>1, <2>2
  <2>5. EventsOf(k)' = {n \in DOMAIN log : /\ log[n].payload.type = k.transition
                                           /\ log[n].payload.run = k.run}
    BY <1>4, <2>1 DEF EventsOf
  <2>6. EventsOf(k) = {n \in 1..Len(es) : /\ log[n].payload.type = k.transition
                                          /\ log[n].payload.run = k.run}
    <3>1. EventsOf(k) = {n \in DOMAIN es : /\ es[n].payload.type = k.transition
                                           /\ es[n].payload.run = k.run}
      BY <1>4 DEF EventsOf, es
    <3>2. DOMAIN es = 1..Len(es)
      BY <1>1
    <3> QED BY <2>2, <3>1, <3>2
  <2>7. Recording(specs, Len(es), k)
        = {n \in (Len(es) + 1)..(Len(es) + Len(specs)) :
            /\ log[n].payload.type = k.transition
            /\ log[n].payload.run = k.run}
    BY <2>3 DEF Recording
  <2>8. EventsOf(k)' = EventsOf(k) \cup Recording(specs, Len(es), k)
    BY <2>4, <2>5, <2>6, <2>7
  <2> QED BY <1>4, <2>8 DEF es
<1> QED BY <1>3, <1>4

-----------------------------------------------------------------------------
(* Exactly-once transitions                                                *)

\* A commit of another request gives no event to any key.
LEMMA CommitSparesKeys ==
  ASSUME IInv, NEW p \in Process, Commit(p)
  PROVE  idem' = idem /\ \A k \in Key : EventsOf(k)' = EventsOf(k)
<1>0. TypeOK /\ JobsGood
  BY DEF IInv
<1>1. PICK i \in Incident, specs \in Seq(Payload), n \in Nat :
        /\ i = job[p].incident /\ specs = job[p].specs
        /\ events[i] \in Seq(Event) /\ n = Len(events[i])
        /\ events' = [events EXCEPT ![i] = events[i] \o Stamp(n, specs)]
  BY CommitWrites
<1>2. \A m \in DOMAIN specs : specs[m].run \notin Run
  BY <1>0, <1>1 DEF Commit, JobsGood, Busy, GoodJob
<1>3. idem' = idem
  BY DEF Commit
<1>4. ASSUME NEW k \in Key
      PROVE  EventsOf(k)' = EventsOf(k)
  <2>1. k.run \in Run
    BY DEF Key
  <2>2. \A m \in (n + 1)..(n + Len(specs)) : m - n \in DOMAIN specs
    OBVIOUS
  <2>3. Recording(specs, n, k) = {}
    BY <1>2, <2>1, <2>2 DEF Recording
  <2>4. CASE k.incident = i
    <3>1. EventsOf(k)' = EventsOf(k) \cup Recording(specs, n, k)
      BY <1>0, <1>1, <2>4, EventsOfAppended
    <3> QED BY <2>3, <3>1
  <2>5. CASE k.incident # i
    BY <1>0, <1>1, <2>5, EventsOfAppended
  <2> QED BY <2>4, <2>5
<1> QED BY <1>3, <1>4

\* A transition's commit gives one event, the next of its incident, to its own
\* key, which had none, and records its fingerprint.
LEMMA CommitRecordsKey ==
  ASSUME IInv, NEW p \in Process, CommitLifecycle(p)
  PROVE  \E key \in Key, fp \in Fingerprint, n \in Nat :
           /\ n = Len(events[key.incident])
           /\ Len(events'[key.incident]) = n + 1
           /\ \A i \in Incident \ {key.incident} : events'[i] = events[i]
           /\ idem[key] = None /\ EventsOf(key) = {}
           /\ idem' = [idem EXCEPT ![key] = fp]
           /\ EventsOf(key)' = {n + 1}
           /\ \A k \in Key \ {key} : EventsOf(k)' = EventsOf(k) /\ idem'[k] = idem[k]
<1>0. TypeOK /\ ExactlyOnce /\ JobsGood
  BY DEF IInv
<1>1. PICK i \in Incident, specs \in Seq(Payload), n \in Nat :
        /\ i = job[p].incident /\ specs = job[p].specs
        /\ events[i] \in Seq(Event) /\ n = Len(events[i])
        /\ events' = [events EXCEPT ![i] = events[i] \o Stamp(n, specs)]
  BY CommitWrites
<1>2. PICK key \in Key, fp \in Fingerprint :
        /\ key.incident = i
        /\ specs = <<Diagnosis(key.transition, key.run)>>
        /\ idem[key] = None
        /\ idem' = [idem EXCEPT ![key] = fp]
  BY <1>0, <1>1 DEF CommitLifecycle, JobsGood, Busy, GoodJob
<1>3. Len(specs) = 1 /\ specs[1].type = key.transition /\ specs[1].run = key.run
  BY <1>2, PayloadRun
<1>4. (n + 1)..(n + Len(specs)) = {n + 1} /\ (n + 1) - n = 1
  BY <1>3
<1>5. Recording(specs, n, key) = {n + 1}
  BY <1>3, <1>4 DEF Recording
<1>6. EventsOf(key) = {}
  BY <1>0, <1>2 DEF ExactlyOnce
<1>7. EventsOf(key)' = {n + 1}
  BY <1>0, <1>1, <1>2, <1>5, <1>6, EventsOfAppended
<1>8. ASSUME NEW k \in Key \ {key}
      PROVE  EventsOf(k)' = EventsOf(k) /\ idem'[k] = idem[k]
  <2>1. idem'[k] = idem[k]
    BY <1>0, <1>2, <1>8 DEF TypeOK
  <2>0. k \in Key /\ k # key
    BY <1>8
  <2>2. CASE k.incident # i
    <3>1. EventsOf(k)' = EventsOf(k)
      BY <1>0, <1>1, <2>0, <2>2, EventsOfAppended
    <3> QED BY <2>1, <3>1
  <2>3. CASE k.incident = i
    <3>1. k.transition # key.transition \/ k.run # key.run
      BY <1>2, <2>0, <2>3 DEF Key
    <3>2. Recording(specs, n, k) = {}
      BY <1>3, <1>4, <3>1 DEF Recording
    <3>3. EventsOf(k)' = EventsOf(k) \cup Recording(specs, n, k)
      BY <1>0, <1>1, <2>0, <2>3, EventsOfAppended
    <3> QED BY <2>1, <3>2, <3>3
  <2> QED BY <2>2, <2>3
<1>9. /\ Len(events'[i]) = n + 1
      /\ \A h \in Incident \ {i} : events'[h] = events[h]
  <2> DEFINE es == events[i]
  <2>1. events'[i] = es \o Stamp(Len(es), specs)
    BY <1>0, <1>1 DEF TypeOK
  <2>2. es \in Seq(Event) /\ n = Len(es)
    BY <1>1
  <2> HIDE DEF es
  <2>4. Len(events'[i]) = n + Len(specs)
    BY <2>1, <2>2, Appended
  <2>3. \A h \in Incident \ {i} : events'[h] = events[h]
    BY <1>0, <1>1 DEF TypeOK
  <2> QED BY <1>3, <2>3, <2>4
<1> QED BY <1>1, <1>2, <1>6, <1>7, <1>8, <1>9

\* Every step keeps each key at one event if recorded, and none otherwise.
LEMMA NextExactlyOnce ==
  ASSUME IInv, [Next]_vars
  PROVE  ExactlyOnce'
<1>0. TypeOK /\ ExactlyOnce
  BY DEF IInv
<1>1. CASE ~\E p \in Process : Commit(p) \/ CommitLifecycle(p)
  <2>1. events' = events /\ idem' = idem
    BY <1>1, OnlyCommitsWrite
  <2>2. \A k \in Key : EventsOf(k)' = EventsOf(k)
    BY <2>1 DEF EventsOf
  <2> QED BY <1>0, <2>1, <2>2 DEF ExactlyOnce
<1>2. ASSUME NEW p \in Process, Commit(p)
      PROVE  ExactlyOnce'
  BY <1>0, <1>2, CommitSparesKeys DEF ExactlyOnce
<1>3. ASSUME NEW p \in Process, CommitLifecycle(p)
      PROVE  ExactlyOnce'
  <2>1. PICK key \in Key, fp \in Fingerprint, n \in Nat :
          /\ idem' = [idem EXCEPT ![key] = fp]
          /\ EventsOf(key)' = {n + 1}
          /\ \A k \in Key \ {key} : EventsOf(k)' = EventsOf(k) /\ idem'[k] = idem[k]
    BY <1>3, CommitRecordsKey
  <2>2. idem'[key] # None
    BY <1>0, <2>1, ConstantsAssumption DEF TypeOK
  <2>3. ASSUME NEW k \in Key
        PROVE  /\ idem'[k] # None <=> EventsOf(k)' # {}
               /\ \A m1, m2 \in EventsOf(k)' : m1 = m2
    <3>1. CASE k = key
      BY <2>1, <2>2, <3>1
    <3>2. CASE k # key
      BY <1>0, <2>1, <3>2 DEF ExactlyOnce
    <3> QED BY <3>1, <3>2
  <2> QED BY <2>3 DEF ExactlyOnce
<1> QED BY <1>1, <1>2, <1>3

-----------------------------------------------------------------------------
(* Replies                                                                 *)

\* An idempotency row is never changed.
LEMMA IdemStable ==
  ASSUME IInv, [Next]_vars, NEW k \in Key, idem[k] # None
  PROVE  idem'[k] = idem[k]
<1>0. TypeOK
  BY DEF IInv
<1>1. CASE ~\E p \in Process : Commit(p) \/ CommitLifecycle(p)
  BY <1>1, OnlyCommitsWrite
<1>2. ASSUME NEW p \in Process, Commit(p)
      PROVE  idem'[k] = idem[k]
  BY <1>2 DEF Commit
<1>3. ASSUME NEW p \in Process, CommitLifecycle(p)
      PROVE  idem'[k] = idem[k]
  BY <1>0, <1>3 DEF CommitLifecycle, TypeOK
<1> QED BY <1>1, <1>2, <1>3

\* A process reaches the refresh of a transition only over its idempotency row.
LEMMA NextRefresh ==
  ASSUME IInv, [Next]_vars
  PROVE  RefreshDurable'
<1>0. TypeOK /\ JobsGood /\ RefreshDurable
  BY DEF IInv
<1>1. ASSUME \A q \in Process : pc'[q] = "refresh" => pc[q] = "refresh" /\ job'[q] = job[q]
      PROVE  RefreshDurable'
  <2> SUFFICES ASSUME NEW q \in Process, pc'[q] = "refresh", job'[q].op = "lifecycle"
               PROVE  idem'[job'[q].key] = job'[q].fingerprint
    BY DEF RefreshDurable
  <2>1. pc[q] = "refresh" /\ job'[q] = job[q]
    BY <1>1
  <2>2. /\ job[q].key \in Key /\ job[q].fingerprint \in Fingerprint
        /\ idem[job[q].key] = job[q].fingerprint
    BY <1>0, <2>1 DEF JobsGood, Busy, GoodJob, RefreshDurable
  <2>3. PICK k \in Key, f \in Fingerprint : k = job[q].key /\ f = job[q].fingerprint
    BY <2>2
  <2>4. idem[k] = f /\ f # None
    BY <2>2, <2>3, ConstantsAssumption
  <2>5. idem'[k] = f
    BY <2>4, IdemStable
  <2> QED BY <2>1, <2>3, <2>5
<1>2. ASSUME NEW p \in Process, pc' = [pc EXCEPT ![p] = "refresh"], job' = job,
             job[p].op = "lifecycle" => idem'[job[p].key] = job[p].fingerprint
      PROVE  RefreshDurable'
  <2> SUFFICES ASSUME NEW q \in Process, pc'[q] = "refresh", job'[q].op = "lifecycle"
               PROVE  idem'[job'[q].key] = job'[q].fingerprint
    BY DEF RefreshDurable
  <2>1. CASE q = p
    BY <1>2, <2>1
  <2>2. CASE q # p
    <3>1. pc[q] = "refresh" /\ job'[q] = job[q]
      BY <1>0, <1>2, <2>2 DEF TypeOK
    <3>2. /\ job[q].key \in Key /\ job[q].fingerprint \in Fingerprint
          /\ idem[job[q].key] = job[q].fingerprint
      BY <1>0, <3>1 DEF JobsGood, Busy, GoodJob, RefreshDurable
    <3>3. PICK k \in Key, f \in Fingerprint : k = job[q].key /\ f = job[q].fingerprint
      BY <3>2
    <3>4. idem[k] = f /\ f # None
      BY <3>2, <3>3, ConstantsAssumption
    <3>5. idem'[k] = f
      BY <3>4, IdemStable
    <3> QED BY <3>1, <3>3, <3>5
  <2> QED BY <2>1, <2>2
<1>3. ASSUME NEW p \in Process, BeginLifecycle(p) /\ BeginReplay(p)
      PROVE  RefreshDurable'
  BY <1>2, <1>3 DEF BeginLifecycle, BeginReplay, durable
<1>4. ASSUME NEW p \in Process, CommitLifecycle(p)
      PROVE  RefreshDurable'
  <2>1. job[p].key \in Key
    BY <1>0, <1>4 DEF CommitLifecycle, JobsGood, Busy, GoodJob
  <2>2. idem'[job[p].key] = job[p].fingerprint
    BY <1>0, <1>4, <2>1 DEF CommitLifecycle, TypeOK
  <2> QED BY <1>2, <1>4, <2>2 DEF CommitLifecycle
<1>5. ASSUME NEW p \in Process, Commit(p)
      PROVE  RefreshDurable'
  <2>1. CASE job[p].op = "write"
    BY <1>0, <1>1, <1>5, <2>1 DEF Commit, TypeOK
  <2>2. CASE job[p].op # "write"
    BY <1>2, <1>5, <2>2 DEF Commit
  <2> QED BY <2>1, <2>2
<1>6. ASSUME NEW p \in Process,
             \/ Begin(p) \/ (BeginLifecycle(p) /\ ~BeginReplay(p))
             \/ Abort(p) \/ Publish(p) \/ Refresh(p) \/ RefreshFails(p)
      PROVE  RefreshDurable'
  <2>1. /\ \E s \in {"idle", "txn"} : pc' = [pc EXCEPT ![p] = s]
        /\ \A q \in Process \ {p} : job'[q] = job[q]
    BY <1>0, <1>6 DEF Begin, BeginLifecycle, BeginFirst, BeginMismatch, BeginNotFound,
                      Abort, Publish, Refresh, RefreshFails, Leave, TypeOK
  <2> QED BY <1>0, <1>1, <2>1 DEF TypeOK
<1>7. ASSUME NEW p \in Process, Step(p)
      PROVE  RefreshDurable'
  BY <1>3, <1>4, <1>5, <1>6, <1>7 DEF Step
<1>8. ASSUME NEW p \in Process, Request(p)
      PROVE  RefreshDurable'
  <2>1. PICK j : Admit(p, j)
    BY <1>0, <1>8, RequestAdmits
  <2> QED BY <1>0, <1>1, <2>1 DEF Admit, TypeOK
<1>9. ASSUME NEW p \in Process, Rebuild(p) \/ Crash(p) \/ Restart(p)
      PROVE  RefreshDurable'
  <2>1. \/ UNCHANGED <<pc, job>>
        \/ pc' = [pc EXCEPT ![p] = "down"] /\ job' = [job EXCEPT ![p] = None]
        \/ pc' = [pc EXCEPT ![p] = "idle"] /\ UNCHANGED job
    BY <1>9 DEF Rebuild, RebuildRows, RebuildClear, RebuildLoad, RebuildInstall,
                Crash, Restart
  <2> QED BY <1>0, <1>1, <2>1 DEF TypeOK
<1>10. CASE Truncate \/ UNCHANGED vars
  BY <1>1, <1>10 DEF Truncate, vars
<1> QED BY <1>7, <1>8, <1>9, <1>10 DEF Next

\* Only a mismatch and the refresh of a transition answer a client, each on
\* the strength of the durable fingerprint, and neither touches the tables.
LEMMA OnlyTheseAnswer ==
  ASSUME IInv, [Next]_vars, replies' # replies
  PROVE  \E k \in Key, f \in Fingerprint, outcome \in {"applied", "replay_mismatch"} :
           /\ replies' = replies \cup
                {[key |-> k, fingerprint |-> f, outcome |-> outcome]}
           /\ IF outcome = "applied" THEN idem[k] = f ELSE idem[k] \notin {None, f}
           /\ UNCHANGED durable
<1>0. TypeOK /\ JobsGood /\ RefreshDurable
  BY DEF IInv
<1>1. ASSUME NEW p \in Process, BeginLifecycle(p), BeginMismatch(p)
      PROVE  /\ job[p].key \in Key /\ job[p].fingerprint \in Fingerprint
             /\ replies' = replies \cup {[key |-> job[p].key,
                                          fingerprint |-> job[p].fingerprint,
                                          outcome |-> "replay_mismatch"]}
             /\ idem[job[p].key] \notin {None, job[p].fingerprint}
             /\ UNCHANGED durable
  BY <1>0, <1>1 DEF BeginLifecycle, BeginMismatch, Reply, durable, JobsGood, Busy, GoodJob
<1>2. ASSUME NEW p \in Process, Refresh(p), job[p].op = "lifecycle"
      PROVE  /\ job[p].key \in Key /\ job[p].fingerprint \in Fingerprint
             /\ replies' = replies \cup {[key |-> job[p].key,
                                          fingerprint |-> job[p].fingerprint,
                                          outcome |-> "applied"]}
             /\ idem[job[p].key] = job[p].fingerprint
             /\ UNCHANGED durable
  BY <1>0, <1>2 DEF Refresh, Reply, durable, RefreshDurable, JobsGood, Busy, GoodJob
<1>3. ASSUME NEW p \in Process, Step(p)
      PROVE  \/ BeginLifecycle(p) /\ BeginMismatch(p)
             \/ Refresh(p) /\ job[p].op = "lifecycle"
  BY <1>3 DEF Step, Begin, BeginLifecycle, BeginFirst, BeginReplay, BeginNotFound,
              Commit, CommitLifecycle, Abort, Publish, Refresh, RefreshFails
<1>4. ASSUME NEW p \in Process, Request(p)
      PROVE  FALSE
  BY <1>0, <1>4, RequestAdmits DEF Admit
<1>5. ASSUME NEW p \in Process, Rebuild(p) \/ Crash(p) \/ Restart(p)
      PROVE  FALSE
  BY <1>5 DEF Rebuild, RebuildRows, RebuildClear, RebuildLoad, RebuildInstall,
              Crash, Restart
<1>6. ~(Truncate \/ UNCHANGED vars)
  BY DEF Truncate, vars
<1> QED BY <1>1, <1>2, <1>3, <1>4, <1>5, <1>6 DEF Next

\* What was answered stays true, as idempotency rows are never changed.
LEMMA NextReplies ==
  ASSUME IInv, [Next]_vars
  PROVE  RepliesTruthful'
<1>0. TypeOK /\ RepliesTruthful
  BY DEF IInv
<1>1. ASSUME NEW r \in replies
      PROVE  /\ r.outcome = "applied" => idem'[r.key] = r.fingerprint
             /\ r.outcome # "applied" => idem'[r.key] \notin {None, r.fingerprint}
  <2>1. r.key \in Key /\ r.fingerprint \in Fingerprint
    BY <1>0 DEF TypeOK
  <2>2. idem[r.key] # None
    BY <1>0, <2>1, ConstantsAssumption DEF RepliesTruthful
  <2>3. idem'[r.key] = idem[r.key]
    BY <2>1, <2>2, IdemStable
  <2> QED BY <1>0, <2>3 DEF RepliesTruthful
<1>2. CASE UNCHANGED replies
  BY <1>1, <1>2 DEF RepliesTruthful
<1>3. CASE replies' # replies
  <2>1. PICK k \in Key, f \in Fingerprint, outcome \in {"applied", "replay_mismatch"} :
          /\ replies' = replies \cup
               {[key |-> k, fingerprint |-> f, outcome |-> outcome]}
          /\ IF outcome = "applied" THEN idem[k] = f ELSE idem[k] \notin {None, f}
          /\ idem' = idem
    BY <1>3, OnlyTheseAnswer DEF durable
  <2> QED BY <1>1, <2>1 DEF RepliesTruthful
<1> QED BY <1>2, <1>3

-----------------------------------------------------------------------------
(* The theorems                                                            *)

LEMMA InitInv == Init => IInv
<1> SUFFICES ASSUME Init PROVE IInv
  OBVIOUS
<1>1. TypeOK /\ JobsGood
  BY InitTyped
<1>2. LoadedGood /\ OneTransaction /\ BaseFresh /\ RefreshDurable
  BY DEF Init, LoadedGood, OneTransaction, BaseFresh, RefreshDurable
<1>3. \A i \in Incident : events[i] = <<>> /\ row[i] = None
  BY DEF Init
<1>4. Ledger /\ RowIsCurrent
  BY <1>3 DEF Ledger, RowIsCurrent
<1>5. \A k \in Key : idem[k] = None /\ EventsOf(k) = {}
  <2>1. \A k \in Key : k.incident \in Incident
    BY DEF Key
  <2> QED BY <1>3, <2>1 DEF Init, EventsOf
<1>6. ExactlyOnce /\ RepliesTruthful
  BY <1>5 DEF ExactlyOnce, RepliesTruthful, Init
<1> QED BY <1>1, <1>2, <1>4, <1>6 DEF IInv

LEMMA NextInv == IInv /\ [Next]_vars => IInv'
  BY NextTyped, NextLoaded, NextTransaction, NextLedger, NextExactlyOnce,
     NextRefresh, NextReplies DEF IInv

\* The inductive invariant holds in every reachable state.
THEOREM Invariance == Spec => []IInv
<1>1. Init => IInv
  BY InitInv
<1>2. IInv /\ [Next]_vars => IInv'
  BY NextInv
<1> QED BY <1>1, <1>2, PTL DEF Spec

\* Every variable keeps its type.
THEOREM TypesCorrect == Spec => []TypeOK
<1>1. IInv => TypeOK
  BY DEF IInv
<1> QED BY <1>1, Invariance, PTL

\* Event versions are 1, 2, 3, ... for any number of processes and crashes.
THEOREM LedgerCorrect == Spec => []Ledger
<1>1. IInv => Ledger
  BY DEF IInv
<1> QED BY <1>1, Invariance, PTL

\* A row of incident_current always shows the last event of its incident.
THEOREM RowsCurrent == Spec => []RowIsCurrent
<1>1. IInv => RowIsCurrent
  BY DEF IInv
<1> QED BY <1>1, Invariance, PTL

\* A requested transition is recorded exactly once, whoever retries it.
THEOREM TransitionsExactlyOnce == Spec => []ExactlyOnce
<1>1. IInv => ExactlyOnce
  BY DEF IInv
<1> QED BY <1>1, Invariance, PTL

\* What the transition endpoint answered stays true.
THEOREM RepliesStayTrue == Spec => []RepliesTruthful
<1>1. IInv => RepliesTruthful
  BY DEF IInv
<1> QED BY <1>1, Invariance, PTL

-----------------------------------------------------------------------------
(* The transition endpoint is an idempotent register                       *)

LEMMA RegisterInit == Init => Register!Init
<1> SUFFICES ASSUME Init PROVE Register!Init
  OBVIOUS
<1>1. \A i \in Incident : events[i] = <<>> /\ Len(events[i]) = 0
  BY DEF Init
<1>2. [i \in Incident |-> Len(events[i])] = [i \in Incident |-> 0]
  BY <1>1
<1>3. \A k \in Key : EventsOf(k) = {}
  <2>1. \A k \in Key : k.incident \in Incident
    BY DEF Key
  <2> QED BY <1>1, <2>1 DEF EventsOf
<1>4. [k \in Key |-> EventsOf(k)] = [k \in Key |-> {}]
  BY <1>3
<1> QED BY <1>2, <1>4 DEF Init, Register!Init

\* A commit is an append or a record, an answer an acknowledgement or a
\* refusal; the register sees no other step.
LEMMA RegisterNext ==
  ASSUME IInv, [Next]_vars
  PROVE  [Register!Next]_(Register!vars)
<1> DEFINE length == [i \in Incident |-> Len(events[i])]
           positions == [k \in Key |-> EventsOf(k)]
<1>0. TypeOK
  BY DEF IInv
<1>1. ASSUME replies' # replies
      PROVE  Register!Next
  <2>1. PICK k \in Key, f \in Fingerprint, outcome \in {"applied", "replay_mismatch"} :
          /\ replies' = replies \cup
               {[key |-> k, fingerprint |-> f, outcome |-> outcome]}
          /\ IF outcome = "applied" THEN idem[k] = f ELSE idem[k] \notin {None, f}
          /\ UNCHANGED <<events, idem>>
    BY <1>1, OnlyTheseAnswer DEF durable
  <2>2. length' = length /\ positions' = positions
    BY <2>1 DEF EventsOf
  <2>3. Register!Answer(k, f, outcome)
    BY <2>1, <2>2 DEF Register!Answer
  <2>4. Register!Acknowledge(k, f) \/ Register!Refuse(k, f)
    BY <2>1, <2>3 DEF Register!Acknowledge, Register!Refuse
  <2> QED BY <2>4 DEF Register!Next
<1>2. ASSUME NEW p \in Process, Commit(p), replies' = replies
      PROVE  Register!Next
  <2>1. PICK i \in Incident, specs \in Seq(Payload), n \in Nat :
          /\ Len(specs) \in {1, 2}
          /\ events[i] \in Seq(Event) /\ n = Len(events[i])
          /\ events' = [events EXCEPT ![i] = events[i] \o Stamp(n, specs)]
    BY <1>2, CommitWrites
  <2>2. idem' = idem /\ positions' = positions
    BY <1>2, CommitSparesKeys
  <2>3. length' = [length EXCEPT ![i] = length[i] + Len(specs)]
    <3> DEFINE es == events[i]
    <3>1. events'[i] = es \o Stamp(Len(es), specs)
      BY <1>0, <2>1 DEF TypeOK
    <3>2. es \in Seq(Event)
      BY <2>1
    <3> HIDE DEF es
    <3>3. Len(events'[i]) = Len(es) + Len(specs)
      BY <3>1, <3>2, Appended
    <3>4. \A h \in Incident \ {i} : events'[h] = events[h]
      BY <1>0, <2>1 DEF TypeOK
    <3> QED BY <3>3, <3>4 DEF es
  <2> HIDE DEF length, positions
  <2>4. Register!AppendOther(i)
    BY <1>2, <2>1, <2>2, <2>3 DEF Register!AppendOther, length, positions
  <2> QED BY <2>4 DEF Register!Next
<1>3. ASSUME NEW p \in Process, CommitLifecycle(p), replies' = replies
      PROVE  Register!Next
  <2>1. PICK k \in Key, f \in Fingerprint, n \in Nat :
          /\ n = Len(events[k.incident])
          /\ Len(events'[k.incident]) = n + 1
          /\ \A i \in Incident \ {k.incident} : events'[i] = events[i]
          /\ idem[k] = None
          /\ idem' = [idem EXCEPT ![k] = f]
          /\ EventsOf(k)' = {n + 1}
          /\ \A q \in Key \ {k} : EventsOf(q)' = EventsOf(q)
    BY <1>3, CommitRecordsKey
  <2>2. k.incident \in Incident
    BY DEF Key
  <2>3. length' = [length EXCEPT ![k.incident] = length[k.incident] + 1]
    BY <2>1, <2>2
  <2>4. positions' = [positions EXCEPT ![k] = {length[k.incident] + 1}]
    BY <2>1, <2>2
  <2> HIDE DEF length, positions
  <2>5. Register!Record(k, f)
    BY <1>3, <2>1, <2>3, <2>4 DEF Register!Record, length, positions
  <2> QED BY <2>5 DEF Register!Next
<1>4. CASE /\ replies' = replies
           /\ ~\E p \in Process : Commit(p) \/ CommitLifecycle(p)
  <2>1. UNCHANGED <<events, idem>>
    BY <1>4, OnlyCommitsWrite
  <2>2. length' = length /\ positions' = positions
    BY <2>1 DEF EventsOf
  <2> QED BY <1>4, <2>1, <2>2 DEF Register!vars
<1> QED BY <1>1, <1>2, <1>3, <1>4

\* For any processes, requests, crashes, rebuilds and truncations, the store
\* implements the register.
THEOREM StoreImplementsRegister == Spec => ImplementsRegister
<1>1. Init => Register!Init
  BY RegisterInit
<1>2. IInv /\ [Next]_vars => [Register!Next]_(Register!vars)
  BY RegisterNext
<1> QED BY <1>1, <1>2, Invariance, PTL DEF Spec, ImplementsRegister, Register!Spec

-----------------------------------------------------------------------------
(* What a transaction meets when it commits                                *)

\* The key of a transition in a transaction is unused and its incident exists:
\* what was looked up after BEGIN still holds at the commit.
LookupHolds == \A p \in Process :
  pc[p] = "txn" /\ job[p].op = "lifecycle"
    => idem[job[p].key] = None /\ row[job[p].incident] # None

\* No constraint of the database ever refuses a commit: the versions that it
\* takes are unused (idx_incident_events_incident_version), and so is the key
\* of a transition (the primary key of incident_event_idempotency), whose
\* incident has a row to update.
CommitsUnrefused ==
  /\ LookupHolds
  /\ \A p \in Process : pc[p] = "txn" => VersionsUnused(job[p].incident, job[p].base)

LEMMA NextLookup ==
  ASSUME IInv, LookupHolds, [Next]_vars
  PROVE  LookupHolds'
<1>0. TypeOK /\ OneTransaction /\ JobsGood
  BY DEF IInv
<1>1. ASSUME NEW p \in Process, Begin(p) \/ (BeginLifecycle(p) /\ BeginFirst(p))
      PROVE  LookupHolds'
  <2>1. /\ DatabaseFree /\ pc[p] = "begin"
        /\ pc' = [pc EXCEPT ![p] = "txn"]
        /\ job' = [job EXCEPT ![p].base = Len(events[job[p].incident])]
        /\ UNCHANGED <<idem, row>>
        /\ job[p].op = "lifecycle" => idem[job[p].key] = None /\ row[job[p].incident] # None
    BY <1>1 DEF Begin, BeginLifecycle, BeginFirst, durable
  <2>2. \A q \in Process : pc'[q] = "txn" => q = p
    BY <1>0, <2>1 DEF TypeOK, DatabaseFree
  <2>3. job[p] \in Job
    BY <1>0, <2>1 DEF JobsGood, Busy, GoodJob
  <2> DEFINE n == Len(events[job[p].incident])
  <2>4. job'[p] = [job[p] EXCEPT !.base = n]
    BY <1>0, <2>1 DEF TypeOK
  <2> HIDE DEF n
  <2>5. /\ job'[p].op = job[p].op /\ job'[p].key = job[p].key
        /\ job'[p].incident = job[p].incident
    BY <2>3, <2>4 DEF Job
  <2> QED BY <2>1, <2>2, <2>5 DEF LookupHolds
<1>2. ASSUME UNCHANGED <<idem, row>>,
             \A q \in Process : pc'[q] = "txn" => pc[q] = "txn" /\ job'[q] = job[q]
      PROVE  LookupHolds'
  BY <1>2 DEF LookupHolds
<1>3. ASSUME NEW p \in Process, Commit(p) \/ CommitLifecycle(p)
      PROVE  LookupHolds'
  <2>1. /\ pc[p] = "txn"
        /\ \E s \in {"publish", "refresh"} : pc' = [pc EXCEPT ![p] = s]
    BY <1>3 DEF Commit, CommitLifecycle
  <2>2. \A q \in Process : pc'[q] # "txn"
    BY <1>0, <2>1 DEF TypeOK, OneTransaction
  <2> QED BY <2>2 DEF LookupHolds
<1>4. ASSUME NEW p \in Process, Step(p)
      PROVE  LookupHolds'
  <2>1. CASE \/ BeginLifecycle(p) /\ ~BeginFirst(p)
             \/ Abort(p) \/ Publish(p) \/ Refresh(p) \/ RefreshFails(p)
    <3>1. /\ UNCHANGED <<idem, row>>
          /\ \E s \in {"idle", "refresh"} : pc' = [pc EXCEPT ![p] = s]
          /\ UNCHANGED job \/ job' = [job EXCEPT ![p] = None]
      BY <2>1 DEF BeginLifecycle, BeginReplay, BeginMismatch, BeginNotFound, Abort,
                  Publish, Refresh, RefreshFails, Leave, durable
    <3>2. \A q \in Process : pc'[q] = "txn" => pc[q] = "txn" /\ job'[q] = job[q]
      BY <1>0, <3>1 DEF TypeOK
    <3> QED BY <1>2, <3>1, <3>2
  <2> QED BY <1>1, <1>3, <1>4, <2>1 DEF Step
<1>5. ASSUME NEW p \in Process, Request(p)
      PROVE  LookupHolds'
  <2>1. PICK j : Admit(p, j)
    BY <1>0, <1>5, RequestAdmits
  <2> QED BY <1>0, <1>2, <2>1 DEF Admit, TypeOK, durable
<1>6. ASSUME NEW p \in Process, Rebuild(p) \/ Crash(p) \/ Restart(p)
      PROVE  LookupHolds'
  <2>1. /\ UNCHANGED <<idem, row>>
        /\ \/ UNCHANGED <<pc, job>>
           \/ pc' = [pc EXCEPT ![p] = "down"] /\ job' = [job EXCEPT ![p] = None]
           \/ pc' = [pc EXCEPT ![p] = "idle"] /\ UNCHANGED job
    BY <1>6 DEF Rebuild, RebuildRows, RebuildClear, RebuildLoad, RebuildInstall,
                Crash, Restart, durable
  <2>2. \A q \in Process : pc'[q] = "txn" => pc[q] = "txn" /\ job'[q] = job[q]
    BY <1>0, <2>1 DEF TypeOK
  <2> QED BY <1>2, <2>1, <2>2
\* The rows are emptied only while no process runs.
<1>7. CASE Truncate
  BY <1>7 DEF Truncate, LookupHolds
<1>8. CASE UNCHANGED vars
  BY <1>2, <1>8 DEF vars, durable
<1> QED BY <1>4, <1>5, <1>6, <1>7, <1>8 DEF Next

\* The version that a process reads after BEGIN IMMEDIATE, and what it looks up
\* there, hold until it commits: neither index nor primary key ever refuses a
\* commit, for any number of processes (incident_store_sqlite.py,
\* _append_event_in_transaction).
THEOREM NoCommitIsRefused == Spec => []CommitsUnrefused
<1>1. Init => LookupHolds
  BY DEF Init, LookupHolds
<1>2. IInv /\ LookupHolds => CommitsUnrefused
  <2> SUFFICES ASSUME IInv, LookupHolds, NEW p \in Process, pc[p] = "txn"
               PROVE  VersionsUnused(job[p].incident, job[p].base)
    BY DEF CommitsUnrefused
  <2>1. job[p].incident \in Incident
    BY DEF IInv, JobsGood, Busy, GoodJob, Job
  <2>2. events[job[p].incident] \in Seq(Event)
    BY <2>1 DEF IInv, TypeOK
  <2>3. job[p].base = Len(events[job[p].incident])
    BY DEF IInv, BaseFresh
  <2>4. \A n \in DOMAIN events[job[p].incident] : events[job[p].incident][n].version = n
    BY <2>1 DEF IInv, Ledger
  <2> QED BY <2>2, <2>3, <2>4 DEF VersionsUnused
<1> QED BY <1>1, <1>2, NextLookup, Invariance, PTL DEF Spec

-----------------------------------------------------------------------------
(* What of Served needs no fairness                                        *)

\* A bound of the steps that a request has ahead of it.
Ahead(p) == CASE pc[p] = "begin" -> 3
              [] pc[p] = "txn" -> 2
              [] pc[p] \in {"publish", "refresh"} -> 1
              [] OTHER -> 0

\* Whatever moves a process that serves a request takes the request nearer to
\* its end: none is retried or starts over inside the store.
RequestsAdvance ==
  [][\A p \in Process : pc[p] \in Busy /\ pc'[p] # pc[p] => Ahead(p)' < Ahead(p)]_vars

\* A request takes at most three steps, from its admission to its end or to a
\* crash (_write_lock, incident_store_sqlite.py).
THEOREM RequestsEnd == Spec => RequestsAdvance
<1> DEFINE A == \A p \in Process :
                  pc[p] \in Busy /\ pc'[p] # pc[p] => Ahead(p)' < Ahead(p)
<1>1. IInv /\ [Next]_vars => A
  <2> SUFFICES ASSUME IInv, [Next]_vars PROVE A
    OBVIOUS
  <2>0. pc \in [Process -> {"down", "idle"} \cup Busy]
    BY DEF IInv, TypeOK, Busy
  <2>1. ASSUME NEW q \in Process, NEW from, NEW to, pc[q] = from,
               pc' = [pc EXCEPT ![q] = to],
               \/ from = "begin" /\ to \in {"txn", "refresh", "idle", "down"}
               \/ from = "txn" /\ to \in {"publish", "refresh", "idle", "down"}
               \/ from \in {"publish", "refresh"} /\ to \in {"idle", "down"}
               \/ from \in {"idle", "down"}
        PROVE  A
    <3> SUFFICES ASSUME NEW p \in Process, pc[p] \in Busy, pc'[p] # pc[p]
                 PROVE  Ahead(p)' < Ahead(p)
      OBVIOUS
    <3>1. p = q /\ pc'[p] = to
      BY <2>0, <2>1
    <3> QED BY <2>1, <3>1 DEF Ahead, Busy
  <2>2. ASSUME NEW q \in Process, Step(q) PROVE A
    <3>1. \E from, to : 
            /\ pc[q] = from /\ pc' = [pc EXCEPT ![q] = to]
            /\ \/ from = "begin" /\ to \in {"txn", "refresh", "idle"}
               \/ from = "txn" /\ to \in {"publish", "refresh", "idle"}
               \/ from \in {"publish", "refresh"} /\ to = "idle"
      BY <2>2 DEF Step, Begin, BeginLifecycle, BeginFirst, BeginReplay, BeginMismatch,
         BeginNotFound, Commit, CommitLifecycle, Abort, Publish, Refresh, RefreshFails, Leave
    <3> QED BY <2>1, <3>1
  <2>3. ASSUME NEW q \in Process, Request(q) PROVE A
    <3>1. PICK j : Admit(q, j)
      BY <2>3, RequestAdmits DEF IInv
    <3> QED BY <2>1, <3>1 DEF Admit
  <2>4. ASSUME NEW q \in Process, Crash(q) PROVE A
    <3>1. pc' = [pc EXCEPT ![q] = "down"] /\ pc[q] \in {"down", "idle"} \cup Busy
      BY <2>0, <2>4 DEF Crash
    <3> QED BY <2>1, <3>1 DEF Busy
  <2>5. ASSUME NEW q \in Process, Restart(q) PROVE A
    BY <2>1, <2>5 DEF Restart
  <2>6. ASSUME NEW q \in Process, Rebuild(q) PROVE A
    BY <2>6 DEF Rebuild, RebuildRows, RebuildClear, RebuildLoad, RebuildInstall
  <2>7. CASE Truncate \/ UNCHANGED vars
    BY <2>7 DEF Truncate, vars
  <2> QED BY <2>2, <2>3, <2>4, <2>5, <2>6, <2>7 DEF Next
<1> QED BY <1>1, Invariance, PTL DEF Spec, RequestsAdvance
=============================================================================
