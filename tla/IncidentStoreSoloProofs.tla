----------------------- MODULE IncidentStoreSoloProofs -----------------------
(***************************************************************************)
(* Theorems about IncidentStore for one process on the database file, as   *)
(* it is deployed: an incident is opened once, the cache covers the rows,  *)
(* no step takes evidence out of a row, and while promotions carry no      *)
(* bundle the store implements the lifecycle of the domain, over any       *)
(* number of crashes.                                                      *)
(***************************************************************************)
EXTENDS IncidentStoreProofs

\* One process, no rebuild and no truncation: with two processes, or with a
\* rebuild that clears the cache outside the write lock, the properties below
\* fail.
Solo == /\ \A p, q \in Process : p = q
        /\ "rebuild" \notin Operations
        /\ MaxTruncations = 0

\* A promotion with a bundle gives the row the status collecting_evidence
\* and the cached aggregate another one.
NoBundles == PromotionBundle = {}

\* Aggregate s knows every signal and link of row r, shows its status while
\* there are no bundles, and with them still knows that it is closed.
Covers(s, r) == r # None => /\ s # None
                            /\ r.state.signals \subseteq s.signals
                            /\ r.state.links \subseteq s.links
                            /\ r.state.status \in Protected => s.status \in Protected
                            /\ NoBundles => s.status = r.state.status

\* The lifecycle lets row r get the status `to'.
Moved(r, to) == IF r = None THEN to = "open"
                ELSE \/ to = r.state.status
                     \/ \E m \in DOMAIN Moves : /\ r.state.status \in Moves[m]
                                                /\ to = StatusOf[m]

\* Module DiagnosisStatus lets row r get the status `to'.
Followed(r, to) == /\ r = None => to \notin Protected
                   /\ r = None \/ r.state.status \in Protected => to # "ready_for_review"

\* The events of job j, projected on row r, lose none of its evidence and move
\* it along the lifecycle; what a write is going to publish covers the result;
\* only the first event opens an incident, and only one without a row.
Keeps(j, r) ==
  LET s == Projected(r, 0, j.specs).state IN
  /\ r # None => /\ r.state.signals \subseteq s.signals
                 /\ r.state.links \subseteq s.links
  /\ IF j.op = "write"
     THEN /\ j.next # None
          /\ s.signals \subseteq j.next.signals
          /\ s.links \subseteq j.next.links
          /\ s.status \in Protected => j.next.status \in Protected
          /\ Followed(r, s.status)
          /\ NoBundles => s.status = j.next.status /\ Moved(r, s.status)
     ELSE r # None => /\ s.signals = r.state.signals /\ s.links = r.state.links
                      /\ s.status = r.state.status
  /\ j.op = "mark" => r # None
  /\ \A n \in DOMAIN j.specs : j.specs[n].type = "opened" => n = 1 /\ r = None

\* The admitted request still has, in its transaction, the row it was decided on.
JobsKeep == \A p \in Process : pc[p] \in {"begin", "txn"} =>
  /\ Keeps(job[p], row[job[p].incident])
  /\ pc[p] = "txn" /\ job[p].op = "lifecycle" => row[job[p].incident] # None

\* Every row is covered by the cache, or by the aggregate about to be cached.
Covered == \A p \in Process, i \in Incident : pc[p] # "down" =>
  Covers(IF pc[p] = "publish" /\ i = job[p].incident THEN job[p].next
         ELSE cache[p][i], row[i])

\* What is cached, or about to be, has a row; what has no row has no event.
CacheKnown ==
  \A p \in Process :
    /\ \A i \in Incident : cache[p][i] # None => row[i] # None
    /\ pc[p] = "publish" => row[job[p].incident] # None
RowsLogged == \A i \in Incident : row[i] = None => events[i] = <<>>

\* A row has a status, as its first event opened the incident.
StatusKnown == NoBundles => \A i \in Incident :
                 row[i] # None => row[i].state.status \in Status

\* No operation that Solo excludes is on its way.
Undisturbed == truncations = 0 /\ \A p \in Process : rebuild[p] = "none"

SoloInv == /\ Solo
           /\ Undisturbed
           /\ RowsLogged
           /\ CacheKnown
           /\ Covered
           /\ JobsKeep
           /\ StatusKnown
           /\ OpenedOnce

-----------------------------------------------------------------------------
(* The projection of the events of a request                               *)

LEMMA ProjectedOne ==
  ASSUME NEW r, NEW b, NEW e
  PROVE  Projected(r, b, <<e>>).state = apply_event_to_state(StateOf(r), e)
  BY DEF Projected, update_projection_for_event

LEMMA ProjectedTwo ==
  ASSUME NEW r \in Row \cup {None}, NEW b \in Nat, NEW e \in Payload, NEW f
  PROVE  Projected(r, b, <<e, f>>).state =
           apply_event_to_state(apply_event_to_state(StateOf(r), e), f)
<1> DEFINE first == update_projection_for_event(r, b + 1, e)
           s == apply_event_to_state(StateOf(r), e)
<1>1. StateOf(r) \in State
  BY BlankTyped DEF StateOf, Row
<1>2. s \in State
  BY <1>1, ApplyTyped
<1> HIDE DEF s
<1>3. first = [version |-> b + 1, state |-> s]
  BY DEF update_projection_for_event, s
<1>4. first \in Row
  BY <1>2, <1>3 DEF Row
<1>5. StateOf(first) = s
  BY <1>3, <1>4, NoneAssumption DEF StateOf
<1> HIDE DEF first
<1>6. Projected(r, b, <<e, f>>) = update_projection_for_event(first, b + 2, f)
  <2>1. Len(<<e, f>>) = 2 /\ <<e, f>>[1] = e /\ <<e, f>>[2] = f
    OBVIOUS
  <2> QED BY <2>1 DEF Projected, first
<1> QED BY <1>5, <1>6 DEF update_projection_for_event, s

\* The version that a transaction starts from does not enter the state.
LEMMA ProjectedState ==
  ASSUME NEW r \in Row \cup {None}, NEW b \in Nat, NEW specs \in Seq(Payload),
         Len(specs) \in {1, 2}
  PROVE  Projected(r, b, specs).state = Projected(r, 0, specs).state
<1>1. CASE Len(specs) = 1
  <2>1. specs = <<specs[1]>>
    BY <1>1
  <2> QED BY <2>1, ProjectedOne
<1>2. CASE Len(specs) = 2
  <2>1. PICK e \in Payload, f \in Payload : e = specs[1] /\ f = specs[2]
    BY <1>2
  <2>2. specs = <<e, f>>
    BY <1>2, <2>1
  <2>3. /\ Projected(r, b, <<e, f>>).state
             = apply_event_to_state(apply_event_to_state(StateOf(r), e), f)
        /\ Projected(r, 0, <<e, f>>).state
             = apply_event_to_state(apply_event_to_state(StateOf(r), e), f)
    BY ProjectedTwo
  <2> QED BY <2>2, <2>3
<1> QED BY <1>1, <1>2

\* What each kind of event does to the evidence of an aggregate.
LEMMA Evidence ==
  ASSUME NEW s, NEW e, NEW t, t = apply_event_to_state(s, e)
  PROVE  /\ e.type \notin {"opened", "signal_observed"} => t.signals = s.signals
         /\ e.type \in {"opened", "signal_observed"} =>
              t.signals = IF e.signals # None THEN e.signals ELSE s.signals
         /\ e.type # "opened" => t.links = IF e.links # None THEN e.links ELSE s.links
         /\ e.type = "opened" => t.links = {}
         /\ t.status = IF e.type \in DOMAIN StatusOf THEN StatusOf[e.type] ELSE s.status
  BY DEF apply_event_to_state

LEMMA Facts ==
  /\ \A t : Fact(t).type = t /\ Fact(t).links = None
  /\ \A sigs : /\ Opened(sigs).type = "opened" /\ Opened(sigs).signals = sigs
               /\ Observed(sigs).type = "signal_observed" /\ Observed(sigs).signals = sigs
               /\ Observed(sigs).links = None
  /\ \A b, ls : /\ Collecting(b, ls).type = "collecting_evidence_started"
                /\ Collecting(b, ls).links = ls
  /\ \A b, ls, sigs :
       LET e == [Collecting(b, ls) EXCEPT !.signals = sigs] IN
       e.type = "collecting_evidence_started" /\ e.links = ls
  /\ \A ls : Attached(ls).type = "evidence_attached" /\ Attached(ls).links = ls
  /\ \A t, r : Diagnosis(t, r).type = t /\ Diagnosis(t, r).links = None
  BY DEF Fact, Opened, Observed, Collecting, Attached, Diagnosis

-----------------------------------------------------------------------------
(* What the requests admit                                                 *)

\* A write of one event that opens nothing: it suffices that its payload
\* holds the evidence of the aggregate that was read, or none.
LEMMA KeepsOne ==
  ASSUME NEW i \in Incident, NEW r, NEW e, NEW next \in State, NEW s \in State,
         r # None, Covers(s, r),
         e.type # "opened",
         s.signals \subseteq next.signals, s.links \subseteq next.links,
         e.type = "signal_observed" => e.signals = next.signals,
         e.links = None \/ e.links = next.links,
         IF e.type \in DOMAIN StatusOf
         THEN \/ e.type = "collecting_evidence_started" /\ ~NoBundles
              \/ /\ e.type \in DOMAIN Moves
                 /\ s.status \in Moves[e.type]
                 /\ next.status = StatusOf[e.type]
         ELSE next.status = s.status
  PROVE  Keeps(Write(i, <<e>>, next), r)
<1> DEFINE j == Write(i, <<e>>, next)
           t == apply_event_to_state(r.state, e)
<1>1. j.specs = <<e>> /\ j.op = "write" /\ j.next = next
  BY DEF Write
<1>2. Projected(r, 0, j.specs).state = t
  BY <1>1, ProjectedOne DEF StateOf
<1>3. /\ t.signals = r.state.signals \/ t.signals = next.signals
      /\ t.links = r.state.links \/ t.links = next.links
  BY Evidence
<1>4. t.status = IF e.type \in DOMAIN StatusOf THEN StatusOf[e.type] ELSE r.state.status
  BY Evidence
<1>5. NoBundles => t.status = next.status /\ Moved(r, t.status)
  <2> HIDE DEF t
  <2> QED BY <1>4 DEF Covers, Moved
<1>6. next # None
  BY NoneAssumption
<1>9. /\ t.status \in Protected => next.status \in Protected
      /\ Followed(r, t.status)
  <2> HIDE DEF t
  <2>1. CASE e.type \notin DOMAIN StatusOf
    <3>1. t.status = r.state.status /\ next.status = s.status
      BY <1>4, <2>1
    <3> QED BY <3>1 DEF Covers, Followed, Protected
  <2>2. CASE e.type = "collecting_evidence_started"
    <3>1. t.status = "collecting_evidence"
      BY <1>4, <2>2 DEF StatusOf
    <3> QED BY <3>1 DEF Followed, Protected
  <2>3. CASE /\ e.type \in DOMAIN Moves /\ s.status \in Moves[e.type]
             /\ next.status = StatusOf[e.type] /\ e.type \in DOMAIN StatusOf
    <3>1. t.status = StatusOf[e.type]
      BY <1>4, <2>3
    <3>2. t.status = "ready_for_review" => s.status = "collecting_evidence"
      BY <2>3, <3>1 DEF StatusOf, Moves
    <3> QED BY <2>3, <3>1, <3>2 DEF Covers, Followed, Protected
  <2> QED BY <2>1, <2>2, <2>3
<1> HIDE DEF t, j
<1>7. \A n \in DOMAIN j.specs : j.specs[n].type # "opened"
  BY <1>1
<1>8. Keeps(j, r)
  BY <1>1, <1>2, <1>3, <1>5, <1>6, <1>7, <1>9 DEF Keeps, Covers
<1> QED BY <1>8 DEF j

\* A write that opens an incident without a row.
LEMMA KeepsOpen ==
  ASSUME NEW i \in Incident, NEW sigs \in SUBSET Signal
  PROVE  /\ Keeps(Write(i, <<Opened(sigs)>>, open_incident(sigs)), None)
         /\ \A b \in PromotionBundle :
              Keeps(Write(i, <<Opened(sigs), Collecting(b, {b})>>,
                          open_incident_with_bundle(sigs, b)), None)
<1> DEFINE t == apply_event_to_state(Blank, Opened(sigs))
<1>1. t.signals \subseteq sigs /\ t.links = {}
  <2>1. Blank.signals = {}
    BY DEF Blank
  <2> QED BY <2>1, Evidence, Facts
<1>2. t.status = "open"
  <2>1. "opened" \in DOMAIN StatusOf /\ StatusOf["opened"] = "open"
    BY DEF StatusOf
  <2> QED BY <2>1, Evidence, Facts
<1>3. StateOf(None) = Blank
  BY DEF StateOf
<1>4. Keeps(Write(i, <<Opened(sigs)>>, open_incident(sigs)), None)
  <2> DEFINE j == Write(i, <<Opened(sigs)>>, open_incident(sigs))
  <2>1. j.specs = <<Opened(sigs)>> /\ j.op = "write" /\ j.next = open_incident(sigs)
    BY DEF Write
  <2>2. Projected(None, 0, j.specs).state = t
    BY <1>3, <2>1, ProjectedOne
  <2>3. j.next # None
    BY <2>1, OpenTyped, NoneAssumption
  <2>4. j.next.signals = sigs /\ j.next.status = "open"
    BY <2>1 DEF open_incident, Blank
  <2>5. \A n \in DOMAIN j.specs : n = 1
    BY <2>1
  <2> HIDE DEF j, t
  <2>6. Keeps(j, None)
    BY <1>1, <1>2, <2>1, <2>2, <2>3, <2>4, <2>5 DEF Keeps, Moved, Followed, Protected
  <2> QED BY <2>6 DEF j
<1>5. ASSUME NEW b \in PromotionBundle
      PROVE  Keeps(Write(i, <<Opened(sigs), Collecting(b, {b})>>,
                         open_incident_with_bundle(sigs, b)), None)
  <2> DEFINE e == Opened(sigs)
             f == Collecting(b, {b})
             next == open_incident_with_bundle(sigs, b)
             j == Write(i, <<e, f>>, next)
             u == apply_event_to_state(t, f)
  <2>1. j.specs = <<e, f>> /\ j.op = "write" /\ j.next = next
    BY DEF Write
  <2>2. e \in Payload
    BY PayloadTyped
  <2>3. Projected(None, 0, j.specs).state = u
    <3> HIDE DEF e, f, j
    <3>1. Projected(None, 0, <<e, f>>).state
            = apply_event_to_state(apply_event_to_state(StateOf(None), e), f)
      BY <2>2, ProjectedTwo
    <3> QED BY <1>3, <2>1, <3>1 DEF e
  <2>4. next # None /\ ~NoBundles
    BY OpenTyped, NoneAssumption, ConstantsAssumption DEF NoBundles
  <2>5. next.signals = sigs /\ next.links = {b}
    BY DEF open_incident_with_bundle, open_incident, Blank
  <2>6. u.signals = t.signals /\ u.links \subseteq {b}
    BY <1>1, Evidence, Facts
  <2>7. f.type # "opened"
    BY Facts
  <2>10. u.status = "collecting_evidence"
    <3>1. f.type = "collecting_evidence_started"
      BY Facts
    <3>2. /\ "collecting_evidence_started" \in DOMAIN StatusOf
          /\ StatusOf["collecting_evidence_started"] = "collecting_evidence"
      BY DEF StatusOf
    <3> HIDE DEF f
    <3> QED BY <3>1, <3>2, Evidence
  <2> HIDE DEF e, f, next, j, u, t
  <2>8. \A n \in DOMAIN j.specs : j.specs[n].type = "opened" => n = 1
    BY <2>1, <2>7
  <2>9. Keeps(j, None)
    BY <1>1, <2>1, <2>3, <2>4, <2>5, <2>6, <2>8, <2>10 DEF Keeps, Followed, Protected
  <2> QED BY <2>9 DEF e, f, next, j
<1> QED BY <1>4, <1>5

\* The event of a transition leaves the evidence alone.
LEMMA KeepsDiagnosis ==
  ASSUME NEW j, NEW r, NEW t \in Transition, NEW run,
         j.specs = <<Diagnosis(t, run)>>, j.op # "write", j.op = "mark" => r # None
  PROVE  Keeps(j, r)
<1> DEFINE s == apply_event_to_state(StateOf(r), Diagnosis(t, run))
<1>1. Projected(r, 0, j.specs).state = s
  BY ProjectedOne
<1>2. r # None => /\ s.signals = r.state.signals /\ s.links = r.state.links
                  /\ s.status = r.state.status
  <2> DEFINE e == Diagnosis(t, run)
  <2>1. /\ e.type \notin {"opened", "signal_observed"} /\ e.links = None
        /\ e.type \notin DOMAIN StatusOf
    BY Facts DEF Transition, StatusOf
  <2> HIDE DEF e
  <2>2. /\ s.signals = StateOf(r).signals /\ s.links = StateOf(r).links
        /\ s.status = StateOf(r).status
    BY <2>1, Evidence DEF e
  <2> QED BY <2>2 DEF StateOf
<1>3. \A n \in DOMAIN j.specs : j.specs[n].type # "opened"
  <2>1. Diagnosis(t, run).type # "opened"
    BY Facts DEF Transition
  <2> QED BY <2>1
<1> HIDE DEF s
<1> QED BY <1>1, <1>2, <1>3 DEF Keeps

\* Every request is the admission of a job that keeps the evidence of the row.
LEMMA RequestKeeps ==
  ASSUME IInv, SoloInv, NEW p \in Process, Request(p)
  PROVE  \E j : GoodJob(j) /\ Admit(p, j) /\ Keeps(j, row[j.incident])
<1>0. /\ TypeOK
      /\ cache[p] \in [Incident -> State \cup {None}]
      /\ \A i \in Incident : row[i] \in Row \cup {None}
  BY DEF IInv, TypeOK
<1>1. PICK j : GoodJob(j) /\ Admit(p, j)
  BY <1>0, RequestAdmits
<1>2. pc[p] = "idle" /\ job'[p] = j
  BY <1>0, <1>1 DEF Admit, TypeOK
<1>3. \A k : Admit(p, k) => k = j
  <2>1. \A k : Admit(p, k) => job'[p] = k
    BY <1>0 DEF Admit, TypeOK
  <2> QED BY <1>2, <2>1
<1>4. \A i \in Incident :
        /\ Covers(cache[p][i], row[i])
        /\ cache[p][i] # None => row[i] # None /\ cache[p][i] \in State
  BY <1>0, <1>2 DEF SoloInv, Covered, CacheKnown
<1>5. SUFFICES \E k : Admit(p, k) /\ Keeps(k, row[k.incident])
  BY <1>1, <1>3
<1>6. \A i, specs, next : Write(i, specs, next).incident = i
  BY DEF Write
<1>7. ASSUME NEW i \in Incident, NEW s \in State, NEW e, NEW next \in State,
             s = cache[p][i], Admit(p, Write(i, <<e>>, next)), e.type # "opened",
             s.signals \subseteq next.signals, s.links \subseteq next.links,
             e.type = "signal_observed" => e.signals = next.signals,
             e.links = None \/ e.links = next.links,
             IF e.type \in DOMAIN StatusOf
             THEN \/ e.type = "collecting_evidence_started" /\ ~NoBundles
                  \/ /\ e.type \in DOMAIN Moves
                     /\ s.status \in Moves[e.type]
                     /\ next.status = StatusOf[e.type]
             ELSE next.status = s.status
      PROVE  \E k : Admit(p, k) /\ Keeps(k, row[k.incident])
  <2>1. Covers(s, row[i]) /\ row[i] # None
    BY <1>4, <1>7, NoneAssumption
  <2>2. Keeps(Write(i, <<e>>, next), row[i])
    BY <1>7, <2>1, KeepsOne
  <2> QED BY <1>6, <1>7, <2>2
<1>8. CASE Promote(p)
  <2>1. PICK i \in Incident, sigs \in (SUBSET Signal) \ {{}},
             b \in PromotionBundle \cup {None} :
             PromoteOpen(p, i, sigs, b) \/ PromoteMerge(p, i, sigs, b)
    BY <1>8 DEF Promote
  <2>2. /\ b \in Bundle \cup {None} /\ sigs \in SUBSET Signal
        /\ b = None \/ b \in PromotionBundle
        /\ b # None => ~NoBundles
    BY ConstantsAssumption DEF NoBundles
  <2>3. CASE PromoteOpen(p, i, sigs, b)
    <3>1. row[i] = None
      BY <1>4, <2>3 DEF PromoteOpen, Covers
    <3> QED BY <1>6, <2>2, <2>3, <3>1, KeepsOpen DEF PromoteOpen
  <2>4. CASE PromoteMerge(p, i, sigs, b)
    <3> DEFINE s == cache[p][i]
    <3>1. s \in State
      BY <1>0, <2>4 DEF PromoteMerge
    <3>2. CASE b = None
      <4> DEFINE merged == merge_candidate(s, sigs)
                 e == Observed(merged.signals)
      <4>1. Admit(p, Write(i, <<e>>, merged))
        BY <2>4, <3>2 DEF PromoteMerge
      <4>2. merged \in State
        BY <2>2, <3>1, MergeTyped
      <4>3. /\ s.signals \subseteq merged.signals /\ s.links \subseteq merged.links
            /\ merged.status = s.status
        BY <3>1 DEF merge_candidate, State
      <4>4. /\ e.type = "signal_observed" /\ e.signals = merged.signals /\ e.links = None
            /\ e.type \notin DOMAIN StatusOf
        BY Facts DEF StatusOf
      <4> HIDE DEF e, merged
      <4> QED BY <1>7, <3>1, <4>1, <4>2, <4>3, <4>4
    <3>3. CASE b # None
      <4> DEFINE merged == merge_candidate_with_bundle(s, sigs, b)
                 e == [Collecting(b, merged.links) EXCEPT !.signals = merged.signals]
      <4>1. Admit(p, Write(i, <<e>>, merged))
        BY <2>4, <3>3 DEF PromoteMerge
      <4>2. merged \in State
        BY <2>2, <3>1, <3>3, MergeTyped
      <4>3. s.signals \subseteq merged.signals /\ s.links \subseteq merged.links
        BY <3>1 DEF merge_candidate_with_bundle, merge_candidate, State
      <4>4. /\ e.type = "collecting_evidence_started" /\ e.links = merged.links
            /\ e.type \in DOMAIN StatusOf
        BY Facts DEF StatusOf
      <4> HIDE DEF e, merged
      <4> QED BY <1>7, <2>2, <3>1, <3>3, <4>1, <4>2, <4>3, <4>4
    <3> QED BY <3>2, <3>3
  <2> QED BY <2>1, <2>3, <2>4
<1>9. CASE AddIncident(p)
  <2>1. PICK i \in Incident, sigs \in SUBSET Signal :
          /\ cache[p][i] = None
          /\ Admit(p, Write(i, <<Opened(sigs)>>, open_incident(sigs)))
    BY <1>9 DEF AddIncident
  <2>2. row[i] = None
    BY <1>4, <2>1 DEF Covers
  <2> QED BY <1>6, <2>1, <2>2, KeepsOpen
<1>10. CASE MarkStatus(p)
  <2>1. PICK i \in Incident, m \in DOMAIN Moves, b \in Bundle :
          /\ cache[p][i] # None
          /\ cache[p][i].status \in Moves[m]
          /\ Admit(p, Write(i, <<IF m = "collecting_evidence_started"
                                 THEN Collecting(b, None) ELSE Fact(m)>>,
                            [cache[p][i] EXCEPT !.status = StatusOf[m]]))
    BY <1>10 DEF MarkStatus
  <2> DEFINE s == cache[p][i]
             e == IF m = "collecting_evidence_started"
                  THEN Collecting(b, None) ELSE Fact(m)
             next == [s EXCEPT !.status = StatusOf[m]]
  <2>2. s \in State
    BY <1>0, <2>1
  <2>3. /\ m \notin {"opened", "signal_observed"} /\ StatusOf[m] \in Status
        /\ m \in DOMAIN StatusOf
    BY DEF Moves, StatusOf, Status
  <2>4. /\ next \in State /\ next.signals = s.signals /\ next.links = s.links
        /\ next.status = StatusOf[m]
    BY <2>2, <2>3 DEF State
  <2>5. e.type = m /\ e.links = None
    BY <2>3, Facts
  <2>6. Admit(p, Write(i, <<e>>, next))
    BY <2>1
  <2> HIDE DEF e, next
  <2> QED BY <1>7, <2>1, <2>2, <2>3, <2>4, <2>5, <2>6
<1>11. CASE AttachEvidence(p)
  <2>1. PICK i \in Incident, a \in Artifact :
          /\ cache[p][i] # None
          /\ LET next == [cache[p][i] EXCEPT !.links = @ \cup {a}]
             IN  Admit(p, Write(i, <<Attached(next.links)>>, next))
    BY <1>11 DEF AttachEvidence
  <2> DEFINE s == cache[p][i]
             next == [s EXCEPT !.links = @ \cup {a}]
             e == Attached(next.links)
  <2>2. s \in State
    BY <1>0, <2>1
  <2>3. /\ next \in State /\ next.signals = s.signals /\ s.links \subseteq next.links
        /\ next.status = s.status
    BY <2>2 DEF State, Link
  <2>4. /\ e.type = "evidence_attached" /\ e.links = next.links
        /\ e.type \notin DOMAIN StatusOf
    BY Facts DEF StatusOf
  <2>5. Admit(p, Write(i, <<e>>, next))
    BY <2>1
  <2> HIDE DEF e, next
  <2> QED BY <1>7, <2>2, <2>3, <2>4, <2>5
<1>12. CASE MarkDiagnosisLoop(p)
  <2>1. PICK i \in Incident, t \in Transition, r \in LocalRun :
          /\ cache[p][i] # None
          /\ Admit(p, [Write(i, <<Diagnosis(t, r)>>, None) EXCEPT !.op = "mark"])
    BY <1>12 DEF MarkDiagnosisLoop
  <2> DEFINE k == [Write(i, <<Diagnosis(t, r)>>, None) EXCEPT !.op = "mark"]
  <2>2. k.specs = <<Diagnosis(t, r)>> /\ k.op = "mark" /\ k.incident = i
    BY DEF Write
  <2>3. row[i] # None
    BY <1>4, <2>1
  <2> HIDE DEF k
  <2>4. Keeps(k, row[i])
    BY <2>2, <2>3, KeepsDiagnosis
  <2> QED BY <2>1, <2>2, <2>4 DEF k
<1>13. CASE RequestTransition(p)
  <2>1. PICK k \in Key, f \in Fingerprint :
          k.transition \in Transition /\ Admit(p, TransitionJob(k, f))
    BY <1>13, ConstantsAssumption DEF RequestTransition
  <2> DEFINE h == TransitionJob(k, f)
  <2>2. h.specs = <<Diagnosis(k.transition, k.run)>> /\ h.op = "lifecycle"
    BY DEF TransitionJob
  <2> HIDE DEF h
  <2>3. Keeps(h, row[h.incident])
    BY <2>1, <2>2, KeepsDiagnosis
  <2> QED BY <2>1, <2>3 DEF h
<1> QED BY <1>8, <1>9, <1>10, <1>11, <1>12, <1>13 DEF Request

-----------------------------------------------------------------------------
(* Steps that leave the tables alone                                       *)

\* With one process, its own part of the invariant is all of it.
LEMMA OwnPart ==
  ASSUME SoloInv, NEW p \in Process,
         \A i \in Incident : pc'[p] # "down" =>
            Covers(IF pc'[p] = "publish" /\ i = job'[p].incident THEN job'[p].next
                   ELSE cache'[p][i], row'[i]),
         \A i \in Incident : cache'[p][i] # None => row'[i] # None,
         pc'[p] = "publish" => row'[job'[p].incident] # None,
         pc'[p] \in {"begin", "txn"} =>
           /\ Keeps(job'[p], row'[job'[p].incident])
           /\ pc'[p] = "txn" /\ job'[p].op = "lifecycle" => row'[job'[p].incident] # None
  PROVE  Covered' /\ CacheKnown' /\ JobsKeep'
<1>1. \A q \in Process : q = p
  BY DEF SoloInv, Solo
<1>2. Covered'
  <2> SUFFICES ASSUME NEW q \in Process, NEW i \in Incident, pc'[q] # "down"
               PROVE  Covers(IF pc'[q] = "publish" /\ i = job'[q].incident
                             THEN job'[q].next ELSE cache'[q][i], row'[i])
    BY DEF Covered, Covers
  <2> QED BY <1>1
<1>3. CacheKnown' /\ JobsKeep'
  <2>1. CacheKnown'
    BY <1>1 DEF CacheKnown
  <2>2. JobsKeep'
    <3> SUFFICES ASSUME NEW q \in Process, pc'[q] \in {"begin", "txn"}
                 PROVE  /\ Keeps(job'[q], row'[job'[q].incident])
                        /\ pc'[q] = "txn" /\ job'[q].op = "lifecycle"
                             => row'[job'[q].incident] # None
      BY DEF JobsKeep, Keeps
    <3> QED BY <1>1
  <2> QED BY <2>1, <2>2
<1> QED BY <1>2, <1>3

\* A step of a request before its commit, or one that only leaves.
LEMMA QuietStep ==
  ASSUME IInv, SoloInv, NEW p \in Process, UNCHANGED <<durable, cache>>,
         pc[p] # "down", pc'[p] \in {"idle", "begin", "txn", "refresh"},
         pc[p] # "publish",
         pc'[p] \in {"begin", "txn"} =>
           /\ Keeps(job'[p], row[job'[p].incident])
           /\ pc'[p] = "txn" /\ job'[p].op = "lifecycle" => row[job'[p].incident] # None
  PROVE  Covered' /\ CacheKnown' /\ JobsKeep'
<1>1. row' = row /\ cache' = cache
  BY DEF durable
<1>2. \A i \in Incident : Covers(cache[p][i], row[i])
  BY DEF SoloInv, Covered
<1>3. \A i \in Incident : cache[p][i] # None => row[i] # None
  BY DEF SoloInv, CacheKnown
<1> QED BY <1>1, <1>2, <1>3, OwnPart

\* The base of a job does not enter what it keeps.
LEMMA RebasedKeeps ==
  ASSUME NEW j, GoodJob(j), NEW n \in Nat, NEW r, Keeps(j, r)
  PROVE  Keeps([j EXCEPT !.base = n], r)
<1>1. /\ [j EXCEPT !.base = n].specs = j.specs
      /\ [j EXCEPT !.base = n].op = j.op
      /\ [j EXCEPT !.base = n].next = j.next
  BY DEF GoodJob, Job
<1> QED BY <1>1 DEF Keeps

LEMMA BeginSolo ==
  ASSUME IInv, SoloInv, NEW p \in Process, Begin(p) \/ BeginLifecycle(p)
  PROVE  Covered' /\ CacheKnown' /\ JobsKeep'
<1>0. TypeOK /\ JobsGood
  BY DEF IInv
<1>1. pc[p] = "begin" /\ UNCHANGED <<durable, cache>>
  BY DEF Begin, BeginLifecycle
<1>2. GoodJob(job[p]) /\ job[p].incident \in Incident
  BY <1>0, <1>1 DEF JobsGood, Busy, GoodJob, Job
<1>3. Keeps(job[p], row[job[p].incident])
  BY <1>1 DEF SoloInv, JobsKeep
<1>4. CASE Begin(p) \/ (BeginLifecycle(p) /\ BeginFirst(p))
  <2> DEFINE n == Len(events[job[p].incident])
             j == [job[p] EXCEPT !.base = n]
  <2>1. n \in Nat
    BY <1>0, <1>2 DEF TypeOK
  <2>2. pc'[p] = "txn" /\ job'[p] = j
    BY <1>0, <1>4 DEF Begin, BeginLifecycle, BeginFirst, TypeOK
  <2>3. job[p].op = "lifecycle" => row[job[p].incident] # None
    BY <1>4 DEF Begin, BeginFirst
  <2> HIDE DEF n
  <2>4. Keeps(j, row[job[p].incident])
    BY <1>2, <1>3, <2>1, RebasedKeeps
  <2>5. j.incident = job[p].incident /\ j.op = job[p].op
    BY <1>2, <2>1, Rebased
  <2> HIDE DEF j
  <2> QED BY <1>1, <2>2, <2>3, <2>4, <2>5, QuietStep
<1>5. CASE BeginLifecycle(p) /\ ~BeginFirst(p)
  <2>1. pc'[p] \in {"idle", "refresh"}
    BY <1>0, <1>5 DEF BeginLifecycle, BeginReplay, BeginMismatch, BeginNotFound, TypeOK
  <2> QED BY <1>1, <2>1, QuietStep
<1> QED BY <1>4, <1>5

LEMMA LeaveSolo ==
  ASSUME IInv, SoloInv, NEW p \in Process, Abort(p) \/ RefreshFails(p)
  PROVE  Covered' /\ CacheKnown' /\ JobsKeep'
<1>1. /\ pc[p] \notin {"down", "publish"} /\ pc'[p] = "idle"
      /\ UNCHANGED <<durable, cache>>
  BY DEF IInv, TypeOK, Abort, RefreshFails, Leave
<1> QED BY <1>1, QuietStep

LEMMA RequestSolo ==
  ASSUME IInv, SoloInv, NEW p \in Process, Request(p)
  PROVE  Covered' /\ CacheKnown' /\ JobsKeep'
<1>1. PICK j : GoodJob(j) /\ Admit(p, j) /\ Keeps(j, row[j.incident])
  BY RequestKeeps
<1>2. /\ pc[p] = "idle" /\ pc'[p] = "begin" /\ job'[p] = j
      /\ UNCHANGED <<durable, cache>>
  BY <1>1 DEF IInv, TypeOK, Admit
<1> QED BY <1>1, <1>2, QuietStep

-----------------------------------------------------------------------------
(* Steps that write the cache                                              *)

\* What is published covers the row that the request committed.
LEMMA PublishSolo ==
  ASSUME IInv, SoloInv, NEW p \in Process, Publish(p)
  PROVE  Covered' /\ CacheKnown' /\ JobsKeep'
<1> DEFINE i == job[p].incident
<1>0. TypeOK
  BY DEF IInv
<1>1. i \in Incident
  BY DEF IInv, JobsGood, Busy, GoodJob, Job, Publish
<1>2. /\ pc[p] = "publish" /\ pc'[p] = "idle" /\ row' = row
      /\ cache'[p] = [cache[p] EXCEPT ![i] = job[p].next]
  BY <1>0 DEF Publish, Leave, durable, TypeOK
<1>3. /\ \A h \in Incident : Covers(IF h = i THEN job[p].next ELSE cache[p][h], row[h])
      /\ \A h \in Incident : cache[p][h] # None => row[h] # None
      /\ row[i] # None
  BY <1>2 DEF SoloInv, Covered, CacheKnown
<1>4. \A h \in Incident : cache'[p][h] = IF h = i THEN job[p].next ELSE cache[p][h]
  BY <1>0, <1>1, <1>2 DEF TypeOK
<1> HIDE DEF i
<1>5. \A h \in Incident : Covers(cache'[p][h], row'[h])
  BY <1>2, <1>3, <1>4
<1>6. \A h \in Incident : cache'[p][h] # None => row'[h] # None
  BY <1>2, <1>3, <1>4
<1> QED BY <1>2, <1>5, <1>6, OwnPart

\* A row covers itself.
LEMMA RowCovers ==
  ASSUME NEW r \in Row
  PROVE  Covers(r.state, r)
<1>1. r.state \in State
  BY DEF Row
<1> QED BY <1>1, NoneAssumption DEF Covers

LEMMA RefreshSolo ==
  ASSUME IInv, SoloInv, NEW p \in Process, Refresh(p)
  PROVE  Covered' /\ CacheKnown' /\ JobsKeep'
<1> DEFINE i == job[p].incident
           s == IF row[i] = None THEN cache[p][i] ELSE row[i].state
<1>0. TypeOK
  BY DEF IInv
<1>1. i \in Incident
  BY DEF IInv, JobsGood, Busy, GoodJob, Job, Refresh
<1>2. /\ pc[p] = "refresh" /\ pc'[p] = "idle" /\ row' = row
      /\ cache'[p] = [cache[p] EXCEPT ![i] = s]
  BY <1>0 DEF Refresh, Leave, durable, TypeOK
<1>3. /\ \A h \in Incident : Covers(cache[p][h], row[h])
      /\ \A h \in Incident : cache[p][h] # None => row[h] # None
  BY <1>2 DEF SoloInv, Covered, CacheKnown
<1>4. Covers(s, row[i]) /\ (s # None => row[i] # None)
  <2>1. row[i] \in Row \cup {None}
    BY <1>0, <1>1 DEF TypeOK
  <2> QED BY <1>1, <1>3, <2>1, RowCovers
<1> HIDE DEF s
<1>5. \A h \in Incident : cache'[p][h] = IF h = i THEN s ELSE cache[p][h]
  BY <1>0, <1>1, <1>2 DEF TypeOK
<1> HIDE DEF i
<1>6. \A h \in Incident : Covers(cache'[p][h], row'[h])
  BY <1>2, <1>3, <1>4, <1>5
<1>7. \A h \in Incident : cache'[p][h] # None => row'[h] # None
  BY <1>2, <1>3, <1>4, <1>5
<1> QED BY <1>2, <1>6, <1>7, OwnPart

\* A crash empties the cache, a restart loads it from the rows.
LEMMA CrashSolo ==
  ASSUME IInv, SoloInv, NEW p \in Process, Crash(p) \/ Restart(p)
  PROVE  Covered' /\ CacheKnown' /\ JobsKeep'
<1>0. TypeOK
  BY DEF IInv
<1>1. row' = row
  BY DEF Crash, Restart, durable
<1>2. CASE Crash(p)
  <2>1. pc'[p] = "down" /\ \A i \in Incident : cache'[p][i] = None
    BY <1>0, <1>2 DEF Crash, TypeOK
  <2> QED BY <2>1, OwnPart
<1>3. CASE Restart(p)
  <2>1. pc'[p] = "idle" /\ cache'[p] = CacheOf(row)
    BY <1>0, <1>3 DEF Restart, TypeOK
  <2>2. \A i \in Incident : row[i] \in Row \cup {None}
    BY <1>0 DEF TypeOK
  <2>3. \A i \in Incident : /\ Covers(cache'[p][i], row[i])
                            /\ cache'[p][i] # None => row[i] # None
    BY <2>1, <2>2, RowCovers DEF CacheOf, Covers
  <2> QED BY <1>1, <2>1, <2>3, OwnPart
<1> QED BY <1>2, <1>3

-----------------------------------------------------------------------------
(* The commits                                                             *)

\* What a commit makes of a row: all its evidence stays, and a request other
\* than a write adds none and leaves the status alone.
LEMMA CommitRow ==
  ASSUME IInv, SoloInv, NEW p \in Process, Commit(p) \/ CommitLifecycle(p)
  PROVE  \E i \in Incident, r \in Row :
           /\ i = job[p].incident
           /\ row' = [row EXCEPT ![i] = r]
           /\ row[i] # None => /\ row[i].state.signals \subseteq r.state.signals
                               /\ row[i].state.links \subseteq r.state.links
           /\ NoBundles => Moved(row[i], r.state.status)
           /\ Followed(row[i], r.state.status)
           /\ IF job[p].op = "write" THEN Covers(job[p].next, r)
              ELSE /\ row[i] # None
                   /\ r.state.signals = row[i].state.signals
                   /\ r.state.links = row[i].state.links
                   /\ r.state.status = row[i].state.status
<1>1. PICK i \in Incident, specs \in Seq(Payload), n \in Nat :
        /\ i = job[p].incident /\ specs = job[p].specs /\ Len(specs) \in {1, 2}
        /\ row' = [row EXCEPT ![i] = Projected(row[i], n, specs)]
  BY CommitWrites
<1>2. pc[p] = "txn" /\ (Commit(p) => job[p].op # "lifecycle")
  BY DEF Commit, CommitLifecycle
<1>3. job[p].op \in {"write", "mark", "lifecycle"}
  BY <1>2 DEF IInv, JobsGood, Busy, GoodJob, Job
<1>4. Keeps(job[p], row[i]) /\ (job[p].op = "lifecycle" => row[i] # None)
  BY <1>1, <1>2 DEF SoloInv, JobsKeep
<1>5. row[i] \in Row \cup {None}
  BY DEF IInv, TypeOK
<1> DEFINE r == Projected(row[i], n, specs)
<1>6. r \in Row /\ r.state = Projected(row[i], 0, job[p].specs).state
  BY <1>1, <1>5, ProjectedTyped, ProjectedState
<1>7. row' = [row EXCEPT ![i] = r]
  BY <1>1
<1> HIDE DEF r
<1>8. /\ row[i] # None => /\ row[i].state.signals \subseteq r.state.signals
                          /\ row[i].state.links \subseteq r.state.links
      /\ job[p].op = "write" => Covers(job[p].next, r)
      /\ job[p].op # "write" =>
           /\ row[i] # None
           /\ r.state.signals = row[i].state.signals
           /\ r.state.links = row[i].state.links
           /\ r.state.status = row[i].state.status
  BY <1>3, <1>4, <1>6 DEF Keeps, Covers
<1>9. NoBundles => Moved(row[i], r.state.status)
  <2>1. CASE job[p].op = "write"
    BY <1>4, <1>6, <2>1 DEF Keeps
  <2>2. CASE job[p].op # "write"
    BY <1>8, <2>2 DEF Moved
  <2> QED BY <2>1, <2>2
<1>10. Followed(row[i], r.state.status)
  <2>1. CASE job[p].op = "write"
    BY <1>4, <1>6, <2>1 DEF Keeps
  <2>2. CASE job[p].op # "write"
    BY <1>8, <2>2 DEF Followed, Protected
  <2> QED BY <2>1, <2>2
<1> QED BY <1>1, <1>6, <1>7, <1>8, <1>9, <1>10

LEMMA CommitSolo ==
  ASSUME IInv, SoloInv, NEW p \in Process, Commit(p) \/ CommitLifecycle(p)
  PROVE  Covered' /\ CacheKnown' /\ JobsKeep' /\ RowsLogged' /\ StatusKnown'
<1>0. TypeOK
  BY DEF IInv
<1>1. PICK i \in Incident, r \in Row :
        /\ i = job[p].incident
        /\ row' = [row EXCEPT ![i] = r]
        /\ NoBundles => Moved(row[i], r.state.status)
        /\ IF job[p].op = "write" THEN Covers(job[p].next, r)
           ELSE /\ row[i] # None
                /\ r.state.signals = row[i].state.signals
                /\ r.state.links = row[i].state.links
                /\ r.state.status = row[i].state.status
  BY CommitRow
<1>2. /\ pc[p] = "txn" /\ cache' = cache /\ job' = job
      /\ pc'[p] = IF job[p].op = "write" THEN "publish" ELSE "refresh"
  BY <1>0 DEF Commit, CommitLifecycle, TypeOK
<1>3. r # None /\ row'[i] = r /\ \A h \in Incident \ {i} : row'[h] = row[h]
  BY <1>0, <1>1, NoneAssumption DEF TypeOK
<1>4. \A h \in Incident : /\ Covers(cache[p][h], row[h])
                          /\ cache[p][h] # None => row[h] # None
  BY <1>2 DEF SoloInv, Covered, CacheKnown
<1>5. ASSUME NEW h \in Incident
      PROVE  /\ Covers(IF pc'[p] = "publish" /\ h = job'[p].incident THEN job'[p].next
                       ELSE cache'[p][h], row'[h])
             /\ cache'[p][h] # None => row'[h] # None
  <2>1. CASE h # i
    BY <1>1, <1>2, <1>3, <1>4, <2>1
  <2>2. CASE h = i /\ job[p].op = "write"
    BY <1>1, <1>2, <1>3, <2>2
  <2>3. CASE h = i /\ job[p].op # "write"
    <3>1. Covers(cache[p][i], r)
      BY <1>1, <1>4, <2>3 DEF Covers
    <3> QED BY <1>2, <1>3, <2>3, <3>1
  <2> QED BY <2>1, <2>2, <2>3
<1>6. Covered' /\ CacheKnown' /\ JobsKeep'
  BY <1>1, <1>2, <1>3, <1>5, OwnPart
<1>7. \A h \in Incident \ {i} : events'[h] = events[h]
  <2>1. events' = [events EXCEPT ![i] = @ \o Stamp(job[p].base, job[p].specs)]
    BY <1>1 DEF Commit, CommitLifecycle
  <2> QED BY <1>0, <2>1 DEF TypeOK
<1>8. RowsLogged'
  BY <1>3, <1>7 DEF SoloInv, RowsLogged
<1>9. StatusKnown'
  <2> SUFFICES ASSUME NoBundles, NEW h \in Incident, row'[h] # None
               PROVE  row'[h].state.status \in Status
    BY DEF StatusKnown, NoBundles
  <2>1. CASE h # i
    BY <1>3, <2>1 DEF SoloInv, StatusKnown
  <2>2. CASE h = i
    <3>1. \A m \in DOMAIN Moves : StatusOf[m] \in Status
      BY DEF Moves, StatusOf, Status
    <3>2. row[i] # None => row[i].state.status \in Status
      BY DEF SoloInv, StatusKnown
    <3> QED BY <1>1, <1>3, <2>2, <3>1, <3>2 DEF Moved, Status
  <2> QED BY <2>1, <2>2
<1> QED BY <1>6, <1>8, <1>9

\* An incident that is opened has no row, and so no event yet.
LEMMA CommitOpens ==
  ASSUME IInv, SoloInv, NEW p \in Process, Commit(p) \/ CommitLifecycle(p)
  PROVE  OpenedOnce'
<1>1. PICK i \in Incident, specs \in Seq(Payload), n \in Nat :
        /\ i = job[p].incident /\ specs = job[p].specs
        /\ events[i] \in Seq(Event) /\ n = Len(events[i])
        /\ events' = [events EXCEPT ![i] = events[i] \o Stamp(n, specs)]
  BY CommitWrites
<1> DEFINE es == events[i]
           log == es \o Stamp(Len(es), specs)
<1>2. /\ events'[i] = log
      /\ \A h \in Incident \ {i} : events'[h] = events[h]
  BY <1>1 DEF IInv, TypeOK
<1>3. \A m \in DOMAIN specs : specs[m].type = "opened" => m = 1 /\ es = <<>>
  <2>1. pc[p] = "txn"
    BY DEF Commit, CommitLifecycle
  <2> QED BY <1>1, <2>1 DEF SoloInv, JobsKeep, Keeps, RowsLogged
<1>4. \A m, k \in DOMAIN es :
        es[m].payload.type = "opened" /\ es[k].payload.type = "opened" => m = k
  BY DEF SoloInv, OpenedOnce
<1>5. es \in Seq(Event)
  BY <1>1
<1> HIDE DEF es, log
<1>6. /\ log \in Seq(Event) /\ Len(log) = Len(es) + Len(specs)
      /\ \A m \in 1..Len(es) : log[m] = es[m]
      /\ \A m \in (Len(es) + 1)..(Len(es) + Len(specs)) :
           log[m].payload = specs[m - Len(es)]
  BY <1>5, Appended DEF log
<1>7. Len(es) \in Nat /\ Len(specs) \in Nat
  BY <1>5
<1>8. ASSUME NEW m \in DOMAIN log, log[m].payload.type = "opened", m \notin 1..Len(es)
      PROVE  es = <<>> /\ m = 1
  <2>1. m \in (Len(es) + 1)..(Len(es) + Len(specs)) /\ m - Len(es) \in DOMAIN specs
    BY <1>6, <1>7, <1>8
  <2>2. specs[m - Len(es)].type = "opened"
    BY <1>6, <1>8, <2>1
  <2>3. m - Len(es) = 1 /\ es = <<>>
    BY <1>3, <2>1, <2>2
  <2> QED BY <2>1, <2>3
<1>9. ASSUME NEW m \in DOMAIN log, NEW k \in DOMAIN log,
             log[m].payload.type = "opened", log[k].payload.type = "opened"
      PROVE  m = k
  <2>1. CASE m \in 1..Len(es) /\ k \in 1..Len(es)
    BY <1>4, <1>5, <1>6, <1>9, <2>1
  <2>2. CASE m \notin 1..Len(es) \/ k \notin 1..Len(es)
    <3>1. es = <<>>
      BY <1>8, <1>9, <2>2
    <3>2. 1..Len(es) = {}
      BY <3>1
    <3> QED BY <1>8, <1>9, <3>2
  <2> QED BY <2>1, <2>2
<1> QED BY <1>2, <1>9 DEF SoloInv, OpenedOnce

-----------------------------------------------------------------------------
(* The theorems                                                            *)

\* Only commits write the tables while nothing is truncated.
LEMMA SoloTables ==
  ASSUME IInv, SoloInv, [Next]_vars, ~\E p \in Process : Commit(p) \/ CommitLifecycle(p)
  PROVE  UNCHANGED <<events, row>>
<1>1. ~Truncate
  BY DEF SoloInv, Solo, Undisturbed, Truncate
<1>2. ASSUME NEW p \in Process, Step(p)
      PROVE  UNCHANGED durable
  BY <1>2 DEF Step, Begin, BeginLifecycle, Abort, Publish, Refresh, RefreshFails
<1>3. ASSUME NEW p \in Process, Request(p)
      PROVE  UNCHANGED durable
  BY <1>3, RequestAdmits DEF IInv, Admit
<1>4. ASSUME NEW p \in Process, Rebuild(p) \/ Crash(p) \/ Restart(p)
      PROVE  UNCHANGED durable
  BY <1>4 DEF Rebuild, RebuildRows, RebuildClear, RebuildLoad, RebuildInstall,
              Crash, Restart
<1> QED BY <1>1, <1>2, <1>3, <1>4 DEF Next, vars, durable

LEMMA SoloUndisturbed ==
  ASSUME IInv, SoloInv, [Next]_vars
  PROVE  Undisturbed' /\ \A p \in Process : ~Rebuild(p)
<1>0. TypeOK
  BY DEF IInv
<1>1. ASSUME NEW p \in Process
      PROVE  ~Rebuild(p)
  BY DEF SoloInv, Solo, Undisturbed, Rebuild, RebuildRows, RebuildClear,
         RebuildLoad, RebuildInstall
<1>2. ~Truncate
  BY DEF SoloInv, Solo, Undisturbed, Truncate
<1>3. ASSUME NEW p \in Process, Step(p) \/ Restart(p)
      PROVE  UNCHANGED <<rebuild, truncations>>
  BY <1>3 DEF Step, Begin, BeginLifecycle, Commit, CommitLifecycle, Abort, Publish,
              Refresh, RefreshFails, Restart, rebuilds, bounds
<1>4. ASSUME NEW p \in Process, Request(p)
      PROVE  UNCHANGED <<rebuild, truncations>>
  BY <1>0, <1>4, RequestAdmits DEF Admit, rebuilds, bounds
<1>5. ASSUME NEW p \in Process, Crash(p)
      PROVE  Undisturbed'
  BY <1>0, <1>5 DEF Crash, TypeOK, SoloInv, Undisturbed
<1>6. UNCHANGED vars => UNCHANGED <<rebuild, truncations>>
  BY DEF vars, rebuilds, bounds
<1>7. UNCHANGED <<rebuild, truncations>> => Undisturbed'
  BY DEF SoloInv, Undisturbed
<1>8. Undisturbed'
  BY <1>1, <1>2, <1>3, <1>4, <1>5, <1>6, <1>7 DEF Next
<1> QED BY <1>1, <1>8

LEMMA SoloInit == Solo /\ Init => SoloInv
<1> SUFFICES ASSUME Solo, Init PROVE SoloInv
  OBVIOUS
<1>1. Undisturbed /\ RowsLogged /\ CacheKnown /\ JobsKeep
  BY DEF Init, Undisturbed, RowsLogged, CacheKnown, JobsKeep
<1>2. Covered /\ StatusKnown
  BY DEF Init, Covered, Covers, StatusKnown
<1>3. \A i \in Incident : DOMAIN events[i] = {}
  BY DEF Init
<1>4. OpenedOnce
  BY <1>3 DEF OpenedOnce
<1> QED BY <1>1, <1>2, <1>4 DEF SoloInv

LEMMA SoloNext == IInv /\ SoloInv /\ [Next]_vars => SoloInv'
<1> SUFFICES ASSUME IInv, SoloInv, [Next]_vars PROVE SoloInv'
  OBVIOUS
<1>1. Solo' /\ Undisturbed'
  BY SoloUndisturbed DEF SoloInv, Solo
<1>2. CASE \E p \in Process : Commit(p) \/ CommitLifecycle(p)
  BY <1>1, <1>2, CommitSolo, CommitOpens DEF SoloInv
<1>3. CASE ~\E p \in Process : Commit(p) \/ CommitLifecycle(p)
  <2>1. UNCHANGED <<events, row>>
    BY <1>3, SoloTables
  <2>2. RowsLogged' /\ StatusKnown' /\ OpenedOnce'
    BY <2>1 DEF SoloInv, RowsLogged, StatusKnown, OpenedOnce
  <2>3. ASSUME NEW p \in Process, Step(p) \/ Request(p) \/ Crash(p) \/ Restart(p)
        PROVE  Covered' /\ CacheKnown' /\ JobsKeep'
    BY <1>3, <2>3, BeginSolo, LeaveSolo, RequestSolo, PublishSolo, RefreshSolo,
       CrashSolo DEF Step
  <2>4. ASSUME UNCHANGED vars
        PROVE  Covered' /\ CacheKnown' /\ JobsKeep'
    <3>1. Covered /\ CacheKnown /\ JobsKeep /\ UNCHANGED <<row, cache, pc, job>>
      BY <2>4 DEF SoloInv, vars, durable
    <3>2. Covered'
      BY <3>1 DEF Covered, Covers
    <3>3. CacheKnown'
      BY <3>1 DEF CacheKnown
    <3>4. JobsKeep'
      BY <3>1 DEF JobsKeep, Keeps
    <3> QED BY <3>2, <3>3, <3>4
  <2>5. Covered' /\ CacheKnown' /\ JobsKeep'
    <3>1. ~Truncate /\ \A p \in Process : ~Rebuild(p)
      BY SoloUndisturbed DEF SoloInv, Solo, Undisturbed, Truncate
    <3> QED BY <2>3, <2>4, <3>1 DEF Next
  <2> QED BY <1>1, <2>2, <2>5 DEF SoloInv
<1> QED BY <1>2, <1>3

\* The invariant of the store with one process.
THEOREM SoloInvariance == Solo /\ Spec => []SoloInv
<1>1. IInv /\ SoloInv /\ [Next]_vars => SoloInv'
  BY SoloNext
<1> QED BY <1>1, SoloInit, Invariance, PTL DEF Spec

\* One process opens an incident at most once, whenever it crashes: has_incident()
\* asks the cache, and the cache knows every incident that has a row.
THEOREM SoloOpensOnce == Solo /\ Spec => []OpenedOnce
<1>1. SoloInv => OpenedOnce
  BY DEF SoloInv
<1> QED BY <1>1, SoloInvariance, PTL

\* Between two requests the cache of the one process knows every row and all
\* its evidence.
THEOREM SoloCacheCovers == Solo /\ Spec => []CacheCoversRow
<1>1. SoloInv => CacheCoversRow
  BY DEF SoloInv, Covered, Covers, CacheCoversRow
<1> QED BY <1>1, SoloInvariance, PTL

\* With one process no step takes a signal or a link out of a row, although
\* every payload is computed from the cache before its transaction begins.
THEOREM SoloKeepsEvidence == Solo /\ Spec => EvidenceKept
<1>1. ASSUME IInv, SoloInv, [Next]_vars, NEW i \in Incident,
             row[i] # None, row'[i] # None
      PROVE  /\ row[i].state.signals \subseteq row'[i].state.signals
             /\ row[i].state.links \subseteq row'[i].state.links
  <2>1. CASE \E p \in Process : Commit(p) \/ CommitLifecycle(p)
    <3>1. PICK h \in Incident, r \in Row :
            /\ row' = [row EXCEPT ![h] = r]
            /\ row[h] # None => /\ row[h].state.signals \subseteq r.state.signals
                                /\ row[h].state.links \subseteq r.state.links
      BY <1>1, <2>1, CommitRow
    <3>2. row'[i] = IF i = h THEN r ELSE row[i]
      BY <1>1, <3>1 DEF IInv, TypeOK
    <3> QED BY <1>1, <3>1, <3>2
  <2>2. CASE ~\E p \in Process : Commit(p) \/ CommitLifecycle(p)
    BY <1>1, <2>2, SoloTables
  <2> QED BY <2>1, <2>2
<1> DEFINE Kept == \A i \in Incident : row[i] # None /\ row'[i] # None =>
                     /\ row[i].state.signals \subseteq row'[i].state.signals
                     /\ row[i].state.links \subseteq row'[i].state.links
<1>2. IInv /\ SoloInv /\ [Next]_vars => [Kept]_vars
  BY <1>1
<1>3. EvidenceKept <=> [][Kept]_vars
  BY DEF EvidenceKept
<1> HIDE DEF Kept
<1> QED BY <1>2, <1>3, Invariance, SoloInvariance, PTL DEF Spec

-----------------------------------------------------------------------------
(* The lifecycle                                                           *)

\* The status of the incidents as the rows show it.
Shown == [i \in Incident |-> IF row[i] = None THEN "absent" ELSE row[i].state.status]

LEMMA LifecycleInit == Init => Lifecycle!Init
  BY DEF Init, Lifecycle!Init

\* A commit is one transition of the lifecycle, or shows nothing of itself.
LEMMA LifecycleNext ==
  ASSUME IInv, SoloInv, NoBundles, [Next]_vars
  PROVE  Lifecycle!Next \/ Shown' = Shown
<1>0. TypeOK
  BY DEF IInv
<1>1. CASE ~\E p \in Process : Commit(p) \/ CommitLifecycle(p)
  BY <1>1, SoloTables DEF Shown
<1>2. ASSUME NEW p \in Process, Commit(p) \/ CommitLifecycle(p)
      PROVE  Lifecycle!Next \/ Shown' = Shown
  <2>1. PICK i \in Incident, r \in Row :
          /\ row' = [row EXCEPT ![i] = r]
          /\ Moved(row[i], r.state.status)
    BY <1>2, CommitRow
  <2> DEFINE to == r.state.status
  <2>2. Shown' = [Shown EXCEPT ![i] = to]
    BY <1>0, <2>1, NoneAssumption DEF Shown, TypeOK
  <2>3. ASSUME NEW from, Shown[i] \in from
        PROVE  Lifecycle!Move(i, from, to)
    BY <2>2, <2>3 DEF Lifecycle!Move, Shown
  <2>4. CASE row[i] = None
    <3>1. to = "open" /\ Shown[i] \in {"absent"}
      BY <2>1, <2>4 DEF Moved, Shown
    <3>2. Lifecycle!Open(i)
      BY <2>3, <3>1 DEF Lifecycle!Open
    <3> QED BY <3>2 DEF Lifecycle!Next
  <2>5. CASE row[i] # None /\ to = row[i].state.status
    BY <2>2, <2>5 DEF Shown
  <2>6. ASSUME row[i] # None, NEW m \in DOMAIN Moves,
               row[i].state.status \in Moves[m], to = StatusOf[m]
        PROVE  Lifecycle!Next
    <3>1. Shown[i] \in Moves[m] /\ Lifecycle!Move(i, Moves[m], StatusOf[m])
      BY <2>3, <2>6 DEF Shown
    <3>2. \/ m = "collecting_evidence_started" /\ Lifecycle!mark_collecting_evidence(i)
          \/ m = "ready_for_review" /\ Lifecycle!mark_ready_for_review(i)
          \/ m = "investigation_started" /\ Lifecycle!mark_investigating(i)
          \/ m = "resolved" /\ Lifecycle!resolve_incident(i)
          \/ m = "suppressed" /\ Lifecycle!suppress_incident(i)
          \/ m = "marked_duplicate" /\ Lifecycle!mark_duplicate(i)
      BY <3>1 DEF Moves, StatusOf, Status, Protected, Lifecycle!Active,
                  Lifecycle!Status, Lifecycle!Terminal,
                  Lifecycle!mark_collecting_evidence, Lifecycle!mark_ready_for_review,
                  Lifecycle!mark_investigating, Lifecycle!resolve_incident,
                  Lifecycle!suppress_incident, Lifecycle!mark_duplicate
    <3> QED BY <3>2 DEF Lifecycle!Next
  <2> QED BY <2>1, <2>4, <2>5, <2>6 DEF Moved
<1> QED BY <1>1, <1>2

\* While promotions carry no bundle, the rows of a store with one process
\* follow the lifecycle of the domain: no interleaving of a request with its
\* own crash or restart takes an incident out of a terminal status.
THEOREM SoloImplementsLifecycle == Solo /\ NoBundles /\ Spec => ImplementsLifecycle
<1>1. IInv /\ SoloInv /\ NoBundles /\ [Next]_vars => [Lifecycle!Next]_Shown
  BY LifecycleNext
<1>2. ImplementsLifecycle <=> Lifecycle!Init /\ [][Lifecycle!Next]_Shown
  BY DEF ImplementsLifecycle, Lifecycle!Spec, Shown
<1>3. NoBundles => NoBundles'
  BY DEF NoBundles
<1> QED BY <1>1, <1>2, <1>3, LifecycleInit, Invariance, SoloInvariance, PTL DEF Spec

-----------------------------------------------------------------------------
(* What the diagnosis loop assumes                                         *)

\* The class of the status of a row.
ClassOf(r) == IF r = None THEN "absent"
              ELSE IF r.state.status \in Protected THEN "closed"
              ELSE IF r.state.status = "ready_for_review" THEN "review"
              ELSE "active"
Classes == [i \in Incident |-> ClassOf(row[i])]

\* A commit is one move of the classes, or shows nothing of itself.
LEMMA FeedNext ==
  ASSUME IInv, SoloInv, [Next]_vars
  PROVE  [\E i \in Incident : \/ Feed!Open(i) \/ Feed!AskReview(i)
                              \/ Feed!Resume(i) \/ Feed!Close(i)]_Classes
<1>0. TypeOK
  BY DEF IInv
<1>1. CASE ~\E p \in Process : Commit(p) \/ CommitLifecycle(p)
  BY <1>1, SoloTables DEF Classes
<1>2. ASSUME NEW p \in Process, Commit(p) \/ CommitLifecycle(p)
      PROVE  \/ \E i \in Incident : \/ Feed!Open(i) \/ Feed!AskReview(i)
                                   \/ Feed!Resume(i) \/ Feed!Close(i)
             \/ Classes' = Classes
  <2>1. PICK i \in Incident, r \in Row :
          /\ row' = [row EXCEPT ![i] = r]
          /\ Followed(row[i], r.state.status)
    BY <1>2, CommitRow
  <2> DEFINE from == ClassOf(row[i])
             to == ClassOf(r)
  <2>2. r # None
    BY NoneAssumption
  <2>3. Classes' = [Classes EXCEPT ![i] = to]
    BY <1>0, <2>1 DEF Classes, TypeOK
  <2>4. /\ to \in {"closed", "review", "active"}
        /\ from \in {"absent", "closed", "review", "active"}
        /\ to = "review" => from \in {"active", "review"}
        /\ to = "closed" => from # "absent"
    BY <2>1, <2>2 DEF Followed, ClassOf, Protected
  <2>5. Classes[i] = from /\ (from = to => Classes' = Classes)
    BY <2>3 DEF Classes
  <2>6. ASSUME NEW S, from \in S
        PROVE  Feed!Move(i, S, to)
    BY <2>3, <2>5, <2>6 DEF Feed!Move, Classes, ClassOf
  <2> HIDE DEF from, to
  <2>7. CASE to = "active" /\ from # to
    BY <2>4, <2>6, <2>7 DEF Feed!Open, Feed!Resume
  <2>8. CASE to = "review" /\ from # to
    BY <2>4, <2>6, <2>8 DEF Feed!AskReview
  <2>9. CASE to = "closed" /\ from # to
    BY <2>4, <2>6, <2>9 DEF Feed!Close
  <2> QED BY <2>4, <2>5, <2>7, <2>8, <2>9
<1> QED BY <1>1, <1>2

\* The rows of a store with one process move as module DiagnosisScan assumes
\* of the incidents that it lists, whatever bundles promotions carry and
\* whenever the process crashes, although the cached status that admits a
\* transition may differ from the one that its commit overwrites.
THEOREM SoloFeedsDiagnosis == Solo /\ Spec => FeedsDiagnosis
<1>1. IInv /\ SoloInv /\ [Next]_vars => [Feed!Next]_Classes
  BY FeedNext DEF Feed!Next
<1>2. FeedsDiagnosis <=> Feed!Init /\ [][Feed!Next]_Classes
  BY DEF FeedsDiagnosis, Feed!Spec, Classes, ClassOf
<1>3. Init => Feed!Init
  BY DEF Init, Feed!Init
<1> QED BY <1>1, <1>2, <1>3, Invariance, SoloInvariance, PTL DEF Spec
=============================================================================
