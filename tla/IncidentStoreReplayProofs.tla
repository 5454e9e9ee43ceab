---------------------- MODULE IncidentStoreReplayProofs ----------------------
(***************************************************************************)
(* Theorem about IncidentStore, for any processes, crashes and rebuilds:   *)
(* until an operator truncates the projection, a row is what a replay of   *)
(* the whole log of its incident gives.                                    *)
(*                                                                         *)
(* Replayed is a recursive function.  A history of a log is a function     *)
(* with the values of that recursion; every reachable log has one, built   *)
(* commit by commit, and the recursion has no other solution, by the least *)
(* number at which two solutions differ.                                   *)
(***************************************************************************)
EXTENDS IncidentStoreProofs, WellFoundedInduction

\* The recursion of Replayed: the aggregates after 0, 1, ... events of a log,
\* from those of h.
Replaying(h, log) ==
  [n \in 0..Len(log) |-> IF n = 0 THEN Blank
                         ELSE apply_event_to_state(h[n - 1], log[n].payload)]

\* h is a history of log.
History(h, log) == h = Replaying(h, log)

\* Until a truncation, a row exists from the first event on, and holds the
\* last aggregate of a history of the log.
RowsReplay == truncations = 0 => \A i \in Incident :
  /\ row[i] = None <=> events[i] = <<>>
  /\ \E h : History(h, events[i]) /\ StateOf(row[i]) = h[Len(events[i])]

ReplayInv == IInv /\ RowsReplay

-----------------------------------------------------------------------------
(* The recursion has one solution                                          *)

\* A set of numbers has a least member.
LEMMA LeastNumber ==
  ASSUME NEW T \in SUBSET Nat, T # {}
  PROVE  \E m \in T : \A n \in T : m <= n
<1> DEFINE R == OpToRel(<, Nat)
<1>1. IsWellFoundedOn(R, Nat)
  BY NatLessThanWellFounded
<1> HIDE DEF R
<1>2. PICK m \in T : \A n \in T : <<n, m>> \notin R
  BY <1>1, WFMin
<1>3. \A n \in T : n < m => <<n, m>> \in R
  BY DEF R, OpToRel
<1>4. m \in Nat /\ \A n \in T : n \in Nat /\ ~(n < m)
  BY <1>2, <1>3
<1> QED BY <1>4

\* Two histories of a log are equal.
LEMMA OneHistory ==
  ASSUME NEW log, Len(log) \in Nat,
         NEW g, History(g, log), NEW h, History(h, log)
  PROVE  g = h
<1> DEFINE T == {n \in 0..Len(log) : g[n] # h[n]}
<1>1. \A n \in 0..Len(log) :
        /\ g[n] = IF n = 0 THEN Blank
                  ELSE apply_event_to_state(g[n - 1], log[n].payload)
        /\ h[n] = IF n = 0 THEN Blank
                  ELSE apply_event_to_state(h[n - 1], log[n].payload)
  BY DEF History, Replaying
<1>2. CASE T # {}
  <2>1. T \in SUBSET Nat
    OBVIOUS
  <2>2. PICK m \in T : \A n \in T : m <= n
    BY <1>2, <2>1, LeastNumber
  <2>3. m \in 0..Len(log) /\ g[m] # h[m]
    BY <2>2
  <2>4. m # 0
    BY <1>1, <2>3
  <2>5. m - 1 \in 0..Len(log) /\ ~(m <= m - 1)
    BY <2>3, <2>4
  <2>6. g[m - 1] = h[m - 1]
    BY <2>2, <2>5
  <2> QED BY <1>1, <2>3, <2>4, <2>6
<1>3. CASE T = {}
  <2>1. \A n \in 0..Len(log) : g[n] = h[n]
    BY <1>3
  <2>2. /\ g = [n \in 0..Len(log) |-> g[n]]
        /\ h = [n \in 0..Len(log) |-> h[n]]
    BY DEF History, Replaying
  <2> QED BY <2>1, <2>2
<1> QED BY <1>2, <1>3

\* So a log that has a history is replayed to the end of it.
LEMMA ReplayedHistory ==
  ASSUME NEW log, Len(log) \in Nat, NEW h, History(h, log)
  PROVE  Replayed(log) = h[Len(log)]
<1> DEFINE state == CHOOSE f : History(f, log)
<1>1. Replayed(log) = state[Len(log)]
  BY DEF Replayed, History, Replaying
<1>2. History(state, log)
  OBVIOUS
<1> HIDE DEF state
<1> QED BY <1>1, <1>2, OneHistory

-----------------------------------------------------------------------------
(* Commits extend histories                                                *)

\* One event more in the log is one aggregate more in its history.
LEMMA HistoryExtends ==
  ASSUME NEW es, Len(es) \in Nat, NEW h, History(h, es),
         NEW log, Len(log) = Len(es) + 1, \A n \in 1..Len(es) : log[n] = es[n]
  PROVE  \E g : /\ History(g, log)
                /\ g[Len(log)] = apply_event_to_state(h[Len(es)], log[Len(log)].payload)
<1> DEFINE g == [n \in 0..Len(log) |->
                   IF n <= Len(es) THEN h[n]
                   ELSE apply_event_to_state(h[Len(es)], log[Len(log)].payload)]
<1>1. \A n \in 0..Len(es) :
        h[n] = IF n = 0 THEN Blank ELSE apply_event_to_state(h[n - 1], es[n].payload)
  BY DEF History, Replaying
<1>2. ASSUME NEW n \in 0..Len(log)
      PROVE  g[n] = IF n = 0 THEN Blank
                    ELSE apply_event_to_state(g[n - 1], log[n].payload)
  <2>1. CASE n = 0
    BY <1>1, <2>1
  <2>2. CASE n \in 1..Len(es)
    <3>1. n - 1 \in 0..Len(log) /\ n - 1 <= Len(es) /\ n \in 0..Len(es) /\ n # 0
      BY <2>2
    <3>2. g[n] = h[n] /\ g[n - 1] = h[n - 1]
      BY <2>2, <3>1
    <3> QED BY <1>1, <2>2, <3>1, <3>2
  <2>3. CASE n = Len(es) + 1
    <3>1. n - 1 = Len(es) /\ n - 1 \in 0..Len(log) /\ n # 0 /\ ~(n <= Len(es)) /\ n = Len(log)
      BY <2>3
    <3>2. g[n - 1] = h[Len(es)]
      BY <3>1
    <3> QED BY <3>1, <3>2
  <2> QED BY <2>1, <2>2, <2>3
<1>3. Len(log) \in 0..Len(log) /\ ~(Len(log) <= Len(es))
  OBVIOUS
<1>4. g = [n \in 0..Len(log) |-> g[n]]
  OBVIOUS
<1>5. g[Len(log)] = apply_event_to_state(h[Len(es)], log[Len(log)].payload)
  BY <1>3
<1> HIDE DEF g
<1>6. History(g, log)
  BY <1>2, <1>4 DEF History, Replaying
<1> QED BY <1>5, <1>6

\* The row after a commit holds the last aggregate of a history of the log.
LEMMA ProjectedHistory ==
  ASSUME NEW es \in Seq(Event), NEW r \in Row \cup {None},
         NEW specs \in Seq(Payload), Len(specs) \in {1, 2},
         NEW h, History(h, es), StateOf(r) = h[Len(es)]
  PROVE  LET log == es \o Stamp(Len(es), specs) IN
         \E g : /\ History(g, log)
                /\ StateOf(Projected(r, Len(es), specs)) = g[Len(log)]
<1> DEFINE log == es \o Stamp(Len(es), specs)
           N == Len(es)
           next == update_projection_for_event(r, N + 1, specs[1])
<1> HIDE DEF log
<1>1. /\ N \in Nat
      /\ Len(log) = N + Len(specs)
      /\ \A n \in 1..N : log[n] = es[n]
      /\ \A n \in (N + 1)..(N + Len(specs)) : log[n].payload = specs[n - N]
  BY Appended DEF log
<1>2. StateOf(r) \in State /\ specs[1] \in Payload
  BY BlankTyped DEF StateOf, Row
<1>3. /\ next.state = apply_event_to_state(h[N], specs[1])
      /\ next \in Row
      /\ StateOf(next) = next.state
  <2>1. apply_event_to_state(StateOf(r), specs[1]) \in State
    BY <1>2, ApplyTyped
  <2>2. next \in Row /\ next.state = apply_event_to_state(StateOf(r), specs[1])
    BY <1>1, <2>1 DEF update_projection_for_event, Row
  <2>3. next # None
    BY <2>2, NoneAssumption
  <2> QED BY <2>2, <2>3 DEF StateOf
<1>4. N + 1 \in (N + 1)..(N + Len(specs)) /\ (N + 1) - N = 1
  <2>1. PICK k \in {1, 2} : k = Len(specs)
    OBVIOUS
  <2> HIDE DEF N
  <2> QED BY <1>1, <2>1
<1>5. log[N + 1].payload = specs[1]
  BY <1>1, <1>4
<1>6. CASE Len(specs) = 1
  <2>1. PICK g : /\ History(g, log)
                 /\ g[Len(log)] = apply_event_to_state(h[N], log[Len(log)].payload)
    BY <1>1, <1>6, HistoryExtends
  <2>2. Projected(r, N, specs) = next
    BY <1>6 DEF Projected
  <2>3. g[Len(log)] = next.state
    BY <1>1, <1>3, <1>5, <1>6, <2>1
  <2> HIDE DEF next
  <2>4. StateOf(Projected(r, N, specs)) = g[Len(log)]
    BY <1>3, <2>2, <2>3
  <2> QED BY <2>1, <2>4 DEF log
<1>7. CASE Len(specs) = 2
  <2> DEFINE mid == [n \in 1..(N + 1) |-> log[n]]
  <2>1. mid \in Seq({log[n] : n \in 1..(N + 1)}) /\ Len(mid) = N + 1
    BY <1>1
  <2>2. \A n \in 1..(N + 1) : mid[n] = log[n]
    OBVIOUS
  <2> HIDE DEF mid
  <2>3. (\A n \in 1..N : mid[n] = es[n]) /\ mid[N + 1] = log[N + 1]
    BY <1>1, <2>2
  <2>4. PICK f : /\ History(f, mid)
                 /\ f[Len(mid)] = apply_event_to_state(h[N], mid[Len(mid)].payload)
    BY <1>1, <2>1, <2>3, HistoryExtends
  <2>5. f[N + 1] = next.state
    BY <1>3, <1>5, <2>1, <2>3, <2>4
  <2>6. /\ Len(mid) \in Nat
        /\ Len(log) = Len(mid) + 1
        /\ \A n \in 1..Len(mid) : log[n] = mid[n]
    BY <1>1, <1>7, <2>1, <2>2
  <2>7. PICK g : /\ History(g, log)
                 /\ g[Len(log)] = apply_event_to_state(f[Len(mid)], log[Len(log)].payload)
    BY <2>4, <2>6, HistoryExtends
  <2>8. log[N + 2].payload = specs[2]
    <3>1. N + 2 \in (N + 1)..(N + Len(specs)) /\ (N + 2) - N = 2
      BY <1>1, <1>7
    <3> QED BY <1>1, <3>1
  <2>9. g[Len(log)] = apply_event_to_state(next.state, specs[2])
    BY <1>1, <1>7, <2>1, <2>5, <2>7, <2>8
  <2>10. /\ Projected(r, N, specs) \in Row
         /\ Projected(r, N, specs).state = apply_event_to_state(StateOf(next), specs[2])
    <3>1. Projected(r, N, specs) \in Row
      BY <1>1, ProjectedTyped
    <3>2. Projected(r, N, specs) = update_projection_for_event(next, N + 2, specs[2])
      BY <1>7 DEF Projected
    <3> HIDE DEF next
    <3> QED BY <3>1, <3>2 DEF update_projection_for_event
  <2> HIDE DEF next
  <2>11. StateOf(Projected(r, N, specs)) = Projected(r, N, specs).state
    BY <2>10, NoneAssumption DEF StateOf
  <2>12. StateOf(Projected(r, N, specs)) = g[Len(log)]
    BY <1>3, <2>9, <2>10, <2>11
  <2> QED BY <2>7, <2>12 DEF log
<1> QED BY <1>6, <1>7

-----------------------------------------------------------------------------
(* The invariant                                                           *)

LEMMA InitReplay == Init => RowsReplay
<1> SUFFICES ASSUME Init, NEW i \in Incident
             PROVE  /\ row[i] = None <=> events[i] = <<>>
                    /\ \E h : History(h, events[i]) /\ StateOf(row[i]) = h[Len(events[i])]
  BY DEF RowsReplay
<1>1. row[i] = None /\ events[i] = <<>> /\ Len(events[i]) = 0
  BY DEF Init
<1> DEFINE h == [n \in 0..0 |-> Blank]
<1>2. h = Replaying(h, events[i])
  BY <1>1 DEF Replaying
<1>3. h[0] = Blank
  OBVIOUS
<1> QED BY <1>1, <1>2, <1>3 DEF History, StateOf

\* A truncation is counted, and no step takes one back.
LEMMA TruncationsCounted ==
  ASSUME IInv, [Next]_vars, truncations' = 0
  PROVE  truncations = 0 /\ ~Truncate
<1>0. TypeOK
  BY DEF IInv
<1>1. ASSUME NEW p \in Process, Step(p) \/ Rebuild(p) \/ Crash(p) \/ Restart(p)
      PROVE  truncations' = truncations
  BY <1>1 DEF Step, Begin, BeginLifecycle, Commit, CommitLifecycle, Abort, Publish,
     Refresh, RefreshFails, Rebuild, RebuildRows, RebuildClear, RebuildLoad,
     RebuildInstall, Crash, Restart, bounds
<1>2. ASSUME NEW p \in Process, Request(p)
      PROVE  truncations' = truncations
  BY <1>0, <1>2, RequestAdmits DEF Admit, bounds
<1>3. Truncate => truncations' = truncations + 1 /\ truncations \in Nat
  BY <1>0 DEF Truncate, TypeOK
<1>4. ~Truncate
  BY <1>3
<1>5. UNCHANGED vars => truncations' = truncations
  BY DEF vars, bounds
<1> QED BY <1>1, <1>2, <1>4, <1>5 DEF Next

\* Without a commit or a truncation the log and the rows stay as they are.
LEMMA NotCommits ==
  ASSUME IInv, [Next]_vars, ~Truncate, ~\E p \in Process : Commit(p) \/ CommitLifecycle(p)
  PROVE  UNCHANGED <<events, row>>
<1>0. TypeOK
  BY DEF IInv
<1>1. ASSUME NEW p \in Process, Step(p) \/ Rebuild(p) \/ Crash(p) \/ Restart(p)
      PROVE  UNCHANGED durable
  BY <1>1 DEF Step, Begin, BeginLifecycle, Abort, Publish, Refresh, RefreshFails,
     Rebuild, RebuildRows, RebuildClear, RebuildLoad, RebuildInstall, Crash, Restart
<1>2. ASSUME NEW p \in Process, Request(p)
      PROVE  UNCHANGED durable
  BY <1>0, <1>2, RequestAdmits DEF Admit
<1> QED BY <1>1, <1>2 DEF Next, vars, durable

\* A commit replays one or two events more; no other step touches log or rows.
LEMMA NextReplay ==
  ASSUME ReplayInv, [Next]_vars
  PROVE  RowsReplay'
<1> SUFFICES ASSUME truncations' = 0, NEW i \in Incident
             PROVE  /\ row'[i] = None <=> events'[i] = <<>>
                    /\ \E h : History(h, events'[i]) /\ StateOf(row'[i]) = h[Len(events'[i])]
  BY DEF RowsReplay, History, Replaying, StateOf
<1>0. IInv /\ TypeOK
  BY DEF ReplayInv, IInv
<1>1. truncations = 0 /\ ~Truncate
  BY <1>0, TruncationsCounted
<1>2. PICK h : /\ row[i] = None <=> events[i] = <<>>
               /\ History(h, events[i]) /\ StateOf(row[i]) = h[Len(events[i])]
  BY <1>1 DEF ReplayInv, RowsReplay
<1>3. CASE events'[i] = events[i] /\ row'[i] = row[i]
  <2>1. StateOf(row'[i]) = h[Len(events'[i])]
    BY <1>2, <1>3
  <2> QED BY <1>2, <1>3, <2>1
<1>4. CASE ~\E p \in Process : Commit(p) \/ CommitLifecycle(p)
  <2>1. UNCHANGED <<events, row>>
    BY <1>0, <1>1, <1>4, NotCommits
  <2> QED BY <1>3, <2>1
<1>5. ASSUME NEW p \in Process, Commit(p) \/ CommitLifecycle(p)
      PROVE  /\ row'[i] = None <=> events'[i] = <<>>
             /\ \E g : History(g, events'[i]) /\ StateOf(row'[i]) = g[Len(events'[i])]
  <2>1. PICK j \in Incident, specs \in Seq(Payload), n \in Nat :
          /\ Len(specs) \in {1, 2}
          /\ events[j] \in Seq(Event) /\ n = Len(events[j])
          /\ events' = [events EXCEPT ![j] = events[j] \o Stamp(n, specs)]
          /\ row' = [row EXCEPT ![j] = Projected(row[j], n, specs)]
    BY <1>0, <1>5, CommitWrites
  <2>2. CASE i # j
    <3>1. events'[i] = events[i] /\ row'[i] = row[i]
      BY <1>0, <2>1, <2>2 DEF TypeOK
    <3> QED BY <1>3, <3>1
  <2>3. CASE i = j
    <3> DEFINE es == events[i]
               log == es \o Stamp(Len(es), specs)
               r == Projected(row[i], Len(es), specs)
    <3>1. events'[i] = log /\ row'[i] = r
      BY <1>0, <2>1, <2>3 DEF TypeOK
    <3>2. es \in Seq(Event) /\ row[i] \in Row \cup {None}
      BY <1>0, <2>1, <2>3 DEF TypeOK
    <3>3. \E g : History(g, log) /\ StateOf(r) = g[Len(log)]
      BY <1>2, <2>1, <3>2, ProjectedHistory
    <3>4. Len(log) = Len(es) + Len(specs) /\ Len(es) \in Nat
      <4> HIDE DEF es
      <4>1. Len(es) \in Nat
        BY <3>2
      <4> QED BY <2>1, <3>2, <4>1, Appended
    <3>5. r \in Row
      BY <2>1, <3>2, <3>4, ProjectedTyped
    <3> HIDE DEF log, r, es
    <3>6. log # <<>> /\ r # None
      <4>1. PICK k \in {1, 2} : k = Len(specs)
        BY <2>1
      <4>2. Len(log) # 0
        BY <3>4, <4>1
      <4> QED BY <3>5, <4>2, NoneAssumption
    <3> QED BY <3>1, <3>3, <3>6
  <2> QED BY <2>2, <2>3
<1> QED BY <1>4, <1>5

\* For any processes, requests, aborts, crashes and rebuilds.
THEOREM ReplayInvariance == Spec => []ReplayInv
<1>1. Init => ReplayInv
  BY InitInv, InitReplay DEF ReplayInv
<1>2. ReplayInv /\ [Next]_vars => ReplayInv'
  BY NextInv, NextReplay DEF ReplayInv
<1> QED BY <1>1, <1>2, PTL DEF Spec

\* Until an operator truncates the projection, every row is the replay of its
\* log, and an incident without a row has no event.
THEOREM RowsAreReplays == Spec => [](truncations = 0 => RowIsReplay)
<1>1. ReplayInv => (truncations = 0 => RowIsReplay)
  <2> SUFFICES ASSUME ReplayInv, truncations = 0, NEW i \in Incident, events[i] # <<>>
               PROVE  row[i] # None /\ row[i].state = Replayed(events[i])
    BY DEF RowIsReplay, ReplayInv, RowsReplay
  <2>1. PICK h : History(h, events[i]) /\ StateOf(row[i]) = h[Len(events[i])]
    BY DEF ReplayInv, RowsReplay
  <2>2. row[i] # None
    BY DEF ReplayInv, RowsReplay
  <2>3. Len(events[i]) \in Nat
    BY DEF ReplayInv, IInv, TypeOK
  <2>4. Replayed(events[i]) = h[Len(events[i])]
    BY <2>1, <2>3, ReplayedHistory
  <2> QED BY <2>1, <2>2, <2>4 DEF StateOf
<1> QED BY <1>1, ReplayInvariance, PTL
=============================================================================
