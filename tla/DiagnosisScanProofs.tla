------------------------- MODULE DiagnosisScanProofs -------------------------
(***************************************************************************)
(* Proofs about DiagnosisScan, for any incidents, limits and number of     *)
(* faults.                                                                 *)
(***************************************************************************)
EXTENDS DiagnosisScan, FiniteSetTheorems, NaturalsInduction,
        WellFoundedInduction, TLAPS

\* What the steps of a run leave of its result and its rows.
RunInv ==
  /\ pc \in {"idle", "list"} => /\ mode = "scan"
                                /\ page = {}
                                /\ row = 0
                                /\ eligible = 0
                                /\ used = 0
  /\ pc \in {"start", "work", "record"} => row # 0
  /\ pc = "dispose" /\ page # {} => row # 0

\* An incident of the sweep that was not examined is listed and lies after the
\* cursor; once the page is read it is a row still to come, or comes after all
\* rows of the page, of which there are more.  Rows are examined in order.
SweepInv ==
  /\ owed \subseteq Listed
  /\ \A i \in owed : i > after
  /\ mode = "scan" /\ row # 0 => row \in page /\ \A j \in todo : j > row
  /\ mode = "scan" /\ pc \notin {"idle", "list"} =>
       \A i \in owed : i \in todo \/ (more /\ page # {} /\ \A j \in page : i > j)

\* Every packet was written for a diagnosis that counts, and the batch goes on
\* only below the number of diagnoses it may make.
BudgetInv ==
  /\ pc \in {"rows", "start", "work"} => used <= eligible /\ eligible < MaxDiagnoses
  /\ pc = "record" => used <= eligible + 1 /\ eligible < MaxDiagnoses

IInv == TypeOK /\ RunInv /\ SweepInv /\ CursorPassesNoRow /\ LoopAccounted /\ BudgetInv

-----------------------------------------------------------------------------
\* A page is a prefix of what is listed after the cursor, and empty only when
\* nothing is listed there.
LEMMA PageIsPrefix ==
  ASSUME NEW S \in SUBSET Incident
  PROVE  /\ FirstOf(S) \subseteq S
         /\ \A i \in S \ FirstOf(S), j \in FirstOf(S) : i > j
         /\ S # {} => FirstOf(S) # {}
<1> USE IncidentAssumption, BoundAssumption
<1> DEFINE Below(i) == {k \in S : k < i}
<1>1. FirstOf(S) \subseteq S
  BY DEF FirstOf
<1>2. IsFiniteSet(S)
  BY FS_Subset
<1>3. ASSUME NEW i \in S \ FirstOf(S), NEW j \in FirstOf(S)
      PROVE  i > j
  <2>1. i \in Nat /\ j \in Nat /\ i # j
    BY <1>1
  <2>2. SUFFICES ASSUME i < j PROVE FALSE
    BY <2>1
  <2>3. Below(i) \in SUBSET Below(j) /\ Below(j) \in SUBSET S
    <3>1. \A k \in S : k \in Nat
      OBVIOUS
    <3>2. \A k \in S : k < i => k < j
      BY <2>1, <2>2, <3>1
    <3> QED
      BY <3>2
  <2>4. IsFiniteSet(Below(j)) /\ IsFiniteSet(Below(i))
    BY <1>2, <2>3, FS_Subset
  <2>5. Cardinality(Below(i)) <= Cardinality(Below(j))
    BY <2>3, <2>4, FS_Subset
  <2>6. Cardinality(Below(i)) \in Nat /\ Cardinality(Below(j)) \in Nat
    BY <2>4, FS_CardinalityType
  <2>7. Cardinality(Below(j)) < ScanBound /\ ~ Cardinality(Below(i)) < ScanBound
    BY DEF FirstOf
  <2> QED
    BY <2>5, <2>6, <2>7
<1>4. ASSUME S # {}
      PROVE  FirstOf(S) # {}
  <2>1. S \subseteq Nat
    OBVIOUS
  <2>2. PICK m \in S : \A k \in S : ~ (<<k, m>> \in OpToRel(<, Nat))
    <3>1. IsWellFoundedOn(OpToRel(<, Nat), Nat)
      BY NatLessThanWellFounded
    <3> QED
      BY <1>4, <2>1, <3>1, WFMin
  <2>3. Below(m) = {}
    BY <2>1, <2>2 DEF OpToRel
  <2>4. Cardinality(Below(m)) < ScanBound
    BY <2>3, FS_EmptySet
  <2> QED
    BY <2>4 DEF FirstOf
<1> QED
  BY <1>1, <1>3, <1>4

-----------------------------------------------------------------------------
LEMMA Initial == Init => IInv
<1> SUFFICES ASSUME Init PROVE IInv
  OBVIOUS
<1> USE IncidentAssumption, BoundAssumption
<1>1. TypeOK
  <2>1. status \in [Incident -> {"absent", "active", "review", "closed"}]
    BY DEF Init, Others!Init
  <2>2. used \in 0 .. limit /\ eligible \in 0 .. MaxDiagnoses
    BY DEF Init
  <2>3. changes \in 0 .. MaxChanges /\ faults \in 0 .. MaxFaults
    BY DEF Init
  <2> QED
    BY <2>1, <2>2, <2>3 DEF Init, TypeOK
<1>2. RunInv /\ LoopAccounted /\ BudgetInv
  BY DEF Init, RunInv, LoopAccounted, BudgetInv
<1>3. SweepInv /\ CursorPassesNoRow
  BY DEF Init, SweepInv, CursorPassesNoRow
<1> QED
  BY <1>1, <1>2, <1>3 DEF IInv

-----------------------------------------------------------------------------
\* What every step but those of the environment may use.
LEMMA Preserved ==
  ASSUME IInv, [Next]_vars
  PROVE  IInv'
<1> USE IncidentAssumption, BoundAssumption
<1>0. /\ TypeOK /\ RunInv /\ SweepInv /\ CursorPassesNoRow /\ LoopAccounted /\ BudgetInv
      /\ limit \in Nat
      /\ owed \subseteq Incident /\ Incident \subseteq Nat /\ 0 \notin Incident
  BY DEF IInv, TypeOK
<1>1. CASE UNCHANGED vars
  <2>0. UNCHANGED <<status, started, file, limit, pc, mode, after, page, todo, more,
                    row, eligible, used, owed, lost, changes, faults>>
    BY <1>1 DEF vars, run
  <2>1. TypeOK'
    BY <1>0, <2>0 DEF TypeOK
  <2>2. RunInv' /\ BudgetInv'
    BY <1>0, <2>0 DEF RunInv, BudgetInv
  <2>3. SweepInv'
    BY <1>0, <2>0 DEF SweepInv, Listed
  <2>4. CursorPassesNoRow' /\ LoopAccounted'
    BY <1>0, <2>0 DEF CursorPassesNoRow, LoopAccounted
  <2> QED
    BY <2>1, <2>2, <2>3, <2>4 DEF IInv
<1>2. ASSUME NEW i \in Incident, NEW to \in {"active", "review", "closed"}, NEW from,
             SetStatus(i, Others!Move(i, from, to)),
             to # "closed" => from \subseteq {"absent", "closed", "active", "review"}
      PROVE  IInv'
  <2>1. TypeOK'
    <3>1. status' \in [Incident -> {"absent", "active", "review", "closed"}]
      BY <1>0, <1>2 DEF SetStatus, Others!Move, TypeOK
    <3>2. owed' \in SUBSET Incident
      BY <1>0, <1>2 DEF SetStatus
    <3>3. changes' \in 0 .. MaxChanges
      BY <1>0, <1>2 DEF SetStatus, Change, TypeOK
    <3> QED
      BY <1>0, <1>2, <3>1, <3>2, <3>3 DEF SetStatus, TypeOK, run
  <2>2. owed' \subseteq owed /\ owed' \subseteq Listed'
    <3>1. owed' \subseteq owed
      BY <1>2 DEF SetStatus
    <3>2. ASSUME NEW j \in owed' PROVE j \in Listed'
      BY <1>0, <1>2, <3>1, <3>2 DEF SetStatus, Others!Move, SweepInv, Listed, TypeOK
    <3> QED
      BY <3>1, <3>2
  <2>3. UNCHANGED <<file, pc, mode, after, page, todo, more, row, eligible, used,
                    started, lost, limit>>
    BY <1>2 DEF SetStatus, run
  <2>4. RunInv' /\ LoopAccounted' /\ BudgetInv'
    BY <1>0, <2>3 DEF RunInv, LoopAccounted, BudgetInv
  <2>5. SweepInv' /\ CursorPassesNoRow'
    BY <1>0, <2>2, <2>3 DEF SweepInv, CursorPassesNoRow
  <2> QED
    BY <2>1, <2>4, <2>5 DEF IInv
<1>3. CASE BeginScan
  <2>1. TypeOK'
    <3>1. after' \in Incident \cup {0} /\ file' \in Incident \cup {Absent, Unusable}
      BY <1>0, <1>3 DEF BeginScan, TypeOK
    <3>2. owed' \in SUBSET Incident
      BY <1>0, <1>3 DEF BeginScan, Listed
    <3>3. faults' \in 0 .. MaxFaults
      BY <1>0, <1>3 DEF BeginScan, NoFault, Fault, TypeOK
    <3> QED
      BY <1>0, <1>3, <3>1, <3>2, <3>3 DEF BeginScan, TypeOK
  <2>2. RunInv' /\ LoopAccounted' /\ BudgetInv'
    BY <1>0, <1>3 DEF BeginScan, RunInv, LoopAccounted, BudgetInv
  <2>3. CursorPassesNoRow' /\ \A i \in owed' : i > after'
    <3>1. CASE file \in Incident
      BY <1>0, <1>3, <3>1 DEF BeginScan, CursorPassesNoRow
    <3>2. CASE file \notin Incident
      <4>1. after' = 0 /\ file' \notin Incident
        BY <1>0, <1>3, <3>2 DEF BeginScan, Absent
      <4>2. owed' \subseteq Incident
        BY <2>1 DEF TypeOK
      <4> QED
        BY <4>1, <4>2, <1>0 DEF CursorPassesNoRow
    <3> QED
      BY <3>1, <3>2
  <2>4. owed' \subseteq Listed'
    BY <1>0, <1>3 DEF BeginScan, SweepInv, Listed
  <2>5. SweepInv'
    BY <1>0, <1>3, <2>3, <2>4 DEF BeginScan, SweepInv, RunInv
  <2> QED
    BY <2>1, <2>2, <2>3, <2>5 DEF IInv
<1>4. ASSUME NEW ids \in SUBSET Incident, BeginIds(ids)
      PROVE  IInv'
  <2>1. changes' \in 0 .. MaxChanges
    BY <1>0, <1>4 DEF BeginIds, Change, TypeOK
  <2>2. TypeOK'
    BY <1>0, <1>4, <2>1 DEF BeginIds, TypeOK
  <2>3. RunInv' /\ LoopAccounted' /\ BudgetInv' /\ CursorPassesNoRow'
    BY <1>0, <1>4 DEF BeginIds, RunInv, LoopAccounted, BudgetInv, CursorPassesNoRow
  <2>4. SweepInv'
    BY <1>0, <1>4 DEF BeginIds, SweepInv, Listed
  <2> QED
    BY <2>2, <2>3, <2>4 DEF IInv
<1>5. CASE List
  <2>1. /\ page' \subseteq Ahead(after)
        /\ \A i \in Ahead(after) \ page', j \in page' : i > j
        /\ Ahead(after) # {} => page' # {}
        /\ Ahead(after) \subseteq Incident
    <3>1. Ahead(after) \in SUBSET Incident
      BY DEF Ahead, Listed
    <3>2. page' = FirstOf(Ahead(after))
      BY <1>5 DEF List
    <3> QED
      BY <3>1, <3>2, PageIsPrefix
  <2>2. todo' = page' /\ more' = (page' # Ahead(after)) /\ row' = 0 /\ mode' = "scan"
    BY <1>0, <1>5 DEF List, RunInv
  <2>3. owed \subseteq Ahead(after)
    BY <1>0 DEF SweepInv, Ahead
  <2>4. TypeOK'
    <3>1. page' \in SUBSET Incident /\ todo' \in SUBSET page' /\ more' \in BOOLEAN
      BY <2>1, <2>2
    <3> QED
      BY <1>0, <1>5, <3>1 DEF List, TypeOK
  <2>5. RunInv' /\ LoopAccounted' /\ CursorPassesNoRow'
    BY <1>0, <1>5 DEF List, RunInv, LoopAccounted, CursorPassesNoRow
  <2>6. BudgetInv'
    BY <1>0, <1>5 DEF List, RunInv, BudgetInv
  <2>7. ASSUME NEW i \in owed'
        PROVE  i \in todo' \/ (more' /\ page' # {} /\ \A j \in page' : i > j)
    <3>1. i \in Ahead(after)
      BY <1>5, <2>3, <2>7 DEF List
    <3> QED
      BY <3>1, <2>1, <2>2
  <2>8. SweepInv'
    BY <1>0, <1>5, <2>2, <2>7 DEF List, SweepInv, Listed
  <2> QED
    BY <2>4, <2>5, <2>6, <2>8 DEF IInv
\* A row is taken from the front of what is left of the page.
<1>6. ASSUME NEW i \in Incident, Examine(i),
             UNCHANGED <<status, file, mode, after, page, more>>,
             pc' \in {"rows", "start", "dispose"}
      PROVE  SweepInv' /\ CursorPassesNoRow' /\ row' = i /\ i # 0
  <2>1. /\ pc = "rows" /\ i \in todo /\ row' = i
        /\ todo' = todo \ {i} /\ owed' = owed \ {i}
        /\ mode = "scan" => \A j \in todo : i <= j
    BY <1>6 DEF Examine, IsNext
  <2>2. page \subseteq Nat /\ todo \subseteq page
    BY <1>0 DEF TypeOK
  <2>3. mode = "scan" => row' \in page' /\ \A j \in todo' : j > row'
    BY <1>6, <2>1, <2>2
  <2>4. owed' \subseteq Listed' /\ \A j \in owed' : j > after'
    BY <1>0, <1>6, <2>1 DEF SweepInv, Listed
  <2>5. mode' = "scan" => \A j \in owed' :
          j \in todo' \/ (more' /\ page' # {} /\ \A k \in page' : j > k)
    BY <1>0, <1>6, <2>1 DEF SweepInv
  <2>6. CursorPassesNoRow'
    BY <1>0, <1>6, <2>1 DEF CursorPassesNoRow
  <2> QED
    BY <1>0, <1>6, <2>1, <2>3, <2>4, <2>5, <2>6 DEF SweepInv
<1>7. ASSUME NEW i \in Incident, PassOver(i) \/ TakeUp(i)
      PROVE  IInv'
  <2>1. /\ Examine(i)
        /\ UNCHANGED <<status, started, file, limit, mode, after, page, more,
                       eligible, used, lost, changes>>
        /\ pc' \in {"rows", "start", "dispose"}
        /\ faults' \in 0 .. MaxFaults
    BY <1>0, <1>7 DEF PassOver, TakeUp, RowOrDisposal, Fault, NoFault, TypeOK
  <2>2. SweepInv' /\ CursorPassesNoRow' /\ row' = i /\ i # 0
    BY <1>6, <2>1
  <2>3. TypeOK'
    BY <1>0, <2>1, <2>2 DEF TypeOK, Examine, IsNext
  <2>4. RunInv' /\ LoopAccounted' /\ BudgetInv'
    <3>1. pc = "rows"
      BY <2>1 DEF Examine, IsNext
    <3> QED
      BY <1>0, <2>1, <2>2, <3>1 DEF RunInv, LoopAccounted, BudgetInv
  <2> QED
    BY <2>2, <2>3, <2>4 DEF IInv
\* The other steps of a row leave the rows and the sweep as they are.
<1>8. ASSUME UNCHANGED <<status, file, mode, after, page, todo, more, row, owed>>,
             pc \in {"start", "work", "record"},
             pc' \in {"rows", "start", "work", "record", "dispose"}
      PROVE  SweepInv' /\ CursorPassesNoRow' /\ RunInv'
  <2>1. CursorPassesNoRow'
    BY <1>0, <1>8 DEF CursorPassesNoRow
  <2>2. RunInv'
    BY <1>0, <1>8 DEF RunInv
  <2>3. SweepInv'
    BY <1>0, <1>8 DEF SweepInv, Listed
  <2> QED
    BY <2>1, <2>2, <2>3
<1>9. CASE RecordStarted
  <2>1. /\ pc = "start" /\ row \in Incident
        /\ UNCHANGED <<status, file, limit, mode, after, page, todo, more, row,
                       used, owed, changes>>
    BY <1>0, <1>9 DEF RecordStarted, RunInv, TypeOK
  <2>2. used <= eligible /\ eligible < MaxDiagnoses /\ eligible \in Nat /\ used \in Nat
    BY <1>0, <2>1 DEF BudgetInv, TypeOK
  <2>3. \/ pc' = "work" /\ eligible' = eligible
        \/ /\ eligible' = eligible + 1
           /\ pc' \in {"rows", "dispose"}
           /\ pc' = "rows" => eligible' < MaxDiagnoses
    BY <1>9, <2>2 DEF RecordStarted, CountEligible, RowOrDisposal
  <2>4. SweepInv' /\ CursorPassesNoRow' /\ RunInv'
    BY <1>8, <2>1, <2>3
  <2>5. TypeOK'
    <3>1. faults' \in 0 .. MaxFaults
      BY <1>0, <1>9 DEF RecordStarted, Fault, NoFault, TypeOK
    <3>2. started' \in SUBSET Incident /\ lost' \in SUBSET Incident
      BY <1>0, <1>9, <2>1 DEF RecordStarted, TypeOK
    <3>3. eligible' \in 0 .. MaxDiagnoses
      BY <2>2, <2>3
    <3> QED
      BY <1>0, <2>1, <2>3, <3>1, <3>2, <3>3 DEF TypeOK
  <2>6. LoopAccounted'
    <3>1. \A i \in started : i \in lost
      BY <1>0, <2>1 DEF LoopAccounted
    <3>2. \/ /\ started' = started \cup {row} /\ lost' = lost \ {row}
             /\ pc' = "work"
          \/ /\ started' \in {started, started \cup {row}}
             /\ lost' = lost \cup (started' \ started)
             /\ pc' \in {"rows", "dispose"}
      BY <1>9, <2>2 DEF RecordStarted, CountEligible, RowOrDisposal
    <3>3. CASE pc' = "work"
      BY <2>1, <3>1, <3>2, <3>3 DEF LoopAccounted
    <3>4. CASE pc' # "work"
      BY <2>1, <3>1, <3>2, <3>4 DEF LoopAccounted
    <3> QED
      BY <3>3, <3>4
  <2>7. BudgetInv'
    BY <2>1, <2>2, <2>3 DEF BudgetInv
  <2> QED
    BY <2>4, <2>5, <2>6, <2>7 DEF IInv
<1>10. CASE Diagnose
  <2>1. /\ pc = "work" /\ pc' = "record"
        /\ UNCHANGED <<status, started, file, limit, mode, after, page, todo,
                       more, row, eligible, owed, lost, changes, faults>>
        /\ used' \in {used, used + 1} /\ used' <= limit
    BY <1>10 DEF Diagnose
  <2>2. SweepInv' /\ CursorPassesNoRow' /\ RunInv'
    BY <1>8, <2>1
  <2>3. used' \in 0 .. limit'
    BY <1>0, <2>1 DEF TypeOK
  <2>4. TypeOK'
    BY <1>0, <2>1, <2>3 DEF TypeOK
  <2>5. LoopAccounted'
    BY <1>0, <2>1 DEF LoopAccounted
  <2>6. BudgetInv'
    BY <1>0, <2>1 DEF BudgetInv, TypeOK
  <2> QED
    BY <2>2, <2>4, <2>5, <2>6 DEF IInv
<1>11. CASE RecordEnded
  <2>1. /\ pc = "record" /\ row \in Incident
        /\ UNCHANGED <<status, file, limit, mode, after, page, todo, more, row,
                       used, owed, changes>>
    BY <1>0, <1>11 DEF RecordEnded, RunInv, TypeOK
  <2>2. used <= eligible + 1 /\ eligible < MaxDiagnoses /\ eligible \in Nat /\ used \in Nat
    BY <1>0, <2>1 DEF BudgetInv, TypeOK
  <2>3. /\ eligible' = eligible + 1
        /\ pc' \in {"rows", "dispose"}
        /\ pc' = "rows" => eligible' < MaxDiagnoses
    BY <1>11, <2>2 DEF RecordEnded, CountEligible, RowOrDisposal
  <2>4. SweepInv' /\ CursorPassesNoRow' /\ RunInv'
    BY <1>8, <2>1, <2>3
  <2>5. TypeOK'
    <3>1. faults' \in 0 .. MaxFaults
      BY <1>0, <1>11 DEF RecordEnded, Fault, NoFault, TypeOK
    <3>2. started' \in SUBSET Incident /\ lost' \in SUBSET Incident
      BY <1>0, <1>11, <2>1 DEF RecordEnded, TypeOK
    <3>3. eligible' \in 0 .. MaxDiagnoses
      BY <2>2, <2>3
    <3> QED
      BY <1>0, <2>1, <2>3, <3>1, <3>2, <3>3 DEF TypeOK
  <2>6. LoopAccounted'
    BY <1>0, <1>11, <2>1, <2>3 DEF RecordEnded, LoopAccounted
  <2>7. BudgetInv'
    BY <2>1, <2>2, <2>3 DEF BudgetInv
  <2> QED
    BY <2>4, <2>5, <2>6, <2>7 DEF IInv
\* The end of a run forgets its rows.
<1>12. ASSUME NoRun, pc' = "idle", UNCHANGED <<status, limit, owed, changes>>,
              faults' \in 0 .. MaxFaults,
              started' \in SUBSET Incident, lost' \in SUBSET Incident,
              file' \in Incident \cup {Absent, Unusable}
       PROVE  TypeOK' /\ RunInv' /\ SweepInv' /\ BudgetInv'
  <2>1. TypeOK'
    <3>1. /\ mode' \in {"scan", "ids"}
          /\ after' \in Incident \cup {0}
          /\ page' \in SUBSET Incident
          /\ todo' \in SUBSET page'
          /\ more' \in BOOLEAN
          /\ row' \in Incident \cup {0}
      BY <1>12 DEF NoRun
    <3>2. eligible' \in 0 .. MaxDiagnoses /\ used' \in 0 .. limit'
      BY <1>0, <1>12 DEF NoRun
    <3>3. /\ status' \in [Incident -> {"absent", "active", "review", "closed"}]
          /\ limit' \in Limits
          /\ pc' \in {"idle", "list", "rows", "start", "work", "record", "dispose"}
          /\ owed' \in SUBSET Incident
          /\ changes' \in 0 .. MaxChanges
      BY <1>0, <1>12 DEF TypeOK
    <3> QED
      BY <1>12, <3>1, <3>2, <3>3 DEF TypeOK
  <2>2. RunInv' /\ BudgetInv'
    BY <1>12 DEF NoRun, RunInv, BudgetInv
  <2>3. \A i \in owed' : i > after'
    BY <1>0, <1>12 DEF NoRun
  <2>4. SweepInv'
    BY <1>0, <1>12, <2>3 DEF NoRun, SweepInv, Listed
  <2> QED
    BY <2>1, <2>2, <2>4
<1>13. CASE Dispose
  <2>1. /\ pc = "dispose" /\ pc' = "idle" /\ NoRun
        /\ UNCHANGED <<status, started, limit, owed, lost, changes>>
        /\ faults' \in 0 .. MaxFaults
        /\ file' \in {file, Disposition}
    BY <1>0, <1>13 DEF Dispose, NoFault, Fault, TypeOK
  <2>2. \/ Disposition = file
        \/ Disposition = Absent
        \/ /\ Disposition = row /\ mode = "scan" /\ page # {} /\ row \in Incident
           /\ todo # {} \/ more
    BY <1>0, <2>1 DEF Disposition, KeepsCursor, ClearsCursor, RunInv, TypeOK
  <2>3. file' \in Incident \cup {Absent, Unusable}
    BY <1>0, <2>1, <2>2 DEF TypeOK
  <2>4. TypeOK' /\ RunInv' /\ SweepInv' /\ BudgetInv'
    BY <1>0, <1>12, <2>1, <2>3 DEF TypeOK
  <2>5. LoopAccounted'
    BY <1>0, <2>1 DEF LoopAccounted
  <2>6. CursorPassesNoRow'
    <3>1. CASE file' = file
      BY <1>0, <2>1, <3>1 DEF CursorPassesNoRow
    <3>2. CASE file' = Absent
      BY <1>0, <3>2 DEF CursorPassesNoRow, Absent
    <3>3. CASE /\ file' = row /\ mode = "scan" /\ page # {} /\ row \in Incident
      <4>1. row \in page /\ \A j \in todo : j > row
        BY <1>0, <3>3 DEF SweepInv
      <4>2. ASSUME NEW i \in owed PROVE i > row
        BY <1>0, <2>1, <3>3, <4>1, <4>2 DEF SweepInv
      <4> QED
        BY <2>1, <3>3, <4>2 DEF CursorPassesNoRow
    <3> QED
      BY <2>1, <2>2, <3>1, <3>2, <3>3
  <2> QED
    BY <2>4, <2>5, <2>6 DEF IInv
<1>14. CASE Abort
  <2>1. /\ NoRun /\ pc' = "idle"
        /\ UNCHANGED <<status, started, file, limit, owed, changes>>
        /\ faults' \in 0 .. MaxFaults
        /\ lost' = IF pc \in {"work", "record"} THEN lost \cup {row} ELSE lost
    BY <1>0, <1>14 DEF Abort, Fault, TypeOK
  <2>2. lost' \in SUBSET Incident
    BY <1>0, <2>1 DEF RunInv, TypeOK
  <2>3. TypeOK' /\ RunInv' /\ SweepInv' /\ BudgetInv'
    BY <1>0, <1>12, <2>1, <2>2 DEF TypeOK
  <2>4. LoopAccounted' /\ CursorPassesNoRow'
    BY <1>0, <2>1 DEF LoopAccounted, CursorPassesNoRow
  <2> QED
    BY <2>3, <2>4 DEF IInv
<1>15. ASSUME NEW i \in Incident, Open(i) \/ AskReview(i) \/ Resume(i) \/ Close(i)
       PROVE  IInv'
  BY <1>2, <1>15 DEF Open, AskReview, Resume, Close, Others!Open,
                      Others!AskReview, Others!Resume, Others!Close
<1> QED
  BY <1>1, <1>3, <1>4, <1>5, <1>7, <1>9, <1>10, <1>11, <1>13, <1>14, <1>15
  DEF Next, Collect


-----------------------------------------------------------------------------
\* The inductive invariant of the scan holds of every behaviour.
THEOREM Invariance == Spec => []IInv
<1>1. IInv /\ [Next]_vars => IInv'
  BY Preserved
<1> QED
  BY Initial, <1>1, PTL DEF Spec

\* Every variable of the collector keeps its type: in particular no run makes
\* more diagnoses, or writes more packets, than its configuration allows.
THEOREM TypesCorrect == Spec => []TypeOK
<1>1. IInv => TypeOK
  BY DEF IInv
<1> QED
  BY Invariance, <1>1, PTL

\* The cursor that a run saves passes by no incident that the sweep owes an
\* examination, over crashes, failed saves and half-done pages.
THEOREM NoRowIsPassedBy == Spec => []CursorPassesNoRow
<1>1. IInv => CursorPassesNoRow
  BY DEF IInv
<1> QED
  BY Invariance, <1>1, PTL

\* A diagnosis that is on record as started without an end is the one that is
\* running, or a fault took the record of its end.
THEOREM DiagnosesAreAccounted == Spec => []LoopAccounted
<1>1. IInv => LoopAccounted
  BY DEF IInv
<1> QED
  BY Invariance, <1>1, PTL

\* With as many packets as diagnoses the budget never turns a row down.
THEOREM BudgetSuffices == Spec => []BudgetOutlastsRun
<1>1. IInv => BudgetOutlastsRun
  <2> SUFFICES ASSUME IInv, limit >= MaxDiagnoses, pc = "rows"
               PROVE  used < limit
    BY DEF BudgetOutlastsRun
  <2>1. used <= eligible /\ eligible < MaxDiagnoses
    BY DEF IInv, BudgetInv
  <2>2. limit \in Nat /\ used \in Nat /\ eligible \in Nat /\ MaxDiagnoses \in Nat
    BY BoundAssumption DEF IInv, TypeOK
  <2> QED
    BY <2>1, <2>2
<1> QED
  BY Invariance, <1>1, PTL

\* The cursor is removed only at the end of a complete sweep.
THEOREM SweepsAreComplete == Spec => SweepIsComplete
<1>1. IInv /\ [Next]_vars => [(file \in Incident /\ file' = Absent) => owed = {}]_vars
  <2> SUFFICES ASSUME IInv, Next, file \in Incident, file' = Absent
               PROVE  owed = {}
    BY DEF IInv
  <2>0. file # Absent
    BY IncidentAssumption DEF Absent
  <2>1. file' # file
    BY <2>0
  <2>2. \/ BeginScan \/ Dispose
    BY <2>1 DEF Next, Collect, List, PassOver, TakeUp, RecordStarted, Diagnose,
                RecordEnded, Abort, BeginIds, Open, AskReview, Resume, Close,
                SetStatus
  <2>3. CASE BeginScan
    BY <2>1, <2>3 DEF BeginScan
  <2>4. CASE Dispose
    <3>1. pc = "dispose" /\ Disposition = Absent
      BY <2>1, <2>4 DEF Dispose
    <3>2. row \in Incident \/ page = {}
      BY <3>1 DEF IInv, RunInv, TypeOK
    <3>3. mode = "scan"
      BY <2>0, <3>1 DEF Disposition, KeepsCursor, IInv, TypeOK
    <3>4. ClearsCursor
      BY <2>0, <3>1, <3>2, IncidentAssumption
      DEF Disposition, KeepsCursor, ClearsCursor, Absent
    <3>5. todo = {} /\ (page = {} \/ ~ more)
      BY <3>4 DEF ClearsCursor, IInv, TypeOK
    <3> QED
      BY <3>1, <3>3, <3>5 DEF IInv, SweepInv
  <2> QED
    BY <2>2, <2>3, <2>4
<1>2. SweepIsComplete <=> [][(file \in Incident /\ file' = Absent) => owed = {}]_vars
  BY DEF SweepIsComplete
<1> QED
  BY Invariance, <1>1, <1>2, PTL DEF Spec

-----------------------------------------------------------------------------
(* What of the ends of runs needs no fairness                              *)

\* A page has at most ScanBound rows: two of its rows have different numbers
\* of rows before them.
LEMMA PageIsShort ==
  ASSUME NEW S \in SUBSET Incident
  PROVE  Cardinality(FirstOf(S)) \in Nat /\ Cardinality(FirstOf(S)) <= ScanBound
<1> USE IncidentAssumption, BoundAssumption
<1> DEFINE T == FirstOf(S)
           Below(i) == {k \in S : k < i}
           before == [i \in T |-> Cardinality(Below(i))]
<1>1. T \subseteq S /\ S \subseteq Nat
  BY DEF FirstOf
<1>2. IsFiniteSet(S) /\ IsFiniteSet(T)
  BY <1>1, FS_Subset
<1>3. Cardinality(T) \in Nat
  BY <1>2, FS_CardinalityType
<1>4. \A i \in S : IsFiniteSet(Below(i)) /\ Cardinality(Below(i)) \in Nat
  BY <1>2, FS_Subset, FS_CardinalityType
<1>5. before \in [T -> 0 .. ScanBound - 1]
  <2>1. ASSUME NEW i \in T PROVE Cardinality(Below(i)) \in 0 .. ScanBound - 1
    BY <1>1, <1>4 DEF FirstOf
  <2> QED BY <2>1
<1>6. IsFiniteSet(0 .. ScanBound - 1) /\ Cardinality(0 .. ScanBound - 1) = ScanBound
  BY FS_Interval
<1>7. ASSUME NEW x \in T, NEW y \in T, x < y
      PROVE  before[x] # before[y]
  <2>0. x \in Nat /\ y \in Nat /\ x \in S /\ \A k \in S : k \in Nat
    BY <1>1, <1>7
  <2>1. Below(x) \in SUBSET Below(y)
    <3>1. \A k \in S : k < x => k < y
      BY <1>7, <2>0
    <3> QED BY <3>1
  <2>2. x \in Below(y) /\ x \notin Below(x)
    <3>1. ~ (x < x)
      BY <2>0
    <3> QED BY <1>7, <2>0, <3>1
  <2>3. Below(x) # Below(y)
    BY <2>2
  <2>4. Cardinality(Below(y)) # Cardinality(Below(x))
    BY <1>1, <1>4, <2>1, <2>3, FS_Subset
  <2> QED BY <2>4
<1>8. \A x, y \in T : x # y => before[x] # before[y]
  <2> SUFFICES ASSUME NEW x \in T, NEW y \in T, x # y PROVE before[x] # before[y]
    OBVIOUS
  <2>0. x \in Nat /\ y \in Nat
    BY <1>1
  <2>1. x < y \/ y < x
    BY <2>0
  <2> QED BY <1>7, <2>1
<1>9. ~(Cardinality(0 .. ScanBound - 1) < Cardinality(T))
  <2> HIDE DEF T, before
  <2> QED BY <1>2, <1>5, <1>6, <1>8, FS_PigeonHole
<1> QED BY <1>3, <1>6, <1>9

\* A run takes no more rows than its page may have, or than it may name.
MostRows == IF mode = "scan" THEN ScanBound ELSE MaxDiagnoses

PageBounded == Cardinality(page) <= MostRows

\* A bound of the steps that a run has ahead of it.
StepsAhead ==
  CASE pc = "list"    -> 4 * ScanBound + 2
    [] pc = "rows"    -> 4 * Cardinality(todo) + 1
    [] pc = "start"   -> 4 * Cardinality(todo) + 4
    [] pc = "work"    -> 4 * Cardinality(todo) + 3
    [] pc = "record"  -> 4 * Cardinality(todo) + 2
    [] pc = "dispose" -> 1
    [] OTHER          -> 0

\* The bound is one: a run makes at most as many steps as its rows allow.
RunBounded == StepsAhead \in 0 .. 4 * MostRows + 4

\* Whatever moves a run takes it nearer to its end: it examines no row twice,
\* and no fault makes it start over.
RunsAdvance ==
  [][pc # "idle" => \/ StepsAhead' < StepsAhead
                    \/ UNCHANGED <<pc, run>>]_vars

LEMMA TodoCounts ==
  ASSUME TypeOK
  PROVE  /\ Cardinality(todo) \in Nat
         /\ \A i \in todo : /\ Cardinality(todo \ {i}) \in Nat
                            /\ Cardinality(todo) = Cardinality(todo \ {i}) + 1
<1>1. IsFiniteSet(todo)
  BY IncidentAssumption, FS_Subset DEF TypeOK
<1>2. Cardinality(todo) \in Nat
  BY <1>1, FS_CardinalityType
<1>3. ASSUME NEW i \in todo
      PROVE  /\ Cardinality(todo \ {i}) \in Nat
             /\ Cardinality(todo) = Cardinality(todo \ {i}) + 1
  <2>1. IsFiniteSet(todo \ {i}) /\ Cardinality(todo \ {i}) = Cardinality(todo) - 1
    BY <1>1, FS_RemoveElement
  <2>2. Cardinality(todo \ {i}) \in Nat
    BY <2>1, FS_CardinalityType
  <2> QED BY <1>2, <2>1, <2>2
<1> QED BY <1>2, <1>3

LEMMA ListedPage == ASSUME TypeOK, NEW p PROVE {i \in Listed : i > p} \in SUBSET Incident
BY DEF Listed

LEMMA CollectAdvances ==
  ASSUME IInv, Collect \/ Abort, pc # "idle"
  PROVE  StepsAhead' < StepsAhead
<1> DEFINE N == Cardinality(todo)
<1>0. /\ TypeOK /\ N \in Nat /\ ScanBound \in Nat
      /\ pc \in {"list", "rows", "start", "work", "record", "dispose"}
  BY TodoCounts, BoundAssumption DEF IInv, TypeOK
<1>1. StepsAhead \in Nat /\ StepsAhead > 0
  <2>1. StepsAhead \in {4 * ScanBound + 2, 4 * N + 1, 4 * N + 4, 4 * N + 3, 4 * N + 2, 1}
    BY <1>0 DEF StepsAhead
  <2> HIDE DEF N
  <2> QED BY <1>0, <2>1
<1>2. CASE Abort \/ Dispose
  <2>1. pc' = "idle"
    BY <1>2 DEF Abort, Dispose
  <2>2. StepsAhead' = 0
    BY <2>1 DEF StepsAhead
  <2> QED BY <1>1, <2>2
<1>3. CASE List
  <2>1. /\ pc = "list" /\ todo' = FirstOf({i \in Listed : i > after})
        /\ pc' \in {"dispose", "rows"}
    BY <1>3 DEF List, Ahead
  <2>2. Cardinality(todo') \in Nat /\ Cardinality(todo') <= ScanBound
    BY <1>0, <2>1, ListedPage, PageIsShort
  <2>3. StepsAhead' \in {1, 4 * Cardinality(todo') + 1}
    BY <2>1 DEF StepsAhead
  <2>4. StepsAhead = 4 * ScanBound + 2
    BY <2>1 DEF StepsAhead
  <2> DEFINE M == Cardinality(todo')
  <2> HIDE DEF M
  <2>5. M \in Nat /\ M <= ScanBound /\ StepsAhead' \in {1, 4 * M + 1}
    BY <2>2, <2>3 DEF M
  <2> QED BY <1>0, <2>4, <2>5
<1>4. ASSUME NEW i \in Incident, PassOver(i) \/ TakeUp(i) PROVE StepsAhead' < StepsAhead
  <2>1. /\ pc = "rows" /\ i \in todo /\ todo' = todo \ {i}
        /\ pc' \in {"dispose", "rows", "start"}
    BY <1>4 DEF PassOver, TakeUp, Examine, IsNext, RowOrDisposal
  <2> DEFINE M == Cardinality(todo')
  <2>2. M \in Nat /\ N = M + 1
    BY <1>0, <2>1, TodoCounts
  <2>3. StepsAhead = 4 * N + 1 /\ StepsAhead' \in {1, 4 * M + 1, 4 * M + 4}
    BY <2>1 DEF StepsAhead
  <2> HIDE DEF M, N
  <2> QED BY <2>2, <2>3
<1>5. CASE RecordStarted
  <2>1. /\ pc = "start" /\ todo' = todo /\ pc' \in {"work", "dispose", "rows"}
    BY <1>5 DEF RecordStarted, CountEligible, RowOrDisposal
  <2>2. StepsAhead = 4 * N + 4 /\ StepsAhead' \in {4 * N + 3, 1, 4 * N + 1}
    BY <2>1 DEF StepsAhead
  <2> HIDE DEF N
  <2> QED BY <1>0, <2>2
<1>6. CASE Diagnose
  <2>1. pc = "work" /\ todo' = todo /\ pc' = "record"
    BY <1>6 DEF Diagnose
  <2>2. StepsAhead = 4 * N + 3 /\ StepsAhead' = 4 * N + 2
    BY <2>1 DEF StepsAhead
  <2> HIDE DEF N
  <2> QED BY <1>0, <2>2
<1>7. CASE RecordEnded
  <2>1. pc = "record" /\ todo' = todo /\ pc' \in {"dispose", "rows"}
    BY <1>7 DEF RecordEnded, CountEligible, RowOrDisposal
  <2>2. StepsAhead = 4 * N + 2 /\ StepsAhead' \in {1, 4 * N + 1}
    BY <2>1 DEF StepsAhead
  <2> HIDE DEF N
  <2> QED BY <1>0, <2>2
<1> QED BY <1>2, <1>3, <1>4, <1>5, <1>6, <1>7 DEF Collect, BeginScan

LEMMA PagesBounded ==
  ASSUME IInv, PageBounded, [Next]_vars
  PROVE  PageBounded'
<1>0. TypeOK
  BY DEF IInv
<1>1. CASE List
  <2>1. mode = "scan" /\ mode' = mode /\ page' = FirstOf({i \in Listed : i > after})
    BY <1>1 DEF List, Ahead, IInv, RunInv
  <2> QED BY <1>0, <2>1, ListedPage, PageIsShort DEF PageBounded, MostRows
<1>2. CASE \E ids \in SUBSET Incident : BeginIds(ids)
  BY <1>2 DEF BeginIds, PageBounded, MostRows
<1>3. CASE Dispose \/ Abort
  <2>1. page' = {} /\ mode' = "scan"
    BY <1>3 DEF Dispose, Abort, NoRun
  <2> QED BY <2>1, FS_EmptySet, BoundAssumption DEF PageBounded, MostRows
<1>4. CASE \/ BeginScan \/ RecordStarted \/ Diagnose \/ RecordEnded
           \/ \E i \in Incident : PassOver(i) \/ TakeUp(i)
           \/ \E i \in Incident : Open(i) \/ AskReview(i) \/ Resume(i) \/ Close(i)
           \/ UNCHANGED vars
  BY <1>4 DEF BeginScan, RecordStarted, Diagnose, RecordEnded, PassOver, TakeUp,
              Open, AskReview, Resume, Close, SetStatus, PageBounded, MostRows, run, vars
<1> QED BY <1>1, <1>2, <1>3, <1>4 DEF Next, Collect

LEMMA PagesAreBounded == Spec => []PageBounded
<1>1. Init => PageBounded
  BY FS_EmptySet, BoundAssumption DEF Init, PageBounded, MostRows
<1> QED BY <1>1, PagesBounded, Invariance, PTL DEF Spec

\* Of a page that is bounded only so many steps are left.
LEMMA StepsBounded ==
  ASSUME IInv, PageBounded
  PROVE  RunBounded
<1> DEFINE N == Cardinality(todo)
           P == Cardinality(page)
<1>1. N \in Nat /\ P \in Nat /\ N <= P
  <2>1. IsFiniteSet(page) /\ todo \in SUBSET page
    BY IncidentAssumption, FS_Subset DEF IInv, TypeOK
  <2> QED BY <2>1, FS_Subset, FS_CardinalityType
<1>2. MostRows \in Nat /\ P <= MostRows /\ ScanBound \in Nat
  BY BoundAssumption DEF PageBounded, MostRows
<1>3. pc = "list" => MostRows = ScanBound
  BY DEF IInv, RunInv, MostRows
<1>4. \/ StepsAhead \in {4 * N + 1, 4 * N + 4, 4 * N + 3, 4 * N + 2, 1, 0}
      \/ pc = "list" /\ StepsAhead = 4 * ScanBound + 2
  <2>1. pc \in {"idle", "list", "rows", "start", "work", "record", "dispose"}
    BY DEF IInv, TypeOK
  <2> QED BY <2>1 DEF StepsAhead
<1> HIDE DEF N, P
<1> QED BY <1>1, <1>2, <1>3, <1>4 DEF RunBounded

\* A run takes at most ScanBound rows, or those that it was given, examines none
\* of them twice, and ends after at most four steps for each, whatever rows come
\* and go and whatever fails meanwhile (incident_diagnosis_auto_loop_evidence_collection.py).
THEOREM RunsEnd == Spec => []RunBounded /\ RunsAdvance
<1>1. IInv /\ [Next]_vars =>
        [pc # "idle" => StepsAhead' < StepsAhead \/ UNCHANGED <<pc, run>>]_vars
  <2> SUFFICES ASSUME IInv, Next, pc # "idle"
               PROVE  StepsAhead' < StepsAhead \/ UNCHANGED <<pc, run>>
    OBVIOUS
  <2>1. CASE Collect \/ Abort
    BY <2>1, CollectAdvances
  <2>2. CASE \E ids \in SUBSET Incident : BeginIds(ids)
    BY <2>2 DEF BeginIds
  <2>3. CASE \E i \in Incident : Open(i) \/ AskReview(i) \/ Resume(i) \/ Close(i)
    BY <2>3 DEF Open, AskReview, Resume, Close, SetStatus
  <2> QED BY <2>1, <2>2, <2>3 DEF Next
<1>2. IInv /\ PageBounded => RunBounded
  BY StepsBounded
<1> QED BY <1>1, <1>2, Invariance, PagesAreBounded, PTL DEF Spec, RunsAdvance
=============================================================================
