SPECIFICATION FairSpec
CONSTANTS
  Incident <- FourIncidents
  MaxDiagnoses = 2
  ScanBound = 3
  Limits = {1, 2}
  MaxChanges = 2
  MaxFaults = 1
INVARIANTS
  TypeOK
  CursorPassesNoRow
  LoopAccounted
  BudgetOutlastsRun
PROPERTIES
  SweepIsComplete
  EveryRowExamined
  FairWithBudget
