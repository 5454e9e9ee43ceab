SPECIFICATION FairSpec
CONSTANTS
  MaxRequests = 4
  Run = {r1}
  None = None
  MaxPolls = 1
  MaxCached = 1
  MaxWrites = 1
  MaxFaults = 1
INVARIANTS
  TypeOK
  EntryAttended
  OneBuilder
  SameAnswer
  Healed
PROPERTY Answered
CHECK_DEADLOCK FALSE
