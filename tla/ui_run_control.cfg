SPECIFICATION FairSpec
CONSTANTS
  Run = {r1, r2}
  None = None
  MayFallBack = TRUE
  MaxCommands = 3
CHECK_DEADLOCK FALSE
INVARIANTS TypeOK ShowsSelected JumpHonest NoLostLoad OneFetch
PROPERTIES LateAnswersIgnored PollKeepsPayload LoadEnds ImplementsView
