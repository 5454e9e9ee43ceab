SPECIFICATION Spec
CONSTANTS
  Run = {r1, r2}
  None = None
  MayFallBack = FALSE
  MaxCommands = 3
CHECK_DEADLOCK FALSE

PROPERTIES PollKeepsLoad
