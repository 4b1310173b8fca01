SPECIFICATION Spec
CONSTANTS
  RunTurns = 4
  CallLimit = 3
INVARIANTS

  UnresolvedStaysBlocked
CHECK_DEADLOCK FALSE
