SPECIFICATION Spec
CONSTANTS
  Tokens = {1, 2}
  Trace = 4
INVARIANTS
  RefreshesDescend
CHECK_DEADLOCK FALSE
