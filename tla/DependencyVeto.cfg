SPECIFICATION Spec
CONSTANTS
  Workflows = {"ci"}
  MaxHeads = 3
  MaxTurns = 1
INVARIANTS VetoStands
CHECK_DEADLOCK FALSE
