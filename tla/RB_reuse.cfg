SPECIFICATION Spec
CONSTANTS
  Nodes = {1, 2, 3, 4}
  Key <- Twice
  null = null
  NULL = NULL
CHECK_DEADLOCK FALSE
INVARIANT AlwaysAccepted
