SPECIFICATION Spec
CONSTANTS
  n1 = n1
  n2 = n2
  n3 = n3
  o1 = o1
  Node = {n1, n2, n3}
  Object = {o1}
  VNodeCount <- Counts
  IntSpan = 4
  LongSpan = 32
  DigestMax = 7
  Null = Null
SYMMETRY Symmetry
INVARIANTS TypeOK CountIsSize Complete
PROPERTIES MovesOnlyToNew
CHECK_DEADLOCK FALSE
