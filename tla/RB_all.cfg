SPECIFICATION Spec
CONSTANTS
  Nodes = {1, 2, 3, 4, 5, 6}
  Key <- Twice
  null = null
  NULL = NULL
CHECK_DEADLOCK FALSE
INVARIANTS TypeOK HoldsInside RedBlack CheckAccepts TravelsInOrder SearchFinds LookupWraps
