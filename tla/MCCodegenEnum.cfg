SPECIFICATION Spec
CONSTANTS
  MaxSize = 2
  Odd = {"omitted_else"}
INVARIANTS
  MergesMatchPredecessors
CHECK_DEADLOCK FALSE
