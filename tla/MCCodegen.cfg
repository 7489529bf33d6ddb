SPECIFICATION Spec
CONSTANTS
  MaxSize = 3
  Odd = {"dead_code"}
INVARIANTS
  TypeOK
  MergesMatchPredecessors
  ValuesReachUses
  NothingMissing
  BreaksLeaveInnermostLoop
PROPERTIES
  TerminatorsAreFinal
  ScopesBalanced
CHECK_DEADLOCK FALSE
