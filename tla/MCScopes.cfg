SPECIFICATION Spec
CONSTANTS
  a = a
  iter = iter
  i64 = i64
  bool = bool
  Any = Any
  None = None
  Iter = iter
  Names <- MCNames
  Functions <- MCFunctions
  ParamLists <- MCParamLists
  LoopTypes <- MCLoopTypes
  Modules = 2
  MaxFunctions = 3
  MaxNodes = 6
  MaxDepth = 4
INVARIANTS
  TypeOK
  LexicalScoping
  LoopTypeRestored
  LoansReturned
  CapturedWhereWritten
CHECK_DEADLOCK FALSE
