SPECIFICATION FairSpec
CONSTANTS
  A = A
  B = B
  C = C
  D = D
  X = X
  F = F
  Modules = {A, B, C, D}
  Names = {X, F}
  Programs <- ChainPrograms
  Orders <- MCOrders
  Prelude = D
  PreludeExempt = {D}
  Main = F
  Library = FALSE
  NoModule = NoModule
  Glob = Glob
  None = None
  Overflow = Overflow
INVARIANTS
  TypeOK
  NoSilentClash
  DirectlyUnambiguous
  CrashesAreJustified
  ImportsSettled
  BindingsStayCurrent
  ExportsFoundInOrder
PROPERTIES
  BindingsAreFinal
  Terminates
CHECK_DEADLOCK FALSE
