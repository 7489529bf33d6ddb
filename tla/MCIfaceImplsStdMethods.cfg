SPECIFICATION Spec
CONSTANTS
  Bool = Bool
  ToStr = ToStr
  Free = Free
  Cls = Cls
  Test = Test
  Lower = Lower
  to_string = to_string
  free = free
  test = test
  StdNames = {Bool, ToStr, Free}
  OwnNames = {Cls, Test, Lower}
  IfaceNames = {ToStr, Free, Test, Lower}
  Methods = {to_string, free, test}
  Required <- MCRequired
  StdImpls <- MCStdImpls
  Programs <- PlainPrograms
  MaxCompilations = 1
  LookedUp = {Free, Cls}
  None = None
INVARIANT StdMethodsFound
CHECK_DEADLOCK FALSE
