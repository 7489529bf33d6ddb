SPECIFICATION Spec
CONSTANTS
    Classes <- BranchClasses
    MaxWrites = 3
INVARIANT ConstructorsInitialize
CHECK_DEADLOCK FALSE
