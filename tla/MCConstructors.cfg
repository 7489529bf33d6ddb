SPECIFICATION Spec
CONSTANTS
    Classes <- MCClasses
    MaxWrites = 3
INVARIANTS
    UnsetOnlyIfMissed
    ValWrittenOnce
CHECK_DEADLOCK FALSE
