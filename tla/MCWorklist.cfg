SPECIFICATION Spec
CONSTANTS
    Types <- MCTypes
    Functions <- MCFunctions
    Generic <- MCGeneric
    Signature <- MCSignature
    Layout <- MCLayout
    Impls <- MCImpls
    SizeOf = "sizeof"
    FreeType = "free_type"
    FreeInstance <- MCFreeInstance
    Required <- MCRequired
    Programs <- MCPrograms
    MaxModules = 2
INVARIANTS
    TypeOK
    DeclaredOnce
    OneStructPerInstance
    CrashesAreJustified
PROPERTIES
    MonoSpec
CHECK_DEADLOCK FALSE
