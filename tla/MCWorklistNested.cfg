SPECIFICATION Spec
CONSTANTS
    Types <- MCTypes
    Functions <- MCFunctions
    Generic <- MCGeneric
    Signature <- MCSignature
    Layout <- MCLayout
    Impls <- MCImpls
    SizeOf = "sizeof"
    FreeType = "free_type"
    FreeInstance <- MCFreeInstance
    Required <- MCRequired
    Programs <- MCPrograms
    MaxModules = 2
INVARIANTS
    InstancesAreDistinct
CHECK_DEADLOCK FALSE
