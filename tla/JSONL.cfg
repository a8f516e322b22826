CONSTANTS
    NumEntries = 4
    MaxBatch = 2
    Configs <- AllConfigs
SPECIFICATION Spec
INVARIANTS
    JSONLInv
    AckedSurvivesCrash
    LookupNeverDenies
PROPERTIES
    ReadsInAppendOrder
    ImplementsStore
CHECK_DEADLOCK FALSE
