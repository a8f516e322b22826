CONSTANTS
    NumEntries = 4
    MaxBatch = 1
    Configs <- RetentionConfigs
SPECIFICATION Spec
INVARIANTS
    RetentionKeepsNewest
CHECK_DEADLOCK FALSE
