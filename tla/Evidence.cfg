CONSTANTS
    Cmds = {c1, c2}
    Commands <- MCCommands
    KeyID = "default"
    Secret = "secret"
    None = None
    Inputs <- MCInputs
    MaxAppends = 2
    MaxEdits = 1
SYMMETRY MCSymmetry
SPECIFICATION Spec
INVARIANTS
    EvidenceInv
    CleanIsAuthentic
    CheckpointIsExact
    OnlyRealMismatches
CHECK_DEADLOCK FALSE
