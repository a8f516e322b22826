CONSTANTS
    Ids = {i1, i2}
    NoId = NoId
    NumClient = 1
    NumServer = 1
    Verdicts = {"allow", "denied", "rate_limited"}
    MaxLine = 2
    Reuse = FALSE
SPECIFICATION SafetySpec
SYMMETRY Symmetry
INVARIANTS
    StdioInv
    NothingForgotten
CHECK_DEADLOCK FALSE
