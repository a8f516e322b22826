CONSTANTS
    Ids = {i1}
    NoId = NoId
    NumClient = 2
    NumServer = 0
    Verdicts = {"allow", "denied"}
    MaxLine = 1
    Reuse = TRUE
SPECIFICATION SafetySpec
INVARIANTS
    NothingForgotten
CHECK_DEADLOCK FALSE
