CONSTANTS
    Ids = {i1, i2}
    NoId = NoId
    NumClient = 2
    NumServer = 0
    Verdicts = {"allow", "denied"}
    MaxLine = 2
    Reuse = FALSE
SPECIFICATION Spec
INVARIANTS
    SuccessWasRelayed
PROPERTIES
    TerminalOutcome
CHECK_DEADLOCK FALSE
