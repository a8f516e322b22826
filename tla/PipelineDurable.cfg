CONSTANTS
    Entries = {o1, o2}
    Bodies = {success, timeout}
    NoBody = NoBody
    Readers = {}
    NoCaller = NoCaller
    Durable = TRUE
    Async = TRUE
    QueueSize = 1
    BatchSize = 2
SPECIFICATION SafetySpec
SYMMETRY Symmetry
INVARIANTS
    AtMostOneRecord
    FinalizedIsDurable
    IInv
PROPERTIES
    ImplementsLedger
CHECK_DEADLOCK FALSE
