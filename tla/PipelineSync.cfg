CONSTANTS
    Entries = {o1, o2}
    Bodies = {success, timeout}
    NoBody = NoBody
    Readers = {}
    NoCaller = NoCaller
    Durable = FALSE
    Async = FALSE
    QueueSize = 1
    BatchSize = 2
SPECIFICATION Spec
INVARIANTS
    FinalizedIsStored
PROPERTIES
    FinalizeReturns
CHECK_DEADLOCK FALSE
