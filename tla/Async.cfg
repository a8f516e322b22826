CONSTANTS
    Entries = {e1, e2, e3}
    Bodies = {b1}
    Readers = {r1}
    NoCaller = NoCaller
    Durable = FALSE
    QueueSize = 1
    BatchSize = 2
SPECIFICATION AsyncSpec
INVARIANTS
    AsyncInv
    NoSilentLoss
    FlushCoversAcked
PROPERTIES
    PipelineOrder
    CallsReturn
