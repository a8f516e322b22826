CONSTANTS
    Width = 6
    Second = 5
    Entries = {e1, e2}
    QueueSize = 1
    BatchSize = 2
    MaxRetries = 1
    Responses = {400, 503}
    Launches <- MCLaunches
SPECIFICATION Spec
INVARIANTS
    ServiceInv
    FailClosed
    AckedOutlivesProcess
    SpansFollowRecords
PROPERTIES
    SignalEnds
CHECK_DEADLOCK FALSE
