CONSTANTS
    Wildcard = Wildcard
    Engine <- MCEngine
    RequestsPerMinute = 1
    Width = 6
    Second = 5
    Handlers = {"h1", "h2"}
    Inbox <- MCInbox
    NoId = NoId
    Statuses = {200, 503}
    RetryAfters = {0, 2, 7}
    RetryPolicy <- MCRetryPolicy
    MaxEvents <- MCMaxEvents
    MaxRefills = 1
SPECIFICATION Spec
INVARIANTS
    HTTPInv
    OnlyAdmitted
    OneOutcome
    SuccessWasRelayed
    UnsafeAtMostOnce
PROPERTIES
    Terminates
CHECK_DEADLOCK FALSE
