CONSTANTS
    Entries = {"e1", "e2"}
    TimeOf <- MCTimeOf
    Digits = 2
    Filters <- MCFilters
    Conns = {c1, c2}
    None = None
    MaxBatch = 2
    Bounds <- MCBounds
    Handlers = {h1, h2}
    Principals = {"p1", "p2"}
    FailureLimit = 2
    Window = 2
    MaxPrincipals = 1
SPECIFICATION Spec
INVARIANTS
    DashboardInv
    BackendsAgree
    GuessesBounded
PROPERTIES
    SQLiteImplementsStore
    CallsEnd
CHECK_DEADLOCK FALSE
