SPECIFICATION Spec
CONSTANTS
    MAX_SOCK_EVENT = 2
    Accepted = {c1}
    Connectors = {k1}
    Peers = {}
    NULL = NULL
    WILD = WILD
    Kickable = {}
    Stops = TRUE
    Posted = 2
    Threads = 2
    MaxRx = 1
    MaxFailures = 1
INVARIANTS
    OperationsOnce
    ContextsBounded
PROPERTIES
    BacklogIsDrained
    CloseIsReported
    StopEndsThread
CHECK_DEADLOCK FALSE
