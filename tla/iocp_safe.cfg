SPECIFICATION Spec
CONSTANTS
    MAX_SOCK_EVENT = 2
    Accepted = {c1}
    Connectors = {k1}
    Peers = {p1}
    NULL = NULL
    WILD = WILD
    Kickable = {p1}
    Stops = FALSE
    Posted = 1
    Threads = 1
    MaxRx = 1
    MaxFailures = 1
INVARIANTS
    TypeOK
    NoFault
    IdsConserved
    TableOwnsSessions
PROPERTIES
    ImplementsProtocol
CHECK_DEADLOCK FALSE
