SPECIFICATION Spec
CONSTANTS
    MAX_SOCK_EVENT = 2
    Accepted = {c1}
    Connectors = {k1}
    Peers = {p1}
    NULL = NULL
    WILD = WILD
    AppCalls <- UpdateCalls
    Faults <- SafeFaults
    Returning = {c1}
    Active = {c1, k1}
    MaxRx = 1
    CHUNK = 1
    MaxDgrams = 1
INVARIANTS
    TypeOK
    NoFault
    IdsConserved
    ApplicationViewExact
    TableOwnsSessions
    UdpMapExact
    EpollPointersLive
PROPERTIES
    ImplementsProtocol
CHECK_DEADLOCK FALSE
