SPECIFICATION Spec
CONSTANTS
    MAX_SOCK_EVENT = 2
    Accepted = {c1}
    Connectors = {k1}
    Peers = {p1}
    NULL = NULL
    WILD = WILD
    AppCalls <- UpdateCalls
    Faults <- NoFaults
    Returning = {c1}
    Active = {c1, k1}
    MaxRx = 1
    CHUNK = 1
    MaxDgrams = 1
INVARIANT RunsUntilStop
CHECK_DEADLOCK FALSE
