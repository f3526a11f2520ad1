SPECIFICATION FairSpec
CONSTANTS
    MAX_SOCK_EVENT = 3
    Accepted = {c1, c2}
    Connectors = {k1}
    Peers = {}
    NULL = NULL
    WILD = WILD
    AppCalls <- StopCalls
    Faults = {"connect"}
    Returning = {}
    Active = {c1, k1}
    MaxRx = 2
    CHUNK = 1
    MaxDgrams = 0
PROPERTIES
    DataIsRead
    ResetIsDropped
    BacklogIsDrained
    ConnectorIsAnswered
    StopEndsThread
CHECK_DEADLOCK FALSE
