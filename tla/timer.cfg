SPECIFICATION FairSpec
CONSTANTS
    Timer = {t1, t2}
    TIME_NEAR = 2
    TIME_LEVEL = 2
    MaxInt = 2
    Delays = {0, 1, 2}
    MaxAhead = 3
    MaxBack = 1
INVARIANTS
    TypeOK
    LinkedOnce
    SameTurnOnTime
PROPERTIES
    FiresWhenDue
    SameTurnFires
    OnlyDueTimersKeepIt
