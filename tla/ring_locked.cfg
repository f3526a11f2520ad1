SPECIFICATION Spec
CONSTANTS
    w1 = w1
    w2 = w2
    r1 = r1
    r2 = r2
    Writers = {w1, w2}
    Readers = {r1, r2}
    Main = Main
    NULL = NULL
    Modulus = 4
    IOTimes <- Times
    Earlier = 2
    MaxLen = 2
    MaxResets = 1
INVARIANTS TypeOK RoomKept NoUseAfterDelete RoundsUp
PROPERTIES ImplementsFifo Finishes
CHECK_DEADLOCK FALSE
