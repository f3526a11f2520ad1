SPECIFICATION Spec
CONSTANTS
    Size = 4
    Modulus = 8
    Byte = {0, 1}
    MaxLen = 3
INVARIANTS
    TypeOK
    CopiesApart
    AnswersHold
PROPERTY ImplementsFifo
