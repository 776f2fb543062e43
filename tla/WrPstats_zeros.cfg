SPECIFICATION Spec
CONSTANTS
    Low = 4
    Wide = 64
    Buf = 3
    MaxTotal = 4
INVARIANTS AboveZeros
CHECK_DEADLOCK FALSE
