SPECIFICATION Spec
CONSTANTS
    Threads = {"learning", "ageing"}
    Serialized = FALSE
    Keys = {"k1"}
    Masks = {"m1"}
    Nodes = {"n1", "n2"}
INVARIANT RequestsAlive
CHECK_DEADLOCK FALSE
