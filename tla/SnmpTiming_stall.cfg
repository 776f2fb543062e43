SPECIFICATION FairSpec
CONSTANT Timeout = 3
PROPERTY ErrorReported
CHECK_DEADLOCK FALSE
