SPECIFICATION Spec
CONSTANTS
    Words = {w1, w2}
    Values = {v0, v1}
    Zero = v0
    Readers = {r1}
    Threads = {t1}
    Serialized = TRUE
    SeqMod = 32
    MaxSections = 1
    MaxRestarts = 1
    MaxTries = 2
    NoImage = NoImage
PROPERTIES AcceptedIsPublishedAlways
CHECK_DEADLOCK FALSE
