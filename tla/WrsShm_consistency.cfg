SPECIFICATION FairSpec
CONSTANTS
    Words = {w1, w2}
    Values = {v0, v1}
    Zero = v0
    Readers = {r1}
    Threads = {t1, t2}
    Serialized = TRUE
    SeqMod = 32
    MaxSections = 2
    MaxRestarts = 1
    MaxTries = 2
    NoImage = NoImage
INVARIANTS TypeOK
PROPERTIES AcceptedIsPublished ReaderReturns SnapshotSpec
CHECK_DEADLOCK FALSE
