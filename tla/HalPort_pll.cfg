SPECIFICATION FairSpec
CONSTANTS
    NPorts = 2
    Lpdc = {}
    BcPorts = {1, 2}
    PowerDowns = {}
    Resets = {}
    Flapping = {1}
    RtsFails = TRUE
    MaxNews = 1
INVARIANTS LockedWhenUp
PROPERTIES ReferenceSettles
