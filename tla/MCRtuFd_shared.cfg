SPECIFICATION Spec
CONSTANTS
    m1 = m1  m2 = m2  m3 = m3  h1 = h1  h2 = h2
    Macs = {m1, m2, m3}
    Vids = {0}
    Fids = {0}
    NPorts = 1
    NBuckets = 2
    Rows = {h1}
    Hash <- HashShared
    StaticEntries <- NoStatic
    Stations = {m1, m2, m3}
    RpcMacs = {m3}
    RpcMasks <- CpuMask
    AgingTime = 1
    MaxQueue = 1
INVARIANT BucketsContiguous
PROPERTY LearningKeepsStatic
