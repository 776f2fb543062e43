SPECIFICATION FairSpec
CONSTANTS
    m1 = m1  m2 = m2  m3 = m3  h1 = h1  h2 = h2
    Macs = {m1}
    Vids = {0}
    Fids = {0}
    NPorts = 2
    NBuckets = 2
    Rows = {h1}
    Hash <- HashAlone
    StaticEntries <- OneStatic
    Stations = {m1}
    RpcMacs = {m1}
    RpcMasks <- CpuMask
    AgingTime = 1
    MaxQueue = 1
INVARIANTS TypeOK HwMatchesTable KeysUnique
PROPERTIES StaticPermanent FlushRemovesOld FilterDbSpec SilentStationForgotten
