SPECIFICATION Spec
CONSTANTS
    TxPlain = {"p1", "p2"}
    TxPtp = {"q1"}
    TxNDesc = 2
    TxIdSpace = 6
    TxMaxRefused = 1
    RxNDesc = 3
    RxFrames = 5
    MdioOthers = {"other"}
    MdioRetries = 2
    VlanPorts = {1}
    VlanHosts = {"h1", "h2"}
    VlanServerList <- TwoServers
    VlanDead = {"s1"}
    VlanVerdict <- OwnVlans
    VlanAuthVlan = 1
    VlanMaxNews = 2
    VlanMaxErrors = 1
    DogPortNum = 1
    DogFsms = 1
    DogRstThr = 2
    DogMaxTools = 2
    SnmpTimeout = 2
    IrqSize = 3
    HashDegree = 3
    HashExtra = 2
    HashRowBits = 2
    HashLength = 2
    LedPorts = {1}
    LedPatience = 1
    StampQuarter = 2
    StampMaxSec = 1
    PstatsLow = 2
    PstatsWide = 8
    PstatsBuf = 2
    PstatsMaxTotal = 4
    RpcConns = {1, 2, 3}
    RpcMaxClients = 2
    RpcMaxCalls <- CallsOfFirst
    ClockFreq = 3
    ClockBack = 2
    ClockWide = 16
    TimerPeriods <- TwoTimers
    TimerMaxLate = 7
    FdThreads = {"learning", "ageing"}
    FdKeys = {"k1", "k2"}
    FdMasks = {"m1", "m2"}
    FdNodes = {"n1", "n2", "n3", "n4"}
INVARIANTS TypeOK SecondRight  AnswerIsFor MirrorsTable HashIsRemainder
PROPERTIES BuffersReturned FramesPassedOn PhyFollowed Answered OwnVlan StuckIsReset  RequestsLearned Steady LightsTellState OncePerPeriod
CHECK_DEADLOCK FALSE
