SPECIFICATION FairSpec
CONSTANTS
    NPorts = 3
    Lpdc = {1, 3}
    BcPorts = {}
    PowerDowns = {}
    Resets = {}
    Flapping = {}
    RtsFails = FALSE
    MaxNews = 0
INVARIANTS TxBarrier 
PROPERTIES AllCalibrated
