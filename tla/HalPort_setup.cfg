SPECIFICATION FairSpec
CONSTANTS
    NPorts = 2
    Lpdc = {1}
    BcPorts = {}
    PowerDowns = {1}
    Resets = {1}
    Flapping = {1}
    RtsFails = FALSE
    MaxNews = 1
INVARIANTS TypeOK RxAfterTx LinkKnown
PROPERTIES RunAgrees LinkComesUp
