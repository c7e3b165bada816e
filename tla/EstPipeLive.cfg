CONSTANTS
    f1 = f1
    f2 = f2
    NONE = NONE
    Flows <- TwoFlows
    SeqSpace = 2
    RT_ACK_THRESHOLD = 3
    BufSize = 1
    StoreQEls = 1
    InitAck = 1
    InitSeq = 0
    PayloadGap = 1
    Loads <- Repeating

SPECIFICATION FairSpec

PROPERTIES
    EstServed
    FsmServed
