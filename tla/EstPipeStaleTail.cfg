CONSTANTS
    f1 = f1
    f2 = f2
    NONE = NONE
    Flows <- TwoFlows
    SeqSpace = 4
    RT_ACK_THRESHOLD = 3
    BufSize = 2
    StoreQEls = 1
    InitAck = 3
    InitSeq = 0
    PayloadGap = 3
    Loads <- Unspaced

SPECIFICATION Spec

INVARIANT
    TailMatchesAck
