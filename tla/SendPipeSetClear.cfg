SPECIFICATION FairSpec
CONSTANTS
    f1 = f1  f2 = f2  f3 = f3
    NONE = NONE
    Flows <- ThreeFlows
    SchedEls = 2
    TxBuf = 4
    MaxSeg = 2
    Align = 2
    SeqSpace = 8
    InitSeq = 0
    RT_ACK_THRESHOLD = 3
    Loads <- Duplicates
PROPERTY SetOverrides
