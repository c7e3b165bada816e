CONSTANTS
    SeqSpace = 8
    TxBuf = 3
    RT_ACK_THRESHOLD = 3

SPECIFICATION Spec

INVARIANTS
    TakesNewAcks
    RtOnlyWhenOutstanding
