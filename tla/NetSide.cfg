SPECIFICATION FairSpec
CONSTANTS
    Frames <- MCFrames
    Info <- MCInfo
    StdioBuf = 8
    OurMac = "us"
    StaleIhls <- MCStaleIhls
    Radix = 16
    LineBytes = 2
    FifoEls = 2
    Inputs <- MCInputs
    MaxSent = 2
INVARIANTS
    TypeOK
    ComparedInOrder
    SendOrder
    FileFifo
    TxWhole
    HwToSwRecords
    EndsForReason
PROPERTIES
    RxChannel
    AllDelivered
CHECK_DEADLOCK FALSE
