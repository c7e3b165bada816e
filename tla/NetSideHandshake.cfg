SPECIFICATION Spec
CONSTANTS
    Frames <- MCFrames
    Info <- MCInfo
    StdioBuf = 8
    OurMac = "us"
    StaleIhls <- MCStaleIhls
    Radix = 16
    LineBytes = 2
    FifoEls = 2
    Inputs <- MCInputs
    MaxSent = 2
INVARIANT WaitsForSynAck
CHECK_DEADLOCK FALSE
