SPECIFICATION Spec
CONSTANTS
    Vectors <- MCVectors
    Fills <- MCFills
INVARIANTS
    TcpChecksumValid
    
    WireOrder
    RoundTrip
CHECK_DEADLOCK FALSE
