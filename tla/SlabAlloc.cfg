CONSTANTS
    NUM_SLABS = 7
    FifoEls = 8
SPECIFICATION Spec
INVARIANTS NoDoubleAlloc NoLeak FreeNeverRefused Partition
