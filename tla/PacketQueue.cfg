CONSTANTS
    Els = 4
    LineBytes = 2
    Lines <- AllLines
    CutShort = FALSE
SPECIFICATION Spec
INVARIANTS PointerOrder UncommittedOnlyWhileWriting SizesInSync SizeQueueFits
PROPERTY WholeFrames
