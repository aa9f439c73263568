SPECIFICATION Spec
CONSTANTS
    MaxPhrases = 1
    MaxChunks = 1
    MaxFrames = 3
    GuardFrames = 1
    MaxArrivals = 0
CHECK_DEADLOCK FALSE
INVARIANT AtMostAFrameUnsent
