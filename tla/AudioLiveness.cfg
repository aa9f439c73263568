SPECIFICATION FairSpec
CONSTANTS
    MaxPhrases = 2
    MaxChunks = 1
    MaxFrames = 2
    GuardFrames = 1
    MaxArrivals = 1
CHECK_DEADLOCK FALSE
PROPERTIES
    PhrasesEnd
    HangupReachesBridge
