SPECIFICATION Spec
CONSTANTS
    MaxPhrases = 2
    MaxChunks = 2
    MaxFrames = 2
    GuardFrames = 1
    MaxArrivals = 2
CHECK_DEADLOCK FALSE
INVARIANTS
    TypeOK
    Accounting
    ListenerMissesNothing
    BoundedTail
PROPERTIES
    OverPhraseFades
    PhrasesInOrder
