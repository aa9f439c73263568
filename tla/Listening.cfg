CONSTANTS
    Silence = 3
    InitialSilence = 5
    MaxUtterance = 6
    Grace = 2
    ConfirmChunks = 3
    Guard = 2
    MaxPhrase = 5
    MaxThink = 2
    MaxBacklog = 6
SPECIFICATION Spec
INVARIANTS
    TypeOK
    UtteranceBound
PROPERTIES
    CutOnlyInPause
    InterruptionIsHeard
    SustainedBargeIn
    ListenEnds
CHECK_DEADLOCK FALSE
