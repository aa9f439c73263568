SPECIFICATION FairSpec
CONSTANTS
    MaxToolRounds = 2
    MaxToolsPerRound = 2
    MaxBookings = 2
    MaxRetries = 1
    MaxTurns = 2
    EatsCancel = TRUE
CHECK_DEADLOCK FALSE
PROPERTY HardLimit
