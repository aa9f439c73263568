SPECIFICATION FairSpec
CONSTANTS
    Calls = {c1, c2}
    Reached = {c1}
    Phones = {p1}
    MaxWindows = 2
    MaxRestarts = 1
CHECK_DEADLOCK FALSE
INVARIANTS
    TypeOK
    CallsAreRationed
    OneTaskPerCall
PROPERTIES
    FinishedStaysFinished
    ConnectedIsServed
    ProcessedIsHungUp
