SPECIFICATION Spec
CONSTANTS
    Calls = {c1, c2}
    Reached = {c1, c2}
    Phones = {p1}
    MaxWindows = 1
    MaxRestarts = 0
CHECK_DEADLOCK FALSE
INVARIANTS
    DuplicateMeansCalled
