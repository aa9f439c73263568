CONSTANTS
    Calls = {r1, r2}
    NoCall = none
    MaxAttempts = 2
    MaxHistory = 2
SPECIFICATION Spec
INVARIANTS
    TypeOK
    AnsweredIsKept
    OverStaysOver
    PromptHasContext
PROPERTIES
    KeepsContract
    RequestsEnd
CHECK_DEADLOCK FALSE
