CONSTANTS
    Calls = {c1, c2}
    NoCall = none
SPECIFICATION Spec
INVARIANTS
    TypeOK
    NoForgottenLine
    ConversationsLeaveNoEntry
    AnsweredIsBridged
PROPERTIES
    ShutdownEnds
CHECK_DEADLOCK FALSE
