CONSTANTS
    Lengths = {0, 1, 2, 3, 4}
    BufWords = 14
    MaxEvents = 3
    Several <- MCSeveral
    Newer = TRUE
SPECIFICATION Spec
INVARIANTS
    RequestAsProtocol
    ListenedIntact
    StreamKept
    UndefinedExplained
CHECK_DEADLOCK FALSE
