CONSTANTS
    Images <- MCImages
    Outputs <- MCOutputs
    Colors <- MCColors
    Modes = {"C", "F", "X", ""}
    Monitor <- MCMonitor
    Uninitialised <- MCUninitialised
    MaxOptions = 3
    MaxCommands = 3
SPECIFICATION Spec
INVARIANTS
    RequestExplained
    OverflowExplained
    AnswerIsTrue
    DrawnInBounds
    KilledStatus
CHECK_DEADLOCK FALSE
