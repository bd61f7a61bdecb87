CONSTANTS
    Daemons = {d1, d2}
    NoOwner = NoOwner
SPECIFICATION FairSpec
INVARIANTS
    TypeOK
    RunningReachable
    StaleExplained
PROPERTIES
    ExitCompletes
    KeepsName
CHECK_DEADLOCK FALSE
