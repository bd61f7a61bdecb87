CONSTANTS
    Clients = {c1, c2, c3}
    Killers = {c3}
    Outputs = 2
    Backlog = 1
    MaxFds = 2
    NoClient = NoClient
SPECIFICATION FairSpec
INVARIANTS
    TypeOK
    AckMeansServed
    ExitStatusExplained
    OnlyVanishedLeak
PROPERTIES
    Answered
    EventsHandled
CHECK_DEADLOCK FALSE
