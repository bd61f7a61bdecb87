CONSTANTS
    compositor = compositor
    output = output
    late = late
    Globals = {compositor, output, late}
    Handlers <- MCHandlers
    Needed = {compositor}
    MaxId = 20
    Unasked = {"closed", "leave"}
    Paces <- MCSlow
SPECIFICATION FairSpec
PROPERTY StartupEnds
CHECK_DEADLOCK FALSE
