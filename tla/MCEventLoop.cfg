CONSTANTS
    compositor = compositor
    output = output
    late = late
    Globals = {compositor, output, late}
    Handlers <- MCHandlers
    Needed = {compositor}
    MaxId = 20
    Unasked = {"closed", "leave"}
    Paces <- MCPaces
SPECIFICATION FairSpec
INVARIANTS
    IdsAgree
    EachBoundOnce
PROPERTIES
    DeathExplained
    PromptStartupEnds
CHECK_DEADLOCK FALSE
