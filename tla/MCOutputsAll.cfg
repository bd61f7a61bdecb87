CONSTANTS
    Monitors = {m1, m2}
    Sizes = {1, 2}
    Settings = {red, blue}
    None = None
    MaxPlugs = 3
    MaxMems = 3
SYMMETRY Symmetry
SPECIFICATION Spec
INVARIANT EveryOutputShows
CHECK_DEADLOCK FALSE
