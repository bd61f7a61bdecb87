CONSTANTS
    N = 2
    Colors = {red, blue}
    Paths = {p1}
    Modes = {"C", "X"}
    GoodModes = {"C"}
    Requests <- EveryRequest
    Garbled = Garbled
SPECIFICATION Spec
INVARIANT NoDoubleFree
CHECK_DEADLOCK FALSE
