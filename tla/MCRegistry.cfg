CONSTANTS
    Names = {"wl_output", "wl_surface", "zwlr_layer_surface_v1"}
    Listened = {"wl_output", "zwlr_layer_surface_v1"}
    Kept = {"wl_output"}
    Bits = 2
    MaxSeq = 4
SPECIFICATION Spec
INVARIANTS
    TypeOK
    AnswerLeads
PROPERTY
    ImplementsObjectMap
CHECK_DEADLOCK FALSE
