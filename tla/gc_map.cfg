SPECIFICATION GCSpec
CONSTANTS
    Objs = {1, 2, 3}
    NONE = 0
    Kinds = {"map"}
    Cycles = FALSE
    LateContexts = FALSE
    MaxRefs = 1
    MaxRc = 3
INVARIANTS SurvivorsIntact
