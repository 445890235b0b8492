SPECIFICATION GCSpec
CONSTANTS
    Objs = {1, 2, 3}
    NONE = 0
    Kinds = {"list", "map", "closure"}
    Cycles = FALSE
    LateContexts = FALSE
    MaxRefs = 2
    MaxRc = 2
INVARIANT ListsSurvive
PROPERTIES SweepFreesOldGarbage ListGcTerminates
