SPECIFICATION Spec
CONSTANTS
    Blocks = {b1, b2, b3}
    State = st
    NULL = null
    GrowOld = TRUE
INVARIANTS LinksConsistent TeardownLeavesNothing
PROPERTIES SweepIsComplete TeardownTerminates
