SPECIFICATION Spec
CONSTANTS
    Blocks = {b1, b2, b3, b4}
    State = st
    NULL = null
    GrowOld = FALSE
INVARIANT SweepOnLiveBlock
PROPERTIES SweepTerminates ImplementsTracked
