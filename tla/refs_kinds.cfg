SPECIFICATION Spec
CONSTANTS
    Objs = {o1, o2, o3}
    Policies = {"RC", "DEL", "NOOP"}
    Kinds = {"box", "list", "stack", "env"}
    Freedoms = {}
    RcMod = 32
    MaxSlots = 2
SYMMETRY Addresses
INVARIANTS DeletionSafe CountsExact
