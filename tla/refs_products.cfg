SPECIFICATION Spec
CONSTANTS
    Objs = {o1, o2, o3}
    Policies = {"RC", "DEL"}
    Kinds = {"box", "list", "tagged", "tuple", "triple", "quadruple", "n_tuple"}
    Freedoms = {}
    RcMod = 32
    MaxSlots = 2
PROPERTIES DeletionTerminates ImplementsOwnership
