SPECIFICATION Spec
CONSTANTS
    Sets = {s1, s2, s3}
    e1 = e1
    e2 = e2
    e3 = e3
    Elements <- MCElements
    Rank <- MCRank
    Policies = {"RC", "DEL"}
    Freedoms = {}
    MaxRc = 2
SYMMETRY Interchangeable
INVARIANT MemorySafe
PROPERTIES ImplementsAlgebra
