SPECIFICATION ValuesSpec
CONSTANTS
    Maps = {m1, m2}
    Keys <- MCKeys
    Values = {v1, v2}
    Name <- MCName
    MaxName = 3
    MergeChoices = {"new", "old"}
    MaxRc = 2
    Broken = broken
    Absent = absent
SYMMETRY AnyValues
INVARIANTS MemorySafe ValuesSound
PROPERTIES ImplementsOrderedMap CallsHaveTheirEffect ReturnsUnion
CHECK_DEADLOCK FALSE
