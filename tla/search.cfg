SPECIFICATION SearchSpec
CONSTANTS
    MaxKey = 11
    Elements <- MCElements
    Rank <- MCRank
    NoKey = nokey
    NoValue = novalue
INVARIANT Balanced
PROPERTIES ImplementsSet LookupsEnd ImplementsDictionary
CHECK_DEADLOCK FALSE
