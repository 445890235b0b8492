SPECIFICATION DatabaseSpec
CONSTANTS
    Versions = {1, 2}
    Migrations = {1}
    Data = {d1}
    Custom = {c1}
    Freedoms = {"crash"}
    TableFreedoms = {}
    Null = null
    Bad = bad
    NoDefault = nodefault
    Ids = {1, 2, 3}
    Unique = TRUE
    Infos <- TableInfos
    Texts = {text, empty}
    Empty = empty
    IntMax = 3
    MaxEarlier = 1
    Inputs <- TableInputs
    Lists <- TableLists
    Ops = {"insert", "update", "update_or_insert", "delete", "select", "own_select", "select1_or_insert", "next_int", "join", "insert_array"}
INVARIANTS ReadyMeansSound RestoresTheBackup ReportsTruly
PROPERTIES CallsReturn ImplementsTable
CHECK_DEADLOCK FALSE
