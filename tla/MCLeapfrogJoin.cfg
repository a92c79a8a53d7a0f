CONSTANTS
    LeafMax = 2
    DirMax = 2
    ZeroRecord <- MCZero
    MaxId = 4
    Ids <- MCIds
    Queries <- MCQueries
SPECIFICATION Spec
PROPERTIES EnumeratesJoin CallsReturn
CHECK_DEADLOCK FALSE
