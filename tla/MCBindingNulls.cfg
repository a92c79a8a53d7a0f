CONSTANTS
    MaxId = 30
    EdgeMask = 10
    AnonMask = 20
    Vars <- MCVars
    Queries <- MCQueries
    Where <- MCWhere
    Graphs <- MCGraphs
    Inputs <- Lookups
SPECIFICATION Spec
INVARIANT OuterKept
CHECK_DEADLOCK FALSE
