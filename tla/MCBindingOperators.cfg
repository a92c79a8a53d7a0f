CONSTANTS
    MaxId = 30
    EdgeMask = 10
    AnonMask = 20
    Vars <- MCVars
    Queries <- MCQueries
    Where <- MCWhere
    Graphs <- MCGraphs
    Inputs <- MCInputs
SPECIFICATION Spec
PROPERTY EnumeratesMatches
CHECK_DEADLOCK FALSE
