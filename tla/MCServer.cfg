CONSTANTS
    NumQueries = 3
    Duration = 2
SPECIFICATION FairSpec
INVARIANTS WritesAlone NoEarlyTimeout
PROPERTIES QueriesEnd
CHECK_DEADLOCK FALSE
