CONSTANTS
    PageSize = 3
    Queries <- MCQueries
    Tables <- MCTables
    Owner <- MCOwner
    Hash <- MCHash
    InitialDepth = 1
    MaxTuples = 1
SPECIFICATION FairSpec
INVARIANTS RunsSorted DirectoryExact AnswersQuery
PROPERTY QueryEnds
CHECK_DEADLOCK FALSE
