CONSTANTS
    LeafMax = 3
    DirMax = 2
    MaxImported = 10
    MaxInserts = 3
    ZeroRecord <- MCZeroRecord
    Records <- MCRecords
    InitialTrees <- MCInitialTrees
    Behind <- MCBehind
SPECIFICATION Spec
INVARIANTS RangesExact Checks
PROPERTIES RejectsDuplicates
CHECK_DEADLOCK FALSE
