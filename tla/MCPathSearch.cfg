CONSTANTS
    AnyGraph <- MCAnyGraph
    PathGraph <- MCPathGraph
    ShortestGraph <- MCShortestGraph
    UnfixedGraph <- MCUnfixedGraph
    AnyKinds = {"DFSEnum", "DFSCheck", "BFSCheck"}
    PathKinds <- MCKinds
    Automata = {{0}, {0, 1}}
    BlockSize = 2
    CountBits = 8
SPECIFICATION FairSpec
INVARIANTS StackIsPath ExpandedCompletely ShortestPath QueueOrdered NoneTwice IteratorsRest
PROPERTIES EnumeratesAnswers CallsReturn
CHECK_DEADLOCK FALSE
