CONSTANTS
    NodeIds <- MCNodeIds
    Nodes <- MCNodes
    Types <- MCTypes
    Edges <- MCEdges
    States <- MCStates
    StartState = 0
    FinalStates = {0, 2}
    Connections <- MCConnections
SPECIFICATION FairSpec
INVARIANTS TypeOK PathsMatch ExpandedCompletely NoNodeTwice ShortestPaths
PROPERTIES EnumeratesAnswers CallsReturn
CHECK_DEADLOCK FALSE
