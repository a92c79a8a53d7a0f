SPECIFICATION Spec
CONSTANTS
    Written <- MCWritten
    MaxWord = 3
INVARIANTS NoWordLost ExactWhenClosed
PROPERTIES PassesKeepWords Terminates
CHECK_DEADLOCK FALSE
