CONSTANTS
    NumQueries = 5
    ThreadIds = {t1, t2, t3}
    MaxThreads = 2
SYMMETRY ThreadSymmetry
SPECIFICATION Spec
INVARIANTS SlotsConserved OwnPath OwnRoom
CHECK_DEADLOCK FALSE
