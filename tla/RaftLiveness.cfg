SPECIFICATION FairSpec
CONSTANTS
    NONE = NONE
    Nodes = {n1, n2, n3}
    MaxIndex = 2
    MaxCrashes = 1
    MaxInstalls = 2
    MaxStale = 0
    MaxFaults = 0
    MaxResets = 0
INVARIANTS LogIsContiguous 
PROPERTY EveryNodeCatchesUp
CHECK_DEADLOCK FALSE
