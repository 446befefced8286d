SPECIFICATION Spec
CONSTANTS
    NONE = NONE
    Nodes = {n1, n2, n3}
    MaxIndex = 3
    MaxCrashes = 1
    MaxInstalls = 1
    MaxStale = 1
    MaxFaults = 1
    MaxResets = 0
SYMMETRY NodeSymmetry
INVARIANTS ReplicasConverge
CHECK_DEADLOCK FALSE
