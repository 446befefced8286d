SPECIFICATION Spec
CONSTANTS
    NONE = NONE
    Nodes = {n1, n2, n3}
    MaxIndex = 2
    MaxCrashes = 2
    MaxInstalls = 0
    MaxStale = 1
    MaxFaults = 1
    MaxResets = 1
SYMMETRY NodeSymmetry
INVARIANTS TypeOK LogIsContiguous UnappliedIsKept CommittedIsDurable
PROPERTY ImplementsReplicatedTables
CHECK_DEADLOCK FALSE
