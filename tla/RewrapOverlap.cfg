SPECIFICATION Spec
CONSTANTS
    NONE = NONE
    Names = {s1}
    Nodes = {n1, n2}
    Kinds = {"worker"}
    Sealers = {r1}
    MaxVersion = 2
    MaxRotations = 3
    MaxSeals = 2
    MaxDeletes = 0
    MaxFaults = 1
SYMMETRY NodeSymmetry
INVARIANTS TypeOK EveryVersionOpens
PROPERTIES NeverUnwound WatermarkIsEarned
