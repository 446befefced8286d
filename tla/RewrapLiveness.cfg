SPECIFICATION FairSpec
CONSTANTS
    NONE = NONE
    Names = {s1, s2}
    Nodes = {n1}
    Kinds = {"worker", "force"}
    Sealers = {r1}
    MaxVersion = 1
    MaxRotations = 1
    MaxSeals = 2
    MaxDeletes = 1
    MaxFaults = 2
PROPERTY WatermarkCatchesUp
