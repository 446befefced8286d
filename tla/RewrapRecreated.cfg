SPECIFICATION Spec
CONSTANTS
    NONE = NONE
    Names = {s1}
    Nodes = {n1}
    Kinds = {"worker"}
    Sealers = {r1}
    MaxVersion = 1
    MaxRotations = 1
    MaxSeals = 3
    MaxDeletes = 1
    MaxFaults = 0
INVARIANTS EveryVersionOpens
