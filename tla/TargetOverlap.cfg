SPECIFICATION Spec
CONSTANTS
    NONE = NONE
    Secret = s1
    Names = {s1}
    Workers = {w1}
    Admins = {a1}
    Interval = 3
    Grace = 9
    Retry = 1
    MaxCandidates = 4
    DownTimes = {}
    MaxTime = 4
    MaxForced = 2
    MaxCrashes = 0
    MaxVersion = 4
INVARIANTS NeverSilentlyDiverges
