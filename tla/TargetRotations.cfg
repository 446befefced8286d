SPECIFICATION FairSpec
CONSTANTS
    NONE = NONE
    Secret = s1
    Names = {s1}
    Workers = {w1}
    Admins = {a1}
    Interval = 3
    Grace = 9
    Retry = 1
    MaxCandidates = 4
    DownTimes = {3}
    MaxTime = 7
    MaxForced = 1
    MaxCrashes = 1
    MaxVersion = 6
INVARIANTS  FailedApplyIsRetried
  
