SPECIFICATION FairSpec
CONSTANTS
    NONE = NONE
    Names = {s1}
    Clients = {r1}
    Workers = {w1}
    MaxVersion = 3
    Intervals = {1}
    Graces = {0}
    MaxTime = 1
    MaxWrites = 6
    MaxEpoch = 1
    BackupTimes = {0}
INVARIANTS TypeOK CurrentAlwaysReadable OnlyCurrentNeverExpires
           AutomaticStaysScheduled NoLostUpdate NoOrphanVersions
PROPERTIES DueIsRotated VersionsAreFinal
