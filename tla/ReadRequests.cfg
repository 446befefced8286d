SPECIFICATION FairSpec
CONSTANTS
    NONE = NONE
    Requests = {q1, q2}
    Scenarios <- GuessingOrChanging
    Window = 2
    Lockout = 2
    Grace = 1
    Ttl = 2
    MaxEntries = 1
    MaxRetries = 1
    MaxVersion = 2
INVARIANTS TypeOK    VerifyIsExact CacheBounded
 
CHECK_DEADLOCK FALSE
