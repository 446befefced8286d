SPECIFICATION FairSpec
CONSTANTS
    NONE = NONE
    Nodes <- ThreeNodes
    Writes = {w1}
    Token = Token
    PeerCheck = TRUE
    MaxAttempts = 2
    MaxStops = 1
    MaxFaults = 1
INVARIANTS RolloutKeepsPeersTalking  AnswerIsTheOutcome
PROPERTIES  DoneReachesEveryNode
CHECK_DEADLOCK FALSE
