SPECIFICATION Spec
CONSTANTS
    NONE = NONE
    Requests = {q1, q2}
    RoleNames = {"admin", "payment"}
    TokenNames = {"bootstrap-admin", "svc"}
    Fingerprints = {boot, f1}
    BootToken = boot
    RuleSets <- NoRules
    TouchSecs = 1
    MaxNow = 1
    MaxRestarts = 1
    MaxRestores = 1
SYMMETRY RequestSymmetry
INVARIANTS IndexMatchesTokens AdminRoleStays
PROPERTIES RevokedStaysRevoked
CHECK_DEADLOCK FALSE
