SPECIFICATION AccessSpec
CONSTANTS
    Sessions = {s1, s2}
    Workers = {w1, w2}
    MaxAttempts = 2
    MaxRequests = 1
    ServiceAccessEnforcementEnabled = TRUE
SYMMETRY Symmetry
CHECK_DEADLOCK FALSE
INVARIANTS
    CompletedInvalidationIsTotal
    OpenSessionIsIndexed
    RevokedKeysStayDead
    RowFollowsNewest
PROPERTIES
    OldAccessIsRefused
