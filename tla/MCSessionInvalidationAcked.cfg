SPECIFICATION Spec
CONSTANTS
    Sessions = {s1}
    Workers = {w1}
    MaxAttempts = 2
CHECK_DEADLOCK FALSE
INVARIANTS
    AckedBlockInvalidates
