SPECIFICATION Spec
CONSTANTS
    Requests = {r1}
    MaxVersion = 4
    MaxAttempts = 2
CHECK_DEADLOCK FALSE
INVARIANTS
    ReenabledIsUsable
