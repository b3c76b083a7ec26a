SPECIFICATION Spec
CONSTANTS
    MaxLogged = 3
    BatchSize = 2
    MaxQueueSize = 3
    Unstorable = {}
CHECK_DEADLOCK FALSE
INVARIANTS
    ShutdownRecordsAll
