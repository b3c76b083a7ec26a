SPECIFICATION FairSpec
CONSTANTS
    Requests = {r1}
    MaxVersion = 3
    MaxAttempts = 2
CHECK_DEADLOCK FALSE
INVARIANTS
    MirrorShowsNewest
    BlockSticks
PROPERTIES
    WithdrawnIsTerminal
    AdmissionHonoursBlocks
    BlockIsAppliedOrDead
