SPECIFICATION FairTrailSpec
CONSTANTS
    MaxLogged = 3
    BatchSize = 2
    MaxQueueSize = 2
    Unstorable = {1}
    Background = {b1}
    Final = f
    ArchiveBatch = 1
    MaxRows = 3
    MaxTime = 2
CHECK_DEADLOCK FALSE
INVARIANTS
    BufferIsRecentEntries
    NothingVanishes
    RetryBacklogBounded
    OrderlyShutdownRecordsAll
    MarkedRowsAreArchived
    RepeatedOnlyIfInDoubt
PROPERTIES
    EveryEntryRecorded
