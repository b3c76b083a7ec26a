SPECIFICATION FairSpec
CONSTANTS
    Processes = {p1, p2, p3}
    Migrations <- AllMigrations
    Used <- UsedByCode
    NoProcess = none
CHECK_DEADLOCK FALSE
INVARIANTS
    SchemaMatchesVersions
    StartsNeverConflict
    ServingFindsItsSchema
PROPERTIES
    EveryStartEnds
    ImplementsMigrationLog
