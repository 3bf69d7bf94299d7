CONSTANTS
    Appliers = {a1, a2}
    Versions <- MCVersions
    Texts = {"a", "b"}
    Creates <- MCCreates
    LedgerTable = "schema_migration"
    InitialFiles <- MCInitialFiles
    NoMigration = NoMigration
    Autocommit = FALSE
    MayRewrite = TRUE
    MaxEdits = 3
    MaxCrashes = 1
SPECIFICATION FairSpec
CHECK_DEADLOCK FALSE
INVARIANT TypeOK
INVARIANT LedgerDescribesSchema
INVARIANT PrerequisitesApplied
PROPERTY ApplyCompletes
