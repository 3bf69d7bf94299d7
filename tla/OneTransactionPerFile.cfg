CONSTANTS
    Appliers = {a1}
    Versions <- MCVersions
    Texts = {"a"}
    Creates <- MCCreates
    LedgerTable = "schema_migration"
    InitialFiles <- MCInitialFiles
    NoMigration = NoMigration
    Autocommit = TRUE
    MayRewrite = FALSE
    MaxEdits = 0
    MaxCrashes = 1
SPECIFICATION Spec
CHECK_DEADLOCK FALSE
INVARIANT OneTransactionPerFile
