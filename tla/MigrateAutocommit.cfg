CONSTANTS
    Appliers = {a1}
    Versions <- MCVersions
    Texts = {"a", "b"}
    Creates <- MCCreates
    LedgerTable = "schema_migration"
    InitialFiles <- MCInitialFiles
    NoMigration = NoMigration
    Autocommit = TRUE
    MayRewrite = TRUE
    MaxEdits = 3
    MaxCrashes = 1
SPECIFICATION Spec
CHECK_DEADLOCK FALSE
INVARIANT RowMeansApplied
PROPERTY RecordedStands
PROPERTY NoDriftedApply
