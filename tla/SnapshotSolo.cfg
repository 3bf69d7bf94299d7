CONSTANTS
    Builders = {b1}
    Readers = {r1}
    Inputs <- AllInputs
    Encodings = {"old", "new"}
    Tables <- MCTables
    Dates = {"d1", "d2"}
    Rejected <- MCRejected
    Date <- MCDate
    Normalized <- MCNormalized
    BarsOf <- MCBarsOf
    Rows <- MCRows
    Absent = Absent
    Partial = Partial
    Mixed = Mixed
    MaxBuilds = 2
    MaxCrashes = 1
    MaxDamage = 1
SPECIFICATION FairSpec
CHECK_DEADLOCK FALSE
INVARIANT TypeOK
INVARIANT SoleBuilderInv
INVARIANT SealedIsOneBuild
PROPERTY SealsIntact
PROPERTY VerifyCatchesWrongTable
PROPERTY ImplementsView
PROPERTY BuildSeals
