CONSTANTS
    Builders = {b1, b2}
    Readers = {}
    Inputs <- GoodInputs
    Encodings = {"old"}
    Tables <- MCTables
    Dates = {"d1", "d2"}
    Rejected <- MCRejected
    Date <- MCDate
    Normalized <- MCNormalized
    BarsOf <- MCBarsOf
    Rows <- MCRows
    Absent = Absent
    Partial = Partial
    Mixed = Mixed
    MaxBuilds = 2
    MaxCrashes = 1
    MaxDamage = 0
SPECIFICATION FairSpec
CHECK_DEADLOCK FALSE
INVARIANT ContentHashesAreOwn
PROPERTY BuildEnds
