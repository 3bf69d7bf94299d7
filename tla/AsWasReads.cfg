CONSTANTS
    Builders = {b1}
    Readers = {r1}
    Inputs <- GoodInputs
    Encodings = {"old"}
    Tables <- MCTables
    Dates = {"d1", "d2"}
    Rejected <- MCRejected
    Date <- MCDate
    Normalized <- MCNormalized
    BarsOf <- MCBarsOf
    Rows <- MCRows
    Absent = Absent
    Partial = Partial
    Mixed = Mixed
    MaxBuilds = 2
    MaxCrashes = 0
    MaxDamage = 0
SPECIFICATION Spec
CHECK_DEADLOCK FALSE
INVARIANT AsWasReads
