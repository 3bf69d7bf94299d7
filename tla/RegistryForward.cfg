CONSTANTS
    Contracts = {"bar","trade"}
    Versions <- MCVersions
    Shapes <- MCTwoShapes
    Columns <- MCColumns
    Emitters = {"e1", "e2"}
    Reasons = {"why"}
    NoReason = NoReason
    None = None
    Forward = TRUE
    MaxAccepts = 3
    MaxFiles = 1
SPECIFICATION Spec
CHECK_DEADLOCK FALSE
INVARIANT TypeOK
INVARIANT FrozenShapesKept
INVARIANT NoSilentDrift
PROPERTY BreaksAppendOnly
