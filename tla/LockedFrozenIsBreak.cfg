CONSTANTS
    Contracts = {"bar"}
    Versions <- MCVersions
    Shapes <- MCShapes
    Columns <- MCColumns
    Emitters = {"e1"}
    Reasons = {"why"}
    NoReason = NoReason
    None = None
    Forward = FALSE
    MaxAccepts = 2
    MaxFiles = 0
SPECIFICATION Spec
CHECK_DEADLOCK FALSE
PROPERTY LockedFrozenIsBreak
