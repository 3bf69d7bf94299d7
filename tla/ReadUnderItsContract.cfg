CONSTANTS
    Contracts = {"bar"}
    Versions <- MCVersions
    Shapes <- MCShapes
    Columns <- MCColumns
    Emitters = {"e1"}
    Reasons = {"why"}
    NoReason = NoReason
    None = None
    Forward = TRUE
    MaxAccepts = 3
    MaxFiles = 1
SPECIFICATION Spec
CHECK_DEADLOCK FALSE
INVARIANT ReadUnderItsContract
