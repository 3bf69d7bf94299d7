CONSTANTS
    Workers = {w1, w2}
    Strings <- MCStrings
    Nfc <- MCNfc
    CodePoints <- MCCodePoints
    AtStart <- MCAtStart
    AtImport <- MCAtImport
    Environments <- MCEnvironments
    Setups <- MCSetups
    Plans <- MCPlans
    Names <- MCNames
    NameKey <- MCNameKey
    None = None
    NotRead = NotRead
SPECIFICATION Spec
CHECK_DEADLOCK FALSE
INVARIANT TypeOK
INVARIANT TrialsAreCounted
INVARIANT Reproducible
INVARIANT SpecsAreToldApart
SYMMETRY MCSymmetry
