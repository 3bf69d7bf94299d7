CONSTANTS
    Records <- MCRecords
    History <- MCHistory
    Never = Never
    Window = 200
    Origin = 300
    Lag = 100
    Contexts <- MCContexts
    Digits = 2
    MinPlausible = 150
    MaxPlausible = 1000
    Nano = 100
    StorableMax = 90
    NoSnapshot = NoSnapshot
    MaxRecords = 3
    MaxFiles = 2
SPECIFICATION Spec
CHECK_DEADLOCK FALSE
INVARIANT TypeOK
INVARIANT BackfillIsWritable
INVARIANT BarsPartitionPrints
INVARIANT BarsKnownAfterPrints
INVARIANT PrintsAtTheirInstants
INVARIANT InstrumentOfItsTime
PROPERTY ReplayKeepsOrder
PROPERTY CompleteBarsStand
