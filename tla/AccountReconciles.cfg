CONSTANTS
    Events <- MCEvents
    None = None
    Skew = 1
    MaxClock = 1
    NoRequest = NoRequest
    Nano = 10
    StorableMax = 8
    Components <- MCComponents
    Rate <- MCRate
    IsCredit <- MCIsCredit
SPECIFICATION FairSpec
INVARIANT TypeOK
INVARIANT PositionReconciles
INVARIANT NothingIsShadowed
INVARIANT LedgerIsExact
INVARIANT NeverOptimistic
INVARIANT CapitalIsUnreachable
PROPERTY CountsOnce
PROPERTY EventsArrive
