SPECIFICATION FairSpec
CONSTANTS
    Setups <- MCSetups
    Second = 2
    EpochThreshold = 9
    Limit = 1
    Window = 3
    Origin = 20
    Delay = 1
    Hops = 2
    MaxRecorded = 2
    MaxCalls = 3
INVARIANTS
    WindowNeverOversold
    HeadersTellTheVerdict
    IdentityIsOwn
PROPERTIES
    CallEnds
CHECK_DEADLOCK FALSE
