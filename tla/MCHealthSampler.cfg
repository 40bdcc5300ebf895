SPECIFICATION SamplerFairSpec
CONSTANTS
    Lags = {0, 1, 7, 8}
    Counts = {1, 2, 3}
    Micro = 2
    LagLimit = 3
    GoroutineLimit = 2
INVARIANTS
    HealthIsExact
    SamplerJoined
PROPERTIES
    StopReturns
CHECK_DEADLOCK FALSE
