SPECIFICATION Spec
CONSTANTS
    Workers = {w1, w2}
    Profiles <- MCProfiles
    GracefulStop = 1
    MaxLate = 1
SYMMETRY Symmetry
INVARIANTS
    InFlightExact
    SendNeverBlocks
    NoCatchUpBurst
    FirstThrottleIsEarliest
    AtMostOneLateAdmit
    ReportReconciles
    NothingLeftBehind
PROPERTIES
    ImplementsGate
    LifecycleFollowsTheRun
