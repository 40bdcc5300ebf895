SPECIFICATION FairSpec
CONSTANTS
    VUs = {u1, u2}
    Scenarios <- MCScenarios
    MaxRounds = 2
INVARIANTS
    ReportReconciles
    LateRequestsBounded
    CancelStopsUsers
    NothingLeftBehind
PROPERTIES
    RunReturns
