SPECIFICATION FairSpec
CONSTANTS
    Workers = {w1, w2}
    Profiles <- MCLiveProfiles
    GracefulStop = 1
    MaxLate = 0
PROPERTIES
    RunReturns
