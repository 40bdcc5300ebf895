SPECIFICATION FairSpec
CONSTANTS
    Hosts = {"api", "cdn", "elsewhere"}
    AllowedHosts = {"api", "cdn"}
    Vars = {"id", "token"}
    Plans <- MCPlans
    Statuses = {200, 429, 500}
    Lengths = {0, 1, 2}
    BodyLimit = 1
    MaxRedirectHops = 3
    MaxAttempts = 4
INVARIANTS
    RouteIsAllowed
    CanceledOnlyByCaller
    SuccessIsEarned
PROPERTIES
    AttemptEnds
