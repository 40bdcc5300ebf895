CONSTANTS
    Text <- MCText
    Hosts = {"h1", "h2", "lo"}
    Loopback = {"lo"}
    Addresses = {"lo"}
    Second = 4
    MaxAllowedDuration = 41
    MaxAllowedRate = 4
    MaxAllowedUsers = 2
    MaxAllowedInFlight = 10
    MaxSourceSegments = 2
    MaxCompiledSegments = 4
    MaxScenarioSteps = 2
    None = None
    Durations = {0, 8}
    Archive <- MCArchive
    Files <- MCFiles
    CommandLines <- MCCommandLines
    Snapshots <- MCSnapshots
SPECIFICATION Spec
INVARIANTS
    TrafficIsCleared
    PlanIsSchedulable
    CodeIsTruthful
    PrecedenceHolds
    ComparisonTellsTheVerdict
PROPERTY
    CanceledIsNoVerdict
