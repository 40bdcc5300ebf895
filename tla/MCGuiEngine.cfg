SPECIFICATION StudioFairSpec
CONSTANTS
    MaxRuns = 2
    MaxPoints = 1
    Forms = {f1, noUsers, bad}
    Valid = {f1, noUsers}
    Buildable = {f1}
    NoPlan = NoPlan
INVARIANTS
    OneEngineUntilAbort
PROPERTIES
    PlanIsTheForm
    EndsExactlyWhenCanceled
CHECK_DEADLOCK FALSE
