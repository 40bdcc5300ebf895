SPECIFICATION StudioSpec
CONSTANTS
    MaxRuns = 3
    MaxPoints = 1
    Forms = {f1}
    Valid = {f1}
    Buildable = {f1}
    NoPlan = NoPlan
INVARIANTS
    RunningEngineIsAbortable
CHECK_DEADLOCK FALSE
