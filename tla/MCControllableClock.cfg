SPECIFICATION ClockSpec
CONSTANTS
    Callers = {g1}
    Durations = {0, 1, 3}
    MaxEntries = 2
    MaxTime = 3
INVARIANTS
    FiresOnSchedule
    NoForgottenWaiter
