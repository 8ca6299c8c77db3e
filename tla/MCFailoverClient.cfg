CONSTANTS
    FailureThreshold = 2
    Window = 2
    RecoveryTimeout = 1
    N = 2
    Calls = {c1, c2}
    Strategy = "round_robin"
    CooldownBase = 1
    CooldownMax = 2
    InactiveThreshold = 2
    MaxTime = 3
    MaxFailures = 3
SPECIFICATION Spec
INVARIANT
    BreakersSound
PROPERTIES
    UnattemptedOnlyIfNoneActive
    TripsOnRecentFailures
