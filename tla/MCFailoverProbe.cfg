CONSTANTS
    FailureThreshold = 2
    Window = 3
    RecoveryTimeout = 1
    N = 1
    Calls = {c1, c2, c3}
    Strategy = "priority"
    CooldownBase = 1
    CooldownMax = 2
    InactiveThreshold = 2
    MaxTime = 3
    MaxFailures = 4
SPECIFICATION Spec
INVARIANTS
    OneHalfOpenProbe
