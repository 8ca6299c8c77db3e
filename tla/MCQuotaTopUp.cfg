CONSTANTS
    Sessions = {s1}
    Hooks = {k1, k2}
    UntieredSessions = {}
    MaxEvents = 2
    MaxTopUpFaults = 2
SPECIFICATION TopUpSpec
CHECK_DEADLOCK FALSE
INVARIANTS
    FailureIsRetried
