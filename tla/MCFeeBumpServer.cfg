CONSTANTS
    N = 1
    Balances = {0}
    FAILURE_THRESHOLD = 1
    NNodes = 1
    Requests = {r1, r2}
    Tenants = {"free"}
    TenantOf <- MCTenantOf
    MaxBatch = 1
    OpCounts = {1}
    BaseFee = 1
    MultNum = 3
    MultDen = 2
    DailyQuota <- MCDailyQuota
    GlobalMax = 1
    KeyMax = 1
    MaxDay = 1
SYMMETRY RequestSymmetry
SPECIFICATION Spec
CHECK_DEADLOCK FALSE
INVARIANTS
    ServerInv
    OvershootOnlyByRaces
