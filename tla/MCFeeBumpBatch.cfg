CONSTANTS
    N = 1
    Balances = {0}
    FAILURE_THRESHOLD = 2
    NNodes = 1
    Requests = {r1}
    Tenants = {"free"}
    TenantOf <- MCTenantOf
    MaxBatch = 3
    OpCounts = {1}
    BaseFee = 1
    MultNum = 3
    MultDen = 2
    DailyQuota <- MCDailyQuota
    GlobalMax = 1
    KeyMax = 1
    MaxDay = 0
SPECIFICATION Spec
CHECK_DEADLOCK FALSE
INVARIANTS
    RefusedBatchChargesNothing
