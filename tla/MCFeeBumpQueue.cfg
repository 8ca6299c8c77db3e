CONSTANTS
    Jobs = {j1, j2}
    Txs = {t1, t2}
    Attempts = 2
    BackoffDelay = 1
    JobTimeout = 1
    Concurrency = 2
    MaxStalled = 0
    TxLimit = 1
    MaxLapses = 1
SYMMETRY Symmetry
SPECIFICATION Spec
CHECK_DEADLOCK FALSE
INVARIANTS
    QueueInv
    ChargedOncePerLapse
    OvershootBelowConcurrency
