CONSTANTS
    Jobs = {j1}
    Txs = {t1}
    Attempts = 6
    BackoffDelay = 1
    JobTimeout = 30
    Concurrency = 5
    MaxStalled = 1
    TxLimit = 0
    MaxLapses = 0
SPECIFICATION PromptSpec
CHECK_DEADLOCK FALSE
INVARIANTS
    RefusalIsAnswered
