CONSTANTS
    Accounts = {a1, a2}
    Contracts = {stream, vault, pool, staking, e1, e2, flash, splitter, bridge}
    Tokens = {t1, t2}
    Amounts <- MCAmounts
    Supply = 3
    Funded = {flash, bridge}
    MaxTime = 3
    StreamContract = stream
    MaxStreams = 2
    VaultContract = vault
    YieldPool = pool
    MaxMoved = 1
    StakingContract = staking
    SecondsPerCredit = 2
    MaxStake = 3
    MaxPositions = 2
    Escrows = {e1, e2}
    FlashPool = flash
    FeeBps = {0, 5000, 10001}
    Allowances = {0, 3, 6}
    SplitterContract = splitter
    RecipientLists <- MCRecipientLists
    Durations = {0, 1}
    MaxProposals = 2
    BridgeContract = bridge
    ValidatorKeys = {v1, v2}
    TransferIds = {1, 2}
    MaxSignatures = 2
    DIDs = {d1, d2}
    Pubkeys = {p1}
SYMMETRY Symmetry
SPECIFICATION ContractsSpec
CHECK_DEADLOCK FALSE
INVARIANTS
    ContractsSolvent
    EntitlementsExact
    RecordedOnce
PROPERTIES
    RecordsFinal
