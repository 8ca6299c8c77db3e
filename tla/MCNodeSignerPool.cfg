CONSTANTS
    Keys = {k1, k2}
    OneKey = k1
    Holders = {h1, h2}
    Strategy = "least_used"
    MaxNonce = 2
    MaxUses = 3
    MaxGen = 2
SYMMETRY Symmetry
SPECIFICATION MCSpec
CHECK_DEADLOCK FALSE
INVARIANTS
    TypeOK
    InFlightMatchesLeases
    LowBalanceNeverActive
PROPERTIES
    ImplementsMonotoneNonces
