SPECIFICATION MCSpec
CONSTANTS
    LockProcs = {h1, h2, h3}
    LockSubs = {1, 2}
    MaxGiveUps = 1
    NoProc = NoProc
    LeaseIds = {1, 2}
    LeaseProcs = {p1, p2}
    Workers = {w1, w2}
    MaxLimit = 2
    MaxSwitches = 2
    MaxLeaseFaults = 1
    MaxTokens = 3
    MaxClears = 1
    MaxStoreFaults = 1
    MaxRefreshes = 2
    NoTok = NoTok
INVARIANTS
    LockInvariant
    NoWaitCycle
    LeaseInvariant
    RetiredStaysRetired
    StoreInvariant
PROPERTIES
    EndedLeaseStays
SYMMETRY Symmetry
CHECK_DEADLOCK FALSE
