SPECIFICATION Spec
CONSTANTS
    t1 = t1
    t2 = t2
    Txs = {t1, t2}
    InitialCount = 1
    HasMempool = TRUE
    PendingFeed = TRUE
    RequestNonces = {2}
    MaxNonce = 2
    MaxRestarts = 1
SYMMETRY Symmetry
INVARIANTS
    ReuseNeedsRelease
CHECK_DEADLOCK FALSE
