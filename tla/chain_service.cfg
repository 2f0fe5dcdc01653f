SPECIFICATION SpecAll
CONSTANTS
    t1 = t1
    t2 = t2
    t3 = t3
    Txs = {t1, t2, t3}
    InitialCount = 1
    HasMempool = TRUE
    PendingFeed = FALSE
    RequestNonces = {}
    MaxNonce = 0
    MaxRestarts = 1
    Sent = {"a"}
    Seen = {"b"}
    Slots = {"s"}
    MaxFailures = 1
SYMMETRY Symmetry
INVARIANTS
    TypesOK
    NoAbandonedNonce
    QueueOrdered
    PendingFollowed
CHECK_DEADLOCK FALSE
