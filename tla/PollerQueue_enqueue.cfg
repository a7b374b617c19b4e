\* A key enqueued twice, with other inserts in between.
SPECIFICATION Spec
CONSTANTS
    p1 = p1
    p2 = p2
    k1 = k1
    k2 = k2
    NoPoller = NoPoller
    NoTime = NoTime
    Pollers <- MCPollers
    Keys <- TwoKeys
    Supports <- MCSupports
    TTLs = {1}
    ReclaimScheduled = TRUE
    MaxRows = 2
    MaxClaims = 1
    MaxTime = 1
CHECK_DEADLOCK FALSE
INVARIANTS
    EnqueueReturnsItsKey
