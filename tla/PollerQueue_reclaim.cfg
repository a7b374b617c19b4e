\* The program as it is built: nothing calls ReclaimExpired. The clock is bounded.
SPECIFICATION FairSpec
CONSTANTS
    p1 = p1
    p2 = p2
    k1 = k1
    k2 = k2
    NoPoller = NoPoller
    NoTime = NoTime
    Pollers <- MCPollers
    Keys <- OneKey
    Supports <- MCSupports
    TTLs = {1, NoTime}
    ReclaimScheduled = FALSE
    MaxRows = 1
    MaxClaims = 1
    MaxTime = 3
CHECK_DEADLOCK FALSE
PROPERTIES
    ExpiringClaimEnds
