\* Either one key that may be deleted with its device and enqueued again, in three
\* instants; or one job that waits, is claimed, expires, waits again and is claimed
\* again, with lifetimes from under a second to one. Somebody calls ReclaimExpired.
\* The clock is bounded, so a behaviour may stop.
SPECIFICATION MCSpec
CONSTANTS
    p1 = p1
    p2 = p2
    k1 = k1
    k2 = k2
    NoPoller = NoPoller
    NoTime = NoTime
    Pollers <- MCPollers
    Keys <- OneKey
    Supports <- MCSupports
    TTLs = {0, 1}
    ReclaimScheduled = TRUE
    MaxRows = 2
    MaxClaims = 2
    MaxTime = 6
CHECK_DEADLOCK FALSE
INVARIANTS
    ClaimsDoNotOverlap
    FullDeadline
    ResultIsOfTheHolder
PROPERTIES
    ImplementsQueue
