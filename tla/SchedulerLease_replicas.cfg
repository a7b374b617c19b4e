\* Two replicas, two jobs, any two crashes or database errors.
SPECIFICATION FairSpec
CONSTANTS
    a = a
    b = b
    backup = backup
    retention = retention
    Nobody = Nobody
    Gone = Gone
    Replicas <- TwoReplicas
    Jobs <- BothJobs
    Interval <- MCInterval
    MaxInterval = 2
    TTL = 2
    MaxDelay = 1
    MaxFaults = 2
INVARIANTS
    OverlapOnlyByOverrun
PROPERTIES
    JobsKeepFiring
