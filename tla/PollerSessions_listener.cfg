\* The clock and the starts are bounded, so a behaviour may stop.
SPECIFICATION ListenerSpec
CONSTANTS
    t1 = t1
    t2 = t2
    n1 = n1
    c1 = c1
    c2 = c2
    j1 = j1
    Tenants <- MCTenants
    Names <- MCNames
    Calls <- MCCalls
    Jobs <- MCJobs
    JobTenant <- MCJobTenant
    Lease = 1
    Window = 2
    Sweep = 0
    Skew = 0
    Lag = 1
    MaxPollers = 2
    MaxMessages = 1
    MaxStarts = 2
    MaxTime = 3
CHECK_DEADLOCK FALSE
INVARIANTS
    MessagesPassOnce
PROPERTIES
    WorkIsOfRegisteredPollers
    SessionsAreLeases
    StopsInTheEnd
