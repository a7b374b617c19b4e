\* One request row and two handlers; one run over three devices in two slots.
SPECIFICATION MCSpec
CONSTANTS
    adm = adm
    op = op
    h1 = h1
    h2 = h2
    r1 = r1
    run = run
    Users <- MCUsers
    Admins <- MCAdmins
    Requests <- MCRequests
    Handlers <- TwoHandlers
    NoUser = NoUser
    NoRequest = NoRequest
    MaxAbandoned = 1
    Runs <- OneRun
    Devices = {1, 2, 3}
    Capacity = 2
    MaxMoves = 1
    MaxFaults = 1
INVARIANTS
    ExecutorOnlyAfterApproval
    ResultMatchesStatus
    WalkIsLegal
    TimelineAccounted
    ResultsAreWhole
    SuccessMeansPushed
PROPERTIES
    ImplementsWorkflow
    FinishedRunIsRecorded
    EveryRunEnds
