\* The clock, the starts and the rows are bounded, so a behaviour may stop.
SPECIFICATION MCSpec
CONSTANTS
    admin = admin
    operator = operator
    NoUser = NoUser
    Users <- MCUsers
    Admins <- MCAdmins
    Writers <- MCUsers
    Requests <- TwoHandlers
    SessionTTL = 0
    TokenTTLs = {0}
    ChallengeTTL = 0
    MaxSessions = 1
    MaxChallenges = 1
    MaxTokens = 1
    MaxSecrets = 2
    MaxKeys = 2
    MaxTime = 1
    r1 = r1
    r2 = r2
    q1 = q1
    q2 = q2
    h1 = h1
    h2 = h2
    Unset = Unset
    NoCredential = NoCredential
    NoReplica = NoReplica
    Replicas <- MCReplicas
    Migrations <- MCMigrations
    Passwords <- MCPasswords
    MaxStarts = 3
    Tenants = {1, 2}
    Hostnames <- TwoHostnames
    Handlers <- TwoHandlers
    Quotas = {1}
    MaxDevices = 2
    MaxCredentials = 2
SYMMETRY Symmetry
CHECK_DEADLOCK FALSE
INVARIANTS
    SessionsAreEarned
    EndedStaysEnded
    DirectPushesAreAdmins
    RecordedMeansComplete
    OneAdministrator
    AuditNamesOneThing
