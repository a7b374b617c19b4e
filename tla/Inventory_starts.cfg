\* One replica that may be killed anywhere, and migrations that can be run twice.
SPECIFICATION Spec
CONSTANTS
    r1 = r1
    r2 = r2
    q1 = q1
    q2 = q2
    h1 = h1
    h2 = h2
    Unset = Unset
    NoCredential = NoCredential
    NoReplica = NoReplica
    Replicas <- OneReplica
    Migrations <- IdempotentMigrations
    Passwords <- MCPasswords
    MaxStarts = 3
    Tenants = {1, 2}
    Hostnames <- TwoHostnames
    Handlers <- OneHandler
    Quotas = {1}
    MaxDevices = 2
    MaxCredentials = 1
CHECK_DEADLOCK FALSE
INVARIANTS
    StartsSucceed
