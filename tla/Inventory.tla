------------------------------- MODULE Inventory -------------------------------
(***************************************************************************)
(* Tenants and quotas, device groups' devices, credentials and the audit   *)
(* log, as the handlers of internal/api change them, on replicas that      *)
(* start, stop and die as Startup says.  A handler is one statement that   *)
(* changes a table, then one that adds to audit_log, then the answer.      *)
(***************************************************************************)
EXTENDS Startup, Table

CONSTANTS Tenants,      \* ids of tenants; 1 is "default"
          Hostnames,
          Handlers,     \* requests in flight, each used again and again
          NoCredential, NoReplica,
          Quotas,       \* values given to max_devices; 0 is no limit
          MaxDevices, MaxCredentials  \* bounds: rows ever inserted

ASSUME InventoryAssumption ==
    /\ 1 \in Tenants /\ Quotas \subseteq Nat
    /\ NoCredential \notin Nat /\ NoReplica \notin Replicas
    /\ MaxDevices \in Nat /\ MaxCredentials \in Nat

VARIABLES
    quotas,       \* tenant_quotas: max_devices of each tenant made by the API
    devices, credentials,  \* their rows, by id
    made,         \* ids given out: AUTOINCREMENT never gives one again
    audit,        \* audit_log
    job           \* of each request: its replica, what it does next and its variables

rows == <<quotas, devices, credentials, made>>
vars == <<startupVars, rows, audit, job>>

Idle == [on |-> NoReplica, next |-> "idle", entry |-> <<>>, tenant |-> 1]

Init ==
    /\ StartupInit
    /\ quotas = <<>> /\ devices = <<>> /\ credentials = <<>>
    /\ made = [devices |-> 0, credentials |-> 0]
    /\ audit = {}
    /\ job = [q \in Handlers |-> Idle]


\* Tenants that exist: the default one has no row in tenant_quotas until SetQuota.
TenantExists(t) == IF t = 1 THEN default ELSE t \in DOMAIN quotas
Quota(t) == IF t \in DOMAIN quotas THEN quotas[t] ELSE 0
DevicesOf(t) == {d \in DOMAIN devices : devices[d].tenant = t}

Accepted(q, r) == Serving(r) /\ job[q].next = "idle"
\* The statement that changes a table is done; the audit record is next.
Changed(q, r, action, id) ==
    job' = [job EXCEPT ![q] = [Idle EXCEPT !.on = r, !.next = "audit", !.entry = <<action, id>>]]
-----------------------------------------------------------------------------
\* One transaction for the tenant and its quota.
Create(t, n) == ~TenantExists(t) /\ quotas' = With(quotas, t, n)
SetQuota(t, n) == TenantExists(t) /\ quotas' = With(quotas, t, n)

\* Neither is audited.
handleCreateTenant(t, n) ==
    /\ \E r \in Replicas : Serving(r)
    /\ Create(t, n)
    /\ UNCHANGED <<startupVars, devices, credentials, made, audit, job>>

handleSetTenantQuota(t, n) ==
    /\ \E r \in Replicas : Serving(r)
    /\ SetQuota(t, n)
    /\ UNCHANGED <<startupVars, devices, credentials, made, audit, job>>

\* The foreign key asks that the credential exists, not whose it is.
References(c) == c = NoCredential \/ c \in DOMAIN credentials
HostnameFree(t, h, d) == \A e \in DevicesOf(t) \ {d} : devices[e].hostname # h
Row(t, h, c) == [tenant |-> t, hostname |-> h, credential |-> c]

\* Mutated form: an id that is free again is given out again.
CreateDeviceReusingIds(d, t, h, c) ==
    /\ d <= MaxDevices /\ HostnameFree(t, h, d) /\ References(c)
    /\ devices' = With(devices, d, Row(t, h, c))
    /\ UNCHANGED made

CreateDevice(d, t, h, c) ==
    /\ d <= MaxDevices /\ HostnameFree(t, h, d) /\ References(c)
    /\ devices' = With(devices, d, Row(t, h, c))
    /\ made' = [made EXCEPT !.devices = d]

UpdateDevice(d, t, h, c) ==
    /\ d \in DevicesOf(t) /\ HostnameFree(t, h, d) /\ References(c)
    /\ devices' = [devices EXCEPT ![d] = Row(t, h, c)]

DeleteDevice(d, t) == d \in DevicesOf(t) /\ devices' = Without(devices, d)

handleCreateDevice(q, r, t, h, c) ==
    LET d == made.devices + 1 IN
    /\ Accepted(q, r) /\ TenantExists(t)
    /\ CreateDevice(d, t, h, c)
    /\ Changed(q, r, "device.create", d)
    /\ UNCHANGED <<startupVars, quotas, credentials, audit>>

handleUpdateDevice(q, r, d, t, h, c) ==
    /\ Accepted(q, r)
    /\ UpdateDevice(d, t, h, c)
    /\ job' = [job EXCEPT ![q] = [Idle EXCEPT !.on = r, !.next = "read back", !.tenant = t,
                                              !.entry = <<"device.update", d>>]]
    /\ UNCHANGED <<startupVars, quotas, credentials, made, audit>>

\* UpdateDevice answers with the row it reads again, or with "not found".
ReadBack(q) ==
    /\ job[q].next = "read back"
    /\ job' = [job EXCEPT ![q] = IF job[q].entry[2] \in DevicesOf(job[q].tenant)
                                 THEN [@ EXCEPT !.next = "audit"] ELSE Idle]
    /\ UNCHANGED <<startupVars, rows, audit>>

handleDeleteDevice(q, r, d, t) ==
    /\ Accepted(q, r)
    /\ DeleteDevice(d, t)
    /\ Changed(q, r, "device.delete", d)
    /\ UNCHANGED <<startupVars, quotas, credentials, made, audit>>

CreateCredential(c, t) ==
    /\ c <= MaxCredentials
    /\ credentials' = With(credentials, c, t)
    /\ made' = [made EXCEPT !.credentials = c]

\* ON DELETE SET NULL in the devices that use it.
DeleteCredential(c, t) ==
    /\ c \in DOMAIN credentials /\ credentials[c] = t
    /\ credentials' = Without(credentials, c)
    /\ devices' = [d \in DOMAIN devices |->
                      IF devices[d].credential = c THEN [devices[d] EXCEPT !.credential = NoCredential]
                      ELSE devices[d]]

handleCreateCredential(q, r, t) ==
    LET c == made.credentials + 1 IN
    /\ Accepted(q, r) /\ TenantExists(t)
    /\ CreateCredential(c, t)
    /\ Changed(q, r, "credential.create", c)
    /\ UNCHANGED <<startupVars, quotas, devices, audit>>

handleDeleteCredential(q, r, c, t) ==
    /\ Accepted(q, r)
    /\ DeleteCredential(c, t)
    /\ Changed(q, r, "credential.delete", c)
    /\ UNCHANGED <<startupVars, quotas, made, audit>>

\* recordAudit on the request's context, then the answer.  When the client has gone
\* away the INSERT fails and nobody is answered.
RecordAudit(q) ==
    /\ job[q].next = "audit"
    /\ audit' = audit \cup {job[q].entry}
    /\ job' = [job EXCEPT ![q] = Idle]
    /\ UNCHANGED <<startupVars, rows>>

ClientGone(q) ==
    /\ job[q].next # "idle"
    /\ job' = [job EXCEPT ![q] = Idle]
    /\ UNCHANGED <<startupVars, rows, audit>>
-----------------------------------------------------------------------------
ReplicaStep(r) == StartupStep(r) /\ UNCHANGED <<rows, audit, job>>

\* The requests of a process end with it.
ReplicaDies(r) ==
    /\ Die(r)
    /\ job' = [q \in Handlers |-> IF job[q].on = r THEN Idle ELSE job[q]]
    /\ UNCHANGED <<rows, audit>>

Request(q, r, t) ==
    \/ \E h \in Hostnames, c \in DOMAIN credentials \cup {NoCredential} :
           \/ handleCreateDevice(q, r, t, h, c)
           \/ \E d \in DOMAIN devices : handleUpdateDevice(q, r, d, t, h, c)
    \/ \E d \in DOMAIN devices : handleDeleteDevice(q, r, d, t)
    \/ handleCreateCredential(q, r, t)
    \/ \E c \in DOMAIN credentials : handleDeleteCredential(q, r, c, t)

Next ==
    \/ \E r \in Replicas : ReplicaStep(r) \/ ReplicaDies(r)
    \/ \E t \in Tenants, n \in Quotas : handleCreateTenant(t, n) \/ handleSetTenantQuota(t, n)
    \/ \E q \in Handlers : ReadBack(q) \/ RecordAudit(q) \/ ClientGone(q)
    \/ \E q \in Handlers, r \in Replicas, t \in Tenants : Request(q, r, t)

Spec == Init /\ [][Next]_vars
-----------------------------------------------------------------------------
TypeOK ==
    /\ executed \subseteq Schema /\ recorded \subseteq Versions /\ default \in BOOLEAN
    /\ admins \in Seq(Passwords \cup {Unset}) /\ starts \in 0 .. MaxStarts /\ refused \in Nat
    /\ DOMAIN quotas \subseteq Tenants
    /\ DOMAIN devices \subseteq 1 .. made.devices
    /\ DOMAIN credentials \subseteq 1 .. made.credentials

\* Migrate (storage.go:69) and runServe: a version is recorded only when all its
\* statements have run, and no replica serves on a schema that is not complete,
\* however starts of several replicas and crashes between statements interleave.
RecordedMeansComplete ==
    /\ \A v \in recorded : Statements(v) \subseteq executed
    /\ \A r \in Replicas : Serving(r) => executed = Schema /\ recorded = Versions

\* EnsureBootstrapAdmin (auth.go:95): replicas that start together on an empty
\* database make one administrator, and none serves before there is one.
OneAdministrator ==
    /\ Len(admins) <= 1
    /\ \A r \in Replicas : Serving(r) => Len(admins) = 1

\* The audit log names devices and credentials by id, a statement after the change,
\* when other requests may have inserted and deleted rows: what a "delete" names is
\* gone, and no row made later takes its id.
AuditNamesOneThing ==
    \A entry \in audit :
        /\ entry[1] = "device.delete" => entry[2] \notin DOMAIN devices
        /\ entry[1] = "credential.delete" => entry[2] \notin DOMAIN credentials

\* auth.go:95: EnsureBootstrapAdmin "creates the default tenant and an admin user if
\* no users exist yet".  With one replica, no start with a valid configuration ends
\* in an error.
StartsSucceed == refused = 0
================================================================================
