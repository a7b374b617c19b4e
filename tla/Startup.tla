-------------------------------- MODULE Startup --------------------------------
(***************************************************************************)
(* Starts and stops of netmantle's replicas on one database (runServe of   *)
(* cmd/netmantle): schema migrations statement by statement                *)
(* (internal/storage), the bootstrap administrator (internal/auth), and a  *)
(* crash between any two statements.                                       *)
(***************************************************************************)
EXTENDS Integers, Sequences, FiniteSets

CONSTANTS Replicas,
          Migrations,      \* the embedded scripts: of each, the kinds of its statements
          Passwords,       \* values of NETMANTLE_BOOTSTRAP_ADMIN_PASSWORD
          Unset,           \* the variable is not set
          MaxStarts        \* bound: starts of all replicas together

\* "create" is CREATE ... IF NOT EXISTS, "column" is ALTER TABLE ... ADD COLUMN.
ASSUME MigrationsAssumption ==
    Migrations \in Seq(Seq({"create", "column"}))
ASSUME StartsAssumption == MaxStarts \in Nat /\ Unset \notin Passwords

VARIABLES
    executed,   \* statements <<version, index>> whose effect is in the schema
    recorded,   \* the rows of schema_migrations
    default,    \* the tenant "default" exists
    admins,     \* the bootstrap users: one password for each row ever inserted
    shown,      \* generated passwords that were logged
    pc,         \* of each replica: where runServe is
    applied,    \* of each replica: the versions it found applied
    at,         \* of each replica: the next statement of its migration
    preset,     \* of each replica: its bootstrap password
    starts,     \* starts so far
    refused     \* history: starts with a valid configuration that ended in an error

database == <<executed, recorded, default, admins>>
process == <<pc, applied, at, preset>>
startupVars == <<database, shown, process, starts, refused>>

Versions == 1 .. Len(Migrations)
Statements(v) == {<<v, i>> : i \in 1 .. Len(Migrations[v])}
Schema == UNION {Statements(v) : v \in Versions}

StartupInit ==
    /\ executed = {} /\ recorded = {} /\ default = FALSE /\ admins = <<>> /\ shown = {}
    /\ pc = [r \in Replicas |-> "down"]
    /\ applied = [r \in Replicas |-> {}]
    /\ at = [r \in Replicas |-> <<1, 1>>]
    /\ preset = [r \in Replicas |-> Unset]
    /\ starts = 0 /\ refused = 0
-----------------------------------------------------------------------------
Goto(r, place) == pc' = [pc EXCEPT ![r] = place]

\* "valid" says whether Load accepts what the file and the environment set.
Start(r, valid, password) ==
    /\ pc[r] = "down" /\ starts < MaxStarts
    /\ starts' = starts + 1
    /\ IF valid THEN Goto(r, "list") ELSE UNCHANGED pc
    /\ preset' = [preset EXCEPT ![r] = password]
    /\ UNCHANGED <<database, shown, applied, at, refused>>

\* runServe returns an error.
Refuse(r) ==
    /\ Goto(r, "down")
    /\ refused' = refused + 1
    /\ UNCHANGED <<database, shown, applied, at, preset, starts>>

\* The versions to apply are decided once, before the first is applied.
FirstAfter(r, v) == CHOOSE w \in v .. Len(Migrations) + 1 :
                        /\ w \notin applied[r]
                        /\ \A u \in v .. w - 1 : u \in applied[r]
ListApplied(r) ==
    /\ pc[r] = "list"
    /\ applied' = [applied EXCEPT ![r] = recorded]
    /\ at' = [at EXCEPT ![r] = <<FirstAfter(r, 1)', 1>>]
    /\ Goto(r, "migrate")
    /\ UNCHANGED <<database, shown, preset, starts, refused>>

\* A column that exists is an error; a table or an index that exists is not.
RunStatement(r) ==
    LET v == at[r][1]
        i == at[r][2] IN
    /\ pc[r] = "migrate" /\ v \in Versions /\ i <= Len(Migrations[v])
    /\ IF Migrations[v][i] = "column" /\ <<v, i>> \in executed
       THEN Refuse(r)
       ELSE /\ executed' = executed \cup {<<v, i>>}
            /\ at' = [at EXCEPT ![r] = <<v, i + 1>>]
            /\ UNCHANGED <<recorded, default, admins, shown, pc, applied, preset, starts, refused>>

\* Mutated form: what follows the last semicolon is not a statement.
RecordVersionEarly(r) ==
    LET v == at[r][1] IN
    /\ pc[r] = "migrate" /\ v \in Versions /\ at[r][2] >= Len(Migrations[v])
    /\ IF v \in recorded
       THEN Refuse(r)
       ELSE /\ recorded' = recorded \cup {v}
            /\ at' = [at EXCEPT ![r] = <<FirstAfter(r, v + 1), 1>>]
            /\ UNCHANGED <<executed, default, admins, shown, pc, applied, preset, starts, refused>>

\* schema_migrations.version is a primary key.
RecordVersion(r) ==
    LET v == at[r][1] IN
    /\ pc[r] = "migrate" /\ v \in Versions /\ at[r][2] > Len(Migrations[v])
    /\ IF v \in recorded
       THEN Refuse(r)
       ELSE /\ recorded' = recorded \cup {v}
            /\ at' = [at EXCEPT ![r] = <<FirstAfter(r, v + 1), 1>>]
            /\ UNCHANGED <<executed, default, admins, shown, pc, applied, preset, starts, refused>>

Migrated(r) == pc[r] = "migrate" /\ at[r][1] \notin Versions
-----------------------------------------------------------------------------
\* EnsureBootstrapAdmin, statement by statement.
CountUsers(r) ==
    /\ Migrated(r)
    /\ Goto(r, IF admins = <<>> THEN "tenant" ELSE "serving")
    /\ UNCHANGED <<database, shown, applied, at, preset, starts, refused>>

\* Mutated form: INSERT OR IGNORE.
InsertTenantOrIgnore(r) ==
    /\ pc[r] = "tenant"
    /\ default' = TRUE /\ Goto(r, "user")
    /\ UNCHANGED <<executed, recorded, admins, shown, applied, at, preset, starts, refused>>

\* tenants.name is unique.
InsertTenant(r) ==
    /\ pc[r] = "tenant"
    /\ IF default
       THEN Refuse(r)
       ELSE /\ default' = TRUE /\ Goto(r, "user")
            /\ UNCHANGED <<executed, recorded, admins, shown, applied, at, preset, starts, refused>>

\* A generated password is named after the start that generated it.
InsertUser(r) ==
    /\ pc[r] = "user"
    /\ admins' = Append(admins, preset[r])
    /\ Goto(r, "show")
    /\ UNCHANGED <<executed, recorded, default, shown, applied, at, preset, starts, refused>>

ShowPassword(r) ==
    /\ pc[r] = "show"
    /\ shown' = shown \cup {preset[r]}
    /\ Goto(r, "serving")
    /\ UNCHANGED <<database, applied, at, preset, starts, refused>>
-----------------------------------------------------------------------------
\* SIGINT or SIGTERM, or a listener that failed; requests in flight get ten seconds.
Stop(r) ==
    /\ pc[r] = "serving"
    /\ Goto(r, "stopping")
    /\ UNCHANGED <<database, shown, applied, at, preset, starts, refused>>

\* The process ends, of itself after a stop or because it was killed.
Die(r) ==
    /\ pc[r] # "down"
    /\ Goto(r, "down")
    /\ UNCHANGED <<database, shown, applied, at, preset, starts, refused>>

StartupStep(r) ==
    \/ \E valid \in BOOLEAN, password \in Passwords \cup {Unset} : Start(r, valid, password)
    \/ ListApplied(r) \/ RunStatement(r) \/ RecordVersion(r)
    \/ CountUsers(r) \/ InsertTenant(r) \/ InsertUser(r) \/ ShowPassword(r)
    \/ Stop(r)

Serving(r) == pc[r] \in {"serving", "stopping"}
================================================================================
