# netmantle: specifications

netmantle is a Go server that keeps a network's device configurations: it backs
them up into git, diffs and indexes them, checks them against rules, pushes
changes under an approval workflow, and hands work to remote pollers over gRPC.
This directory holds TLA+ modules of the parts where correctness depends on the
order in which things happen, the TLC configurations that check them on small
instances, and proofs for TLAPS of the properties that matter most.

Contents:

1. the parts of the system
2. what all the models assume
3. the modules, one by one: state, actions, runs, bounds, fairness, proofs
4. what is proved and how
5. disagreements between the code and what is said of it
6. what is not modelled
7. plan
8. how to run it

`PROJECT.json` maps every definition to the source lines it stands for, lists
the runs, the hazards of the code with the properties that watch them, and the
theorems.

## 1. The parts of the system

One process (`src/cmd/netmantle/main.go`) opens an SQLite database with one
connection, builds the services, starts an HTTP server, a gRPC server for
pollers and a scheduler, and wires the services together with callbacks. Several
replicas may share one database; only the scheduler coordinates them.

| part | state it keeps | operations | meets others through | hard behaviour | what makes it correct |
|---|---|---|---|---|---|
| change requests (`internal/changereq`, `handlers_features.go`) | `change_requests`, `change_request_events` | create, submit, approve, reject, cancel, apply, rollback | executors: automation, configstore | stale reads, two handlers on one row, a client that disconnects between statements, execution before the state is recorded | nothing runs without an approval; a row walks the state machine; the result belongs to the transition that won |
| poller jobs (`internal/poller/jobs.go`, `server/grpc.go`) | `poller_jobs` | enqueue, claim, complete, cancel, reclaim | gRPC, scheduler, deletion of devices and pollers | claims that race, expire and come back; lost answers; late and repeated reports | claims do not overlap; only the holder ends a job; an ended job stays; no job is held for ever |
| scheduler (`internal/scheduler`) | `scheduler_leases`, `last` per process | acquire, renew, fire, wait | jobs from `main.go` | slow jobs, slow statements, crashes, clocks | one leader at a time; jobs keep firing |
| backups (`internal/backup`, `configstore`, `changes`, `search`) | git repository and mutex per device, `backup_runs`, `config_versions`, `change_events`, `config_search` | `BackupNow`, `BackupAll`, `LatestVersion` | drivers, post-commit hooks | two backups of a device, a driver that brings home only its first file, a crash between files, cancellation between commit and rows, hook deadline | a commit holds what one backup fetched, and beside it nothing but older or left-over files; rows agree with history; changes are reported |
| push automation (`internal/automation`) | `push_jobs`, `push_runs`, `push_results` | preview, run | change requests, device sessions | goroutines under a semaphore, some devices failing, safe mode, a client that leaves | every device of a run has one truthful row; the status sums up what happened |
| compliance (`internal/compliance`) | rules, `compliance_findings` | evaluate, transitions | backup hook, notifications | read-then-upsert by two hooks; rules and devices edited under an evaluation | findings are those of the rules that apply; every change is reported once |
| GitOps mirror (`internal/gitops`) | remote in a device's repository | push | backup hook, configstore | no lock against `Commit` | the mirror is a prefix of the history |
| poller registration and sessions (`internal/poller`, `server/grpc.go`) | `pollers`, session map, nonce cache | register, delete, authenticate, claim, report, stream, stop | jobs | a poller deleted under a live session or between two statements of a call; messages delivered late and again; expiry against purge; a stop with streams open | work is done only for registered pollers that proved their token; a message passes once; a stop ends |
| login and second factor (`internal/auth`, `server.go`) | `sessions`, `users.totp_secret`, `mfa_challenges`, signing key | login, challenge, code, enrol, disable, logout | HTTP middleware | a secret stored or removed between the two halves of a login; expiry between check and use; a client that leaves; restarts with another key | no session without both factors; what ended stays ended |
| API tokens (`internal/apitokens`) | `api_tokens` | issue, revoke, authenticate, scopes | middleware, pushes | a token revoked, or a request cut short, between authentication and handler | a revoked token admits nobody; only administrators push directly |
| storage (`internal/storage`) | schema, `schema_migrations` | open, migrate | everything | a kill between the statements of a migration; two replicas that migrate at once | recorded means complete; nothing serves on half a schema |
| process start and stop (`main.go`), bootstrap | default tenant, administrator | load, validate, migrate, bootstrap, serve, shut down | everything | replicas that start together; a kill between two INSERTs | one administrator |
| configuration (`internal/config`) | file and environment | load, validate | start | values that do not parse | only valid settings serve |
| known SSH hosts (`transport/known_hosts.go`) | `ssh_known_hosts` | check, add, delete a pin | SSH dial | two first connections at once; a pin deleted between conflict and comparison | the keys trusted are the key that is pinned |
| devices, credentials, sealer (`internal/devices`, `credentials`) | rows, sealed secrets | CRUD, use | backups, pushes, terminals | a credential of another tenant; a device changed between two reads; deletion cascades | what was deleted does not come back under its id |
| transports and drivers (`internal/transport`, `internal/drivers`) | a session each | connect, run commands, read answers, close | backups, pushes | prompts, deadlines, abandoned readers that swallow later output, a device that breaks off | an artifact is the answer to its command; sessions end |
| terminal (`internal/terminal`) | `terminal_sessions`, transcript, frames | open, copy, type, ping, save | HTTP, SSH dial | two goroutines that write one connection and one transcript | frames are whole; the saved transcript covers what was shown and typed |
| tenants and quotas (`internal/tenants`) | `tenants`, `tenant_quotas` | create, set quota | inventory | a quota nobody reads | - |
| audit log (`internal/audit`) | `audit_log` | record, list | handlers | recorded after the change, by then perhaps about another row | an entry names one thing |
| notifications (`internal/notify`) | channels, rules | dispatch | hooks | best effort | - |
| discovery, probes, topology | rows | scan, probe | devices | sequential I/O | - |
| logging, metrics, web UI | counters, pages | - | HTTP | - | - |

The interactions that carry the hard cases: an HTTP handler calls the change
request service, which calls an executor, which changes a device before the
state is recorded; a backup commits to git and only then writes the rows and runs
the hooks that other services read; a poller is told of a claim by an answer
that may be lost, over a session that outlives its row; a replica starts jobs
under a lease it renews only when they have returned; backups and terminals dial
the same hosts against one table of pinned keys; and every handler relies on what
a middleware established some statements ago.

## 2. What all the models assume

* *Statements are atomic, nothing wider is.* `main.go:103-108` opens SQLite with
  `SetMaxOpenConns(1)`, and hardly any operation uses a transaction around what it
  does (`UpsertRule` and the assignment of rule packs do; each is one step).
  A handler is therefore a sequence of steps, one per statement, and any number
  of steps of others may fall in between.
* *A statement may fail*, because the context it runs under has ended or for a reason
  of its own, and leaves the earlier ones; where the code ignores the error, the
  handler goes on. Where a model bounds the failures, the bound is named.
* *Time is in seconds*, since timestamps are stored as RFC 3339 text.
* *The clocks of replicas agree.* The scheduler compares times written by
  different hosts, so this is a premise of its design.
* One tenant and one device where every statement carries the same `tenant_id`
  and `device_id`; where tenants can meet (`Inventory`, `PollerSessions`), several.
* *Random ids, secrets, tokens, keys and nonces do not repeat*, and cryptography
  does what it promises: signatures, hashes and sealed secrets are modelled by who
  made them and with what.

Contents, outputs, messages, audit entries and HTTP responses are abstracted to
what the properties tell apart. History variables (what really happened to a
row, which claims were made) are named as such in the declarations; no action
reads them in a guard.

## 3. The modules

One run may be about two components that have nothing in common, or about one in two
circumstances. A variable `part`, or a condition on every next state, of the MC module
then says what a behaviour is about, and the other component stays as it was. The
states of such a run are those of its parts added, not multiplied.

### ChangeRequest, ChangeRequestSpec

`ChangeRequestSpec` is the workflow people are promised, each request an atomic
object: draft, submit, decide once, execute only what was approved, conclude.

`ChangeRequest` is the code. Each element of `Handlers` is an HTTP request in
flight: `pc` says which statement comes next, `call` holds its locals (actor,
request, target status, the status it read, the outcome of the executor). The
actions are the statements: `Insert` (Create), `Read` and `Get` (the reads of a
handler and of `transition`), `Update` (the conditional UPDATE of
`transitionFrom`; `LoseRace` when no row matched), `RecordEvent`,
`StartExecutor`/`FinishExecutor`, `SaveResult`, and `Abandon`, the client that
goes away before any of them. `ImmediateRollback` runs create, submit, approve
and execute in one handler. The configuration of a handler is `Advance`; the
requests that arrive are the actions of `Next` that begin one.

Runs:
* `cr_pushes`, as far as it is about change requests: one request row, an administrator
  and an operator, two handlers, one of them cut short at most. Two handlers are enough
  for every conflict: a statement's outcome depends on one row and on what one other
  handler did between this handler's read and its UPDATE. One row is enough because no
  statement touches two. The properties: the executor is invoked only for what an
  administrator approved (`ExecutorOnlyAfterApproval`); the result column belongs to the
  winner (`ResultMatchesStatus`); each row makes one unbroken walk of the state machine
  (`WalkIsLegal`); the event table invents and repeats nothing and lacks only what is
  still to come (`TimelineAccounted`); the statements implement the atomic workflow
  (`ImplementsWorkflow`); a run that comes back and is not cut short gets recorded
  (`FinishedRunIsRecorded`).

Bound: `MaxAbandoned`, the number of handlers cut short. Each leaves at most one
prefix of its statements behind. The rows' histories are finite because the
state machine has no cycle.

Fairness: a handler that is under way goes on (`WF`), except while its executor is at
work: that it comes back is a premise of the property (`ExecutorsReturn`). Goroutines are
scheduled by the Go runtime and database calls return or fail; a push or a rollback may
hang in a session that minds no deadline (section 5). No fairness on requests arriving.

### PollerQueue, PollerQueueSpec

`PollerQueueSpec` is the queue by idempotency key: none, queued, claimed by a
holder, ended; only the holder ends it, only its end of time or its poller's
deletion takes it from the holder.

`PollerQueue` is the table `poller_jobs` row by row and the calls that reach
it. `Claim` is three steps: `SelectJob` fixes the candidate, the time and the
new expiry; `WinClaim`/`LoseClaim` is the UPDATE guarded by
`status = 'queued'`; `AnswerClaim` is the second SELECT, by id alone, whose row
is what the poller is told (`held`). A poller may report any claim it was told
of, any number of times, at any later moment (`ReportResult`), or never. Then
there are `EnqueueNew`, `EnqueueDuplicate`, `Cancel`, `ReclaimExpired`,
`DeletePoller`, `DeleteDevice`, and `Tick`. A lifetime is given in whole seconds; the
creation and the expiry are each cut to the second, so the row may hold a second
more than that (`carry` in `EnqueueNew`). A lifetime under a second, 0, thus becomes
one of a second or of none, which `computeNewExpiresAt` takes for no expiry.

Runs:
* `pq_jobs`: two pollers and two claims of each row, in behaviours of two kinds (`Short`
  and `Long`). In short ones, of three instants, a key may be deleted with its device
  and inserted again, so there are two rows, with lifetimes of less than a second, which
  end in a second or never. Two claims let a late report meet the claim of another
  poller, and an expiry fall into the statements of one call. In long ones, of seven
  instants, there is one row with a lifetime from under a second to one, which waits for
  seconds before its first claim, runs out, is reclaimed, waits again and is claimed
  again.
* `pq_reclaim` (violated): section 5.
* `pq_enqueue` (violated): section 5.

The properties: claims of one job are disjoint in time (`ClaimsDoNotOverlap`) and no
shorter than the job's lifetime (`FullDeadline`), the result is the last holder's
(`ResultIsOfTheHolder`), and the statements implement `PollerQueueSpec` by key
(`ImplementsQueue`). That a claim with an expiry ends (`ExpiringClaimEnds`), as
`jobs.go` and `poller.proto` say, is not so: nothing in the program calls
`ReclaimExpired` (section 5). `ReclaimScheduled` says whether somebody does; the safety
properties are checked where somebody does, which is the harder case for them, and
proved either way.

Bounds: `MaxRows`, `MaxClaims`, `MaxTime` (the clock stops; `CHECK_DEADLOCK
FALSE` because the system may then have nothing left to do). The key of a row
that was not inserted yet is unobserved and is chosen at insertion. The safety
properties are proved for every number of rows, pollers, claims and instants
(section 4).

Fairness, in `pq_reclaim` only: `WF(Tick)`, and a `ClaimJob` call the core has begun
goes on to its end. Nobody is obliged to claim, report, cancel, delete or reclaim,
because nothing in the program obliges anybody.

### SchedulerLease

One row of `scheduler_leases` and any number of replicas, each in the loop of
`Runner.Start`: wait for a tick, read the clock, `Acquire` (one UPSERT that may
wait for the database up to `MaxDelay` seconds after the clock was read), fire
the jobs that are due, wait for all of them. The ticker's channel holds one
tick, whose own time decides what is due. A replica may crash at any step, and
restarts under a new holder id (`Gone` stands for the old one); a statement may
fail.

Times are kept relative to the present and cut where no comparison can tell them
apart any more, so that behaviours are unbounded and states finite, and
liveness is checked on real cycles and not on behaviours that end with the clock.

Runs:
* `sl_replicas`: two replicas, two jobs of intervals 1 and 2, lease of 2 seconds,
  delay up to 1, two faults. Two jobs let one hold up the loop while the other
  falls due; two faults let the leader die, the other take over, and die as
  well. `OverlapOnlyByOverrun`: at most one replica is within the lease it
  acquired. `JobsKeepFiring`: as long as there is a replica that stays up and whose
  jobs return (`Healthy`), every job is fired again and again, whatever the other
  replica is caught in. That jobs run only on the leader, and not more often
  than their interval, does not hold: section 5.

Fairness: `Tick`, and each step of a live replica's loop. None for the return of a
job: `wg.Wait` (scheduler.go:110) has no timeout, and a backup over a device that
says nothing may never return (section 5), so that a job returns is a premise of the
property and about one replica only. None for `Restart` either: a crashed replica may
stay down. `MissLease` under weak fairness also covers the losing replica's loop
going on.

### BackupPipeline, ConfigHistory

`ConfigHistory` is what the configuration store promises: a sequence to which trees
are appended. Each holds the files of one fetch; a file that fetch did not have is as
it was in the tree before, or was left by a backup that came to nothing. No tree
repeats the one before it, and none is ever rewritten.

`BackupPipeline` is `BackupNow` for one device: `BeginRun` (gate and run row),
`FetchConfig`/`FetchFails`, `LockRepository`, then for each artifact fetched `OpenFile`,
`WriteFile` and `StageArtifact` (`os.WriteFile` empties the file before it writes it,
and `git add` follows), `CommitTree`/`NoChange`/`CommitFails`, then with the mutex
released `ReadClock`, one `InsertVersion` per artifact under the request's context, and
per artifact the hooks under a context of their own: `FindPredecessor` and
`InsertEvent` (`changes.Record`), `DeleteDocument` and `InsertDocument`
(`search.Index`), and `Finalize`. After `RequestFails` each INSERT of a row may fail,
and after `HooksFail` each statement of the hooks: the context is over (the hooks' lasts
30 seconds) or the database refuses one now and then. Every such error is logged at
most. `Crash` kills the process; files and rows stay as they are and further backups may
follow. `commits` is the git history, `worktree` the files on disk, `staged` git's index.

What a driver brings home is a prefix of its artifacts: `cisco_ios`, `cisco_nxos` and
`junos_netconf` go on without the second one when its command fails, and the others
have one. So the two files of a device may be of different ages. `Commit` asks whether
the whole repository is clean and then commits the whole index, in which a call that
failed or died may have left a file: what a commit holds beside the call's own fetch
is the subject of `RunTellsTheTruth`, `VersionsAccounted` and `ImplementsHistory`. (If
files differ and nothing is staged, as after a death inside `os.WriteFile`, go-git
refuses to commit and the run fails until that file is fetched again.)

A query `ORDER BY created_at DESC LIMIT 1` is modelled by what SQLite does: it
walks the index `idx_config_versions_device(device_id, created_at DESC)`, so
among rows of one second the one inserted first comes out (`IsNewest`).

Run:
* `bp_pipeline`: two backups, each of one or two artifacts, with two contents, a clock
  of two instants and one fault. Two files are what a mixture needs; two instants
  let stamps be equal, ordered or reversed; the fault is a crash, which cuts both calls
  short, or makes any of the later statements of one call fail. Errors in `Commit` and
  in a fetch are not counted: they may happen in every call. Two faults (12.6 million
  states) hold too, but take longer than a run should. The gate has room for
  both, so it restrains neither. Backups and contents are symmetric: no
  definition tells one from another, and no liveness is checked.

The properties: `RunTellsTheTruth` (a run row against git and what was fetched: a commit
holds all that its run fetched, and the rest is inherited from the commit before or left
by a call that came to nothing), `VersionsAccounted` (rows against commits: what a call
fetched and committed has its rows, and text that no row leads to is of a call that had
failing statements, died or failed), `ChangesAreReal` and `NewContentIsReported` (events
are neither invented nor missed although the predecessor is looked up among rows others
are inserting), `DocumentsStay` (the index loses no artifact between its two
statements), `ImplementsHistory`.

Bounds: `MaxTime`, `MaxFaults`; each element of `Backups` is one call.

### Compliance

One device, its findings, and every rule: `rules` is `compliance_rules` by id, with
a name, a scope (a group, or all) and the set of texts that satisfy it, which is
all a rule's language amounts to. Each element of `Evaluations` is a call of
`EvaluateDevice`: `Begin` reads the device's group, `ListRules` the rules that
apply (and keeps them, as the code keeps the rows), then for each rule in the
order of names `ReadFinding`, `Upsert` (or `UpsertFails`, when the foreign keys
refuse the row) and, if the status read differs, `Notify`; at last `Cleanup`
deletes the findings of rules that do not apply to the group read at the
beginning. `Expire` is the hooks' deadline, `Crash` the end of the process. In
between fall `CreateRule`, `UpdateRule`, `DeleteRule`, `SetGroupPacks` (which
replaces a group's rules by new rows with new ids), `MoveDevice` and
`DeleteDevice`.

Run:
* `cl_findings`: three evaluations, two rules ever created, two names, one group and
  none, two texts, two edits and one fault. Three evaluations let two overlap and
  a third repair or trust what they left; two edits let a rule be created and
  then changed, replaced or deleted under an evaluation; the criteria are the two
  sets of one text, so that each text passes one rule and fails the other. Names
  order the tasks, so only evaluations and texts are symmetric.

The properties: `FindingsSettle` (at rest and undisturbed, findings exist for exactly
the rules that apply, and each is a verdict on one of the texts just evaluated),
`NoticesTellTheState` (evaluations that do not overlap report exactly the changes
of each finding, in order). `FindingsRefer` (no finding is stored for a rule or a
device that is gone) is proved. The two premises are history variables because the
code gives no more: `serial` turns FALSE when evaluations overlap or the process
dies, `disturbed` when something is edited or cut short, until an evaluation
begins in quiet.

Bounds: `MaxRules`, `MaxEdits`, `MaxFaults`. Safety only, so no fairness.

### PushRun

`Run` of a push job. `stage` is the calling goroutine: `ListTargets` reads the devices
of the group (once), `InsertRun` opens the row (without it nothing is pushed),
`Spawn` takes a slot of the semaphore and starts the next device's goroutine,
`WaitAll` is `wg.Wait()`, then one INSERT per result (`StoreResult`, or `LoseResult`
when it fails, which the code ignores) and `Conclude`. `worker` is where the
goroutine of each device is: `Render`, `PreFlightPasses` or `PreFlightFails`,
`ExecutorSucceeds` or `ExecutorFails`, in safe mode `DeviceAnswers` or
`PollFails`, `Audit`, and `Report`, which appends the result and releases the
slot. All of this happens under the context of the request, which `ClientLeaves`
may end at any step: later statements fail, while an executor inside a session may
still get through. `MoveDevice` changes the group meanwhile; `Crash` kills the
process.

Run:
* `cr_pushes`, as far as it is about pushes (`MCChangeRequest` extends both modules):
  one run, three devices, two slots, one move, one fault. Three devices in two slots
  make the loop wait for a slot while goroutines are at every pair of steps, and the
  fault falls on any one of them. One run is enough because runs have no state in common
  but the group, which each reads once; nothing a run does is visible to another.

The properties of the run: `ResultsAreWhole` (a concluded run has a truthful row for each
device it listed, except those whose INSERT failed by itself: that a client who
leaves cannot cause a gap rests on the order of the statements),
`SuccessMeansPushed`, `EveryRunEnds`. Proved besides: no goroutine works on after
the conclusion (`ConcludedMeansQuiet`), failures of devices leave an audit row
(`FailuresAreAudited`), and no more goroutines than slots (`BoundedWorkers`).

Bounds: `MaxMoves`, `MaxFaults`. A run that has ended may rest (`PushOver`).

Fairness: `WF` of each goroutine and of the calling one once it has begun, except for
the executor: neither a command run through exec nor the handshake before it minds the
context (section 5), so a push need not come back. `EveryRunEnds` has it as a premise
that the pushes of the run do (`PushesReturn`); then no goroutine keeps its slot,
whatever fails. The check before a push and the wait of safe mode have deadlines of
their own, and SQLite calls return. Whether they succeed is not assumed.

### Access

What a request acts as. Each element of `Requests` is a request in flight: `Login`,
`CheckFactor` (`MFAEnabled`, whose error the code ignores), `CreateMFAChallenge` or
`CreateSession`; `Verify`, `ReadChallenge`, `CheckCode` (the secret is read again, and
the code compared with the periods around now), `ConsumeChallenge`, `CreateSession`; and
any other request: `Arrive`, then by bearer token `ReadToken`, `ReadOwner`, or by cookie
`LookupSession`, then one of the handlers. Each is a statement that may fail, because
the request's context has ended or by itself (a locked or full database); the parameter
`ok` says whether it did not, and `InsertFails` and the handler's `Answer` are what
becomes of an INSERT and of a handler. `NewService` starts the process with the same
signing key or with a new one. The unit of time is a period of the one-time codes.
`watch` records, for each request in flight, what was the case at some moment of its
life; the properties speak of that.

Run:
* `in_requests`, as far as it is about `Access`: an administrator and an operator, two
  requests at a time, one session, one challenge and one token beside the one the
  database may start with, two secrets, two keys, lifetimes that end with the period and
  one tick of the clock. Two requests put an enrolment, a logout or a revocation between
  any two statements of the other; two secrets let one be replaced during a login; two
  keys let a cookie be of an earlier start. A lifetime of 0 ends at the next tick, so
  the one tick is an expiry and may fall anywhere. Requests are symmetric.

The properties: `SessionsAreEarned` (every session ever made belongs to a request
during which the user had no secret, or the challenge lived and the code was that of
the stored secret; the one exception is a login whose `MFAEnabled` failed, which the code
takes for "no second factor", section 5), `EndedStaysEnded` (no request is admitted by
a cookie or token that had ended before the request began; a logout whose DELETE failed
is answered like any other and has ended nothing), `DirectPushesAreAdmins` (the scope
`apply:direct` gives nobody a push that an administrator did not allow).

Bounds: `MaxSessions`, `MaxChallenges`, `MaxTokens`, `MaxSecrets`, `MaxKeys`, `MaxTime`.
Taken as given: roles do not change (nothing in the program updates them), and a
user's clock is off by one period at most. The initial database may be that of an earlier run.
Safety only.

### Startup, Inventory

`Startup` is `runServe` of each replica: `Start` (with a configuration that `Load`
accepts or not, and a bootstrap password or none), `ListApplied`, `RunStatement`
and `RecordVersion` of `Migrate`, which runs outside a transaction, then
`EnsureBootstrapAdmin` in `CountUsers`, `InsertTenant`, `InsertUser`,
`ShowPassword`; `Stop` and `Die` at any step. A migration is the list of the kinds
of its statements: `CREATE ... IF NOT EXISTS` may be repeated, `ALTER TABLE ... ADD
COLUMN` may not.

`Inventory` extends it by what the replicas serve: tenants and quotas, devices and
credentials of several tenants, each handler one statement on a table
(`CreateDevice`, ...), for an update the row read back, and then `RecordAudit`,
before any of which the client may be gone or the process dead.

Runs:
* `in_requests`, the rest of it (`MCInstallation` extends `Access` and `Inventory`). As
  an installation: two replicas, three starts, one request at a time, two tenants, one
  device and one credential, one migration of one repeatable statement and one of an
  `ALTER TABLE` and another. Three starts let a replica die half-way, start again, and
  race the other. As to the audit log: one replica that serves until it ends, two
  requests, two host names, and up to two devices or two credentials, three of both
  together. Between a change and its audit entry the other request may delete the row,
  and make another one, whose entry comes first. Replicas and requests are symmetric.
* `iv_starts` (violated): section 5.

The properties: `RecordedMeansComplete` (no replica serves on half a schema, however
starts interleave), `OneAdministrator`, and `AuditNamesOneThing` (an entry is written
after the change and perhaps after later ones; what a "delete" names is gone and
no row made later takes its id).

The tables whose rows come and go are functions from ids (`Table`, also used by
`Access`).

Bounds: `MaxStarts`, `MaxDevices`, `MaxCredentials`. Safety only: replicas may fail
to start for good (section 5).

### PollerSessions

The gRPC listener: pollers are registered and deleted over HTTP
(`handleRegisterPoller`, `handleDeletePoller`), an agent `Send`s an Authenticate
message with a stamp of its clock, and the network delivers it at any later time, any
number of times. `Authenticate` compares the stamp with the clock, `tryUseNonce` sweeps
and uses the replay cache under the lock with the time read before, `SelectPoller`
compares the token, `TouchPoller` reads the clock for the lease, `recordSession`
writes the map. `ClaimJob`, `ReportResult`, `Health` and `StreamJobs` go through
`requireSession`, which first purges the map, and then to the statements of the
queue (`SelectJob`, `ClaimUpdate`, `CompleteClaimedBy`; `PollerQueue` has them in
full). `StopRequested`, `GracefulStop`, `ForceStop`, `Kill` and `NewGRPCServer` are the
process; with it go the session map and the replay cache.

Run:
* `pg_sessions`: two calls at once, two tenants with one poller's name, two pollers
  ever registered, one message, one job, a lease of one, a window of two, sweeps at
  every chance, one tick at most between clock and lock, two starts and three
  ticks. Two registrations under one name let the second meet the session, the
  message and the job of the first; one message, delivered often, is what a replay
  is, and the sweep that could forget it is any other delivery; three ticks are
  longer than the window, so its nonce does expire.

The properties: `MessagesPassOnce`; `WorkIsOfRegisteredPollers` (a job is claimed or
ended by a call with the token of a poller registered at that moment with the job's
tenant, although sessions outlive rows and rows go between statements);
`SessionsAreLeases` (a call is let through only within a lease of the poller's last
proof); `StopsInTheEnd`.

Bounds: `MaxPollers`, `MaxMessages`, `MaxStarts`, `MaxTime`, and `Skew`, how far a
poller's clock is off (0 in the run: a message stamped in the future may be let
past twice, so `MessagesPassOnce` asks that it was stamped before it came).
`Lag` is an assumption: a call takes the lock at most so long after it read the
clock. Without one, a call that slept past the window would find its nonce swept.

Fairness: `WF(GracefulStop)` and `WF(ForceStop)`. `Shutdown` waits for the calls or
for its timer and then returns either way. Nothing is assumed of callers: a stream
lasts as long as its client likes.

### HostKeys, DeviceSession, Terminal, DeviceLink

`HostKeys` is the callback of every SSH dial: `Check` reads the pin, `Add` inserts it
unless there is one, `CompareStored` reads it again after a conflict; `Unpin` is the
operator who deletes a row, `Handshake` the key a server happens to present.

`DeviceSession` is a backup's session. A driver is a script, a sequence of commands
by what becomes of a failure (`registry` has all of them), over the transport
`sessionFactoryForDriver` gives it. A command is `Write` and the read loop, `LoopTop`
(the deadline looked at between reads), `Receive`, `ReachEOF`, `GiveUp`; a read that
was given up goes on in its goroutine (`StrayRead`) and takes what comes next from
the stream. `Succeed` and `Fail` are what the script does next. The device may
answer, be silent, or `HangUp`; the context may `Expire` or be cancelled. Answers
are numbered by the request they belong to, so that an artifact can be asked whose
output it holds.

`Terminal` is `Service.Handler` and the goroutine that copies the device's output:
both write frames, header and payload, to one connection under a mutex and append
to one transcript, which `Save` stores without the lock the copier holds.

`DeviceLink` composes them: links that run a script and links that are terminals,
each through the same host-key check.

Runs:
* `dl_links`: one backup and one terminal of one host, two keys, one algorithm, one
  unpinning, and seven drivers, of which every other has the transport and the shape of
  script of one. Both links dial at the same time; past the dial they run one at a time
  (`MaxSessions`), because they share nothing there. Two dials are what a race for the
  first pin needs, and a third, after the unpinning, is one of them again: links are
  reused. While the backup is under way the terminal has one chunk of output and one of
  input (`TerminalShort`); where it is idle (`BackupIdle`), three chunks of output, two of
  input and two pings, so that chunks have been shown, one is being shown and another
  recorded when the transcript is read, and both goroutines have frames to write.
* `dl_timeout` (violated): section 5.

The properties: `TrustedKeysArePinned` (however dials and deletions interleave, the
keys accepted are the one that is pinned), `ArtifactsAreTheirs` (an artifact holds
the answer to its own command, all of it if the device kept the line, although
commands that may fail leave their answers in the stream), `FramesAreWhole`,
`SavedCoversTheSession` (what was typed and shown before the save is in it, in
order), `SessionsEnd` (a backup's session, once open, ends, over every transport but
an exec channel).

Bounds: `MaxSessions`, `MaxUnpins`, `MaxOutput`, `MaxInput`, `MaxPings`, `DriverNames`.
Taken as given: the body of an answer contains nothing that looks like the prompt,
and answers are not empty; a Telnet login has a timer of its own, for which the
context's deadline stands. When a wait finds both an answer and the end of the
context, Go picks either, so a cancelled backup is excepted from
`ArtifactsAreTheirs`. No deadlock: links are used for ever.

Fairness: the statements of the host-key check go on, and in an open session the
goroutine of a backup does and its deadline passes (`backup.timeout`). No device is
obliged to answer, neither to a command nor in the SSH handshake, in the login or
when a channel is opened, which nothing in the code bounds; that is why `SessionsEnd`
speaks of open sessions that are not exec ones, and `BackupsTimeOut`, which speaks of
all, is violated (section 5). No fairness for terminals: they last as long as the
browser stays.

The type invariants (`TypeOK`, in `Access` `AccessTypeOK`, in `PollerSessions`
`ListenerTypeOK`, in `PushRun`
`PushTypeOK`) are not listed in the runs: they are theorems.

## 4. Proofs

The theorems hold for every value of the constants that satisfies the named
assumptions of the module: names that are disjoint, naturals for the bounds and
lifetimes, a lease delay no longer than the lease, finitely many administrators,
links and devices, a link that is a script or a terminal and not both, at least one
job and one start of the listener, a tenant for each job. One theorem,
`MessagesAreNotReplayed`, has a hypothesis of its own (below). An assumption that
the code does not make by itself is named in section 3.

`XProofs` extends the module it is about; `AuthorityProofs` is about `Access` and
`SchedulerLease`, and `ConnectionProofs` about `DeviceLink` and `PollerSessions`, which
is why `Access` and `PollerSessions` name their specifications `AccessSpec` and
`ListenerSpec`. (`PushSpec` is named so because `MCChangeRequest` extends `PushRun`.)
Few of the properties are inductive by themselves; each module has an inductive
invariant `IInv` (`AccessInv`, `LeaseInv`, `ListenerInv`), a theorem `Spec => []IInv`,
and the properties follow from it or from a second invariant that is inductive once the
first is known (`TimelineInv`, `HistoryInv`, `SettleInv`, `ReplayInv`).

*ChangeRequestProofs.* `ExecutorOnlyAfterApproval` cannot be inductive because a
handler decides on what it read earlier. `IInv` adds, for a row, that an approved,
applied or failed row carries an administrator as reviewer (`RowInv`), and for a
handler between two statements, what its locals still say about the row
(`HandlerInv`): one about to execute has seen an approval that can no longer
disappear; one about to store a result has itself made the transition to applied
or failed. The step that carries the argument is `OthersKeep`: whatever a
handler does to a row, an approval stays visible, executions are only added and
an outcome is final, so the other handlers' facts survive. Theorems:
`TypeCorrect`, `InductiveInvariant`, `ExecutionNeedsApproval`,
`StoredResultIsTheWinners`, and `HandlersImplementWorkflow`, where each
statement maps to an action of `ChangeRequestSpec` or to a stutter.

About the timeline, `TimelineInv`: the moves of a row are a walk that ends at its
status (`WalkInv`); no move led to a higher rank than the status has now, and the state
machine only ever raises the rank (`RankInv`), so a move is never made twice; the events are
moves, each once, and without an abandoned handler they lack only the moves whose
INSERT is pending (`RowsInv`); and the move a handler is about to record is made,
not on record, and no other handler's (`PendingInv`). The lemma on sequences it rests on is
`AppendElements`. Theorems: `TimelineInvariant`, `RowsWalkTheStateMachine`,
`EventsAccountForMoves`.

*PollerQueueProofs.* `IInv` ties a row to its history: the owner and the expiry
in the row are those of the last claim, and a queued row has no claim that is
still running (`HistoryInv`); expiries are far enough from creation and claim
(`DeadlineInv`); a claim in progress carries an expiry that was right when it
was computed and still is, though the row may have changed (`UpdateInv`); what a
poller was told is a claim that was made (`GetInv`, `HeldInv`). Theorems:
`TypeCorrect`, `InductiveInvariant`, `ClaimsAreDisjoint`,
`OnlyTheHolderEndsAJob`, `ClaimsAreLongEnough`, and the action property
`EndedJobsStay`.

`TableImplementsQueue` is the refinement of `PollerQueueSpec`, step by step
(`...Simulates`). The abstract state is told by key and the table by row, so the
mapping is a function of the state only because a key has at most one row that is not
deleted (`OneRowPerKey`, the UNIQUE constraint and what it implies of later rows);
`KeyWithRow` turns a step on a row into one on its key, and `KeysStay` says which
steps leave the rows of the keys as they are.

*AuthorityProofs.* A request of `Access` carries what it read from one statement to the
next, and rows and secrets change in between. `AccessInv` says, per statement, what of
it is still the case: who the request is and that an administrator issued its token
(`KnowsWho`); what was the case at some moment of the request, that the user had no
secret or that the challenge lived and the code was right, unless its question for the
second factor failed (`HasProved`); and that a
cookie or token that had ended when the request began is still over at the statement
that looks (`StillOver`). It survives the other requests because of what only grows
(`Grows`): a token keeps its owner, what is over stays over, ids and keys are not used
again. `TablesInv` has the two facts about rows: tokens are issued by administrators, and
a session whose logout was answered is deleted or its cookie of an earlier key.
Theorems: `AccessInvariant`, `AccessTypeCorrect`, `LoginsEarnTheirSessions`,
`NothingOverIsReliedOn`, `OnlyAdminsPushDirectly`.

`OverlapOnlyByOverrun` of `SchedulerLease` speaks of the replicas' own reckoning only.
`RowIsOfTheLeader` ties it to the shared row: a replica within its lease is the row's
holder, and the row expires when the lease does. Two leaders would both be the holder.
Theorems: `LeaseInvariant`, `LeaseTypeCorrect`, `OneLeaderWithinTheLease`.

*BackupPipelineProofs.* Neither the truth of a run row nor the refinement is
inductive, since both rest on what a call has in its hands between two steps. `IInv`
says that of each call (`CallInv`): while it writes it holds the mutex, and what it
fetched is staged up to the artifact it is at; a SHA in its hands is a commit with
what it fetched, and the other files of that commit are inherited from the one before
or left over (`ShaInv`); the row says no more (`RunInv`). Of the repository it says
(`RepositoryInv`) that no two calls have the same commit (`OwnCommits`), that the index
differs from HEAD only by what the call with the mutex has staged, or one that failed or
died (`StagedInv`), and that every text of the history was fetched by a call which
committed it or came to nothing (`TextInv`). This is where drivers that bring home a part
matter: what is in the index and of nobody's fetch must be known to come from somewhere.
`Keeps` is what every step leaves as it is (commits, and what a call that has ended did),
`Exclusive` the mutual exclusion the mutex gives, and `OthersKeep` that a step of
another call leaves a call's facts true. Theorems: `TypeCorrect`, `InductiveInvariant`,
`RunsAreTruthful`, `BackupsKeepTheHistory`.

What is told of the commits afterwards is `HistoryInv`: a row or an event names a
commit, once, and an event a real difference (`TablesInv`); the rows and events of a
call's commit are those of the artifacts it fetched and is through with, none missing
unless a statement of it failed or it was cut short (`RowsOf`, `EventsOf`), and its text
is in the search index or in the hands of a call (together `Trail`); and what a call
took for the predecessor is another commit than its own (`HookInv`). A step of one call
adds to the tables only what names its own commit (`TablesGrow`), and `OwnCommits` keeps
it out of the others' trails. Theorems: `HistoryInvariant`, `EveryVersionIsOnRecord`,
`EventsAreReal`, `NewTextIsReported`, `IndexedTextStays`.

*ComplianceProofs.* `FindingsRefer` is inductive; `NoticesTellTheState` rests on what
an evaluation read two statements ago. `IInv` says that ids are given out once, so
what is in an evaluation's hands has an old id and cannot be a later rule
(`IdsInv`); that without overlap the status read is still the one stored, or the
row can no longer be stored (`PrevInv`); and that each change is reported or is
the one the evaluation is about to report (`OwedInv`, `ReportedInv`). Theorems:
`TypeCorrect`, `InductiveInvariant`, `FindingsAlwaysRefer`, `NoticesAreComplete`.

`FindingsSettle` is about evaluations that overlap, and `SettleInv` holds while nothing
has disturbed them: each has read the group, the rules and a text that are still
current, and for every rule in scope either the finding is a verdict on a text
evaluated since the last rest or the rule is still on the list of this evaluation
(`EvaluationInv`). So the first `Cleanup` finds all of them fresh, and a rest is
`Settled`. Theorem: `FindingsComeToRest`.

*PushRunProofs.* `IInv` follows a device through its goroutine: what it has
decided is the truth about the device (`Truthful`), an alarming result has its audit
row while nothing has failed by itself and the client is there (`Noted`), what was
reported is kept in the row or lost (`ResultInv`), and a run that stores results
has one for every target (`RunInv`). `WorkKeeps` is the argument that goroutines
do not meet: a step of one leaves the facts about the others alone, and its run
cannot be storing yet because its own device has not been reported. Theorems:
`TypeCorrect`, `InductiveInvariant`, `ResultsAreComplete`, `SuccessIsEarned`,
`ConcludedRunsAreQuiet`, `AuditIsComplete`, and, from `TypeOK` and facts about
cardinalities, `ConcurrencyIsBounded`.

*InventoryProofs.* About starts, `StartupInv`: what a replica found applied is recorded
and so is every version before the one it is at, whose statements it has run up to
the next (`Progress`); past the migrations everything is recorded
(`PastMigrations`); at most one replica is between the two INSERTs of the
bootstrap, and then there is no user yet (`Bootstrap`). What another replica does
only adds to the schema, so the rest keep their progress (`OthersProgressKeeps`).
That there is a next version to apply at all is `NextVersion`, from the library's
theorem that the naturals are well-founded, with a set in the place of the
predicate an induction would need. About requests, `RowsInv`: what a handler is about
to log as deleted, and what the log says was, are ids given out and not in the table
(`Gone`), and `GoneStaysGone` because ids are never given out again. Theorems:
`TypeCorrect`, `InductiveInvariant`, `RecordedMigrationsAreComplete`,
`BootstrapMakesOneAdministrator`, `AuditedDeletionsHold`.

*ConnectionProofs.* The invariant of `DeviceLink` has a part for each module it
composes, and a step of one leaves the parts of the others alone but for the stage of a
link that dials (`Elsewhere`, `OtherwiseKeepsSessions`, `OtherwiseKeepsTerminals`).
`KeysInv`: a link in the middle of the host-key check has been shown a real key, which
is all `TrustedKeysArePinned` needs besides itself. `SessionInv`: a session is in step
with the device (`InStep`: what it has read when it writes its next command is exactly
the answers to the earlier ones, two parts each) unless the backup is cancelled or it is
`Behind`, past its deadline on a shell or Telnet, where commands that may fail give up
and leave their answers to come; the read loop looks at the deadline first, so it stores
nothing more. `Bridge`: no two pieces on the wire follow one another that may not
(`MayFollow`), and the last is a header only while the writer that sent it has the
mutex. Theorems: `InductiveInvariant`, `TypeCorrect`, `AcceptedKeysArePinned`,
`CollectedAnswersAreTheirs`, `BrowsersSeeWholeFrames`.

`ListenerInv` of `PollerSessions` says what a call knows at its next step (`CallInv`:
the time it read is at most `Lag` old, the token it brought is its poller's), that a
session ends within a lease of the last proof (`LeasesInv`), and that a job's holder is
registered with the job's tenant (`HoldersInv`, which the deletion of a poller would
break without ON DELETE SET NULL). It survives the other calls because messages,
registrations and proofs are only added (`OnlyGrows`). The action properties need
besides which actions can make the change they speak of (`StatusChanges`, `LetThrough`).
`ReplayInv`: a message that passed has a nonce that outlives its window, or the window
is past by so much that no call can still be held up with it. Theorems:
`ListenerInvariant`, `ListenerTypeCorrect`, `WorkersAreRegistered`,
`LeasesRunFromProofs`, `MessagesAreNotReplayed`.

`MessagesAreNotReplayed` assumes `Lag <= 1`: from reading the clock to taking the lock
a call takes no longer than one unit of time. With more, a call that read the clock
while the message was within the window may be overtaken by one that read it
after, and sweeps the nonce, and then it finds the message unknown. A nonce ends after
its message's window and is swept only after it ended, which leaves one unit.

Model-checked only:

* liveness (`FinishedRunIsRecorded`, `JobsKeepFiring`, `EveryRunEnds`,
  `StopsInTheEnd`, `SessionsEnd`), which needs fairness and ENABLED;
* `SavedCoversTheSession`, which compares what was shown with what was saved by
  `SelectSeq`: what a recursion over sequences gives is an induction over data.

## 5. Disagreements between the code and what is said of it

With a run (the traces are those TLC prints):

* `pq_enqueue`. `Enqueue` tells a conflict by `LastInsertId` being 0, but SQLite
  keeps the id of the connection's last insert: after any other insert it
  returns that id's job, or an error. `jobs.go:59` says the existing job is
  returned.
* `iv_starts`. A process killed between the two INSERTs of the bootstrap leaves the
  tenant "default" and no user; every later start counts no users, fails to insert
  the tenant again and ends in an error. `auth.go:95`: "creates the default tenant
  and an admin user if no users exist yet". A kill after an `ALTER TABLE` of a
  migration and before its version is recorded has the same effect.

* `pq_reclaim`. Nothing in the program calls `ReclaimExpired`, so a job whose poller
  vanished stays claimed, and its key taken, for ever. `poller.proto:27`: "reclaimed by
  the scheduler"; `jobs.go:241` speaks of the scheduler as well.
* `dl_timeout`. The transport of exec channels and the SSH handshake do not look at the
  context, so a device that goes silent there holds its backup, and the scheduler's loop
  or the push that waits for it, for ever. `docs/configuration.md:146` calls `timeout`
  the per-device timeout, "also passed to the SSH dial".

Without a run, seen while modelling:

* `Commit` asks whether the repository is clean and commits its index, so
  a file that a failed or killed call had staged is committed by a later backup
  which fetched only another, unchanged artifact. `configstore/store.go:93-95`: "If no
  artifact contents differ from the working tree, no commit is made". That file then has
  no row in `config_versions` and no change event: it is reported only when it is
  fetched again with another text.
* `server.go:447` ignores the error of `MFAEnabled`: a login whose SELECT failed, while
  the next INSERT succeeds, gets a session without the second factor the user has.
  `server.go:549` ignores that of `DestroySession`: the answer to a logout is 204 and
  the session may live on. Both are in the model, and excepted by name in
  `SessionsAreEarned` and `EndedStaysEnded`.
* When files of the working tree differ from HEAD and none of them is staged (a process
  died within `os.WriteFile`), a backup that fetches only the other artifact,
  unchanged, fails: the tree is not clean, and go-git refuses an empty commit.

* Cancel of an approved request succeeds while its executor runs, and the request
  ends up cancelled and executed; `changereq.go:254` says it is abandoned "without
  invoking the executor".
* The row `Claim` answers with is read by id alone; if the claim was reclaimed and
  taken over in between, two pollers are told of the same claim.
  `poller.proto:26`: "at-most-one poller wins any given job".
* The scheduler's lease is renewed at ticks, and the loop waits for its jobs: one that
  outlasts the lease runs while another replica leads. `docs/deployment.md:115-116`:
  "only the leader runs scheduled jobs". The tick that waited in the channel behind
  a slow job is served late and the next in time, so another job may be started
  twice within its interval; `scheduler.go:69`: "jobs are invoked at their interval".
* Nothing calls `CheckDeviceQuota`; `docs/threat-model.md:123`, `ARCHITECTURE.md:51`
  and `README.md:56` say that quotas are enforced when a device is created.
* `auth.go:269-271` says a new second factor is "not yet active" before
  `ConfirmMFA`; the column that is set is the one `MFAEnabled` asks, so it is active
  at once, and `ConfirmMFA` changes nothing.
* `docs/user-guide.md:90-91` and `:261` say a new
  `NETMANTLE_BOOTSTRAP_ADMIN_PASSWORD` is reconciled on boot; it is read only when
  there are no users.
* A shell session that ends (`io.EOF`) in the middle of an answer counts as the answer,
  and `ParseRPCReply` takes a truncated reply, so a backup may store the beginning
  of a configuration as the whole; `ssh.go:42-44` says output is consumed "until the
  device prompt is seen again". `ArtifactsAreTheirs` excepts devices that hung up.
* `terminal.go:3-5` promises "the full transcript". Output that arrives while or
  after it is saved is not in it, it is read without the lock, and a process that
  stops leaves the row without a transcript.
* The Telnet reader strips options from each chunk by itself; an option split across two
  reads stays in the output.
* A message stamped in the future may be let past the replay check a second time,
  since its nonce expires a window after it came.
* `LatestVersion` orders by `created_at`, which is cut to the second and read after
  the mutex was released: of two commits in a second it returns the older, and
  stamps may be in the reverse order of the commits.
* Safe mode sends nothing to a device that stopped answering. `automation.go:37-39`
  says "the pre-change config is re-applied" and `0007_features2.sql:6-7` speaks of
  auto-rollback; the code sets the result to `rolled_back` and writes an audit row,
  also when it was the client who left during the poll. Such a run counts as
  `success`. No handler sets `SafeMode`, so this is reachable only for jobs
  stored by other means.
* A push run whose client left before the last statement, or whose process died,
  stays `running`. Nothing in the program reads `push_runs` or `push_results`.
* The compliance hook evaluates the artifacts of a backup one after the other into
  one finding per rule (`main.go:358`), so the last artifact decides, and two
  artifacts may make the finding change, and be reported, at every backup. Two
  evaluations that overlap may report one change twice or not at all.
* The timeline of a change request can lack or misorder transitions
  (`changereq.go:383` is a statement after the UPDATE;
  `0004_features.sql:52-54` calls it the timeline). `TimelineAccounted` states
  what does hold.
* A push that failed on some devices is recorded as applied
  (`handlers_features.go:405`): the outcome `partial` of the model.
* `handlers_features.go:558` pushes directly, without a change request;
  `changereq.go:5-9` says every change goes through one. This path keeps no
  state of the workflow and is not in the model.
* The lifetime of a job grows by its waiting time at each reclaim
  (`jobs.go:175` against `jobs.go:243`). `FullDeadline` states the lower bound,
  which holds.
* Two backups can leave two rows of one artifact in the search index (DELETE,
  DELETE, INSERT, INSERT); `search.go:19-22` says exactly one.
* A process that dies leaves its backup run in status `running` for ever.

## 6. What is not modelled

Listed with reasons under "components" in `PROJECT.json`. In short: notifications,
discovery, probes and topology are loops over I/O whose results nobody coordinates
on; the GitOps mirror is next (section 7); logging, metrics and the web UI keep no
state a property could be about; the REST handlers not named above decode, call one
service method and format its answer; `poller.pb.go` is generated.

Within the modelled parts: `BackupAll` is a loop of backups, so a behaviour of
`BackupPipeline` restricted to one device; the failure of the UPDATE that concludes a
run (logged and forgotten) is not distinguished from a crash before it; of the
configuration a start is given, only whether `Load` accepts it and whether there is a
bootstrap password. `PushRun` and `ChangeRequest` are not composed: for a change request
a push is the one step `FinishExecutor`, whose outcomes are those `Run` can return.
`Compliance` is not composed with `BackupPipeline`: an evaluation may begin at any time
with any text, which includes every order in which hooks can call it. `PollerSessions`
has the statements of the queue but not its expiries, which `PollerQueue` has.
`DeviceSession` stops where an artifact is handed over, which is where `BackupPipeline`
begins with `FetchConfig`; its outcomes, the artifacts of a driver or the first of them,
are the ones that action has. The frames with which a terminal reports that it could not
connect, the parsing of prompts, echoes and Telnet options, XML and JSON are left out.
Jobs of a run without a group take all devices of the tenant, which is the same as a
group nobody leaves.

## 7. Plan

What is left, in order of importance:

1. *Proofs*: every safety property of the runs but `SavedCoversTheSession` is a theorem.
That one would need the saved transcript told by positions instead of `SelectSeq`.
Beyond the runs: no installation serves before every migration ran, as a refinement of
`Startup` by an atomic one; what `Lag` must be in terms of `Sweep`, so that a slower
sweep allows a longer delay. 2. *Mirror*: `PushDevice` against `Commit` on one
repository, composed with `ConfigHistory`: the mirror is a prefix of the history. 3.
*Algorithms* as recursive functions with a reference definition: the diff with its
ignore rules, `computeNewExpiresAt`, version ordering, `GroupResults`. 4.
*Notifications, discovery, probes*: their loops and what one failing element does to the
others.

A new component can share a run with a related one through an MC module.

## 8. Running it

    tlasany M.tla
    tlc -workers 2 -config X.cfg MCModule.tla
    tlapm ModuleProofs.tla

| run | module and configuration | expected | size |
|---|---|---|---|
| `cr_pushes` | `MCChangeRequest`, `ChangeRequest_pushes.cfg` | passes | 734k states, 65 s |
| `pq_jobs` | `MCPollerQueue`, `PollerQueue_jobs.cfg` | passes | 2.0M states, 90 s |
| `pq_reclaim` | `MCPollerQueue`, `PollerQueue_reclaim.cfg` | violated | seconds |
| `pq_enqueue` | `MCPollerQueue`, `PollerQueue_enqueue.cfg` | violated | seconds |
| `sl_replicas` | `MCSchedulerLease`, `SchedulerLease_replicas.cfg` | passes | 117k states, 12 s |
| `bp_pipeline` | `MCBackupPipeline`, `BackupPipeline_pipeline.cfg` | passes | 2.4M states, 45 s |
| `cl_findings` | `MCCompliance`, `Compliance_findings.cfg` | passes | 2.2M states, 60 s |
| `in_requests` | `MCInstallation`, `Installation_requests.cfg` | passes | 3.0M states, 125 s |
| `iv_starts` | `MCInventory`, `Inventory_starts.cfg` | violated | seconds |
| `pg_sessions` | `MCPollerSessions`, `PollerSessions_listener.cfg` | passes | 1.2M states, 110 s |
| `dl_links` | `MCDeviceLink`, `DeviceLink_links.cfg` | passes | 1.2M states, 65 s |
| `dl_timeout` | `MCDeviceLink`, `DeviceLink_timeout.cfg` | violated | seconds |

The operators whose comment begins "Mutated form" are plausible bugs of the
definition that follows them; nothing uses them. Put in its place, each makes
TLC report the property it is listed with in `PROJECT.json`.
