----------------------------- MODULE BackupPipeline -----------------------------
(***************************************************************************)
(* Backups of one device (internal/backup/service.go): the gate, the run   *)
(* row, the fetch, the commit to the device's git repository under its     *)
(* mutex (internal/configstore), the rows of config_versions, and the      *)
(* hooks that record changes (internal/changes) and index the text         *)
(* (internal/search).  Each database statement is one step, each step of   *)
(* one backup may fall between any two of another.                         *)
(*                                                                         *)
(* A commit is known by its position in the history, contents by what they *)
(* are to the diff engine.  A driver fetches its artifacts in order; the   *)
(* commands behind the later ones are optional, and a backup goes on       *)
(* without what they did not bring (internal/drivers/builtin).             *)
(***************************************************************************)
EXTENDS Naturals, Sequences, FiniteSets

CONSTANTS Backups,       \* calls of BackupNow for the device
          NoBackup,
          NumArtifacts,  \* files the device's driver may fetch
          Contents,      \* what a file may hold
          NoContent,     \* a file that does not exist
          EmptyFile,     \* a file that was emptied to be written
          Workers,       \* capacity of the concurrency gate
          MaxTime,       \* bound: seconds
          MaxFaults      \* bound: calls with failing statements, and crashes

ASSUME BackupsAssumption == NoBackup \notin Backups
ASSUME ArtifactsAssumption == NumArtifacts \in Nat \ {0}
ASSUME ContentsAssumption == NoContent # EmptyFile /\ {NoContent, EmptyFile} \cap Contents = {}
ASSUME BoundsAssumption == Workers \in Nat \ {0} /\ MaxTime \in Nat /\ MaxFaults \in Nat

VARIABLES
    \* the repository, its mutex, the files of its working tree, and git's index
    commits, lock, worktree, staged,
    \* backup_runs, config_versions, change_events, config_search
    runs, versions, changes, search,
    \* each call: its next step, the artifact it is at, and its locals
    pc, at, fetched, sha, stamp, previous, outcome,
    now,
    failing,       \* calls whose statements on the request's context may fail
    hooksFailing,  \* calls whose statements on the hooks' context may fail
    lost,          \* calls that ended with the process
    faults

repository == <<commits, lock, worktree, staged>>
tables == <<runs, versions, changes, search>>
locals == <<at, fetched, sha, stamp, previous, outcome>>
environment == <<now, failing, hooksFailing, lost, faults>>
vars == <<repository, tables, pc, locals, environment>>

Artifacts == 1 .. NumArtifacts
\* What a driver brings home: the first artifact, and later ones as far as it got.
Snapshots == UNION {[1 .. n -> Contents] : n \in Artifacts}
Trees == [Artifacts -> Contents \cup {NoContent}]
NoTree == [a \in Artifacts |-> NoContent]
WorkTrees == [Artifacts -> Contents \cup {NoContent, EmptyFile}]
PCs == {"idle", "fetch", "lock", "open", "write", "add", "commit", "clock", "version",
        "record", "event", "delete", "index", "finalize", "ended"}
RunRows == [status : {"none", "running", "success", "failed"}, sha : Nat]
Versions == [artifact : Artifacts, sha : Nat, created : Nat]
Changes == [artifact : Artifacts, old : Nat, new : Nat]
Documents == [artifact : Artifacts, sha : Nat]

Init ==
    /\ commits = <<>> /\ lock = NoBackup /\ worktree = NoTree /\ staged = NoTree
    /\ runs = [b \in Backups |-> [status |-> "none", sha |-> 0]]
    /\ versions = <<>> /\ changes = <<>> /\ search = {}
    /\ pc = [b \in Backups |-> "idle"]
    /\ at = [b \in Backups |-> 1]
    /\ fetched = [b \in Backups |-> <<>>]
    /\ sha = [b \in Backups |-> 0]
    /\ stamp = [b \in Backups |-> 0]
    /\ previous = [b \in Backups |-> 0]
    /\ outcome = [b \in Backups |-> "none"]
    /\ now = 0
    /\ failing = {} /\ hooksFailing = {} /\ lost = {}
    /\ faults = 0

--------------------------------------------------------------------------------
(***************************************************************************)
(* BackupNow up to the commit.                                             *)
(***************************************************************************)

InFlight(b) == pc[b] \notin {"idle", "ended"}

Goto(b, step) == pc' = [pc EXCEPT ![b] = step]

\* The gate, then the INSERT of the run; what fails in between leaves no trace.
BeginRun(b) ==
    /\ pc[b] = "idle"
    /\ Cardinality({c \in Backups : InFlight(c)}) < Workers
    /\ runs' = [runs EXCEPT ![b].status = "running"]
    /\ Goto(b, "fetch")
    /\ UNCHANGED <<repository, versions, changes, search, locals, environment>>

Conclude(b, result) ==
    /\ Goto(b, "finalize")
    /\ outcome' = [outcome EXCEPT ![b] = result]

\* The answers may win over the end of the context, and some sessions ignore it.
FetchConfig(b) ==
    /\ pc[b] = "fetch"
    /\ \E s \in Snapshots : fetched' = [fetched EXCEPT ![b] = s]
    /\ Goto(b, "lock")
    /\ UNCHANGED <<repository, tables, at, sha, stamp, previous, outcome, environment>>

\* No session, an error, the timeout, or nothing fetched.
FetchFails(b) ==
    /\ pc[b] = "fetch"
    /\ Conclude(b, "failed")
    /\ UNCHANGED <<repository, tables, at, fetched, sha, stamp, previous, environment>>

Writing == {"open", "write", "add", "commit"}

\* Mutated form: the repository is not locked.
LockIsFreeAlways == TRUE

\* One mutex per repository.
LockIsFree == lock = NoBackup

LockRepository(b) ==
    /\ pc[b] = "lock"
    /\ LockIsFree
    /\ lock' = b
    /\ Goto(b, "open")
    /\ UNCHANGED <<commits, worktree, staged, tables, locals, environment>>

\* The artifacts a call fetched.
Brought(b) == 1 .. Len(fetched[b])

\* The loops over the artifacts fetched.
NextArtifact(b, again, after) ==
    IF at[b] < Len(fetched[b])
    THEN Goto(b, again) /\ at' = [at EXCEPT ![b] = @ + 1]
    ELSE Goto(b, after) /\ at' = [at EXCEPT ![b] = 1]

\* os.WriteFile opens the file and empties it, then writes it.
OpenFile(b) ==
    /\ pc[b] = "open"
    /\ worktree' = [worktree EXCEPT ![at[b]] = EmptyFile]
    /\ Goto(b, "write")
    /\ UNCHANGED <<commits, lock, staged, tables, locals, environment>>

WriteFile(b) ==
    /\ pc[b] = "write"
    /\ worktree' = [worktree EXCEPT ![at[b]] = fetched[b][at[b]]]
    /\ Goto(b, "add")
    /\ UNCHANGED <<commits, lock, staged, tables, locals, environment>>

\* git add
StageArtifact(b) ==
    /\ pc[b] = "add"
    /\ staged' = [staged EXCEPT ![at[b]] = worktree[at[b]]]
    /\ NextArtifact(b, "open", "commit")
    /\ UNCHANGED <<commits, lock, worktree, tables, fetched, sha, stamp, previous, outcome,
                   environment>>

HeadTree == IF commits = <<>> THEN NoTree ELSE commits[Len(commits)]

\* Neither the working tree nor the index differs.
IsClean == worktree = staged /\ staged = HeadTree

\* git commits the index, with what earlier calls left in it; a dirty working
\* tree and nothing staged is go-git's ErrEmptyCommit (CommitFails).
CommitTree(b) ==
    /\ pc[b] = "commit"
    /\ ~IsClean
    /\ staged # HeadTree
    /\ commits' = Append(commits, staged)
    /\ sha' = [sha EXCEPT ![b] = Len(commits) + 1]
    /\ lock' = NoBackup
    /\ Goto(b, "clock")
    /\ UNCHANGED <<worktree, staged, tables, at, fetched, stamp, previous, outcome,
                   environment>>

\* ErrNoChange: a success without a commit.
NoChange(b) ==
    /\ pc[b] = "commit"
    /\ IsClean
    /\ lock' = NoBackup
    /\ Conclude(b, "success")
    /\ UNCHANGED <<commits, worktree, staged, tables, at, fetched, sha, stamp, previous, environment>>

\* An error in Commit; files and index stay as they are.
CommitFails(b) ==
    /\ pc[b] \in Writing
    /\ lock' = NoBackup
    /\ Conclude(b, "failed")
    /\ UNCHANGED <<commits, worktree, staged, tables, at, fetched, sha, stamp, previous, environment>>

--------------------------------------------------------------------------------
(***************************************************************************)
(* What follows a commit.                                                  *)
(***************************************************************************)

\* created_at, read once for all rows and after the mutex was released.
ReadClock(b) ==
    /\ pc[b] = "clock"
    /\ stamp' = [stamp EXCEPT ![b] = now]
    /\ Goto(b, "version")
    /\ UNCHANGED <<repository, tables, at, fetched, sha, previous, outcome, environment>>

\* Mutated form: the row names the repository's HEAD instead of the call's commit.
VersionRowOfHead(b) == [artifact |-> at[b], sha |-> Len(commits), created |-> stamp[b]]

VersionRow(b) == [artifact |-> at[b], sha |-> sha[b], created |-> stamp[b]]

\* INSERT INTO config_versions under the request's context; a failure is logged.
InsertVersion(b) ==
    /\ pc[b] = "version"
    /\ \/ versions' = Append(versions, VersionRow(b))
       \/ b \in failing /\ UNCHANGED versions
    /\ NextArtifact(b, "version", "record")
    /\ UNCHANGED <<repository, runs, changes, search, fetched, sha, stamp, previous,
                   outcome, environment>>

\* The rows of one artifact, without those of commit n.
RowsBut(a, n) == {i \in DOMAIN versions : versions[i].artifact = a /\ versions[i].sha # n}

\* ORDER BY created_at DESC LIMIT 1, as the index on (device_id, created_at DESC)
\* yields it: of rows of the same second, the one inserted first.
IsNewest(i, rows) ==
    /\ i \in rows
    /\ \A j \in rows : \/ versions[j].created < versions[i].created
                       \/ versions[j].created = versions[i].created /\ i <= j

\* Mutated form: the new version may be its own predecessor.
CandidatesWithItself(b) == RowsBut(at[b], 0)

Candidates(b) == RowsBut(at[b], sha[b])

\* changes.Record: SELECT of the predecessor, 0 when there is none.
FindPredecessor(b) ==
    /\ pc[b] = "record"
    /\ \/ b \in hooksFailing /\ Goto(b, "delete") /\ UNCHANGED previous
       \/ /\ Goto(b, "event")
          /\ \/ /\ Candidates(b) = {}
                /\ previous' = [previous EXCEPT ![b] = 0]
             \/ \E i \in Candidates(b) :
                   /\ IsNewest(i, Candidates(b))
                   /\ previous' = [previous EXCEPT ![b] = versions[i].sha]
    /\ UNCHANGED <<repository, tables, at, fetched, sha, stamp, outcome, environment>>

\* Mutated form: an event for every artifact of the commit.
DiffersAlways(b) == TRUE

\* The diff of the two commits, both read from the repository.
Differs(b) ==
    previous[b] = 0 \/ commits[previous[b]][at[b]] # commits[sha[b]][at[b]]

InsertEvent(b) ==
    /\ pc[b] = "event"
    /\ \/ b \in hooksFailing /\ UNCHANGED changes
       \/ changes' = IF Differs(b)
                     THEN Append(changes, [artifact |-> at[b], old |-> previous[b], new |-> sha[b]])
                     ELSE changes
    /\ Goto(b, "delete")
    /\ UNCHANGED <<repository, runs, versions, search, locals, environment>>

AfterHooks(b) ==
    /\ NextArtifact(b, "record", "finalize")
    /\ outcome' = [outcome EXCEPT ![b] = "success"]

\* Mutated form: the DELETE forgets the artifact.
SameDocumentAnyArtifact(d, b) == TRUE

SameDocument(d, b) == d.artifact = at[b]

\* search.Index: DELETE, then INSERT.
DeleteDocument(b) ==
    /\ pc[b] = "delete"
    /\ \/ b \in hooksFailing /\ AfterHooks(b) /\ UNCHANGED search
       \/ /\ search' = {d \in search : ~SameDocument(d, b)}
          /\ Goto(b, "index")
          /\ UNCHANGED <<at, outcome>>
    /\ UNCHANGED <<repository, runs, versions, changes, fetched, sha, stamp, previous, environment>>

InsertDocument(b) ==
    /\ pc[b] = "index"
    /\ \/ search' = search \cup {[artifact |-> at[b], sha |-> sha[b]]}
       \/ b \in hooksFailing /\ UNCHANGED search
    /\ AfterHooks(b)
    /\ UNCHANGED <<repository, runs, versions, changes, fetched, sha, stamp, previous, environment>>

\* Mutated form: the outcome of a failed run is not told apart.
FinalStatusAlwaysSuccess(b) == "success"

FinalStatus(b) == outcome[b]

\* UPDATE of the run, under a context of its own; the slot is given back.
Finalize(b) ==
    /\ pc[b] = "finalize"
    /\ runs' = [runs EXCEPT ![b] = [status |-> FinalStatus(b), sha |-> sha[b]]]
    /\ Goto(b, "ended")
    /\ UNCHANGED <<repository, versions, changes, search, locals, environment>>

--------------------------------------------------------------------------------
(***************************************************************************)
(* The environment.                                                        *)
(***************************************************************************)

Fault == faults < MaxFaults /\ faults' = faults + 1

\* From now on statements of the call may fail: the client goes away, the
\* scheduler's context ends, or the database refuses one now and then.  Nothing
\* after the rows of config_versions looks at the request's context.
RequestFails(b) ==
    /\ Fault
    /\ pc[b] \in Writing \cup {"fetch", "lock", "clock", "version"} /\ b \notin failing
    /\ failing' = failing \cup {b}
    /\ UNCHANGED <<repository, tables, pc, locals, now, hooksFailing, lost>>

\* The same for the hooks, whose context lasts 30 seconds.
HooksFail(b) ==
    /\ Fault
    /\ pc[b] \in {"record", "event", "delete", "index"} /\ b \notin hooksFailing
    /\ hooksFailing' = hooksFailing \cup {b}
    /\ UNCHANGED <<repository, tables, pc, locals, now, failing, lost>>

\* The process dies: the mutexes and the calls are gone, files and rows stay.
Crash ==
    /\ Fault
    /\ \E b \in Backups : InFlight(b)
    /\ lost' = lost \cup {b \in Backups : InFlight(b)}
    /\ pc' = [b \in Backups |-> IF InFlight(b) THEN "ended" ELSE pc[b]]
    /\ lock' = NoBackup
    /\ UNCHANGED <<commits, worktree, staged, tables, locals, now, failing, hooksFailing>>

Tick ==
    /\ now < MaxTime
    /\ now' = now + 1
    /\ UNCHANGED <<repository, tables, pc, locals, failing, hooksFailing, lost, faults>>

Step(b) ==
    \/ FetchConfig(b) \/ FetchFails(b)
    \/ LockRepository(b) \/ OpenFile(b) \/ WriteFile(b) \/ StageArtifact(b)
    \/ CommitTree(b) \/ NoChange(b) \/ CommitFails(b)
    \/ ReadClock(b) \/ InsertVersion(b) \/ FindPredecessor(b) \/ InsertEvent(b)
    \/ DeleteDocument(b) \/ InsertDocument(b) \/ Finalize(b)

Next ==
    \/ \E b \in Backups : BeginRun(b) \/ Step(b) \/ RequestFails(b) \/ HooksFail(b)
    \/ Crash
    \/ Tick

Spec == Init /\ [][Next]_vars

--------------------------------------------------------------------------------
(***************************************************************************)
(* Properties.                                                             *)
(***************************************************************************)

TypeOK ==
    /\ commits \in Seq(Trees)
    /\ lock \in Backups \cup {NoBackup}
    /\ worktree \in WorkTrees /\ staged \in Trees
    /\ runs \in [Backups -> RunRows]
    /\ versions \in Seq(Versions)
    /\ changes \in Seq(Changes)
    /\ search \subseteq Documents
    /\ pc \in [Backups -> PCs]
    /\ at \in [Backups -> Artifacts]
    /\ fetched \in [Backups -> Snapshots \cup {<<>>}]
    /\ sha \in [Backups -> Nat]
    /\ stamp \in [Backups -> Nat]
    /\ previous \in [Backups -> Nat]
    /\ outcome \in [Backups -> {"none", "success", "failed"}]
    /\ now \in Nat /\ faults \in Nat
    /\ failing \subseteq Backups /\ hooksFailing \subseteq Backups /\ lost \subseteq Backups

\* A call that was cut short, or failed, with a fetch it had not committed: it may
\* have left files in the index.
Abandoned(b) ==
    /\ fetched[b] # <<>> /\ sha[b] = 0
    /\ b \in lost \/ outcome[b] = "failed"

History == INSTANCE ConfigHistory WITH
               history <- commits,
               fetched <- {fetched[b] : b \in {c \in Backups : fetched[c] # <<>>}},
               abandoned <- {fetched[b] : b \in {c \in Backups : Abandoned(c)}}

\* The repository keeps the history of ConfigHistory: a commit holds what one
\* backup fetched, and beside it only what the commit before it held or what a
\* call cut short had left; none repeats the one before it or rewrites an older
\* one.  The files are written one by one by calls that fetch different artifacts
\* and may die between any two steps.
ImplementsHistory == History!Spec

\* A tree holds what a call fetched.
Holds(tree, b) == \A a \in Brought(b) : tree[a] = fetched[b][a]

\* Commit n has its text of an artifact from the commit before it, or from a call
\* that was cut short.
Inherited(n, a) ==
    \/ commits[n][a] = (IF n = 1 THEN NoContent ELSE commits[n - 1][a])
    \/ \E c \in Backups : Abandoned(c) /\ a \in Brought(c) /\ commits[n][a] = fetched[c][a]

\* The row of a run is the truth about the repository: a success with a SHA is
\* the only run of that commit, which holds what the run fetched, and nothing else
\* that is neither older nor left over; a success without one fetched what had
\* been committed already; and a failure has committed nothing.
RunTellsTheTruth ==
    \A b \in Backups :
        LET r == runs[b]
        IN  /\ r.status = "success" /\ r.sha # 0 =>
                  /\ r.sha \in DOMAIN commits
                  /\ Holds(commits[r.sha], b)
                  /\ \A a \in Artifacts \ Brought(b) : Inherited(r.sha, a)
                  /\ \A c \in Backups \ {b} : runs[c].sha # r.sha
            /\ r.status = "success" /\ r.sha = 0 =>
                  \E n \in DOMAIN commits : Holds(commits[n], b)
            /\ r.status = "failed" => r.sha = 0

\* Some row of config_versions leads to the text.
OnRecord(a, text) ==
    \E i \in DOMAIN versions :
        versions[i].artifact = a /\ commits[versions[i].sha][a] = text

\* Every artifact a backup fetched and committed has one row in config_versions,
\* unless its INSERT may have failed, or its call died or is not finished; a row's
\* commit exists; and text of a commit that no row leads to was fetched by a call that is not
\* finished, had failing statements, was cut short or failed.
VersionsAccounted ==
    /\ \A i \in DOMAIN versions : versions[i].sha \in DOMAIN commits
    /\ \A i, j \in DOMAIN versions :
          versions[i].artifact = versions[j].artifact /\ versions[i].sha = versions[j].sha => i = j
    /\ \A b \in Backups \ failing : \A a \in Brought(b) :
          runs[b].status = "success" /\ sha[b] # 0 =>
              \E i \in DOMAIN versions : versions[i].artifact = a /\ versions[i].sha = sha[b]
    /\ \A n \in DOMAIN commits : \A a \in Artifacts :
          \/ commits[n][a] = NoContent
          \/ OnRecord(a, commits[n][a])
          \/ \E b \in Backups :
                /\ a \in Brought(b) /\ fetched[b][a] = commits[n][a]
                /\ InFlight(b) \/ b \in failing \cup lost \/ outcome[b] = "failed"

\* A change event relates two different contents of its artifact, and a commit
\* is reported as new at most once per artifact.
ChangesAreReal ==
    \A i \in DOMAIN changes :
        LET e == changes[i]
        IN  /\ e.old # 0 => commits[e.old][e.artifact] # commits[e.new][e.artifact]
            /\ \A j \in DOMAIN changes :
                  changes[j].artifact = e.artifact /\ changes[j].new = e.new => i = j

\* Text that no other backup fetched and committed is reported as a change by the
\* one that did, with whatever backups it interleaves and whatever files they
\* fetch, unless statements of its hooks failed.
NewContentIsReported ==
    \A b \in Backups \ hooksFailing : \A a \in Brought(b) :
        /\ runs[b].status = "success" /\ sha[b] # 0
        /\ \A c \in Backups \ {b} :
              sha[c] # 0 /\ a \in Brought(c) => commits[sha[c]][a] # commits[sha[b]][a]
        => \E i \in DOMAIN changes : changes[i].artifact = a /\ changes[i].new = sha[b]

\* An artifact that was indexed stays in the search index, also when later backups
\* do not fetch it: it is missing only between the DELETE and the INSERT of a call,
\* or after one that was cut short, or whose INSERT failed, in between.
DocumentsStay ==
    \A a \in Artifacts :
        /\ \E b \in Backups : runs[b].status = "success" /\ sha[b] # 0 /\ a \in Brought(b)
        /\ \A b \in Backups : ~(pc[b] = "index" /\ at[b] = a)
        /\ hooksFailing = {} /\ lost = {}
        => \E d \in search : d.artifact = a

================================================================================
