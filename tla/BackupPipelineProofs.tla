-------------------------- MODULE BackupPipelineProofs --------------------------
(***************************************************************************)
(* Proofs about BackupPipeline, for any number of backups, artifacts,      *)
(* contents and faults, and fetches of any number of the artifacts: what a *)
(* run row and the repository agree on, the implementation of              *)
(* ConfigHistory, and, in a second invariant, what the rows, events and    *)
(* indexed documents tell of the commits.                                  *)
(***************************************************************************)
EXTENDS BackupPipeline, Integers, SequenceTheorems, TLAPS

Before == {"idle", "fetch", "lock"} \cup Writing
AfterCommit == {"clock", "version", "record", "event", "delete", "index"}

InHistory(b) == \E n \in DOMAIN commits : Holds(commits[n], b)

\* Where a call stands: it has fetched once, holds the mutex while it writes, has
\* staged the files before the one it is at, and has a SHA once it committed.
CallInv(b) ==
    /\ pc[b] \in {"idle", "fetch"} => fetched[b] = <<>>
    /\ pc[b] \in {"lock"} \cup Writing \cup AfterCommit =>
          fetched[b] \in Snapshots /\ at[b] \in Brought(b)
    /\ pc[b] \in {"idle", "fetch", "lock"} => at[b] = 1
    /\ pc[b] \in Writing => lock = b
    /\ pc[b] \in {"open", "write", "add"} =>
          \A a \in Brought(b) : a < at[b] => staged[a] = fetched[b][a]
    /\ pc[b] = "add" => worktree[at[b]] = fetched[b][at[b]]
    /\ pc[b] = "commit" => Holds(staged, b)
    /\ pc[b] \in Before => sha[b] = 0
    /\ pc[b] \in AfterCommit => sha[b] # 0
    /\ pc[b] = "finalize" /\ outcome[b] = "failed" => sha[b] = 0
    /\ pc[b] = "finalize" /\ outcome[b] = "success" /\ sha[b] = 0 => InHistory(b)
    /\ outcome[b] = "failed" => pc[b] \in {"finalize", "ended"}
    /\ b \in lost => pc[b] = "ended"

\* A SHA is a commit of what the call fetched, beside what was there or left over.
ShaInv(b) ==
    sha[b] # 0 =>
        /\ sha[b] \in DOMAIN commits
        /\ Holds(commits[sha[b]], b)
        /\ \A a \in Artifacts \ Brought(b) : Inherited(sha[b], a)

\* What the row of a run says.
RunInv(b) ==
    /\ runs[b].sha \in {0, sha[b]}
    /\ runs[b].status \in {"success", "failed"} => pc[b] = "ended"
    /\ runs[b].status = "failed" => runs[b].sha = 0
    /\ runs[b].status = "success" /\ runs[b].sha = 0 => InHistory(b)

OwnInv(b) == CallInv(b) /\ ShaInv(b) /\ RunInv(b)

\* No two calls made the same commit, and some call made each.
OwnCommits ==
    /\ \A b, c \in Backups : b # c /\ sha[b] # 0 => sha[b] # sha[c]
    /\ \A n \in DOMAIN commits : \E b \in Backups : sha[b] = n

\* A call brought the text home.
From(b, a, text) == a \in Brought(b) /\ text = fetched[b][a]

\* What git's index holds beside HEAD was put there by the call that is writing, or
\* by one cut short.
StagedInv ==
    \A a \in Artifacts :
        \/ staged[a] = HeadTree[a]
        \/ \E c \in Backups : From(c, a, staged[a]) /\ (Abandoned(c) \/ pc[c] \in Writing)

\* Every text of the history comes from a call that committed it or was cut short.
TextInv ==
    \A n \in DOMAIN commits : \A a \in Artifacts :
        \/ commits[n][a] = NoContent
        \/ \E c \in Backups : From(c, a, commits[n][a]) /\ (Abandoned(c) \/ sha[c] # 0)

RepositoryInv == OwnCommits /\ StagedInv /\ TextInv

IInv ==
    /\ TypeOK
    /\ \A b \in Backups : OwnInv(b)
    /\ RepositoryInv

--------------------------------------------------------------------------------
(***************************************************************************)
(* Types.                                                                  *)
(***************************************************************************)

\* A snapshot is a sequence with at least one artifact and no more than there are.
LEMMA SnapshotFacts ==
    ASSUME NEW s \in Snapshots
    PROVE  /\ s # <<>> /\ Len(s) \in Artifacts /\ DOMAIN s = 1 .. Len(s) /\ 1 \in 1 .. Len(s)
           /\ \A a \in 1 .. Len(s) : a \in Artifacts /\ s[a] \in Contents
  <1>1. PICK n \in Artifacts : s \in [1 .. n -> Contents]
    BY DEF Snapshots
  <1>2. n \in Nat /\ 1 <= n /\ n <= NumArtifacts /\ NumArtifacts \in Nat
    BY ArtifactsAssumption DEF Artifacts
  <1>3. s \in Seq(Contents)
    BY <1>1, <1>2, SeqDef
  <1>4. Len(s) = n
    <2>1. DOMAIN s = 1 .. n /\ DOMAIN s = 1 .. Len(s) /\ Len(s) \in Nat
      BY <1>1, <1>3, LenProperties
    <2> QED BY <1>2, <2>1
  <1>5. s # <<>>
    BY <1>2, <1>4, EmptySeq
  <1> QED BY <1>1, <1>2, <1>4, <1>5 DEF Artifacts

LEMMA FetchedFacts ==
    ASSUME TypeOK, NEW b \in Backups
    PROVE  /\ Len(fetched[b]) \in Nat /\ Len(fetched[b]) <= NumArtifacts
           /\ fetched[b] = <<>> => Brought(b) = {}
           /\ fetched[b] # <<>> => fetched[b] \in Snapshots /\ DOMAIN fetched[b] = Brought(b)
           /\ \A a \in Brought(b) : a \in Int /\ a \in Artifacts /\ fetched[b][a] \in Contents
  <1>1. NumArtifacts \in Nat
    BY ArtifactsAssumption
  <1>2. CASE fetched[b] = <<>>
    <2>1. Len(fetched[b]) = 0
      BY <1>2, EmptySeq
    <2> QED BY <1>1, <1>2, <2>1 DEF Brought
  <1>3. CASE fetched[b] # <<>>
    <2>1. fetched[b] \in Snapshots
      BY <1>3 DEF TypeOK
    <2>2. Len(fetched[b]) \in Nat /\ Len(fetched[b]) <= NumArtifacts
      BY <1>1, <2>1, SnapshotFacts DEF Artifacts
    <2> QED BY <1>3, <2>1, <2>2, SnapshotFacts DEF Brought
  <1> QED BY <1>2, <1>3

LEMMA NextArtifactType ==
    ASSUME TypeOK, NEW b \in Backups, NEW again \in PCs, NEW after \in PCs,
           NextArtifact(b, again, after)
    PROVE  pc' \in [Backups -> PCs] /\ at' \in [Backups -> Artifacts]
  <1>1. pc' \in [Backups -> PCs]
    BY DEF NextArtifact, Goto, TypeOK
  <1>2. at[b] \in Artifacts /\ at[b] \in Int
    BY DEF TypeOK, Artifacts
  <1>3. 1 \in Artifacts /\ (at[b] < Len(fetched[b]) => at[b] + 1 \in Artifacts)
    BY <1>2, ArtifactsAssumption, FetchedFacts DEF Artifacts
  <1> QED BY <1>1, <1>3 DEF NextArtifact, TypeOK

LEMMA TypeStep == IInv /\ [Next]_vars => TypeOK'
  <1> SUFFICES ASSUME IInv, [Next]_vars PROVE TypeOK'
    OBVIOUS
  <1> USE DEF environment, locals, tables, repository
  <1>0. TypeOK
    BY DEF IInv
  <1>1. ASSUME NEW b \in Backups, BeginRun(b) PROVE TypeOK'
    BY <1>0, <1>1 DEF BeginRun, Goto, TypeOK, RunRows, PCs
  <1>2. ASSUME NEW b \in Backups, FetchConfig(b) PROVE TypeOK'
    BY <1>0, <1>2 DEF FetchConfig, Goto, TypeOK, PCs
  <1>3. ASSUME NEW b \in Backups, FetchFails(b) PROVE TypeOK'
    BY <1>0, <1>3 DEF FetchFails, Conclude, Goto, TypeOK, PCs
  <1>4. ASSUME NEW b \in Backups, LockRepository(b) PROVE TypeOK'
    BY <1>0, <1>4 DEF LockRepository, Goto, TypeOK, PCs
  <1>5. ASSUME NEW b \in Backups, OpenFile(b) PROVE TypeOK'
    <2>1. worktree' \in WorkTrees
      BY <1>0, <1>5 DEF OpenFile, TypeOK, WorkTrees
    <2> QED BY <1>0, <1>5, <2>1 DEF OpenFile, Goto, TypeOK, PCs
  <1>6. ASSUME NEW b \in Backups, WriteFile(b) PROVE TypeOK'
    <2>1. at[b] \in Brought(b)
      BY <1>6 DEF WriteFile, Writing, IInv, OwnInv, CallInv
    <2>2. worktree' \in WorkTrees
      BY <1>0, <1>6, <2>1, FetchedFacts DEF WriteFile, TypeOK, WorkTrees
    <2> QED BY <1>0, <1>6, <2>2 DEF WriteFile, Goto, TypeOK, PCs
  <1>7. ASSUME NEW b \in Backups, StageArtifact(b) PROVE TypeOK'
    <2>1. pc' \in [Backups -> PCs] /\ at' \in [Backups -> Artifacts]
      BY <1>0, <1>7, NextArtifactType DEF StageArtifact, PCs
    <2>2. at[b] \in Brought(b) /\ worktree[at[b]] = fetched[b][at[b]]
      BY <1>7 DEF StageArtifact, Writing, IInv, OwnInv, CallInv
    <2>3. staged' \in Trees
      BY <1>0, <1>7, <2>2, FetchedFacts DEF StageArtifact, TypeOK, Trees
    <2> QED BY <1>0, <1>7, <2>1, <2>3 DEF StageArtifact, TypeOK
  <1>8. ASSUME NEW b \in Backups, CommitTree(b) PROVE TypeOK'
    <2>1. Len(commits) \in Nat /\ commits' \in Seq(Trees)
      BY <1>0, <1>8 DEF CommitTree, TypeOK
    <2> QED BY <1>0, <1>8, <2>1 DEF CommitTree, Goto, TypeOK, PCs
  <1>9. ASSUME NEW b \in Backups, NoChange(b) PROVE TypeOK'
    BY <1>0, <1>9 DEF NoChange, Conclude, Goto, TypeOK, PCs
  <1>10. ASSUME NEW b \in Backups, CommitFails(b) PROVE TypeOK'
    BY <1>0, <1>10 DEF CommitFails, Conclude, Goto, TypeOK, PCs
  <1>11. ASSUME NEW b \in Backups, ReadClock(b) PROVE TypeOK'
    BY <1>0, <1>11 DEF ReadClock, Goto, TypeOK, PCs
  <1>12. ASSUME NEW b \in Backups, InsertVersion(b) PROVE TypeOK'
    <2>1. pc' \in [Backups -> PCs] /\ at' \in [Backups -> Artifacts]
      BY <1>0, <1>12, NextArtifactType DEF InsertVersion, PCs
    <2>2. VersionRow(b) \in Versions
      BY <1>0 DEF VersionRow, Versions, TypeOK
    <2>3. versions' \in Seq(Versions)
      <3>1. versions' = Append(versions, VersionRow(b)) \/ versions' = versions
        BY <1>12 DEF InsertVersion
      <3>2. versions \in Seq(Versions)
        BY <1>0 DEF TypeOK
      <3>3. Append(versions, VersionRow(b)) \in Seq(Versions)
        BY <2>2, <3>2
      <3> QED BY <3>1, <3>2, <3>3
    <2>4. UNCHANGED <<repository, runs, changes, search, fetched, sha, stamp, previous, outcome,
                      environment>>
      BY <1>12 DEF InsertVersion
    <2> QED BY <1>0, <2>1, <2>3, <2>4 DEF TypeOK
  <1>13. ASSUME NEW b \in Backups, FindPredecessor(b) PROVE TypeOK'
    <2>1. pc' \in [Backups -> PCs]
      BY <1>0, <1>13 DEF FindPredecessor, Goto, TypeOK, PCs
    <2>2. versions \in Seq(Versions)
      BY <1>0 DEF TypeOK
    <2>3. \A i \in Candidates(b) : versions[i].sha \in Nat
      <3> TAKE i \in Candidates(b)
      <3>1. versions[i] \in Versions
        BY <2>2 DEF Candidates, RowsBut
      <3> QED BY <3>1 DEF Versions
    <2>4. \/ previous' = previous
          \/ previous' = [previous EXCEPT ![b] = 0]
          \/ \E i \in Candidates(b) : previous' = [previous EXCEPT ![b] = versions[i].sha]
      BY <1>13 DEF FindPredecessor
    <2>5. \E n \in Nat : previous' = previous \/ previous' = [previous EXCEPT ![b] = n]
      BY <2>3, <2>4
    <2>6. previous' \in [Backups -> Nat]
      BY <1>0, <2>5 DEF TypeOK
    <2> QED BY <1>0, <1>13, <2>1, <2>6 DEF FindPredecessor, TypeOK
  <1>14. ASSUME NEW b \in Backups, InsertEvent(b) PROVE TypeOK'
    <2>1. [artifact |-> at[b], old |-> previous[b], new |-> sha[b]] \in Changes
      BY <1>0 DEF Changes, TypeOK
    <2>2. changes' \in Seq(Changes)
      <3>1. \/ changes' = Append(changes, [artifact |-> at[b], old |-> previous[b], new |-> sha[b]])
            \/ changes' = changes
        BY <1>14 DEF InsertEvent
      <3>2. changes \in Seq(Changes)
        BY <1>0 DEF TypeOK
      <3>3. Append(changes, [artifact |-> at[b], old |-> previous[b], new |-> sha[b]]) \in Seq(Changes)
        BY <2>1, <3>2
      <3> QED BY <3>1, <3>2, <3>3
    <2>3. UNCHANGED <<repository, runs, versions, search, locals, environment>>
      BY <1>14 DEF InsertEvent
    <2>4. pc' \in [Backups -> PCs]
      BY <1>0, <1>14 DEF InsertEvent, Goto, TypeOK, PCs
    <2> QED BY <1>0, <2>2, <2>3, <2>4 DEF TypeOK
  <1>15. ASSUME NEW b \in Backups, DeleteDocument(b) PROVE TypeOK'
    <2>1. CASE Goto(b, "index") /\ UNCHANGED <<at, outcome>>
      BY <1>0, <1>15, <2>1 DEF DeleteDocument, Goto, TypeOK, PCs
    <2>2. CASE AfterHooks(b)
      <3>1. pc' \in [Backups -> PCs] /\ at' \in [Backups -> Artifacts]
        BY <1>0, <2>2, NextArtifactType DEF AfterHooks, PCs
      <3> QED BY <1>0, <1>15, <2>2, <3>1 DEF DeleteDocument, AfterHooks, TypeOK
    <2> QED BY <1>15, <2>1, <2>2 DEF DeleteDocument
  <1>16. ASSUME NEW b \in Backups, InsertDocument(b) PROVE TypeOK'
    <2>1. pc' \in [Backups -> PCs] /\ at' \in [Backups -> Artifacts]
      BY <1>0, <1>16, NextArtifactType DEF InsertDocument, AfterHooks, PCs
    <2>2. search' \subseteq Documents
      BY <1>0, <1>16 DEF InsertDocument, TypeOK, Documents
    <2> QED BY <1>0, <1>16, <2>1, <2>2 DEF InsertDocument, AfterHooks, TypeOK
  <1>17. ASSUME NEW b \in Backups, Finalize(b) PROVE TypeOK'
    <2>1. [status |-> FinalStatus(b), sha |-> sha[b]] \in RunRows
      BY <1>0 DEF FinalStatus, RunRows, TypeOK
    <2> QED BY <1>0, <1>17, <2>1 DEF Finalize, Goto, TypeOK, PCs
  <1>18. ASSUME NEW b \in Backups, RequestFails(b) PROVE TypeOK'
    BY <1>0, <1>18 DEF RequestFails, Fault, TypeOK
  <1>19. ASSUME NEW b \in Backups, HooksFail(b) PROVE TypeOK'
    BY <1>0, <1>19 DEF HooksFail, Fault, TypeOK
  <1>20. CASE Crash
    <2>1. pc' \in [Backups -> PCs] /\ lost' \subseteq Backups
      BY <1>0, <1>20 DEF Crash, TypeOK, PCs
    <2> QED BY <1>0, <1>20, <2>1 DEF Crash, Fault, TypeOK
  <1>21. CASE Tick
    BY <1>0, <1>21 DEF Tick, TypeOK
  <1>22. CASE UNCHANGED vars
    BY <1>0, <1>22 DEF vars, TypeOK
  <1> QED
    BY <1>1, <1>2, <1>3, <1>4, <1>5, <1>6, <1>7, <1>8, <1>9, <1>10, <1>11, <1>12, <1>13,
       <1>14, <1>15, <1>16, <1>17, <1>18, <1>19, <1>20, <1>21, <1>22 DEF Next, Step

--------------------------------------------------------------------------------
(***************************************************************************)
(* The inductive invariant.                                                *)
(***************************************************************************)

\* What is done stays done: the history is only appended to, a SHA is kept, and a
\* call that came to nothing does not come back.
Keeps ==
    /\ DOMAIN commits \subseteq DOMAIN commits'
    /\ \A n \in DOMAIN commits : commits'[n] = commits[n]
    /\ \A c \in Backups : /\ sha[c] # 0 => sha'[c] = sha[c]
                          /\ fetched[c] # <<>> => fetched'[c] = fetched[c]
                          /\ Abandoned(c) => Abandoned(c)'

\* A step of another call: it leaves this one's locals and row alone, and its
\* files too while it holds the mutex.
Undisturbed(c) ==
    /\ pc'[c] = pc[c] /\ at'[c] = at[c] /\ fetched'[c] = fetched[c]
    /\ sha'[c] = sha[c] /\ outcome'[c] = outcome[c] /\ runs'[c] = runs[c]
    /\ pc[c] \in Writing => worktree' = worktree /\ staged' = staged /\ lock' = lock
    /\ lost' = lost

LEMMA StaysInherited ==
    ASSUME TypeOK, Keeps, NEW n \in DOMAIN commits, NEW a \in Artifacts, Inherited(n, a)
    PROVE  Inherited(n, a)'
  <1>1. n \in Nat \ {0} /\ (n # 1 => n - 1 \in DOMAIN commits)
    BY DEF TypeOK
  <1>2. /\ commits'[n] = commits[n]
        /\ n # 1 => commits'[n - 1] = commits[n - 1]
    BY <1>1 DEF Keeps
  <1>3. ASSUME NEW c \in Backups, Abandoned(c) /\ a \in Brought(c) /\ commits[n][a] = fetched[c][a]
        PROVE  (Abandoned(c) /\ a \in Brought(c) /\ commits[n][a] = fetched[c][a])'
    BY <1>2, <1>3 DEF Keeps, Abandoned, Brought
  <1> QED BY <1>2, <1>3 DEF Inherited

LEMMA OthersKeep ==
    ASSUME TypeOK, NEW c \in Backups, OwnInv(c), Keeps, Undisturbed(c)
    PROVE  OwnInv(c)'
  <1> USE DEF OwnInv, Undisturbed
  <1>1. InHistory(c) => InHistory(c)'
    BY DEF InHistory, Holds, Brought, Keeps
  <1>2. CallInv(c)'
    BY <1>1 DEF CallInv, Brought, Holds, Writing
  <1>3. ShaInv(c)'
    <2>1. sha[c] # 0 => \A a \in Artifacts \ Brought(c) : Inherited(sha[c], a)'
      BY StaysInherited DEF ShaInv
    <2>2. sha[c] # 0 => sha[c] \in DOMAIN commits' /\ Holds(commits[sha[c]], c)'
      BY DEF ShaInv, Keeps, Holds, Brought
    <2> QED BY <2>1, <2>2 DEF ShaInv, Brought, Inherited
  <1>4. RunInv(c)'
    BY <1>1 DEF RunInv
  <1> QED BY <1>2, <1>3, <1>4

LEMMA OneMoves ==
    ASSUME IInv, TypeOK', NEW b \in Backups, Keeps, OwnInv(b)', RepositoryInv',
           \A c \in Backups \ {b} : Undisturbed(c)
    PROVE  IInv'
BY OthersKeep DEF IInv

\* The text of a call that committed or came to nothing keeps its origin.
LEMMA StaysFrom ==
    ASSUME Keeps, NEW c \in Backups, NEW a, NEW text, From(c, a, text), fetched[c] # <<>>
    PROVE  From(c, a, text)'
BY DEF From, Brought, Keeps

\* No text is from a call that fetched nothing.
LEMMA FromFetched ==
    ASSUME TypeOK, NEW c \in Backups, NEW a, NEW text, From(c, a, text)
    PROVE  fetched[c] # <<>>
BY FetchedFacts DEF From

\* A step that commits nothing and stages nothing.
LEMMA RepositoryStays ==
    ASSUME IInv, Keeps, UNCHANGED <<commits, staged, sha>>,
           \A c \in Backups : pc[c] \in Writing => pc'[c] \in Writing \/ Abandoned(c)'
    PROVE  RepositoryInv'
  <1>0. TypeOK /\ RepositoryInv
    BY DEF IInv
  <1>1. OwnCommits'
    BY <1>0 DEF RepositoryInv, OwnCommits
  <1>2. StagedInv'
    <2> SUFFICES ASSUME NEW a \in Artifacts, staged[a] # HeadTree[a]
                 PROVE  \E c \in Backups :
                            /\ From(c, a, staged[a])'
                            /\ Abandoned(c)' \/ pc'[c] \in Writing
      BY DEF StagedInv, HeadTree, Writing
    <2>1. PICK c \in Backups : From(c, a, staged[a]) /\ (Abandoned(c) \/ pc[c] \in Writing)
      BY <1>0 DEF RepositoryInv, StagedInv
    <2>2. From(c, a, staged[a])'
      BY <1>0, <2>1, FromFetched, StaysFrom DEF From
    <2>3. Abandoned(c)' \/ pc'[c] \in Writing
      BY <2>1 DEF Keeps
    <2> QED BY <2>2, <2>3
  <1>3. TextInv'
    <2> SUFFICES ASSUME NEW n \in DOMAIN commits, NEW a \in Artifacts, commits[n][a] # NoContent
                 PROVE  \E c \in Backups :
                            /\ From(c, a, commits[n][a])'
                            /\ Abandoned(c)' \/ sha[c] # 0
      BY DEF TextInv
    <2>1. PICK c \in Backups : From(c, a, commits[n][a]) /\ (Abandoned(c) \/ sha[c] # 0)
      BY <1>0 DEF RepositoryInv, TextInv
    <2>2. From(c, a, commits[n][a])'
      BY <1>0, <2>1, FromFetched, StaysFrom DEF From
    <2> QED BY <2>1, <2>2 DEF Keeps
  <1> QED BY <1>1, <1>2, <1>3 DEF RepositoryInv

\* The mutex keeps the others out while a call writes.
LEMMA Exclusive ==
    ASSUME IInv, NEW b \in Backups, NEW c \in Backups \ {b}, pc[c] \in Writing
    PROVE  pc[b] \notin Writing /\ lock # NoBackup
BY BackupsAssumption DEF IInv, OwnInv, CallInv

LEMMA InitIInv == Init => IInv
  <1> SUFFICES ASSUME Init PROVE IInv
    OBVIOUS
  <1>1. TypeOK
    BY ArtifactsAssumption DEF Init, TypeOK, RunRows, PCs, NoTree, Trees, WorkTrees, Artifacts
  <1>2. ASSUME NEW b \in Backups PROVE OwnInv(b)
    BY DEF Init, OwnInv, CallInv, ShaInv, RunInv, Before, AfterCommit, Writing
  <1>3. RepositoryInv
    BY DEF Init, RepositoryInv, OwnCommits, StagedInv, TextInv, HeadTree
  <1> QED BY <1>1, <1>2, <1>3 DEF IInv

LEMMA StepKeeps == IInv /\ [Next]_vars => Keeps
  <1> SUFFICES ASSUME IInv, [Next]_vars PROVE Keeps
    OBVIOUS
  <1> USE DEF repository, tables, locals, environment
  <1>0. TypeOK /\ \A b \in Backups : OwnInv(b)
    BY DEF IInv
  <1>1. ASSUME UNCHANGED <<commits, sha, fetched, outcome>>, lost \subseteq lost' PROVE Keeps
    BY <1>1 DEF Keeps, Abandoned
  <1>2. ASSUME NEW b \in Backups, UNCHANGED <<commits, sha, fetched, lost>>,
               pc[b] \notin {"finalize", "ended"},
               \E result : outcome' = [outcome EXCEPT ![b] = result]
        PROVE  Keeps
    <2>1. ~Abandoned(b)
      BY <1>0, <1>2 DEF Abandoned, OwnInv, CallInv
    <2>2. \A c \in Backups \ {b} : outcome'[c] = outcome[c]
      BY <1>0, <1>2 DEF TypeOK
    <2> QED BY <1>2, <2>1, <2>2 DEF Keeps, Abandoned
  <1>3. ASSUME NEW b \in Backups, FetchConfig(b) PROVE Keeps
    <2>1. fetched[b] = <<>>
      BY <1>0, <1>3 DEF FetchConfig, OwnInv, CallInv
    <2>2. \A c \in Backups \ {b} : fetched'[c] = fetched[c]
      BY <1>0, <1>3 DEF FetchConfig, TypeOK
    <2> QED BY <1>3, <2>1, <2>2 DEF FetchConfig, Keeps, Abandoned
  <1>4. ASSUME NEW b \in Backups, CommitTree(b) PROVE Keeps
    <2>1. sha[b] = 0 /\ ~Abandoned(b)
      BY <1>0, <1>4 DEF CommitTree, Abandoned, OwnInv, CallInv, Before, Writing
    <2>2. \A c \in Backups \ {b} : sha'[c] = sha[c]
      BY <1>0, <1>4 DEF CommitTree, TypeOK
    <2>3. commits \in Seq(Trees) /\ staged \in Trees /\ commits' = Append(commits, staged)
      BY <1>0, <1>4 DEF CommitTree, TypeOK
    <2>4. /\ DOMAIN commits \subseteq DOMAIN commits'
          /\ \A n \in DOMAIN commits : commits'[n] = commits[n]
      BY <2>3
    <2> QED BY <1>4, <2>1, <2>2, <2>4 DEF CommitTree, Keeps, Abandoned
  <1>5. ASSUME NEW b \in Backups, NoChange(b) PROVE Keeps
    BY <1>2, <1>5 DEF NoChange, Conclude
  <1>6. ASSUME NEW b \in Backups, FetchFails(b) \/ CommitFails(b) PROVE Keeps
    BY <1>2, <1>6 DEF FetchFails, CommitFails, Conclude, Writing
  <1>7. ASSUME NEW b \in Backups, DeleteDocument(b) \/ InsertDocument(b) PROVE Keeps
    <2>1. CASE AfterHooks(b)
      BY <1>2, <1>7, <2>1 DEF DeleteDocument, InsertDocument, AfterHooks
    <2>2. CASE UNCHANGED outcome
      BY <1>1, <1>7, <2>2 DEF DeleteDocument, InsertDocument
    <2> QED BY <1>7, <2>1, <2>2 DEF DeleteDocument, InsertDocument
  <1>8. ASSUME NEW b \in Backups,
               \/ BeginRun(b) \/ LockRepository(b) \/ OpenFile(b) \/ WriteFile(b)
               \/ StageArtifact(b) \/ ReadClock(b) \/ InsertVersion(b) \/ FindPredecessor(b)
               \/ InsertEvent(b) \/ Finalize(b) \/ RequestFails(b) \/ HooksFail(b)
        PROVE  Keeps
    BY <1>1, <1>8 DEF BeginRun, LockRepository, OpenFile, WriteFile, StageArtifact, ReadClock,
       InsertVersion, FindPredecessor, InsertEvent, Finalize, RequestFails, HooksFail
  <1>9. CASE Crash \/ Tick \/ UNCHANGED vars
    BY <1>1, <1>9 DEF Crash, Tick, vars
  <1> QED BY <1>3, <1>4, <1>5, <1>6, <1>7, <1>8, <1>9 DEF Next, Step

\* The loops pass over the artifacts of the fetch one by one.
LEMMA NextPasses ==
    ASSUME TypeOK, NEW b \in Backups, NEW again \in PCs, NEW after \in PCs,
           NextArtifact(b, again, after), at[b] \in Brought(b)
    PROVE  /\ \/ /\ pc'[b] = again /\ at'[b] \in Brought(b)
                 /\ \A a \in Brought(b) : a < at'[b] <=> (a < at[b] \/ a = at[b])
              \/ /\ pc'[b] = after /\ at'[b] = 1 /\ at'[b] \in Brought(b)
                 /\ \A a \in Brought(b) : a < at[b] \/ a = at[b]
           /\ \A c \in Backups \ {b} : pc'[c] = pc[c] /\ at'[c] = at[c]
  <1>1. at[b] \in Int /\ at[b] >= 1 /\ at[b] <= Len(fetched[b]) /\ Len(fetched[b]) \in Nat
    BY FetchedFacts DEF Brought
  <1>2. CASE at[b] < Len(fetched[b])
    <2>1. pc'[b] = again /\ at'[b] = at[b] + 1
      BY <1>2 DEF NextArtifact, Goto, TypeOK
    <2>2. \A a \in Brought(b) : a < at'[b] <=> (a < at[b] \/ a = at[b])
      BY <1>1, <2>1 DEF Brought
    <2>3. at'[b] \in Brought(b)
      BY <1>1, <1>2, <2>1 DEF Brought
    <2> QED BY <1>2, <2>1, <2>2, <2>3 DEF NextArtifact, Goto, TypeOK
  <1>3. CASE ~(at[b] < Len(fetched[b]))
    <2>1. pc'[b] = after /\ at'[b] = 1
      BY <1>3 DEF NextArtifact, Goto, TypeOK
    <2>2. \A a \in Brought(b) : a < at[b] \/ a = at[b]
      BY <1>1, <1>3 DEF Brought
    <2>3. at'[b] \in Brought(b)
      BY <1>1, <2>1 DEF Brought
    <2> QED BY <1>3, <2>1, <2>2, <2>3 DEF NextArtifact, Goto, TypeOK
  <1> QED BY <1>2, <1>3

LEMMA StepIInv ==
    ASSUME IInv, TypeOK', Keeps, NEW b \in Backups, BeginRun(b) \/ Step(b)
    PROVE  IInv'
  <1> USE DEF repository, tables, locals, environment
  <1>0. OwnInv(b) /\ RepositoryInv /\ TypeOK
    BY DEF IInv
  \* The steps that leave the repository as it is.
  <1>1. ASSUME UNCHANGED <<commits, lock, worktree, staged, sha, lost>>, OwnInv(b)',
               pc[b] \notin Writing,
               \A c \in Backups \ {b} :
                   /\ pc'[c] = pc[c] /\ at'[c] = at[c] /\ fetched'[c] = fetched[c]
                   /\ outcome'[c] = outcome[c] /\ runs'[c] = runs[c]
        PROVE  IInv'
    <2>1. RepositoryInv'
      BY <1>1, RepositoryStays
    <2>2. \A c \in Backups \ {b} : Undisturbed(c)
      BY <1>1 DEF Undisturbed
    <2> QED BY <1>1, <2>1, <2>2, OneMoves
  <1>2. InHistory(b) /\ fetched'[b] = fetched[b] => InHistory(b)'
    BY DEF InHistory, Holds, Brought, Keeps
  <1>3. sha[b] # 0 /\ sha'[b] = sha[b] /\ fetched'[b] = fetched[b] => ShaInv(b)'
    <2> SUFFICES ASSUME sha[b] # 0, sha'[b] = sha[b], fetched'[b] = fetched[b]
                 PROVE  ShaInv(b)'
      OBVIOUS
    <2>1. \A a \in Artifacts \ Brought(b) : Inherited(sha[b], a)'
      BY <1>0, StaysInherited DEF OwnInv, ShaInv
    <2>2. sha[b] \in DOMAIN commits' /\ Holds(commits[sha[b]], b)'
      BY <1>0 DEF OwnInv, ShaInv, Keeps, Holds, Brought
    <2> QED BY <2>1, <2>2 DEF ShaInv, Brought, Inherited
  <1>4. CASE BeginRun(b)
    <2>1. OwnInv(b)'
      BY <1>0, <1>4 DEF BeginRun, Goto, OwnInv, CallInv, ShaInv, RunInv, TypeOK, RunRows,
         Before, AfterCommit, Writing, Brought
    <2> QED BY <1>0, <1>1, <1>4, <2>1 DEF BeginRun, Goto, TypeOK, Writing
  <1>5. CASE FetchConfig(b)
    <2>1. fetched'[b] \in Snapshots
      BY <1>0, <1>5 DEF FetchConfig, TypeOK
    <2>2. at'[b] = 1 /\ at'[b] \in Brought(b)'
      BY <1>0, <1>5, <2>1, SnapshotFacts DEF FetchConfig, OwnInv, CallInv, Brought
    <2>3. OwnInv(b)'
      BY <1>0, <1>5, <2>1, <2>2 DEF FetchConfig, Goto, OwnInv, CallInv, ShaInv, RunInv, TypeOK,
         Before, AfterCommit, Writing
    <2> QED BY <1>0, <1>1, <1>5, <2>3 DEF FetchConfig, Goto, TypeOK, Writing
  <1>6. CASE FetchFails(b)
    <2>1. OwnInv(b)'
      BY <1>0, <1>6 DEF FetchFails, Conclude, Goto, OwnInv, CallInv, ShaInv, RunInv, TypeOK,
         Before, AfterCommit, Writing
    <2> QED BY <1>0, <1>1, <1>6, <2>1 DEF FetchFails, Conclude, Goto, TypeOK, Writing
  \* The steps after the commit: nothing but the call's own place changes.
  <1>7. ASSUME pc[b] \in AfterCommit, pc'[b] \in (AfterCommit \ {"clock"}) \cup {"finalize"},
               at'[b] \in Brought(b), outcome'[b] \in {outcome[b], "success"},
               pc'[b] = "finalize" => outcome'[b] = "success",
               UNCHANGED <<commits, lock, worktree, staged, sha, fetched, lost, runs>>,
               \A c \in Backups \ {b} : pc'[c] = pc[c] /\ at'[c] = at[c] /\ outcome'[c] = outcome[c]
        PROVE  IInv'
    <2>1. /\ sha[b] # 0 /\ fetched[b] \in Snapshots /\ outcome[b] # "failed" /\ b \notin lost
          /\ pc[b] \notin Writing /\ pc'[b] \notin Writing \cup {"ended", "idle", "fetch", "lock"}
      BY <1>0, <1>7 DEF OwnInv, CallInv, AfterCommit, Writing
    <2>2. CallInv(b)'
      BY <1>7, <2>1 DEF CallInv, Before, Writing, Brought
    <2>3. ShaInv(b)' /\ RunInv(b)'
      BY <1>0, <1>3, <1>7, <2>1 DEF OwnInv, RunInv, AfterCommit
    <2> QED BY <1>1, <1>7, <2>1, <2>2, <2>3 DEF OwnInv
  <1>8. pc[b] \in AfterCommit => at[b] \in Brought(b)
    BY <1>0 DEF OwnInv, CallInv
  <1>9. CASE ReadClock(b)
    BY <1>0, <1>7, <1>8, <1>9 DEF ReadClock, Goto, TypeOK, AfterCommit
  <1>10. CASE InsertVersion(b)
    <2>1. pc'[b] \in {"version", "record"} /\ at'[b] \in Brought(b)
          /\ \A c \in Backups \ {b} : pc'[c] = pc[c] /\ at'[c] = at[c]
      BY <1>0, <1>8, <1>10, NextPasses DEF InsertVersion, PCs, AfterCommit
    <2> QED BY <1>7, <1>10, <2>1 DEF InsertVersion, AfterCommit
  <1>11. CASE FindPredecessor(b)
    BY <1>0, <1>7, <1>8, <1>11 DEF FindPredecessor, Goto, TypeOK, AfterCommit
  <1>12. CASE InsertEvent(b)
    BY <1>0, <1>7, <1>8, <1>12 DEF InsertEvent, Goto, TypeOK, AfterCommit
  <1>13. CASE DeleteDocument(b) \/ InsertDocument(b)
    <2>1. CASE AfterHooks(b)
      <3>1. pc'[b] \in {"record", "finalize"} /\ at'[b] \in Brought(b)
            /\ \A c \in Backups \ {b} : pc'[c] = pc[c] /\ at'[c] = at[c]
        BY <1>0, <1>8, <1>13, <2>1, NextPasses DEF DeleteDocument, InsertDocument, AfterHooks,
           PCs, AfterCommit
      <3>2. outcome'[b] = "success" /\ \A c \in Backups \ {b} : outcome'[c] = outcome[c]
        BY <1>0, <2>1 DEF AfterHooks, TypeOK
      <3>3. /\ pc[b] \in AfterCommit
            /\ UNCHANGED <<commits, lock, worktree, staged, sha, fetched, lost, runs>>
        BY <1>13 DEF DeleteDocument, InsertDocument, AfterCommit
      <3>4. pc'[b] \in (AfterCommit \ {"clock"}) \cup {"finalize"}
        BY <3>1 DEF AfterCommit
      <3>5. /\ outcome'[b] \in {outcome[b], "success"}
            /\ pc'[b] = "finalize" => outcome'[b] = "success"
        BY <3>2
      <3>6. \A c \in Backups \ {b} : pc'[c] = pc[c] /\ at'[c] = at[c] /\ outcome'[c] = outcome[c]
        BY <3>1, <3>2
      <3> QED BY <1>7, <3>1, <3>3, <3>4, <3>5, <3>6
    <2>2. CASE DeleteDocument(b) /\ Goto(b, "index") /\ UNCHANGED <<at, outcome>>
      BY <1>0, <1>7, <1>8, <2>2 DEF DeleteDocument, Goto, TypeOK, AfterCommit
    <2> QED BY <1>13, <2>1, <2>2 DEF DeleteDocument, InsertDocument
  <1>14. CASE Finalize(b)
    <2>1. OwnInv(b)'
      <3>1. pc[b] = "finalize" /\ pc'[b] = "ended" /\ b \notin lost
            /\ runs'[b] = [status |-> outcome[b], sha |-> sha[b]]
            /\ UNCHANGED <<commits, sha, fetched, outcome, lost>>
        BY <1>0, <1>14 DEF Finalize, FinalStatus, Goto, TypeOK, OwnInv, CallInv
      <3>2. CallInv(b)'
        BY <3>1 DEF CallInv, Before, AfterCommit, Writing
      <3>3. ShaInv(b)'
        BY <1>3, <3>1 DEF ShaInv
      <3>4. RunInv(b)'
        BY <1>0, <1>2, <3>1 DEF OwnInv, CallInv, RunInv
      <3> QED BY <3>2, <3>3, <3>4 DEF OwnInv
    <2> QED BY <1>0, <1>1, <1>14, <2>1 DEF Finalize, Goto, TypeOK, Writing
  \* The steps that hold the mutex, take it or give it back.
  <1>15. CASE LockRepository(b)
    <2>1. OwnInv(b)'
      <3>1. \A a \in Brought(b) : ~(a < 1)
        BY <1>0, FetchedFacts DEF Artifacts
      <3>2. /\ pc[b] = "lock" /\ pc'[b] = "open" /\ lock' = b
            /\ UNCHANGED <<commits, at, fetched, sha, outcome, runs, lost>>
        BY <1>0, <1>15 DEF LockRepository, Goto, TypeOK
      <3> QED BY <1>0, <3>1, <3>2 DEF OwnInv, CallInv, ShaInv, RunInv, Before, AfterCommit,
                 Writing, Brought
    <2>2. \A c \in Backups \ {b} : Undisturbed(c)
      BY <1>0, <1>15, Exclusive DEF LockRepository, LockIsFree, Goto, Undisturbed, TypeOK
    <2>3. RepositoryInv'
      BY <1>0, <1>15, RepositoryStays DEF LockRepository, Goto, TypeOK, Writing
    <2> QED BY <2>1, <2>2, <2>3, OneMoves
  <1>16. ASSUME OpenFile(b) \/ WriteFile(b) PROVE IInv'
    <2>1. /\ pc[b] \in Writing /\ pc'[b] \in {"write", "add"} /\ lock = b /\ sha[b] = 0
          /\ \A c \in Backups \ {b} : pc'[c] = pc[c]
          /\ UNCHANGED <<commits, lock, staged, at, fetched, sha, outcome, runs, lost>>
          /\ at[b] \in Brought(b) /\ fetched[b] \in Snapshots
          /\ \A a \in Brought(b) : a < at[b] => staged[a] = fetched[b][a]
          /\ outcome[b] # "failed" /\ b \notin lost
      BY <1>0, <1>16 DEF OpenFile, WriteFile, Goto, OwnInv, CallInv, TypeOK, Before, Writing
    <2>2. pc'[b] = "add" => worktree'[at[b]] = fetched[b][at[b]]
      <3>1. at[b] \in Artifacts
        BY <1>0, <2>1, FetchedFacts
      <3> QED BY <1>0, <1>16, <3>1 DEF OpenFile, WriteFile, Goto, TypeOK, WorkTrees
    <2>3. CallInv(b)'
      BY <2>1, <2>2 DEF CallInv, Before, AfterCommit, Writing, Brought
    <2>4. OwnInv(b)'
      BY <1>0, <2>1, <2>3 DEF OwnInv, ShaInv, RunInv, Writing
    <2>5. \A c \in Backups \ {b} : Undisturbed(c)
      BY <2>1, Exclusive DEF Undisturbed
    <2>6. RepositoryInv'
      BY <2>1, RepositoryStays DEF Writing
    <2> QED BY <2>4, <2>5, <2>6, OneMoves
  <1>17. CASE StageArtifact(b)
    <2>1. /\ pc[b] = "add" /\ pc[b] \in Writing /\ lock = b /\ sha[b] = 0
          /\ UNCHANGED <<commits, lock, worktree, fetched, sha, outcome, runs, lost>>
          /\ at[b] \in Brought(b) /\ at[b] \in Artifacts /\ fetched[b] \in Snapshots
          /\ outcome[b] # "failed" /\ b \notin lost
          /\ \A a \in Brought(b) : a \in Artifacts
      BY <1>0, <1>17, FetchedFacts DEF StageArtifact, OwnInv, CallInv, TypeOK, Before, Writing
    <2>2. staged'[at[b]] = fetched[b][at[b]]
          /\ \A a \in Artifacts \ {at[b]} : staged'[a] = staged[a]
      BY <1>0, <1>17, <2>1 DEF StageArtifact, TypeOK, Trees, OwnInv, CallInv
    <2>3. \A a \in Brought(b) : a < at[b] \/ a = at[b] => staged'[a] = fetched[b][a]
      BY <1>0, <2>1, <2>2 DEF OwnInv, CallInv
    <2>4. /\ \/ /\ pc'[b] = "open" /\ at'[b] \in Brought(b)
                /\ \A a \in Brought(b) : a < at'[b] <=> (a < at[b] \/ a = at[b])
             \/ /\ pc'[b] = "commit" /\ at'[b] = 1 /\ at'[b] \in Brought(b)
                /\ \A a \in Brought(b) : a < at[b] \/ a = at[b]
          /\ \A c \in Backups \ {b} : pc'[c] = pc[c] /\ at'[c] = at[c]
      BY <1>0, <1>17, <2>1, NextPasses DEF StageArtifact, PCs
    <2>5. CallInv(b)'
      BY <2>1, <2>3, <2>4 DEF CallInv, Holds, Before, AfterCommit, Writing, Brought
    <2>6. OwnInv(b)'
      BY <1>0, <2>1, <2>5 DEF OwnInv, ShaInv, RunInv, Writing
    <2>7. \A c \in Backups \ {b} : Undisturbed(c)
      BY <2>1, <2>4, Exclusive DEF Undisturbed
    <2>8. RepositoryInv'
      <3>1. OwnCommits'
        BY <1>0, <2>1 DEF RepositoryInv, OwnCommits
      <3>2. StagedInv'
        <4> SUFFICES ASSUME NEW a \in Artifacts, staged'[a] # HeadTree[a]
                     PROVE  \E c \in Backups :
                                /\ From(c, a, staged[a])'
                                /\ Abandoned(c)' \/ pc'[c] \in Writing
          BY <2>1 DEF StagedInv, HeadTree, Writing
        <4>1. CASE a = at[b]
          BY <2>1, <2>2, <2>4, <4>1 DEF From, Brought, Writing
        <4>2. CASE a # at[b]
          <5>1. PICK c \in Backups : From(c, a, staged[a]) /\ (Abandoned(c) \/ pc[c] \in Writing)
            BY <1>0, <2>2, <4>2 DEF RepositoryInv, StagedInv
          <5>2. From(c, a, staged[a])'
            BY <2>1, <2>2, <4>2, <5>1 DEF From, Brought
          <5>3. Abandoned(c)' \/ pc'[c] \in Writing
            BY <2>4, <5>1 DEF Keeps, Writing
          <5> QED BY <5>2, <5>3
        <4> QED BY <4>1, <4>2
      <3>3. TextInv'
        BY <1>0, <2>1 DEF RepositoryInv, TextInv, From, Brought, Keeps
      <3> QED BY <3>1, <3>2, <3>3 DEF RepositoryInv
    <2> QED BY <2>6, <2>7, <2>8, OneMoves
  <1>18. CASE CommitTree(b)
    <2>1. commits \in Seq(Trees) /\ staged \in Trees /\ Len(commits) \in Nat
      BY <1>0 DEF TypeOK
    <2>2. /\ DOMAIN commits = 1 .. Len(commits)
          /\ DOMAIN commits' = 1 .. Len(commits) + 1
          /\ commits'[Len(commits) + 1] = staged
          /\ Len(commits') = Len(commits) + 1 /\ commits' # <<>>
          /\ \A n \in DOMAIN commits : commits'[n] = commits[n]
          /\ commits = <<>> <=> Len(commits) = 0
      BY <1>18, <2>1 DEF CommitTree
    <2>3. /\ pc[b] = "commit" /\ pc[b] \in Writing /\ pc'[b] = "clock"
          /\ sha[b] = 0 /\ sha'[b] = Len(commits) + 1
          /\ \A c \in Backups \ {b} : sha'[c] = sha[c] /\ pc'[c] = pc[c]
          /\ UNCHANGED <<worktree, staged, at, fetched, outcome, runs, lost>>
          /\ at[b] \in Brought(b) /\ fetched[b] \in Snapshots /\ Holds(staged, b)
          /\ outcome[b] # "failed" /\ b \notin lost
      BY <1>0, <1>18 DEF CommitTree, Goto, OwnInv, CallInv, TypeOK, Before, Writing
    <2>4. \A c \in Backups : sha[c] # Len(commits) + 1 /\ (pc[c] \in Writing => c = b)
      BY <2>1, <2>2, <2>3, Exclusive DEF IInv, OwnInv, ShaInv
    \* What the index held, seen from the new commit.
    <2>5. ASSUME NEW a \in Artifacts
          PROVE  \/ staged[a] = HeadTree[a]
                 \/ From(b, a, staged[a])
                 \/ \E c \in Backups : From(c, a, staged[a]) /\ Abandoned(c)
      BY <1>0, <2>4 DEF RepositoryInv, StagedInv
    <2>6. ShaInv(b)'
      <3>0. PICK n : n = Len(commits) + 1
        OBVIOUS
      <3>1. ASSUME NEW a \in Artifacts, a \notin Brought(b) PROVE Inherited(n, a)'
        <4>0. commits'[n] = staged
          BY <2>2, <3>0
        <4>1. CASE staged[a] = HeadTree[a]
          <5>1. CASE commits = <<>>
            <6>1. n = 1
              BY <2>2, <3>0, <5>1
            <6> QED BY <4>0, <4>1, <5>1, <6>1 DEF HeadTree, NoTree, Inherited
          <5>2. CASE commits # <<>>
            <6>1. Len(commits) \in DOMAIN commits /\ n # 1 /\ n - 1 = Len(commits)
              BY <2>1, <2>2, <3>0, <5>2
            <6>2. commits'[n - 1] = HeadTree
              BY <2>2, <5>2, <6>1 DEF HeadTree
            <6> QED BY <4>0, <4>1, <6>1, <6>2 DEF Inherited
          <5> QED BY <5>1, <5>2
        <4>2. CASE \E c \in Backups : From(c, a, staged[a]) /\ Abandoned(c)
          BY <2>3, <4>0, <4>2 DEF Inherited, From, Brought, Keeps
        <4> QED BY <2>5, <3>1, <4>1, <4>2 DEF From
      <3>2. (\A a \in Artifacts \ Brought(b) : Inherited(sha[b], a))'
        BY <2>3, <3>0, <3>1 DEF Brought, Inherited
      <3>3. sha'[b] \in DOMAIN commits' /\ Holds(commits[sha[b]], b)'
        BY <2>1, <2>2, <2>3 DEF Holds, Brought
      <3> QED BY <3>2, <3>3 DEF ShaInv
    <2>7. OwnInv(b)'
      <3>1. runs[b].sha = 0 /\ runs[b].status \notin {"success", "failed"}
        BY <1>0, <2>3 DEF OwnInv, RunInv
      <3>2. sha'[b] # 0
        BY <2>1, <2>3
      <3>3. CallInv(b)'
        BY <2>3, <3>2 DEF CallInv, Before, AfterCommit, Writing, Brought
      <3>4. RunInv(b)'
        BY <2>3, <3>1 DEF RunInv
      <3> QED BY <2>6, <3>3, <3>4 DEF OwnInv
    <2>8. \A c \in Backups \ {b} : Undisturbed(c)
      BY <2>3, <2>4 DEF Undisturbed
    <2>9. RepositoryInv'
      <3>1. OwnCommits'
        <4>1. \A c, d \in Backups : c # d /\ sha'[c] # 0 => sha'[c] # sha'[d]
          BY <1>0, <2>3, <2>4 DEF RepositoryInv, OwnCommits
        <4>2. \A n \in DOMAIN commits' : \E c \in Backups : sha'[c] = n
          <5> TAKE n \in DOMAIN commits'
          <5>1. CASE n = Len(commits) + 1
            BY <2>3, <5>1
          <5>2. CASE n \in DOMAIN commits
            <6>1. PICK c \in Backups : sha[c] = n
              BY <1>0, <5>2 DEF RepositoryInv, OwnCommits
            <6>2. c # b
              BY <2>1, <2>2, <2>3, <5>2, <6>1
            <6> QED BY <2>3, <6>1, <6>2
          <5> QED BY <2>1, <2>2, <5>1, <5>2
        <4> QED BY <4>1, <4>2 DEF OwnCommits
      <3>2. StagedInv'
        <4>1. HeadTree' = staged'
          BY <2>2, <2>3 DEF HeadTree
        <4> QED BY <4>1 DEF StagedInv
      <3>3. TextInv'
        <4> SUFFICES ASSUME NEW n \in DOMAIN commits', NEW a \in Artifacts,
                            commits'[n][a] # NoContent
                     PROVE  \E c \in Backups : /\ From(c, a, commits[n][a])'
                                               /\ Abandoned(c)' \/ sha'[c] # 0
          BY DEF TextInv, From, Brought
        <4>1. ASSUME NEW m \in DOMAIN commits, commits[m][a] = commits'[n][a]
              PROVE  \E c \in Backups : /\ From(c, a, commits[n][a])'
                                        /\ Abandoned(c)' \/ sha'[c] # 0
          <5>1. PICK c \in Backups : From(c, a, commits[m][a]) /\ (Abandoned(c) \/ sha[c] # 0)
            BY <1>0, <4>1 DEF RepositoryInv, TextInv
          <5>2. Abandoned(c)' \/ sha'[c] # 0
            BY <5>1 DEF Keeps
          <5>3. From(c, a, commits[n][a])'
            BY <2>3, <4>1, <5>1 DEF From, Brought
          <5> QED BY <5>2, <5>3
        <4>2. CASE n \in DOMAIN commits
          BY <2>2, <4>1, <4>2
        <4>3. CASE n = Len(commits) + 1
          <5>0. commits'[n] = staged
            BY <2>2, <4>3
          <5>1. CASE staged[a] = HeadTree[a]
            <6>1. commits # <<>>
              BY <5>0, <5>1 DEF HeadTree, NoTree
            <6>2. Len(commits) \in DOMAIN commits /\ HeadTree = commits[Len(commits)]
              BY <2>1, <2>2, <6>1 DEF HeadTree
            <6> QED BY <4>1, <5>0, <5>1, <6>2
          <5>2. CASE From(b, a, staged[a])
            BY <2>1, <2>3, <5>0, <5>2 DEF From, Brought
          <5>3. CASE \E c \in Backups : From(c, a, staged[a]) /\ Abandoned(c)
            BY <2>3, <5>0, <5>3 DEF From, Brought, Keeps
          <5> QED BY <2>5, <5>1, <5>2, <5>3
        <4> QED BY <2>1, <2>2, <4>2, <4>3
      <3> QED BY <3>1, <3>2, <3>3 DEF RepositoryInv
    <2> QED BY <2>7, <2>8, <2>9, OneMoves
  <1>19. CASE NoChange(b)
    <2>1. /\ pc[b] = "commit" /\ pc[b] \in Writing /\ pc'[b] = "finalize" /\ outcome'[b] = "success"
          /\ \A c \in Backups \ {b} : pc'[c] = pc[c] /\ outcome'[c] = outcome[c]
          /\ UNCHANGED <<commits, worktree, staged, at, fetched, sha, runs, lost>>
          /\ fetched[b] \in Snapshots /\ Holds(staged, b) /\ staged = HeadTree
          /\ sha[b] = 0 /\ b \notin lost
      BY <1>0, <1>19 DEF NoChange, Conclude, Goto, IsClean, OwnInv, CallInv, TypeOK, Before, Writing
    <2>2. commits # <<>>
      <3>1. 1 \in Brought(b) /\ fetched[b][1] \in Contents /\ 1 \in Artifacts
        BY <2>1, SnapshotFacts DEF Brought
      <3>2. HeadTree[1] \in Contents
        BY <2>1, <3>1 DEF Holds
      <3> QED BY <3>1, <3>2, ContentsAssumption DEF HeadTree, NoTree
    <2>3. Len(commits) \in DOMAIN commits
      BY <1>0, <2>2 DEF TypeOK
    <2>4. InHistory(b)
      BY <2>1, <2>2, <2>3 DEF InHistory, HeadTree
    <2>5. OwnInv(b)'
      <3>1. CallInv(b)'
        BY <1>2, <2>1, <2>4 DEF CallInv, Before, AfterCommit, Writing
      <3>2. ShaInv(b)' /\ RunInv(b)'
        BY <1>0, <2>1 DEF OwnInv, ShaInv, RunInv
      <3> QED BY <3>1, <3>2 DEF OwnInv
    <2>6. \A c \in Backups \ {b} : Undisturbed(c)
      BY <2>1, Exclusive DEF Undisturbed
    <2>7. RepositoryInv'
      <3>1. OwnCommits'
        BY <1>0, <2>1 DEF RepositoryInv, OwnCommits
      <3>2. StagedInv'
        BY <2>1 DEF StagedInv, HeadTree
      <3>3. TextInv'
        BY <1>0, <2>1 DEF RepositoryInv, TextInv, From, Brought, Keeps
      <3> QED BY <3>1, <3>2, <3>3 DEF RepositoryInv
    <2> QED BY <2>5, <2>6, <2>7, OneMoves
  <1>20. CASE CommitFails(b)
    <2>1. /\ pc[b] \in Writing /\ pc'[b] = "finalize" /\ outcome'[b] = "failed"
          /\ \A c \in Backups \ {b} : pc'[c] = pc[c] /\ outcome'[c] = outcome[c]
          /\ UNCHANGED <<commits, worktree, staged, at, fetched, sha, runs, lost>>
          /\ fetched[b] \in Snapshots /\ sha[b] = 0 /\ b \notin lost
      BY <1>0, <1>20 DEF CommitFails, Conclude, Goto, OwnInv, CallInv, TypeOK, Before, Writing
    <2>2. OwnInv(b)'
      <3>1. CallInv(b)'
        BY <2>1 DEF CallInv, Before, AfterCommit, Writing
      <3>2. ShaInv(b)' /\ RunInv(b)'
        BY <1>0, <2>1 DEF OwnInv, ShaInv, RunInv, Writing
      <3> QED BY <3>1, <3>2 DEF OwnInv
    <2>3. \A c \in Backups \ {b} : Undisturbed(c)
      BY <2>1, Exclusive DEF Undisturbed
    <2>4. Abandoned(b)'
      BY <2>1, SnapshotFacts DEF Abandoned
    <2>5. RepositoryInv'
      BY <2>1, <2>4, RepositoryStays
    <2> QED BY <2>2, <2>3, <2>5, OneMoves
  <1> QED
    BY <1>4, <1>5, <1>6, <1>9, <1>10, <1>11, <1>12, <1>13, <1>14, <1>15, <1>16, <1>17, <1>18,
       <1>19, <1>20 DEF Step

LEMMA EnvironmentIInv ==
    ASSUME IInv, TypeOK', Keeps,
           \/ \E b \in Backups : RequestFails(b) \/ HooksFail(b)
           \/ Crash \/ Tick \/ UNCHANGED vars
    PROVE  IInv'
  <1> USE DEF repository, tables, locals, environment
  <1>0. TypeOK /\ \A c \in Backups : OwnInv(c)
    BY DEF IInv
  <1>1. CASE Crash
    <2>1. UNCHANGED <<commits, worktree, staged, at, fetched, sha, outcome, runs>>
      BY <1>1 DEF Crash
    <2>2. ASSUME NEW c \in Backups
          PROVE  \/ pc'[c] = "ended" /\ InFlight(c) /\ c \in lost'
                 \/ pc'[c] = pc[c] /\ ~InFlight(c) /\ (c \in lost' <=> c \in lost)
      BY <1>1 DEF Crash
    <2>3. ASSUME NEW c \in Backups PROVE OwnInv(c)'
      <3>1. InHistory(c) => InHistory(c)'
        BY <2>1 DEF InHistory, Holds, Brought
      <3>2. CallInv(c)'
        BY <1>0, <2>1, <2>2 DEF OwnInv, CallInv, InFlight, Before, AfterCommit, Writing, Brought
      <3>3. ShaInv(c)'
        <4>1. sha[c] # 0 => \A a \in Artifacts \ Brought(c) : Inherited(sha[c], a)'
          BY <1>0, <2>1, StaysInherited DEF OwnInv, ShaInv
        <4>2. sha[c] # 0 => sha[c] \in DOMAIN commits' /\ Holds(commits[sha[c]], c)'
          BY <1>0, <2>1 DEF OwnInv, ShaInv, Holds, Brought
        <4> QED BY <2>1, <4>1, <4>2 DEF ShaInv, Brought, Inherited
      <3>4. RunInv(c)'
        BY <1>0, <2>1, <2>2, <3>1 DEF OwnInv, RunInv
      <3> QED BY <3>2, <3>3, <3>4 DEF OwnInv
    <2>4. \A c \in Backups : pc[c] \in Writing => Abandoned(c)'
      <3> TAKE c \in Backups
      <3>1. pc[c] \in Writing => fetched[c] \in Snapshots /\ sha[c] = 0 /\ InFlight(c)
        BY <1>0 DEF OwnInv, CallInv, Before, Writing, InFlight
      <3>2. pc[c] \in Writing => fetched[c] # <<>> /\ c \in lost'
        BY <2>2, <3>1, SnapshotFacts
      <3> QED BY <2>1, <3>1, <3>2 DEF Abandoned
    <2>5. RepositoryInv'
      BY <2>1, <2>4, RepositoryStays
    <2> QED BY <2>3, <2>5 DEF IInv
  <1>2. ASSUME UNCHANGED <<repository, runs, pc, locals, lost>> PROVE IInv'
    <2>1. ASSUME NEW c \in Backups PROVE OwnInv(c)'
      BY <1>0, <1>2, OthersKeep DEF Undisturbed
    <2>2. RepositoryInv'
      BY <1>2, RepositoryStays
    <2> QED BY <2>1, <2>2 DEF IInv
  <1> QED BY <1>1, <1>2 DEF RequestFails, HooksFail, Tick, vars

\* What a call knows of the repository between two of its steps stays true
\* whatever the others do (IInv): the mutex keeps them out of its files, the
\* history only grows, no other call makes its commit, and what git's index holds
\* beside HEAD is this call's or was left by one that came to nothing.
THEOREM InductiveInvariant == Spec => []IInv
  <1>1. IInv /\ [Next]_vars => IInv'
    <2> SUFFICES ASSUME IInv, [Next]_vars PROVE IInv'
      OBVIOUS
    <2>1. TypeOK' /\ Keeps
      BY TypeStep, StepKeeps
    <2>2. ASSUME NEW b \in Backups, BeginRun(b) \/ Step(b) PROVE IInv'
      BY <2>1, <2>2, StepIInv
    <2> QED BY <2>1, <2>2, EnvironmentIInv DEF Next
  <1> QED BY InitIInv, <1>1, PTL DEF Spec

\* Every variable keeps its type (TypeOK), for any number of backups, artifacts,
\* contents, seconds and faults: no loop of BackupNow leaves the artifacts of its
\* fetch.
THEOREM TypeCorrect == Spec => []TypeOK
  <1>1. IInv => TypeOK
    BY DEF IInv
  <1> QED BY InductiveInvariant, <1>1, PTL

\* The row of a run tells the truth about the repository (RunTellsTheTruth):
\* what BackupNow concludes with agrees with what configstore.Commit did, also
\* when it fetched but some of the artifacts.
THEOREM RunsAreTruthful == Spec => []RunTellsTheTruth
  <1>1. ASSUME IInv PROVE RunTellsTheTruth
    <2>1. TypeOK /\ OwnCommits /\ \A b \in Backups : ShaInv(b) /\ RunInv(b)
      BY <1>1 DEF IInv, OwnInv, RepositoryInv
    <2> QED BY <2>1 DEF OwnCommits, ShaInv, RunInv, InHistory, RunTellsTheTruth
  <1> QED BY InductiveInvariant, <1>1, PTL

--------------------------------------------------------------------------------
(***************************************************************************)
(* What follows a commit: the rows, the change events, the search index.   *)
(***************************************************************************)

Hooks == {"record", "event", "delete", "index"}

\* How far call b is with artifact a of its commit: the row of config_versions, the
\* comparison with the predecessor, the text in the index.
Versioned(b, a) ==
    \/ pc[b] = "version" /\ a < at[b]
    \/ pc[b] \in Hooks \cup {"finalize", "ended"}

Indexed(b, a) == (pc[b] \in Hooks /\ a < at[b]) \/ pc[b] \in {"finalize", "ended"}

Compared(b, a) == Indexed(b, a) \/ (pc[b] \in {"delete", "index"} /\ a = at[b])

HasRow(b, a) == \E i \in DOMAIN versions : versions[i].artifact = a /\ versions[i].sha = sha[b]

HasEvent(b, a) == \E i \in DOMAIN changes : changes[i].artifact = a /\ changes[i].new = sha[b]

\* No other call fetched and committed the text that b's commit has for a.
Novel(b, a) ==
    \A c \in Backups \ {b} :
        sha[c] # 0 /\ a \in Brought(c) => commits[sha[c]][a] # commits[sha[b]][a]

\* The text is in the index, or a call is between taking it out and putting it back.
InIndex(a) ==
    \/ \E d \in search : d.artifact = a
    \/ \E c \in Backups : pc[c] = "index" /\ at[c] = a

\* Rows and events name commits, once, and an event a real difference.
TablesInv ==
    /\ \A i \in DOMAIN versions : versions[i].sha \in DOMAIN commits
    /\ \A i, j \in DOMAIN versions :
          versions[i].artifact = versions[j].artifact /\ versions[i].sha = versions[j].sha => i = j
    /\ \A i \in DOMAIN changes :
          /\ changes[i].new \in DOMAIN commits
          /\ changes[i].old # 0 =>
                /\ changes[i].old \in DOMAIN commits
                /\ commits[changes[i].old][changes[i].artifact]
                       # commits[changes[i].new][changes[i].artifact]
    /\ \A i, j \in DOMAIN changes :
          changes[i].artifact = changes[j].artifact /\ changes[i].new = changes[j].new => i = j

\* The rows and events of b's commit are those of the artifacts it fetched and is
\* through with, and none of those is without one.
RowsOf(b) ==
    \A i \in DOMAIN versions :
        versions[i].sha = sha[b] =>
            versions[i].artifact \in Brought(b) /\ Versioned(b, versions[i].artifact)

EventsOf(b) ==
    \A i \in DOMAIN changes :
        changes[i].new = sha[b] =>
            changes[i].artifact \in Brought(b) /\ Compared(b, changes[i].artifact)

Trail(b) ==
    /\ RowsOf(b)
    /\ EventsOf(b)
    /\ b \notin lost => \A a \in Brought(b) :
          /\ Versioned(b, a) /\ b \notin failing => HasRow(b, a)
          /\ Compared(b, a) /\ b \notin hooksFailing /\ Novel(b, a) => HasEvent(b, a)
          /\ Indexed(b, a) /\ hooksFailing = {} /\ lost = {} => InIndex(a)

HookInv(b) ==
    /\ sha[b] # 0 => Trail(b)
    /\ previous[b] # 0 => previous[b] \in DOMAIN commits
    /\ pc[b] = "event" =>
          /\ previous[b] # sha[b]
          /\ previous[b] # 0 =>
                \E c \in Backups \ {b} : sha[c] = previous[b] /\ at[b] \in Brought(c)
    /\ pc[b] \in {"commit", "clock"} => at[b] = 1
    /\ b \in lost => pc[b] = "ended" /\ runs[b].status # "success"

HistoryInv == IInv /\ TablesInv /\ \A b \in Backups : HookInv(b)

\* A step of call b adds to the tables at most what names its own commit, and takes
\* no text out of the index but to put it back.
TablesGrow(b) ==
    /\ Keeps
    /\ \A i \in DOMAIN versions : i \in DOMAIN versions' /\ versions'[i] = versions[i]
    /\ \A i \in DOMAIN versions' : i \in DOMAIN versions \/ versions'[i].sha = sha[b]
    /\ \A i \in DOMAIN changes : i \in DOMAIN changes' /\ changes'[i] = changes[i]
    /\ \A i \in DOMAIN changes' : i \in DOMAIN changes \/ changes'[i].new = sha[b]
    /\ hooksFailing = {} /\ lost = {} => \A a \in Artifacts : InIndex(a) => InIndex(a)'
    /\ UNCHANGED <<failing, hooksFailing, lost>>

\* What it leaves alone of another call.
Untouched(c) ==
    /\ pc'[c] = pc[c] /\ at'[c] = at[c] /\ sha'[c] = sha[c] /\ previous'[c] = previous[c]
    /\ fetched'[c] = fetched[c] /\ runs'[c] = runs[c]

LEMMA OthersKeepHooks ==
    ASSUME HistoryInv, NEW b \in Backups, NEW c \in Backups \ {b}, TablesGrow(b), Untouched(c)
    PROVE  HookInv(c)'
  <1>1. HookInv(c) /\ OwnInv(c) /\ TypeOK /\ Brought(c)' = Brought(c)
    BY DEF HistoryInv, IInv, Untouched, Brought
  \* The calls that fetched an artifact and committed are still there.
  <1>0. ASSUME NEW d \in Backups, NEW a, sha[d] # 0, a \in Brought(d)
        PROVE  sha'[d] = sha[d] /\ a \in Brought(d)' /\ sha[d] \in DOMAIN commits
    <2>1. fetched[d] # <<>>
      BY <1>0, <1>1, FetchedFacts
    <2>2. sha[d] \in DOMAIN commits
      BY <1>0 DEF HistoryInv, IInv, OwnInv, ShaInv
    <2> QED BY <1>0, <2>1, <2>2 DEF TablesGrow, Keeps, Brought
  <1>2. ASSUME sha[c] # 0 PROVE Trail(c)'
    <2>1. Trail(c) /\ sha[c] # sha[b] /\ sha[c] \in DOMAIN commits
      BY <1>1, <1>2 DEF HookInv, OwnInv, ShaInv, HistoryInv, IInv, RepositoryInv, OwnCommits
    <2>2. \A a : /\ Versioned(c, a)' <=> Versioned(c, a)
                 /\ Indexed(c, a)' <=> Indexed(c, a)
                 /\ Compared(c, a)' <=> Compared(c, a)
      BY DEF Versioned, Indexed, Compared, Untouched
    <2>3. RowsOf(c)'
      BY <1>1, <2>1 DEF TablesGrow, Untouched, Trail, RowsOf, Versioned
    <2>4. EventsOf(c)'
      BY <1>1, <2>1 DEF TablesGrow, Untouched, Trail, EventsOf, Compared, Indexed
    <2>5. ASSUME NEW a \in Artifacts PROVE HasRow(c, a) => HasRow(c, a)'
      BY DEF HasRow, TablesGrow, Untouched
    <2>6. ASSUME NEW a \in Artifacts PROVE HasEvent(c, a) => HasEvent(c, a)'
      BY DEF HasEvent, TablesGrow, Untouched
    <2>7. ASSUME NEW a \in Artifacts PROVE Novel(c, a)' => Novel(c, a)
      <3> SUFFICES ASSUME Novel(c, a)', NEW d \in Backups \ {c}, sha[d] # 0, a \in Brought(d)
                   PROVE  commits[sha[d]][a] # commits[sha[c]][a]
        BY DEF Novel
      <3> QED BY <1>0, <2>1 DEF Novel, TablesGrow, Keeps, Untouched
    <2>9. \A a \in Brought(c) : a \in Artifacts
      BY <1>1, FetchedFacts
    <2>8. c \notin lost' => \A a \in Brought(c)' :
              /\ Versioned(c, a)' /\ c \notin failing' => HasRow(c, a)'
              /\ Compared(c, a)' /\ c \notin hooksFailing' /\ Novel(c, a)' => HasEvent(c, a)'
              /\ Indexed(c, a)' /\ hooksFailing' = {} /\ lost' = {} => InIndex(a)'
      BY <1>1, <2>1, <2>2, <2>5, <2>6, <2>7, <2>9 DEF Trail, TablesGrow
    <2> QED BY <2>3, <2>4, <2>8 DEF Trail
  <1>3. previous[c] # 0 => previous[c] \in DOMAIN commits'
    BY <1>1 DEF HookInv, TablesGrow, Keeps
  <1>4. pc[c] = "event" /\ previous[c] # 0 =>
            \E d \in Backups \ {c} : sha'[d] = previous[c] /\ at[c] \in Brought(d)'
    BY <1>0, <1>1 DEF HookInv
  <1> QED BY <1>1, <1>2, <1>3, <1>4 DEF HookInv, Untouched, TablesGrow

LEMMA OneHookMoves ==
    ASSUME HistoryInv, IInv', NEW b \in Backups, TablesGrow(b), TablesInv', HookInv(b)',
           \A c \in Backups \ {b} : Untouched(c)
    PROVE  HistoryInv'
  <1>1. ASSUME NEW c \in Backups PROVE HookInv(c)'
    <2>1. CASE c = b BY <2>1
    <2>2. CASE c # b BY <2>2, OthersKeepHooks
    <2> QED BY <2>1, <2>2
  <1> QED BY <1>1 DEF HistoryInv

\* Appending a row to a table.
LEMMA Appended ==
    ASSUME NEW S, NEW s \in Seq(S), NEW x \in S
    PROVE  /\ DOMAIN Append(s, x) = 1 .. Len(s) + 1 /\ DOMAIN s = 1 .. Len(s) /\ Len(s) \in Nat
           /\ \A i \in DOMAIN s : i \in DOMAIN Append(s, x) /\ Append(s, x)[i] = s[i]
           /\ \A i \in DOMAIN Append(s, x) : i \in DOMAIN s \/ i = Len(s) + 1
           /\ Len(s) + 1 \in DOMAIN Append(s, x) /\ Len(s) + 1 \notin DOMAIN s
           /\ Append(s, x)[Len(s) + 1] = x
OBVIOUS

\* A step that leaves the tables alone, and is not the end of an INSERT into the index.
LEMMA TablesStay ==
    ASSUME HistoryInv, NEW b \in Backups, Keeps, UNCHANGED <<versions, changes, search>>,
           UNCHANGED <<failing, hooksFailing, lost>>, pc[b] # "index",
           \A c \in Backups \ {b} : Untouched(c)
    PROVE  TablesGrow(b) /\ TablesInv'
  <1>1. \A a \in Artifacts : InIndex(a) => InIndex(a)'
    BY DEF InIndex, Untouched
  <1>2. TablesGrow(b)
    BY <1>1 DEF TablesGrow
  <1>3. TablesInv'
    BY DEF HistoryInv, TablesInv, Keeps
  <1> QED BY <1>2, <1>3

\* Before it has committed, a call has left no trail.
LEMMA BeforeStep ==
    ASSUME HistoryInv, IInv', Keeps, NEW b \in Backups,
           \/ BeginRun(b) \/ FetchConfig(b) \/ FetchFails(b) \/ LockRepository(b)
           \/ OpenFile(b) \/ WriteFile(b) \/ StageArtifact(b) \/ NoChange(b) \/ CommitFails(b)
    PROVE  HistoryInv'
  <1> USE DEF repository, tables, locals, environment
  <1>1. /\ TypeOK /\ OwnInv(b) /\ HookInv(b)
        /\ pc[b] \in Before /\ sha[b] = 0 /\ sha' = sha /\ previous' = previous
        /\ UNCHANGED <<commits, versions, changes, search, failing, hooksFailing, lost>>
    <2>1. pc[b] \in Before /\ sha' = sha /\ previous' = previous
          /\ UNCHANGED <<commits, versions, changes, search, failing, hooksFailing, lost>>
      BY DEF BeginRun, FetchConfig, FetchFails, LockRepository, OpenFile, WriteFile,
         StageArtifact, NoChange, CommitFails, Before, Writing
    <2> QED BY <2>1 DEF HistoryInv, IInv, OwnInv, CallInv
  <1>2. /\ runs'[b].status # "success" /\ pc'[b] \notin {"event", "clock"}
        /\ pc'[b] = "commit" => at'[b] = 1
        /\ \A c \in Backups \ {b} : Untouched(c)
    <2>1. runs[b].status # "success"
      BY <1>1 DEF OwnInv, RunInv, Before, Writing
    <2>2. CASE StageArtifact(b)
      <3>1. at[b] \in Brought(b)
        BY <1>1, <2>2 DEF StageArtifact, OwnInv, CallInv, Writing
      <3>2. /\ pc'[b] \in {"open", "commit"} /\ (pc'[b] = "commit" => at'[b] = 1)
            /\ \A c \in Backups \ {b} : pc'[c] = pc[c] /\ at'[c] = at[c]
        BY <1>1, <2>2, <3>1, NextPasses DEF StageArtifact, PCs
      <3> QED BY <1>1, <2>1, <2>2, <3>2 DEF StageArtifact, Untouched
    <2>3. CASE BeginRun(b)
      BY <1>1, <2>3 DEF BeginRun, Goto, TypeOK, RunRows, Untouched
    <2>4. CASE FetchConfig(b) \/ FetchFails(b)
      BY <1>1, <2>1, <2>4 DEF FetchConfig, FetchFails, Conclude, Goto, TypeOK, Untouched
    <2>5. CASE LockRepository(b) \/ OpenFile(b) \/ WriteFile(b)
      BY <1>1, <2>1, <2>5 DEF LockRepository, OpenFile, WriteFile, Goto, TypeOK, Untouched
    <2>6. CASE NoChange(b) \/ CommitFails(b)
      BY <1>1, <2>1, <2>6 DEF NoChange, CommitFails, Conclude, Goto, TypeOK, Untouched
    <2> QED BY <2>2, <2>3, <2>4, <2>5, <2>6
  <1>3. TablesGrow(b) /\ TablesInv'
    <2>1. pc[b] # "index"
      BY <1>1 DEF Before, Writing
    <2> QED BY <1>1, <1>2, <2>1, TablesStay
  <1>4. HookInv(b)'
    BY <1>1, <1>2 DEF HookInv, Before, Writing
  <1> QED BY <1>2, <1>3, <1>4, OneHookMoves

LEMMA CommitStep ==
    ASSUME HistoryInv, IInv', Keeps, NEW b \in Backups, CommitTree(b)
    PROVE  HistoryInv'
  <1> USE DEF repository, tables, locals, environment
  <1>1. /\ TypeOK /\ OwnInv(b) /\ HookInv(b) /\ TablesInv /\ pc[b] = "commit" /\ pc'[b] = "clock"
        /\ UNCHANGED <<versions, changes, search, failing, hooksFailing, lost, at, previous, runs, fetched>>
    BY DEF CommitTree, Goto, HistoryInv, IInv, TypeOK
  <1>2. /\ DOMAIN commits = 1 .. Len(commits) /\ Len(commits) \in Nat
        /\ sha'[b] = Len(commits) + 1 /\ sha'[b] \notin DOMAIN commits
    <2>1. commits \in Seq(Trees) /\ staged \in Trees
      BY <1>1 DEF TypeOK
    <2>2. commits' = Append(commits, staged)
      BY DEF CommitTree
    <2> QED BY <1>1, <2>1, <2>2, Appended DEF CommitTree, TypeOK
  <1>3. \A c \in Backups \ {b} : Untouched(c)
    BY <1>1 DEF CommitTree, Goto, TypeOK, Untouched
  <1>4. TablesGrow(b) /\ TablesInv'
    BY <1>1, <1>2, <1>3, TablesStay
  <1>5. Trail(b)'
    <2>1. \A i \in DOMAIN versions : versions[i].sha # sha'[b]
      BY <1>1, <1>2 DEF TablesInv
    <2>2. \A i \in DOMAIN changes : changes[i].new # sha'[b]
      BY <1>1, <1>2 DEF TablesInv
    <2>3. \A a : ~Versioned(b, a)' /\ ~Compared(b, a)' /\ ~Indexed(b, a)'
      BY <1>1 DEF Versioned, Compared, Indexed, Hooks
    <2> QED BY <1>1, <2>1, <2>2, <2>3 DEF Trail, RowsOf, EventsOf
  <1>6. previous[b] # 0 => previous[b] \in DOMAIN commits'
    BY <1>1, <1>2 DEF HookInv, Keeps
  <1>7. HookInv(b)'
    BY <1>1, <1>5, <1>6 DEF HookInv
  <1> QED BY <1>3, <1>4, <1>7, OneHookMoves

LEMMA HookFacts ==
    ASSUME HistoryInv, NEW b \in Backups, pc[b] \in AfterCommit
    PROVE  /\ TypeOK /\ OwnInv(b) /\ HookInv(b) /\ TablesInv /\ Trail(b)
           /\ sha[b] # 0 /\ sha[b] \in DOMAIN commits /\ runs[b].status # "success"
           /\ at[b] \in Brought(b)
           /\ \A a \in Brought(b) : a \in Int /\ a \in Artifacts
  <1>1. TypeOK /\ OwnInv(b) /\ HookInv(b) /\ TablesInv
    BY DEF HistoryInv, IInv
  <1>2. sha[b] # 0 /\ sha[b] \in DOMAIN commits /\ runs[b].status # "success"
        /\ at[b] \in Brought(b)
    BY <1>1 DEF OwnInv, CallInv, ShaInv, RunInv, AfterCommit
  <1> QED BY <1>1, <1>2, FetchedFacts DEF HookInv

\* A step of b that leaves rows and events alone, and is through with no further
\* artifact but with the text of one.
LEMMA TrailStays ==
    ASSUME HistoryInv, NEW b \in Backups, Trail(b),
           UNCHANGED <<commits, versions, changes, failing, hooksFailing, lost, sha, fetched>>,
           TablesGrow(b),
           \A a \in Brought(b) : /\ Versioned(b, a)' <=> Versioned(b, a)
                                 /\ Compared(b, a) => Compared(b, a)'
                                 /\ Compared(b, a)' /\ b \notin hooksFailing => Compared(b, a)
                                 /\ Indexed(b, a)' /\ hooksFailing = {} => Indexed(b, a) \/ InIndex(a)'
    PROVE  Trail(b)'
  <1>0. Brought(b)' = Brought(b) /\ \A a \in Brought(b) : a \in Artifacts
    BY FetchedFacts DEF Brought, HistoryInv, IInv
  <1>1. RowsOf(b)'
    <2> SUFFICES ASSUME NEW i \in DOMAIN versions, versions[i].sha = sha[b]
                 PROVE  versions[i].artifact \in Brought(b) /\ Versioned(b, versions[i].artifact)'
      BY <1>0 DEF RowsOf, Versioned
    <2>1. versions[i].artifact \in Brought(b) /\ Versioned(b, versions[i].artifact)
      BY DEF Trail, RowsOf
    <2> QED BY <2>1
  <1>2. EventsOf(b)'
    <2> SUFFICES ASSUME NEW i \in DOMAIN changes, changes[i].new = sha[b]
                 PROVE  changes[i].artifact \in Brought(b) /\ Compared(b, changes[i].artifact)'
      BY <1>0 DEF EventsOf, Compared, Indexed
    <2>1. changes[i].artifact \in Brought(b) /\ Compared(b, changes[i].artifact)
      BY DEF Trail, EventsOf
    <2> QED BY <2>1
  <1>3. \A a \in Brought(b) : /\ HasRow(b, a)' <=> HasRow(b, a)
                              /\ HasEvent(b, a)' <=> HasEvent(b, a)
                              /\ Novel(b, a)' <=> Novel(b, a)
                              /\ InIndex(a) /\ hooksFailing = {} /\ lost = {} => InIndex(a)'
    BY <1>0 DEF HasRow, HasEvent, Novel, Brought, TablesGrow
  <1> QED BY <1>0, <1>1, <1>2, <1>3 DEF Trail

LEMMA ClockStep ==
    ASSUME HistoryInv, IInv', Keeps, NEW b \in Backups, ReadClock(b)
    PROVE  HistoryInv'
  <1> USE DEF repository, tables, locals, environment
  <1>1. /\ pc[b] = "clock" /\ pc'[b] = "version" /\ UNCHANGED <<at, sha, previous, runs, fetched>>
        /\ UNCHANGED <<commits, versions, changes, search, failing, hooksFailing, lost>>
        /\ \A c \in Backups \ {b} : Untouched(c)
    BY DEF ReadClock, Goto, HistoryInv, IInv, TypeOK, Untouched
  <1>2. pc[b] \in AfterCommit
    BY <1>1 DEF AfterCommit
  <1>3. TablesGrow(b) /\ TablesInv'
    BY <1>1, TablesStay
  <1>4. at[b] = 1
    BY <1>1, <1>2, HookFacts DEF HookInv
  <1>5. \A a \in Brought(b) : ~(a < 1)
    BY DEF Brought
  <1>6. \A a \in Brought(b) : /\ ~Versioned(b, a)' /\ ~Compared(b, a)' /\ ~Indexed(b, a)'
                              /\ ~Versioned(b, a) /\ ~Compared(b, a) /\ ~Indexed(b, a)
    BY <1>1, <1>4, <1>5 DEF Versioned, Compared, Indexed, Hooks
  <1>7. Trail(b)'
    BY <1>1, <1>2, <1>3, <1>6, HookFacts, TrailStays
  <1>8. HookInv(b)'
    BY <1>1, <1>2, <1>7, HookFacts DEF HookInv
  <1> QED BY <1>1, <1>3, <1>8, OneHookMoves

LEMMA PredecessorStep ==
    ASSUME HistoryInv, IInv', Keeps, NEW b \in Backups, FindPredecessor(b)
    PROVE  HistoryInv'
  <1> USE DEF repository, tables, locals, environment
  <1>1. /\ pc[b] = "record" /\ UNCHANGED <<at, sha, runs, fetched>>
        /\ UNCHANGED <<commits, versions, changes, search, failing, hooksFailing, lost>>
    BY DEF FindPredecessor
  <1>2. pc[b] \in AfterCommit
    BY <1>1 DEF AfterCommit
  <1>3. \/ b \in hooksFailing /\ pc'[b] = "delete" /\ previous'[b] = previous[b]
        \/ /\ pc'[b] = "event"
           /\ previous'[b] = 0 \/ \E i \in Candidates(b) : previous'[b] = versions[i].sha
    BY DEF FindPredecessor, Goto, HistoryInv, IInv, TypeOK
  <1>4. \A c \in Backups \ {b} : Untouched(c)
    <2>1. \A c \in Backups \ {b} : pc'[c] = pc[c] /\ previous'[c] = previous[c]
      BY DEF FindPredecessor, Goto, HistoryInv, IInv, TypeOK
    <2> QED BY <1>1, <2>1 DEF Untouched
  <1>5. TablesGrow(b) /\ TablesInv'
    BY <1>1, <1>4, TablesStay
  <1>6. \A a \in Brought(b) : /\ Versioned(b, a)' <=> Versioned(b, a)
                              /\ Compared(b, a) => Compared(b, a)'
                              /\ Compared(b, a)' /\ b \notin hooksFailing => Compared(b, a)
                              /\ Indexed(b, a)' <=> Indexed(b, a)
    BY <1>1, <1>3 DEF Versioned, Compared, Indexed, Hooks
  <1>7. Trail(b)'
    BY <1>1, <1>2, <1>5, <1>6, HookFacts, TrailStays
  \* The predecessor is the commit of another call that fetched the artifact.
  <1>8. ASSUME NEW i \in Candidates(b)
        PROVE  /\ versions[i].sha \in DOMAIN commits /\ versions[i].sha # sha[b]
               /\ \E c \in Backups \ {b} : sha[c] = versions[i].sha /\ at[b] \in Brought(c)
    <2>1. versions[i].sha \in DOMAIN commits /\ versions[i].sha # sha[b]
          /\ i \in DOMAIN versions /\ versions[i].artifact = at[b] /\ versions[i].sha # 0
      BY <1>2, <1>8, HookFacts DEF Candidates, RowsBut, TablesInv, TypeOK
    <2>2. PICK c \in Backups : sha[c] = versions[i].sha
      BY <2>1 DEF HistoryInv, IInv, RepositoryInv, OwnCommits
    <2>3. RowsOf(c)
      BY <2>1, <2>2 DEF HistoryInv, HookInv, Trail
    <2> QED BY <2>1, <2>2, <2>3 DEF RowsOf
  <1>9. /\ previous'[b] # 0 => previous'[b] \in DOMAIN commits
        /\ pc'[b] = "event" =>
              /\ previous'[b] # sha[b]
              /\ previous'[b] # 0 =>
                    \E c \in Backups \ {b} : sha[c] = previous'[b] /\ at[b] \in Brought(c)
    BY <1>2, <1>3, <1>8, HookFacts DEF HookInv
  <1>11. \A c \in Backups : Brought(c)' = Brought(c)
    BY <1>1 DEF Brought
  <1>10. HookInv(b)'
    BY <1>1, <1>2, <1>3, <1>7, <1>9, <1>11, HookFacts DEF HookInv
  <1> QED BY <1>4, <1>5, <1>10, OneHookMoves

LEMMA FinalizeStep ==
    ASSUME HistoryInv, IInv', Keeps, NEW b \in Backups, Finalize(b)
    PROVE  HistoryInv'
  <1> USE DEF repository, tables, locals, environment
  <1>1. /\ pc[b] = "finalize" /\ pc'[b] = "ended" /\ UNCHANGED <<at, sha, previous, fetched>>
        /\ UNCHANGED <<commits, versions, changes, search, failing, hooksFailing, lost>>
        /\ \A c \in Backups \ {b} : Untouched(c)
    BY DEF Finalize, Goto, HistoryInv, IInv, TypeOK, Untouched
  <1>2. TablesGrow(b) /\ TablesInv'
    BY <1>1, TablesStay
  <1>3. \A a : /\ Versioned(b, a)' /\ Versioned(b, a) /\ Compared(b, a) /\ Compared(b, a)'
               /\ Indexed(b, a)
    BY <1>1 DEF Versioned, Compared, Indexed, Hooks
  <1>4. HookInv(b) /\ TypeOK
    BY DEF HistoryInv, IInv
  <1>6. sha[b] # 0 => Trail(b)'
    BY <1>1, <1>2, <1>3, <1>4, TrailStays DEF HookInv
  <1>7. b \notin lost
    BY <1>1, <1>4 DEF HookInv
  <1>8. HookInv(b)'
    BY <1>1, <1>4, <1>6, <1>7 DEF HookInv
  <1> QED BY <1>1, <1>2, <1>8, OneHookMoves

\* Every artifact the call gets through with has its row.
LEMMA VersionStep ==
    ASSUME HistoryInv, IInv', Keeps, NEW b \in Backups, InsertVersion(b)
    PROVE  HistoryInv'
  <1> USE DEF repository, tables, locals, environment
  <1>1. /\ pc[b] = "version" /\ pc[b] \in AfterCommit
        /\ UNCHANGED <<commits, changes, search, sha, previous, runs, failing, hooksFailing, lost, fetched>>
        /\ Brought(b)' = Brought(b)
    BY DEF InsertVersion, AfterCommit, Brought
  <1>2. /\ TypeOK /\ OwnInv(b) /\ HookInv(b) /\ TablesInv /\ Trail(b) /\ at[b] \in Brought(b)
        /\ sha[b] # 0 /\ sha[b] \in DOMAIN commits
        /\ \A a \in Brought(b) : a \in Int /\ a \in Artifacts
    BY <1>1, HookFacts
  <1>3. /\ \/ /\ pc'[b] = "version"
              /\ \A a \in Brought(b) : a < at'[b] <=> (a < at[b] \/ a = at[b])
           \/ /\ pc'[b] = "record" /\ at'[b] = 1
              /\ \A a \in Brought(b) : a < at[b] \/ a = at[b]
        /\ \A c \in Backups \ {b} : pc'[c] = pc[c] /\ at'[c] = at[c]
    BY <1>2, NextPasses DEF InsertVersion, PCs
  <1>4. \A c \in Backups \ {b} : Untouched(c)
    BY <1>1, <1>3 DEF Untouched
  <1>5. \A a \in Brought(b) : Versioned(b, a)' <=> Versioned(b, a) \/ a = at[b]
    BY <1>1, <1>3 DEF Versioned, Hooks
  <1>6. \A a \in Brought(b) : ~Compared(b, a) /\ ~Indexed(b, a) /\ ~Compared(b, a)' /\ ~Indexed(b, a)'
    <2>1. \A a \in Brought(b) : ~(a < 1)
      BY DEF Brought
    <2> QED BY <1>1, <1>3, <2>1 DEF Compared, Indexed, Hooks
  <1>7. \A i \in DOMAIN versions :
            ~(versions[i].artifact = at[b] /\ versions[i].sha = sha[b])
    <2>1. ~Versioned(b, at[b])
      <3>1. at[b] \in Int
        BY <1>2
      <3> QED BY <1>1, <3>1 DEF Versioned, Hooks
    <2> QED BY <1>2, <2>1 DEF Trail, RowsOf
  \* The row is there, unless its INSERT has failed.
  <1>8. /\ \A i \in DOMAIN versions : i \in DOMAIN versions' /\ versions'[i] = versions[i]
        /\ \A i \in DOMAIN versions' :
               i \in DOMAIN versions \/ (versions'[i].artifact = at[b] /\ versions'[i].sha = sha[b])
        /\ \A i, j \in DOMAIN versions' :
               i \notin DOMAIN versions /\ j \notin DOMAIN versions => i = j
        /\ b \notin failing =>
               \E i \in DOMAIN versions' :
                   versions'[i].artifact = at[b] /\ versions'[i].sha = sha[b]
    <2>1. CASE b \in failing /\ UNCHANGED versions
      BY <2>1
    <2>2. CASE versions' = Append(versions, VersionRow(b))
      <3>1. VersionRow(b) \in Versions /\ versions \in Seq(Versions)
        BY <1>2 DEF VersionRow, Versions, TypeOK
      <3>3. VersionRow(b).artifact = at[b] /\ VersionRow(b).sha = sha[b]
        BY DEF VersionRow
      <3>4. /\ \A i \in DOMAIN versions : i \in DOMAIN versions' /\ versions'[i] = versions[i]
            /\ \A i \in DOMAIN versions' : i \in DOMAIN versions \/ i = Len(versions) + 1
            /\ Len(versions) + 1 \in DOMAIN versions'
            /\ versions'[Len(versions) + 1] = VersionRow(b)
        BY <2>2, <3>1, Appended
      <3> QED BY <3>3, <3>4
    <2> QED BY <2>1, <2>2 DEF InsertVersion
  <1>9. TablesGrow(b)
    <2>1. \A a \in Artifacts : InIndex(a) => InIndex(a)'
      BY <1>1, <1>4 DEF InIndex, Untouched
    <2> QED BY <1>1, <1>8, <2>1 DEF TablesGrow
  <1>10. TablesInv'
    <2>1. (\A i \in DOMAIN versions : versions[i].sha \in DOMAIN commits)'
      BY <1>1, <1>2, <1>8 DEF TablesInv
    <2>2. (\A i, j \in DOMAIN versions :
               versions[i].artifact = versions[j].artifact /\ versions[i].sha = versions[j].sha
               => i = j)'
      BY <1>2, <1>7, <1>8 DEF TablesInv
    <2> QED BY <1>1, <1>2, <2>1, <2>2 DEF TablesInv
  <1>11. Trail(b)'
    <2>1. RowsOf(b)'
      <3> SUFFICES ASSUME NEW i \in DOMAIN versions', versions'[i].sha = sha[b]
                   PROVE  /\ versions'[i].artifact \in Brought(b)
                          /\ Versioned(b, versions[i].artifact)'
        BY <1>1 DEF RowsOf, Versioned
      <3>1. CASE i \in DOMAIN versions
        <4>1. versions[i].artifact \in Brought(b) /\ Versioned(b, versions[i].artifact)
          BY <1>2, <1>8, <3>1 DEF Trail, RowsOf
        <4>2. versions'[i] = versions[i]
          BY <1>8, <3>1
        <4> QED BY <1>5, <4>1, <4>2 DEF Versioned
      <3>2. CASE i \notin DOMAIN versions
        BY <1>2, <1>5, <1>8, <3>2 DEF Versioned
      <3> QED BY <3>1, <3>2
    <2>2. EventsOf(b)'
      <3>1. \A i \in DOMAIN changes : changes[i].new # sha[b]
        BY <1>1, <1>2, <1>6 DEF Trail, EventsOf
      <3> QED BY <1>1, <3>1 DEF EventsOf
    <2>3. \A a \in Brought(b) : HasRow(b, a) => HasRow(b, a)'
      BY <1>1, <1>8 DEF HasRow
    <2>4. \A a \in Brought(b) : b \notin lost /\ b \notin failing /\ Versioned(b, a)' => HasRow(b, a)'
      <3> TAKE a \in Brought(b)
      <3>1. CASE a = at[b]
        BY <1>1, <1>8, <3>1 DEF HasRow
      <3>2. CASE a # at[b]
        BY <1>2, <1>5, <2>3, <3>2 DEF Trail
      <3> QED BY <3>1, <3>2
    <2> QED BY <1>1, <1>6, <2>1, <2>2, <2>4 DEF Trail
  <1>12. HookInv(b)'
    BY <1>1, <1>2, <1>3, <1>11 DEF HookInv
  <1> QED BY <1>4, <1>9, <1>10, <1>12, OneHookMoves

\* A text that no other call committed is told apart from the predecessor's.
LEMMA EventStep ==
    ASSUME HistoryInv, IInv', Keeps, NEW b \in Backups, InsertEvent(b)
    PROVE  HistoryInv'
  <1> USE DEF repository, tables, locals, environment
  <1>1. /\ pc[b] = "event" /\ pc[b] \in AfterCommit /\ pc'[b] = "delete"
        /\ UNCHANGED <<commits, versions, search, at, sha, previous, runs, fetched, failing, hooksFailing,
                      lost>>
        /\ \A c \in Backups : Brought(c)' = Brought(c)
        /\ \A c \in Backups \ {b} : Untouched(c)
    BY DEF InsertEvent, AfterCommit, Goto, HistoryInv, IInv, TypeOK, Untouched, Brought
  <1>2. /\ TypeOK /\ OwnInv(b) /\ HookInv(b) /\ TablesInv /\ Trail(b) /\ at[b] \in Brought(b)
        /\ sha[b] # 0 /\ sha[b] \in DOMAIN commits
        /\ \A a \in Brought(b) : a \in Int /\ a \in Artifacts
    BY <1>1, HookFacts
  <1>3. \A a \in Brought(b) : /\ Versioned(b, a)' <=> Versioned(b, a)
                              /\ Compared(b, a)' <=> Compared(b, a) \/ a = at[b]
                              /\ Indexed(b, a)' <=> Indexed(b, a)
    BY <1>1 DEF Versioned, Compared, Indexed, Hooks
  <1>4. \A i \in DOMAIN changes : ~(changes[i].artifact = at[b] /\ changes[i].new = sha[b])
    <2>1. ~Compared(b, at[b])
      <3>1. at[b] \in Int
        BY <1>2
      <3> QED BY <1>1, <3>1 DEF Compared, Indexed
    <2> QED BY <1>2, <2>1 DEF Trail, EventsOf
  <1> DEFINE e == [artifact |-> at[b], old |-> previous[b], new |-> sha[b]]
  <1>5. /\ \A i \in DOMAIN changes : i \in DOMAIN changes' /\ changes'[i] = changes[i]
        /\ \A i \in DOMAIN changes' :
               i \in DOMAIN changes \/ (changes'[i] = e /\ Differs(b))
        /\ \A i, j \in DOMAIN changes' :
               i \notin DOMAIN changes /\ j \notin DOMAIN changes => i = j
        /\ b \notin hooksFailing /\ Differs(b) => \E i \in DOMAIN changes' : changes'[i] = e
    <2>1. CASE (b \in hooksFailing \/ ~Differs(b)) /\ UNCHANGED changes
      BY <2>1
    <2>2. CASE Differs(b) /\ changes' = Append(changes, e)
      <3>1. e \in Changes /\ changes \in Seq(Changes)
        BY <1>2 DEF Changes, TypeOK
      <3>2. changes' = Append(changes, e)
        BY <2>2
      <3> HIDE DEF e
      <3>3. /\ \A i \in DOMAIN changes : i \in DOMAIN changes' /\ changes'[i] = changes[i]
            /\ \A i \in DOMAIN changes' : i \in DOMAIN changes \/ i = Len(changes) + 1
            /\ Len(changes) + 1 \in DOMAIN changes'
            /\ changes'[Len(changes) + 1] = e
        BY <3>1, <3>2, Appended
      <3> QED BY <2>2, <3>3
    <2> QED BY <2>1, <2>2 DEF InsertEvent
  <1>6. e.artifact = at[b] /\ e.old = previous[b] /\ e.new = sha[b]
    OBVIOUS
  <1> HIDE DEF e
  <1>7. TablesGrow(b)
    <2>1. \A a \in Artifacts : InIndex(a) => InIndex(a)'
      BY <1>1 DEF InIndex, Untouched
    <2> QED BY <1>1, <1>5, <1>6, <2>1 DEF TablesGrow, Keeps
  <1>8. TablesInv'
    <2>1. ASSUME NEW i \in DOMAIN changes'
          PROVE  /\ changes'[i].new \in DOMAIN commits
                 /\ changes'[i].old # 0 =>
                       /\ changes'[i].old \in DOMAIN commits
                       /\ commits[changes'[i].old][changes'[i].artifact]
                              # commits[changes'[i].new][changes'[i].artifact]
      <3>1. CASE i \in DOMAIN changes
        BY <1>2, <1>5, <3>1 DEF TablesInv
      <3>2. CASE changes'[i] = e /\ Differs(b)
        BY <1>2, <1>6, <3>2 DEF HookInv, Differs
      <3> QED BY <1>5, <3>1, <3>2
    <2>2. (\A i, j \in DOMAIN changes :
               changes[i].artifact = changes[j].artifact /\ changes[i].new = changes[j].new
               => i = j)'
      BY <1>2, <1>4, <1>5, <1>6 DEF TablesInv
    <2> QED BY <1>1, <1>2, <2>1, <2>2 DEF TablesInv
  <1>9. Trail(b)'
    <2>1. RowsOf(b)'
      <3> SUFFICES ASSUME NEW i \in DOMAIN versions, versions[i].sha = sha[b]
                   PROVE  /\ versions[i].artifact \in Brought(b)
                          /\ Versioned(b, versions[i].artifact)'
        BY <1>1 DEF RowsOf, Versioned
      <3>1. versions[i].artifact \in Brought(b) /\ Versioned(b, versions[i].artifact)
        BY <1>2 DEF Trail, RowsOf
      <3> QED BY <1>1, <1>3, <3>1
    <2>2. EventsOf(b)'
      <3> SUFFICES ASSUME NEW i \in DOMAIN changes', changes'[i].new = sha[b]
                   PROVE  /\ changes'[i].artifact \in Brought(b)
                          /\ Compared(b, changes[i].artifact)'
        BY <1>1 DEF EventsOf, Compared, Indexed
      <3>1. CASE i \in DOMAIN changes
        <4>1. changes[i].artifact \in Brought(b) /\ Compared(b, changes[i].artifact)
          BY <1>2, <1>5, <3>1 DEF Trail, EventsOf
        <4>2. changes'[i] = changes[i]
          BY <1>5, <3>1
        <4> QED BY <1>3, <4>1, <4>2 DEF Compared, Indexed
      <3>2. CASE changes'[i] = e
        BY <1>2, <1>3, <1>6, <3>2 DEF Compared, Indexed
      <3> QED BY <1>5, <3>1, <3>2
    <2>3. \A a \in Brought(b) : /\ HasRow(b, a)' <=> HasRow(b, a)
                                /\ HasEvent(b, a) => HasEvent(b, a)'
                                /\ Novel(b, a)' <=> Novel(b, a)
                                /\ InIndex(a) => InIndex(a)'
      BY <1>1, <1>2, <1>5 DEF HasRow, HasEvent, Novel, InIndex, Untouched
    <2>4. \A a : a = at[b] /\ b \notin hooksFailing /\ Novel(b, a) => HasEvent(b, a)'
      <3>1. Novel(b, at[b]) => Differs(b)
        BY <1>1, <1>2 DEF HookInv, Novel, Differs
      <3>2. (\E i \in DOMAIN changes' : changes'[i] = e) => \A a : a = at[b] => HasEvent(b, a)'
        BY <1>1, <1>6 DEF HasEvent
      <3> QED BY <1>5, <3>1, <3>2
    <2>5. \A a \in Brought(b) : b \notin lost =>
              /\ Versioned(b, a)' /\ b \notin failing => HasRow(b, a)'
              /\ Compared(b, a)' /\ b \notin hooksFailing /\ Novel(b, a)' => HasEvent(b, a)'
              /\ Indexed(b, a)' /\ hooksFailing = {} /\ lost = {} => InIndex(a)'
      <3> TAKE a \in Brought(b)
      <3>1. CASE a = at[b]
        BY <1>2, <1>3, <2>3, <2>4, <3>1 DEF Trail
      <3>2. CASE a # at[b]
        BY <1>2, <1>3, <2>3, <3>2 DEF Trail
      <3> QED BY <3>1, <3>2
    <2> QED BY <1>1, <2>1, <2>2, <2>5 DEF Trail
  <1>10. HookInv(b)'
    BY <1>1, <1>2, <1>9 DEF HookInv
  <1> QED BY <1>1, <1>7, <1>8, <1>10, OneHookMoves

\* A text leaves the index only for its new version.
LEMMA DocumentStep ==
    ASSUME HistoryInv, IInv', Keeps, NEW b \in Backups, DeleteDocument(b) \/ InsertDocument(b)
    PROVE  HistoryInv'
  <1> USE DEF repository, tables, locals, environment
  <1>1. /\ pc[b] \in {"delete", "index"} /\ pc[b] \in AfterCommit
        /\ UNCHANGED <<commits, versions, changes, sha, previous, runs, fetched, failing, hooksFailing, lost>>
    BY DEF DeleteDocument, InsertDocument, AfterCommit
  <1>2. /\ TypeOK /\ OwnInv(b) /\ HookInv(b) /\ TablesInv /\ Trail(b) /\ at[b] \in Brought(b)
        /\ \A a \in Brought(b) : a \in Int /\ a \in Artifacts
    BY <1>1, HookFacts
  <1>3. ASSUME AfterHooks(b)
        PROVE  /\ \/ /\ pc'[b] = "record"
                     /\ \A a \in Brought(b) : a < at'[b] <=> (a < at[b] \/ a = at[b])
                  \/ pc'[b] = "finalize" /\ \A a \in Brought(b) : a < at[b] \/ a = at[b]
               /\ \A c \in Backups \ {b} : pc'[c] = pc[c] /\ at'[c] = at[c]
    BY <1>2, <1>3, NextPasses DEF AfterHooks, PCs
  <1>4. /\ pc'[b] \in {"record", "index", "finalize"}
        /\ \A c \in Backups \ {b} : Untouched(c)
    <2>1. CASE AfterHooks(b)
      BY <1>1, <1>3, <2>1 DEF Untouched
    <2>2. CASE Goto(b, "index") /\ UNCHANGED <<at, outcome>>
      BY <1>1, <1>2, <2>2 DEF Goto, Untouched, TypeOK
    <2> QED BY <2>1, <2>2 DEF DeleteDocument, InsertDocument
  <1>5. \A a \in Brought(b) : /\ Versioned(b, a)' <=> Versioned(b, a)
                              /\ Compared(b, a)' <=> Compared(b, a)
    <2>1. CASE AfterHooks(b)
      BY <1>1, <1>3, <2>1 DEF Versioned, Compared, Indexed, Hooks
    <2>2. CASE pc[b] = "delete" /\ Goto(b, "index") /\ UNCHANGED <<at, outcome>>
      BY <1>1, <1>2, <2>2 DEF Goto, TypeOK, Versioned, Compared, Indexed, Hooks
    <2> QED BY <2>1, <2>2 DEF DeleteDocument, InsertDocument
  <1>6. ASSUME hooksFailing = {}, NEW a \in Artifacts
        PROVE  /\ InIndex(a) => InIndex(a)'
               /\ a \in Brought(b) /\ Indexed(b, a)' => Indexed(b, a) \/ InIndex(a)'
    <2>1. CASE DeleteDocument(b)
      <3>1. /\ search' = {d \in search : d.artifact # at[b]}
            /\ pc[b] = "delete" /\ pc'[b] = "index" /\ at' = at
        BY <1>2, <1>6, <2>1 DEF DeleteDocument, SameDocument, Goto, TypeOK
      <3>2. InIndex(a) => InIndex(a)'
        BY <1>4, <3>1 DEF InIndex, Untouched
      <3>3. Indexed(b, a)' => Indexed(b, a)
        BY <3>1 DEF Indexed, Hooks
      <3> QED BY <3>2, <3>3
    <2>2. CASE InsertDocument(b)
      <3>1. /\ search' = search \cup {[artifact |-> at[b], sha |-> sha[b]]}
            /\ pc[b] = "index" /\ AfterHooks(b)
        BY <1>6, <2>2 DEF InsertDocument
      <3>2. a = at[b] => \E d \in search' : d.artifact = a
        <4>1. [artifact |-> at[b], sha |-> sha[b]] \in search'
          BY <3>1
        <4>2. [artifact |-> at[b], sha |-> sha[b]].artifact = at[b]
          OBVIOUS
        <4> QED BY <4>1, <4>2
      <3>3. InIndex(a) => InIndex(a)'
        BY <1>4, <3>1, <3>2 DEF InIndex, Untouched
      <3>4. a \in Brought(b) /\ Indexed(b, a)' => Indexed(b, a) \/ a = at[b]
        BY <1>3, <3>1 DEF Indexed, Hooks
      <3> QED BY <3>2, <3>3, <3>4 DEF InIndex
    <2> QED BY <2>1, <2>2
  <1>7. TablesGrow(b)
    BY <1>1, <1>6 DEF TablesGrow
  <1>8. TablesInv'
    BY <1>1, <1>2 DEF TablesInv
  <1>9. Trail(b)'
    BY <1>1, <1>2, <1>5, <1>6, <1>7, TrailStays
  <1>10. HookInv(b)'
    BY <1>1, <1>2, <1>4, <1>9 DEF HookInv
  <1> QED BY <1>4, <1>7, <1>8, <1>10, OneHookMoves

\* Time, statements that begin to fail, and a crash.
LEMMA EnvironmentHooks ==
    ASSUME HistoryInv, IInv',
           \/ \E b \in Backups : RequestFails(b) \/ HooksFail(b)
           \/ Crash \/ Tick \/ UNCHANGED vars
    PROVE  HistoryInv'
  <1> USE DEF repository, tables, locals, environment
  <1>1. /\ UNCHANGED <<commits, versions, changes, search, runs, sha, at, previous, fetched>>
        /\ \A c \in Backups : Brought(c)' = Brought(c)
        /\ failing \subseteq failing' /\ hooksFailing \subseteq hooksFailing' /\ lost \subseteq lost'
    BY DEF RequestFails, HooksFail, Crash, Tick, vars, Brought
  <1>2. \/ pc' = pc /\ lost' = lost
        \/ Crash
    BY DEF RequestFails, HooksFail, Crash, Tick, vars
  <1>3. TablesInv'
    BY <1>1 DEF HistoryInv, TablesInv
  <1>4. ASSUME NEW c \in Backups PROVE HookInv(c)'
    <2>1. HookInv(c) /\ OwnInv(c)
      BY DEF HistoryInv, IInv
    <2>2. CASE pc' = pc /\ lost' = lost
      <3>1. Trail(c) => Trail(c)'
        <4>1. \A a : /\ Versioned(c, a)' <=> Versioned(c, a)
                     /\ Compared(c, a)' <=> Compared(c, a)
                     /\ Indexed(c, a)' <=> Indexed(c, a)
                     /\ HasRow(c, a)' <=> HasRow(c, a)
                     /\ HasEvent(c, a)' <=> HasEvent(c, a)
                     /\ Novel(c, a)' <=> Novel(c, a)
                     /\ InIndex(a)' <=> InIndex(a)
          BY <1>1, <2>2 DEF Versioned, Compared, Indexed, HasRow, HasEvent, Novel, InIndex
        <4>2. Trail(c) => RowsOf(c)'
          BY <1>1, <2>2 DEF Trail, RowsOf, Versioned
        <4>3. Trail(c) => EventsOf(c)'
          BY <1>1, <2>2 DEF Trail, EventsOf, Compared, Indexed
        <4> QED BY <1>1, <2>2, <4>1, <4>2, <4>3 DEF Trail
      <3> QED BY <1>1, <2>1, <2>2, <3>1 DEF HookInv
    <2>3. CASE Crash
      <3>1. /\ InFlight(c) => pc'[c] = "ended" /\ c \in lost'
            /\ ~InFlight(c) => pc'[c] = pc[c]
            /\ lost' # {} /\ \A d \in lost' : d \in lost \/ InFlight(d)
        BY <2>3 DEF Crash
      <3>2. CASE InFlight(c)
        <4>1. Trail(c) => Trail(c)'
          BY <1>1, <3>1, <3>2 DEF Trail, RowsOf, EventsOf, Versioned, Compared, Indexed
        <4>2. runs[c].status # "success"
          BY <2>1, <3>2 DEF InFlight, OwnInv, RunInv
        <4> QED BY <1>1, <2>1, <3>1, <3>2, <4>1, <4>2 DEF HookInv
      <3>3. CASE ~InFlight(c)
        <4>1. Trail(c) => Trail(c)'
          <5>1. \A a : /\ Versioned(c, a)' <=> Versioned(c, a)
                       /\ Compared(c, a)' <=> Compared(c, a)
                       /\ HasRow(c, a)' <=> HasRow(c, a)
                       /\ HasEvent(c, a)' <=> HasEvent(c, a)
                       /\ Novel(c, a)' <=> Novel(c, a)
            BY <1>1, <3>1, <3>3 DEF Versioned, Compared, Indexed, HasRow, HasEvent, Novel
          <5>2. Trail(c) => RowsOf(c)'
            BY <1>1, <3>1, <3>3 DEF Trail, RowsOf, Versioned
          <5>3. Trail(c) => EventsOf(c)'
            BY <1>1, <3>1, <3>3 DEF Trail, EventsOf, Compared, Indexed
          <5> QED BY <1>1, <3>1, <5>1, <5>2, <5>3 DEF Trail
        <4>2. pc[c] # "event"
          BY <3>3 DEF InFlight
        <4> QED BY <1>1, <2>1, <3>1, <3>3, <4>1, <4>2 DEF HookInv
      <3> QED BY <3>2, <3>3
    <2> QED BY <1>2, <2>2, <2>3
  <1> QED BY <1>3, <1>4 DEF HistoryInv

\* What a call has written about its commit is what it is through with, for every
\* call and whatever the others do (HistoryInv).
THEOREM HistoryInvariant == Spec => []HistoryInv
  <1>1. Init => HistoryInv
    <2> SUFFICES ASSUME Init PROVE HistoryInv
      OBVIOUS
    <2>1. TablesInv
      BY DEF Init, TablesInv
    <2>2. \A b \in Backups : HookInv(b)
      BY DEF Init, HookInv
    <2> QED BY <2>1, <2>2, InitIInv DEF HistoryInv
  <1>2. HistoryInv /\ [Next]_vars /\ IInv' => HistoryInv'
    <2> SUFFICES ASSUME HistoryInv, [Next]_vars, IInv' PROVE HistoryInv'
      OBVIOUS
    <2>0. Keeps
      BY StepKeeps DEF HistoryInv
    <2>1. ASSUME NEW b \in Backups, BeginRun(b) \/ Step(b) PROVE HistoryInv'
      BY <2>0, <2>1, BeforeStep, CommitStep, ClockStep, VersionStep, PredecessorStep, EventStep,
         DocumentStep, FinalizeStep DEF Step
    <2> QED BY <2>1, EnvironmentHooks DEF Next
  <1>3. HistoryInv => IInv
    BY DEF HistoryInv
  <1> QED BY InductiveInvariant, <1>1, <1>2, <1>3, PTL DEF Spec

\* Every artifact a call fetched and committed has its row in config_versions, just
\* one, or its INSERT failed or the call was cut short; and only text of calls with
\* failing statements, cut short or unsuccessful is in the history without a row that leads
\* to it (VersionsAccounted; service.go, BackupNow).
THEOREM EveryVersionIsOnRecord == Spec => []VersionsAccounted
  <1>1. ASSUME HistoryInv PROVE VersionsAccounted
    <2>1. ASSUME NEW b \in Backups \ failing, NEW a \in Brought(b),
                 runs[b].status = "success", sha[b] # 0
          PROVE  HasRow(b, a)
      <3>1. pc[b] = "ended" /\ Trail(b) /\ b \notin lost
        BY <1>1, <2>1 DEF HistoryInv, IInv, OwnInv, RunInv, HookInv
      <3> QED BY <2>1, <3>1 DEF Trail, Versioned
    <2>2. ASSUME NEW n \in DOMAIN commits, NEW a \in Artifacts, commits[n][a] # NoContent
          PROVE  \/ OnRecord(a, commits[n][a])
                 \/ \E b \in Backups :
                       /\ a \in Brought(b) /\ fetched[b][a] = commits[n][a]
                       /\ InFlight(b) \/ b \in failing \cup lost \/ outcome[b] = "failed"
      <3>1. PICK c \in Backups : From(c, a, commits[n][a]) /\ (Abandoned(c) \/ sha[c] # 0)
        BY <1>1, <2>2 DEF HistoryInv, IInv, RepositoryInv, TextInv
      <3>2. CASE InFlight(c) \/ c \in failing \cup lost \/ outcome[c] = "failed"
        BY <3>1, <3>2 DEF From
      <3>3. CASE ~(InFlight(c) \/ c \in failing \cup lost \/ outcome[c] = "failed")
        <4>1. sha[c] # 0 /\ OwnInv(c) /\ HookInv(c)
          BY <1>1, <3>1, <3>3 DEF Abandoned, HistoryInv, IInv
        <4>2. pc[c] = "ended"
          BY <3>3, <4>1 DEF InFlight, OwnInv, CallInv, Before
        <4>3. HasRow(c, a)
          BY <3>1, <3>3, <4>1, <4>2 DEF HookInv, Trail, Versioned, From
        <4>4. commits[sha[c]][a] = commits[n][a]
          BY <3>1, <4>1 DEF OwnInv, ShaInv, Holds, From
        <4> QED BY <4>3, <4>4 DEF HasRow, OnRecord
      <3> QED BY <3>2, <3>3
    <2> QED BY <1>1, <2>1, <2>2 DEF HistoryInv, TablesInv, VersionsAccounted, HasRow
  <1> QED BY HistoryInvariant, <1>1, PTL

\* An event is a real difference of two commits, reported once (ChangesAreReal;
\* changes.go, Record).
THEOREM EventsAreReal == Spec => []ChangesAreReal
  <1>1. HistoryInv => ChangesAreReal
    BY DEF HistoryInv, TablesInv, ChangesAreReal
  <1> QED BY HistoryInvariant, <1>1, PTL

\* Text no other call committed is reported by the call that fetched and committed
\* it, whatever backups of the device interleave and whatever they fetch, as long as
\* the hooks have time (NewContentIsReported; changes.go, Record).
THEOREM NewTextIsReported == Spec => []NewContentIsReported
  <1>1. ASSUME HistoryInv PROVE NewContentIsReported
    <2>1. ASSUME NEW b \in Backups \ hooksFailing, NEW a \in Brought(b),
                 runs[b].status = "success", sha[b] # 0, Novel(b, a)
          PROVE  HasEvent(b, a)
      <3>1. pc[b] = "ended" /\ Trail(b) /\ b \notin lost
        BY <1>1, <2>1 DEF HistoryInv, IInv, OwnInv, RunInv, HookInv
      <3> QED BY <2>1, <3>1 DEF Trail, Compared, Indexed
    <2> QED BY <2>1 DEF NewContentIsReported, Novel, HasEvent
  <1> QED BY HistoryInvariant, <1>1, PTL

\* What was indexed stays in the search index while nothing is cut short
\* (DocumentsStay; search.go, Index).
THEOREM IndexedTextStays == Spec => []DocumentsStay
  <1>1. ASSUME HistoryInv PROVE DocumentsStay
    <2>1. ASSUME NEW b \in Backups, NEW a \in Brought(b), hooksFailing = {}, lost = {},
                 runs[b].status = "success", sha[b] # 0
          PROVE  InIndex(a)
      <3>1. pc[b] = "ended" /\ Trail(b)
        BY <1>1, <2>1 DEF HistoryInv, IInv, OwnInv, RunInv, HookInv
      <3> QED BY <2>1, <3>1 DEF Trail, Indexed
    <2> QED BY <2>1 DEF DocumentsStay, InIndex
  <1> QED BY HistoryInvariant, <1>1, PTL

--------------------------------------------------------------------------------
(***************************************************************************)
(* The refinement.                                                         *)
(***************************************************************************)

BroughtHome == {fetched[b] : b \in {c \in Backups : fetched[c] # <<>>}}
CameToNothing == {fetched[b] : b \in {c \in Backups : Abandoned(c)}}

LEMMA InitSimulates == Init => History!Init
BY DEF Init, History!Init, Abandoned

LEMMA StepSimulates ==
    ASSUME IInv, [Next]_vars
    PROVE  [History!Next]_(History!vars)
  <1> USE DEF repository, tables, locals, environment
  <1>0. TypeOK /\ (\A b \in Backups : OwnInv(b)) /\ Keeps
    BY StepKeeps DEF IInv
  <1>1. ASSUME NEW b \in Backups, FetchConfig(b) PROVE History!Fetch
    <2>1. PICK s \in Snapshots : fetched' = [fetched EXCEPT ![b] = s]
      BY <1>1 DEF FetchConfig
    <2>2. fetched[b] = <<>> /\ s # <<>> /\ outcome[b] # "failed" /\ b \notin lost
      BY <1>0, <1>1, <2>1, SnapshotFacts DEF FetchConfig, OwnInv, CallInv
    <2>3. BroughtHome' = BroughtHome \cup {s}
      BY <1>0, <2>1, <2>2 DEF BroughtHome, TypeOK
    <2>4. CameToNothing' = CameToNothing
      <3>1. \A c \in Backups : (Abandoned(c)' <=> Abandoned(c))
                               /\ (Abandoned(c) => fetched'[c] = fetched[c])
        BY <1>0, <1>1, <2>1, <2>2 DEF FetchConfig, Abandoned, TypeOK
      <3> QED BY <3>1 DEF CameToNothing
    <2>5. commits' = commits
      BY <1>1 DEF FetchConfig
    <2> QED BY <2>3, <2>4, <2>5 DEF History!Fetch, BroughtHome, CameToNothing
  <1>2. ASSUME NEW b \in Backups, CommitTree(b) PROVE History!Record
    <2>1. /\ Holds(staged, b) /\ fetched[b] \in Snapshots /\ pc[b] \in Writing
          /\ sha[b] = 0 /\ outcome[b] # "failed" /\ b \notin lost
          /\ staged \in Trees
      BY <1>0, <1>2 DEF CommitTree, OwnInv, CallInv, Writing, Before, TypeOK
    <2>2. fetched[b] \in BroughtHome /\ DOMAIN fetched[b] = Brought(b)
      BY <1>0, <2>1, SnapshotFacts DEF BroughtHome, Brought
    <2>3. History!Newest = HeadTree
      BY DEF History!Newest, HeadTree
    <2>4. ASSUME NEW a \in Artifacts
          PROVE  IF a \in DOMAIN fetched[b] THEN staged[a] = fetched[b][a] ELSE History!Old(staged, a)
      <3>1. CASE a \in Brought(b)
        BY <2>1, <2>2, <3>1 DEF Holds
      <3>2. CASE a \notin Brought(b) /\ staged[a] # HeadTree[a]
        <4>1. PICK c \in Backups : From(c, a, staged[a]) /\ (Abandoned(c) \/ pc[c] \in Writing)
          BY <3>2 DEF IInv, RepositoryInv, StagedInv
        <4>2. Abandoned(c)
          BY <2>1, <3>2, <4>1, Exclusive DEF From
        <4>3. fetched[c] \in CameToNothing /\ a \in DOMAIN fetched[c] /\ staged[a] = fetched[c][a]
          BY <1>0, <4>1, <4>2, FetchedFacts DEF CameToNothing, From, Abandoned
        <4> QED BY <2>2, <3>2, <4>3 DEF History!Old, CameToNothing
      <3>3. CASE a \notin Brought(b) /\ staged[a] = HeadTree[a]
        BY <2>2, <2>3, <3>3 DEF History!Old
      <3> QED BY <3>1, <3>2, <3>3
    <2>5. staged # History!Newest /\ commits' = Append(commits, staged) /\ fetched' = fetched
      BY <1>2, <2>3 DEF CommitTree
    <2>6. CameToNothing' = CameToNothing
      <3>1. \A c \in Backups : Abandoned(c)' <=> Abandoned(c)
        BY <1>0, <1>2, <2>1 DEF CommitTree, Abandoned, TypeOK
      <3> QED BY <2>5, <3>1 DEF CameToNothing
    <2> QED BY <2>1, <2>2, <2>4, <2>5, <2>6 DEF History!Record, BroughtHome, CameToNothing
  <1>3. ASSUME UNCHANGED <<commits, fetched>> PROVE History!Abandon
    <2>1. CameToNothing \subseteq CameToNothing' /\ BroughtHome' = BroughtHome
      BY <1>0, <1>3 DEF Keeps, CameToNothing, BroughtHome
    <2>2. CameToNothing' \subseteq BroughtHome
      BY <1>3 DEF CameToNothing, BroughtHome, Abandoned
    <2> QED BY <1>3, <2>1, <2>2 DEF History!Abandon, CameToNothing, BroughtHome
  <1>4. CASE \E b \in Backups : FetchConfig(b)
    BY <1>1, <1>4 DEF History!Next
  <1>5. CASE \E b \in Backups : CommitTree(b)
    BY <1>2, <1>5 DEF History!Next
  <1>6. ASSUME ~ \E b \in Backups : FetchConfig(b) \/ CommitTree(b)
        PROVE  UNCHANGED <<commits, fetched>>
    BY <1>6 DEF Next, vars, Step, BeginRun, FetchFails, LockRepository, OpenFile, WriteFile,
       StageArtifact, NoChange, CommitFails, ReadClock, InsertVersion, FindPredecessor,
       InsertEvent, DeleteDocument, InsertDocument, Finalize, RequestFails, HooksFail, Crash, Tick
  <1> QED BY <1>3, <1>4, <1>5, <1>6 DEF History!Next

\* BackupNow keeps the history of ConfigHistory (ImplementsHistory): a commit holds
\* what one call fetched, and what it did not fetch is as it was or left over from
\* a call that came to nothing; none repeats its predecessor, although files are
\* staged one by one and a call may die in between.
THEOREM BackupsKeepTheHistory == Spec => ImplementsHistory
  <1>1. Init => History!Init
    BY InitSimulates
  <1>2. IInv /\ [Next]_vars => [History!Next]_(History!vars)
    BY StepSimulates
  <1> QED BY InductiveInvariant, <1>1, <1>2, PTL DEF Spec, ImplementsHistory, History!Spec

================================================================================
