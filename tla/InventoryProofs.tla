---------------------------- MODULE InventoryProofs ----------------------------
(***************************************************************************)
(* Theorems about Startup and Inventory, for any number of replicas,       *)
(* starts and requests, any migrations and any tenants: nothing serves on  *)
(* half a schema, one administrator is made, and what the audit log says   *)
(* was deleted stays gone.                                                 *)
(***************************************************************************)
EXTENDS Inventory, WellFoundedInduction, TLAPS

-----------------------------------------------------------------------------
(***************************************************************************)
(* The next version to apply exists.  The library proves that the natural  *)
(* numbers are well-founded, and with that every set of them has a least   *)
(* element.                                                                *)
(***************************************************************************)
Below == {pair \in Nat \X Nat : pair[1] < pair[2]}

LEMMA BelowIsWellFounded == IsWellFoundedOn(Below, Nat)
  BY NatLessThanWellFounded DEF OpToRel, Below

LEMMA LeastElement ==
  ASSUME NEW S \in SUBSET Nat, S # {}
  PROVE  \E x \in S : \A y \in S : x <= y
<1>1. PICK x \in S : \A y \in S : ~ (<<y, x>> \in Below)
  BY BelowIsWellFounded, WFMin, Zenon
<1>2. ASSUME NEW y \in S PROVE x <= y
  <2>1. x \in Nat /\ y \in Nat
    OBVIOUS
  <2>2. ~ (<<y, x>> \in Below)
    BY <1>1
  <2>3. ~ (y < x)
    BY <2>1, <2>2 DEF Below
  <2> QED
    BY <2>1, <2>3
<1> QED
  BY <1>2

LEMMA Lengths == Len(Migrations) \in Nat /\ \A v \in Versions : Len(Migrations[v]) \in Nat
  BY MigrationsAssumption DEF Versions

LEMMA NextVersion ==
  ASSUME NEW S \in SUBSET Versions, NEW v \in 1 .. Len(Migrations) + 1
  PROVE  \E w \in v .. Len(Migrations) + 1 : w \notin S /\ \A u \in v .. w - 1 : u \in S
<1> DEFINE missing == (v .. Len(Migrations) + 1) \ S
<1>1. missing \in SUBSET Nat
  BY Lengths
<1>2. Len(Migrations) + 1 \in missing
  BY Lengths DEF Versions
<1>3. PICK w \in missing : \A y \in missing : w <= y
  BY <1>1, <1>2, LeastElement
<1>4. ASSUME NEW u \in v .. w - 1 PROVE u \in S
  BY <1>1, <1>3, Lengths
<1> QED
  BY <1>3, <1>4

LEMMA FirstAfterIsNext ==
  ASSUME NEW r \in Replicas, applied[r] \subseteq Versions, NEW v \in 1 .. Len(Migrations) + 1
  PROVE  /\ FirstAfter(r, v) \in v .. Len(Migrations) + 1
         /\ \A u \in v .. FirstAfter(r, v) - 1 : u \in applied[r]
  BY NextVersion DEF FirstAfter
-----------------------------------------------------------------------------
(***************************************************************************)
(* Starts.  What a replica found applied is recorded, and so is every      *)
(* version before the one it is at, of which it ran the statements before  *)
(* the next: whatever other replicas do only adds to both.                 *)
(***************************************************************************)
Places == {"down", "list", "migrate", "tenant", "user", "show", "serving", "stopping"}

StartupTypeOK ==
    /\ executed \subseteq Schema /\ recorded \subseteq Versions /\ default \in BOOLEAN
    /\ admins \in Seq(Passwords \cup {Unset})
    /\ pc \in [Replicas -> Places]
    /\ applied \in [Replicas -> SUBSET Versions]
    /\ DOMAIN at = Replicas
    /\ preset \in [Replicas -> Passwords \cup {Unset}]
    /\ starts \in 0 .. MaxStarts /\ refused \in Nat

Complete == \A v \in recorded : Statements(v) \subseteq executed

Progress(r) ==
    pc[r] = "migrate" =>
        /\ applied[r] \subseteq recorded
        /\ \E v \in 1 .. Len(Migrations) + 1, i \in Nat \ {0} :
               /\ at[r] = <<v, i>>
               /\ \A u \in 1 .. v - 1 : u \in recorded
               /\ \A j \in 1 .. i - 1 : <<v, j>> \in executed

PastMigrations(r) == pc[r] \in {"tenant", "user", "show", "serving", "stopping"} => recorded = Versions

\* At most one replica is between the two INSERTs, and none has come so far before.
Bootstrap(r) ==
    /\ pc[r] = "user" => /\ default /\ admins = <<>>
                         /\ \A s \in Replicas : pc[s] = "user" => s = r
    /\ pc[r] \in {"show", "serving", "stopping"} => Len(admins) = 1

OneUser == Len(admins) <= 1 /\ (admins # <<>> => default)

StartupInv ==
    /\ StartupTypeOK /\ Complete /\ OneUser
    /\ \A r \in Replicas : Progress(r) /\ PastMigrations(r) /\ Bootstrap(r)

LEMMA StartupInitEstablishes == StartupInit => StartupInv
<1> SUFFICES ASSUME StartupInit PROVE StartupInv
  OBVIOUS
<1>1. StartupTypeOK
  <2>1. admins \in Seq(Passwords \cup {Unset})
    BY DEF StartupInit
  <2>2. starts \in 0 .. MaxStarts
    BY StartsAssumption DEF StartupInit
  <2> QED
    BY <2>1, <2>2 DEF StartupInit, StartupTypeOK, Places
<1>2. Complete /\ OneUser
  BY DEF StartupInit, Complete, OneUser
<1>3. \A r \in Replicas : Progress(r) /\ PastMigrations(r) /\ Bootstrap(r)
  BY DEF StartupInit, Progress, PastMigrations, Bootstrap
<1> QED
  BY <1>1, <1>2, <1>3 DEF StartupInv

\* A replica that goes elsewhere in the program, at places that promise nothing.
LEMMA MovesKeep ==
  ASSUME NEW r \in Replicas, StartupInv, NEW place \in {"down", "list"},
         pc' = [pc EXCEPT ![r] = place] \/ pc' = pc,
         UNCHANGED <<database, applied, at>>,
         preset' \in [Replicas -> Passwords \cup {Unset}],
         starts' \in 0 .. MaxStarts, refused' \in Nat
  PROVE  StartupInv'
<1>1. \A s \in Replicas : pc'[s] = pc[s] \/ pc'[s] = place
  BY DEF StartupInv, StartupTypeOK
<1>2. StartupTypeOK'
  BY DEF StartupInv, StartupTypeOK, Places, database
<1>3. Complete' /\ OneUser'
  BY DEF StartupInv, Complete, OneUser, database
<1>4. ASSUME NEW s \in Replicas PROVE (Progress(s) /\ PastMigrations(s) /\ Bootstrap(s))'
  <2>1. Progress(s) /\ PastMigrations(s) /\ Bootstrap(s)
    BY DEF StartupInv
  <2>2. Progress(s)'
    BY <1>1, <2>1 DEF Progress, database
  <2>3. PastMigrations(s)'
    BY <1>1, <2>1 DEF PastMigrations, database
  <2>4. Bootstrap(s)'
    BY <1>1, <2>1 DEF Bootstrap, database
  <2> QED
    BY <2>2, <2>3, <2>4
<1> QED
  BY <1>2, <1>3, <1>4 DEF StartupInv

LEMMA StartKeeps ==
  ASSUME NEW r \in Replicas, StartupInv, NEW valid \in BOOLEAN,
         NEW password \in Passwords \cup {Unset}, Start(r, valid, password)
  PROVE  StartupInv'
<1>1. pc' = [pc EXCEPT ![r] = "list"] \/ pc' = pc
  BY DEF Start, Goto
<1>2. UNCHANGED <<database, applied, at, refused>>
  BY DEF Start
<1>3. preset' \in [Replicas -> Passwords \cup {Unset}] /\ starts' \in 0 .. MaxStarts /\ refused' \in Nat
  BY StartsAssumption DEF StartupInv, StartupTypeOK, Start
<1> QED
  BY <1>1, <1>2, <1>3, MovesKeep

LEMMA RefuseKeeps ==
  ASSUME NEW r \in Replicas, StartupInv, Refuse(r)
  PROVE  StartupInv'
<1>1. pc' = [pc EXCEPT ![r] = "down"] /\ UNCHANGED <<database, applied, at, preset, starts>>
  BY DEF Refuse, Goto
<1>2. preset' \in [Replicas -> Passwords \cup {Unset}] /\ starts' \in 0 .. MaxStarts /\ refused' \in Nat
  BY DEF StartupInv, StartupTypeOK, Refuse
<1> QED
  BY <1>1, <1>2, MovesKeep

LEMMA DieKeeps ==
  ASSUME NEW r \in Replicas, StartupInv, Die(r)
  PROVE  StartupInv'
<1>1. pc' = [pc EXCEPT ![r] = "down"] /\ UNCHANGED <<database, applied, at, preset, starts, refused>>
  BY DEF Die, Goto
<1>2. preset' \in [Replicas -> Passwords \cup {Unset}] /\ starts' \in 0 .. MaxStarts /\ refused' \in Nat
  BY <1>1 DEF StartupInv, StartupTypeOK
<1> QED
  BY <1>1, <1>2, MovesKeep

\* What one replica does leaves the progress of the others true.
OthersProgress(r) ==
    /\ recorded \subseteq recorded' /\ executed \subseteq executed'
    /\ \A s \in Replicas \ {r} : pc'[s] = pc[s] /\ at'[s] = at[s] /\ applied'[s] = applied[s]

LEMMA OthersProgressKeeps ==
  ASSUME NEW r \in Replicas, StartupInv, OthersProgress(r), recorded' \subseteq Versions,
         NEW s \in Replicas, s # r
  PROVE  Progress(s)' /\ PastMigrations(s)'
<1>1. Progress(s) /\ PastMigrations(s)
  BY DEF StartupInv
<1>2. Progress(s)'
  BY <1>1 DEF Progress, OthersProgress
<1>3. PastMigrations(s)'
  BY <1>1 DEF PastMigrations, OthersProgress
<1> QED
  BY <1>2, <1>3

\* While no user is inserted, and nobody comes to the place where one is, the
\* bootstrap stays as it is.
LEMMA BootstrapKeeps ==
  ASSUME NEW r \in Replicas, StartupInv, UNCHANGED <<default, admins>>,
         \A s \in Replicas : pc'[s] = pc[s] \/ pc'[s] \in {"down", "list", "migrate", "tenant"}
  PROVE  OneUser' /\ \A s \in Replicas : Bootstrap(s)'
  BY DEF StartupInv, OneUser, Bootstrap

LEMMA ListAppliedKeeps ==
  ASSUME NEW r \in Replicas, StartupInv, ListApplied(r)
  PROVE  StartupInv'
<1>1. /\ applied' = [applied EXCEPT ![r] = recorded] /\ pc' = [pc EXCEPT ![r] = "migrate"]
      /\ at' = [at EXCEPT ![r] = <<FirstAfter(r, 1)', 1>>]
      /\ UNCHANGED <<database, preset, starts, refused>>
  BY DEF ListApplied, Goto
<1>2. StartupTypeOK'
  BY <1>1 DEF StartupInv, StartupTypeOK, Places, database
<1>3. Complete'
  BY <1>1 DEF StartupInv, Complete, database
<1>4. OneUser' /\ \A s \in Replicas : Bootstrap(s)'
  <2>1. \A s \in Replicas : pc'[s] = pc[s] \/ pc'[s] = "migrate"
    BY <1>1 DEF StartupInv, StartupTypeOK
  <2> QED
    BY <1>1, <2>1, BootstrapKeeps DEF database
<1>5. \A s \in Replicas \ {r} : Progress(s)' /\ PastMigrations(s)'
  <2>1. OthersProgress(r) /\ recorded' \subseteq Versions
    BY <1>1 DEF StartupInv, StartupTypeOK, OthersProgress, database
  <2> QED
    BY <2>1, OthersProgressKeeps
<1>6. Progress(r)'
  <2> DEFINE w == FirstAfter(r, 1)'
  <2>1. applied'[r] = recorded /\ recorded' = recorded /\ recorded \subseteq Versions
    BY <1>1 DEF StartupInv, StartupTypeOK, database
  <2>2. w \in 1 .. Len(Migrations) + 1 /\ \A u \in 1 .. w - 1 : u \in applied'[r]
    <3>1. 1 \in 1 .. Len(Migrations) + 1
      BY Lengths
    <3> QED
      BY <2>1, <3>1, NextVersion DEF FirstAfter
  <2>3. at'[r] = <<w, 1>>
    BY <1>1 DEF StartupInv, StartupTypeOK
  <2>4. \A j \in 1 .. 1 - 1 : <<w, j>> \in executed'
    OBVIOUS
  <2> QED
    BY <2>1, <2>2, <2>3, <2>4 DEF Progress
<1>7. PastMigrations(r)'
  BY <1>1 DEF StartupInv, StartupTypeOK, PastMigrations
<1> QED
  BY <1>2, <1>3, <1>4, <1>5, <1>6, <1>7 DEF StartupInv

LEMMA RunStatementKeeps ==
  ASSUME NEW r \in Replicas, StartupInv, RunStatement(r)
  PROVE  StartupInv'
<1> DEFINE v == at[r][1]
<1> DEFINE i == at[r][2]
<1>1. CASE Refuse(r)
  BY <1>1, RefuseKeeps
<1>2. CASE /\ executed' = executed \cup {<<v, i>>}
           /\ at' = [at EXCEPT ![r] = <<v, i + 1>>]
           /\ UNCHANGED <<recorded, default, admins, shown, pc, applied, preset, starts, refused>>
  <2>1. pc[r] = "migrate" /\ v \in Versions /\ i <= Len(Migrations[v])
    BY DEF RunStatement
  <2>2. /\ i \in Nat \ {0} /\ at[r] = <<v, i>>
        /\ \A u \in 1 .. v - 1 : u \in recorded
        /\ \A j \in 1 .. i - 1 : <<v, j>> \in executed
        /\ applied[r] \subseteq recorded
    BY <2>1 DEF StartupInv, Progress
  <2>3. <<v, i>> \in Schema
    <3>1. <<v, i>> \in Statements(v)
      BY <2>1, <2>2, Lengths DEF Statements
    <3> QED
      BY <2>1, <3>1 DEF Schema
  <2>4. StartupTypeOK'
    BY <1>2, <2>3 DEF StartupInv, StartupTypeOK
  <2>5. Complete'
    BY <1>2 DEF StartupInv, Complete
  <2>6. OneUser' /\ \A s \in Replicas : Bootstrap(s)'
    BY <1>2, BootstrapKeeps
  <2>7. \A s \in Replicas \ {r} : Progress(s)' /\ PastMigrations(s)'
    <3>1. OthersProgress(r) /\ recorded' \subseteq Versions
      BY <1>2 DEF StartupInv, StartupTypeOK, OthersProgress
    <3> QED
      BY <3>1, OthersProgressKeeps
  <2>8. Progress(r)'
    <3>1. at'[r] = <<v, i + 1>> /\ i + 1 \in Nat \ {0}
      BY <1>2, <2>2 DEF StartupInv, StartupTypeOK
    <3>2. \A j \in 1 .. (i + 1) - 1 : <<v, j>> \in executed'
      BY <1>2, <2>2
    <3>3. v \in 1 .. Len(Migrations) + 1
      BY <2>1, Lengths DEF Versions
    <3> QED
      BY <1>2, <2>2, <3>1, <3>2, <3>3 DEF Progress
  <2>9. PastMigrations(r)'
    BY <1>2 DEF StartupInv, PastMigrations
  <2> QED
    BY <2>4, <2>5, <2>6, <2>7, <2>8, <2>9 DEF StartupInv
<1> QED
  BY <1>1, <1>2 DEF RunStatement

LEMMA RecordVersionKeeps ==
  ASSUME NEW r \in Replicas, StartupInv, RecordVersion(r)
  PROVE  StartupInv'
<1> DEFINE v == at[r][1]
<1>1. CASE Refuse(r)
  BY <1>1, RefuseKeeps
<1>2. CASE /\ recorded' = recorded \cup {v}
           /\ at' = [at EXCEPT ![r] = <<FirstAfter(r, v + 1), 1>>]
           /\ UNCHANGED <<executed, default, admins, shown, pc, applied, preset, starts, refused>>
  <2>1. pc[r] = "migrate" /\ v \in Versions /\ at[r][2] > Len(Migrations[v])
    BY DEF RecordVersion
  <2>2. /\ at[r][2] \in Nat \ {0}
        /\ \A u \in 1 .. v - 1 : u \in recorded
        /\ \A j \in 1 .. at[r][2] - 1 : <<v, j>> \in executed
        /\ applied[r] \subseteq recorded
    BY <2>1 DEF StartupInv, Progress
  <2>3. Statements(v) \subseteq executed
    BY <2>1, <2>2, Lengths DEF Statements
  <2>4. StartupTypeOK'
    BY <1>2, <2>1 DEF StartupInv, StartupTypeOK
  <2>5. Complete'
    BY <1>2, <2>3 DEF StartupInv, Complete
  <2>6. OneUser' /\ \A s \in Replicas : Bootstrap(s)'
    BY <1>2, BootstrapKeeps
  <2>7. \A s \in Replicas \ {r} : Progress(s)' /\ PastMigrations(s)'
    <3>1. OthersProgress(r) /\ recorded' \subseteq Versions
      BY <1>2, <2>1 DEF StartupInv, StartupTypeOK, OthersProgress
    <3> QED
      BY <3>1, OthersProgressKeeps
  <2>8. Progress(r)'
    <3> DEFINE w == FirstAfter(r, v + 1)
    <3>1. v + 1 \in 1 .. Len(Migrations) + 1 /\ v \in Nat
      BY <2>1, Lengths DEF Versions
    <3>2. applied[r] \subseteq Versions
      BY DEF StartupInv, StartupTypeOK
    <3>3. w \in v + 1 .. Len(Migrations) + 1 /\ \A u \in v + 1 .. w - 1 : u \in applied[r]
      BY <3>1, <3>2, FirstAfterIsNext
    <3>4. w \in 1 .. Len(Migrations) + 1
      BY <3>1, <3>3, Lengths
    <3>5. \A u \in 1 .. w - 1 : u \in recorded'
      <4>1. \A u \in 1 .. w - 1 : u \in 1 .. v - 1 \/ u = v \/ u \in v + 1 .. w - 1
        BY <3>1, <3>4
      <4> QED
        BY <1>2, <2>2, <3>3, <4>1
    <3>6. at'[r] = <<w, 1>>
      BY <1>2 DEF StartupInv, StartupTypeOK
    <3>7. \A j \in 1 .. 1 - 1 : <<w, j>> \in executed'
      OBVIOUS
    <3>8. applied'[r] \subseteq recorded'
      BY <1>2, <2>2
    <3> QED
      BY <3>4, <3>5, <3>6, <3>7, <3>8 DEF Progress
  <2>9. PastMigrations(r)'
    BY <1>2, <2>1 DEF StartupInv, PastMigrations
  <2> QED
    BY <2>4, <2>5, <2>6, <2>7, <2>8, <2>9 DEF StartupInv
<1> QED
  BY <1>1, <1>2 DEF RecordVersion

LEMMA CountUsersKeeps ==
  ASSUME NEW r \in Replicas, StartupInv, CountUsers(r)
  PROVE  StartupInv'
<1> DEFINE place == IF admins = <<>> THEN "tenant" ELSE "serving"
<1>1. /\ pc' = [pc EXCEPT ![r] = place]
      /\ UNCHANGED <<database, applied, at, preset, starts, refused>>
  BY DEF CountUsers, Goto
<1>2. pc[r] = "migrate" /\ at[r][1] \notin Versions
  BY DEF CountUsers, Migrated
<1>3. \A s \in Replicas : pc'[s] = IF s = r THEN place ELSE pc[s]
  BY <1>1 DEF StartupInv, StartupTypeOK
<1>4. recorded = Versions
  <2>1. PICK v \in 1 .. Len(Migrations) + 1 :
            v = at[r][1] /\ \A u \in 1 .. v - 1 : u \in recorded
    BY <1>2 DEF StartupInv, Progress
  <2>2. v = Len(Migrations) + 1
    BY <1>2, <2>1, Lengths DEF Versions
  <2>3. Versions \subseteq recorded
    BY <2>1, <2>2, Lengths DEF Versions
  <2> QED
    BY <2>3 DEF StartupInv, StartupTypeOK
<1>5. StartupTypeOK'
  BY <1>1 DEF StartupInv, StartupTypeOK, Places, database
<1>6. Complete' /\ OneUser'
  BY <1>1 DEF StartupInv, Complete, OneUser, database
<1>7. admins # <<>> => Len(admins) = 1
  <2>1. admins \in Seq(Passwords \cup {Unset}) /\ Len(admins) <= 1
    BY DEF StartupInv, StartupTypeOK, OneUser
  <2>2. Len(admins) = 0 => admins = <<>>
    BY <2>1
  <2>3. Len(admins) \in Nat
    BY <2>1
  <2>4. \A n \in Nat : n <= 1 => n = 0 \/ n = 1
    OBVIOUS
  <2> QED
    BY <2>1, <2>2, <2>3, <2>4, Zenon
<1>8. ASSUME NEW s \in Replicas PROVE (Progress(s) /\ PastMigrations(s) /\ Bootstrap(s))'
  <2>1. Progress(s) /\ PastMigrations(s) /\ Bootstrap(s)
    BY DEF StartupInv
  <2>2. Progress(s)'
    BY <1>1, <1>3, <2>1 DEF Progress, database
  <2>3. PastMigrations(s)'
    BY <1>1, <1>3, <1>4, <2>1 DEF PastMigrations, database
  <2>4. Bootstrap(s)'
    BY <1>1, <1>3, <1>7, <2>1 DEF Bootstrap, database
  <2> QED
    BY <2>2, <2>3, <2>4
<1> QED
  BY <1>5, <1>6, <1>8 DEF StartupInv

\* After the migrations a step changes nothing that they are about.
LEMMA PastMigrationsKeep ==
  ASSUME NEW r \in Replicas, StartupInv, NEW place \in {"user", "show", "serving", "stopping"},
         pc[r] \in {"tenant", "user", "show", "serving"},
         pc' = [pc EXCEPT ![r] = place],
         UNCHANGED <<executed, recorded, applied, at>>
  PROVE  /\ Complete'
         /\ \A s \in Replicas : pc'[s] = IF s = r THEN place ELSE pc[s]
         /\ \A s \in Replicas : Progress(s)' /\ PastMigrations(s)'
<1>1. \A s \in Replicas : pc'[s] = IF s = r THEN place ELSE pc[s]
  BY DEF StartupInv, StartupTypeOK
<1>2. Complete'
  BY DEF StartupInv, Complete
<1>3. ASSUME NEW s \in Replicas PROVE Progress(s)' /\ PastMigrations(s)'
  <2>1. Progress(s) /\ PastMigrations(s) /\ PastMigrations(r)
    BY DEF StartupInv
  <2>2. Progress(s)'
    BY <1>1, <2>1 DEF Progress
  <2>3. PastMigrations(s)'
    BY <1>1, <2>1 DEF PastMigrations
  <2> QED
    BY <2>2, <2>3
<1> QED
  BY <1>1, <1>2, <1>3

LEMMA InsertTenantKeeps ==
  ASSUME NEW r \in Replicas, StartupInv, InsertTenant(r)
  PROVE  StartupInv'
<1>1. CASE Refuse(r)
  BY <1>1, RefuseKeeps
<1>2. CASE ~ default
  <2>1. /\ default' = TRUE /\ pc[r] = "tenant" /\ pc' = [pc EXCEPT ![r] = "user"]
        /\ UNCHANGED <<executed, recorded, admins, applied, at, preset, starts, refused>>
    BY <1>2 DEF InsertTenant, Goto
  <2>2. /\ Complete' /\ \A s \in Replicas : Progress(s)' /\ PastMigrations(s)'
        /\ \A s \in Replicas : pc'[s] = IF s = r THEN "user" ELSE pc[s]
    BY <2>1, PastMigrationsKeep
  <2>3. StartupTypeOK'
    BY <2>1 DEF StartupInv, StartupTypeOK, Places
  <2>4. admins = <<>> /\ \A s \in Replicas : pc[s] # "user"
    BY <1>2 DEF StartupInv, OneUser, Bootstrap
  <2>5. OneUser'
    BY <2>1 DEF StartupInv, OneUser
  <2>6. \A s \in Replicas : Bootstrap(s)'
    BY <2>1, <2>2, <2>4 DEF StartupInv, Bootstrap
  <2> QED
    BY <2>2, <2>3, <2>5, <2>6 DEF StartupInv
<1> QED
  BY <1>1, <1>2 DEF InsertTenant

LEMMA InsertUserKeeps ==
  ASSUME NEW r \in Replicas, StartupInv, InsertUser(r)
  PROVE  StartupInv'
<1>1. /\ admins' = Append(admins, preset[r]) /\ pc[r] = "user" /\ pc' = [pc EXCEPT ![r] = "show"]
      /\ UNCHANGED <<executed, recorded, default, applied, at, preset, starts, refused>>
  BY DEF InsertUser, Goto
<1>2. /\ Complete' /\ \A s \in Replicas : Progress(s)' /\ PastMigrations(s)'
      /\ \A s \in Replicas : pc'[s] = IF s = r THEN "show" ELSE pc[s]
  BY <1>1, PastMigrationsKeep
<1>3. preset[r] \in Passwords \cup {Unset} /\ admins \in Seq(Passwords \cup {Unset})
  BY DEF StartupInv, StartupTypeOK
<1>4. StartupTypeOK'
  <2>1. admins' \in Seq(Passwords \cup {Unset})
    BY <1>1, <1>3
  <2> QED
    BY <1>1, <2>1 DEF StartupInv, StartupTypeOK, Places
<1>5. admins = <<>> /\ default /\ \A s \in Replicas : pc[s] = "user" => s = r
  BY <1>1 DEF StartupInv, Bootstrap
<1>6. Len(admins') = 1
  BY <1>1, <1>3, <1>5
<1>7. OneUser'
  BY <1>1, <1>5, <1>6 DEF OneUser
<1>8. \A s \in Replicas : Bootstrap(s)'
  BY <1>2, <1>5, <1>6 DEF Bootstrap
<1> QED
  BY <1>2, <1>4, <1>7, <1>8 DEF StartupInv

LEMMA ServeKeeps ==
  ASSUME NEW r \in Replicas, StartupInv, ShowPassword(r) \/ Stop(r)
  PROVE  StartupInv'
<1> DEFINE place == IF pc[r] = "show" THEN "serving" ELSE "stopping"
<1>1. /\ pc[r] \in {"show", "serving"} /\ pc' = [pc EXCEPT ![r] = place]
      /\ UNCHANGED <<executed, recorded, default, admins, applied, at, preset, starts, refused>>
  <2>1. CASE ShowPassword(r)
    BY <2>1 DEF ShowPassword, Goto, database
  <2>2. CASE Stop(r)
    BY <2>2 DEF Stop, Goto, database
  <2> QED
    BY <2>1, <2>2
<1>2. /\ Complete' /\ \A s \in Replicas : Progress(s)' /\ PastMigrations(s)'
      /\ \A s \in Replicas : pc'[s] = IF s = r THEN place ELSE pc[s]
  <2>1. place \in {"user", "show", "serving", "stopping"}
    OBVIOUS
  <2> HIDE DEF place
  <2> QED
    BY <1>1, <2>1, PastMigrationsKeep
<1>3. StartupTypeOK'
  BY <1>1 DEF StartupInv, StartupTypeOK, Places
<1>4. OneUser'
  BY <1>1 DEF StartupInv, OneUser
<1>5. \A s \in Replicas : Bootstrap(s)'
  BY <1>1, <1>2 DEF StartupInv, Bootstrap
<1> QED
  BY <1>2, <1>3, <1>4, <1>5 DEF StartupInv

LEMMA StartupKeeps ==
  ASSUME StartupInv,
         (\E r \in Replicas : StartupStep(r) \/ Die(r)) \/ UNCHANGED startupVars
  PROVE  StartupInv'
<1>1. ASSUME NEW r \in Replicas, StartupStep(r) PROVE StartupInv'
  BY <1>1, StartKeeps, ListAppliedKeeps, RunStatementKeeps, RecordVersionKeeps, CountUsersKeeps,
     InsertTenantKeeps, InsertUserKeeps, ServeKeeps DEF StartupStep
<1>2. ASSUME NEW r \in Replicas, Die(r) PROVE StartupInv'
  BY <1>2, DieKeeps
<1>3. CASE UNCHANGED startupVars
  BY <1>3 DEF startupVars, database, process, StartupInv, StartupTypeOK, Complete, OneUser,
     Progress, PastMigrations, Bootstrap
<1> QED
  BY <1>1, <1>2, <1>3
-----------------------------------------------------------------------------
(***************************************************************************)
(* What the log says was deleted.  An id is deleted for good once it was   *)
(* given out and is in the table no more; that is so from the statement on *)
(* that deletes the row, before the entry is written.                      *)
(***************************************************************************)
Gone(entry) ==
    /\ entry[1] = "device.delete" =>
           entry[2] \in 1 .. made.devices /\ entry[2] \notin DOMAIN devices
    /\ entry[1] = "credential.delete" =>
           entry[2] \in 1 .. made.credentials /\ entry[2] \notin DOMAIN credentials

IdsInv ==
    /\ \E d, c \in Nat : made = [devices |-> d, credentials |-> c]
    /\ DOMAIN devices \subseteq 1 .. made.devices
    /\ DOMAIN credentials \subseteq 1 .. made.credentials
    /\ DOMAIN quotas \subseteq Tenants

JobInv(q) ==
    /\ {"next", "entry"} \subseteq DOMAIN job[q]
    /\ job[q].next = "read back" => job[q].entry[1] = "device.update"
    /\ job[q].next = "audit" => Gone(job[q].entry)

RowsInv ==
    /\ IdsInv
    /\ DOMAIN job = Handlers
    /\ \A q \in Handlers : JobInv(q)
    /\ \A entry \in audit : Gone(entry)

IInv == StartupInv /\ RowsInv

\* What the fields of a request's new job are.
LEMMA JobForm ==
  ASSUME NEW r, NEW next, NEW entry
  PROVE  LET j == [Idle EXCEPT !.on = r, !.next = next, !.entry = entry] IN
         /\ {"next", "entry"} \subseteq DOMAIN j
         /\ j.next = next /\ j.entry = entry
  BY DEF Idle

LEMMA RowsInitEstablishes == Init => RowsInv
<1> SUFFICES ASSUME Init PROVE RowsInv
  OBVIOUS
<1>1. IdsInv
  <2>1. made = [devices |-> 0, credentials |-> 0] /\ 0 \in Nat
    BY DEF Init
  <2>2. DOMAIN devices = {} /\ DOMAIN credentials = {} /\ DOMAIN quotas = {}
    BY DEF Init
  <2> QED
    BY <2>1, <2>2 DEF IdsInv
<1>2. \A q \in Handlers : JobInv(q)
  BY DEF Init, JobInv, Idle
<1> QED
  BY <1>1, <1>2 DEF Init, RowsInv

\* While ids are given out once and for all, what is gone stays gone.
IdsGrow ==
    /\ made'.devices \in Nat /\ made.devices <= made'.devices
    /\ made'.credentials \in Nat /\ made.credentials <= made'.credentials
    /\ \A d \in DOMAIN devices' : d \in DOMAIN devices \/ d > made.devices
    /\ \A c \in DOMAIN credentials' : c \in DOMAIN credentials \/ c > made.credentials

LEMMA GoneStaysGone ==
  ASSUME IdsInv, IdsGrow, NEW entry, Gone(entry)
  PROVE  Gone(entry)'
  BY DEF IdsInv, IdsGrow, Gone

\* A request goes on to the given entry, or to nothing; the log stays as it is.
LEMMA RequestsKeep ==
  ASSUME RowsInv, IdsInv', IdsGrow, UNCHANGED audit,
         DOMAIN job' = Handlers,
         \A q \in Handlers : job'[q] = job[q] \/ JobInv(q)'
  PROVE  RowsInv'
<1>1. \A entry \in audit' : Gone(entry)'
  BY GoneStaysGone DEF RowsInv
<1>2. ASSUME NEW q \in Handlers PROVE JobInv(q)'
  <2>1. CASE job'[q] = job[q]
    <3>1. JobInv(q)
      BY DEF RowsInv
    <3>2. ASSUME job'[q].next = "audit" PROVE Gone(job[q].entry)'
      <4>1. PICK entry : entry = job[q].entry
        OBVIOUS
      <4>2. Gone(entry)
        BY <2>1, <3>1, <3>2, <4>1 DEF JobInv, Gone
      <4>3. Gone(entry)'
        BY <4>2, GoneStaysGone DEF RowsInv
      <4> QED
        BY <2>1, <4>1, <4>3 DEF Gone
    <3> QED
      BY <2>1, <3>1, <3>2 DEF JobInv
  <2> QED
    BY <2>1
<1> QED
  BY <1>1, <1>2 DEF RowsInv

LEMMA ChangedKeeps ==
  ASSUME RowsInv, IdsInv', IdsGrow, UNCHANGED audit,
         NEW q \in Handlers, NEW r \in Replicas, NEW action, NEW id, Changed(q, r, action, id),
         Gone(<<action, id>>)'
  PROVE  RowsInv'
<1> DEFINE j == [Idle EXCEPT !.on = r, !.next = "audit", !.entry = <<action, id>>]
<1>1. /\ job' = [job EXCEPT ![q] = j]
      /\ {"next", "entry"} \subseteq DOMAIN j
      /\ j.next = "audit" /\ j.entry = <<action, id>>
  <2>1. job' = [job EXCEPT ![q] = j]
    BY DEF Changed
  <2>2. \A entry : entry = <<action, id>> =>
           LET k == [Idle EXCEPT !.on = r, !.next = "audit", !.entry = entry] IN
           {"next", "entry"} \subseteq DOMAIN k /\ k.next = "audit" /\ k.entry = entry
    BY JobForm
  <2> QED
    BY <2>1, <2>2
<1> HIDE DEF j
<1>2. DOMAIN job' = Handlers /\ job'[q] = j /\ \A p \in Handlers \ {q} : job'[p] = job[p]
  BY <1>1 DEF RowsInv
<1>3. Gone(job[q].entry)'
  BY <1>1, <1>2 DEF Gone
<1>4. JobInv(q)'
  BY <1>1, <1>2, <1>3 DEF JobInv
<1> QED
  BY <1>2, <1>4, RequestsKeep

\* A step that gives out no id and inserts nothing into the two tables.
LEMMA NothingNew ==
  ASSUME RowsInv, UNCHANGED made, DOMAIN devices' \subseteq DOMAIN devices,
         DOMAIN credentials' \subseteq DOMAIN credentials, DOMAIN quotas' \subseteq Tenants
  PROVE  IdsInv' /\ IdsGrow
  BY DEF RowsInv, IdsInv, IdsGrow

LEMMA TenantsKeep ==
  ASSUME RowsInv, NEW t \in Tenants, NEW n \in Quotas,
         handleCreateTenant(t, n) \/ handleSetTenantQuota(t, n)
  PROVE  RowsInv'
<1>1. quotas' = With(quotas, t, n) /\ UNCHANGED <<devices, credentials, made, audit, job>>
  BY DEF handleCreateTenant, handleSetTenantQuota, Create, SetQuota
<1>2. DOMAIN quotas' \subseteq Tenants
  BY <1>1 DEF RowsInv, IdsInv, With
<1>3. IdsInv' /\ IdsGrow
  BY <1>1, <1>2, NothingNew
<1> QED
  BY <1>1, <1>3, RequestsKeep DEF RowsInv

LEMMA CreateDeviceKeeps ==
  ASSUME RowsInv, NEW q \in Handlers, NEW r \in Replicas, NEW t \in Tenants, NEW h, NEW c,
         handleCreateDevice(q, r, t, h, c)
  PROVE  RowsInv'
<1>0. PICK d : d = made.devices + 1
  OBVIOUS
<1>1. /\ devices' = With(devices, d, Row(t, h, c)) /\ made' = [made EXCEPT !.devices = d]
      /\ Changed(q, r, "device.create", d)
      /\ UNCHANGED <<quotas, credentials, audit>>
  BY <1>0 DEF handleCreateDevice, CreateDevice
<1>2. PICK m, k \in Nat : made = [devices |-> m, credentials |-> k]
  BY DEF RowsInv, IdsInv
<1>3. made' = [devices |-> m + 1, credentials |-> k] /\ d = m + 1
  BY <1>0, <1>1, <1>2
<1>4. DOMAIN devices' = DOMAIN devices \cup {m + 1}
  BY <1>1, <1>3 DEF With
<1>5. IdsInv' /\ IdsGrow
  BY <1>1, <1>2, <1>3, <1>4 DEF RowsInv, IdsInv, IdsGrow
<1>6. Gone(<<"device.create", d>>)'
  BY DEF Gone
<1> QED
  BY <1>1, <1>5, <1>6, ChangedKeeps

LEMMA UpdateDeviceKeeps ==
  ASSUME RowsInv, NEW q \in Handlers, NEW r \in Replicas, NEW d, NEW t \in Tenants, NEW h, NEW c,
         handleUpdateDevice(q, r, d, t, h, c)
  PROVE  RowsInv'
<1> DEFINE j == [Idle EXCEPT !.on = r, !.next = "read back", !.tenant = t,
                             !.entry = <<"device.update", d>>]
<1>1. /\ devices' = [devices EXCEPT ![d] = Row(t, h, c)] /\ job' = [job EXCEPT ![q] = j]
      /\ UNCHANGED <<quotas, credentials, made, audit>>
  BY DEF handleUpdateDevice, UpdateDevice
<1>2. {"next", "entry"} \subseteq DOMAIN j /\ j.next = "read back" /\ j.entry[1] = "device.update"
  BY DEF Idle
<1> HIDE DEF j
<1>3. IdsInv' /\ IdsGrow
  BY <1>1, NothingNew DEF RowsInv, IdsInv
<1>4. DOMAIN job' = Handlers /\ job'[q] = j /\ \A p \in Handlers \ {q} : job'[p] = job[p]
  BY <1>1 DEF RowsInv
<1>5. JobInv(q)'
  BY <1>2, <1>4 DEF JobInv
<1> QED
  BY <1>1, <1>3, <1>4, <1>5, RequestsKeep

\* A deleted device is gone before the handler goes on to its entry.
LEMMA DeleteDeviceKeeps ==
  ASSUME RowsInv, NEW q \in Handlers, NEW r \in Replicas, NEW d, NEW t \in Tenants,
         handleDeleteDevice(q, r, d, t)
  PROVE  RowsInv'
<1>1. /\ d \in DOMAIN devices /\ devices' = Without(devices, d)
      /\ Changed(q, r, "device.delete", d)
      /\ UNCHANGED <<quotas, credentials, made, audit>>
  BY DEF handleDeleteDevice, DeleteDevice, DevicesOf
<1>2. DOMAIN devices' = DOMAIN devices \ {d}
  BY <1>1 DEF Without
<1>3. IdsInv' /\ IdsGrow
  BY <1>1, <1>2, NothingNew DEF RowsInv, IdsInv
<1>4. Gone(<<"device.delete", d>>)'
  BY <1>1, <1>2 DEF Gone, RowsInv, IdsInv
<1> QED
  BY <1>1, <1>3, <1>4, ChangedKeeps

LEMMA CreateCredentialKeeps ==
  ASSUME RowsInv, NEW q \in Handlers, NEW r \in Replicas, NEW t \in Tenants,
         handleCreateCredential(q, r, t)
  PROVE  RowsInv'
<1>0. PICK c : c = made.credentials + 1
  OBVIOUS
<1>1. /\ credentials' = With(credentials, c, t) /\ made' = [made EXCEPT !.credentials = c]
      /\ Changed(q, r, "credential.create", c)
      /\ UNCHANGED <<quotas, devices, audit>>
  BY <1>0 DEF handleCreateCredential, CreateCredential
<1>2. PICK m, k \in Nat : made = [devices |-> m, credentials |-> k]
  BY DEF RowsInv, IdsInv
<1>3. made' = [devices |-> m, credentials |-> k + 1] /\ c = k + 1
  BY <1>0, <1>1, <1>2
<1>4. DOMAIN credentials' = DOMAIN credentials \cup {k + 1}
  BY <1>1, <1>3 DEF With
<1>5. IdsInv' /\ IdsGrow
  BY <1>1, <1>2, <1>3, <1>4 DEF RowsInv, IdsInv, IdsGrow
<1>6. Gone(<<"credential.create", c>>)'
  BY DEF Gone
<1> QED
  BY <1>1, <1>5, <1>6, ChangedKeeps

\* The devices that used a deleted credential stay in their table.
LEMMA DeleteCredentialKeeps ==
  ASSUME RowsInv, NEW q \in Handlers, NEW r \in Replicas, NEW c, NEW t \in Tenants,
         handleDeleteCredential(q, r, c, t)
  PROVE  RowsInv'
<1>1. /\ c \in DOMAIN credentials /\ credentials' = Without(credentials, c)
      /\ DOMAIN devices' = DOMAIN devices
      /\ Changed(q, r, "credential.delete", c)
      /\ UNCHANGED <<quotas, made, audit>>
  BY DEF handleDeleteCredential, DeleteCredential
<1>2. DOMAIN credentials' = DOMAIN credentials \ {c}
  BY <1>1 DEF Without
<1>3. IdsInv' /\ IdsGrow
  BY <1>1, <1>2, NothingNew DEF RowsInv, IdsInv
<1>4. Gone(<<"credential.delete", c>>)'
  BY <1>1, <1>2 DEF Gone, RowsInv, IdsInv
<1> QED
  BY <1>1, <1>3, <1>4, ChangedKeeps

\* A request that ends or reads keeps the tables.
LEMMA IdleKeeps ==
  ASSUME RowsInv, UNCHANGED rows, NEW q \in Handlers, job' = [job EXCEPT ![q] = Idle],
         audit' = audit
  PROVE  RowsInv'
<1>1. IdsInv' /\ IdsGrow
  BY NothingNew DEF RowsInv, IdsInv, rows
<1>2. DOMAIN job' = Handlers /\ job'[q] = Idle /\ \A p \in Handlers \ {q} : job'[p] = job[p]
  BY DEF RowsInv
<1>3. JobInv(q)'
  BY <1>2 DEF JobInv, Idle
<1> QED
  BY <1>1, <1>2, <1>3, RequestsKeep

LEMMA RecordAuditKeeps ==
  ASSUME RowsInv, NEW q \in Handlers, RecordAudit(q)
  PROVE  RowsInv'
<1>1. /\ job[q].next = "audit" /\ audit' = audit \cup {job[q].entry}
      /\ job' = [job EXCEPT ![q] = Idle] /\ UNCHANGED rows
  BY DEF RecordAudit
<1>2. \A entry : Gone(entry) => Gone(entry)'
  BY <1>1 DEF Gone, rows
<1>3. Gone(job[q].entry)
  BY <1>1 DEF RowsInv, JobInv
<1>4. \A entry \in audit' : Gone(entry)'
  BY <1>1, <1>2, <1>3 DEF RowsInv
<1>5. DOMAIN job' = Handlers /\ job'[q] = Idle /\ \A p \in Handlers \ {q} : job'[p] = job[p]
  BY <1>1 DEF RowsInv
<1>6. ASSUME NEW p \in Handlers PROVE JobInv(p)'
  <2>1. CASE p = q
    <3>1. job'[p] = Idle
      BY <1>5, <2>1
    <3> QED
      BY <3>1 DEF JobInv, Idle
  <2>2. CASE p # q
    <3>1. job'[p] = job[p] /\ JobInv(p)
      BY <1>5, <2>2 DEF RowsInv
    <3> QED
      BY <1>1, <3>1 DEF JobInv, Gone, rows
  <2> QED
    BY <2>1, <2>2
<1>7. IdsInv'
  BY <1>1 DEF RowsInv, IdsInv, rows
<1> QED
  BY <1>1, <1>4, <1>5, <1>6, <1>7 DEF RowsInv

LEMMA ReadBackKeeps ==
  ASSUME RowsInv, NEW q \in Handlers, ReadBack(q)
  PROVE  RowsInv'
<1> DEFINE j == [job[q] EXCEPT !.next = "audit"]
<1>1. /\ job[q].next = "read back" /\ job' \in {[job EXCEPT ![q] = j], [job EXCEPT ![q] = Idle]}
      /\ UNCHANGED <<rows, audit>>
  BY DEF ReadBack
<1>2. CASE job' = [job EXCEPT ![q] = Idle]
  BY <1>1, <1>2, IdleKeeps
<1>3. CASE job' = [job EXCEPT ![q] = j]
  <2>1. {"next", "entry"} \subseteq DOMAIN j /\ j.next = "audit" /\ j.entry[1] = "device.update"
    BY <1>1 DEF RowsInv, JobInv
  <2> HIDE DEF j
  <2>2. DOMAIN job' = Handlers /\ job'[q] = j /\ \A p \in Handlers \ {q} : job'[p] = job[p]
    BY <1>3 DEF RowsInv
  <2>3. JobInv(q)'
    BY <2>1, <2>2 DEF JobInv, Gone
  <2>4. IdsInv' /\ IdsGrow
    BY <1>1, NothingNew DEF RowsInv, IdsInv, rows
  <2> QED
    BY <1>1, <2>2, <2>3, <2>4, RequestsKeep
<1> QED
  BY <1>1, <1>2, <1>3

LEMMA ReplicaDiesKeeps ==
  ASSUME RowsInv, NEW r \in Replicas, ReplicaDies(r)
  PROVE  RowsInv'
<1>1. /\ job' = [q \in Handlers |-> IF job[q].on = r THEN Idle ELSE job[q]]
      /\ UNCHANGED <<rows, audit>>
  BY DEF ReplicaDies
<1>2. \A q \in Handlers : job'[q] = job[q] \/ JobInv(q)'
  BY <1>1 DEF JobInv, Idle
<1>3. IdsInv' /\ IdsGrow
  BY <1>1, NothingNew DEF RowsInv, IdsInv, rows
<1> QED
  BY <1>1, <1>2, <1>3, RequestsKeep

LEMMA UnchangedRowsKeep ==
  ASSUME RowsInv, UNCHANGED <<rows, audit, job>>
  PROVE  RowsInv'
<1>1. IdsInv' /\ IdsGrow
  BY NothingNew DEF RowsInv, IdsInv, rows
<1> QED
  BY <1>1, RequestsKeep DEF RowsInv
-----------------------------------------------------------------------------
LEMMA RequestKeeps ==
  ASSUME IInv, NEW q \in Handlers, NEW r \in Replicas, NEW t \in Tenants, Request(q, r, t)
  PROVE  RowsInv' /\ UNCHANGED startupVars
<1>1. RowsInv
  BY DEF IInv
<1>2. ASSUME NEW h, NEW c, handleCreateDevice(q, r, t, h, c)
      PROVE  RowsInv' /\ UNCHANGED startupVars
  BY <1>1, <1>2, CreateDeviceKeeps DEF handleCreateDevice
<1>3. ASSUME NEW d, NEW h, NEW c, handleUpdateDevice(q, r, d, t, h, c)
      PROVE  RowsInv' /\ UNCHANGED startupVars
  BY <1>1, <1>3, UpdateDeviceKeeps DEF handleUpdateDevice
<1>4. ASSUME NEW d, handleDeleteDevice(q, r, d, t)
      PROVE  RowsInv' /\ UNCHANGED startupVars
  BY <1>1, <1>4, DeleteDeviceKeeps DEF handleDeleteDevice
<1>5. CASE handleCreateCredential(q, r, t)
  BY <1>1, <1>5, CreateCredentialKeeps DEF handleCreateCredential
<1>6. ASSUME NEW c, handleDeleteCredential(q, r, c, t)
      PROVE  RowsInv' /\ UNCHANGED startupVars
  BY <1>1, <1>6, DeleteCredentialKeeps DEF handleDeleteCredential
<1> QED
  BY <1>2, <1>3, <1>4, <1>5, <1>6 DEF Request

LEMMA InitEstablishes == Init => IInv
  BY StartupInitEstablishes, RowsInitEstablishes DEF Init, IInv

LEMMA NextKeeps == IInv /\ [Next]_vars => IInv'
<1> SUFFICES ASSUME IInv, [Next]_vars PROVE IInv'
  OBVIOUS
<1>1. StartupInv /\ RowsInv
  BY DEF IInv
<1>2. ASSUME NEW r \in Replicas, ReplicaStep(r) \/ ReplicaDies(r) PROVE IInv'
  <2>1. StartupInv'
    BY <1>1, <1>2, StartupKeeps DEF ReplicaStep, ReplicaDies
  <2>2. RowsInv'
    BY <1>1, <1>2, UnchangedRowsKeep, ReplicaDiesKeeps DEF ReplicaStep
  <2> QED
    BY <2>1, <2>2 DEF IInv
<1>3. ASSUME NEW t \in Tenants, NEW n \in Quotas,
             handleCreateTenant(t, n) \/ handleSetTenantQuota(t, n)
      PROVE  IInv'
  BY <1>1, <1>3, TenantsKeep, StartupKeeps DEF IInv, handleCreateTenant, handleSetTenantQuota
<1>4. ASSUME NEW q \in Handlers, ReadBack(q) \/ RecordAudit(q) \/ ClientGone(q)
      PROVE  IInv'
  <2>1. UNCHANGED startupVars
    BY <1>4 DEF ReadBack, RecordAudit, ClientGone
  <2>2. ASSUME ClientGone(q) PROVE RowsInv'
    BY <1>1, <2>2, IdleKeeps DEF ClientGone
  <2>3. RowsInv'
    BY <1>1, <1>4, <2>2, ReadBackKeeps, RecordAuditKeeps
  <2> QED
    BY <1>1, <2>1, <2>3, StartupKeeps DEF IInv
<1>5. ASSUME NEW q \in Handlers, NEW r \in Replicas, NEW t \in Tenants, Request(q, r, t)
      PROVE  IInv'
  BY <1>1, <1>5, RequestKeeps, StartupKeeps DEF IInv
<1>6. CASE UNCHANGED vars
  BY <1>1, <1>6, UnchangedRowsKeep, StartupKeeps DEF IInv, vars
<1> QED
  BY <1>2, <1>3, <1>4, <1>5, <1>6 DEF Next

(***************************************************************************)
(* Every state of an installation satisfies the inductive invariant.       *)
(***************************************************************************)
THEOREM InductiveInvariant == Spec => []IInv
  BY InitEstablishes, NextKeeps, PTL DEF Spec

(***************************************************************************)
(* Every variable that has a type keeps it.                                *)
(***************************************************************************)
THEOREM TypeCorrect == Spec => []TypeOK
<1>1. IInv => TypeOK
  BY DEF IInv, StartupInv, StartupTypeOK, RowsInv, IdsInv, TypeOK
<1> QED
  BY <1>1, InductiveInvariant, PTL

(***************************************************************************)
(* A recorded migration ran to its end, and no replica serves on a schema  *)
(* that is not complete, however starts of several replicas and crashes    *)
(* between statements interleave (storage.go, Migrate).                    *)
(***************************************************************************)
THEOREM RecordedMigrationsAreComplete == Spec => []RecordedMeansComplete
<1>1. IInv => RecordedMeansComplete
  <2> SUFFICES ASSUME StartupInv PROVE RecordedMeansComplete
    BY DEF IInv
  <2>1. \A v \in recorded : Statements(v) \subseteq executed
    BY DEF StartupInv, Complete
  <2>2. ASSUME NEW r \in Replicas, Serving(r) PROVE executed = Schema /\ recorded = Versions
    <3>1. recorded = Versions
      BY <2>2 DEF StartupInv, PastMigrations, Serving
    <3>2. Schema \subseteq executed
      BY <2>1, <3>1 DEF Schema
    <3> QED
      BY <3>1, <3>2 DEF StartupInv, StartupTypeOK
  <2> QED
    BY <2>1, <2>2 DEF RecordedMeansComplete
<1> QED
  BY <1>1, InductiveInvariant, PTL

(***************************************************************************)
(* Any number of replicas that start on one database make one              *)
(* administrator, and none serves before there is one (auth.go,            *)
(* EnsureBootstrapAdmin).                                                  *)
(***************************************************************************)
THEOREM BootstrapMakesOneAdministrator == Spec => []OneAdministrator
<1>1. IInv => OneAdministrator
  BY DEF IInv, StartupInv, OneUser, Bootstrap, OneAdministrator, Serving
<1> QED
  BY <1>1, InductiveInvariant, PTL

(***************************************************************************)
(* What an audit entry says was deleted is gone and stays gone, though the *)
(* entry is a statement after the deletion (server.go, recordAudit).       *)
(***************************************************************************)
THEOREM AuditedDeletionsHold == Spec => []AuditNamesOneThing
<1>1. IInv => AuditNamesOneThing
  BY DEF IInv, RowsInv, Gone, AuditNamesOneThing
<1> QED
  BY <1>1, InductiveInvariant, PTL
=============================================================================
