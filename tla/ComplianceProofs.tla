---------------------------- MODULE ComplianceProofs ----------------------------
(***************************************************************************)
(* Proofs about Compliance, for any number of evaluations, rules, groups,  *)
(* texts, edits and faults.                                                *)
(***************************************************************************)
EXTENDS Compliance, FiniteSetTheorems, TLAPS

Steps == {"idle", "rules", "read", "upsert", "notify", "cleanup", "ended"}

Move(e) == [from |-> local[e].prev, to |-> Found(e)]

\* Ids are given out once: every rule in sight of an evaluation has an old one.
IdsInv ==
    /\ \A i \in Live : i <= created
    /\ \A e \in Evaluations :
          /\ \A t \in local[e].todo : t.id <= created
          /\ pc[e] \in {"upsert", "notify"} => local[e].cur \in Tasks /\ local[e].cur.id <= created
          /\ pc[e] = "notify" => local[e].prev # "none"

\* What was read before the upsert is still what is stored, unless the row can no
\* longer be stored at all.
PrevInv ==
    serial => \A e \in Evaluations :
        pc[e] = "upsert" /\ CanStore(local[e].cur.id) =>
            local[e].prev = finding[local[e].cur.id]

SerialInv == serial => \A e, f \in Evaluations : Running(e) /\ Running(f) => e = f

\* Each change was reported, except the one that is about to be.
OwedInv ==
    serial => \A e \in Evaluations : pc[e] = "notify" =>
        changed[local[e].cur.id] = Append(notices[local[e].cur.id], Move(e))

ReportedInv ==
    serial => \A i \in Ids :
        (\A e \in Evaluations : pc[e] = "notify" => local[e].cur.id # i) => notices[i] = changed[i]

IInv == TypeOK /\ FindingsRefer /\ IdsInv /\ PrevInv /\ SerialInv /\ OwedInv /\ ReportedInv

--------------------------------------------------------------------------------
\* What a rule of a pack gets for an id is new, and there is one of them.
LEMMA NewIds ==
    ASSUME TypeOK, NEW names \in SUBSET Names, NEW n \in names
    PROVE  /\ IdOf(n, names) \in Nat
           /\ IdOf(n, names) > created
           /\ IdOf(n, names) <= created + Cardinality(names)
           /\ Cardinality(names) \in Nat
  <1> DEFINE upto == {m \in names : m <= n}
  <1>1. IsFiniteSet(names)
    BY NamesAssumption, FS_Subset
  <1>2. upto \subseteq names
    OBVIOUS
  <1>3. IsFiniteSet(upto) /\ Cardinality(upto) <= Cardinality(names)
    BY <1>1, <1>2, FS_Subset
  <1>4. Cardinality(upto) \in Nat /\ Cardinality(names) \in Nat
    BY <1>1, <1>3, FS_CardinalityType
  <1>5. n \in upto
    BY NamesAssumption
  <1>6. Cardinality(upto) # 0
    BY <1>3, <1>5, FS_EmptySet
  <1>7. created \in Nat
    BY BoundsAssumption DEF TypeOK
  <1>8. IdOf(n, names) = created + Cardinality(upto)
    BY DEF IdOf
  <1> HIDE DEF upto
  <1> QED BY <1>3, <1>4, <1>6, <1>7, <1>8

LEMMA FoundType ==
    ASSUME NEW e \in Evaluations PROVE Found(e) \in Statuses
  BY DEF Found, Verdict, Statuses

\* The table of the rules after packs were assigned to a group.
PackRules(g, names, demand) ==
    [i \in Ids |->
        IF i \in {j \in Live : rules[j].scope = g} THEN NoRule
        ELSE IF \E n \in names : IdOf(n, names) = i
             THEN LET n == CHOOSE m \in names : IdOf(m, names) = i
                  IN  [name |-> n, scope |-> g, good |-> demand[n]]
             ELSE rules[i]]

LEMMA PackRulesType ==
    ASSUME TypeOK, NEW g \in Groups, NEW names \in SUBSET Names,
           NEW demand \in [names -> Criteria]
    PROVE  /\ PackRules(g, names, demand) \in [Ids -> Rules \cup {NoRule}]
           /\ \A i \in Ids : PackRules(g, names, demand)[i] # NoRule =>
                 \/ i \in Live /\ rules[i].scope # g /\ PackRules(g, names, demand)[i] # NoRule
                 \/ i > created /\ i <= created + Cardinality(names)
  <1> DEFINE P == PackRules(g, names, demand)
  <1> SUFFICES ASSUME NEW i \in Ids
               PROVE  /\ P[i] \in Rules \cup {NoRule}
                      /\ P[i] # NoRule =>
                            \/ i \in Live /\ rules[i].scope # g
                            \/ i > created /\ i <= created + Cardinality(names)
    BY DEF PackRules
  <1>1. CASE i \in {j \in Live : rules[j].scope = g}
    BY <1>1 DEF PackRules
  <1>2. CASE i \notin {j \in Live : rules[j].scope = g} /\ \E n \in names : IdOf(n, names) = i
    <2> DEFINE n == CHOOSE m \in names : IdOf(m, names) = i
    <2>1. n \in names /\ IdOf(n, names) = i
      BY <1>2
    <2>2. P[i] = [name |-> n, scope |-> g, good |-> demand[n]]
      BY <1>2 DEF PackRules
    <2> HIDE DEF n, P
    <2>3. n \in Names /\ demand[n] \in Criteria
      BY <2>1
    <2>4. P[i] \in Rules
      BY <2>2, <2>3 DEF Rules
    <2>5. i > created /\ i <= created + Cardinality(names)
      BY <2>1, NewIds
    <2> QED BY <2>4, <2>5
  <1>3. CASE i \notin {j \in Live : rules[j].scope = g} /\ ~(\E n \in names : IdOf(n, names) = i)
    <2>1. P[i] = rules[i]
      BY <1>3 DEF PackRules
    <2> HIDE DEF P
    <2> QED BY <1>3, <2>1 DEF Live, TypeOK
  <1> QED BY <1>1, <1>2, <1>3

LEMMA EvaluationTypes ==
    ASSUME TypeOK, NEW e \in Evaluations
    PROVE  /\ Begin(e) => TypeOK'
           /\ ListRules(e) => TypeOK'
           /\ ReadFinding(e) => TypeOK'
           /\ Upsert(e) => TypeOK'
           /\ UpsertFails(e) => TypeOK'
           /\ Notify(e) /\ IdsInv => TypeOK'
           /\ Cleanup(e) => TypeOK'
           /\ Expire(e) => TypeOK'
  <1> USE DEF tables, history, Goto, Return, Continue, TypeOK
  <1>a. local[e] \in Locals /\ NoLocals \in Locals
    BY DEF Locals, NoLocals
  <1>1. ASSUME Begin(e) PROVE TypeOK'
    <2>1. PICK t \in Texts :
             /\ local' = [local EXCEPT ![e].text = t, ![e].group = group]
             /\ recent' = IF Quiet THEN {t} ELSE recent \cup {t}
      BY <1>1 DEF Begin
    <2>2. group \in Groups \cup {NoGroup}
      BY <1>1 DEF Begin
    <2>3. local' \in [Evaluations -> Locals]
      BY <2>1, <2>2, <1>a DEF Locals
    <2> QED BY <1>1, <2>1, <2>3 DEF Begin, Quiet, Running
  <1>2. ASSUME ListRules(e) PROVE TypeOK'
    <2> DEFINE tasks == {[id |-> i, name |-> rules[i].name, good |-> rules[i].good] :
                            i \in InScope(local[e].group)}
    <2>1. \A i \in Live : rules[i].name \in Names /\ rules[i].good \in Criteria /\ i \in Ids
      BY DEF Live, Rules
    <2>2. tasks \in SUBSET Tasks
      BY <2>1 DEF Tasks, InScope
    <2>3. local' = [local EXCEPT ![e].todo = tasks] /\ Continue(e, tasks)
      BY <1>2 DEF ListRules
    <2> HIDE DEF tasks
    <2>4. local' \in [Evaluations -> Locals]
      BY <2>2, <2>3, <1>a DEF Locals
    <2> QED BY <1>2, <2>3, <2>4 DEF ListRules
  <1>3. ASSUME ReadFinding(e) PROVE TypeOK'
    <2>1. PICK next \in local[e].todo :
             local' = [local EXCEPT ![e].cur = next, ![e].prev = finding[next.id],
                                    ![e].todo = @ \ {next}]
      BY <1>3 DEF ReadFinding
    <2>2. next \in Tasks /\ next.id \in Ids
      BY <1>a, <2>1 DEF Tasks, Locals
    <2>3. finding[next.id] \in Statuses \cup {"none"}
      BY <2>2
    <2> DEFINE new == [local[e] EXCEPT !.cur = next, !.prev = finding[next.id],
                                       !.todo = local[e].todo \ {next}]
    <2>4. local' = [local EXCEPT ![e] = new]
      BY <2>1
    <2>5. local[e].todo \ {next} \in SUBSET Tasks
      BY <1>a DEF Locals
    <2>6. new \in Locals
      BY <2>2, <2>3, <2>5, <1>a DEF Locals
    <2> HIDE DEF new
    <2>7. local' \in [Evaluations -> Locals]
      BY <2>4, <2>6
    <2>8. /\ pc' = [pc EXCEPT ![e] = "upsert"]
          /\ UNCHANGED <<rules, created, finding, group, edits, faults, changed, notices, serial,
                         recent, disturbed>>
      BY <1>3 DEF ReadFinding
    <2> QED BY <2>7, <2>8
  <1>4. ASSUME Upsert(e) PROVE TypeOK'
    <2> DEFINE i == local[e].cur.id
    <2>1. i \in Ids /\ Found(e) \in Statuses
      BY <1>4, FoundType DEF Upsert, CanStore, Live
    <2>2. finding' \in [Ids -> Statuses \cup {"none"}]
      BY <1>4, <2>1 DEF Upsert
    <2>3. Change(i, Found(e)) \in Seq(Moves)
      <3> DEFINE move == [from |-> finding[i], to |-> Found(e)]
      <3>1. finding[i] \notin {"none", Found(e)} => move \in Moves
        BY <2>1 DEF Moves
      <3>2. changed[i] \in Seq(Moves)
        BY <2>1
      <3> HIDE DEF move
      <3>3. move \in Moves => Append(changed[i], move) \in Seq(Moves)
        BY <3>2
      <3> QED BY <3>1, <3>2, <3>3 DEF Change, move
    <2>4. changed' \in [Ids -> Seq(Moves)]
      BY <1>4, <2>1, <2>3 DEF Upsert
    <2> QED BY <1>4, <2>2, <2>4 DEF Upsert
  <1>5. UpsertFails(e) => TypeOK'
    BY <1>a DEF UpsertFails
  <1>6. ASSUME Notify(e), IdsInv PROVE TypeOK'
    <2> DEFINE i == local[e].cur.id
    <2>1. i \in Ids
      BY <1>6 DEF Notify, IdsInv, Tasks
    <2>2. Move(e) \in Moves
      BY <1>6, <1>a, FoundType DEF Notify, Move, Moves, IdsInv, Locals
    <2>3. Append(notices[i], Move(e)) \in Seq(Moves)
      BY <2>1, <2>2
    <2>4. notices' = [notices EXCEPT ![i] = Append(notices[i], Move(e))]
      BY <1>6 DEF Notify, Move
    <2>5. notices' \in [Ids -> Seq(Moves)]
      BY <2>1, <2>3, <2>4
    <2> QED BY <1>6, <2>5 DEF Notify
  <1>7. Cleanup(e) => TypeOK'
    BY <1>a DEF Cleanup
  <1>8. Expire(e) => TypeOK'
    BY <1>a, BoundsAssumption DEF Expire, Fault
  <1> QED BY <1>1, <1>2, <1>3, <1>4, <1>5, <1>6, <1>7, <1>8

--------------------------------------------------------------------------------
(***************************************************************************)
(* Edits.  Whatever an edit does to the tables, it gives out new ids only, *)
(* and a row that can still be stored afterwards is as it was.             *)
(***************************************************************************)

Kept ==
    /\ created' >= created
    /\ \A i \in Live' : i <= created'
    /\ \A i \in Ids : i <= created /\ CanStore(i)' => CanStore(i) /\ finding'[i] = finding[i]

EditActions ==
    CreateRule \/ UpdateRule \/ DeleteRule \/ SetGroupPacks \/ MoveDevice \/ DeleteDevice

LEMMA EditStep ==
    ASSUME TypeOK, FindingsRefer, IdsInv, EditActions
    PROVE  TypeOK' /\ FindingsRefer' /\ Kept
  <1> USE DEF Edit, TypeOK, Live, CanStore
  <1>0. /\ created \in Nat /\ MaxRules \in Nat /\ edits' \in 0 .. MaxEdits
        /\ UNCHANGED <<pc, local, faults, changed, notices, serial, recent>> /\ disturbed' = TRUE
    BY BoundsAssumption
       DEF EditActions, CreateRule, UpdateRule, DeleteRule, SetGroupPacks, MoveDevice, DeleteDevice
  <1>1. ASSUME CreateRule PROVE TypeOK' /\ FindingsRefer' /\ Kept
    <2>1. PICK n \in Names, good \in Criteria :
             rules' = [rules EXCEPT ![created + 1] =
                          [name |-> n, scope |-> NoGroup, good |-> good]]
      BY <1>1 DEF CreateRule
    <2>2. created' = created + 1 /\ created + 1 \in Ids /\ UNCHANGED <<finding, group>>
      BY <1>0, <1>1 DEF CreateRule, Ids
    <2>3. [name |-> n, scope |-> NoGroup, good |-> good] \in Rules
      BY DEF Rules
    <2>4. [name |-> n, scope |-> NoGroup, good |-> good] # NoRule
      BY GroupsAssumption DEF NoRule
    <2>5. TypeOK'
      BY <1>0, <2>1, <2>2, <2>3 DEF Ids
    <2>6. FindingsRefer'
      BY <2>1, <2>2, <2>4 DEF FindingsRefer
    <2>7. \A i \in Ids : i # created + 1 => rules'[i] = rules[i]
      BY <2>1
    <2>8. created \in Int /\ created' \in Int /\ \A i \in Ids : i \in Int
      BY <1>0, <2>2 DEF Ids
    <2>9. \A i \in Live' : i <= created'
      <3> SUFFICES ASSUME NEW i \in Ids, rules'[i] # NoRule PROVE i <= created'
        OBVIOUS
      <3>1. i = created + 1 \/ i \in Live
        BY <2>7
      <3>2. i \in Live => i <= created
        BY DEF IdsInv
      <3> QED BY <2>2, <2>8, <3>1, <3>2
    <2>10. \A i \in Ids : i <= created => rules'[i] = rules[i]
      BY <2>2, <2>7, <2>8
    <2>11. Kept
      BY <2>2, <2>8, <2>9, <2>10 DEF Kept
    <2> QED BY <2>5, <2>6, <2>11
  <1>2. ASSUME UpdateRule PROVE TypeOK' /\ FindingsRefer' /\ Kept
    <2>1. PICK good \in Criteria, i \in Live :
             rules[i].scope = NoGroup /\ rules' = [rules EXCEPT ![i].good = good]
      BY <1>2 DEF UpdateRule, Named
    <2>2. UNCHANGED <<created, finding, group>>
      BY <1>2 DEF UpdateRule
    <2>3. i \in Ids /\ rules[i] \in Rules /\ rules[i].scope = NoGroup
      BY <2>1
    <2>4. [rules[i] EXCEPT !.good = good] \in Rules /\ [rules[i] EXCEPT !.good = good].scope = NoGroup
      BY <2>3 DEF Rules
    <2>5. [rules[i] EXCEPT !.good = good] # NoRule
      BY <2>4, GroupsAssumption DEF NoRule
    <2>6. rules' = [rules EXCEPT ![i] = [rules[i] EXCEPT !.good = good]]
      BY <2>1
    <2>7. TypeOK'
      BY <1>0, <2>2, <2>3, <2>4, <2>6
    <2>8. \A j \in Ids : rules'[j] # NoRule <=> rules[j] # NoRule
      BY <2>3, <2>5, <2>6
    <2>9. FindingsRefer' /\ Kept
      BY <1>0, <2>2, <2>8 DEF FindingsRefer, Kept, IdsInv
    <2> QED BY <2>7, <2>9
  <1>3. ASSUME DeleteRule PROVE TypeOK' /\ FindingsRefer' /\ Kept
    <2>1. PICK i \in Live : rules' = [rules EXCEPT ![i] = NoRule] /\ finding' = Without({i})
      BY <1>3 DEF DeleteRule
    <2>2. UNCHANGED <<created, group>>
      BY <1>3 DEF DeleteRule
    <2>3. TypeOK'
      BY <1>0, <2>1, <2>2 DEF Without
    <2>4. FindingsRefer' /\ Kept
      BY <1>0, <2>1, <2>2 DEF FindingsRefer, Kept, IdsInv, Without
    <2> QED BY <2>3, <2>4
  <1>4. ASSUME SetGroupPacks PROVE TypeOK' /\ FindingsRefer' /\ Kept
    <2>1. PICK g \in Groups, names \in SUBSET Names : \E demand \in [names -> Criteria] :
             /\ created + Cardinality(names) <= MaxRules
             /\ rules' = PackRules(g, names, demand)
             /\ finding' = Without({i \in Live : rules[i].scope = g})
             /\ created' = created + Cardinality(names)
      BY <1>4 DEF SetGroupPacks, PackRules
    <2>2. PICK demand \in [names -> Criteria] : rules' = PackRules(g, names, demand)
      BY <2>1
    <2>3. created' = created + Cardinality(names) /\ created' <= MaxRules /\ group' = group
      BY <1>4, <2>1 DEF SetGroupPacks
    <2>4. Cardinality(names) \in Nat
      BY NamesAssumption, FS_Subset, FS_CardinalityType
    <2>5. \A i \in Ids : finding'[i] = IF i \in Live /\ rules[i].scope = g THEN "none" ELSE finding[i]
      BY <2>1 DEF Without
    <2>6. finding' \in [Ids -> Statuses \cup {"none"}]
      BY <2>1 DEF Without
    <2>7. rules' \in [Ids -> Rules \cup {NoRule}]
      BY <2>2, PackRulesType
    <2>8. TypeOK'
      BY <1>0, <2>3, <2>4, <2>6, <2>7
    <2>9. \A i \in Live' : \/ i \in Live /\ rules[i].scope # g
                           \/ i > created /\ i <= created'
      BY <2>2, <2>3, PackRulesType
    <2>10. \A i \in Live : rules[i].scope # g => i \in Live'
      <3> SUFFICES ASSUME NEW i \in Live, rules[i].scope # g PROVE rules'[i] # NoRule
        BY DEF Live
      <3>1. i <= created
        BY DEF IdsInv
      <3>2. i \in Int /\ created \in Int
        BY <1>0 DEF Ids
      <3>3. \A n \in names : IdOf(n, names) \in Nat /\ IdOf(n, names) > created
        BY NewIds
      <3>4. ~ \E n \in names : IdOf(n, names) = i
        BY <3>1, <3>2, <3>3
      <3>5. PackRules(g, names, demand)[i] = rules[i]
        BY <3>4 DEF PackRules
      <3> QED BY <2>2, <3>5
    <2>11. FindingsRefer'
      BY <2>3, <2>5, <2>10 DEF FindingsRefer
    <2>12. created \in Int /\ created' \in Int /\ created' >= created /\ \A i \in Ids : i \in Int
      BY <1>0, <2>3, <2>4 DEF Ids
    <2>13. \A i \in Live' : i <= created'
      BY <2>9, <2>12 DEF IdsInv
    <2>14. \A i \in Live' : i <= created => i \in Live /\ finding'[i] = finding[i]
      <3> SUFFICES ASSUME NEW i \in Ids, i \in Live', i <= created
                   PROVE  i \in Live /\ finding'[i] = finding[i]
        OBVIOUS
      <3>1. ~(i > created)
        BY <2>12
      <3>2. i \in Live /\ rules[i].scope # g
        BY <2>9, <3>1
      <3> QED BY <2>5, <3>2
    <2>15. Kept
      BY <2>3, <2>12, <2>13, <2>14 DEF Kept
    <2> QED BY <2>8, <2>11, <2>15
  <1>5. ASSUME MoveDevice PROVE TypeOK' /\ FindingsRefer' /\ Kept
    BY <1>0, <1>5, GroupsAssumption DEF MoveDevice, FindingsRefer, Kept, IdsInv
  <1>6. ASSUME DeleteDevice PROVE TypeOK' /\ FindingsRefer' /\ Kept
    BY <1>0, <1>6 DEF DeleteDevice, FindingsRefer, Kept, IdsInv, Without
  <1> QED BY <1>1, <1>2, <1>3, <1>4, <1>5, <1>6 DEF EditActions

LEMMA EditPreserves ==
    ASSUME IInv, EditActions PROVE IInv'
  <1>1. TypeOK' /\ FindingsRefer' /\ Kept
    BY EditStep DEF IInv
  <1>2. UNCHANGED <<pc, local, changed, notices, serial>>
    BY DEF EditActions, CreateRule, UpdateRule, DeleteRule, SetGroupPacks, MoveDevice,
           DeleteDevice, Edit
  <1>3. created \in Int /\ created' \in Int /\ created' >= created /\ \A i \in Ids : i \in Int
    BY <1>1 DEF Kept, TypeOK, Ids, IInv
  <1>4. IdsInv'
    <2>1. \A i \in Live' : i <= created'
      BY <1>1 DEF Kept
    <2>2. ASSUME NEW e \in Evaluations, NEW t \in local[e].todo PROVE t.id <= created'
      <3>1. t.id \in Ids /\ t.id <= created
        BY DEF IInv, TypeOK, IdsInv, Locals, Tasks
      <3> QED BY <1>3, <3>1
    <2>3. ASSUME NEW e \in Evaluations, pc[e] \in {"upsert", "notify"}
          PROVE  local[e].cur \in Tasks /\ local[e].cur.id <= created'
      <3>1. local[e].cur \in Tasks /\ local[e].cur.id \in Ids /\ local[e].cur.id <= created
        BY <2>3 DEF IInv, IdsInv, Tasks
      <3> QED BY <1>3, <3>1
    <2> QED BY <1>2, <2>1, <2>2, <2>3 DEF IdsInv, IInv
  <1>5. PrevInv'
    <2> SUFFICES ASSUME serial, NEW e \in Evaluations, pc[e] = "upsert", CanStore(local[e].cur.id)'
                 PROVE  local[e].prev = finding'[local[e].cur.id]
      BY <1>2 DEF PrevInv
    <2>1. local[e].cur.id \in Ids /\ local[e].cur.id <= created
      BY DEF IInv, IdsInv, Tasks
    <2>2. CanStore(local[e].cur.id) /\ finding'[local[e].cur.id] = finding[local[e].cur.id]
      BY <1>1, <1>2, <2>1 DEF Kept, CanStore
    <2> QED BY <2>2 DEF IInv, PrevInv
  <1>6. SerialInv' /\ OwedInv' /\ ReportedInv'
    BY <1>2 DEF IInv, SerialInv, OwedInv, ReportedInv, Running, Move, Found
  <1> QED BY <1>1, <1>4, <1>5, <1>6 DEF IInv

--------------------------------------------------------------------------------
(***************************************************************************)
(* Steps of an evaluation.                                                 *)
(***************************************************************************)

\* A step of e leaves the variables of the other calls alone.
Others(e) == \A f \in Evaluations : f # e => pc'[f] = pc[f] /\ local'[f] = local[f]

LEMMA Alone ==
    ASSUME IInv, serial, NEW e \in Evaluations, Running(e), NEW f \in Evaluations, f # e
    PROVE  pc[f] \in {"idle", "ended"}
  BY DEF IInv, SerialInv, Running

\* Steps after which e is not about to store or to report anything.
LEMMA PlainStep ==
    ASSUME IInv, TypeOK', FindingsRefer', NEW e \in Evaluations, Running(e), Others(e),
           pc[e] # "notify", pc'[e] \notin {"upsert", "notify"},
           local'[e].todo \subseteq local[e].todo \/ \A t \in local'[e].todo : t.id \in Live,
           UNCHANGED <<rules, created, changed, notices, serial>>
    PROVE  IInv'
  <1>1. IdsInv'
    BY DEF IInv, IdsInv, Others, Live
  <1>2. PrevInv' /\ SerialInv' /\ OwedInv'
    BY Alone DEF IInv, PrevInv, SerialInv, OwedInv, Others, Running
  <1>3. ASSUME serial, NEW i \in Ids PROVE notices[i] = changed[i]
    BY <1>3, Alone DEF IInv, ReportedInv
  <1>4. ReportedInv'
    BY <1>3 DEF ReportedInv
  <1> QED BY <1>1, <1>2, <1>4 DEF IInv

LEMMA BeginStep ==
    ASSUME IInv, NEW e \in Evaluations, Begin(e) PROVE IInv'
  <1> USE DEF IInv
  <1>1. TypeOK'
    BY EvaluationTypes
  <1>2. /\ pc[e] = "idle" /\ pc' = [pc EXCEPT ![e] = "rules"]
        /\ UNCHANGED <<rules, created, finding, group, changed, notices>>
        /\ serial' = (serial /\ Quiet)
    BY DEF Begin, Goto, tables
  <1>3. PICK t \in Texts : local' = [local EXCEPT ![e].text = t, ![e].group = group]
    BY DEF Begin
  <1>4. pc'[e] = "rules" /\ local'[e].todo = local[e].todo /\ Others(e)
    BY <1>2, <1>3 DEF TypeOK, Others
  <1>5. FindingsRefer' /\ IdsInv'
    BY <1>2, <1>4 DEF FindingsRefer, IdsInv, Others, Live
  <1>6. ASSUME serial' PROVE serial /\ \A f \in Evaluations : pc[f] \in {"idle", "ended"}
    BY <1>2, <1>6 DEF Quiet, Running
  <1>7. PrevInv' /\ SerialInv' /\ OwedInv'
    BY <1>4, <1>6 DEF PrevInv, SerialInv, OwedInv, Others, Running
  <1>8. ReportedInv'
    BY <1>2, <1>6 DEF ReportedInv
  <1> QED BY <1>1, <1>5, <1>7, <1>8

LEMMA ListRulesStep ==
    ASSUME IInv, NEW e \in Evaluations, ListRules(e) PROVE IInv'
  <1> DEFINE tasks == {[id |-> i, name |-> rules[i].name, good |-> rules[i].good] :
                          i \in InScope(local[e].group)}
  <1>1. TypeOK'
    BY EvaluationTypes DEF IInv
  <1>2. local' = [local EXCEPT ![e].todo = tasks] /\ Continue(e, tasks)
    BY DEF ListRules
  <1>3. \A t \in tasks : t.id \in Live
    BY DEF InScope
  <1> HIDE DEF tasks
  <1>4. local'[e].todo = tasks /\ Others(e) /\ pc'[e] \in {"read", "cleanup"}
    BY <1>2 DEF Others, Continue, Goto, IInv, TypeOK, Locals
  <1>5. pc[e] = "rules" /\ UNCHANGED <<tables, changed, notices, serial>>
    BY DEF ListRules, history
  <1>6. FindingsRefer'
    BY <1>5 DEF IInv, FindingsRefer, tables, Live
  <1>7. \A t \in local'[e].todo : t.id \in Live
    BY <1>3, <1>4
  <1>8. UNCHANGED <<rules, created, changed, notices, serial>>
    BY <1>5 DEF tables
  <1>9. Running(e)
    BY <1>5 DEF Running
  <1>10. pc[e] # "notify" /\ pc'[e] \notin {"upsert", "notify"}
    BY <1>4, <1>5
  <1> QED BY <1>1, <1>4, <1>6, <1>7, <1>8, <1>9, <1>10, PlainStep

LEMMA ReadFindingStep ==
    ASSUME IInv, NEW e \in Evaluations, ReadFinding(e) PROVE IInv'
  <1> USE DEF IInv
  <1>1. TypeOK'
    BY EvaluationTypes
  <1>2. PICK next \in local[e].todo :
           local' = [local EXCEPT ![e].cur = next, ![e].prev = finding[next.id],
                                  ![e].todo = @ \ {next}]
    BY DEF ReadFinding
  <1>3. /\ pc[e] = "read" /\ pc' = [pc EXCEPT ![e] = "upsert"]
        /\ UNCHANGED <<rules, created, finding, group, changed, notices, serial>>
    BY DEF ReadFinding, Goto, tables, history
  <1>4. /\ local'[e].cur = next /\ local'[e].prev = finding[next.id]
        /\ local'[e].todo = local[e].todo \ {next} /\ pc'[e] = "upsert" /\ Others(e)
    BY <1>2, <1>3 DEF TypeOK, Locals, Others
  <1>5. next \in Tasks /\ next.id <= created
    BY DEF TypeOK, Locals, IdsInv
  <1>6. FindingsRefer'
    BY <1>3 DEF FindingsRefer, Live
  <1>7. IdsInv'
    BY <1>3, <1>4, <1>5 DEF IdsInv, Others, Live
  <1>8. Running(e)
    BY <1>3 DEF Running
  <1>9. PrevInv' /\ SerialInv' /\ OwedInv'
    BY <1>3, <1>4, <1>8, Alone DEF PrevInv, SerialInv, OwedInv, Others, Running
  <1>10. ASSUME serial, NEW i \in Ids PROVE notices[i] = changed[i]
    BY <1>3, <1>8, <1>10, Alone DEF ReportedInv
  <1>11. ReportedInv'
    BY <1>3, <1>10 DEF ReportedInv
  <1> QED BY <1>1, <1>6, <1>7, <1>9, <1>11

LEMMA UpsertStep ==
    ASSUME IInv, NEW e \in Evaluations, Upsert(e) PROVE IInv'
  <1> USE DEF IInv
  <1> DEFINE i == local[e].cur.id
  <1>1. TypeOK'
    BY EvaluationTypes
  <1>2. /\ pc[e] = "upsert" /\ CanStore(i) /\ Running(e)
        /\ finding' = [finding EXCEPT ![i] = Found(e)]
        /\ changed' = [changed EXCEPT ![i] = Change(i, Found(e))]
        /\ UNCHANGED <<rules, created, group, local, notices, serial>>
    BY DEF Upsert, Running
  <1>3. Others(e) /\ pc'[e] \in {"notify", "read", "cleanup"}
        /\ (pc'[e] = "notify" <=> IsTransition(e))
    BY DEF Upsert, Continue, Goto, Others, TypeOK
  <1>4. i \in Ids /\ i \in Live /\ group # Deleted
    BY <1>2 DEF CanStore, Live
  <1>5. FindingsRefer'
    BY <1>2, <1>4 DEF FindingsRefer, Live, TypeOK
  <1>6. IdsInv'
    BY <1>2, <1>3, FoundType DEF IdsInv, Others, Live, IsTransition
  <1>7. PrevInv' /\ SerialInv'
    BY <1>2, <1>3, Alone DEF PrevInv, SerialInv, Others, Running
  <1>8. ASSUME serial PROVE OwedInv' /\ ReportedInv'
    <2>1. \A f \in Evaluations : f # e => pc[f] # "notify" /\ pc'[f] # "notify"
      BY <1>2, <1>3, <1>8, Alone DEF Others
    <2>2. \A j \in Ids : notices[j] = changed[j]
      BY <1>2, <1>8, <2>1 DEF ReportedInv
    <2>3. local[e].prev = finding[i]
      BY <1>2, <1>8 DEF PrevInv
    <2>4. \A j \in Ids : j # i => changed'[j] = changed[j]
      BY <1>2 DEF TypeOK
    <2>5. changed'[i] = Change(i, Found(e))
      BY <1>2, <1>4 DEF TypeOK
    <2>6. CASE IsTransition(e)
      <3>1. changed'[i] = Append(notices[i], Move(e))
        BY <1>4, <2>2, <2>3, <2>5, <2>6 DEF Change, IsTransition, Move
      <3>2. Move(e)' = Move(e)
        BY <1>2 DEF Move, Found
      <3>3. OwedInv'
        BY <1>2, <2>1, <3>1, <3>2 DEF OwedInv
      <3>4. ReportedInv'
        BY <1>2, <1>3, <2>2, <2>4, <2>6 DEF ReportedInv
      <3> QED BY <3>3, <3>4
    <2>7. CASE ~IsTransition(e)
      <3>1. changed'[i] = changed[i]
        BY <2>3, <2>5, <2>7 DEF Change, IsTransition
      <3>2. OwedInv'
        BY <1>3, <2>1, <2>7 DEF OwedInv
      <3>3. ReportedInv'
        BY <1>2, <2>2, <2>4, <3>1 DEF ReportedInv
      <3> QED BY <3>2, <3>3
    <2> QED BY <2>6, <2>7
  <1>9. ASSUME ~serial PROVE OwedInv' /\ ReportedInv'
    BY <1>2, <1>9 DEF OwedInv, ReportedInv
  <1> QED BY <1>1, <1>5, <1>6, <1>7, <1>8, <1>9

LEMMA NotifyStep ==
    ASSUME IInv, NEW e \in Evaluations, Notify(e) PROVE IInv'
  <1> USE DEF IInv
  <1> DEFINE i == local[e].cur.id
  <1>1. TypeOK'
    BY EvaluationTypes
  <1>2. /\ pc[e] = "notify" /\ Running(e)
        /\ notices' = [notices EXCEPT ![i] = Append(notices[i], Move(e))]
        /\ UNCHANGED <<rules, created, finding, group, local, changed, serial>>
    BY DEF Notify, Running, tables, Move
  <1>3. Others(e) /\ pc'[e] \in {"read", "cleanup"}
    BY DEF Notify, Continue, Goto, Others, TypeOK
  <1>4. i \in Ids
    BY <1>2 DEF IdsInv, Tasks
  <1>5. FindingsRefer' /\ IdsInv'
    BY <1>2, <1>3 DEF FindingsRefer, IdsInv, Others, Live
  <1>6. PrevInv' /\ SerialInv' /\ OwedInv'
    BY <1>2, <1>3, Alone DEF PrevInv, SerialInv, OwedInv, Others, Running
  <1>7. ASSUME serial, NEW j \in Ids PROVE notices'[j] = changed[j]
    <2>1. CASE j = i
      BY <1>2, <1>4, <1>7, <2>1 DEF OwedInv, TypeOK
    <2>2. CASE j # i
      <3>1. \A f \in Evaluations : pc[f] = "notify" => local[f].cur.id # j
        BY <1>2, <1>7, <2>2, Alone
      <3> QED BY <1>2, <1>7, <2>2, <3>1 DEF ReportedInv, TypeOK
    <2> QED BY <2>1, <2>2
  <1>8. ReportedInv'
    BY <1>2, <1>7 DEF ReportedInv
  <1> QED BY <1>1, <1>5, <1>6, <1>8

LEMMA EndStep ==
    ASSUME IInv, NEW e \in Evaluations, UpsertFails(e) \/ Cleanup(e) \/ Expire(e)
    PROVE  IInv'
  <1>1. TypeOK'
    BY EvaluationTypes DEF IInv
  <1>2. /\ pc[e] \notin {"idle", "notify", "ended"}
        /\ pc' = [pc EXCEPT ![e] = "ended"] /\ local' = [local EXCEPT ![e] = NoLocals]
        /\ UNCHANGED <<rules, created, group, changed, notices, serial>>
        /\ finding' = finding
           \/ finding' = [j \in Ids |-> IF j \in Stale(local[e].group) THEN "none" ELSE finding[j]]
    BY DEF UpsertFails, Cleanup, Expire, Fault, Return, Goto, tables, history
  <1>3. FindingsRefer'
    BY <1>2 DEF IInv, FindingsRefer, Live
  <1>4. Running(e)
    BY <1>2 DEF Running
  <1>5. pc'[e] = "ended" /\ local'[e].todo = {} /\ Others(e)
    BY <1>2 DEF IInv, TypeOK, Others, NoLocals
  <1>6. local'[e].todo \subseteq local[e].todo
    BY <1>5
  <1>7. pc[e] # "notify" /\ pc'[e] \notin {"upsert", "notify"}
    BY <1>2, <1>5
  <1> QED BY <1>1, <1>2, <1>3, <1>4, <1>5, <1>6, <1>7, PlainStep

LEMMA CrashStep == IInv /\ Crash => IInv'
  <1> SUFFICES ASSUME IInv, Crash PROVE IInv'
    OBVIOUS
  <1>1. /\ pc' = [e \in Evaluations |-> IF Running(e) THEN "ended" ELSE pc[e]]
        /\ local' = [e \in Evaluations |-> NoLocals] /\ serial' = FALSE
        /\ disturbed' = TRUE /\ faults' = faults + 1 /\ faults < MaxFaults
        /\ UNCHANGED <<rules, created, finding, group, edits, changed, notices, recent>>
    BY DEF Crash, Fault, tables
  <1>2. NoLocals \in Locals
    BY DEF NoLocals, Locals
  <1>3. TypeOK'
    <2> USE DEF IInv, TypeOK
    <2>1. pc' \in [Evaluations -> Steps]
      BY <1>1 DEF Steps
    <2>2. local' \in [Evaluations -> Locals]
      BY <1>1, <1>2
    <2>3. faults' \in 0 .. MaxFaults
      BY <1>1, BoundsAssumption
    <2>4. /\ rules' \in [Ids -> Rules \cup {NoRule}] /\ created' \in 0 .. MaxRules
          /\ finding' \in [Ids -> Statuses \cup {"none"}]
          /\ group' \in Groups \cup {NoGroup, Deleted} /\ edits' \in 0 .. MaxEdits
          /\ changed' \in [Ids -> Seq(Moves)] /\ notices' \in [Ids -> Seq(Moves)]
          /\ serial' \in BOOLEAN /\ disturbed' \in BOOLEAN /\ recent' \subseteq Texts
      BY <1>1
    <2> QED BY <2>1, <2>2, <2>3, <2>4 DEF Steps
  <1>4. FindingsRefer'
    BY <1>1 DEF IInv, FindingsRefer, Live
  <1>5. \A e \in Evaluations : pc'[e] \notin {"upsert", "notify"} /\ local'[e].todo = {}
    BY <1>1 DEF Running, NoLocals, IInv, TypeOK
  <1>6. IdsInv'
    BY <1>1, <1>5 DEF IInv, IdsInv, Live
  <1>7. PrevInv' /\ SerialInv' /\ OwedInv' /\ ReportedInv'
    BY <1>1 DEF PrevInv, SerialInv, OwedInv, ReportedInv
  <1> QED BY <1>3, <1>4, <1>6, <1>7 DEF IInv

--------------------------------------------------------------------------------
LEMMA InitIInv == Init => IInv
  <1> SUFFICES ASSUME Init PROVE IInv
    OBVIOUS
  <1> USE DEF Init
  <1>1. NoLocals \in Locals
    BY DEF NoLocals, Locals
  <1>2. TypeOK
    BY <1>1, BoundsAssumption DEF TypeOK
  <1>3. Live = {} /\ \A e \in Evaluations : local[e].todo = {} /\ pc[e] = "idle"
    BY DEF Live, NoLocals
  <1>4. FindingsRefer /\ IdsInv /\ PrevInv /\ SerialInv /\ OwedInv /\ ReportedInv
    BY <1>3 DEF FindingsRefer, IdsInv, PrevInv, SerialInv, OwedInv, ReportedInv, Running
  <1> QED BY <1>2, <1>4 DEF IInv

LEMMA NextIInv == IInv /\ [Next]_vars => IInv'
  <1> SUFFICES ASSUME IInv, [Next]_vars PROVE IInv'
    OBVIOUS
  <1>1. ASSUME NEW e \in Evaluations,
               \/ Begin(e) \/ ListRules(e) \/ ReadFinding(e) \/ Upsert(e) \/ UpsertFails(e)
               \/ Notify(e) \/ Cleanup(e) \/ Expire(e)
        PROVE  IInv'
    BY <1>1, BeginStep, ListRulesStep, ReadFindingStep, UpsertStep, NotifyStep, EndStep
  <1>2. CASE Crash
    BY <1>2, CrashStep
  <1>3. CASE EditActions
    BY <1>3, EditPreserves
  <1>4. CASE UNCHANGED vars
    BY <1>4 DEF vars, tables, history, IInv, TypeOK, FindingsRefer, IdsInv, PrevInv, SerialInv,
                OwedInv, ReportedInv, Live, CanStore, Running, Move, Found
  <1> QED BY <1>1, <1>2, <1>3, <1>4 DEF Next, EditActions

\* Every variable keeps its type.
THEOREM TypeCorrect == Spec => []TypeOK
  <1>1. IInv => TypeOK
    BY DEF IInv
  <1> QED BY <1>1, InitIInv, NextIInv, PTL DEF Spec

\* The strengthening: ids are never given out twice, so that what an evaluation
\* read of a rule stays true or the rule is gone.
THEOREM InductiveInvariant == Spec => []IInv
  BY InitIInv, NextIInv, PTL DEF Spec

\* Foreign keys: no finding outlives its rule or its device.
THEOREM FindingsAlwaysRefer == Spec => []FindingsRefer
  <1>1. IInv => FindingsRefer
    BY DEF IInv
  <1> QED BY <1>1, InitIInv, NextIInv, PTL DEF Spec

\* Of evaluations that do not overlap, every change is reported, once and in order.
THEOREM NoticesAreComplete == Spec => []NoticesTellTheState
  <1>1. IInv => NoticesTellTheState
    <2> SUFFICES ASSUME IInv, serial, NEW i \in Ids
                 PROVE  \/ notices[i] = changed[i]
                        \/ \E e \in Pending(i) : changed[i] = Append(notices[i], Move(e))
      BY DEF NoticesTellTheState, Move
    <2>1. CASE \E e \in Evaluations : pc[e] = "notify" /\ local[e].cur.id = i
      BY <2>1 DEF IInv, OwedInv, Pending
    <2>2. CASE \A e \in Evaluations : pc[e] = "notify" => local[e].cur.id # i
      BY <2>2 DEF IInv, ReportedInv
    <2> QED BY <2>1, <2>2
  <1> QED BY <1>1, InitIInv, NextIInv, PTL DEF Spec

--------------------------------------------------------------------------------
(***************************************************************************)
(* Findings settle.  From the moment the device was last quiet, and until  *)
(* something is edited or cut short, the rules and the group an evaluation *)
(* read are the ones there are: each rule that applies has a verdict on a  *)
(* recent text or is still due in every evaluation under way, and whoever  *)
(* ends last sweeps out the rest.                                          *)
(***************************************************************************)

Fresh(i) == finding[i] \in {Verdict(rules[i].good, t) : t \in recent}

Current(task) == task.id \in InScope(group) /\ task.good = rules[task.id].good

Due(e) == local[e].todo \cup (IF pc[e] = "upsert" THEN {local[e].cur} ELSE {})

EvaluationInv(e) ==
    /\ local[e].group = group /\ local[e].text \in recent
    /\ pc[e] # "rules" =>
          /\ \A t \in local[e].todo : Current(t)
          /\ \A i \in InScope(group) : Fresh(i) \/ \E t \in Due(e) : t.id = i
    /\ pc[e] \in {"upsert", "notify"} => Current(local[e].cur)
    /\ pc[e] = "cleanup" => local[e].todo = {}

Settled ==
    \A i \in Ids : IF i \in InScope(group) THEN Fresh(i) ELSE finding[i] = "none"

SettleInv ==
    ~disturbed =>
        /\ group # Deleted
        /\ \A e \in Evaluations : Running(e) => EvaluationInv(e)
        /\ Quiet => Settled

\* A step of e, taken in an undisturbed state it leaves undisturbed.
LEMMA SettleStep ==
    ASSUME SettleInv, ~disturbed, NEW e \in Evaluations, Running(e), Others(e),
           UNCHANGED <<rules, group, recent>>,
           \A i \in InScope(group) : Fresh(i) => Fresh(i)',
           Running(e)' => EvaluationInv(e)',
           ~Running(e)' => Settled'
    PROVE  SettleInv'
  <1>1. InScope(group)' = InScope(group)
    BY DEF InScope, Live, Applies
  <1>2. group # Deleted /\ \A f \in Evaluations : Running(f) => EvaluationInv(f)
    BY DEF SettleInv
  <1>3. ASSUME NEW f \in Evaluations, Running(f)' PROVE EvaluationInv(f)'
    <2>1. CASE f = e
      BY <1>3, <2>1
    <2>2. CASE f # e
      <3>1. pc'[f] = pc[f] /\ local'[f] = local[f]
        BY <2>2 DEF Others
      <3>2. EvaluationInv(f)
        BY <1>2, <1>3, <3>1 DEF Running
      <3>3. \A t : Current(t)' <=> Current(t)
        BY <1>1 DEF Current
      <3>4. Due(f)' = Due(f)
        BY <3>1 DEF Due
      <3> QED BY <1>1, <3>1, <3>2, <3>3, <3>4 DEF EvaluationInv
    <2> QED BY <2>1, <2>2
  <1>4. Quiet' => Settled'
    BY DEF Quiet
  <1> QED BY <1>2, <1>3, <1>4 DEF SettleInv

LEMMA BeginSettles ==
    ASSUME IInv, SettleInv, NEW e \in Evaluations, Begin(e) PROVE SettleInv'
  <1> SUFFICES ASSUME ~disturbed' PROVE SettleInv'
    BY DEF SettleInv
  <1>1. PICK t \in Texts :
           /\ local' = [local EXCEPT ![e].text = t, ![e].group = group]
           /\ recent' = IF Quiet THEN {t} ELSE recent \cup {t}
    BY DEF Begin
  <1>2. /\ pc[e] = "idle" /\ pc' = [pc EXCEPT ![e] = "rules"] /\ group # Deleted
        /\ UNCHANGED <<rules, finding, group>>
        /\ disturbed' = (disturbed /\ ~Quiet)
    BY DEF Begin, Goto, tables
  <1>3. /\ local'[e].text = t /\ local'[e].group = group /\ pc'[e] = "rules" /\ Others(e)
        /\ t \in recent'
    BY <1>1, <1>2 DEF IInv, TypeOK, Locals, Others
  <1>4. EvaluationInv(e)'
    BY <1>2, <1>3 DEF EvaluationInv
  <1>5. ~Quiet'
    BY <1>3 DEF Quiet, Running
  <1>6. ASSUME NEW f \in Evaluations, f # e, Running(f)' PROVE EvaluationInv(f)'
    <2>1. pc'[f] = pc[f] /\ local'[f] = local[f] /\ Running(f)
      BY <1>3, <1>6 DEF Others, Running
    <2>2. ~Quiet /\ ~disturbed /\ EvaluationInv(f)
      BY <1>2, <2>1 DEF Quiet, SettleInv
    <2>3. recent \subseteq recent'
      BY <1>1, <2>2
    <2>4. InScope(group)' = InScope(group)
      BY <1>2 DEF InScope, Live, Applies
    <2>5. \A i : Fresh(i) => Fresh(i)'
      BY <1>2, <2>3 DEF Fresh
    <2>6. \A x : Current(x)' <=> Current(x)
      BY <1>2, <2>4 DEF Current
    <2>7. Due(f)' = Due(f)
      BY <2>1 DEF Due
    <2> QED BY <1>2, <2>1, <2>2, <2>3, <2>4, <2>5, <2>6, <2>7 DEF EvaluationInv
  <1> QED BY <1>2, <1>4, <1>5, <1>6 DEF SettleInv

LEMMA ListRulesSettles ==
    ASSUME IInv, SettleInv, ~disturbed, NEW e \in Evaluations, ListRules(e) PROVE SettleInv'
  <1> DEFINE tasks == {[id |-> i, name |-> rules[i].name, good |-> rules[i].good] :
                          i \in InScope(local[e].group)}
  <1>1. /\ pc[e] = "rules" /\ local' = [local EXCEPT ![e].todo = tasks] /\ Continue(e, tasks)
        /\ UNCHANGED <<rules, finding, group, recent>>
    BY DEF ListRules, tables, history
  <1>2. Running(e) /\ EvaluationInv(e)
    BY <1>1 DEF SettleInv, Running
  <1>3. /\ \A x \in tasks : Current(x)
        /\ \A i \in InScope(group) : \E x \in tasks : x.id = i
    <2>1. local[e].group = group
      BY <1>2 DEF EvaluationInv
    <2>2. ASSUME NEW i \in InScope(group)
          PROVE  [id |-> i, name |-> rules[i].name, good |-> rules[i].good] \in tasks
      BY <2>1
    <2>3. ASSUME NEW x \in tasks PROVE Current(x)
      <3>1. PICK i \in InScope(group) :
               x = [id |-> i, name |-> rules[i].name, good |-> rules[i].good]
        BY <2>1
      <3>2. x.id = i /\ x.good = rules[i].good
        BY <3>1
      <3> QED BY <3>2 DEF Current
    <2> HIDE DEF tasks
    <2> QED BY <2>2, <2>3
  <1> HIDE DEF tasks
  <1>4. /\ local'[e].todo = tasks /\ local'[e].group = local[e].group
        /\ local'[e].text = local[e].text /\ Others(e)
        /\ pc'[e] = IF tasks = {} THEN "cleanup" ELSE "read"
    BY <1>1 DEF Others, Continue, Goto, IInv, TypeOK, Locals
  <1>5. InScope(group)' = InScope(group)
    BY <1>1 DEF InScope, Live, Applies
  <1>6. \A x : Current(x)' <=> Current(x)
    BY <1>1, <1>5 DEF Current
  <1>7. EvaluationInv(e)'
    BY <1>1, <1>2, <1>3, <1>4, <1>5, <1>6 DEF EvaluationInv, Due
  <1>8. Running(e)' /\ \A i : Fresh(i) => Fresh(i)'
    BY <1>1, <1>4 DEF Running, Fresh
  <1> QED BY <1>1, <1>2, <1>4, <1>7, <1>8, SettleStep

LEMMA ReadFindingSettles ==
    ASSUME IInv, SettleInv, ~disturbed, NEW e \in Evaluations, ReadFinding(e) PROVE SettleInv'
  <1>1. PICK next \in local[e].todo :
           local' = [local EXCEPT ![e].cur = next, ![e].prev = finding[next.id],
                                  ![e].todo = @ \ {next}]
    BY DEF ReadFinding
  <1>2. /\ pc[e] = "read" /\ pc' = [pc EXCEPT ![e] = "upsert"]
        /\ UNCHANGED <<rules, finding, group, recent>>
    BY DEF ReadFinding, Goto, tables, history
  <1>3. /\ local'[e].cur = next /\ local'[e].todo = local[e].todo \ {next}
        /\ local'[e].group = local[e].group /\ local'[e].text = local[e].text
        /\ pc'[e] = "upsert" /\ Others(e)
    BY <1>1, <1>2 DEF IInv, TypeOK, Locals, Others
  <1>4. Running(e) /\ EvaluationInv(e)
    BY <1>2 DEF SettleInv, Running
  <1>5. InScope(group)' = InScope(group)
    BY <1>2 DEF InScope, Live, Applies
  <1>6. \A x : Current(x)' <=> Current(x)
    BY <1>2, <1>5 DEF Current
  <1>7. Due(e) \subseteq Due(e)'
    BY <1>2, <1>3 DEF Due
  <1>8. \A i : Fresh(i)' <=> Fresh(i)
    BY <1>2 DEF Fresh
  <1>9. EvaluationInv(e)'
    BY <1>2, <1>3, <1>4, <1>5, <1>6, <1>7, <1>8 DEF EvaluationInv
  <1>10. Running(e)'
    BY <1>3 DEF Running
  <1> QED BY <1>2, <1>3, <1>4, <1>8, <1>9, <1>10, SettleStep

\* Where the next statement goes, for an evaluation whose current rule is done.
LEMMA ContinueSettles ==
    ASSUME IInv, SettleInv, ~disturbed, NEW e \in Evaluations,
           pc[e] \in {"upsert", "notify"}, Others(e),
           local' = local, UNCHANGED <<rules, group, recent>>,
           pc[e] = "upsert" => Fresh(local[e].cur.id)',
           \A i \in InScope(group) : Fresh(i) => Fresh(i)',
           \/ pc'[e] = "notify"
           \/ pc'[e] = IF local[e].todo = {} THEN "cleanup" ELSE "read"
    PROVE  SettleInv'
  <1>1. Running(e) /\ EvaluationInv(e) /\ Running(e)'
    BY DEF SettleInv, Running
  <1>2. InScope(group)' = InScope(group)
    BY DEF InScope, Live, Applies
  <1>3. \A x : Current(x)' <=> Current(x)
    BY <1>2 DEF Current
  <1>4. ASSUME NEW i \in InScope(group) PROVE Fresh(i)' \/ \E t \in Due(e)' : t.id = i
    <2>1. Fresh(i) \/ \E t \in Due(e) : t.id = i
      BY <1>1 DEF EvaluationInv
    <2>2. \A t \in Due(e) : t \in Due(e)' \/ (pc[e] = "upsert" /\ t = local[e].cur)
      BY DEF Due
    <2> QED BY <2>1, <2>2
  <1>5. EvaluationInv(e)'
    BY <1>1, <1>2, <1>3, <1>4 DEF EvaluationInv
  <1> QED BY <1>1, <1>5, SettleStep

LEMMA UpsertSettles ==
    ASSUME IInv, SettleInv, ~disturbed, NEW e \in Evaluations, Upsert(e) PROVE SettleInv'
  <1> DEFINE i == local[e].cur.id
  <1>1. /\ pc[e] = "upsert" /\ i \in Ids /\ local' = local
        /\ finding' = [finding EXCEPT ![i] = Found(e)]
        /\ UNCHANGED <<rules, group, recent>>
    BY DEF Upsert, CanStore, Live
  <1>2. /\ Others(e)
        /\ \/ pc'[e] = "notify"
           \/ pc'[e] = IF local[e].todo = {} THEN "cleanup" ELSE "read"
    BY DEF Upsert, Continue, Goto, Others, IInv, TypeOK
  <1>3. Current(local[e].cur) /\ local[e].text \in recent
    BY <1>1 DEF SettleInv, Running, EvaluationInv
  <1>4. Found(e) \in {Verdict(rules[i].good, t) : t \in recent}
    BY <1>3 DEF Found, Current
  <1>5. finding'[i] = Found(e) /\ \A j \in Ids : j # i => finding'[j] = finding[j]
    BY <1>1 DEF IInv, TypeOK
  <1>6. Fresh(i)'
    BY <1>1, <1>4, <1>5 DEF Fresh
  <1>7. ASSUME NEW j \in InScope(group), Fresh(j) PROVE Fresh(j)'
    <2>1. CASE j = i
      BY <1>1, <1>4, <1>5, <2>1 DEF Fresh
    <2>2. CASE j # i
      BY <1>1, <1>5, <1>7, <2>2 DEF Fresh, InScope, Live
    <2> QED BY <2>1, <2>2
  <1>8. Fresh(local[e].cur.id)'
    BY <1>1, <1>6
  <1> QED BY <1>1, <1>2, <1>7, <1>8, ContinueSettles

LEMMA NotifySettles ==
    ASSUME IInv, SettleInv, ~disturbed, NEW e \in Evaluations, Notify(e) PROVE SettleInv'
  <1>1. pc[e] = "notify" /\ local' = local /\ UNCHANGED <<rules, finding, group, recent>>
    BY DEF Notify, tables
  <1>2. Others(e) /\ pc'[e] = IF local[e].todo = {} THEN "cleanup" ELSE "read"
    BY DEF Notify, Continue, Goto, Others, IInv, TypeOK
  <1>3. \A i : Fresh(i) => Fresh(i)'
    BY <1>1 DEF Fresh
  <1> QED BY <1>1, <1>2, <1>3, ContinueSettles

\* An undisturbed evaluation never finds its rule or its device gone.
LEMMA NoUpsertFails ==
    ASSUME IInv, SettleInv, ~disturbed, NEW e \in Evaluations, UpsertFails(e) PROVE FALSE
  <1>1. Current(local[e].cur) /\ group # Deleted
    BY DEF UpsertFails, SettleInv, Running, EvaluationInv
  <1> QED BY <1>1 DEF UpsertFails, CanStore, Current, InScope

LEMMA CleanupSettles ==
    ASSUME IInv, SettleInv, ~disturbed, NEW e \in Evaluations, Cleanup(e) PROVE SettleInv'
  <1>1. /\ pc[e] = "cleanup" /\ pc' = [pc EXCEPT ![e] = "ended"] /\ Running(e)
        /\ finding' = [i \in Ids |-> IF i \in Stale(local[e].group) THEN "none" ELSE finding[i]]
        /\ UNCHANGED <<rules, group, recent>>
        /\ local' = [local EXCEPT ![e] = NoLocals]
    BY DEF Cleanup, Return, Goto, history, Running
  <1>2. pc'[e] = "ended" /\ Others(e)
    BY <1>1 DEF IInv, TypeOK, Others
  <1>3. EvaluationInv(e)
    BY <1>1 DEF SettleInv
  <1>4. \A i \in InScope(group) : Fresh(i)
    BY <1>1, <1>3 DEF EvaluationInv, Due
  <1>5. InScope(group)' = InScope(group)
    BY <1>1 DEF InScope, Live, Applies
  <1>6. \A i \in Ids : finding'[i] = IF i \in InScope(group) THEN finding[i] ELSE "none"
    BY <1>1, <1>3 DEF EvaluationInv, Stale
  <1>7. \A i \in InScope(group) : i \in Ids
    BY DEF InScope, Live
  <1>8. \A i \in InScope(group) : Fresh(i)'
    BY <1>1, <1>4, <1>6, <1>7 DEF Fresh
  <1>9. Settled'
    BY <1>5, <1>6, <1>8 DEF Settled
  <1> QED BY <1>1, <1>2, <1>8, <1>9, SettleStep DEF Running

\* Once evaluations come to rest, undisturbed, the findings are the verdicts on
\* what was just evaluated, and there are no others.
THEOREM FindingsComeToRest == Spec => []FindingsSettle
  <1>1. Init => SettleInv
    BY DEF Init, SettleInv
  <1>2. IInv /\ SettleInv /\ [Next]_vars => SettleInv'
    <2> SUFFICES ASSUME IInv, SettleInv, [Next]_vars PROVE SettleInv'
      OBVIOUS
    <2>1. ASSUME NEW e \in Evaluations, Begin(e) PROVE SettleInv'
      BY <2>1, BeginSettles
    <2>2. ASSUME NEW e \in Evaluations,
                 \/ ListRules(e) \/ ReadFinding(e) \/ Upsert(e) \/ UpsertFails(e)
                 \/ Notify(e) \/ Cleanup(e)
          PROVE  SettleInv'
      <3>1. disturbed' = disturbed
        BY <2>2 DEF ListRules, ReadFinding, Upsert, UpsertFails, Notify, Cleanup, history
      <3>2. CASE disturbed
        BY <3>1, <3>2 DEF SettleInv
      <3>3. CASE ~disturbed
        BY <2>2, <3>3, ListRulesSettles, ReadFindingSettles, UpsertSettles, NoUpsertFails,
           NotifySettles, CleanupSettles
      <3> QED BY <3>2, <3>3
    <2>3. ASSUME \/ \E e \in Evaluations : Expire(e)
                 \/ Crash \/ EditActions
          PROVE  SettleInv'
      <3>1. disturbed'
        BY <2>3 DEF Expire, Crash, Fault, EditActions, CreateRule, UpdateRule, DeleteRule,
                    SetGroupPacks, MoveDevice, DeleteDevice, Edit
      <3> QED BY <3>1 DEF SettleInv
    <2>4. CASE UNCHANGED vars
      BY <2>4 DEF vars, tables, history, SettleInv, EvaluationInv, Settled, Current, Due, Fresh,
                  Quiet, Running, InScope, Live, Applies
    <2> QED BY <2>1, <2>2, <2>3, <2>4 DEF Next, EditActions
  <1>3. IInv /\ SettleInv => FindingsSettle
    <2> SUFFICES ASSUME IInv, SettleInv, Quiet, ~disturbed
                 PROVE  /\ {i \in Ids : finding[i] # "none"} = InScope(group)
                        /\ \A i \in InScope(group) : Fresh(i)
      BY DEF FindingsSettle, Fresh
    <2>1. Settled /\ \A i \in InScope(group) : i \in Ids
      BY DEF SettleInv, InScope, Live
    <2>2. \A i : Fresh(i) => finding[i] # "none"
      BY DEF Fresh, Verdict
    <2> QED BY <2>1, <2>2 DEF Settled
  <1> QED BY <1>1, <1>2, <1>3, InductiveInvariant, PTL DEF Spec

================================================================================
