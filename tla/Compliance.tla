------------------------------- MODULE Compliance -------------------------------
(***************************************************************************)
(* Compliance of one device (internal/compliance): every backup's hook     *)
(* evaluates the rules against the new text, stores a finding per rule and *)
(* reports changed ones.  An evaluation is a loop of statements outside of *)
(* any transaction; others, and the edits of rules, packs and devices,     *)
(* fall in between.                                                        *)
(*                                                                         *)
(* What a rule demands is the set of texts that satisfy it.                *)
(***************************************************************************)
EXTENDS Naturals, Sequences, FiniteSets

CONSTANTS Evaluations,  \* calls of EvaluateDevice
          Names,        \* of rules; ORDER BY name is their order as numbers
          Groups,       \* device groups
          NoGroup,      \* a NULL group_id: a global rule, a device in no group
          Deleted,      \* the group of a device that is gone
          Texts,        \* contents of the device's artifacts
          NoText,       \* what a call that is not under way looks at
          Criteria,     \* sets of texts a rule may demand
          MaxRules,     \* bound: rules ever created
          MaxEdits,     \* bound: edits of rules, packs and the device
          MaxFaults     \* bound: deadlines and crashes

ASSUME NamesAssumption == Names \subseteq Nat /\ IsFiniteSet(Names)
ASSUME GroupsAssumption == NoGroup \notin Groups /\ Deleted \notin Groups \cup {NoGroup}
ASSUME TextsAssumption == NoText \notin Texts /\ Criteria \subseteq SUBSET Texts
ASSUME BoundsAssumption == MaxRules \in Nat /\ MaxEdits \in Nat /\ MaxFaults \in Nat

VARIABLES
    rules, created,    \* compliance_rules by id, and the last id given out
    finding,           \* compliance_findings of the device, by rule
    group,             \* devices.group_id
    pc, local,         \* of each evaluation: its next statement and its variables
    edits, faults,
    \* history variables
    changed, notices,  \* of each rule: the changes of its finding, and those reported
    serial,            \* no two evaluations overlapped, and the process never died
    recent, disturbed  \* since the device was last quiet: texts, and other events

tables == <<rules, created, finding, group>>
history == <<changed, notices, serial, recent, disturbed>>
vars == <<tables, pc, local, edits, faults, history>>

Ids == 1 .. MaxRules
NoRule == [name |-> 0, scope |-> Deleted, good |-> {}]
Rules == [name : Names, scope : Groups \cup {NoGroup}, good : Criteria]
Statuses == {"pass", "fail"}
Moves == [from : Statuses, to : Statuses]
Tasks == [id : Ids, name : Names, good : Criteria]
NoTask == [id |-> 0, name |-> 0, good |-> {}]
Locals == [text : Texts \cup {NoText}, group : Groups \cup {NoGroup},
           todo : SUBSET Tasks, cur : Tasks \cup {NoTask}, prev : Statuses \cup {"none"}]
NoLocals == [text |-> NoText, group |-> NoGroup, todo |-> {}, cur |-> NoTask, prev |-> "none"]

Live == {i \in Ids : rules[i] # NoRule}

Init ==
    /\ rules = [i \in Ids |-> NoRule] /\ created = 0
    /\ finding = [i \in Ids |-> "none"]
    /\ group \in Groups \cup {NoGroup}
    /\ pc = [e \in Evaluations |-> "idle"]
    /\ local = [e \in Evaluations |-> NoLocals]
    /\ edits = 0 /\ faults = 0
    /\ changed = [i \in Ids |-> <<>>] /\ notices = [i \in Ids |-> <<>>]
    /\ serial = TRUE /\ recent = {} /\ disturbed = TRUE

--------------------------------------------------------------------------------
(***************************************************************************)
(* EvaluateDevice.                                                         *)
(***************************************************************************)

Running(e) == pc[e] \notin {"idle", "ended"}
Quiet == \A e \in Evaluations : ~Running(e)

Goto(e, step) == pc' = [pc EXCEPT ![e] = step]

Return(e) == Goto(e, "ended") /\ local' = [local EXCEPT ![e] = NoLocals]

\* The SELECT of the device's group; no evaluation without the device.
Begin(e) ==
    /\ pc[e] = "idle"
    /\ group # Deleted
    /\ \E t \in Texts :
          /\ local' = [local EXCEPT ![e].text = t, ![e].group = group]
          /\ recent' = IF Quiet THEN {t} ELSE recent \cup {t}
    /\ serial' = (serial /\ Quiet)
    /\ disturbed' = (disturbed /\ ~Quiet)
    /\ Goto(e, "rules")
    /\ UNCHANGED <<tables, edits, faults, changed, notices>>

Applies(rule, g) == rule.scope \in {NoGroup, g}

InScope(g) == {i \in Live : Applies(rules[i], g)}

Continue(e, rest) == Goto(e, IF rest = {} THEN "cleanup" ELSE "read")

\* listRulesForDevice: the rows, as they are now, are what is evaluated.
ListRules(e) ==
    /\ pc[e] = "rules"
    /\ LET tasks == {[id |-> i, name |-> rules[i].name, good |-> rules[i].good] :
                         i \in InScope(local[e].group)}
       IN  local' = [local EXCEPT ![e].todo = tasks] /\ Continue(e, tasks)
    /\ UNCHANGED <<tables, edits, faults, history>>

\* SELECT status: what the finding says before it is overwritten.
ReadFinding(e) ==
    /\ pc[e] = "read"
    /\ \E next \in local[e].todo :
          /\ \A other \in local[e].todo : next.name <= other.name
          /\ local' = [local EXCEPT ![e].cur = next, ![e].prev = finding[next.id],
                                   ![e].todo = @ \ {next}]
    /\ Goto(e, "upsert")
    /\ UNCHANGED <<tables, edits, faults, history>>

Verdict(good, t) == IF t \in good THEN "pass" ELSE "fail"

Found(e) == Verdict(local[e].cur.good, local[e].text)

\* Mutated form: only a rule that passed and fails now is reported.
IsTransitionForWorse(e) == local[e].prev = "pass" /\ Found(e) = "fail"

IsTransition(e) == local[e].prev # "none" /\ local[e].prev # Found(e)

Change(i, status) ==
    IF finding[i] \in {"none", status} THEN changed[i]
    ELSE Append(changed[i], [from |-> finding[i], to |-> status])

\* The foreign keys of a finding.
CanStore(i) == i \in Live /\ group # Deleted

\* INSERT ... ON CONFLICT DO UPDATE.
Upsert(e) ==
    /\ pc[e] = "upsert"
    /\ LET i == local[e].cur.id
       IN  /\ CanStore(i)
           /\ finding' = [finding EXCEPT ![i] = Found(e)]
           /\ changed' = [changed EXCEPT ![i] = Change(i, Found(e))]
    /\ IF IsTransition(e) THEN Goto(e, "notify") ELSE Continue(e, local[e].todo)
    /\ UNCHANGED <<rules, created, group, local, edits, faults,
                   notices, serial, recent, disturbed>>

\* The rule or the device was deleted: the row is refused, and the rest of the
\* evaluation, the cleanup included, is abandoned.
UpsertFails(e) ==
    /\ pc[e] = "upsert"
    /\ ~CanStore(local[e].cur.id)
    /\ Return(e)
    /\ UNCHANGED <<tables, edits, faults, history>>

\* OnTransition, with the status read before.
Notify(e) ==
    /\ pc[e] = "notify"
    /\ notices' = [notices EXCEPT ![local[e].cur.id] =
                      Append(@, [from |-> local[e].prev, to |-> Found(e)])]
    /\ Continue(e, local[e].todo)
    /\ UNCHANGED <<tables, local, edits, faults, changed, serial, recent, disturbed>>

\* Mutated form: nothing is removed.
StaleNever(g) == {}

\* The findings of rules that do not apply to group g, as the rules are now.
Stale(g) == Ids \ InScope(g)

\* The final DELETE, with the group read at the beginning.
Cleanup(e) ==
    /\ pc[e] = "cleanup"
    /\ finding' = [i \in Ids |-> IF i \in Stale(local[e].group) THEN "none" ELSE finding[i]]
    /\ Return(e)
    /\ UNCHANGED <<rules, created, group, edits, faults, history>>

Fault ==
    /\ faults < MaxFaults
    /\ faults' = faults + 1
    /\ disturbed' = TRUE
    /\ UNCHANGED <<tables, edits, changed, notices, recent>>

\* The hooks' deadline: the next statement fails.
Expire(e) ==
    /\ Fault
    /\ pc[e] \in {"rules", "read", "upsert", "cleanup"}
    /\ Return(e)
    /\ UNCHANGED serial

\* The process dies between two statements.
Crash ==
    /\ Fault
    /\ ~Quiet
    /\ pc' = [e \in Evaluations |-> IF Running(e) THEN "ended" ELSE pc[e]]
    /\ local' = [e \in Evaluations |-> NoLocals]
    /\ serial' = FALSE

--------------------------------------------------------------------------------
(***************************************************************************)
(* Edits.                                                                  *)
(***************************************************************************)

Edit ==
    /\ edits < MaxEdits
    /\ edits' = edits + 1
    /\ disturbed' = TRUE
    /\ UNCHANGED <<pc, local, faults, changed, notices, serial, recent>>

Named(n) == {i \in Live : rules[i].name = n /\ rules[i].scope = NoGroup}

\* CreateRule, and UpsertRule of a new name.
CreateRule ==
    /\ Edit
    /\ created < MaxRules
    /\ \E n \in Names, good \in Criteria :
          /\ Named(n) = {}
          /\ rules' = [rules EXCEPT ![created + 1] =
                          [name |-> n, scope |-> NoGroup, good |-> good]]
    /\ created' = created + 1
    /\ UNCHANGED <<finding, group>>

\* UpsertRule of a known name: the row keeps its id and its findings.
UpdateRule ==
    /\ Edit
    /\ \E n \in Names, good \in Criteria : \E i \in Named(n) :
          rules' = [rules EXCEPT ![i].good = good]
    /\ UNCHANGED <<created, finding, group>>

\* ON DELETE CASCADE.
Without(gone) == [i \in Ids |-> IF i \in gone THEN "none" ELSE finding[i]]

DeleteRule ==
    /\ Edit
    /\ \E i \in Live :
          /\ rules' = [rules EXCEPT ![i] = NoRule]
          /\ finding' = Without({i})
    /\ UNCHANGED <<created, group>>

\* The ids of a pack's new rows, in the order of their names.
IdOf(n, names) == created + Cardinality({m \in names : m <= n})

\* Assigning packs to a group replaces its rules by new ones, in one transaction.
SetGroupPacks ==
    /\ Edit
    /\ \E g \in Groups, names \in SUBSET Names : \E demand \in [names -> Criteria] :
          LET old == {i \in Live : rules[i].scope = g}
          IN  /\ created + Cardinality(names) <= MaxRules
              /\ rules' = [i \in Ids |->
                    IF i \in old THEN NoRule
                    ELSE IF \E n \in names : IdOf(n, names) = i
                         THEN LET n == CHOOSE m \in names : IdOf(m, names) = i
                              IN  [name |-> n, scope |-> g, good |-> demand[n]]
                         ELSE rules[i]]
              /\ finding' = Without(old)
              /\ created' = created + Cardinality(names)
    /\ UNCHANGED group

MoveDevice ==
    /\ Edit
    /\ group # Deleted
    /\ group' \in (Groups \cup {NoGroup}) \ {group}
    /\ UNCHANGED <<rules, created, finding>>

DeleteDevice ==
    /\ Edit
    /\ group # Deleted
    /\ group' = Deleted
    /\ finding' = Without(Ids)
    /\ UNCHANGED <<rules, created>>

Next ==
    \/ \E e \in Evaluations :
          \/ Begin(e) \/ ListRules(e) \/ ReadFinding(e) \/ Upsert(e) \/ UpsertFails(e)
          \/ Notify(e) \/ Cleanup(e) \/ Expire(e)
    \/ Crash
    \/ CreateRule \/ UpdateRule \/ DeleteRule \/ SetGroupPacks \/ MoveDevice \/ DeleteDevice

Spec == Init /\ [][Next]_vars

--------------------------------------------------------------------------------
(***************************************************************************)
(* Properties.                                                             *)
(***************************************************************************)

TypeOK ==
    /\ rules \in [Ids -> Rules \cup {NoRule}]
    /\ created \in 0 .. MaxRules
    /\ finding \in [Ids -> Statuses \cup {"none"}]
    /\ group \in Groups \cup {NoGroup, Deleted}
    /\ pc \in [Evaluations -> {"idle", "rules", "read", "upsert", "notify", "cleanup", "ended"}]
    /\ local \in [Evaluations -> Locals]
    /\ edits \in 0 .. MaxEdits /\ faults \in 0 .. MaxFaults
    /\ changed \in [Ids -> Seq(Moves)] /\ notices \in [Ids -> Seq(Moves)]
    /\ serial \in BOOLEAN /\ disturbed \in BOOLEAN
    /\ recent \subseteq Texts

\* There is no finding of a rule or for a device that is gone, although an
\* evaluation that listed the rule earlier may still want to store one.
FindingsRefer ==
    \A i \in Ids : finding[i] # "none" => i \in Live /\ group # Deleted

\* Once evaluations come to rest, and unless one was cut short or rules or device
\* were edited meanwhile, the device has a finding for exactly the rules that
\* apply to it, each the verdict on one of the texts just evaluated, whatever
\* earlier evaluations, other groups and deleted rules have left behind.
FindingsSettle ==
    Quiet /\ ~disturbed =>
        /\ {i \in Ids : finding[i] # "none"} = InScope(group)
        /\ \A i \in InScope(group) :
              finding[i] \in {Verdict(rules[i].good, t) : t \in recent}

Pending(i) == {e \in Evaluations : pc[e] = "notify" /\ local[e].cur.id = i}

\* As long as evaluations do not overlap, what is reported of a rule are exactly
\* the changes of its finding, in their order, whatever deadlines and edits fall
\* in between; the last of them may still be about to be reported.
NoticesTellTheState ==
    serial =>
        \A i \in Ids :
            \/ notices[i] = changed[i]
            \/ \E e \in Pending(i) :
                  changed[i] = Append(notices[i], [from |-> local[e].prev, to |-> Found(e)])

================================================================================
