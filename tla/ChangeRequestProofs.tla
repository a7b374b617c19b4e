-------------------------- MODULE ChangeRequestProofs --------------------------
(***************************************************************************)
(* Proofs about ChangeRequest, for any number of users, requests and       *)
(* handlers: type correctness, the two safety invariants about execution   *)
(* and results, the implementation of ChangeRequestSpec, and, in a second  *)
(* invariant, that a request walks the state machine and that its events   *)
(* account for the walk.                                                   *)
(***************************************************************************)
EXTENDS ChangeRequest, TLAPS

USE UsersAssumption, RequestsAssumption, BoundsAssumption

\* A state-machine edge ends in a status other than "none" and "draft".
LEMMA TransitionTargets ==
    ASSUME NEW s \in Statuses, NEW t, CanTransition(s, t)
    PROVE  /\ t \in {"submitted", "approved", "rejected", "applied", "failed", "cancelled"}
           /\ s \in {"draft", "submitted", "approved"}
           /\ s = "draft" => t \in {"submitted", "cancelled"}
           /\ s = "submitted" => t \in {"approved", "rejected", "cancelled"}
           /\ s = "approved" => t \in {"applied", "failed", "cancelled"}
BY DEF CanTransition, AllowedTransitions, Statuses

\* Starting a handler and finishing one keep the types of its local state.
LEMMA StartType ==
    ASSUME TypeOK, NEW h \in Handlers, NEW op \in Ops, NEW u \in Users,
           NEW r \in Requests, NEW at \in PCs, NEW to \in Statuses,
           Start(h, op, u, r, at, to)
    PROVE  /\ pc' \in [Handlers -> PCs]
           /\ call' \in [Handlers -> Calls \cup {NoCall}]
           /\ \A g \in Handlers : pc'[g] # "idle" => call'[g] \in Calls
BY DEF TypeOK, Start, Calls

LEMMA FinishType ==
    ASSUME TypeOK, NEW h \in Handlers, Finish(h)
    PROVE  /\ pc' \in [Handlers -> PCs]
           /\ call' \in [Handlers -> Calls \cup {NoCall}]
           /\ \A g \in Handlers : pc'[g] # "idle" => call'[g] \in Calls
BY DEF TypeOK, Finish, PCs

\* So does any step that gives the handler a well-typed call.
LEMMA CallType ==
    ASSUME TypeOK, NEW h \in Handlers, NEW at \in PCs, NEW c \in Calls,
           pc' = [pc EXCEPT ![h] = at], call' = [call EXCEPT ![h] = c]
    PROVE  /\ pc' \in [Handlers -> PCs]
           /\ call' \in [Handlers -> Calls \cup {NoCall}]
           /\ \A g \in Handlers : pc'[g] # "idle" => call'[g] \in Calls
BY DEF TypeOK

\* Every variable has its type in every reachable state.
THEOREM TypeCorrect == Spec => []TypeOK
<1>1. Init => TypeOK
  BY DEF Init, TypeOK, Statuses, PCs
<1>2. TypeOK /\ [Next]_vars => TypeOK'
  <2> SUFFICES ASSUME TypeOK, [Next]_vars PROVE TypeOK'
    OBVIOUS
  <2>1. ASSUME NEW h \in Handlers, NEW op \in {"create", "immediate"}, NEW u \in Users,
               NEW r \in Requests, NEW k \in Kinds, Insert(h, op, u, r, k)
        PROVE  TypeOK'
    <3>1. /\ pc' \in [Handlers -> PCs]
          /\ call' \in [Handlers -> Calls \cup {NoCall}]
          /\ \A g \in Handlers : pc'[g] # "idle" => call'[g] \in Calls
      BY <2>1, StartType DEF Insert, Ops, PCs, Statuses
    <3>2. [from |-> "none", to |-> "draft", actor |-> u] \in Transitions
      BY DEF Transitions, Statuses
    <3>3. moves' \in [Requests -> Seq(Transitions)]
      BY <2>1, <3>2 DEF Insert, TypeOK
    <3>4. status' \in [Requests -> Statuses] /\ kind' \in [Requests -> Kinds \cup {"none"}]
          /\ requester' \in [Requests -> Users \cup {NoUser}]
      BY <2>1 DEF Insert, TypeOK, Statuses
    <3> QED
      BY <2>1, <3>1, <3>3, <3>4 DEF Insert, TypeOK
  <2>2. ASSUME NEW h \in Handlers, NEW op \in Ops, NEW u \in Users, NEW r \in Requests,
               NEW at \in PCs, NEW to \in Statuses, Start(h, op, u, r, at, to), NoRowChange
        PROVE  TypeOK'
    BY <2>2, StartType DEF NoRowChange, TypeOK
  <2>3. ASSUME NEW h \in Handlers, Get(h) PROVE TypeOK'
    <3>1. CASE Finish(h)
      BY <2>3, <3>1, FinishType DEF Get, NoRowChange, TypeOK
    <3>2. CASE ~Finish(h)
      <4>1. call[h] \in Calls /\ status[call[h].req] \in Statuses
        BY <2>3 DEF Get, TypeOK, Calls
      <4> QED
        <5> DEFINE c == [call[h] EXCEPT !.seen = status[call[h].req]]
        <5>1. c \in Calls
          BY <4>1 DEF Calls
        <5>2. pc' = [pc EXCEPT ![h] = "update"] /\ call' = [call EXCEPT ![h] = c]
          BY <2>3, <3>2 DEF Get, Goto
        <5>3. "update" \in PCs
          BY DEF PCs
        <5> HIDE DEF c
        <5> QED
          BY <2>3, <5>1, <5>2, <5>3, CallType DEF Get, NoRowChange, TypeOK
    <3> QED BY <3>1, <3>2
  <2>4. ASSUME NEW h \in Handlers, Update(h) PROVE TypeOK'
    <3>1. call[h] \in Calls
      BY <2>4 DEF Update, TypeOK
    <3>2. Edge(call[h]) \in Transitions
      BY <3>1 DEF Calls, Transitions, Edge, ActorOf
    <3>3. moves' \in [Requests -> Seq(Transitions)]
      BY <2>4, <3>1, <3>2 DEF Update, TypeOK, Calls
    <3>4. status' \in [Requests -> Statuses] /\ reviewer' \in [Requests -> Users \cup {NoUser}]
      BY <2>4, <3>1 DEF Update, TypeOK, Calls
    <3> QED
      BY <2>4, <3>1, <3>3, <3>4 DEF Update, TypeOK, Goto, PCs
  <2>5. ASSUME NEW h \in Handlers, LoseRace(h) PROVE TypeOK'
    BY <2>5, FinishType DEF LoseRace, NoRowChange, TypeOK
  <2>6. ASSUME NEW h \in Handlers, RecordEvent(h) PROVE TypeOK'
    <3>1. call[h] \in Calls
      BY <2>6 DEF RecordEvent, TypeOK
    <3>2. EventRow(call[h]) \in Transitions
      BY <3>1 DEF Calls, Transitions, EventRow, ActorOf
    <3>3. events' \in [Requests -> Seq(Transitions)]
      BY <2>6, <3>1, <3>2 DEF RecordEvent, TypeOK, Calls
    <3>4. /\ pc' \in [Handlers -> PCs]
          /\ call' \in [Handlers -> Calls \cup {NoCall}]
          /\ \A g \in Handlers : pc'[g] # "idle" => call'[g] \in Calls
      <4>1. CASE Finish(h)
        BY <4>1, FinishType
      <4>2. CASE ~Finish(h)
        <5>1. \/ pc' = [pc EXCEPT ![h] = "result"] /\ call' = [call EXCEPT ![h] = call[h]]
              \/ pc' = [pc EXCEPT ![h] = "executor"] /\ call' = [call EXCEPT ![h] = call[h]]
              \/ \E t \in {"submitted", "approved"} :
                    /\ pc' = [pc EXCEPT ![h] = "read"]
                    /\ call' = [call EXCEPT ![h] = [call[h] EXCEPT !.to = t]]
          BY <2>6, <4>2 DEF RecordEvent, Continue, Goto, TypeOK
        <5>2. \A t \in {"submitted", "approved"} : [call[h] EXCEPT !.to = t] \in Calls
          BY <3>1 DEF Calls, Statuses
        <5>3. {"result", "executor", "read"} \subseteq PCs
          BY DEF PCs
        <5> QED
          BY <3>1, <5>1, <5>2, <5>3, CallType
      <4> QED BY <4>1, <4>2
    <3> QED
      BY <2>6, <3>3, <3>4 DEF RecordEvent, TypeOK
  <2>7. ASSUME NEW h \in Handlers, RefuseToExecute(h) \/ FinishExecutor(h) PROVE TypeOK'
    <3>1. call[h] \in Calls
      BY <2>7 DEF RefuseToExecute, FinishExecutor, TypeOK
    <3>2. PICK to \in {"applied", "failed"}, out \in Outcomes : Concluding(h, to, out)
      BY <2>7 DEF RefuseToExecute, FinishExecutor, ConcludeFailure, Outcomes
    <3> DEFINE c == [call[h] EXCEPT !.to = to, !.out = out]
    <3>3. c \in Calls
      BY <3>1 DEF Calls, Statuses
    <3>4. pc' = [pc EXCEPT ![h] = "read"] /\ call' = [call EXCEPT ![h] = c]
      BY <3>2 DEF Concluding, Goto
    <3>5. "read" \in PCs
      BY DEF PCs
    <3> HIDE DEF c
    <3> QED
      BY <2>7, <3>3, <3>4, <3>5, CallType DEF RefuseToExecute, FinishExecutor, NoRowChange, TypeOK
  <2>8. ASSUME NEW h \in Handlers, StartExecutor(h) PROVE TypeOK'
    BY <2>8 DEF StartExecutor, Goto, TypeOK, Calls, PCs
  <2>9. ASSUME NEW h \in Handlers, SaveResult(h) PROVE TypeOK'
    <3>1. call[h] \in Calls
      BY <2>9 DEF SaveResult, TypeOK
    <3>2. result' \in [Requests -> Outcomes \cup {"none"}]
      BY <2>9, <3>1 DEF SaveResult, StoredResult, TypeOK, Calls
    <3> QED
      BY <2>9, <3>2, FinishType DEF SaveResult, TypeOK
  <2>10. ASSUME NEW h \in Handlers, Abandon(h) PROVE TypeOK'
    BY <2>10, FinishType DEF Abandon, TypeOK
  <2>12. CASE UNCHANGED vars
    BY <2>12 DEF vars, TypeOK
  <2> QED
    <3>1. ASSUME NEW h \in Handlers, CreateRequest(h) \/ ImmediateRollback(h) PROVE TypeOK'
      BY <3>1, <2>1 DEF CreateRequest, ImmediateRollback, Kinds
    <3>2. ASSUME NEW h \in Handlers,
                 Submit(h) \/ Approve(h) \/ Reject(h) \/ Cancel(h) \/ Apply(h)
          PROVE  TypeOK'
      BY <3>2, <2>2 DEF Submit, Approve, Reject, Cancel, Apply, Read, Ops, PCs, Statuses
    <3> QED
      BY <2>3, <2>4, <2>5, <2>6, <2>7, <2>8, <2>9, <2>10, <2>12, <3>1, <3>2
         DEF Next, Advance
<1> QED
  BY <1>1, <1>2, PTL DEF Spec

--------------------------------------------------------------------------------
(***************************************************************************)
(* The inductive invariant.  An approval can only be followed by statuses  *)
(* that keep it visible (Approved is stable), so a handler that was        *)
(* admitted to the executor on a read long past still acts for an approved *)
(* request; and whoever wrote an outcome is the only one to store a result *)
(* with it, because the statuses "applied" and "failed" are never left.    *)
(***************************************************************************)

Approved(r) ==
    /\ reviewer[r] \in Admins
    /\ status[r] \in {"approved", "applied", "failed", "cancelled"}

RowInv(r) ==
    /\ runs[r] > 0 => Approved(r)
    /\ status[r] \in {"approved", "applied", "failed"} => reviewer[r] \in Admins
    /\ result[r] # "none" => /\ status[r] \in {"applied", "failed"}
                             /\ result[r] = "error" <=> status[r] = "failed"

ConcludingInv(c) ==
    /\ c.out # "none"
    /\ c.out = "error" <=> c.to = "failed"
    /\ c.to = "applied" => runs[c.req] > 0

HandlerInv(at, c) ==
    /\ c.to \in {"approved", "rejected"} => c.actor \in Admins
    /\ c.op = "immediate" => c.actor \in Admins
    /\ at = "update" => CanTransition(c.seen, c.to)
    /\ at \in {"executor", "running"} => Approved(c.req)
    /\ at = "running" => runs[c.req] > 0
    /\ at = "event" /\ c.to = "approved" => Approved(c.req)
    /\ at = "result" => c.to \in {"applied", "failed"}
    /\ at \in {"read", "update", "event", "result"} /\ c.to \in {"applied", "failed"}
          => ConcludingInv(c)
    /\ at \in {"event", "result"} /\ c.to \in {"applied", "failed"}
          => status[c.req] = c.to

IInv ==
    /\ TypeOK
    /\ \A r \in Requests : RowInv(r)
    /\ \A h \in Handlers : pc[h] # "idle" => HandlerInv(pc[h], call[h])

\* What every step does to a row: an approval stays visible, executions are only
\* added, an outcome is final.
Keeps(r) ==
    /\ Approved(r) => Approved(r)'
    /\ runs'[r] >= runs[r]
    /\ status[r] \in {"applied", "failed"} => status'[r] = status[r]

\* Handlers other than the one that moves keep their invariant.
LEMMA OthersKeep ==
    ASSUME IInv, \A r \in Requests : Keeps(r), TypeOK',
           NEW g \in Handlers, pc[g] # "idle", pc'[g] = pc[g], call'[g] = call[g]
    PROVE  HandlerInv(pc[g], call[g])'
<1>1. call[g] \in Calls /\ call[g].req \in Requests
  BY DEF IInv, TypeOK, Calls
<1>2. HandlerInv(pc[g], call[g])
  BY DEF IInv
<1>3. Keeps(call[g].req)
  BY <1>1
<1>4. runs[call[g].req] \in Nat /\ runs'[call[g].req] \in Nat
  BY <1>1 DEF IInv, TypeOK
<1> QED
  BY <1>1, <1>2, <1>3, <1>4 DEF Keeps, HandlerInv, ConcludingInv

\* A step of handler h that preserves the rows and gives h a good local state
\* preserves the invariant.
LEMMA HandlerStep ==
    ASSUME IInv, TypeOK', NEW h \in Handlers,
           \A r \in Requests : Keeps(r) /\ RowInv(r)',
           \A g \in Handlers \ {h} : pc'[g] = pc[g] /\ call'[g] = call[g],
           pc'[h] # "idle" => HandlerInv(pc[h], call[h])'
    PROVE  IInv'
<1>1. ASSUME NEW g \in Handlers, pc'[g] # "idle" PROVE HandlerInv(pc[g], call[g])'
  <2>1. CASE g = h
    BY <1>1, <2>1
  <2>2. CASE g # h
    <3>1. pc'[g] = pc[g] /\ call'[g] = call[g] /\ pc[g] # "idle"
      BY <1>1, <2>2
    <3> QED
      BY <3>1, OthersKeep
  <2> QED
    BY <2>1, <2>2
<1> QED
  BY <1>1 DEF IInv

\* Rows that are left alone satisfy both requirements.
LEMMA RowsKept ==
    ASSUME IInv, UNCHANGED <<status, reviewer, runs, result>>
    PROVE  \A r \in Requests : Keeps(r) /\ RowInv(r)'
<1> SUFFICES ASSUME NEW r \in Requests PROVE Keeps(r) /\ RowInv(r)'
  OBVIOUS
<1>1. RowInv(r) /\ runs[r] \in Nat
  BY DEF IInv, TypeOK
<1> QED
  BY <1>1 DEF Keeps, RowInv, Approved

LEMMA FinishKeeps ==
    ASSUME IInv, TypeOK', NEW h \in Handlers, Finish(h),
           \A r \in Requests : Keeps(r) /\ RowInv(r)'
    PROVE  IInv'
<1>1. /\ \A g \in Handlers \ {h} : pc'[g] = pc[g] /\ call'[g] = call[g]
      /\ pc'[h] = "idle"
  BY DEF Finish, IInv, TypeOK
<1> QED
  BY <1>1, HandlerStep

LEMMA InitIInv == Init => IInv
<1> SUFFICES ASSUME Init PROVE IInv
  OBVIOUS
<1>1. TypeOK
  BY DEF Init, TypeOK, Statuses, PCs
<1>2. \A r \in Requests : RowInv(r)
  BY DEF Init, RowInv
<1>3. \A h \in Handlers : pc[h] = "idle"
  BY DEF Init
<1> QED
  BY <1>1, <1>2, <1>3 DEF IInv

LEMMA InsertIInv ==
    ASSUME IInv, TypeOK', NEW h \in Handlers, NEW op \in Ops, NEW u \in Users,
           NEW r \in Requests, NEW k \in Kinds, Insert(h, op, u, r, k),
           op = "immediate" => u \in Admins
    PROVE  IInv'
<1> USE DEF Insert
<1>1. \A q \in Requests : Keeps(q) /\ RowInv(q)'
  <2> SUFFICES ASSUME NEW q \in Requests PROVE Keeps(q) /\ RowInv(q)'
    OBVIOUS
  <2>1. RowInv(q) /\ runs[q] \in Nat
    BY DEF IInv, TypeOK
  <2>2. status'[q] = IF q = r THEN "draft" ELSE status[q]
    BY DEF IInv, TypeOK
  <2> QED
    BY <2>1, <2>2 DEF Keeps, RowInv, Approved
<1>2. /\ \A g \in Handlers \ {h} : pc'[g] = pc[g] /\ call'[g] = call[g]
      /\ pc'[h] = "event"
      /\ call'[h].to = "draft" /\ call'[h].op = op /\ call'[h].actor = u
  BY DEF Start, IInv, TypeOK
<1>3. HandlerInv(pc[h], call[h])'
  BY <1>2 DEF HandlerInv
<1> QED
  BY <1>1, <1>2, <1>3, HandlerStep

LEMMA BeginIInv ==
    ASSUME IInv, TypeOK', NEW h \in Handlers,
           Submit(h) \/ Approve(h) \/ Reject(h) \/ Cancel(h) \/ Apply(h)
    PROVE  IInv'
<1>1. PICK u \in Users, r \in Requests, op \in Ops \ {"immediate"}, to \in Statuses,
           at \in {"update", "read", "executor"} :
        /\ Start(h, op, u, r, at, to)
        /\ NoRowChange
        /\ at = "update" => CanTransition(status[r], to)
        /\ to \in {"approved", "rejected"} => u \in Admins
        /\ at = "executor" => status[r] = "approved"
        /\ at # "executor" => to \notin {"applied", "failed"}
  BY DEF Submit, Approve, Reject, Cancel, Apply, Read, CanApply, Ops, Statuses
<1>2. \A q \in Requests : Keeps(q) /\ RowInv(q)'
  BY <1>1, RowsKept DEF NoRowChange
<1>3. /\ \A g \in Handlers \ {h} : pc'[g] = pc[g] /\ call'[g] = call[g]
      /\ pc'[h] = at /\ call'[h].req = r /\ call'[h].op = op /\ call'[h].actor = u
      /\ call'[h].to = to /\ call'[h].seen = status[r]
  BY <1>1 DEF Start, IInv, TypeOK
<1>4. at = "executor" => Approved(r)'
  BY <1>1 DEF IInv, RowInv, Approved, NoRowChange
<1>5. HandlerInv(pc[h], call[h])'
  BY <1>1, <1>3, <1>4 DEF HandlerInv
<1> QED
  BY <1>2, <1>3, <1>5, HandlerStep

LEMMA GetIInv ==
    ASSUME IInv, TypeOK', NEW h \in Handlers, Get(h)
    PROVE  IInv'
<1>1. \A q \in Requests : Keeps(q) /\ RowInv(q)'
  BY RowsKept DEF Get, NoRowChange
<1>2. CASE Finish(h)
  BY <1>1, <1>2, FinishKeeps
<1>3. CASE ~Finish(h)
  <2>1. call[h] \in Calls /\ HandlerInv("read", call[h])
    BY DEF Get, IInv, TypeOK
  <2>2. /\ \A g \in Handlers \ {h} : pc'[g] = pc[g] /\ call'[g] = call[g]
        /\ pc'[h] = "update"
        /\ call'[h] = [call[h] EXCEPT !.seen = status[call[h].req]]
    BY <1>3 DEF Get, Goto, IInv, TypeOK
  <2>3. /\ call'[h].to = call[h].to /\ call'[h].op = call[h].op
        /\ call'[h].actor = call[h].actor /\ call'[h].req = call[h].req
        /\ call'[h].out = call[h].out /\ call'[h].seen = status[call[h].req]
    BY <2>1, <2>2 DEF Calls
  <2>4. CanTransition(call'[h].seen, call'[h].to)
    BY <1>3, <2>3 DEF Get
  <2>5. HandlerInv(pc[h], call[h])'
    BY <2>1, <2>2, <2>3, <2>4 DEF HandlerInv, ConcludingInv, Get, NoRowChange
  <2> QED
    BY <1>1, <2>2, <2>5, HandlerStep
<1> QED
  BY <1>2, <1>3

\* The conditional UPDATE is an edge of the state machine from the row's real
\* status, whatever the handler had read when.
LEMMA UpdateIsEdge ==
    ASSUME IInv, NEW h \in Handlers, Update(h)
    PROVE  LET c == call[h] IN
           /\ c \in Calls /\ HandlerInv("update", c)
           /\ CanTransition(status[c.req], c.to)
           /\ \A q \in Requests \ {c.req} :
                 status'[q] = status[q] /\ reviewer'[q] = reviewer[q]
           /\ status'[c.req] = c.to
           /\ reviewer'[c.req] = IF c.to \in {"approved", "rejected"} THEN c.actor
                                 ELSE reviewer[c.req]
<1>1. call[h] \in Calls /\ HandlerInv("update", call[h])
  BY DEF Update, IInv, TypeOK
<1>2. CanTransition(status[call[h].req], call[h].to)
  BY <1>1 DEF Update, ConditionHolds, HandlerInv
<1> QED
  BY <1>1, <1>2 DEF Update, IInv, TypeOK, Calls

LEMMA UpdateIInv ==
    ASSUME IInv, TypeOK', NEW h \in Handlers, Update(h)
    PROVE  IInv'
<1> DEFINE c == call[h]
<1>1. /\ c \in Calls /\ HandlerInv("update", c)
      /\ c.req \in Requests /\ c.to \in Statuses /\ status[c.req] \in Statuses
      /\ CanTransition(status[c.req], c.to)
  BY UpdateIsEdge DEF IInv, TypeOK, Calls
<1>2. \A q \in Requests : Keeps(q) /\ RowInv(q)'
  <2> SUFFICES ASSUME NEW q \in Requests PROVE Keeps(q) /\ RowInv(q)'
    OBVIOUS
  <2>1. /\ RowInv(q) /\ runs[q] \in Nat
        /\ runs'[q] = runs[q] /\ result'[q] = result[q]
    BY DEF IInv, TypeOK, Update
  <2>2. CASE q # c.req
    BY <2>1, <2>2, UpdateIsEdge DEF Keeps, RowInv, Approved
  <2>3. CASE q = c.req
    <3>1. status'[q] = c.to /\ reviewer'[q] = IF c.to \in {"approved", "rejected"}
                                              THEN c.actor ELSE reviewer[q]
      BY <2>3, UpdateIsEdge
    <3>2. c.to \in {"approved", "rejected"} => c.actor \in Admins
      BY <1>1 DEF HandlerInv
    <3> HIDE DEF c
    <3>3. Keeps(q)
      BY <1>1, <2>1, <2>3, <3>1, TransitionTargets DEF Keeps, Approved
    <3>4. RowInv(q)'
      BY <1>1, <2>1, <2>3, <3>1, <3>2, TransitionTargets DEF RowInv, Approved
    <3> QED
      BY <3>3, <3>4
  <2> QED
    BY <2>2, <2>3
<1>3. /\ \A g \in Handlers \ {h} : pc'[g] = pc[g] /\ call'[g] = call[g]
      /\ pc'[h] = "event" /\ call'[h] = c
  BY DEF Update, Goto, IInv, TypeOK
<1>4. status'[c.req] = c.to /\ runs' = runs
  BY UpdateIsEdge DEF Update
<1>5. c.to = "approved" => Approved(c.req)'
  BY <1>1, UpdateIsEdge DEF HandlerInv, Approved, Update
<1>6. HandlerInv("event", c)'
  BY <1>1, <1>3, <1>4, <1>5 DEF HandlerInv, ConcludingInv
<1> QED
  BY <1>2, <1>3, <1>6, HandlerStep

LEMMA RecordEventIInv ==
    ASSUME IInv, TypeOK', NEW h \in Handlers, RecordEvent(h)
    PROVE  IInv'
<1> DEFINE c == call[h]
<1>1. \A q \in Requests : Keeps(q) /\ RowInv(q)'
  BY RowsKept DEF RecordEvent
<1>2. c \in Calls /\ HandlerInv("event", c)
  BY DEF RecordEvent, IInv, TypeOK
<1>3. CASE Finish(h)
  BY <1>1, <1>3, FinishKeeps
<1>4. ASSUME NEW at \in {"result", "executor"}, pc' = [pc EXCEPT ![h] = at], call' = call,
             at = "result" => c.to \in {"applied", "failed"},
             at = "executor" => c.to = "approved"
      PROVE  IInv'
  <2>1. /\ \A g \in Handlers \ {h} : pc'[g] = pc[g] /\ call'[g] = call[g]
        /\ pc'[h] = at /\ call'[h] = c
    BY <1>4 DEF IInv, TypeOK
  <2>2. HandlerInv(at, c)'
    BY <1>2, <1>4, <2>1 DEF HandlerInv, ConcludingInv, Approved, RecordEvent
  <2> QED
    BY <1>1, <2>1, <2>2, HandlerStep
<1>5. ASSUME NEW t \in {"submitted", "approved"}, c.op = "immediate",
             pc' = [pc EXCEPT ![h] = "read"], call' = [call EXCEPT ![h].to = t]
      PROVE  IInv'
  <2>1. /\ \A g \in Handlers \ {h} : pc'[g] = pc[g] /\ call'[g] = call[g]
        /\ pc'[h] = "read" /\ call'[h] = [c EXCEPT !.to = t]
    BY <1>5 DEF IInv, TypeOK
  <2>2. call'[h].op = c.op /\ call'[h].actor = c.actor /\ call'[h].to = t
    BY <1>2, <2>1 DEF Calls
  <2>3. HandlerInv(pc[h], call[h])'
    BY <1>2, <1>5, <2>1, <2>2 DEF HandlerInv
  <2> QED
    BY <1>1, <2>1, <2>3, HandlerStep
<1> QED
  BY <1>3, <1>4, <1>5 DEF RecordEvent, Continue, Goto

LEMMA ConcludeIInv ==
    ASSUME IInv, TypeOK', NEW h \in Handlers, RefuseToExecute(h) \/ FinishExecutor(h)
    PROVE  IInv'
<1> DEFINE c == call[h]
<1>1. \A q \in Requests : Keeps(q) /\ RowInv(q)'
  BY RowsKept DEF RefuseToExecute, FinishExecutor, NoRowChange
<1>2. c \in Calls /\ HandlerInv(pc[h], c) /\ pc[h] \in {"executor", "running"}
  BY DEF RefuseToExecute, FinishExecutor, IInv, TypeOK
<1>3. PICK to \in {"applied", "failed"}, out \in Outcomes :
        /\ Concluding(h, to, out)
        /\ out = "error" <=> to = "failed"
        /\ to = "applied" => pc[h] = "running"
  BY DEF RefuseToExecute, FinishExecutor, ConcludeFailure, Outcomes
<1>4. /\ \A g \in Handlers \ {h} : pc'[g] = pc[g] /\ call'[g] = call[g]
      /\ pc'[h] = "read" /\ call'[h] = [c EXCEPT !.to = to, !.out = out]
  BY <1>3 DEF Concluding, Goto, IInv, TypeOK
<1>5. /\ call'[h].op = c.op /\ call'[h].actor = c.actor /\ call'[h].req = c.req
      /\ call'[h].to = to /\ call'[h].out = out
  BY <1>2, <1>4 DEF Calls
<1>6. runs' = runs /\ out # "none" /\ (to = "applied" => runs[c.req] > 0)
  BY <1>2, <1>3 DEF RefuseToExecute, FinishExecutor, NoRowChange, HandlerInv, Outcomes
<1>7. HandlerInv(pc[h], call[h])'
  BY <1>2, <1>3, <1>4, <1>5, <1>6 DEF HandlerInv, ConcludingInv
<1> QED
  BY <1>1, <1>4, <1>7, HandlerStep

LEMMA StartExecutorIInv ==
    ASSUME IInv, TypeOK', NEW h \in Handlers, StartExecutor(h)
    PROVE  IInv'
<1> DEFINE c == call[h]
<1>1. c \in Calls /\ c.req \in Requests /\ HandlerInv("executor", c)
  BY DEF StartExecutor, IInv, TypeOK, Calls
<1>2. \A q \in Requests : Keeps(q) /\ RowInv(q)'
  <2> SUFFICES ASSUME NEW q \in Requests PROVE Keeps(q) /\ RowInv(q)'
    OBVIOUS
  <2>1. RowInv(q) /\ runs[q] \in Nat /\ runs'[q] = IF q = c.req THEN runs[q] + 1 ELSE runs[q]
    BY <1>1 DEF IInv, TypeOK, StartExecutor
  <2>2. Approved(c.req)
    BY <1>1 DEF HandlerInv
  <2> QED
    BY <2>1, <2>2 DEF Keeps, RowInv, Approved, StartExecutor
<1>3. /\ \A g \in Handlers \ {h} : pc'[g] = pc[g] /\ call'[g] = call[g]
      /\ pc'[h] = "running" /\ call'[h] = c
  BY DEF StartExecutor, Goto, IInv, TypeOK
<1>4. runs'[c.req] > 0
  BY <1>1 DEF IInv, TypeOK, StartExecutor
<1>5. HandlerInv("running", c)'
  BY <1>1, <1>3, <1>4 DEF HandlerInv, Approved, StartExecutor
<1> QED
  BY <1>2, <1>3, <1>5, HandlerStep

LEMMA SaveResultIInv ==
    ASSUME IInv, TypeOK', NEW h \in Handlers, SaveResult(h)
    PROVE  IInv'
<1> DEFINE c == call[h]
<1>1. c \in Calls /\ c.req \in Requests /\ HandlerInv("result", c)
  BY DEF SaveResult, IInv, TypeOK, Calls
<1>2. \A q \in Requests : Keeps(q) /\ RowInv(q)'
  <2> SUFFICES ASSUME NEW q \in Requests PROVE Keeps(q) /\ RowInv(q)'
    OBVIOUS
  <2>1. /\ RowInv(q) /\ runs[q] \in Nat
        /\ result'[q] = IF q = c.req /\ c.out # "silent" THEN c.out ELSE result[q]
    BY <1>1 DEF IInv, TypeOK, SaveResult, StoredResult
  <2> QED
    BY <1>1, <2>1 DEF Keeps, RowInv, Approved, SaveResult, HandlerInv, ConcludingInv
<1> QED
  BY <1>2, FinishKeeps DEF SaveResult

THEOREM InductiveInvariant == Spec => []IInv
<1>1. IInv /\ TypeOK' /\ [Next]_vars => IInv'
  <2> SUFFICES ASSUME IInv, TypeOK', [Next]_vars PROVE IInv'
    OBVIOUS
  <2>1. ASSUME NEW h \in Handlers, CreateRequest(h) \/ ImmediateRollback(h) PROVE IInv'
    BY <2>1, InsertIInv DEF CreateRequest, ImmediateRollback, Ops, Kinds
  <2>2. ASSUME NEW h \in Handlers, LoseRace(h) \/ Abandon(h) PROVE IInv'
    <3>1. Finish(h) /\ UNCHANGED <<status, reviewer, runs, result>>
      BY <2>2 DEF LoseRace, Abandon, NoRowChange
    <3> QED
      BY <3>1, RowsKept, FinishKeeps
  <2>3. ASSUME UNCHANGED <<status, reviewer, runs, result, pc, call>> PROVE IInv'
    <3>1. \A r \in Requests : Keeps(r) /\ RowInv(r)'
      BY <2>3, RowsKept
    <3>2. \A h \in Handlers : pc'[h] # "idle" => HandlerInv(pc[h], call[h])'
      BY <2>3, <3>1, OthersKeep
    <3> QED
      BY <3>1, <3>2 DEF IInv
  <2> QED
    BY <2>1, <2>2, <2>3, BeginIInv, GetIInv, UpdateIInv, RecordEventIInv, ConcludeIInv,
       StartExecutorIInv, SaveResultIInv
       DEF Next, Advance, vars
<1> QED
  BY <1>1, InitIInv, TypeCorrect, PTL DEF Spec

\* For any number of users, requests and handlers, no interleaving invokes the
\* executor for a request that no administrator approved.
THEOREM ExecutionNeedsApproval == Spec => []ExecutorOnlyAfterApproval
<1>1. IInv => ExecutorOnlyAfterApproval
  BY DEF IInv, RowInv, Approved, ExecutorOnlyAfterApproval
<1> QED
  BY <1>1, InductiveInvariant, PTL

\* ... and no interleaving stores the result of a handler that lost the race.
THEOREM StoredResultIsTheWinners == Spec => []ResultMatchesStatus
<1>1. IInv => ResultMatchesStatus
  BY DEF IInv, RowInv, ResultMatchesStatus
<1> QED
  BY <1>1, InductiveInvariant, PTL

--------------------------------------------------------------------------------
(***************************************************************************)
(* The handlers implement the atomic workflow: an INSERT is a Create, a    *)
(* conditional UPDATE that matches is the Submit, Decide, Withdraw or      *)
(* Conclude its target names, the start of the executor is an Execute, and *)
(* everything else a handler does is invisible.                            *)
(***************************************************************************)

Ran == {r \in Requests : runs[r] > 0}

LEMMA InsertSimulates ==
    ASSUME IInv, NEW h \in Handlers, NEW op, NEW u, NEW r \in Requests, NEW k,
           Insert(h, op, u, r, k)
    PROVE  Workflow!Next
<1>1. Workflow!Create(r)
  BY DEF Insert, Workflow!Create, Workflow!Move
<1> QED
  BY <1>1 DEF Workflow!Next

LEMMA UpdateSimulates ==
    ASSUME IInv, NEW h \in Handlers, Update(h)
    PROVE  Workflow!Next
<1> DEFINE c == call[h]
           r == call[h].req
<1>1. /\ c \in Calls /\ r \in Requests /\ HandlerInv("update", c)
      /\ status[r] \in Statuses /\ CanTransition(status[r], c.to)
  BY UpdateIsEdge DEF IInv, TypeOK, Calls
<1>2. status' = [status EXCEPT ![r] = c.to] /\ UNCHANGED Ran
  BY DEF Update, Ran
<1>3. reviewer' = IF c.to \in {"approved", "rejected"}
                  THEN [reviewer EXCEPT ![r] = c.actor] ELSE reviewer
  BY DEF Update
<1>4. c.to \in {"approved", "rejected"} => c.actor \in Admins
  BY <1>1 DEF HandlerInv
<1>5. c.to = "applied" => runs[r] > 0
  BY <1>1 DEF HandlerInv, ConcludingInv
<1> HIDE DEF c, r
<1>6. CASE c.to = "submitted"
  <2>1. Workflow!Submit(r)
    BY <1>1, <1>2, <1>3, <1>6, TransitionTargets DEF Workflow!Submit, Workflow!Move, Ran
  <2> QED
    BY <1>1, <2>1 DEF Workflow!Next
<1>7. CASE c.to \in {"approved", "rejected"}
  <2>1. Workflow!Decide(r, c.actor)
    BY <1>1, <1>2, <1>3, <1>7, TransitionTargets DEF Workflow!Decide, Workflow!Move, Ran
  <2> QED
    BY <1>1, <1>4, <1>7, <2>1 DEF Workflow!Next
<1>8. CASE c.to = "cancelled"
  <2>1. Workflow!Withdraw(r)
    BY <1>1, <1>2, <1>3, <1>8, TransitionTargets DEF Workflow!Withdraw, Workflow!Move, Ran
  <2> QED
    BY <1>1, <2>1 DEF Workflow!Next
<1>9. CASE c.to \in {"applied", "failed"}
  <2>1. Workflow!Conclude(r)
    BY <1>1, <1>2, <1>3, <1>5, <1>9, TransitionTargets DEF Workflow!Conclude, Workflow!Move, Ran
  <2> QED
    BY <1>1, <2>1 DEF Workflow!Next
<1> QED
  BY <1>1, <1>6, <1>7, <1>8, <1>9, TransitionTargets

LEMMA StartExecutorSimulates ==
    ASSUME IInv, NEW h \in Handlers, StartExecutor(h)
    PROVE  Workflow!Next
<1>1. PICK r \in Requests : r = call[h].req
  BY DEF StartExecutor, IInv, TypeOK, Calls
<1>2. Approved(r) /\ runs \in [Requests -> Nat]
  BY <1>1 DEF StartExecutor, IInv, TypeOK, HandlerInv
<1>3. Ran' = Ran \cup {r}
  <2>1. \A q \in Requests : runs'[q] = IF q = r THEN runs[r] + 1 ELSE runs[q]
    BY <1>1, <1>2 DEF StartExecutor
  <2> QED
    BY <1>2, <2>1 DEF Ran
<1>4. Workflow!Execute(r)
  BY <1>1, <1>2, <1>3 DEF Workflow!Execute, StartExecutor, Approved, Ran
<1> QED
  BY <1>4 DEF Workflow!Next

\* Every behaviour of the handlers is a behaviour of the atomic workflow.
THEOREM HandlersImplementWorkflow == Spec => ImplementsWorkflow
<1>1. Init => Workflow!Init
  BY DEF Init, Workflow!Init
<1>2. IInv /\ [Next]_vars => [Workflow!Next]_(Workflow!vars)
  <2> SUFFICES ASSUME IInv, [Next]_vars PROVE Workflow!Next \/ UNCHANGED Workflow!vars
    OBVIOUS
  <2>1. ASSUME NEW h \in Handlers, CreateRequest(h) \/ ImmediateRollback(h)
        PROVE  Workflow!Next
    BY <2>1, InsertSimulates DEF CreateRequest, ImmediateRollback
  <2>2. ASSUME UNCHANGED <<status, reviewer, runs>> PROVE UNCHANGED Workflow!vars
    BY <2>2 DEF Workflow!vars
  <2>3. ASSUME NEW h \in Handlers, Update(h) \/ StartExecutor(h) PROVE Workflow!Next
    BY <2>3, UpdateSimulates, StartExecutorSimulates
  <2>4. ASSUME NEW h \in Handlers,
               \/ Submit(h) \/ Approve(h) \/ Reject(h) \/ Cancel(h) \/ Apply(h)
               \/ Get(h) \/ LoseRace(h) \/ RecordEvent(h) \/ RefuseToExecute(h)
               \/ FinishExecutor(h) \/ SaveResult(h) \/ Abandon(h)
        PROVE  UNCHANGED <<status, reviewer, runs>>
    BY <2>4 DEF Submit, Approve, Reject, Cancel, Apply, Read, Get, LoseRace, RecordEvent,
                RefuseToExecute, FinishExecutor, SaveResult, Abandon, NoRowChange
  <2> QED
    BY <2>1, <2>2, <2>3, <2>4 DEF Next, Advance, vars
<1> QED
  BY <1>1, <1>2, InductiveInvariant, PTL DEF Spec, ImplementsWorkflow, Workflow!Spec

--------------------------------------------------------------------------------
(***************************************************************************)
(* The walk a row makes and the timeline written of it.  The statuses have *)
(* a rank that every edge of the state machine raises, so a row is never   *)
(* moved twice by the same edge: that is what keeps the events of two      *)
(* handlers of one request apart, in whatever order their INSERTs come.    *)
(***************************************************************************)

Rank(s) ==
    CASE s = "none"      -> 0
      [] s = "draft"     -> 1
      [] s = "submitted" -> 2
      [] s = "approved"  -> 3
      [] OTHER           -> 4

Real(r) == {moves[r][i] : i \in DOMAIN moves[r]}
Rows(r) == {events[r][i] : i \in DOMAIN events[r]}

WalkInv(r) ==
    /\ \A i \in DOMAIN moves[r] :
          /\ i = 1 => moves[r][i].from = "none" /\ moves[r][i].to = "draft"
          /\ i > 1 => /\ moves[r][i].from = moves[r][i - 1].to
                      /\ CanTransition(moves[r][i].from, moves[r][i].to)
    /\ status[r] = IF moves[r] = <<>> THEN "none" ELSE moves[r][Len(moves[r])].to

RankInv(r) == \A e \in Real(r) : Rank(e.to) =< Rank(status[r])

RowsInv(r) ==
    /\ Rows(r) \subseteq Real(r)
    /\ \A i, j \in DOMAIN events[r] : events[r][i] = events[r][j] => i = j
    /\ abandoned = 0 =>
          Real(r) \subseteq Rows(r) \cup {Edge(call[h]) : h \in Pending(r)}

\* A handler about to record its event: the move is made and not yet on record,
\* and nobody else is about to record the same one.
PendingInv(h) ==
    pc[h] = "event" =>
        /\ Edge(call[h]) \in Real(call[h].req) \ Rows(call[h].req)
        /\ \A g \in Handlers \ {h} :
              pc[g] = "event" /\ call[g].req = call[h].req => Edge(call[g]) # Edge(call[h])

TimelineInv ==
    /\ \A r \in Requests : WalkInv(r) /\ RankInv(r) /\ RowsInv(r)
    /\ \A h \in Handlers : PendingInv(h)

\* What Append does to the set of a sequence's elements.
LEMMA AppendElements ==
    ASSUME NEW S, NEW s \in Seq(S), NEW e \in S
    PROVE  /\ {Append(s, e)[i] : i \in DOMAIN Append(s, e)}
                = {s[i] : i \in DOMAIN s} \cup {e}
           /\ Len(Append(s, e)) = Len(s) + 1
           /\ DOMAIN Append(s, e) = 1 .. (Len(s) + 1)
           /\ DOMAIN s = 1 .. Len(s)
           /\ \A i \in 1 .. Len(s) : Append(s, e)[i] = s[i]
           /\ Append(s, e)[Len(s) + 1] = e
<1>1. /\ Len(s) \in Nat /\ DOMAIN s = 1 .. Len(s)
      /\ Len(Append(s, e)) = Len(s) + 1
      /\ DOMAIN Append(s, e) = 1 .. (Len(s) + 1)
      /\ \A i \in 1 .. Len(s) : Append(s, e)[i] = s[i]
      /\ Append(s, e)[Len(s) + 1] = e
  OBVIOUS
<1> DEFINE t == Append(s, e)
<1> HIDE DEF t
<1>2. {t[i] : i \in 1 .. (Len(s) + 1)} = {s[i] : i \in 1 .. Len(s)} \cup {e}
  <2>1. \A i \in 1 .. Len(s) : t[i] = s[i] /\ i \in 1 .. (Len(s) + 1)
    BY <1>1 DEF t
  <2>2. t[Len(s) + 1] = e /\ Len(s) + 1 \in 1 .. (Len(s) + 1)
    BY <1>1 DEF t
  <2>3. \A i \in 1 .. (Len(s) + 1) : i \in 1 .. Len(s) \/ i = Len(s) + 1
    BY <1>1
  <2> QED
    BY <2>1, <2>2, <2>3
<1> QED
  BY <1>1, <1>2 DEF t

\* An edge of the state machine raises the rank.
LEMMA EdgesRaiseRank ==
    ASSUME NEW s \in Statuses, NEW t \in Statuses, CanTransition(s, t)
    PROVE  Rank(s) < Rank(t)
BY TransitionTargets DEF Rank

\* One more move of a row: the walk stays legal, and the move is a new one.
LEMMA WalkExtends ==
    ASSUME TypeOK, NEW r \in Requests, WalkInv(r), RankInv(r),
           NEW e \in Transitions, moves'[r] = Append(moves[r], e),
           e.from = status[r], status'[r] = e.to,
           \/ e.from = "none" /\ e.to = "draft"
           \/ CanTransition(e.from, e.to)
    PROVE  /\ WalkInv(r)' /\ RankInv(r)'
           /\ e \notin Real(r) /\ Real(r)' = Real(r) \cup {e}
<1> DEFINE m == moves[r]
           n == Len(moves[r])
<1>1. /\ m \in Seq(Transitions) /\ n \in Nat /\ DOMAIN m = 1 .. n
      /\ e.from \in Statuses /\ e.to \in Statuses
  <2>1. m \in Seq(Transitions)
    BY DEF TypeOK
  <2>2. e.from \in Statuses /\ e.to \in Statuses
    BY DEF Transitions
  <2>3. n \in Nat /\ DOMAIN m = 1 .. n
    BY <2>1
  <2> QED
    BY <2>1, <2>2, <2>3
<1>2. /\ Real(r)' = Real(r) \cup {e}
      /\ DOMAIN moves'[r] = 1 .. (n + 1) /\ Len(moves'[r]) = n + 1
      /\ \A i \in 1 .. n : moves'[r][i] = m[i]
      /\ moves'[r][n + 1] = e
  BY <1>1, AppendElements DEF Real
<1>3. Rank(e.from) < Rank(e.to) /\ Rank(e.from) \in Nat /\ Rank(e.to) \in Nat
  <2>1. CASE e.from = "none" /\ e.to = "draft"
    BY <2>1 DEF Rank
  <2>2. CASE CanTransition(e.from, e.to)
    BY <1>1, <2>2, EdgesRaiseRank DEF Rank
  <2> QED BY <2>1, <2>2
<1>4. \A x \in Real(r) : Rank(x.to) \in Nat /\ Rank(x.to) =< Rank(e.from)
  BY DEF RankInv, Rank
<1>5. e \notin Real(r)
  BY <1>3, <1>4
<1>6. RankInv(r)'
  <2>1. \A x \in Real(r) \cup {e} : Rank(x.to) =< Rank(e.to)
    BY <1>3, <1>4
  <2> QED
    BY <1>2, <2>1 DEF RankInv
<1>7. WalkInv(r)'
  <2>1. status'[r] = IF moves'[r] = <<>> THEN "none" ELSE moves'[r][Len(moves'[r])].to
    BY <1>1, <1>2
  <2>2. CASE n = 0
    <3>1. e.from = "none" /\ e.to = "draft"
      BY <1>1, <2>2, TransitionTargets DEF WalkInv
    <3> QED
      BY <1>1, <1>2, <2>1, <2>2, <3>1 DEF WalkInv
  <2>3. CASE n > 0
    <3>1. status[r] = m[n].to /\ n \in DOMAIN m /\ m # <<>>
      BY <1>1, <2>3 DEF WalkInv
    <3>2. status[r] # "none"
      <4>1. CASE n = 1
        BY <3>1, <4>1 DEF WalkInv
      <4>2. CASE n > 1
        <5>1. CanTransition(m[n].from, m[n].to)
          BY <3>1, <4>2 DEF WalkInv
        <5>2. m[n] \in Transitions
          BY <1>1, <3>1
        <5>3. m[n].from \in Statuses
          BY <5>2 DEF Transitions
        <5> QED
          BY <3>1, <5>1, <5>3, TransitionTargets
      <4>3. n = 1 \/ n > 1
        <5>1. n \in Nat
          BY <1>1
        <5> HIDE DEF n
        <5> QED
          BY <2>3, <5>1
      <4> QED
        BY <4>1, <4>2, <4>3
    <3>3. CanTransition(e.from, e.to)
      BY <3>2
    <3>4. ASSUME NEW i \in 1 .. (n + 1)
          PROVE  /\ i = 1 => moves'[r][i].from = "none" /\ moves'[r][i].to = "draft"
                 /\ i > 1 => /\ moves'[r][i].from = moves'[r][i - 1].to
                             /\ CanTransition(moves'[r][i].from, moves'[r][i].to)
      <4>1. CASE i \in 1 .. n
        <5>1. moves'[r][i] = m[i] /\ (i > 1 => moves'[r][i - 1] = m[i - 1])
          BY <1>1, <1>2, <4>1
        <5> QED
          BY <1>1, <4>1, <5>1 DEF WalkInv
      <4>2. CASE i = n + 1
        <5>1. i > 1 /\ moves'[r][i] = e /\ moves'[r][i - 1] = m[n]
          BY <1>1, <1>2, <2>3, <4>2
        <5> QED
          BY <3>1, <3>3, <5>1
      <4> QED
        BY <1>1, <4>1, <4>2
    <3> QED
      BY <1>2, <2>1, <3>4 DEF WalkInv
  <2> QED
    BY <1>1, <2>2, <2>3
<1> QED
  BY <1>2, <1>5, <1>6, <1>7

\* A step that leaves the walk, the timeline and the handlers about to record
\* an event as they are.
LEMMA TimelineKept ==
    ASSUME TimelineInv, UNCHANGED <<status, moves, events, abandoned>>,
           \A g \in Handlers : /\ pc'[g] = "event" <=> pc[g] = "event"
                               /\ pc[g] = "event" => call'[g] = call[g]
    PROVE  TimelineInv'
<1>1. ASSUME NEW r \in Requests PROVE WalkInv(r)' /\ RankInv(r)' /\ RowsInv(r)'
  <2>1. WalkInv(r) /\ RankInv(r) /\ RowsInv(r)
    BY DEF TimelineInv
  <2>2. Real(r)' = Real(r) /\ Rows(r)' = Rows(r)
    BY DEF Real, Rows
  <2>3. {Edge(call[h]) : h \in Pending(r)}' = {Edge(call[h]) : h \in Pending(r)}
    <3>1. \A g \in Handlers : /\ g \in Pending(r)' <=> g \in Pending(r)
                             /\ g \in Pending(r) => call'[g] = call[g]
      BY DEF Pending
    <3> QED
      BY <3>1 DEF Edge, ActorOf, Pending
  <2>4. WalkInv(r)'
    BY <2>1 DEF WalkInv
  <2>5. RankInv(r)'
    BY <2>1, <2>2 DEF RankInv
  <2>6. RowsInv(r)'
    BY <2>1, <2>2, <2>3 DEF RowsInv
  <2> QED
    BY <2>4, <2>5, <2>6
<1>2. ASSUME NEW h \in Handlers PROVE PendingInv(h)'
  <2> SUFFICES ASSUME pc'[h] = "event" PROVE PendingInv(h)'
    BY DEF PendingInv
  <2>1. PendingInv(h) /\ pc[h] = "event" /\ call'[h] = call[h]
    BY DEF TimelineInv
  <2>2. \A r : Real(r)' = Real(r) /\ Rows(r)' = Rows(r)
    BY DEF Real, Rows
  <2>3. Edge(call[h]) \in Real(call[h].req) \ Rows(call[h].req)
    BY <2>1 DEF PendingInv
  <2>4. (Edge(call[h]) \in Real(call[h].req) \ Rows(call[h].req))'
    BY <2>1, <2>2, <2>3 DEF Edge, ActorOf
  <2>5. ASSUME NEW g \in Handlers \ {h}, pc'[g] = "event", call'[g].req = call'[h].req
        PROVE  Edge(call[g])' # Edge(call[h])'
    <3>1. pc[g] = "event" /\ call'[g] = call[g]
      BY <2>5
    <3> QED
      BY <2>1, <2>5, <3>1 DEF PendingInv, Edge, ActorOf
  <2> QED
    BY <2>4, <2>5 DEF PendingInv
<1> QED
  BY <1>1, <1>2 DEF TimelineInv

\* A handler moves a row and is now to record the event: an INSERT of a row or
\* the conditional UPDATE.
LEMMA MoveKeepsTimeline ==
    ASSUME TypeOK, TimelineInv, NEW h \in Handlers, NEW r \in Requests, NEW e \in Transitions,
           pc[h] # "event", pc' = [pc EXCEPT ![h] = "event"],
           \A g \in Handlers \ {h} : call'[g] = call[g],
           call'[h].req = r, Edge(call[h])' = e,
           moves' = [moves EXCEPT ![r] = Append(moves[r], e)],
           status' = [status EXCEPT ![r] = e.to], e.from = status[r],
           \/ e.from = "none" /\ e.to = "draft"
           \/ CanTransition(e.from, e.to),
           UNCHANGED <<events, abandoned>>
    PROVE  TimelineInv'
<1>1. \A q \in Requests : WalkInv(q) /\ RankInv(q) /\ RowsInv(q)
  BY DEF TimelineInv
<1>2. \A g \in Handlers : PendingInv(g)
  BY DEF TimelineInv
<1>3. /\ moves'[r] = Append(moves[r], e) /\ status'[r] = e.to
      /\ \A q \in Requests \ {r} : moves'[q] = moves[q] /\ status'[q] = status[q]
      /\ pc'[h] = "event" /\ \A g \in Handlers \ {h} : pc'[g] = pc[g]
  BY DEF TypeOK
<1>4. /\ WalkInv(r)' /\ RankInv(r)'
      /\ e \notin Real(r) /\ Real(r)' = Real(r) \cup {e}
  BY <1>1, <1>3, WalkExtends
<1>5. \A q \in Requests \ {r} : Real(q)' = Real(q)
  BY <1>3 DEF Real
<1>6. \A q \in Requests : Rows(q)' = Rows(q)
  BY DEF Rows
<1>7. \A g \in Handlers \ {h} : Edge(call[g])' = Edge(call[g])
  BY DEF Edge, ActorOf
<1>8. ASSUME NEW q \in Requests PROVE WalkInv(q)' /\ RankInv(q)' /\ RowsInv(q)'
  <2>1. CASE q = r
    <3>1. /\ Rows(r) \subseteq Real(r)
          /\ \A i, j \in DOMAIN events[r] : events[r][i] = events[r][j] => i = j
          /\ abandoned = 0 =>
                Real(r) \subseteq Rows(r) \cup {Edge(call[g]) : g \in Pending(r)}
      BY <1>1 DEF RowsInv
    <3>2. \A g \in Pending(r) : g \in Pending(r)' /\ Edge(call[g])' = Edge(call[g])
      BY <1>3, <1>7 DEF Pending
    <3>3. h \in Pending(r)'
      BY <1>3 DEF Pending
    <3>4. {Edge(call[g]) : g \in Pending(r)} \cup {e}
             \subseteq {Edge(call[g]) : g \in Pending(r)}'
      BY <3>2, <3>3
    <3>5. (abandoned = 0 =>
             Real(r) \subseteq Rows(r) \cup {Edge(call[g]) : g \in Pending(r)})'
      <4> SUFFICES ASSUME abandoned = 0, NEW x \in Real(r)'
                   PROVE  x \in (Rows(r) \cup {Edge(call[g]) : g \in Pending(r)})'
        BY SMTT(30)
      <4>1. x \in Rows(r) \cup {Edge(call[g]) : g \in Pending(r)} \cup {e}
        BY <1>4, <3>1
      <4> QED
        BY <1>6, <3>4, <4>1
    <3>6. RowsInv(r)'
      BY <1>4, <1>6, <3>1, <3>5 DEF RowsInv
    <3> QED
      BY <1>4, <2>1, <3>6
  <2>2. CASE q # r
    <3>1. WalkInv(q) /\ RankInv(q) /\ RowsInv(q)
      BY <1>1
    <3>2. Real(q)' = Real(q) /\ Rows(q)' = Rows(q)
      BY <1>5, <1>6, <2>2
    <3>3. WalkInv(q)'
      BY <1>3, <2>2, <3>1 DEF WalkInv
    <3>4. RankInv(q)'
      BY <1>3, <2>2, <3>1, <3>2 DEF RankInv
    <3>5. \A g \in Pending(q) : g \in Pending(q)' /\ Edge(call[g])' = Edge(call[g])
      <4>1. h \notin Pending(q)
        BY DEF Pending
      <4> QED
        BY <1>3, <1>7, <4>1 DEF Pending
    <3>6. {Edge(call[g]) : g \in Pending(q)} \subseteq {Edge(call[g]) : g \in Pending(q)}'
      BY <3>5
    <3>7. RowsInv(q)'
      BY <3>1, <3>2, <3>6 DEF RowsInv
    <3> QED
      BY <3>3, <3>4, <3>7
  <2> QED
    BY <2>1, <2>2
<1>9. \A g \in Handlers \ {h} : pc[g] = "event" => call[g] \in Calls /\ call[g].req \in Requests
  BY DEF TypeOK, Calls
<1>10. \A g \in Handlers \ {h} :
          pc[g] = "event" /\ call[g].req = r => Edge(call[g])' # e
  BY <1>2, <1>4, <1>7 DEF PendingInv
<1>11. PendingInv(h)'
  <2>1. e \in Real(r)' /\ e \notin Rows(r)'
    BY <1>1, <1>4, <1>6 DEF RowsInv
  <2>2. \A g \in Handlers \ {h} :
           pc'[g] = "event" /\ call'[g].req = call'[h].req => Edge(call[g])' # Edge(call[h])'
    BY <1>3, <1>10
  <2> QED
    BY <2>1, <2>2 DEF PendingInv
<1>12. ASSUME NEW g \in Handlers \ {h} PROVE PendingInv(g)'
  <2> SUFFICES ASSUME pc[g] = "event" PROVE PendingInv(g)'
    BY <1>3 DEF PendingInv
  <2> DEFINE q == call[g].req
  <2>1. call'[g] = call[g] /\ q \in Requests /\ Edge(call[g])' = Edge(call[g])
    BY <1>7, <1>9
  <2>2. Edge(call[g]) \in Real(q) /\ Edge(call[g]) \notin Rows(q)
    BY <1>2 DEF PendingInv
  <2>3. Edge(call[g]) \in Real(q)' /\ Edge(call[g]) \notin Rows(q)'
    BY <1>4, <1>5, <1>6, <2>1, <2>2
  <2>4. ASSUME NEW f \in Handlers \ {g}, pc'[f] = "event", call'[f].req = q
        PROVE  Edge(call[f])' # Edge(call[g])
    <3>1. CASE f = h
      BY <1>10, <2>1, <2>4, <3>1
    <3>2. CASE f # h
      BY <1>2, <1>3, <1>7, <2>1, <2>4, <3>2 DEF PendingInv
    <3> QED BY <3>1, <3>2
  <2>5. (Edge(call[g]) \in Real(call[g].req) \ Rows(call[g].req))'
    BY <2>1, <2>3
  <2> QED
    BY <2>1, <2>4, <2>5 DEF PendingInv
<1> QED
  BY <1>8, <1>11, <1>12 DEF TimelineInv

\* The INSERT of an event: the one its handler owed, which nobody else owes.
LEMMA RecordEventTimeline ==
    ASSUME TypeOK, TimelineInv, NEW h \in Handlers, RecordEvent(h)
    PROVE  TimelineInv'
<1>1. PICK r \in Requests, e \in Transitions :
        r = call[h].req /\ e = Edge(call[h]) /\ e = EventRow(call[h])
  <2>1. call[h] \in Calls
    BY DEF RecordEvent, TypeOK
  <2>2. /\ call[h].req \in Requests
        /\ Edge(call[h]) \in Transitions
        /\ Edge(call[h]) = EventRow(call[h])
    BY <2>1 DEF Calls, Transitions, Edge, EventRow, ActorOf
  <2> QED
    BY <2>2
<1>2. /\ pc[h] = "event" /\ pc'[h] # "event"
      /\ \A g \in Handlers \ {h} : pc'[g] = pc[g] /\ call'[g] = call[g]
  BY DEF RecordEvent, Continue, Goto, Finish, TypeOK
<1>3. /\ events'[r] = Append(events[r], e)
      /\ \A q \in Requests \ {r} : events'[q] = events[q]
      /\ moves' = moves /\ status' = status /\ abandoned' = abandoned
  BY <1>1 DEF RecordEvent, TypeOK
<1>4. /\ \A q \in Requests : WalkInv(q) /\ RankInv(q) /\ RowsInv(q)
      /\ \A g \in Handlers : PendingInv(g)
  BY DEF TimelineInv
<1>5. /\ Rows(r)' = Rows(r) \cup {e}
      /\ DOMAIN events[r] = 1 .. Len(events[r]) /\ Len(events[r]) \in Nat
      /\ DOMAIN events'[r] = 1 .. (Len(events[r]) + 1)
      /\ \A i \in 1 .. Len(events[r]) : events'[r][i] = events[r][i]
      /\ events'[r][Len(events[r]) + 1] = e
  <2>1. events[r] \in Seq(Transitions)
    BY <1>1 DEF TypeOK
  <2>2. Len(events[r]) \in Nat
    BY <2>1
  <2> DEFINE s == events[r]
             t == Append(s, e)
  <2>3. /\ {t[i] : i \in DOMAIN t} = {s[i] : i \in DOMAIN s} \cup {e}
        /\ DOMAIN t = 1 .. (Len(s) + 1) /\ DOMAIN s = 1 .. Len(s)
        /\ \A i \in 1 .. Len(s) : t[i] = s[i]
        /\ t[Len(s) + 1] = e
    BY <2>1, AppendElements
  <2>4. events'[r] = t
    BY <1>3
  <2>5. Rows(r) = {s[i] : i \in DOMAIN s} /\ Rows(r)' = {t[i] : i \in DOMAIN t}
    BY <2>4 DEF Rows
  <2> HIDE DEF t
  <2> QED
    BY <2>2, <2>3, <2>4, <2>5
<1>6. /\ \A q \in Requests \ {r} : Rows(q)' = Rows(q)
      /\ \A q \in Requests : Real(q)' = Real(q)
  BY <1>3 DEF Rows, Real
<1>7. e \in Real(r) /\ e \notin Rows(r)
  BY <1>1, <1>2, <1>4 DEF PendingInv
<1>8. \A g \in Handlers \ {h} : Edge(call[g])' = Edge(call[g])
  BY <1>2 DEF Edge, ActorOf
<1>9. ASSUME NEW q \in Requests PROVE WalkInv(q)' /\ RankInv(q)' /\ RowsInv(q)'
  <2>1. WalkInv(q) /\ RankInv(q) /\ RowsInv(q)
    BY <1>4
  <2>2. WalkInv(q)'
    BY <1>3, <2>1 DEF WalkInv
  <2>3. RankInv(q)'
    BY <1>3, <1>6, <2>1 DEF RankInv
  <2>4. \A g \in Pending(q) : g = h \/ (g \in Pending(q)' /\ Edge(call[g])' = Edge(call[g]))
    BY <1>2, <1>8 DEF Pending
  <2>5. CASE q = r
    <3>1. {Edge(call[g]) : g \in Pending(r)} \subseteq {Edge(call[g]) : g \in Pending(r)}' \cup {e}
      BY <1>1, <2>4, <2>5
    <3>2. (abandoned = 0 =>
             Real(r) \subseteq Rows(r) \cup {Edge(call[g]) : g \in Pending(r)})'
      BY <1>3, <1>5, <1>6, <2>1, <2>5, <3>1 DEF RowsInv
    <3>3. (Rows(r) \subseteq Real(r))'
      BY <1>1, <1>5, <1>6, <1>7, <2>1, <2>5 DEF RowsInv
    <3>4. \A i \in 1 .. Len(events[r]) : events[r][i] # e
      BY <1>5, <1>7 DEF Rows
    <3>5. ASSUME NEW i \in DOMAIN events'[r], NEW j \in DOMAIN events'[r],
                 events'[r][i] = events'[r][j]
          PROVE  i = j
      <4>1. /\ i \in 1 .. Len(events[r]) \/ i = Len(events[r]) + 1
            /\ j \in 1 .. Len(events[r]) \/ j = Len(events[r]) + 1
        BY <1>5
      <4> QED
        BY <1>5, <2>1, <2>5, <3>4, <3>5, <4>1 DEF RowsInv
    <3>6. (\A i, j \in DOMAIN events[r] : events[r][i] = events[r][j] => i = j)'
      BY <3>5
    <3>7. RowsInv(r)'
      BY <3>2, <3>3, <3>6 DEF RowsInv
    <3> QED
      BY <2>2, <2>3, <2>5, <3>7
  <2>6. CASE q # r
    <3>1. h \notin Pending(q)
      BY <1>1, <2>6 DEF Pending
    <3>2. {Edge(call[g]) : g \in Pending(q)} \subseteq {Edge(call[g]) : g \in Pending(q)}'
      BY <2>4, <3>1
    <3>3. RowsInv(q)'
      BY <1>3, <1>6, <2>1, <2>6, <3>2 DEF RowsInv
    <3> QED
      BY <2>2, <2>3, <3>3
  <2> QED
    BY <2>5, <2>6
<1>10. ASSUME NEW g \in Handlers PROVE PendingInv(g)'
  <2> SUFFICES ASSUME pc'[g] = "event" PROVE PendingInv(g)'
    BY DEF PendingInv
  <2>1. /\ g # h /\ pc[g] = "event" /\ call'[g] = call[g]
        /\ Edge(call[g])' = Edge(call[g])
    BY <1>2, <1>8
  <2>2. PICK q \in Requests : q = call[g].req
    BY <2>1 DEF TypeOK, Calls
  <2>3. PendingInv(g)
    BY <1>4
  <2>4. q = r => Edge(call[g]) # e
    BY <1>1, <1>2, <2>1, <2>2, <2>3 DEF PendingInv
  <2>5. (Edge(call[g]) \in Real(call[g].req) \ Rows(call[g].req))'
    <3>1. Edge(call[g]) \in Real(q)' /\ Edge(call[g]) \notin Rows(q)'
      BY <1>5, <1>6, <2>1, <2>2, <2>3, <2>4 DEF PendingInv
    <3> QED
      BY <2>1, <2>2, <3>1
  <2>6. ASSUME NEW f \in Handlers \ {g}, pc'[f] = "event", call'[f].req = call'[g].req
        PROVE  Edge(call[f])' # Edge(call[g])'
    BY <1>2, <1>8, <2>1, <2>3, <2>6 DEF PendingInv
  <2> QED
    BY <2>5, <2>6 DEF PendingInv
<1> QED
  BY <1>9, <1>10 DEF TimelineInv

\* A handler that is cut short owes its event for ever.
LEMMA AbandonTimeline ==
    ASSUME TypeOK, TimelineInv, NEW h \in Handlers, Abandon(h)
    PROVE  TimelineInv'
<1>1. /\ abandoned' # 0 /\ status' = status /\ moves' = moves /\ events' = events
      /\ pc'[h] = "idle"
      /\ \A g \in Handlers \ {h} : pc'[g] = pc[g] /\ call'[g] = call[g]
  BY DEF Abandon, Finish, TypeOK
<1>2. \A r : Real(r)' = Real(r) /\ Rows(r)' = Rows(r)
  BY <1>1 DEF Real, Rows
<1>3. ASSUME NEW r \in Requests PROVE WalkInv(r)' /\ RankInv(r)' /\ RowsInv(r)'
  <2>1. WalkInv(r) /\ RankInv(r) /\ RowsInv(r)
    BY DEF TimelineInv
  <2>2. WalkInv(r)'
    BY <1>1, <2>1 DEF WalkInv
  <2>3. RankInv(r)'
    BY <1>1, <1>2, <2>1 DEF RankInv
  <2>4. RowsInv(r)'
    BY <1>1, <1>2, <2>1 DEF RowsInv
  <2> QED
    BY <2>2, <2>3, <2>4
<1>4. ASSUME NEW g \in Handlers PROVE PendingInv(g)'
  <2> SUFFICES ASSUME pc'[g] = "event" PROVE PendingInv(g)'
    BY DEF PendingInv
  <2>1. /\ g # h /\ pc[g] = "event" /\ call'[g] = call[g] /\ PendingInv(g)
        /\ Edge(call[g])' = Edge(call[g])
    BY <1>1 DEF TimelineInv, Edge, ActorOf
  <2>2. (Edge(call[g]) \in Real(call[g].req) \ Rows(call[g].req))'
    BY <1>2, <2>1 DEF PendingInv
  <2>3. ASSUME NEW f \in Handlers \ {g}, pc'[f] = "event", call'[f].req = call'[g].req
        PROVE  Edge(call[f])' # Edge(call[g])'
    <3>1. f # h /\ pc[f] = "event" /\ call'[f] = call[f]
      BY <1>1, <2>3
    <3>2. Edge(call[f])' = Edge(call[f])
      BY <3>1 DEF Edge, ActorOf
    <3> QED
      BY <2>1, <2>3, <3>1, <3>2 DEF PendingInv
  <2> QED
    BY <2>2, <2>3 DEF PendingInv
<1> QED
  BY <1>3, <1>4 DEF TimelineInv

LEMMA InsertTimeline ==
    ASSUME IInv, TimelineInv, NEW h \in Handlers, NEW op, NEW u \in Users,
           NEW r \in Requests, NEW k, Insert(h, op, u, r, k)
    PROVE  TimelineInv'
<1> DEFINE e == [from |-> "none", to |-> "draft", actor |-> u]
<1>1. e \in Transitions
  BY DEF Transitions, Statuses
<1>2. /\ pc[h] # "event" /\ pc' = [pc EXCEPT ![h] = "event"]
      /\ \A g \in Handlers \ {h} : call'[g] = call[g]
      /\ call'[h] = [op |-> op, actor |-> u, req |-> r, to |-> "draft",
                     seen |-> "none", out |-> "none"]
  BY DEF Insert, Start, IInv, TypeOK
<1>3. call'[h].req = r /\ Edge(call[h])' = e
  BY <1>2 DEF Edge, ActorOf
<1>4. /\ moves' = [moves EXCEPT ![r] = Append(moves[r], e)]
      /\ status' = [status EXCEPT ![r] = e.to] /\ e.from = status[r]
      /\ e.from = "none" /\ e.to = "draft"
      /\ UNCHANGED <<events, abandoned>>
  BY DEF Insert
<1> HIDE DEF e
<1> QED
  BY <1>1, <1>2, <1>3, <1>4, MoveKeepsTimeline DEF IInv

LEMMA UpdateTimeline ==
    ASSUME IInv, TimelineInv, NEW h \in Handlers, Update(h)
    PROVE  TimelineInv'
<1> DEFINE e == Edge(call[h])
<1>1. call[h] \in Calls /\ CanTransition(status[call[h].req], call[h].to)
  BY UpdateIsEdge
<1>2. call[h].req \in Requests /\ e \in Transitions
  BY <1>1 DEF Calls, Transitions, Edge, ActorOf
<1>3. /\ e.from = call[h].seen /\ e.to = call[h].to
      /\ call[h].seen = status[call[h].req]
  BY DEF Edge, Update, ConditionHolds
<1>4. /\ pc[h] # "event" /\ pc' = [pc EXCEPT ![h] = "event"] /\ call' = call
      /\ moves' = [moves EXCEPT ![call[h].req] = Append(moves[call[h].req], e)]
      /\ status' = [status EXCEPT ![call[h].req] = e.to]
      /\ UNCHANGED <<events, abandoned>>
  BY <1>3 DEF Update, Goto
<1>5. Edge(call[h])' = e
  BY <1>4 DEF Edge, ActorOf
<1> HIDE DEF e
<1> QED
  BY <1>1, <1>2, <1>3, <1>4, <1>5, MoveKeepsTimeline DEF IInv

\* Every other step of a handler.
LEMMA OtherStepsTimeline ==
    ASSUME IInv, TimelineInv, NEW h \in Handlers,
           \/ Submit(h) \/ Approve(h) \/ Reject(h) \/ Cancel(h) \/ Apply(h)
           \/ Get(h) \/ LoseRace(h) \/ RefuseToExecute(h) \/ StartExecutor(h)
           \/ FinishExecutor(h) \/ SaveResult(h)
    PROVE  TimelineInv'
<1>1. UNCHANGED <<status, moves, events, abandoned>>
  BY DEF Submit, Approve, Reject, Cancel, Apply, Read, Get, LoseRace, RefuseToExecute,
         StartExecutor, FinishExecutor, SaveResult, NoRowChange
<1>2. /\ pc[h] # "event" /\ pc'[h] # "event"
      /\ \A g \in Handlers \ {h} : pc'[g] = pc[g] /\ call'[g] = call[g]
  <2>1. CASE Submit(h) \/ Approve(h) \/ Reject(h) \/ Cancel(h) \/ Apply(h)
    BY <2>1 DEF Submit, Approve, Reject, Cancel, Apply, Read, Start, IInv, TypeOK
  <2>2. CASE Get(h) \/ LoseRace(h) \/ SaveResult(h) \/ StartExecutor(h)
    BY <2>2 DEF Get, LoseRace, SaveResult, StartExecutor, Finish, Goto, IInv, TypeOK
  <2>3. CASE RefuseToExecute(h) \/ FinishExecutor(h)
    BY <2>3 DEF RefuseToExecute, FinishExecutor, ConcludeFailure, Concluding, Goto, IInv, TypeOK
  <2> QED
    BY <2>1, <2>2, <2>3
<1> QED
  BY <1>1, <1>2, TimelineKept

THEOREM TimelineInvariant == Spec => []TimelineInv
<1>1. Init => TimelineInv
  <2> SUFFICES ASSUME Init PROVE TimelineInv
    OBVIOUS
  <2>1. \A r \in Requests : moves[r] = <<>> /\ events[r] = <<>> /\ status[r] = "none"
    BY DEF Init
  <2>2. \A r \in Requests : DOMAIN moves[r] = {} /\ DOMAIN events[r] = {}
    BY <2>1
  <2>3. \A h \in Handlers : pc[h] # "event"
    BY DEF Init
  <2>4. \A r \in Requests : WalkInv(r)
    BY <2>1, <2>2 DEF WalkInv
  <2>5. \A r \in Requests : RankInv(r) /\ RowsInv(r)
    BY <2>2 DEF RankInv, RowsInv, Real, Rows
  <2> QED
    BY <2>3, <2>4, <2>5 DEF TimelineInv, PendingInv
<1>2. IInv /\ TimelineInv /\ [Next]_vars => TimelineInv'
  <2> SUFFICES ASSUME IInv, TimelineInv, [Next]_vars PROVE TimelineInv'
    OBVIOUS
  <2>1. ASSUME NEW h \in Handlers, CreateRequest(h) \/ ImmediateRollback(h)
        PROVE  TimelineInv'
    BY <2>1, InsertTimeline DEF CreateRequest, ImmediateRollback
  <2>2. CASE UNCHANGED vars
    BY <2>2, TimelineKept DEF vars
  <2> QED
    BY <2>1, <2>2, UpdateTimeline, RecordEventTimeline, AbandonTimeline, OtherStepsTimeline
       DEF Next, Advance, IInv
<1> QED
  BY <1>1, <1>2, InductiveInvariant, PTL DEF Spec

\* For any number of handlers and however they interleave, each row walks along
\* the state machine, one edge at a time, to its current status.
THEOREM RowsWalkTheStateMachine == Spec => []WalkIsLegal
<1>1. TimelineInv => WalkIsLegal
  BY DEF TimelineInv, WalkInv, WalkIsLegal
<1> QED
  BY <1>1, TimelineInvariant, PTL

\* ... and its events are its moves, each once, but for those still to be
\* inserted and, when handlers were cut short, those that never will be.
THEOREM EventsAccountForMoves == Spec => []TimelineAccounted
<1>1. TimelineInv => TimelineAccounted
  <2> SUFFICES ASSUME TimelineInv, NEW r \in Requests
               PROVE  /\ Rows(r) \subseteq Real(r)
                      /\ \A i, j \in DOMAIN events[r] : events[r][i] = events[r][j] => i = j
                      /\ abandoned = 0 =>
                            Real(r) = Rows(r) \cup {Edge(call[h]) : h \in Pending(r)}
    BY DEF TimelineAccounted, Rows, Real
  <2>1. RowsInv(r)
    BY DEF TimelineInv
  <2>2. {Edge(call[h]) : h \in Pending(r)} \subseteq Real(r)
    BY DEF TimelineInv, PendingInv, Pending
  <2> QED
    BY <2>1, <2>2 DEF RowsInv
<1> QED
  BY <1>1, TimelineInvariant, PTL

================================================================================
