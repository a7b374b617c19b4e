----------------------------- MODULE ChangeRequest -----------------------------
(***************************************************************************)
(* The change-request workflow as the code runs it: HTTP handlers          *)
(* (internal/api/handlers_features.go) that call the state machine of      *)
(* internal/changereq.  SQLite is opened with one connection, so a single  *)
(* statement is atomic, and nothing wider is: a handler is a sequence of   *)
(* statements (read the row, conditional UPDATE, INSERT of the event, ...) *)
(* and handlers interleave between them.  A handler whose client goes away *)
(* has its context cancelled: every later statement of it fails.           *)
(***************************************************************************)
EXTENDS Naturals, Sequences, FiniteSets

CONSTANTS Users,           \* accounts that pass requireWrite
          Admins,          \* those with the admin role
          Requests,        \* rows of change_requests, used or not
          Handlers,        \* HTTP requests in flight at once
          NoUser,          \* a NULL user id
          NoRequest,       \* the request of an idle handler
          MaxAbandoned     \* bound: handlers whose client disconnects

ASSUME UsersAssumption == Admins \subseteq Users /\ NoUser \notin Users
ASSUME RequestsAssumption == NoRequest \notin Requests
ASSUME BoundsAssumption == MaxAbandoned \in Nat

VARIABLES
    \* columns of change_requests
    status, kind, requester, reviewer, result,
    events,      \* rows of change_request_events, in id order
    pc, call,    \* what each handler does next, and its local variables
    \* history variables
    moves,       \* the transitions each row really made, in order
    runs,        \* executor invocations on behalf of each request
    abandoned    \* handlers cut short so far

vars == <<status, kind, requester, reviewer, result, events, pc, call,
          moves, runs, abandoned>>

Statuses == {"none", "draft", "submitted", "approved", "rejected",
             "applied", "failed", "cancelled"}

\* A push that carries a snapshot of variable overrides is told apart: the
\* executor refuses it.
Kinds == {"push", "push_overrides", "rollback"}

\* What an invocation reports: "partial" is a push with failed devices, for
\* which Automation.Run still returns a nil error; "silent" an empty output.
Outcomes == {"ok", "partial", "silent", "error"}

Ops == {"create", "submit", "review", "cancel", "apply", "immediate"}
PCs == {"idle", "read", "update", "event", "executor", "running", "result"}
NoCall == [op |-> "none", actor |-> NoUser, req |-> NoRequest,
           to |-> "none", seen |-> "none", out |-> "none"]
Calls == [op : Ops, actor : Users, req : Requests,
          to : Statuses, seen : Statuses, out : Outcomes \cup {"none"}]
Transitions == [from : Statuses, to : Statuses, actor : Users \cup {NoUser}]

\* Mutated form: a draft may be approved without being submitted.
AllowedTransitionsSkippingReview(s) ==
    CASE s = "draft"     -> {"submitted", "approved", "cancelled"}
      [] s = "submitted" -> {"approved", "rejected", "cancelled"}
      [] s = "approved"  -> {"applied", "failed", "cancelled"}
      [] OTHER           -> {}

AllowedTransitions(s) ==
    CASE s = "draft"     -> {"submitted", "cancelled"}
      [] s = "submitted" -> {"approved", "rejected", "cancelled"}
      [] s = "approved"  -> {"applied", "failed", "cancelled"}
      [] OTHER           -> {}

CanTransition(from, to) == to \in AllowedTransitions(from)
Terminal == {"rejected", "applied", "failed", "cancelled"}

Init ==
    /\ status = [r \in Requests |-> "none"]
    /\ kind = [r \in Requests |-> "none"]
    /\ requester = [r \in Requests |-> NoUser]
    /\ reviewer = [r \in Requests |-> NoUser]
    /\ result = [r \in Requests |-> "none"]
    /\ events = [r \in Requests |-> <<>>]
    /\ pc = [h \in Handlers |-> "idle"]
    /\ call = [h \in Handlers |-> NoCall]
    /\ moves = [r \in Requests |-> <<>>]
    /\ runs = [r \in Requests |-> 0]
    /\ abandoned = 0

--------------------------------------------------------------------------------
(***************************************************************************)
(* How a handler starts.  An early return that changes nothing (a missing  *)
(* row, a refused role, a request that may not make the transition) is the *)
(* absence of the step.                                                    *)
(***************************************************************************)

Start(h, op, u, r, at, to) ==
    /\ pc[h] = "idle"
    /\ pc' = [pc EXCEPT ![h] = at]
    /\ call' = [call EXCEPT ![h] = [op |-> op, actor |-> u, req |-> r, to |-> to,
                                    seen |-> status[r], out |-> "none"]]

NoRowChange == UNCHANGED <<status, kind, requester, reviewer, result, events,
                           moves, runs, abandoned>>

\* Service.Create: the INSERT of the row; its event is a statement of its own.
Insert(h, op, u, r, k) ==
    /\ status[r] = "none"
    /\ Start(h, op, u, r, "event", "draft")
    /\ status' = [status EXCEPT ![r] = "draft"]
    /\ kind' = [kind EXCEPT ![r] = k]
    /\ requester' = [requester EXCEPT ![r] = u]
    /\ moves' = [moves EXCEPT ![r] =
                    Append(@, [from |-> "none", to |-> "draft", actor |-> u])]
    /\ UNCHANGED <<reviewer, result, events, runs, abandoned>>

\* POST /change-requests (pushes) and POST /devices/{id}/rollback.
CreateRequest(h) ==
    \E u \in Users, r \in Requests, k \in Kinds : Insert(h, "create", u, r, k)

\* The same rollback endpoint with immediate=true, for administrators.
ImmediateRollback(h) ==
    \E u \in Admins, r \in Requests : Insert(h, "immediate", u, r, "rollback")

\* The Get that precedes a transition, done by a handler that has just started.
Read(h, op, u, r, to) ==
    /\ CanTransition(status[r], to)
    /\ Start(h, op, u, r, "update", to)
    /\ NoRowChange

Submit(h) == \E u \in Users, r \in Requests : Read(h, "submit", u, r, "submitted")

\* Approve refuses a reviewer who is the requester unless allowSelf; both
\* routes are requireAdmin, and allowSelf is the admin role.
AllowSelf(u) == u \in Admins

Approve(h) ==
    \E u \in Admins, r \in Requests :
        /\ AllowSelf(u) \/ requester[r] # u
        /\ Read(h, "review", u, r, "approved")

Reject(h) == \E u \in Admins, r \in Requests : Read(h, "review", u, r, "rejected")

\* handleCancelChangeRequest reads the row to see who may cancel; Service.Cancel
\* reads it again.
Cancel(h) ==
    \E u \in Users, r \in Requests :
        /\ status[r] # "none"
        /\ requester[r] = u \/ u \in Admins
        /\ Start(h, "cancel", u, r, "read", "cancelled")
        /\ NoRowChange

\* Mutated form: CanApply accepts a request still in the review queue.
CanApplyUndecided(r) == status[r] \in {"submitted", "approved"}

CanApply(r) == status[r] = "approved"

\* handleApplyChangeRequest: CanApply is decided on this read and on no other,
\* and nothing marks the request as being applied.
Apply(h) ==
    \E u \in Users, r \in Requests :
        /\ CanApply(r)
        /\ Start(h, "apply", u, r, "executor", "applied")
        /\ NoRowChange

--------------------------------------------------------------------------------
(***************************************************************************)
(* Service.transition, one database statement per action.                  *)
(***************************************************************************)

Finish(h) ==
    /\ pc' = [pc EXCEPT ![h] = "idle"]
    /\ call' = [call EXCEPT ![h] = NoCall]

Goto(h, at) == pc' = [pc EXCEPT ![h] = at]

\* SELECT of the row, for handlers already under way.
Get(h) ==
    /\ pc[h] = "read"
    /\ LET now == status[call[h].req]
       IN  \/ /\ CanTransition(now, call[h].to)
              /\ Goto(h, "update")
              /\ call' = [call EXCEPT ![h].seen = now]
           \/ /\ ~CanTransition(now, call[h].to)   \* ErrTerminal, ErrInvalidTransition
              /\ Finish(h)
    /\ NoRowChange

\* MarkApplied and MarkFailed act for the system: actor 0 is stored as NULL.
ActorOf(c) == IF c.to \in {"applied", "failed"} THEN NoUser ELSE c.actor

\* Mutated form: the UPDATE is not conditional on the status that was read.
Unconditional(c) == TRUE

\* UPDATE ... WHERE status = <the status that was read>.
ConditionHolds(c) == status[c.req] = c.seen

Edge(c) == [from |-> c.seen, to |-> c.to, actor |-> ActorOf(c)]

Update(h) ==
    LET c == call[h]
        r == c.req
    IN  /\ pc[h] = "update"
        /\ ConditionHolds(c)
        /\ status' = [status EXCEPT ![r] = c.to]
        /\ reviewer' = IF c.to \in {"approved", "rejected"}
                       THEN [reviewer EXCEPT ![r] = c.actor] ELSE reviewer
        /\ moves' = [moves EXCEPT ![r] = Append(@, Edge(c))]
        /\ Goto(h, "event")
        /\ UNCHANGED <<kind, requester, result, events, call, runs, abandoned>>

\* Mutated form: the error of a lost race is ignored and the result stored.
LoseRaceSilently(h) ==
    /\ pc[h] = "update"
    /\ ~ConditionHolds(call[h])
    /\ IF call[h].to \in {"applied", "failed"} THEN Goto(h, "result") /\ UNCHANGED call
       ELSE Finish(h)
    /\ NoRowChange

\* No row matched: ErrInvalidTransition, the handler gives up.
LoseRace(h) ==
    /\ pc[h] = "update"
    /\ ~ConditionHolds(call[h])
    /\ Finish(h)
    /\ NoRowChange

\* What follows the INSERT of the event.  An immediate rollback submits,
\* approves and executes in one HTTP request, without looking at CanApply.
Continue(h) ==
    LET c == call[h]
    IN  \/ /\ c.to \in {"applied", "failed"}
           /\ Goto(h, "result")
           /\ UNCHANGED call
        \/ /\ c.op = "immediate" /\ c.to \in {"draft", "submitted"}
           /\ Goto(h, "read")
           /\ call' = [call EXCEPT ![h].to = IF c.to = "draft" THEN "submitted" ELSE "approved"]
        \/ /\ c.op = "immediate" /\ c.to = "approved"
           /\ Goto(h, "executor")
           /\ UNCHANGED call
        \/ /\ c.to \notin {"applied", "failed"}
           /\ c.op # "immediate"
           /\ Finish(h)

\* Mutated form: from_status is taken from the row as it is now.
EventRowReadLate(c) == [from |-> status[c.req], to |-> c.to, actor |-> ActorOf(c)]

\* The arguments transitionFrom passes to recordEvent.
EventRow(c) == [from |-> c.seen, to |-> c.to, actor |-> ActorOf(c)]

RecordEvent(h) ==
    LET c == call[h]
    IN  /\ pc[h] = "event"
        /\ events' = [events EXCEPT ![c.req] = Append(@, EventRow(c))]
        /\ Continue(h)
        /\ UNCHANGED <<status, kind, requester, reviewer, result,
                       moves, runs, abandoned>>

--------------------------------------------------------------------------------
(***************************************************************************)
(* applyChangeRequest and the recording of what it returned.               *)
(***************************************************************************)

Concluding(h, to, out) ==
    /\ Goto(h, "read")
    /\ call' = [call EXCEPT ![h].to = to, ![h].out = out]

\* Mutated form: an executor error is returned without MarkFailed.
ConcludeFailureUnrecorded(h) == Finish(h)

ConcludeFailure(h) == Concluding(h, "failed", "error")

\* An error before any device is contacted: variable overrides always, and
\* otherwise a missing job, device or executor.
RefuseToExecute(h) ==
    /\ pc[h] = "executor"
    /\ ConcludeFailure(h)
    /\ NoRowChange

StartExecutor(h) ==
    /\ pc[h] = "executor"
    /\ kind[call[h].req] # "push_overrides"
    /\ Goto(h, "running")
    /\ runs' = [runs EXCEPT ![call[h].req] = @ + 1]
    /\ UNCHANGED <<status, kind, requester, reviewer, result, events, call,
                   moves, abandoned>>

\* Only a rollback's executor returns an error for what happened on the device.
FinishExecutor(h) ==
    /\ pc[h] = "running"
    /\ LET k == kind[call[h].req]
       IN  \/ \E out \in {"ok", "silent"} : Concluding(h, "applied", out)
           \/ k = "push" /\ Concluding(h, "applied", "partial")
           \/ k = "rollback" /\ ConcludeFailure(h)
    /\ NoRowChange

StoredResult(c) == c.out

\* UPDATE change_requests SET result, keyed by id alone; skipped when empty.
SaveResult(h) ==
    /\ pc[h] = "result"
    /\ result' = IF call[h].out = "silent" THEN result
                 ELSE [result EXCEPT ![call[h].req] = StoredResult(call[h])]
    /\ Finish(h)
    /\ UNCHANGED <<status, kind, requester, reviewer, events,
                   moves, runs, abandoned>>

--------------------------------------------------------------------------------

\* The client disconnects (or the process dies) between two statements.
Abandon(h) ==
    /\ pc[h] # "idle"
    /\ abandoned < MaxAbandoned
    /\ Finish(h)
    /\ abandoned' = abandoned + 1
    /\ UNCHANGED <<status, kind, requester, reviewer, result, events,
                   moves, runs>>

Advance(h) ==
    \/ Get(h) \/ Update(h) \/ LoseRace(h) \/ RecordEvent(h)
    \/ RefuseToExecute(h) \/ StartExecutor(h) \/ FinishExecutor(h) \/ SaveResult(h)

Next ==
    \E h \in Handlers :
        \/ CreateRequest(h) \/ ImmediateRollback(h) \/ Submit(h) \/ Approve(h)
        \/ Reject(h) \/ Cancel(h) \/ Apply(h) \/ Advance(h) \/ Abandon(h)

Spec == Init /\ [][Next]_vars

\* A handler that is not cut short goes on: goroutines are scheduled fairly and every
\* database call returns.  The executor need not (README, section 5), and nobody is
\* obliged to send a request.
Fairness == \A h \in Handlers : WF_vars(pc[h] # "running" /\ Advance(h))

FairSpec == Spec /\ Fairness

--------------------------------------------------------------------------------
(***************************************************************************)
(* Properties.                                                             *)
(***************************************************************************)

TypeOK ==
    /\ status \in [Requests -> Statuses]
    /\ kind \in [Requests -> Kinds \cup {"none"}]
    /\ requester \in [Requests -> Users \cup {NoUser}]
    /\ reviewer \in [Requests -> Users \cup {NoUser}]
    /\ result \in [Requests -> Outcomes \cup {"none"}]
    /\ events \in [Requests -> Seq(Transitions)]
    /\ pc \in [Handlers -> PCs]
    /\ call \in [Handlers -> Calls \cup {NoCall}]
    /\ \A h \in Handlers : pc[h] # "idle" => call[h] \in Calls
    /\ moves \in [Requests -> Seq(Transitions)]
    /\ runs \in [Requests -> Nat]
    /\ abandoned \in Nat

\* The executor is never invoked for a request no administrator approved, on
\* whatever stale read the invocation rests: afterwards the request carries a
\* reviewer with the admin role and is nowhere a rejected or undecided request
\* can be.
ExecutorOnlyAfterApproval ==
    \A r \in Requests :
        runs[r] > 0 => /\ reviewer[r] \in Admins
                       /\ status[r] \in {"approved", "applied", "failed", "cancelled"}

\* The stored result is the one of the handler whose transition won: an
\* "applied" row never carries a failure nor a "failed" row a success, although
\* the result is written by a separate UPDATE that does not look at the status.
ResultMatchesStatus ==
    \A r \in Requests :
        result[r] # "none" =>
            /\ status[r] \in {"applied", "failed"}
            /\ result[r] = "error" <=> status[r] = "failed"

\* The transitions a row makes are one unbroken walk of the state machine, from
\* its creation to its current status, whatever the handlers had read.
WalkIsLegal ==
    \A r \in Requests :
        LET m == moves[r]
        IN  /\ \A i \in DOMAIN m :
                  /\ i = 1 => m[i].from = "none" /\ m[i].to = "draft"
                  /\ i > 1 => /\ m[i].from = m[i - 1].to
                              /\ CanTransition(m[i].from, m[i].to)
            /\ status[r] = IF m = <<>> THEN "none" ELSE m[Len(m)].to

Pending(r) == {h \in Handlers : pc[h] = "event" /\ call[h].req = r}

\* The event table neither invents nor repeats a transition, and while no
\* handler has been cut short it lacks only those whose INSERT is still to come.
TimelineAccounted ==
    \A r \in Requests :
        LET rows == {events[r][i] : i \in DOMAIN events[r]}
            real == {moves[r][i] : i \in DOMAIN moves[r]}
        IN  /\ rows \subseteq real
            /\ \A i, j \in DOMAIN events[r] : events[r][i] = events[r][j] => i = j
            /\ abandoned = 0 =>
                  real = rows \cup {Edge(call[h]) : h \in Pending(r)}

Workflow == INSTANCE ChangeRequestSpec WITH ran <- {r \in Requests : runs[r] > 0}

\* The handlers, whatever their interleaving, implement the atomic workflow of
\* ChangeRequestSpec: each of their steps is one of its steps or changes nothing
\* it shows.
ImplementsWorkflow == Workflow!Spec

\* Every executor that is invoked comes back.
ExecutorsReturn == \A h \in Handlers : []<>(pc[h] # "running")

\* A run whose handler is not cut short ends up recorded: once an executor that comes
\* back has been invoked, the request eventually leaves "approved" for good.
FinishedRunIsRecorded ==
    ExecutorsReturn =>
        \A r \in Requests : runs[r] > 0 ~> status[r] \in Terminal \/ abandoned > 0

================================================================================
