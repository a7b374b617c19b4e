--------------------------- MODULE ChangeRequestSpec ---------------------------
(***************************************************************************)
(* What the approval workflow of internal/changereq promises the people    *)
(* who use it, with every request as an atomic object: a change is drafted,*)
(* submitted, decided once by an administrator, and only a change that was *)
(* approved ever reaches a device.  The handlers, the database statements  *)
(* they issue and the orders in which these interleave are in module       *)
(* ChangeRequest, which implements this one.                               *)
(***************************************************************************)

CONSTANTS Users,     \* accounts that may write
          Admins,    \* accounts with the admin role
          Requests,  \* change requests
          NoUser     \* a reviewer_id that is still NULL

VARIABLES status,    \* lifecycle state of each request
          reviewer,  \* who decided it
          ran        \* requests for which the executor was ever invoked

vars == <<status, reviewer, ran>>

Lifecycle == {"none", "draft", "submitted", "approved", "rejected",
              "applied", "failed", "cancelled"}

TypeOK ==
    /\ status \in [Requests -> Lifecycle]
    /\ reviewer \in [Requests -> Users \cup {NoUser}]
    /\ ran \subseteq Requests

Init ==
    /\ status = [r \in Requests |-> "none"]
    /\ reviewer = [r \in Requests |-> NoUser]
    /\ ran = {}

Move(r, from, to) ==
    /\ status[r] \in from
    /\ status' = [status EXCEPT ![r] = to]

Create(r) == Move(r, {"none"}, "draft") /\ UNCHANGED <<reviewer, ran>>

Submit(r) == Move(r, {"draft"}, "submitted") /\ UNCHANGED <<reviewer, ran>>

\* The one decision a request ever gets.
Decide(r, u) ==
    /\ \E verdict \in {"approved", "rejected"} : Move(r, {"submitted"}, verdict)
    /\ reviewer' = [reviewer EXCEPT ![r] = u]
    /\ UNCHANGED ran

Withdraw(r) ==
    /\ Move(r, {"draft", "submitted", "approved"}, "cancelled")
    /\ UNCHANGED <<reviewer, ran>>

\* The executor may start late, after another call has concluded or
\* cancelled the request, but never without a favourable decision.
Execute(r) ==
    /\ reviewer[r] # NoUser
    /\ status[r] \in {"approved", "applied", "failed", "cancelled"}
    /\ ran' = ran \cup {r}
    /\ UNCHANGED <<status, reviewer>>

\* "applied" is only ever written for a request whose executor ran.
Conclude(r) ==
    /\ \/ r \in ran /\ Move(r, {"approved"}, "applied")
       \/ Move(r, {"approved"}, "failed")
    /\ UNCHANGED <<reviewer, ran>>

Next ==
    \E r \in Requests :
        \/ Create(r)
        \/ Submit(r)
        \/ \E u \in Admins : Decide(r, u)
        \/ Withdraw(r)
        \/ Execute(r)
        \/ Conclude(r)

Spec == Init /\ [][Next]_vars
================================================================================
