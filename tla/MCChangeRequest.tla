---------------------------- MODULE MCChangeRequest ----------------------------
(* Small instances for TLC of the change requests and of the push runs that carry them
   out: a behaviour is of one of the two, and leaves the other as it was. *)
EXTENDS ChangeRequest, PushRun

CONSTANTS adm, op, h1, h2, r1, run

MCUsers == {adm, op}
MCAdmins == {adm}
MCRequests == {r1}
TwoHandlers == {h1, h2}
OneRun == {run}

VARIABLE part

MCInit ==
    /\ Init /\ PushInit
    /\ part \in {"requests", "push"}
    /\ part = "requests" => members = {} /\ \A r \in Runs : ~ safe[r]

\* A push run may be over; a change request always has something to do.
PushOver == (\A r \in Runs : stage[r] = "ended") /\ UNCHANGED pushVars

MCNext ==
    /\ \/ part = "requests" /\ Next /\ UNCHANGED pushVars
       \/ part = "push" /\ (PushNext \/ PushOver) /\ UNCHANGED vars
    /\ UNCHANGED part

\* The part that does not run has not begun anything it would have to go on with.
MCSpec == MCInit /\ [][MCNext]_<<vars, pushVars, part>> /\ Fairness /\ PushFairness
================================================================================
