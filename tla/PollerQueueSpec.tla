---------------------------- MODULE PollerQueueSpec ----------------------------
(***************************************************************************)
(* What the poller job queue promises its callers, told by idempotency key *)
(* and without rows, clocks or handlers: a key is enqueued once, is held   *)
(* by one poller at a time, ends once, and is ended only by its holder.    *)
(***************************************************************************)
CONSTANTS Keys, Pollers, NoPoller

VARIABLES state, holder

Ended == {"done", "failed", "cancelled"}

Init == state = [k \in Keys |-> "none"] /\ holder = [k \in Keys |-> NoPoller]

Become(k, s, p) ==
    /\ state' = [state EXCEPT ![k] = s]
    /\ holder' = [holder EXCEPT ![k] = p]

Add(k) == state[k] = "none" /\ Become(k, "queued", NoPoller)

Take(k, p) == state[k] = "queued" /\ Become(k, "claimed", p)

Finish(k, p) ==
    /\ state[k] = "claimed"
    /\ holder[k] = p
    /\ \E s \in {"done", "failed"} : Become(k, s, p)

Drop(k) == state[k] \in {"queued", "claimed"} /\ Become(k, "cancelled", holder[k])

\* The device of a job is deleted, and the job with it.
Remove(k) == state[k] # "none" /\ Become(k, "none", NoPoller)

\* Claims whose time is over go back to the queue, several at once.
GiveBack(ks) ==
    /\ \A k \in ks : state[k] = "claimed"
    /\ state' = [k \in Keys |-> IF k \in ks THEN "queued" ELSE state[k]]
    /\ holder' = [k \in Keys |-> IF k \in ks THEN NoPoller ELSE holder[k]]

\* A poller is deleted: its jobs keep their state and lose their holder.
Forget(p) ==
    /\ holder' = [k \in Keys |-> IF holder[k] = p THEN NoPoller ELSE holder[k]]
    /\ UNCHANGED state

Next ==
    \/ \E k \in Keys : Add(k) \/ Drop(k) \/ Remove(k)
    \/ \E k \in Keys, p \in Pollers : Take(k, p) \/ Finish(k, p)
    \/ \E ks \in SUBSET Keys : GiveBack(ks)
    \/ \E p \in Pollers : Forget(p)

Spec == Init /\ [][Next]_<<state, holder>>
================================================================================
