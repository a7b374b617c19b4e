----------------------------- MODULE PollerQueue -------------------------------
(***************************************************************************)
(* The queue of jobs for remote pollers (internal/poller/jobs.go), with    *)
(* the gRPC calls that reach it and the pollers that hold its jobs.  A     *)
(* claim is three statements (SELECT, UPDATE, SELECT) and the answer then  *)
(* travels to the poller, which may lose it, be slow, or report twice.     *)
(* Time is in whole seconds: the timestamps are RFC 3339 text, which is    *)
(* cut to the second.  One tenant: every statement carries tenant_id.      *)
(***************************************************************************)
EXTENDS Integers, Sequences, FiniteSets

CONSTANTS Pollers,           \* ids of the pollers table
          NoPoller,          \* a NULL poller_id
          Keys,              \* idempotency keys
          Supports,          \* Supports[p]: keys of the job types p asks for
          TTLs,              \* whole seconds of the lifetimes callers ask for
          NoTime,            \* a NULL timestamp, or no lifetime
          ReclaimScheduled,  \* whether anything calls ReclaimExpired
          MaxRows,           \* bound: rows ever inserted
          MaxClaims,         \* bound: claims of one row
          MaxTime            \* bound: length of a behaviour in seconds

ASSUME PollersAssumption == NoPoller \notin Pollers /\ Supports \in [Pollers -> SUBSET Keys]
ASSUME KeysAssumption == Keys # {}
ASSUME TimeAssumption == NoTime \notin Int /\ TTLs \subseteq Nat \cup {NoTime}
ASSUME ReclaimAssumption == ReclaimScheduled \in BOOLEAN
ASSUME BoundsAssumption == MaxRows \in Nat /\ MaxClaims \in Nat /\ MaxTime \in Nat

VARIABLES
    \* columns of poller_jobs, by row id, and the rows of pollers
    key, status, owner, created, claimedAt, expires, pollers,
    answer,    \* the row the last Enqueue returned, and the key it was given
    now,       \* the clock of the core
    \* the ClaimJob call of each poller: its next statement and its locals
    pc, cand, candTime, candExpiry, candClaim,
    held,      \* claims the pollers were told of, kept for ever
    \* history variables
    ttl,       \* the lifetime each row was enqueued with
    claims,    \* the successful claims of each row
    accepted   \* the claim whose report ended the row, 0 if none did

queue == <<key, status, owner, created, claimedAt, expires, pollers>>
handler == <<pc, cand, candTime, candExpiry, candClaim>>
vars == <<queue, answer, now, handler, held, ttl, claims, accepted>>

Rows == 1 .. MaxRows
Times == Nat \cup {NoTime}

\* "free" is a row not inserted yet, "deleted" one that went with its device;
\* "running" is in the schema and no code writes it.
Statuses == {"free", "queued", "claimed", "running", "done", "failed",
             "cancelled", "deleted"}
Ended == {"done", "failed", "cancelled"}
Claims == [poller : Pollers, won : Nat, until : Times]
Tickets == [poller : Pollers, row : Rows, claim : Nat, until : Times]

Existing(k) == {i \in Rows : key[i] = k /\ status[i] \notin {"free", "deleted"}}

Init ==
    /\ key \in [Rows -> {CHOOSE k \in Keys : TRUE}]
    /\ status = [i \in Rows |-> "free"]
    /\ owner = [i \in Rows |-> NoPoller]
    /\ created = [i \in Rows |-> 0]
    /\ claimedAt = [i \in Rows |-> NoTime]
    /\ expires = [i \in Rows |-> NoTime]
    /\ pollers = Pollers
    /\ answer = [key |-> CHOOSE k \in Keys : TRUE, row |-> 0]
    /\ now = 0
    /\ pc = [p \in Pollers |-> "idle"]
    /\ cand = [p \in Pollers |-> 0]
    /\ candTime = [p \in Pollers |-> 0]
    /\ candExpiry = [p \in Pollers |-> NoTime]
    /\ candClaim = [p \in Pollers |-> 0]
    /\ held = {}
    /\ ttl = [i \in Rows |-> NoTime]
    /\ claims = [i \in Rows |-> <<>>]
    /\ accepted = [i \in Rows |-> 0]

--------------------------------------------------------------------------------
(***************************************************************************)
(* Enqueue.                                                                *)
(***************************************************************************)

\* INSERT of a key the table does not hold.  The creation and the expiry are
\* each cut to the second, so they may lie a second more than t apart.
EnqueueNew ==
    \E k \in Keys, t \in TTLs, i \in Rows, carry \in {0, 1} :
        /\ Existing(k) = {}
        /\ status[i] = "free" /\ \A j \in Rows : j < i => status[j] # "free"
        /\ key' = [key EXCEPT ![i] = k]
        /\ status' = [status EXCEPT ![i] = "queued"]
        /\ created' = [created EXCEPT ![i] = now]
        /\ expires' = [expires EXCEPT ![i] = IF t = NoTime THEN NoTime ELSE now + t + carry]
        /\ ttl' = [ttl EXCEPT ![i] = t]
        /\ answer' = [key |-> k, row |-> i]
        /\ UNCHANGED <<owner, claimedAt, pollers, now, handler, held, claims, accepted>>

\* INSERT ... ON CONFLICT DO NOTHING of a key the table holds.  The id that
\* LastInsertId then gives is that of the last row inserted through the
\* connection, in whatever table, or 0 when there was none.  Get by an id the
\* table does not have is an error, shown as row 0.
EnqueueDuplicate ==
    \E k \in Keys, id \in 0 .. MaxRows :
        /\ Existing(k) # {}
        /\ answer' = [key |-> k,
                      row |-> IF id = 0 THEN CHOOSE i \in Existing(k) : TRUE
                              ELSE IF status[id] \in {"free", "deleted"} THEN 0 ELSE id]
        /\ UNCHANGED <<queue, now, handler, held, ttl, claims, accepted>>

--------------------------------------------------------------------------------
(***************************************************************************)
(* Claim, one statement per action.                                        *)
(***************************************************************************)

Candidates(p) == {i \in Rows : status[i] = "queued" /\ key[i] \in Supports[p]}

\* Mutated form: the expiry of the row is kept as it is.
NewExpiryKept(i) == expires[i]

\* computeNewExpiresAt at time now.
NewExpiry(i) ==
    IF expires[i] = NoTime THEN NoTime
    ELSE IF expires[i] - created[i] <= 0 THEN NoTime
    ELSE now + (expires[i] - created[i])

\* SELECT of the oldest matching job, and the time at which it was read.
SelectJob(p) ==
    \E i \in Candidates(p) :
        /\ pc[p] = "idle"
        /\ \A j \in Candidates(p) : created[i] <= created[j]
        /\ Len(claims[i]) < MaxClaims
        /\ NewExpiry(i) \in {NoTime} \cup 0 .. MaxTime - 1
        /\ pc' = [pc EXCEPT ![p] = "update"]
        /\ cand' = [cand EXCEPT ![p] = i]
        /\ candTime' = [candTime EXCEPT ![p] = now]
        /\ candExpiry' = [candExpiry EXCEPT ![p] = NewExpiry(i)]
        /\ candClaim' = [candClaim EXCEPT ![p] = 0]
        /\ UNCHANGED <<queue, answer, now, held, ttl, claims, accepted>>

\* Mutated form: the UPDATE does not ask whether the job is still queued.
ClaimableUnguarded(p, i) == p \in pollers /\ status[i] \in {"queued", "claimed"}

\* The WHERE clause of the UPDATE.
Claimable(p, i) == p \in pollers /\ status[i] = "queued"

WinClaim(p) ==
    LET i == cand[p]
    IN  /\ pc[p] = "update"
        /\ Claimable(p, i)
        /\ Len(claims[i]) < MaxClaims
        /\ status' = [status EXCEPT ![i] = "claimed"]
        /\ owner' = [owner EXCEPT ![i] = p]
        /\ claimedAt' = [claimedAt EXCEPT ![i] = candTime[p]]
        /\ expires' = [expires EXCEPT ![i] = candExpiry[p]]
        /\ claims' = [claims EXCEPT ![i] =
                         Append(@, [poller |-> p, won |-> now, until |-> candExpiry[p]])]
        /\ candClaim' = [candClaim EXCEPT ![p] = Len(claims[i]) + 1]
        /\ pc' = [pc EXCEPT ![p] = "get"]
        /\ UNCHANGED <<key, created, pollers, answer, now, cand, candTime, candExpiry,
                       held, ttl, accepted>>

\* No row matched: the poller is told that there is no job.
LoseClaim(p) ==
    /\ pc[p] = "update"
    /\ ~Claimable(p, cand[p])
    /\ pc' = [pc EXCEPT ![p] = "idle"]
    /\ UNCHANGED <<queue, answer, now, cand, candTime, candExpiry, candClaim,
                   held, ttl, claims, accepted>>

\* Get re-reads the row, whoever owns it by then, and its expiry is what the
\* poller is told.  The answer may be lost, or the row gone.
AnswerClaim(p) ==
    /\ pc[p] = "get"
    /\ pc' = [pc EXCEPT ![p] = "idle"]
    /\ \/ /\ status[cand[p]] # "deleted"
          /\ held' = held \cup {[poller |-> p, row |-> cand[p], claim |-> candClaim[p],
                                 until |-> expires[cand[p]]]}
       \/ UNCHANGED held
    /\ UNCHANGED <<queue, answer, now, cand, candTime, candExpiry, candClaim,
                   ttl, claims, accepted>>

--------------------------------------------------------------------------------
(***************************************************************************)
(* How a claim ends.                                                       *)
(***************************************************************************)

\* Mutated form: JobService.Complete, which does not look at the owner.
OwnedByAnyone(p, i) == status[i] \in {"claimed", "running"}

\* The WHERE clause of CompleteClaimedBy.
OwnedBy(p, i) == owner[i] = p /\ status[i] \in {"claimed", "running"}

ResultStatus(success) == IF success THEN "done" ELSE "failed"

\* ReportResult for a claim the poller was told of, on time or late, for the
\* first time or again.
ReportResult(p) ==
    \E c \in held, success \in BOOLEAN :
        /\ c.poller = p
        /\ OwnedBy(p, c.row)
        /\ status' = [status EXCEPT ![c.row] = ResultStatus(success)]
        /\ accepted' = [accepted EXCEPT ![c.row] = c.claim]
        /\ UNCHANGED <<key, owner, created, claimedAt, expires, pollers, answer, now,
                       handler, held, ttl, claims>>

Cancellable == {"queued", "claimed"}

Cancel ==
    \E i \in Rows :
        /\ status[i] \in Cancellable
        /\ status' = [status EXCEPT ![i] = "cancelled"]
        /\ UNCHANGED <<key, owner, created, claimedAt, expires, pollers, answer, now,
                       handler, held, ttl, claims, accepted>>

\* Mutated form: a claim whose last second has begun counts as expired.
ExpiredEarly(i) == status[i] = "claimed" /\ expires[i] # NoTime /\ expires[i] <= now

Expired(i) == status[i] = "claimed" /\ expires[i] # NoTime /\ expires[i] < now

\* One UPDATE for all rows; expires_at is left as it is.
ReclaimExpired ==
    /\ ReclaimScheduled
    /\ \E i \in Rows : Expired(i)
    /\ status' = [i \in Rows |-> IF Expired(i) THEN "queued" ELSE status[i]]
    /\ owner' = [i \in Rows |-> IF Expired(i) THEN NoPoller ELSE owner[i]]
    /\ claimedAt' = [i \in Rows |-> IF Expired(i) THEN NoTime ELSE claimedAt[i]]
    /\ UNCHANGED <<key, created, expires, pollers, answer, now, handler, held,
                   ttl, claims, accepted>>

--------------------------------------------------------------------------------
(***************************************************************************)
(* Deletions, and time.                                                    *)
(***************************************************************************)

\* DELETE of a poller; its jobs follow ON DELETE SET NULL.
DeletePoller(p) ==
    /\ p \in pollers
    /\ pollers' = pollers \ {p}
    /\ owner' = [i \in Rows |-> IF owner[i] = p THEN NoPoller ELSE owner[i]]
    /\ UNCHANGED <<key, status, created, claimedAt, expires, answer, now, handler, held,
                   ttl, claims, accepted>>

\* The device of a job is deleted; its jobs follow ON DELETE CASCADE.
DeleteDevice ==
    \E i \in Rows :
        /\ status[i] \notin {"free", "deleted"}
        /\ status' = [status EXCEPT ![i] = "deleted"]
        /\ owner' = [owner EXCEPT ![i] = NoPoller]
        /\ UNCHANGED <<key, created, claimedAt, expires, pollers, answer, now, handler,
                       held, ttl, claims, accepted>>

Tick ==
    /\ now < MaxTime
    /\ now' = now + 1
    /\ UNCHANGED <<queue, answer, handler, held, ttl, claims, accepted>>

Next ==
    \/ EnqueueNew \/ EnqueueDuplicate \/ Cancel \/ ReclaimExpired \/ DeleteDevice \/ Tick
    \/ \E p \in Pollers :
        \/ SelectJob(p) \/ WinClaim(p) \/ LoseClaim(p) \/ AnswerClaim(p)
        \/ ReportResult(p) \/ DeletePoller(p)

Spec == Init /\ [][Next]_vars

\* Time passes and the core runs a ClaimJob call it has begun to its end.  Nobody
\* is obliged to claim, report, cancel or delete, and nothing in the program
\* obliges anybody to call ReclaimExpired.
FairSpec ==
    /\ Spec
    /\ WF_vars(Tick)
    /\ \A p \in Pollers : WF_vars(WinClaim(p) \/ LoseClaim(p)) /\ WF_vars(AnswerClaim(p))

--------------------------------------------------------------------------------
(***************************************************************************)
(* Properties.                                                             *)
(***************************************************************************)

TypeOK ==
    /\ key \in [Rows -> Keys]
    /\ status \in [Rows -> Statuses]
    /\ owner \in [Rows -> Pollers \cup {NoPoller}]
    /\ created \in [Rows -> Nat]
    /\ claimedAt \in [Rows -> Times]
    /\ expires \in [Rows -> Times]
    /\ pollers \subseteq Pollers
    /\ answer \in [key : Keys, row : 0 .. MaxRows]
    /\ now \in Nat
    /\ pc \in [Pollers -> {"idle", "update", "get"}]
    /\ cand \in [Pollers -> 0 .. MaxRows]
    /\ \A p \in Pollers : pc[p] # "idle" => cand[p] \in Rows
    /\ candTime \in [Pollers -> Nat]
    /\ candExpiry \in [Pollers -> Times]
    /\ candClaim \in [Pollers -> Nat]
    /\ held \subseteq Tickets
    /\ ttl \in [Rows -> Times]
    /\ claims \in [Rows -> Seq(Claims)]
    /\ accepted \in [Rows -> Nat]

\* A job is claimed again only when the claim before it has run out: between two
\* claims of a row lies the deadline of the first, although the second may rest
\* on a SELECT done before the first was made.
ClaimsDoNotOverlap ==
    \A i \in Rows : \A n \in 1 .. Len(claims[i]) - 1 :
        /\ claims[i][n].until # NoTime
        /\ claims[i][n].until < claims[i][n + 1].won

\* A claim lasts at least the lifetime the job was enqueued with, counted from
\* its claimed_at, however long the job was queued and however often reclaimed.
\* A lifetime under a second becomes no deadline or one a second away, never one
\* that has passed when the claim is made.
FullDeadline ==
    \A i \in Rows : status[i] = "claimed" =>
        /\ expires[i] # NoTime => expires[i] > claimedAt[i]
        /\ ttl[i] # NoTime /\ ttl[i] > 0 =>
              expires[i] # NoTime /\ expires[i] - claimedAt[i] >= ttl[i]

\* The report that ends a job comes from the poller that claimed it last: one
\* whose claim was reclaimed and given to another can no longer end it.
ResultIsOfTheHolder ==
    \A i \in Rows :
        accepted[i] # 0 =>
            claims[i][accepted[i]].poller = claims[i][Len(claims[i])].poller

\* A job that has ended stays as it ended: no report, cancellation, reclaim or
\* claim resting on an old SELECT moves it again, and no second report replaces
\* the first.
EndedIsFinal ==
    [][\A i \in Rows : status[i] \in Ended =>
           /\ status'[i] \in {status[i], "deleted"}
           /\ accepted'[i] = accepted[i]]_vars

RowOf(k) == CHOOSE i \in Existing(k) : TRUE
StateOf(k) == IF Existing(k) = {} THEN "none" ELSE status[RowOf(k)]
HolderOf(k) == IF Existing(k) = {} THEN NoPoller ELSE owner[RowOf(k)]

Queue == INSTANCE PollerQueueSpec WITH
            state <- [k \in Keys |-> StateOf(k)],
            holder <- [k \in Keys |-> HolderOf(k)]

\* Told by key, the table behaves as the queue of PollerQueueSpec, whatever the
\* interleaving of the statements.
ImplementsQueue == Queue!Spec

--------------------------------------------------------------------------------
(***************************************************************************)
(* What comments of the repository say and the code does not do.           *)
(***************************************************************************)

\* "If a job with the same key already exists, the existing job is returned".
EnqueueReturnsItsKey ==
    answer.row # 0 /\ status[answer.row] # "deleted" => key[answer.row] = answer.key

\* "A job whose claimed_at is older than the deadline is reclaimed by the
\* scheduler": a claim with an expiry comes to an end although its poller never
\* answers.
ExpiringClaimEnds ==
    \A i \in Rows :
        (status[i] = "claimed" /\ expires[i] # NoTime) ~> status[i] # "claimed"

================================================================================
