---------------------------- MODULE SchedulerLease -----------------------------
(***************************************************************************)
(* The leader-elected job runner (internal/scheduler/scheduler.go): the    *)
(* replicas of the core share one row of scheduler_leases; each wakes up   *)
(* every second, tries to take or renew the lease and, if it has it, fires *)
(* the jobs that are due and waits for them.                               *)
(*                                                                         *)
(* Times are kept relative to the clock, and cut where nothing compares    *)
(* them any more, so that behaviours are unbounded and states finite.  The *)
(* unit is the second of the RFC 3339 timestamps, and the ticker's period. *)
(* The clocks of the replicas agree.                                       *)
(***************************************************************************)
EXTENDS Integers

CONSTANTS Replicas,
          Nobody,     \* no row in scheduler_leases
          Gone,       \* the holder id of a process that has ended
          Jobs,
          Interval,   \* Interval[j], in seconds
          MaxInterval,  \* no Interval[j] exceeds it
          TTL,        \* of the lease, in seconds
          MaxDelay,   \* bound: seconds a lease statement waits for the database
          MaxFaults   \* bound: crashes and database errors

ASSUME NamesAssumption == Nobody \notin Replicas /\ Gone \notin Replicas /\ Nobody # Gone
ASSUME IntervalAssumption ==
    MaxInterval \in Nat /\ Interval \in [Jobs -> 1 .. MaxInterval]
ASSUME TTLAssumption == TTL \in Nat \ {0} /\ MaxDelay \in 0 .. TTL
ASSUME FaultsAssumption == MaxFaults \in Nat

VARIABLES
    holder, left,   \* the lease row: holder, and expires_at minus the present
    pc,             \* where the loop of each replica is
    age,            \* time since the "now" of its last Acquire
    since,          \* last: time since the tick at which it last fired a job
    buffered, tickAge, tickGap, tickSince,  \* the ticker's channel, of capacity one
    curAge, curSince,       \* the tick being served
    running,        \* jobs in progress on each replica
    faults

lease == <<holder, left>>
ticker == <<buffered, tickAge, tickGap, tickSince>>
current == <<curAge, curSince>>
vars == <<lease, pc, age, since, ticker, current, running, faults>>

PCs == {"down", "waiting", "acquire", "fire", "running"}

\* "never" is the zero time of a job not fired since the process started.
Never == -1
Elapsed == Never .. MaxInterval

OldestExpiry == -(MaxDelay + 1)

\* A tick carries its own time.  What is kept of it is how long ago it was due
\* (tickAge), how long after the tick before it (tickGap) and after the last
\* firing of each job (tickSince).

Init ==
    /\ holder = Nobody /\ left = OldestExpiry
    /\ pc = [r \in Replicas |-> "waiting"]
    /\ age = [r \in Replicas |-> 0]
    /\ since = [r \in Replicas |-> [j \in Jobs |-> Never]]
    /\ buffered = [r \in Replicas |-> FALSE]
    /\ tickAge = [r \in Replicas |-> Never]
    /\ tickGap = tickAge
    /\ tickSince = since
    /\ curAge = tickAge
    /\ curSince = since
    /\ running = [r \in Replicas |-> {}]
    /\ faults = 0

--------------------------------------------------------------------------------
(***************************************************************************)
(* Time.                                                                   *)
(***************************************************************************)

Later(t, cap) == IF t = Never \/ t >= cap THEN t ELSE t + 1
LaterEach(f) == [r \in Replicas |-> [j \in Jobs |-> Later(f[r][j], Interval[j])]]

\* A second passes.  The ticker of a live replica sends unless its channel is
\* full: a late receiver gets the oldest tick it missed, and no other.
Tick ==
    /\ \A r \in Replicas : pc[r] = "acquire" => age[r] < MaxDelay
    /\ left' = IF left = OldestExpiry THEN left ELSE left - 1
    /\ age' = [r \in Replicas |-> Later(age[r], TTL + 1)]
    /\ since' = LaterEach(since)
    /\ buffered' = [r \in Replicas |-> pc[r] # "down"]
    /\ curAge' = [r \in Replicas |-> Later(curAge[r], MaxInterval)]
    /\ tickAge' = [r \in Replicas |-> IF buffered[r] THEN Later(tickAge[r], MaxInterval)
                                      ELSE IF pc[r] = "down" THEN Never ELSE 0]
    /\ tickGap' = [r \in Replicas |-> IF buffered[r] THEN tickGap[r] ELSE curAge'[r]]
    /\ tickSince' = [r \in Replicas |-> IF buffered[r] THEN tickSince[r] ELSE since'[r]]
    /\ UNCHANGED <<holder, pc, curSince, running, faults>>

--------------------------------------------------------------------------------
(***************************************************************************)
(* One iteration of Runner.Start.                                          *)
(***************************************************************************)

EmptyChannel(r) ==
    /\ buffered' = [buffered EXCEPT ![r] = FALSE]
    /\ tickAge' = [tickAge EXCEPT ![r] = Never]
    /\ tickGap' = [tickGap EXCEPT ![r] = Never]
    /\ tickSince' = [tickSince EXCEPT ![r] = [j \in Jobs |-> Never]]

\* The locals of an iteration.
Forget(r) ==
    /\ age' = [age EXCEPT ![r] = 0]
    /\ curAge' = [curAge EXCEPT ![r] = Never]
    /\ curSince' = [curSince EXCEPT ![r] = [j \in Jobs |-> Never]]

\* case now := <-tick.C; Acquire then reads the clock.
Receive(r) ==
    /\ pc[r] = "waiting"
    /\ buffered[r]
    /\ pc' = [pc EXCEPT ![r] = "acquire"]
    /\ age' = [age EXCEPT ![r] = 0]
    /\ curAge' = [curAge EXCEPT ![r] = tickAge[r]]
    /\ curSince' = [curSince EXCEPT ![r] = tickSince[r]]
    /\ EmptyChannel(r)
    /\ UNCHANGED <<lease, since, running, faults>>

\* Mutated form: a lease in its last second can be taken.
AvailableEarly(r) == holder \in {Nobody, r} \/ left + age[r] <= 0

\* Mutated form: nobody takes over an expired lease.
AvailableToHolder(r) == holder \in {Nobody, r}

\* The INSERT succeeds when there is no row; otherwise the UPDATE asks whether
\* the row is ours, or had expired when this call read the clock.
Available(r) == holder \in {Nobody, r} \/ left + age[r] < 0

TakeLease(r) ==
    /\ pc[r] = "acquire"
    /\ Available(r)
    /\ holder' = r
    /\ left' = IF TTL - age[r] > OldestExpiry THEN TTL - age[r] ELSE OldestExpiry
    /\ pc' = [pc EXCEPT ![r] = "fire"]
    /\ UNCHANGED <<age, since, ticker, current, running, faults>>

BackToWaiting(r) ==
    /\ pc' = [pc EXCEPT ![r] = "waiting"]
    /\ Forget(r)

\* Held by another: the jobs are skipped.
MissLease(r) ==
    /\ pc[r] = "acquire"
    /\ ~Available(r)
    /\ BackToWaiting(r)
    /\ UNCHANGED <<lease, since, ticker, running, faults>>

\* Acquire returns an error.
AcquireFails(r) ==
    /\ pc[r] = "acquire"
    /\ faults < MaxFaults
    /\ BackToWaiting(r)
    /\ faults' = faults + 1
    /\ UNCHANGED <<lease, since, ticker, running>>

\* Judged by the time of the tick, not by the time at which it is served.
Due(r) == {j \in Jobs : curSince[r][j] \in {Never, Interval[j]}}

Capped(t, j) == IF t < Interval[j] THEN t ELSE Interval[j]

\* The due jobs start, each in a goroutine of its own; then wg.Wait.
Fire(r) ==
    /\ pc[r] = "fire"
    /\ since' = [since EXCEPT ![r] =
                    [j \in Jobs |-> IF j \in Due(r) THEN Capped(curAge[r], j) ELSE since[r][j]]]
    \* a tick already in the channel comes that much after this one
    /\ tickSince' = [tickSince EXCEPT ![r] =
                        [j \in Jobs |-> IF j \in Due(r) /\ buffered[r] THEN Capped(tickGap[r], j)
                                        ELSE tickSince[r][j]]]
    /\ running' = [running EXCEPT ![r] = Due(r)]
    /\ pc' = [pc EXCEPT ![r] = "running"]
    /\ UNCHANGED <<lease, age, buffered, tickAge, tickGap, current, faults>>

FinishJob(r, j) ==
    /\ j \in running[r]
    /\ running' = [running EXCEPT ![r] = @ \ {j}]
    /\ UNCHANGED <<lease, pc, age, since, ticker, current, faults>>

\* wg.Wait.
JobsReturned(r) == running[r] = {}

JobsDone(r) ==
    /\ pc[r] = "running"
    /\ JobsReturned(r)
    /\ BackToWaiting(r)
    /\ UNCHANGED <<lease, since, ticker, running, faults>>

--------------------------------------------------------------------------------

\* The process ends, by a crash or by a signal: nothing releases the lease, and
\* the next process has a holder id of its own.
Crash(r) ==
    /\ pc[r] # "down"
    /\ faults < MaxFaults
    /\ faults' = faults + 1
    /\ pc' = [pc EXCEPT ![r] = "down"]
    /\ holder' = IF holder = r THEN Gone ELSE holder
    /\ since' = [since EXCEPT ![r] = [j \in Jobs |-> Never]]
    /\ EmptyChannel(r)
    /\ Forget(r)
    /\ running' = [running EXCEPT ![r] = {}]
    /\ UNCHANGED left

Restart(r) ==
    /\ pc[r] = "down"
    /\ pc' = [pc EXCEPT ![r] = "waiting"]
    /\ UNCHANGED <<lease, age, since, ticker, current, running, faults>>

Step(r) ==
    \/ Receive(r) \/ TakeLease(r) \/ MissLease(r) \/ Fire(r) \/ JobsDone(r)
    \/ \E j \in Jobs : FinishJob(r, j)

Next ==
    \/ Tick
    \/ \E r \in Replicas : Step(r) \/ AcquireFails(r) \/ Crash(r) \/ Restart(r)

Spec == Init /\ [][Next]_vars

\* Time passes and a live replica's loop goes on.  A crashed replica need not come
\* back, and a job need not return: a backup over a device that says nothing may
\* hang in wg.Wait for ever (README, section 5).
FairSpec ==
    /\ Spec
    /\ WF_vars(Tick)
    /\ \A r \in Replicas :
          WF_vars(Receive(r) \/ TakeLease(r) \/ MissLease(r) \/ Fire(r) \/ JobsDone(r))

--------------------------------------------------------------------------------
(***************************************************************************)
(* Properties.                                                             *)
(***************************************************************************)

TypeOK ==
    /\ holder \in Replicas \cup {Nobody, Gone}
    /\ left \in OldestExpiry .. TTL
    /\ pc \in [Replicas -> PCs]
    /\ age \in [Replicas -> 0 .. TTL + 1]
    /\ buffered \in [Replicas -> BOOLEAN]
    /\ running \in [Replicas -> SUBSET Jobs]
    /\ \A r \in Replicas : running[r] # {} => pc[r] = "running"
    /\ {since, tickSince, curSince} \subseteq [Replicas -> [Jobs -> Elapsed]]
    /\ {tickAge, tickGap, curAge} \subseteq [Replicas -> Elapsed]
    /\ faults \in 0 .. MaxFaults

\* A replica between its Acquire and the end of the jobs it fired, still within
\* the lease it acquired.
Leading(r) == pc[r] \in {"fire", "running"} /\ age[r] <= TTL

\* Two replicas can work at the same time only when one of them has outlived its
\* lease: whatever crashes, restarts and slow statements there were, at most one
\* is between acquiring the lease and its expiry.
OverlapOnlyByOverrun ==
    \A r, s \in Replicas : Leading(r) /\ Leading(s) => r = s

\* A replica that stays up and in which no job hangs.
Healthy(r) == <>[](pc[r] # "down") /\ []<>JobsReturned(r)

\* After a replica has crashed, or been caught in a job that does not return, with
\* the lease in its hands or not, all the jobs go on being fired, as long as one
\* replica stays healthy.
JobsKeepFiring ==
    (\E r \in Replicas : Healthy(r)) =>
        \A j \in Jobs : []<>(\E r \in Replicas : j \in running[r])

================================================================================
