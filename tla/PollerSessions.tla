---------------------------- MODULE PollerSessions ----------------------------
(***************************************************************************)
(* The gRPC listener that remote pollers call (internal/server/grpc.go),   *)
(* over the registry of pollers (internal/poller/poller.go, wire.go): a    *)
(* poller is registered over HTTP, proves its token in Authenticate, and   *)
(* is then let through by a session that lives in the memory of the core.  *)
(* A call is a sequence of statements and locked sections; a call may be   *)
(* delivered late or again, its context may end at any statement, and the  *)
(* core may stop, or die, and start again.                                 *)
(*                                                                         *)
(* The unit of time is the period of the nonce sweep.  The token of a      *)
(* poller is 24 random bytes: the model writes it as the poller's id,      *)
(* which is never used again.  A nonce is fresh in every message.          *)
(***************************************************************************)
EXTENDS Integers, Sequences, FiniteSets

CONSTANTS Tenants, Names,
          Calls,           \* calls served at once, each used again and again
          Jobs, JobTenant, \* rows of poller_jobs, queued at first, and their tenants
          Lease,           \* WireService.LeaseTTL
          Window,          \* largest skew of a stamp, and life of a nonce
          Sweep,           \* least time between two sweeps of the nonces
          Skew,            \* bound: how far a poller's clock is off
          Lag,             \* bound: from reading the clock to taking the lock
          MaxPollers, MaxMessages, MaxStarts,  \* bounds: how many are ever made
          MaxTime          \* bound: the clock stops

ASSUME TimesAssumption == {Lease, Window, Sweep, Skew, Lag, MaxTime} \subseteq Nat
ASSUME JobsAssumption == Jobs # {} /\ JobTenant \in [Jobs -> Tenants]
ASSUME ListenerBounds == MaxPollers \in Nat /\ MaxMessages \in Nat /\ MaxStarts \in Nat \ {0}

VARIABLES
    pollers,                 \* the rows of pollers, by id, in the order of registration
    status, owner,           \* poller_jobs.status and poller_id, 0 for NULL
    sent,                    \* Authenticate messages the network may deliver, by nonce
    sessions,                \* pollerRPCServer.sessions, by poller id
    nonces, nonceGC,         \* expiry of each cached nonce, and time of the next sweep
    phase, starts,           \* of the process, and how often it started
    now,
    pc, local,               \* of each call: next step, and variables
    \* history variables, of this start of the process
    proved,                  \* when each poller last proved its token
    passed                   \* how often each message passed the replay check, stamped before

tables == <<pollers, status, owner>>
memory == <<sessions, nonces, nonceGC>>
process == <<phase, starts>>
calls == <<pc, local>>
history == <<proved, passed>>
listenerVars == <<tables, sent, memory, process, now, calls, history>>

Ids == 1 .. MaxPollers
Known == 1 .. Len(pollers)
NoTime == -1
Times == {NoTime} \cup 0 .. MaxTime + Lease + Window + Sweep
NoSession == [tenant |-> CHOOSE t \in Tenants : TRUE, token |-> 0, expires |-> NoTime]
Blank == [tenant |-> CHOOSE t \in Tenants : TRUE, poller |-> 0, token |-> 0,
          nonce |-> 0, time |-> NoTime, job |-> CHOOSE j \in Jobs : TRUE]

Row == [tenant : Tenants, name : Names, live : BOOLEAN]
Message == [tenant : Tenants, name : Names, token : Ids, stamp : Int]
Steps == {"idle", "nonce", "select", "touch", "record", "claim", "update", "report", "stream"}

Registered(p, t) == p \in Known /\ pollers[p].live /\ pollers[p].tenant = t

ForgetAll ==
    /\ sessions' = [p \in Ids |-> NoSession]
    /\ nonces' = [n \in 1 .. MaxMessages |-> NoTime]
    /\ nonceGC' = NoTime
    /\ pc' = [c \in Calls |-> "idle"] /\ local' = [c \in Calls |-> Blank]
    /\ proved' = [p \in Ids |-> NoTime]
    /\ passed' = [n \in 1 .. MaxMessages |-> 0]

ListenerInit ==
    /\ pollers = <<>>
    /\ status = [j \in Jobs |-> "queued"] /\ owner = [j \in Jobs |-> 0]
    /\ sent = <<>>
    /\ sessions = [p \in Ids |-> NoSession]
    /\ nonces = [n \in 1 .. MaxMessages |-> NoTime] /\ nonceGC = NoTime
    /\ phase = "serving" /\ starts = 1
    /\ now = 0
    /\ pc = [c \in Calls |-> "idle"] /\ local = [c \in Calls |-> Blank]
    /\ proved = [p \in Ids |-> NoTime] /\ passed = [n \in 1 .. MaxMessages |-> 0]

-------------------------------------------------------------------------------
(***************************************************************************)
(* The registry, as the operators' requests change it.                     *)
(***************************************************************************)

\* UNIQUE(tenant_id, name); an id is never used again (AUTOINCREMENT).
Register(t, n) ==
    /\ ~ \E p \in Known : Registered(p, t) /\ pollers[p].name = n
    /\ pollers' = Append(pollers, [tenant |-> t, name |-> n, live |-> TRUE])

handleRegisterPoller ==
    /\ phase = "serving" /\ Len(pollers) < MaxPollers
    /\ \E t \in Tenants, n \in Names : Register(t, n)
    /\ UNCHANGED <<status, owner, sent, memory, process, now, calls, history>>

\* Mutated form: the jobs of the poller keep its id.
ReleaseJobsLate(p) == UNCHANGED owner

\* poller_jobs.poller_id REFERENCES pollers(id) ON DELETE SET NULL.
ReleaseJobs(p) == owner' = [j \in Jobs |-> IF owner[j] = p THEN 0 ELSE owner[j]]

handleDeletePoller ==
    /\ phase = "serving"
    /\ \E p \in Known :
           /\ pollers[p].live
           /\ pollers' = [pollers EXCEPT ![p].live = FALSE]
           /\ ReleaseJobs(p)
    /\ UNCHANGED <<status, sent, memory, process, now, calls, history>>

\* An agent asks for a session under its own name or, misconfigured, under
\* another's; whatever is sent may be delivered at any later time, any number of times.
Send ==
    \E p, q \in Known, stamp \in now - Skew .. now + Skew :
        /\ Len(sent) < MaxMessages
        /\ sent' = Append(sent, [tenant |-> pollers[p].tenant, name |-> pollers[p].name,
                                 token |-> q, stamp |-> stamp])
        /\ UNCHANGED <<tables, memory, process, now, calls, history>>

-------------------------------------------------------------------------------
(***************************************************************************)
(* Calls.                                                                  *)
(***************************************************************************)

At(c, step) == pc[c] = step
Proceed(c, step, l) == pc' = [pc EXCEPT ![c] = step] /\ local' = [local EXCEPT ![c] = l]
Return(c) == Proceed(c, "idle", Blank)
Accepting(c) == phase = "serving" /\ At(c, "idle")

Within(stamp) == now - stamp <= Window /\ stamp - now <= Window

\* Authenticate: the clock is read and the stamp compared with it.
Authenticate(c) ==
    \E n \in 1 .. Len(sent) :
        /\ Accepting(c) /\ Within(sent[n].stamp)
        /\ Proceed(c, "nonce", [Blank EXCEPT !.nonce = n, !.time = now])
        /\ UNCHANGED <<tables, sent, memory, process, now, history>>

\* Mutated form: a sweep empties the cache.
SweptClean(time) ==
    IF time > nonceGC THEN [n \in 1 .. MaxMessages |-> NoTime] ELSE nonces

\* The cache after the sweep that a call of this time may do.
Swept(time) ==
    IF time > nonceGC
    THEN [n \in 1 .. MaxMessages |-> IF time > nonces[n] THEN NoTime ELSE nonces[n]]
    ELSE nonces

\* tryUseNonce, under the lock, with the time the call has read.
tryUseNonce(c) ==
    LET n == local[c].nonce
        time == local[c].time
        fresh == ~ time < Swept(time)[n]
    IN  /\ At(c, "nonce")
        /\ nonces' = IF fresh THEN [Swept(time) EXCEPT ![n] = time + Window] ELSE Swept(time)
        /\ nonceGC' = IF time > nonceGC THEN time + Sweep ELSE nonceGC
        /\ IF fresh THEN Proceed(c, "select", [Blank EXCEPT !.nonce = n]) ELSE Return(c)
        /\ passed' = IF fresh /\ sent[n].stamp < time THEN [passed EXCEPT ![n] = @ + 1] ELSE passed
        /\ UNCHANGED <<tables, sent, sessions, process, now, proved>>

\* The poller of that tenant and name, if its token is the one presented.
Matching(m) == {p \in Known : Registered(p, m.tenant) /\ pollers[p].name = m.name /\ p = m.token}

\* SELECT of the row, and the comparison of the token with its hash.
SelectPoller(c) ==
    LET found == Matching(sent[local[c].nonce]) IN
    /\ At(c, "select")
    /\ \/ found = {} /\ Return(c)
       \/ \E p \in found :
              Proceed(c, "touch", [Blank EXCEPT !.poller = p, !.token = p, !.tenant = pollers[p].tenant])
    /\ UNCHANGED <<tables, sent, memory, process, now, history>>

\* UPDATE of last_seen, which is only ever listed, its error ignored; the lease
\* starts afterwards.
TouchPoller(c) ==
    /\ At(c, "touch")
    /\ Proceed(c, "record", [local[c] EXCEPT !.time = now + Lease])
    /\ proved' = [proved EXCEPT ![local[c].poller] = now]
    /\ UNCHANGED <<tables, sent, memory, process, now, passed>>

recordSession(c) ==
    LET l == local[c] IN
    /\ At(c, "record")
    /\ sessions' = [sessions EXCEPT ![l.poller] =
                       [tenant |-> l.tenant, token |-> l.token, expires |-> l.time]]
    /\ Return(c)
    /\ UNCHANGED <<tables, sent, nonces, nonceGC, process, now, history>>

\* Mutated form: an expired session stays in the map.
purgeNothing(map) == map

\* purgeExpiredSessionsLocked.
purgeExpiredSessions(map) ==
    [p \in Ids |-> IF map[p] # NoSession /\ now > map[p].expires THEN NoSession ELSE map[p]]

\* The comparisons of requireSession.
LetsThrough(map, l) ==
    /\ map[l.poller].token # 0
    /\ map[l.poller].tenant = l.tenant
    /\ map[l.poller].token = l.token

\* requireSession, for a request of any tenant, poller and token; let through,
\* the call goes on with the given step.
requireSession(c, step) ==
    \E t \in Tenants, p \in Known, token \in Known :
        LET l == [Blank EXCEPT !.tenant = t, !.poller = p, !.token = token]
            map == purgeExpiredSessions(sessions)
        IN  /\ Accepting(c)
            /\ sessions' = map
            /\ IF LetsThrough(map, l) THEN Proceed(c, step, l) ELSE Return(c)
            /\ UNCHANGED <<tables, sent, nonces, nonceGC, process, now, history>>

Health(c) == requireSession(c, "idle")
ClaimJob(c) == requireSession(c, "claim")
ReportResult(c) == requireSession(c, "report")
StreamJobs(c) == requireSession(c, "stream")

Queued(t) == {j \in Jobs : status[j] = "queued" /\ JobTenant[j] = t}

\* Claim: SELECT of a queued job of the tenant.
SelectJob(c) ==
    LET l == local[c] IN
    /\ At(c, "claim")
    /\ \/ Queued(l.tenant) = {} /\ Return(c)
       \/ \E j \in Queued(l.tenant) : Proceed(c, "update", [l EXCEPT !.job = j])
    /\ UNCHANGED <<tables, sent, memory, process, now, history>>

\* The WHERE clause of the UPDATE.
Claimable(j, p) == status[j] = "queued" /\ Registered(p, JobTenant[j])

\* Claim: UPDATE.
ClaimUpdate(c) ==
    LET j == local[c].job
        p == local[c].poller
    IN  /\ At(c, "update")
        /\ IF Claimable(j, p)
           THEN /\ status' = [status EXCEPT ![j] = "claimed"]
                /\ owner' = [owner EXCEPT ![j] = p]
           ELSE UNCHANGED <<status, owner>>
        /\ Return(c)
        /\ UNCHANGED <<pollers, sent, memory, process, now, history>>

\* The WHERE clause of the UPDATE.
OwnedBy(j, l) == status[j] = "claimed" /\ JobTenant[j] = l.tenant /\ owner[j] = l.poller

\* CompleteClaimedBy, for the job the request names.
CompleteClaimedBy(c) ==
    \E j \in Jobs :
        /\ At(c, "report")
        /\ status' = IF OwnedBy(j, local[c]) THEN [status EXCEPT ![j] = "done"] ELSE status
        /\ Return(c)
        /\ UNCHANGED <<pollers, owner, sent, memory, process, now, history>>

\* A call whose context has ended fails at its next statement; a stream ends.
ContextEnds(c) ==
    /\ pc[c] \in {"select", "claim", "update", "report", "stream"}
    /\ Return(c)
    /\ UNCHANGED <<tables, sent, memory, process, now, history>>

-------------------------------------------------------------------------------
(***************************************************************************)
(* The process.                                                            *)
(***************************************************************************)

\* The context of the process ends: a signal, or a listener that failed.
StopRequested ==
    /\ phase = "serving"
    /\ phase' = "stopping"
    /\ UNCHANGED <<tables, sent, memory, starts, now, calls, history>>

\* The process ends, and what it had in memory with it.
ProcessEnds ==
    /\ phase' = "down"
    /\ ForgetAll
    /\ UNCHANGED <<tables, sent, starts, now>>

\* Mutated form: Shutdown waits for the calls for as long as it takes.
ForceStopNever == FALSE /\ ProcessEnds

\* Shutdown: the graceful stop has taken too long; Stop cuts off the calls that
\* are still served, and main returns.
ForceStop == phase = "stopping" /\ ProcessEnds

\* Shutdown: every call has returned.
GracefulStop ==
    /\ phase = "stopping" /\ \A c \in Calls : At(c, "idle")
    /\ ProcessEnds

Kill == phase = "serving" /\ ProcessEnds

NewGRPCServer ==
    /\ phase = "down" /\ starts < MaxStarts
    /\ phase' = "serving" /\ starts' = starts + 1
    /\ UNCHANGED <<tables, sent, memory, now, calls, history>>

\* No call is held up for longer than Lag between the clock and the lock.
Tick ==
    /\ now < MaxTime
    /\ \A c \in Calls : At(c, "nonce") => now + 1 - local[c].time <= Lag
    /\ now' = now + 1
    /\ UNCHANGED <<tables, sent, memory, process, calls, history>>

AuthenticateStep(c) ==
    Authenticate(c) \/ tryUseNonce(c) \/ SelectPoller(c) \/ TouchPoller(c) \/ recordSession(c)

WorkStep(c) ==
    \/ Health(c) \/ ClaimJob(c) \/ ReportResult(c) \/ StreamJobs(c)
    \/ SelectJob(c) \/ ClaimUpdate(c) \/ CompleteClaimedBy(c)

ListenerNext ==
    \/ handleRegisterPoller \/ handleDeletePoller \/ Send
    \/ \E c \in Calls : AuthenticateStep(c) \/ WorkStep(c) \/ ContextEnds(c)
    \/ StopRequested \/ ForceStop \/ GracefulStop \/ Kill \/ NewGRPCServer
    \/ Tick

\* The timer of Shutdown fires, and main returns after Shutdown.  Nothing is
\* assumed of the callers: a stream lasts as long as its client likes.
ListenerSpec ==
    /\ ListenerInit /\ [][ListenerNext]_listenerVars
    /\ WF_listenerVars(ForceStop) /\ WF_listenerVars(GracefulStop)

-------------------------------------------------------------------------------
ListenerTypeOK ==
    /\ pollers \in Seq(Row) /\ Len(pollers) <= MaxPollers
    /\ status \in [Jobs -> {"queued", "claimed", "done"}]
    /\ owner \in [Jobs -> 0 .. MaxPollers]
    /\ sent \in Seq(Message) /\ Len(sent) <= MaxMessages
    /\ sessions \in [Ids -> [tenant : Tenants, token : 0 .. MaxPollers,
                            expires : {NoTime} \cup Lease .. MaxTime + Lease]]
    /\ nonces \in [1 .. MaxMessages -> {NoTime} \cup Window .. MaxTime + Window] /\ nonceGC \in Times
    /\ phase \in {"serving", "stopping", "down"}
    /\ starts \in 1 .. MaxStarts /\ now \in 0 .. MaxTime
    /\ pc \in [Calls -> Steps]
    /\ local \in [Calls -> [tenant : Tenants, poller : 0 .. MaxPollers, token : 0 .. MaxPollers,
                            nonce : 0 .. MaxMessages, time : Times, job : Jobs]]
    /\ proved \in [Ids -> Times] /\ passed \in [1 .. MaxMessages -> Nat]

\* A job is claimed or ended only by a call that brought the token of a poller
\* registered, at that moment, with the job's tenant, and is ended only by the
\* poller that holds it: though a session outlives the row of its poller, and
\* the row may go between any two statements of a call (requireSession, Claim,
\* CompleteClaimedBy, ON DELETE SET NULL).
WorkIsOfRegisteredPollers ==
    [][\A j \in Jobs : status'[j] # status[j] =>
           \E c \in Calls :
               /\ pc[c] \in {"update", "report"} /\ pc'[c] = "idle"
               /\ local[c].token = local[c].poller
               /\ Registered(local[c].poller, JobTenant[j])
               /\ status[j] = "claimed" => owner[j] = local[c].poller]_listenerVars

\* A call is let through only within a lease of the poller's last proof of its
\* token to this process, in whatever order the calls record and purge the
\* sessions (recordSession, purgeExpiredSessionsLocked).
SessionsAreLeases ==
    [][\A c \in Calls : pc[c] = "idle" /\ pc'[c] \in {"claim", "report", "stream"} =>
           LET p == local'[c].poller
           IN  proved[p] # NoTime /\ now <= proved[p] + Lease]_listenerVars

\* However often and late an Authenticate message is delivered, and whatever is
\* swept from the cache meanwhile, a process lets it past the replay check once,
\* if it was stamped before it came (tryUseNonce).
MessagesPassOnce == \A n \in 1 .. MaxMessages : passed[n] <= 1

\* A process asked to stop ends, though a stream is never closed by its client
\* (Start, Shutdown).
StopsInTheEnd == phase = "stopping" ~> phase = "down"
===============================================================================
