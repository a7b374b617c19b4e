--------------------------- MODULE PollerQueueProofs ---------------------------
(***************************************************************************)
(* Proofs about PollerQueue, for any number of rows, pollers and seconds:  *)
(* types, what holds of claims and results, and that the table of jobs     *)
(* implements PollerQueueSpec.                                             *)
(***************************************************************************)
EXTENDS PollerQueue, TLAPS

LastClaim(i) == claims[i][Len(claims[i])]
Lasting(t) == t # NoTime /\ t > 0

\* What a row says of its own history: who may own it, which deadline it carries,
\* and that a queued row has no claim still running.
HistoryInv(i) ==
    /\ status[i] # "running"
    /\ status[i] = "free" => claims[i] = <<>>
    /\ owner[i] # NoPoller => claims[i] # <<>> /\ owner[i] = LastClaim(i).poller
    /\ status[i] = "claimed" => claims[i] # <<>> /\ expires[i] = LastClaim(i).until
    /\ status[i] = "queued" /\ claims[i] # <<>> =>
          LastClaim(i).until # NoTime /\ LastClaim(i).until < now
    /\ \A n \in 1 .. Len(claims[i]) - 1 :
          claims[i][n].until # NoTime /\ claims[i][n].until < claims[i][n + 1].won
    /\ accepted[i] # 0 =>
          /\ status[i] \in Ended \cup {"deleted"}
          /\ accepted[i] \in 1 .. Len(claims[i])
          /\ claims[i][accepted[i]].poller = LastClaim(i).poller

\* Its expiry is never nearer to its creation, nor to its claim, than the
\* lifetime asked for.
DeadlineInv(i) ==
    /\ status[i] # "free" => created[i] <= now
    /\ status[i] = "claimed" => claimedAt[i] # NoTime
    /\ status[i] # "free" /\ Lasting(ttl[i]) =>
          expires[i] # NoTime /\ expires[i] - created[i] >= ttl[i]
    /\ status[i] = "claimed" /\ Lasting(ttl[i]) => expires[i] - claimedAt[i] >= ttl[i]
    /\ status[i] = "claimed" /\ expires[i] # NoTime => expires[i] > claimedAt[i]

\* What a ClaimJob call has in its hands between two of its statements.
UpdateInv(p) ==
    pc[p] = "update" =>
        /\ status[cand[p]] # "free"
        /\ candTime[p] >= created[cand[p]]
        /\ candExpiry[p] # NoTime => candExpiry[p] > candTime[p]
        /\ Lasting(ttl[cand[p]]) =>
              candExpiry[p] # NoTime /\ candExpiry[p] - candTime[p] >= ttl[cand[p]]

Claimed(i, n, p) == n \in 1 .. Len(claims[i]) /\ claims[i][n].poller = p

GetInv(p) == pc[p] = "get" => Claimed(cand[p], candClaim[p], p)

HeldInv == \A c \in held : Claimed(c.row, c.claim, c.poller)

IInv ==
    /\ TypeOK
    /\ \A i \in Rows : HistoryInv(i) /\ DeadlineInv(i)
    /\ \A p \in Pollers : UpdateInv(p) /\ GetInv(p)
    /\ HeldInv

--------------------------------------------------------------------------------
LEMMA NewExpiryType ==
    ASSUME TypeOK, NEW i \in Rows
    PROVE  NewExpiry(i) \in Times
BY TimeAssumption DEF TypeOK, NewExpiry, Times

\* Type correctness of one step.
LEMMA TypeStep ==
    ASSUME TypeOK, [Next]_vars
    PROVE  TypeOK'
<1> USE DEF TypeOK, Statuses
<1>1. CASE EnqueueNew
    <2> PICK k \in Keys, t \in TTLs, i \in Rows, carry \in {0, 1} :
            /\ key' = [key EXCEPT ![i] = k]
            /\ status' = [status EXCEPT ![i] = "queued"]
            /\ created' = [created EXCEPT ![i] = now]
            /\ expires' = [expires EXCEPT ![i] = IF t = NoTime THEN NoTime ELSE now + t + carry]
            /\ ttl' = [ttl EXCEPT ![i] = t]
            /\ answer' = [key |-> k, row |-> i]
            /\ UNCHANGED <<owner, claimedAt, pollers, now, handler, held, claims, accepted>>
        BY <1>1 DEF EnqueueNew
    <2>1. t \in Times /\ (IF t = NoTime THEN NoTime ELSE now + t + carry) \in Times
        BY TimeAssumption DEF Times
    <2>2. i \in 0 .. MaxRows
        BY BoundsAssumption DEF Rows
    <2> QED
        BY <2>1, <2>2 DEF handler
<1>2. CASE EnqueueDuplicate
    <2> PICK k \in Keys, id \in 0 .. MaxRows :
            /\ Existing(k) # {}
            /\ answer' = [key |-> k,
                          row |-> IF id = 0 THEN CHOOSE i \in Existing(k) : TRUE
                                  ELSE IF status[id] \in {"free", "deleted"} THEN 0 ELSE id]
            /\ UNCHANGED <<queue, now, handler, held, ttl, claims, accepted>>
        BY <1>2 DEF EnqueueDuplicate
    <2>1. (CHOOSE i \in Existing(k) : TRUE) \in 0 .. MaxRows
        <3> HIDE DEF TypeOK, Statuses
        <3>1. Existing(k) \subseteq 0 .. MaxRows
            BY BoundsAssumption DEF Existing, Rows
        <3> HIDE DEF Existing
        <3> QED
            BY <3>1
    <2>2. answer' \in [key : Keys, row : 0 .. MaxRows]
        BY <2>1, BoundsAssumption
    <2> QED
        BY <2>2 DEF queue, handler
<1>3. CASE Cancel
    BY <1>3 DEF Cancel, handler
<1>4. CASE ReclaimExpired
    BY <1>4 DEF ReclaimExpired, handler, Times
<1>5. CASE DeleteDevice
    BY <1>5 DEF DeleteDevice, handler
<1>6. CASE Tick
    BY <1>6 DEF Tick, queue, handler
<1>7. ASSUME NEW p \in Pollers, SelectJob(p) PROVE TypeOK'
    <2> PICK i \in Rows :
            /\ pc' = [pc EXCEPT ![p] = "update"]
            /\ cand' = [cand EXCEPT ![p] = i]
            /\ candTime' = [candTime EXCEPT ![p] = now]
            /\ candExpiry' = [candExpiry EXCEPT ![p] = NewExpiry(i)]
            /\ candClaim' = [candClaim EXCEPT ![p] = 0]
            /\ UNCHANGED <<queue, answer, now, held, ttl, claims, accepted>>
        BY <1>7 DEF SelectJob, Candidates
    <2>1. i \in 0 .. MaxRows
        BY BoundsAssumption DEF Rows
    <2> QED
        BY <2>1, NewExpiryType DEF queue
<1>8. ASSUME NEW p \in Pollers, WinClaim(p) PROVE TypeOK'
    <2> DEFINE c == [poller |-> p, won |-> now, until |-> candExpiry[p]]
    <2>1. cand[p] \in Rows /\ c \in Claims
        BY <1>8 DEF WinClaim, Claims
    <2>2. Append(claims[cand[p]], c) \in Seq(Claims)
        BY <2>1
    <2>3. claims' \in [Rows -> Seq(Claims)]
        BY <1>8, <2>2 DEF WinClaim
    <2>4. Len(claims[cand[p]]) + 1 \in Nat
        BY <2>1
    <2>5. candTime[p] \in Times
        BY DEF Times
    <2> QED
        BY <1>8, <2>1, <2>3, <2>4, <2>5 DEF WinClaim
<1>9. ASSUME NEW p \in Pollers, LoseClaim(p) PROVE TypeOK'
    BY <1>9 DEF LoseClaim, queue
<1>10. ASSUME NEW p \in Pollers, AnswerClaim(p) PROVE TypeOK'
    <2>1. held' \subseteq Tickets
        BY <1>10 DEF AnswerClaim, Tickets
    <2> QED
        BY <1>10, <2>1 DEF AnswerClaim, queue
<1>11. ASSUME NEW p \in Pollers, ReportResult(p) PROVE TypeOK'
    <2> PICK c \in held, success \in BOOLEAN :
            /\ status' = [status EXCEPT ![c.row] = ResultStatus(success)]
            /\ accepted' = [accepted EXCEPT ![c.row] = c.claim]
            /\ UNCHANGED <<key, owner, created, claimedAt, expires, pollers, answer, now,
                           handler, held, ttl, claims>>
        BY <1>11 DEF ReportResult
    <2>1. c.row \in Rows /\ c.claim \in Nat
        BY DEF Tickets
    <2> QED
        BY <2>1 DEF ResultStatus, handler
<1>12. ASSUME NEW p \in Pollers, DeletePoller(p) PROVE TypeOK'
    BY <1>12 DEF DeletePoller, handler
<1>13. CASE UNCHANGED vars
    BY <1>13 DEF vars, queue, handler
<1> QED
    BY <1>1, <1>2, <1>3, <1>4, <1>5, <1>6, <1>7, <1>8, <1>9, <1>10, <1>11, <1>12, <1>13
    DEF Next

--------------------------------------------------------------------------------
\* A row whose columns a step leaves alone keeps its invariant as time passes.
LEMMA RowFrame ==
    ASSUME NEW i \in Rows, TypeOK, HistoryInv(i), DeadlineInv(i),
           now' \in Nat, now <= now',
           status'[i] = status[i], owner'[i] \in {owner[i], NoPoller},
           created'[i] = created[i], claimedAt'[i] = claimedAt[i],
           expires'[i] = expires[i], ttl'[i] = ttl[i],
           claims'[i] = claims[i], accepted'[i] = accepted[i]
    PROVE  HistoryInv(i)' /\ DeadlineInv(i)'
<1>1. claims[i] # <<>> => LastClaim(i) \in Claims
    BY DEF TypeOK, LastClaim
<1>2. claims[i] # <<>> /\ LastClaim(i).until # NoTime => LastClaim(i).until \in Nat
    BY <1>1 DEF Claims, Times
<1>3. LastClaim(i)' = LastClaim(i)
    BY DEF LastClaim
<1>4. HistoryInv(i)'
    BY <1>2, <1>3 DEF HistoryInv, TypeOK
<1>5. DeadlineInv(i)'
    BY DEF DeadlineInv, TypeOK, Lasting
<1> QED
    BY <1>4, <1>5

\* The rows after one step.
LEMMA RowStep ==
    ASSUME IInv, [Next]_vars, NEW s \in Rows
    PROVE  HistoryInv(s)' /\ DeadlineInv(s)'
<1> TypeOK /\ HistoryInv(s) /\ DeadlineInv(s)
    BY DEF IInv
<1>0. now \in Nat /\ now <= now
    BY DEF TypeOK
<1>1. CASE EnqueueNew
    <2> PICK k \in Keys, t \in TTLs, i \in Rows, carry \in {0, 1} :
            /\ status[i] = "free"
            /\ status' = [status EXCEPT ![i] = "queued"]
            /\ created' = [created EXCEPT ![i] = now]
            /\ expires' = [expires EXCEPT ![i] = IF t = NoTime THEN NoTime ELSE now + t + carry]
            /\ ttl' = [ttl EXCEPT ![i] = t]
            /\ UNCHANGED <<owner, claimedAt, pollers, now, handler, held, claims, accepted>>
        BY <1>1 DEF EnqueueNew
    <2>1. CASE s # i
        BY <1>0, <2>1, RowFrame DEF TypeOK
    <2>2. CASE s = i
        <3>1. claims'[s] = <<>> /\ accepted'[s] = 0 /\ owner'[s] = NoPoller
            BY <2>2 DEF HistoryInv, TypeOK, Ended
        <3>2. HistoryInv(s)'
            BY <2>2, <3>1 DEF HistoryInv, TypeOK
        <3>3. t # NoTime => t \in Nat /\ now + t + carry # NoTime
            BY <1>0, TimeAssumption
        <3>4. DeadlineInv(s)'
            BY <1>0, <2>2, <3>3 DEF DeadlineInv, TypeOK, Lasting
        <3> QED
            BY <3>2, <3>4
    <2> QED
        BY <2>1, <2>2
<1>2. ASSUME UNCHANGED <<status, owner, created, claimedAt, expires, ttl, claims, accepted>>,
             now' \in Nat, now <= now'
      PROVE  HistoryInv(s)' /\ DeadlineInv(s)'
    BY <1>2, RowFrame
<1>3. CASE EnqueueDuplicate
    BY <1>0, <1>2, <1>3 DEF EnqueueDuplicate, queue
<1>4. CASE Tick
    BY <1>0, <1>2, <1>4 DEF Tick, queue
\* A row that ends, by whatever step, keeps its claims; an accepted report is
\* the one of its last claimant.
<1>5. ASSUME status'[s] \in Ended \cup {"deleted"}, status[s] # "free",
             owner'[s] \in {owner[s], NoPoller},
             UNCHANGED <<created, claimedAt, expires, now, ttl, claims>>,
             accepted'[s] = accepted[s] \/ /\ accepted'[s] \in 1 .. Len(claims[s])
                                           /\ claims[s][accepted'[s]].poller = LastClaim(s).poller
      PROVE  HistoryInv(s)' /\ DeadlineInv(s)'
    <2>1. LastClaim(s)' = LastClaim(s)
        BY <1>5 DEF LastClaim
    <2>2. HistoryInv(s)'
        BY <1>5, <2>1 DEF HistoryInv, Ended
    <2>3. DeadlineInv(s)'
        BY <1>5 DEF DeadlineInv, Ended, Lasting
    <2> QED
        BY <2>2, <2>3
<1>6. CASE Cancel
    <2> PICK i \in Rows :
            /\ status[i] \in Cancellable
            /\ status' = [status EXCEPT ![i] = "cancelled"]
            /\ UNCHANGED <<key, owner, created, claimedAt, expires, pollers, answer, now,
                           handler, held, ttl, claims, accepted>>
        BY <1>6 DEF Cancel
    <2>1. CASE s # i
        BY <1>0, <2>1, RowFrame DEF TypeOK
    <2>2. CASE s = i
        BY <1>5, <2>2 DEF TypeOK, Cancellable, Ended
    <2> QED
        BY <2>1, <2>2
<1>7. CASE DeleteDevice
    <2> PICK i \in Rows :
            /\ status[i] \notin {"free", "deleted"}
            /\ status' = [status EXCEPT ![i] = "deleted"]
            /\ owner' = [owner EXCEPT ![i] = NoPoller]
            /\ UNCHANGED <<key, created, claimedAt, expires, pollers, answer, now, handler,
                           held, ttl, claims, accepted>>
        BY <1>7 DEF DeleteDevice
    <2>1. CASE s # i
        BY <1>0, <2>1, RowFrame DEF TypeOK
    <2>2. CASE s = i
        BY <1>5, <2>2 DEF TypeOK
    <2> QED
        BY <2>1, <2>2
<1>8. CASE ReclaimExpired
    <2> USE DEF ReclaimExpired
    <2>1. CASE ~Expired(s)
        BY <1>0, <1>8, <2>1, RowFrame DEF TypeOK
    <2>2. CASE Expired(s)
        <3>1. /\ status'[s] = "queued" /\ owner'[s] = NoPoller /\ claimedAt'[s] = NoTime
              /\ LastClaim(s)' = LastClaim(s)
            BY <1>8, <2>2 DEF LastClaim
        <3>2. /\ claims[s] # <<>> /\ LastClaim(s).until = expires[s]
              /\ expires[s] # NoTime /\ expires[s] < now
              /\ status[s] = "claimed"
            BY <2>2 DEF Expired, HistoryInv
        <3>3. HistoryInv(s)'
            BY <1>8, <3>1, <3>2 DEF HistoryInv, Ended
        <3>4. DeadlineInv(s)'
            BY <1>8, <3>1, <3>2 DEF DeadlineInv
        <3> QED
            BY <3>3, <3>4
    <2> QED
        BY <2>1, <2>2
<1>9. ASSUME NEW p \in Pollers, SelectJob(p) \/ LoseClaim(p) \/ AnswerClaim(p)
      PROVE  HistoryInv(s)' /\ DeadlineInv(s)'
    BY <1>0, <1>2, <1>9 DEF SelectJob, LoseClaim, AnswerClaim, queue
<1>10. ASSUME NEW p \in Pollers, WinClaim(p)
       PROVE  HistoryInv(s)' /\ DeadlineInv(s)'
    <2> DEFINE c == [poller |-> p, won |-> now, until |-> candExpiry[p]]
    <2> USE <1>10 DEF WinClaim
    <2>1. CASE s # cand[p]
        BY <1>0, <2>1, RowFrame DEF TypeOK
    <2>2. CASE s = cand[p]
        <3>1. claims[s] \in Seq(Claims) /\ status[s] = "queued"
            BY <2>2 DEF TypeOK, Claimable
        <3>2. /\ claims'[s] = Append(claims[s], c)
              /\ status'[s] = "claimed" /\ owner'[s] = p
              /\ expires'[s] = candExpiry[p] /\ claimedAt'[s] = candTime[p]
              /\ created'[s] = created[s] /\ ttl'[s] = ttl[s] /\ now' = now
              /\ accepted'[s] = accepted[s]
            BY <2>2 DEF TypeOK
        <3>3. /\ Len(claims'[s]) = Len(claims[s]) + 1
              /\ claims'[s][Len(claims[s]) + 1] = c
              /\ \A n \in 1 .. Len(claims[s]) : claims'[s][n] = claims[s][n]
              /\ Len(claims[s]) \in Nat
            BY <3>1, <3>2
        <3>4. claims'[s] # <<>> /\ LastClaim(s)' = c
            <4> HIDE DEF c
            <4>1. Len(claims'[s]) # 0
                BY <3>3
            <4>2. claims'[s][Len(claims'[s])] = c
                BY <3>3
            <4>3. claims'[s] # <<>>
                BY <4>1
            <4> QED
                BY <4>2, <4>3 DEF LastClaim
        <3>5. accepted[s] = 0
            BY <3>1 DEF HistoryInv, Ended
        <3>6. \A n \in 1 .. Len(claims'[s]) - 1 :
                 claims'[s][n].until # NoTime /\ claims'[s][n].until < claims'[s][n + 1].won
            <4> TAKE n \in 1 .. Len(claims'[s]) - 1
            <4>1. n \in 1 .. Len(claims[s])
                BY <3>3
            <4>2. CASE n = Len(claims[s])
                <5>1. claims[s] # <<>> /\ claims'[s][n] = LastClaim(s)
                    BY <3>1, <3>3, <4>1, <4>2 DEF LastClaim
                <5>2. LastClaim(s).until # NoTime /\ LastClaim(s).until < now
                    BY <3>1, <5>1 DEF HistoryInv
                <5>3. claims'[s][n + 1].won = now
                    BY <3>3, <4>2
                <5> QED
                    BY <5>1, <5>2, <5>3
            <4>3. CASE n # Len(claims[s])
                <5>1. n \in 1 .. Len(claims[s]) - 1 /\ n + 1 \in 1 .. Len(claims[s])
                    BY <3>3, <4>1, <4>3
                <5>2. claims[s][n].until # NoTime /\ claims[s][n].until < claims[s][n + 1].won
                    BY <5>1 DEF HistoryInv
                <5> QED
                    BY <3>3, <4>1, <5>1, <5>2
            <4> QED
                BY <4>2, <4>3
        <3>7. HistoryInv(s)'
            <4> HIDE DEF c
            <4>1. c.poller = p /\ c.until = candExpiry[p]
                BY DEF c
            <4> QED
                BY <3>2, <3>4, <3>5, <3>6, <4>1 DEF HistoryInv
        <3>8. UpdateInv(p) /\ pc[p] = "update"
            BY DEF IInv
        <3>9. DeadlineInv(s)'
            <4>1. /\ candTime[p] \in Nat /\ created[s] \in Nat
                  /\ candExpiry[p] \in Nat \cup {NoTime} /\ ttl[s] \in Nat \cup {NoTime}
                BY DEF TypeOK, Times
            <4>2. candTime[p] # NoTime
                BY <4>1, TimeAssumption
            <4>3. Lasting(ttl[s]) => /\ candExpiry[p] # NoTime
                                     /\ candExpiry[p] - candTime[p] >= ttl[s]
                                     /\ candExpiry[p] - created[s] >= ttl[s]
                BY <2>2, <3>8, <4>1, TimeAssumption DEF UpdateInv, Lasting
            <4>4. created[s] <= now
                BY <3>1 DEF DeadlineInv
            <4>5. candExpiry[p] # NoTime => candExpiry[p] > candTime[p]
                BY <2>2, <3>8 DEF UpdateInv
            <4> QED
                BY <3>2, <4>2, <4>3, <4>4, <4>5 DEF DeadlineInv, Lasting
        <3> QED
            BY <3>7, <3>9
    <2> QED
        BY <2>1, <2>2
<1>11. ASSUME NEW p \in Pollers, ReportResult(p)
       PROVE  HistoryInv(s)' /\ DeadlineInv(s)'
    <2> PICK c \in held, success \in BOOLEAN :
            /\ c.poller = p
            /\ OwnedBy(p, c.row)
            /\ status' = [status EXCEPT ![c.row] = ResultStatus(success)]
            /\ accepted' = [accepted EXCEPT ![c.row] = c.claim]
            /\ UNCHANGED <<key, owner, created, claimedAt, expires, pollers, answer, now,
                           handler, held, ttl, claims>>
        BY <1>11 DEF ReportResult
    <2>1. CASE s # c.row
        BY <1>0, <2>1, RowFrame DEF TypeOK
    <2>2. CASE s = c.row
        <3>1. Claimed(s, c.claim, p)
            BY <2>2 DEF IInv, HeldInv
        <3>2. LastClaim(s).poller = p
            BY <2>2, PollersAssumption DEF OwnedBy, HistoryInv
        <3> QED
            BY <1>5, <2>2, <3>1, <3>2 DEF TypeOK, Claimed, OwnedBy, ResultStatus, Ended
    <2> QED
        BY <2>1, <2>2
<1>12. ASSUME NEW p \in Pollers, DeletePoller(p)
       PROVE  HistoryInv(s)' /\ DeadlineInv(s)'
    BY <1>0, <1>12, RowFrame DEF DeletePoller, TypeOK
<1>13. CASE UNCHANGED vars
    BY <1>0, <1>2, <1>13 DEF vars, queue
<1> QED
    BY <1>1, <1>3, <1>4, <1>6, <1>7, <1>8, <1>9, <1>10, <1>11, <1>12, <1>13 DEF Next

--------------------------------------------------------------------------------
\* Claims are only ever added to, so what was claimed stays claimed.
LEMMA ClaimsGrow ==
    ASSUME TypeOK, [Next]_vars, NEW i \in Rows, NEW n, NEW p, Claimed(i, n, p)
    PROVE  Claimed(i, n, p)'
<1>1. CASE claims' = claims
    BY <1>1 DEF Claimed
<1>2. ASSUME NEW q \in Pollers, WinClaim(q) PROVE Claimed(i, n, p)'
    <2>1. CASE i # cand[q]
        BY <1>2, <2>1 DEF WinClaim, Claimed, TypeOK
    <2>2. CASE i = cand[q]
        <3> DEFINE c == [poller |-> q, won |-> now, until |-> candExpiry[q]]
        <3>1. claims'[i] = Append(claims[i], c) /\ claims[i] \in Seq(Claims)
            BY <1>2, <2>2 DEF WinClaim, TypeOK
        <3>2. Len(claims'[i]) = Len(claims[i]) + 1 /\ Len(claims[i]) \in Nat
            BY <3>1
        <3>3. n \in 1 .. Len(claims[i])
            BY DEF Claimed
        <3>4. claims'[i][n] = claims[i][n]
            BY <3>1, <3>3
        <3> QED
            BY <3>2, <3>3, <3>4 DEF Claimed
    <2> QED
        BY <2>1, <2>2
<1>3. claims' = claims \/ \E q \in Pollers : WinClaim(q)
    BY DEF Next, EnqueueNew, EnqueueDuplicate, Cancel, ReclaimExpired, DeleteDevice, Tick,
           SelectJob, LoseClaim, AnswerClaim, ReportResult, DeletePoller, vars
<1> QED
    BY <1>1, <1>2, <1>3

\* No row becomes free again, nor do the creation and the lifetime of a row that
\* is not free change.
LEMMA RowsStay ==
    ASSUME TypeOK, [Next]_vars, NEW i \in Rows, status[i] # "free"
    PROVE  status'[i] # "free" /\ created'[i] = created[i] /\ ttl'[i] = ttl[i]
<1>1. CASE EnqueueNew
    BY <1>1 DEF EnqueueNew, TypeOK
<1>2. CASE EnqueueDuplicate
    BY <1>2 DEF EnqueueDuplicate, queue
<1>3. CASE Cancel \/ DeleteDevice \/ ReclaimExpired
    BY <1>3 DEF Cancel, DeleteDevice, ReclaimExpired, TypeOK
<1>4. CASE Tick
    BY <1>4 DEF Tick, queue
<1>5. ASSUME NEW p \in Pollers, SelectJob(p) \/ LoseClaim(p) \/ AnswerClaim(p)
      PROVE  status' = status /\ created' = created /\ ttl' = ttl
    BY <1>5 DEF SelectJob, LoseClaim, AnswerClaim, queue
<1>6. ASSUME NEW p \in Pollers, WinClaim(p)
      PROVE  status'[i] # "free" /\ created' = created /\ ttl' = ttl
    BY <1>6 DEF WinClaim, TypeOK
<1>7. ASSUME NEW p \in Pollers, ReportResult(p)
      PROVE  status'[i] # "free" /\ created' = created /\ ttl' = ttl
    BY <1>7 DEF ReportResult, ResultStatus, TypeOK
<1>8. ASSUME NEW p \in Pollers, DeletePoller(p)
      PROVE  status' = status /\ created' = created /\ ttl' = ttl
    BY <1>8 DEF DeletePoller
<1>9. CASE UNCHANGED vars
    BY <1>9 DEF vars, queue
<1> QED
    BY <1>1, <1>2, <1>3, <1>4, <1>5, <1>6, <1>7, <1>8, <1>9 DEF Next

\* The calls and the tickets after one step.
LEMMA HandlerStep ==
    ASSUME IInv, [Next]_vars, NEW q \in Pollers
    PROVE  UpdateInv(q)' /\ GetInv(q)'
<1> TypeOK /\ UpdateInv(q) /\ GetInv(q)
    BY DEF IInv
\* Steps that leave the locals of the call alone.
<1>1. ASSUME pc'[q] = pc[q], cand'[q] = cand[q], candTime'[q] = candTime[q],
             candExpiry'[q] = candExpiry[q], candClaim'[q] = candClaim[q]
      PROVE  UpdateInv(q)' /\ GetInv(q)'
    <2>1. pc[q] # "idle" => cand[q] \in Rows
        BY DEF TypeOK
    <2>2. UpdateInv(q)'
        BY <1>1, <2>1, RowsStay DEF UpdateInv, Lasting
    <2>3. GetInv(q)'
        BY <1>1, <2>1, ClaimsGrow DEF GetInv, Claimed
    <2> QED
        BY <2>2, <2>3
<1>2. CASE UNCHANGED handler
    BY <1>1, <1>2 DEF handler
<1>3. ASSUME NEW p \in Pollers, SelectJob(p)
      PROVE  UpdateInv(q)' /\ GetInv(q)'
    <2> PICK i \in Candidates(p) :
            /\ pc' = [pc EXCEPT ![p] = "update"]
            /\ cand' = [cand EXCEPT ![p] = i]
            /\ candTime' = [candTime EXCEPT ![p] = now]
            /\ candExpiry' = [candExpiry EXCEPT ![p] = NewExpiry(i)]
            /\ candClaim' = [candClaim EXCEPT ![p] = 0]
            /\ UNCHANGED <<queue, answer, now, held, ttl, claims, accepted>>
        BY <1>3 DEF SelectJob
    <2>1. CASE p # q
        BY <1>1, <2>1 DEF TypeOK
    <2>2. CASE p = q
        <3>1. i \in Rows /\ status[i] = "queued"
            BY DEF Candidates
        <3>2. DeadlineInv(i)
            BY <3>1 DEF IInv
        <3>3. /\ created[i] \in Nat /\ now \in Nat /\ expires[i] \in Nat \cup {NoTime}
              /\ ttl[i] \in Nat \cup {NoTime}
            BY <3>1 DEF TypeOK, Times
        <3>4. created[i] <= now
            BY <3>1, <3>2 DEF DeadlineInv
        <3>5. ASSUME Lasting(ttl[i])
              PROVE  NewExpiry(i) # NoTime /\ NewExpiry(i) - now >= ttl[i]
            <4>1. expires[i] # NoTime /\ expires[i] - created[i] >= ttl[i]
                BY <3>1, <3>2, <3>5 DEF DeadlineInv
            <4>2. expires[i] \in Nat /\ ttl[i] \in Nat /\ ttl[i] > 0
                BY <3>3, <3>5, <4>1 DEF Lasting
            <4>3. NewExpiry(i) = now + (expires[i] - created[i])
                BY <3>3, <4>1, <4>2 DEF NewExpiry
            <4> QED
                BY <3>3, <4>1, <4>2, <4>3, TimeAssumption
        <3>6. /\ pc'[q] = "update" /\ cand'[q] = i /\ candTime'[q] = now
              /\ candExpiry'[q] = NewExpiry(i)
              /\ status' = status /\ created' = created /\ ttl' = ttl
            BY <2>2 DEF TypeOK, queue
        <3>9. NewExpiry(i) # NoTime => NewExpiry(i) > now
            BY <3>3, TimeAssumption DEF NewExpiry
        <3>7. UpdateInv(q)'
            BY <3>1, <3>3, <3>4, <3>5, <3>6, <3>9 DEF UpdateInv, Lasting
        <3> QED
            BY <3>6, <3>7 DEF GetInv
    <2> QED
        BY <2>1, <2>2
<1>4. ASSUME NEW p \in Pollers, WinClaim(p)
      PROVE  UpdateInv(q)' /\ GetInv(q)'
    <2>1. CASE p # q
        BY <1>1, <1>4, <2>1 DEF WinClaim, TypeOK
    <2>2. CASE p = q
        <3> DEFINE i == cand[q]
                   c == [poller |-> q, won |-> now, until |-> candExpiry[q]]
        <3>1. i \in Rows /\ claims[i] \in Seq(Claims)
            BY <1>4, <2>2 DEF WinClaim, TypeOK
        <3>2. /\ claims'[i] = Append(claims[i], c)
              /\ candClaim'[q] = Len(claims[i]) + 1
              /\ cand'[q] = i /\ pc'[q] = "get"
            BY <1>4, <2>2, <3>1 DEF WinClaim, TypeOK
        <3>3. Len(claims'[i]) = Len(claims[i]) + 1 /\ Len(claims[i]) \in Nat
              /\ claims'[i][Len(claims[i]) + 1] = c
            BY <3>1, <3>2
        <3>4. claims'[i][candClaim'[q]].poller = q /\ candClaim'[q] \in 1 .. Len(claims'[i])
            BY <3>2, <3>3
        <3> QED
            BY <3>2, <3>4 DEF UpdateInv, GetInv, Claimed
    <2> QED
        BY <2>1, <2>2
<1>5. ASSUME NEW p \in Pollers, LoseClaim(p) \/ AnswerClaim(p)
      PROVE  UpdateInv(q)' /\ GetInv(q)'
    <2>1. CASE p # q
        BY <1>1, <1>5, <2>1 DEF LoseClaim, AnswerClaim, TypeOK
    <2>2. CASE p = q
        BY <1>5, <2>2 DEF LoseClaim, AnswerClaim, UpdateInv, GetInv, TypeOK
    <2> QED
        BY <2>1, <2>2
<1>6. UNCHANGED handler \/ \E p \in Pollers : \/ SelectJob(p) \/ WinClaim(p)
                                              \/ LoseClaim(p) \/ AnswerClaim(p)
    BY DEF Next, EnqueueNew, EnqueueDuplicate, Cancel, ReclaimExpired, DeleteDevice, Tick,
           ReportResult, DeletePoller, vars
<1> QED
    BY <1>2, <1>3, <1>4, <1>5, <1>6

LEMMA HeldStep ==
    ASSUME IInv, [Next]_vars
    PROVE  HeldInv'
<1> TypeOK
    BY DEF IInv
<1> SUFFICES ASSUME NEW c \in held' PROVE Claimed(c.row, c.claim, c.poller)'
    BY DEF HeldInv, Claimed
<1>1. CASE c \in held
    <2>1. Claimed(c.row, c.claim, c.poller) /\ c.row \in Rows
        BY <1>1 DEF IInv, HeldInv, TypeOK, Tickets
    <2> QED
        BY <2>1, ClaimsGrow
<1>2. ASSUME NEW p \in Pollers, AnswerClaim(p), c \notin held
      PROVE  Claimed(c.row, c.claim, c.poller)'
    <2>1. /\ c = [poller |-> p, row |-> cand[p], claim |-> candClaim[p],
                  until |-> expires[cand[p]]]
          /\ pc[p] = "get"
        BY <1>2 DEF AnswerClaim
    <2>2. Claimed(cand[p], candClaim[p], p)
        BY <2>1 DEF IInv, GetInv
    <2> QED
        BY <1>2, <2>1, <2>2 DEF AnswerClaim, Claimed
<1>3. held' = held \/ \E p \in Pollers : AnswerClaim(p)
    BY DEF Next, EnqueueNew, EnqueueDuplicate, Cancel, ReclaimExpired, DeleteDevice, Tick,
           SelectJob, WinClaim, LoseClaim, ReportResult, DeletePoller, vars
<1> QED
    BY <1>1, <1>2, <1>3

LEMMA InitInv == Init => IInv
<1> SUFFICES ASSUME Init PROVE IInv
    OBVIOUS
<1> USE DEF Init
<1>1. TypeOK
    <2>1. key \in [Rows -> Keys] /\ answer \in [key : Keys, row : 0 .. MaxRows]
        <3>1. (CHOOSE k \in Keys : TRUE) \in Keys
            BY KeysAssumption
        <3>2. 0 \in 0 .. MaxRows
            BY BoundsAssumption
        <3> QED
            BY <3>1, <3>2
    <2>2. claims \in [Rows -> Seq(Claims)]
        OBVIOUS
    <2>3. held \subseteq Tickets
        OBVIOUS
    <2>4. cand \in [Pollers -> 0 .. MaxRows]
        BY BoundsAssumption
    <2> QED
        BY <2>1, <2>2, <2>3, <2>4 DEF TypeOK, Statuses, Times
<1>2. \A i \in Rows : HistoryInv(i) /\ DeadlineInv(i)
    BY DEF HistoryInv, DeadlineInv
<1>3. \A p \in Pollers : UpdateInv(p) /\ GetInv(p)
    BY DEF UpdateInv, GetInv
<1>4. HeldInv
    BY DEF HeldInv
<1> QED
    BY <1>1, <1>2, <1>3, <1>4 DEF IInv

\* The inductive invariant holds in every reachable state.
THEOREM InductiveInvariant == Spec => []IInv
<1>1. IInv /\ [Next]_vars => IInv'
    <2> SUFFICES ASSUME IInv, [Next]_vars PROVE IInv'
        OBVIOUS
    <2>1. TypeOK'
        BY TypeStep DEF IInv
    <2>2. \A i \in Rows : HistoryInv(i)' /\ DeadlineInv(i)'
        BY RowStep
    <2>3. \A p \in Pollers : UpdateInv(p)' /\ GetInv(p)'
        BY HandlerStep
    <2>4. HeldInv'
        BY HeldStep
    <2> QED
        BY <2>1, <2>2, <2>3, <2>4 DEF IInv
<1> QED
    BY InitInv, <1>1, PTL DEF Spec

\* Type correctness of PollerQueue.
THEOREM TypeCorrect == Spec => []TypeOK
<1>1. IInv => TypeOK
    BY DEF IInv
<1> QED
    BY InductiveInvariant, <1>1, PTL

\* Between two claims of a job lies the deadline of the first, for any number of
\* claims and however slow the statements of a ClaimJob call.
THEOREM ClaimsAreDisjoint == Spec => []ClaimsDoNotOverlap
<1>1. IInv => ClaimsDoNotOverlap
    BY DEF IInv, HistoryInv, ClaimsDoNotOverlap
<1> QED
    BY InductiveInvariant, <1>1, PTL

\* The report that ends a job comes from the poller that claimed it last.
THEOREM OnlyTheHolderEndsAJob == Spec => []ResultIsOfTheHolder
<1>1. IInv => ResultIsOfTheHolder
    BY DEF IInv, HistoryInv, LastClaim, ResultIsOfTheHolder
<1> QED
    BY InductiveInvariant, <1>1, PTL

\* No claim is shorter than the lifetime the job was enqueued with, and none has
\* a deadline that is past when it is made.
THEOREM ClaimsAreLongEnough == Spec => []FullDeadline
<1>1. IInv => FullDeadline
    <2> SUFFICES ASSUME IInv, NEW i \in Rows, status[i] = "claimed"
                 PROVE  /\ expires[i] # NoTime => expires[i] > claimedAt[i]
                        /\ Lasting(ttl[i]) =>
                              expires[i] # NoTime /\ expires[i] - claimedAt[i] >= ttl[i]
        BY DEF FullDeadline, Lasting
    <2>1. DeadlineInv(i)
        BY DEF IInv
    <2> QED
        BY <2>1 DEF DeadlineInv
<1> QED
    BY InductiveInvariant, <1>1, PTL

\* A job that has ended stays as it ended.
THEOREM EndedJobsStay == Spec => EndedIsFinal
<1> DEFINE Stays == \A i \in Rows : status[i] \in Ended =>
                        /\ status'[i] \in {status[i], "deleted"}
                        /\ accepted'[i] = accepted[i]
<1>1. TypeOK /\ [Next]_vars => Stays
    <2> SUFFICES ASSUME TypeOK, [Next]_vars, NEW i \in Rows, status[i] \in Ended
                 PROVE  /\ status'[i] \in {status[i], "deleted"}
                        /\ accepted'[i] = accepted[i]
        OBVIOUS
    <2> USE DEF TypeOK, Ended
    <2>1. CASE EnqueueNew \/ EnqueueDuplicate \/ Tick
        BY <2>1 DEF EnqueueNew, EnqueueDuplicate, Tick, queue
    <2>2. CASE Cancel \/ DeleteDevice
        BY <2>2 DEF Cancel, Cancellable, DeleteDevice
    <2>3. CASE ReclaimExpired
        BY <2>3 DEF ReclaimExpired, Expired
    <2>4. ASSUME NEW p \in Pollers, SelectJob(p) \/ LoseClaim(p) \/ AnswerClaim(p) \/ DeletePoller(p)
          PROVE  status' = status /\ accepted' = accepted
        BY <2>4 DEF SelectJob, LoseClaim, AnswerClaim, DeletePoller, queue
    <2>5. ASSUME NEW p \in Pollers, WinClaim(p)
          PROVE  status'[i] = status[i] /\ accepted' = accepted
        BY <2>5 DEF WinClaim, Claimable
    <2>6. ASSUME NEW p \in Pollers, ReportResult(p)
          PROVE  status'[i] = status[i] /\ accepted'[i] = accepted[i]
        BY <2>6 DEF ReportResult, OwnedBy
    <2>7. CASE UNCHANGED vars
        BY <2>7 DEF vars, queue
    <2> QED
        BY <2>1, <2>2, <2>3, <2>4, <2>5, <2>6, <2>7 DEF Next
<1>2. TypeOK /\ [Next]_vars => [Stays]_vars
    BY <1>1
<1> QED
    BY TypeCorrect, <1>2, PTL DEF Spec, EndedIsFinal

--------------------------------------------------------------------------------
(***************************************************************************)
(* The table implements the queue of PollerQueueSpec.  What makes the      *)
(* mapping work is that a key has one row: an INSERT needs a key that the  *)
(* table does not hold, and no other statement writes a key.               *)
(***************************************************************************)

Present(i) == status[i] \notin {"free", "deleted"}

OneRowPerKey ==
    \A i, j \in Rows : Present(i) /\ Present(j) /\ key[i] = key[j] => i = j

StateMap == [k \in Keys |-> StateOf(k)]
HolderMap == [k \in Keys |-> HolderOf(k)]

LEMMA KeyWithRow ==
    ASSUME OneRowPerKey, NEW i \in Rows, Present(i)
    PROVE  /\ Existing(key[i]) = {i} /\ RowOf(key[i]) = i
           /\ StateOf(key[i]) = status[i] /\ HolderOf(key[i]) = owner[i]
<1>1. Existing(key[i]) = {i}
    BY DEF OneRowPerKey, Existing, Present
<1>2. RowOf(key[i]) = i
    BY <1>1 DEF RowOf
<1> QED
    BY <1>1, <1>2 DEF StateOf, HolderOf

\* The same two facts of the state after a step.
LEMMA KeyWithRowAfter ==
    ASSUME OneRowPerKey', NEW i \in Rows, Present(i)', NEW k, key'[i] = k
    PROVE  StateOf(k)' = status'[i] /\ HolderOf(k)' = owner'[i]
<1>1. Existing(k)' = {i}
    BY DEF OneRowPerKey, Existing, Present
<1>2. RowOf(k)' = i
    BY <1>1 DEF RowOf
<1> QED
    BY <1>1, <1>2 DEF StateOf, HolderOf

\* A step that writes no key and brings no row to life keeps rows apart.
LEMMA KeysStay ==
    ASSUME OneRowPerKey, key' = key, \A i \in Rows : Present(i)' => Present(i)
    PROVE  OneRowPerKey'
BY DEF OneRowPerKey, Present

\* A step that writes status and owner of one row writes the state of its key.
LEMMA OneKeyChanges ==
    ASSUME OneRowPerKey, OneRowPerKey', NEW i \in Rows, NEW k \in Keys,
           key'[i] = k,
           Present(i) => key[i] = k,
           ~Present(i) => Existing(k) = {},
           \A j \in Rows \ {i} : key'[j] = key[j] /\ status'[j] = status[j] /\ owner'[j] = owner[j]
    PROVE  /\ Present(i)' => /\ StateMap' = [StateMap EXCEPT ![k] = status'[i]]
                             /\ HolderMap' = [HolderMap EXCEPT ![k] = owner'[i]]
           /\ ~Present(i)' => /\ StateMap' = [StateMap EXCEPT ![k] = "none"]
                              /\ HolderMap' = [HolderMap EXCEPT ![k] = NoPoller]
<1>1. ASSUME NEW q \in Keys, q # k
      PROVE  StateOf(q)' = StateOf(q) /\ HolderOf(q)' = HolderOf(q)
    <2>1. Existing(q)' = Existing(q) /\ i \notin Existing(q)
        BY <1>1 DEF Existing, Present
    <2>2. RowOf(q)' = RowOf(q) /\ (Existing(q) # {} => RowOf(q) \in Rows \ {i})
        BY <2>1 DEF RowOf, Existing
    <2> QED
        BY <2>1, <2>2 DEF StateOf, HolderOf
<1>2. CASE Present(i)'
    <2>1. StateOf(k)' = status'[i] /\ HolderOf(k)' = owner'[i]
        BY <1>2, KeyWithRowAfter
    <2>2. \A q \in Keys : StateMap'[q] = IF q = k THEN status'[i] ELSE StateMap[q]
        BY <1>1, <2>1 DEF StateMap
    <2>3. \A q \in Keys : HolderMap'[q] = IF q = k THEN owner'[i] ELSE HolderMap[q]
        BY <1>1, <2>1 DEF HolderMap
    <2> QED
        BY <1>2, <2>2, <2>3 DEF StateMap, HolderMap
<1>3. CASE ~Present(i)'
    <2>1. Existing(k)' = {}
        <3>1. \A j \in Rows \ {i} : ~(Present(j) /\ key[j] = k)
            BY DEF OneRowPerKey, Existing, Present
        <3>2. \A j \in Rows \ {i} : status'[j] = status[j] /\ key'[j] = key[j]
            OBVIOUS
        <3>3. status'[i] \in {"free", "deleted"}
            BY <1>3 DEF Present
        <3> QED
            BY <3>1, <3>2, <3>3 DEF Existing, Present
    <2>2. StateOf(k)' = "none" /\ HolderOf(k)' = NoPoller
        BY <2>1 DEF StateOf, HolderOf
    <2>3. \A q \in Keys : StateMap'[q] = IF q = k THEN "none" ELSE StateMap[q]
        BY <1>1, <2>2 DEF StateMap
    <2>4. \A q \in Keys : HolderMap'[q] = IF q = k THEN NoPoller ELSE HolderMap[q]
        BY <1>1, <2>2 DEF HolderMap
    <2> QED
        BY <1>3, <2>3, <2>4 DEF StateMap, HolderMap
<1> QED
    BY <1>2, <1>3

LEMMA EnqueueSimulates ==
    ASSUME IInv, OneRowPerKey, EnqueueNew
    PROVE  OneRowPerKey' /\ Queue!Next
<1>1. PICK k \in Keys, i \in Rows :
        /\ Existing(k) = {} /\ status[i] = "free"
        /\ key' = [key EXCEPT ![i] = k] /\ status' = [status EXCEPT ![i] = "queued"]
        /\ owner' = owner
    BY DEF EnqueueNew
<1>2. /\ key'[i] = k /\ status'[i] = "queued" /\ owner'[i] = owner[i]
      /\ \A j \in Rows \ {i} : key'[j] = key[j] /\ status'[j] = status[j] /\ owner'[j] = owner[j]
    BY <1>1 DEF IInv, TypeOK
<1>3. OneRowPerKey'
    <2>1. \A j \in Rows \ {i} : Present(j) => key[j] # k
        BY <1>1 DEF Existing, Present
    <2> QED
        BY <1>2, <2>1 DEF OneRowPerKey, Present
<1>4. owner[i] = NoPoller
    BY <1>1 DEF IInv, HistoryInv
<1>5. Present(i)' /\ ~Present(i)
    BY <1>1, <1>2 DEF Present
<1>6. /\ StateMap' = [StateMap EXCEPT ![k] = "queued"]
      /\ HolderMap' = [HolderMap EXCEPT ![k] = NoPoller]
    BY <1>1, <1>2, <1>3, <1>4, <1>5, OneKeyChanges
<1>7. StateMap[k] = "none"
    BY <1>1 DEF StateMap, StateOf
<1>8. Queue!Add(k)
    BY <1>6, <1>7 DEF Queue!Add, Queue!Become, StateMap, HolderMap
<1> QED
    BY <1>3, <1>8 DEF Queue!Next

\* Steps that write status and owner of one row that is there.
LEMMA RowStepSimulates ==
    ASSUME IInv, OneRowPerKey,
           \/ Cancel \/ DeleteDevice
           \/ \E p \in Pollers : WinClaim(p) \/ ReportResult(p)
    PROVE  OneRowPerKey' /\ Queue!Next
<1> DEFINE Writes(i, s, o) ==
        /\ Present(i) /\ status[i] # "running" /\ key' = key
        /\ status' = [status EXCEPT ![i] = s] /\ owner' = [owner EXCEPT ![i] = o]
        /\ \/ status[i] \in Cancellable /\ s = "cancelled" /\ o = owner[i]
           \/ s = "deleted" /\ o = NoPoller
           \/ o \in Pollers /\ status[i] = "queued" /\ s = "claimed"
           \/ o \in Pollers /\ status[i] = "claimed" /\ owner[i] = o /\ s \in {"done", "failed"}
<1>1. PICK i \in Rows, s \in Statuses, o \in Pollers \cup {NoPoller} : Writes(i, s, o)
    <2> USE DEF Present
    <2>0. \A i \in Rows : /\ status[i] # "running" /\ owner = [owner EXCEPT ![i] = owner[i]]
                         /\ owner[i] \in Pollers \cup {NoPoller}
        BY DEF IInv, TypeOK, HistoryInv
    <2>1. CASE Cancel
        <3>1. PICK i \in Rows : /\ status[i] \in Cancellable
                                /\ status' = [status EXCEPT ![i] = "cancelled"]
                                /\ UNCHANGED <<key, owner>>
            BY <2>1 DEF Cancel
        <3>2. Writes(i, "cancelled", owner[i])
            BY <2>0, <3>1 DEF Cancellable
        <3> QED
            BY <2>0, <3>2 DEF Statuses
    <2>2. CASE DeleteDevice
        <3>1. PICK i \in Rows : /\ status[i] \notin {"free", "deleted"} /\ key' = key
                                /\ status' = [status EXCEPT ![i] = "deleted"]
                                /\ owner' = [owner EXCEPT ![i] = NoPoller]
            BY <2>2 DEF DeleteDevice
        <3>2. Writes(i, "deleted", NoPoller)
            BY <2>0, <3>1
        <3> QED
            BY <3>2 DEF Statuses
    <2>3. ASSUME NEW p \in Pollers, WinClaim(p)
          PROVE  \E i \in Rows, s \in Statuses, o \in Pollers \cup {NoPoller} : Writes(i, s, o)
        <3>1. /\ cand[p] \in Rows /\ status[cand[p]] = "queued" /\ key' = key
              /\ status' = [status EXCEPT ![cand[p]] = "claimed"]
              /\ owner' = [owner EXCEPT ![cand[p]] = p]
            BY <2>3 DEF WinClaim, Claimable, IInv, TypeOK
        <3>2. Writes(cand[p], "claimed", p)
            BY <3>1
        <3> QED
            BY <3>1, <3>2 DEF Statuses
    <2>4. ASSUME NEW p \in Pollers, ReportResult(p)
          PROVE  \E i \in Rows, s \in Statuses, o \in Pollers \cup {NoPoller} : Writes(i, s, o)
        <3>1. PICK c \in held, success \in BOOLEAN :
                 /\ OwnedBy(p, c.row) /\ key' = key /\ owner' = owner
                 /\ status' = [status EXCEPT ![c.row] = ResultStatus(success)]
            BY <2>4 DEF ReportResult
        <3>2. c.row \in Rows
            BY DEF IInv, TypeOK, Tickets
        <3>3. /\ status[c.row] = "claimed" /\ owner[c.row] = p
              /\ owner' = [owner EXCEPT ![c.row] = p]
              /\ ResultStatus(success) \in {"done", "failed"}
            BY <2>0, <3>1, <3>2 DEF OwnedBy, ResultStatus
        <3>4. Writes(c.row, ResultStatus(success), p)
            BY <3>1, <3>2, <3>3
        <3> QED
            BY <3>2, <3>3, <3>4 DEF Statuses
    <2> QED
        BY <2>1, <2>2, <2>3, <2>4
<1>2. /\ status'[i] = s /\ owner'[i] = o /\ key[i] \in Keys
      /\ \A j \in Rows \ {i} : key'[j] = key[j] /\ status'[j] = status[j] /\ owner'[j] = owner[j]
    BY <1>1 DEF IInv, TypeOK
<1>3. OneRowPerKey'
    BY <1>1, <1>2, KeysStay DEF Present
<1>4. Present(i)' <=> s # "deleted"
    BY <1>1, <1>2 DEF Present, Cancellable
<1>5. /\ StateMap[key[i]] = status[i] /\ HolderMap[key[i]] = owner[i]
    BY <1>1, <1>2, KeyWithRow DEF StateMap, HolderMap
<1>6. /\ s # "deleted" => /\ StateMap' = [StateMap EXCEPT ![key[i]] = s]
                          /\ HolderMap' = [HolderMap EXCEPT ![key[i]] = o]
      /\ s = "deleted" => /\ StateMap' = [StateMap EXCEPT ![key[i]] = "none"]
                          /\ HolderMap' = [HolderMap EXCEPT ![key[i]] = NoPoller]
    BY <1>1, <1>2, <1>3, <1>4, OneKeyChanges
<1>7. CASE status[i] \in Cancellable /\ s = "cancelled" /\ o = owner[i]
    <2>1. Queue!Drop(key[i])
        BY <1>2, <1>5, <1>6, <1>7 DEF Queue!Drop, Queue!Become, StateMap, HolderMap, Cancellable
    <2> QED
        BY <1>2, <1>3, <2>1 DEF Queue!Next
<1>8. CASE s = "deleted" /\ o = NoPoller
    <2>1. status[i] # "none"
        BY DEF IInv, TypeOK, Statuses
    <2>2. Queue!Remove(key[i])
        BY <1>2, <1>5, <1>6, <1>8, <2>1 DEF Queue!Remove, Queue!Become, StateMap, HolderMap
    <2> QED
        BY <1>2, <1>3, <2>2 DEF Queue!Next
<1>9. CASE o \in Pollers /\ status[i] = "queued" /\ s = "claimed"
    <2>1. Queue!Take(key[i], o)
        BY <1>2, <1>5, <1>6, <1>9 DEF Queue!Take, Queue!Become, StateMap, HolderMap
    <2> QED
        BY <1>2, <1>3, <1>9, <2>1 DEF Queue!Next
<1>10. CASE o \in Pollers /\ status[i] = "claimed" /\ owner[i] = o /\ s \in {"done", "failed"}
    <2>1. Queue!Finish(key[i], o)
        BY <1>2, <1>5, <1>6, <1>10 DEF Queue!Finish, Queue!Become, StateMap, HolderMap
    <2> QED
        BY <1>2, <1>3, <1>10, <2>1 DEF Queue!Next
<1> QED
    BY <1>1, <1>7, <1>8, <1>9, <1>10

\* One UPDATE for all expired claims gives their keys back at once.
LEMMA ReclaimSimulates ==
    ASSUME IInv, OneRowPerKey, ReclaimExpired
    PROVE  OneRowPerKey' /\ Queue!Next
<1>1. /\ \A i \in Rows : /\ status'[i] = IF Expired(i) THEN "queued" ELSE status[i]
                         /\ owner'[i] = IF Expired(i) THEN NoPoller ELSE owner[i]
      /\ key' = key
    BY DEF ReclaimExpired
<1>2. \A i \in Rows : Expired(i) => status[i] = "claimed" /\ Present(i)
    BY DEF Expired, Present
<1>3. \A i \in Rows : Present(i)' <=> Present(i)
    BY <1>1, <1>2 DEF Present
<1>4. OneRowPerKey'
    BY <1>1, <1>3, KeysStay
<1> DEFINE ks == {k \in Keys : \E i \in Rows : key[i] = k /\ Expired(i)}
<1>5. ASSUME NEW k \in Keys
      PROVE  /\ k \in ks => StateOf(k) = "claimed"
             /\ StateOf(k)' = IF k \in ks THEN "queued" ELSE StateOf(k)
             /\ HolderOf(k)' = IF k \in ks THEN NoPoller ELSE HolderOf(k)
    <2>1. CASE Existing(k) = {}
        <3>1. k \notin ks
            BY <1>2, <2>1 DEF Existing, Present
        <3>2. Existing(k)' = {}
            BY <1>1, <1>3, <2>1 DEF Existing, Present
        <3> QED
            BY <2>1, <3>1, <3>2 DEF StateOf, HolderOf
    <2>2. ASSUME NEW i \in Rows, Present(i), key[i] = k
          PROVE  /\ k \in ks => StateOf(k) = "claimed"
                 /\ StateOf(k)' = IF k \in ks THEN "queued" ELSE StateOf(k)
                 /\ HolderOf(k)' = IF k \in ks THEN NoPoller ELSE HolderOf(k)
        <3>1. StateOf(k) = status[i] /\ HolderOf(k) = owner[i]
            BY <2>2, KeyWithRow
        <3>2. StateOf(k)' = status'[i] /\ HolderOf(k)' = owner'[i]
            <4>1. Present(i)' /\ key'[i] = k
                BY <1>1, <1>3, <2>2
            <4> QED
                BY <1>4, <4>1, KeyWithRowAfter
        <3>3. k \in ks <=> Expired(i)
            BY <1>2, <2>2 DEF OneRowPerKey
        <3> HIDE DEF ks
        <3> QED
            BY <1>1, <1>2, <3>1, <3>2, <3>3
    <2>3. Existing(k) # {} => \E i \in Rows : Present(i) /\ key[i] = k
        BY DEF Existing, Present
    <2> HIDE DEF ks
    <2> QED
        BY <2>1, <2>2, <2>3
<1>6. ks \in SUBSET Keys
    OBVIOUS
<1> HIDE DEF ks
<1>7. /\ \A k \in ks : StateMap[k] = "claimed"
      /\ StateMap' = [k \in Keys |-> IF k \in ks THEN "queued" ELSE StateMap[k]]
      /\ HolderMap' = [k \in Keys |-> IF k \in ks THEN NoPoller ELSE HolderMap[k]]
    BY <1>5, <1>6 DEF StateMap, HolderMap
<1>8. Queue!GiveBack(ks)
    BY <1>7 DEF Queue!GiveBack, StateMap, HolderMap
<1> QED
    BY <1>4, <1>6, <1>8 DEF Queue!Next

LEMMA DeletePollerSimulates ==
    ASSUME IInv, OneRowPerKey, NEW p \in Pollers, DeletePoller(p)
    PROVE  OneRowPerKey' /\ Queue!Next
<1>1. /\ \A i \in Rows : owner'[i] = IF owner[i] = p THEN NoPoller ELSE owner[i]
      /\ UNCHANGED <<key, status>>
    BY DEF DeletePoller
<1>2. OneRowPerKey'
    BY <1>1, KeysStay DEF Present
<1>3. ASSUME NEW k \in Keys
      PROVE  /\ StateOf(k)' = StateOf(k)
             /\ HolderOf(k)' = IF HolderOf(k) = p THEN NoPoller ELSE HolderOf(k)
    <2>1. Existing(k)' = Existing(k)
        BY <1>1 DEF Existing
    <2>2. RowOf(k)' = RowOf(k) /\ (Existing(k) # {} => RowOf(k) \in Rows)
        BY <2>1 DEF RowOf, Existing
    <2> QED
        BY <1>1, <2>1, <2>2 DEF StateOf, HolderOf
<1>4. /\ StateMap' = StateMap
      /\ HolderMap' = [k \in Keys |-> IF HolderMap[k] = p THEN NoPoller ELSE HolderMap[k]]
    BY <1>3 DEF StateMap, HolderMap
<1>5. Queue!Forget(p)
    BY <1>4 DEF Queue!Forget, StateMap, HolderMap
<1> QED
    BY <1>2, <1>5 DEF Queue!Next

\* Whatever the interleaving of its statements, the table is, told by key, the
\* queue of PollerQueueSpec: each key enqueued once, held by one poller at a time
\* and ended by its holder.
THEOREM TableImplementsQueue == Spec => ImplementsQueue
<1>1. Init => OneRowPerKey /\ Queue!Init
    <2> SUFFICES ASSUME Init PROVE OneRowPerKey /\ Queue!Init
        OBVIOUS
    <2>1. \A i \in Rows : status[i] = "free"
        BY DEF Init
    <2>2. OneRowPerKey /\ \A k \in Keys : Existing(k) = {}
        BY <2>1 DEF OneRowPerKey, Present, Existing
    <2> QED
        BY <2>2 DEF Queue!Init, StateOf, HolderOf
<1>2. IInv /\ OneRowPerKey /\ [Next]_vars =>
        OneRowPerKey' /\ [Queue!Next]_<<StateMap, HolderMap>>
    <2> SUFFICES ASSUME IInv, OneRowPerKey, [Next]_vars
                 PROVE  /\ OneRowPerKey'
                        /\ Queue!Next \/ UNCHANGED <<StateMap, HolderMap>>
        OBVIOUS
    <2>1. ASSUME UNCHANGED <<key, status, owner>>
          PROVE  OneRowPerKey' /\ UNCHANGED <<StateMap, HolderMap>>
        BY <2>1 DEF OneRowPerKey, Present, StateMap, HolderMap, StateOf, HolderOf, RowOf, Existing
    <2>2. ASSUME EnqueueDuplicate \/ Tick PROVE UNCHANGED <<key, status, owner>>
        BY <2>2 DEF EnqueueDuplicate, Tick, queue
    <2>3. ASSUME NEW p \in Pollers, SelectJob(p) \/ LoseClaim(p) \/ AnswerClaim(p)
          PROVE  UNCHANGED <<key, status, owner>>
        BY <2>3 DEF SelectJob, LoseClaim, AnswerClaim, queue
    <2>4. CASE UNCHANGED vars
        BY <2>1, <2>4 DEF vars, queue
    <2> QED
        BY <2>1, <2>2, <2>3, <2>4, EnqueueSimulates, RowStepSimulates, ReclaimSimulates,
           DeletePollerSimulates DEF Next
<1>3. [Queue!Next]_<<StateMap, HolderMap>> =>
        [Queue!Next]_<<[k \in Keys |-> StateOf(k)], [k \in Keys |-> HolderOf(k)]>>
    BY DEF StateMap, HolderMap
<1> QED
    BY <1>1, <1>2, <1>3, InductiveInvariant, PTL DEF Spec, ImplementsQueue, Queue!Spec

================================================================================
