------------------------------ MODULE AuthorityProofs ----------------------------
(***************************************************************************)
(* Proofs about who may act.  Access: which user a request acts as, for    *)
(* every set of users and requests, every lifetime of a session, a token   *)
(* or a challenge.  SchedulerLease: which replica runs the jobs, for every *)
(* set of replicas and jobs, every lifetime of the lease and every delay   *)
(* of a statement below it.                                                *)
(*                                                                         *)
(* A request carries what it has read from one statement to the next while *)
(* the rows change under it.  The inductive invariant AccessInv says, per  *)
(* statement, what of it is still the case (KnowsWho, StillOver) and what  *)
(* was the case at some moment of the request (HasProved).  It rests on    *)
(* what only grows: a token's owner never changes, what is over stays      *)
(* over, ids and keys are never used again.                                *)
(***************************************************************************)
EXTENDS Access, SchedulerLease, FiniteSetTheorems, TLAPS

LoginSteps == {"factor", "challenge", "challenged", "code", "consume", "session"}
Handlers == {"bearer handler", "cookie handler"}
Statements == LoginSteps \cup Handlers \cup {"idle", "token", "owner", "cookie"}

\* The tables. An administrator issued every token; a session whose logout was
\* answered is deleted, or its cookie is of the key of an earlier start.
TablesInv ==
    /\ AccessTypeOK
    /\ \A t \in 1 .. Len(tokens) : tokens[t].owner \in Admins
    /\ \A c \in 1 .. Len(cookies) : cookies[c] <= key
    /\ \A c \in loggedOut :
           c \in 1 .. Len(cookies) /\ (Has(sessions, c) => cookies[c] < key)

Sent == [user : Users \cup {NoUser}, cookie : 0 .. Len(cookies), bearer : 0 .. Len(tokens),
         challenge : 0 .. asked, code : BOOLEAN,
         unread : BOOLEAN]
Seen == [off : BOOLEAN, live : BOOLEAN, cookieOver : BOOLEAN, tokenOver : BOOLEAN]

\* What a request knows at its next statement.
KnowsWho(r) ==
    LET l == local[r] IN
    /\ step[r] \in LoginSteps => l.cookie = 0 /\ l.bearer = 0
    /\ step[r] \in (LoginSteps \ {"challenged"}) \cup Handlers => l.user \in Users
    /\ step[r] = "challenged" => l.challenge # 0
    /\ step[r] = "cookie" => l.cookie # 0
    /\ step[r] \in {"token", "owner", "bearer handler"} => l.bearer # 0
    /\ step[r] = "bearer handler" => l.user = tokens[l.bearer].owner

\* What it has proved of its user by then.
HasProved(r) ==
    LET w == watch[r] IN
    /\ step[r] \in {"code", "consume"} => w.live
    /\ step[r] = "consume" => local[r].code
    /\ step[r] = "session" => Earned(r)

\* A right that had ended when the request began has still ended at the statement
\* that looks, and a token that passed had not.
StillOver(r) ==
    LET l == local[r]
        w == watch[r]
    IN
    /\ step[r] = "token" /\ w.tokenOver => TokenOver(l.bearer)
    /\ step[r] = "owner" => ~w.tokenOver
    /\ step[r] \in {"token", "owner", "cookie"} /\ l.cookie # 0 /\ w.cookieOver
           => CookieOver(l.cookie)

RequestInv(r) ==
    /\ step[r] \in Statements /\ local[r] \in Sent /\ watch[r] \in Seen
    /\ KnowsWho(r) /\ HasProved(r) /\ StillOver(r)

RequestsInv ==
    /\ DOMAIN step = Requests /\ DOMAIN local = Requests /\ DOMAIN watch = Requests
    /\ \A r \in Requests : RequestInv(r)

AccessInv == TablesInv /\ RequestsInv /\ earned /\ ~relied /\ ~bypassed

LEMMA AccessConsts ==
    /\ Admins \subseteq Users /\ Admins \subseteq Writers /\ NoUser \notin Users
    /\ IsFiniteSet(Admins)
    /\ SessionTTL \in Nat /\ ChallengeTTL \in Nat /\ \A ttl \in TokenTTLs : ttl \in Nat
    /\ MaxTime \in Nat /\ MaxKeys \in Nat
BY RolesAssumption, LifetimesAssumption, BoundsAssumption

TokenRow == [owner : Users, direct : BOOLEAN, expires : Nat, revoked : BOOLEAN]

LEMMA ElementOfRows ==
    ASSUME NEW S, NEW s \in Seq(S), NEW i \in 1 .. Len(s)
    PROVE  s[i] \in S
OBVIOUS

LEMMA TokensTyped ==
    ASSUME TablesInv
    PROVE  /\ tokens \in Seq(TokenRow) /\ Len(tokens) \in Nat
           /\ \A t \in 1 .. Len(tokens) : tokens[t] \in TokenRow
<1>1. tokens \in Seq(TokenRow)
    BY DEF TablesInv, AccessTypeOK, TokenRow
<1> QED
    BY <1>1, ElementOfRows

LEMMA AccessInitInv == AccessInit => AccessInv
<1> SUFFICES ASSUME AccessInit PROVE AccessInv
    OBVIOUS
<1>1. secrets \in Nat /\ secret \in [Users -> Nat]
    <2>1. PICK enrolled \in SUBSET Admins :
              secrets = Cardinality(enrolled) /\ secret \in [Users -> 0 .. secrets]
        BY DEF AccessInit
    <2>2. IsFiniteSet(enrolled)
        BY <2>1, AccessConsts, FS_Subset
    <2>3. secrets \in Nat
        BY <2>1, <2>2, FS_CardinalityType
    <2> QED
        BY <2>1, <2>3
<1>2. /\ tokens \in Seq([owner : Users, direct : BOOLEAN, expires : Nat, revoked : BOOLEAN])
      /\ \A t \in 1 .. Len(tokens) : tokens[t].owner \in Admins
    <2>1. CASE tokens = <<>>
        BY <2>1
    <2>2. ASSUME NEW a \in Admins, NEW direct \in BOOLEAN, NEW ttl \in TokenTTLs,
                 tokens = <<Token(a, direct, ttl)>>
          PROVE  /\ tokens \in Seq([owner : Users, direct : BOOLEAN,
                                    expires : Nat, revoked : BOOLEAN])
                 /\ \A t \in 1 .. Len(tokens) : tokens[t].owner \in Admins
        <3>1. Token(a, direct, ttl) \in [owner : Users, direct : BOOLEAN,
                                         expires : Nat, revoked : BOOLEAN]
              /\ Token(a, direct, ttl).owner = a
            BY AccessConsts DEF Token
        <3> QED
            BY <2>2, <3>1
    <2>3. tokens = <<>> \/ \E a \in Admins, direct \in BOOLEAN, ttl \in TokenTTLs :
                               tokens = <<Token(a, direct, ttl)>>
        <3>1. tokens \in {<<>>} \cup {<<Token(a, direct, ttl)>> :
                               a \in Admins, direct \in BOOLEAN, ttl \in TokenTTLs}
            BY DEF AccessInit
        <3>2. ASSUME tokens \in {<<Token(a, direct, ttl)>> :
                                   a \in Admins, direct \in BOOLEAN, ttl \in TokenTTLs}
              PROVE  \E a \in Admins, direct \in BOOLEAN, ttl \in TokenTTLs :
                         tokens = <<Token(a, direct, ttl)>>
            BY <3>2
        <3> QED
            BY <3>1, <3>2
    <2> QED
        BY <2>1, <2>2, <2>3
<1>3. TablesInv
    <2>1. sessions = <<>> /\ challenges = <<>> /\ cookies = <<>> /\ asked = 0 /\ now = 0
          /\ key = 1 /\ loggedOut = {}
        BY DEF AccessInit
    <2>2. AccessTypeOK
        BY <1>1, <1>2, <2>1 DEF AccessTypeOK
    <2> QED
        BY <1>2, <2>1, <2>2 DEF TablesInv
<1>4. ASSUME NEW r \in Requests PROVE RequestInv(r)
    <2>1. step[r] = "idle" /\ local[r] = NoLocals /\ watch[r] = NothingSeen
        BY DEF AccessInit
    <2>2. NoLocals \in Sent /\ NothingSeen \in Seen
        BY <1>3 DEF NoLocals, NothingSeen, Sent, Seen, TablesInv, AccessTypeOK
    <2> QED
        BY <2>1, <2>2 DEF RequestInv, KnowsWho, HasProved, StillOver, Statements,
                          LoginSteps, Handlers
<1> QED
    BY <1>3, <1>4 DEF AccessInv, RequestsInv, AccessInit

\* What every step but a start keeps: the owner of a token, that a token or a cookie
\* is over, and every id that was ever given out.
Grows ==
    /\ Len(tokens) <= Len(tokens') /\ Len(cookies) <= Len(cookies') /\ asked <= asked'
    /\ \A t \in 1 .. Len(tokens) :
           tokens'[t].owner = tokens[t].owner /\ (TokenOver(t) => TokenOver(t)')
    /\ \A c \in 1 .. Len(cookies) : CookieOver(c) => CookieOver(c)'

LEMMA TokensGrow ==
    ASSUME TablesInv, now' \in Nat, now <= now',
           \/ UNCHANGED tokens
           \/ \E t \in 1 .. Len(tokens) : Revoke(t)
           \/ \E u, direct, expires : tokens' = Append(tokens, Token(u, direct, expires))
    PROVE  /\ Len(tokens) <= Len(tokens')
           /\ \A t \in 1 .. Len(tokens) :
                  tokens'[t].owner = tokens[t].owner /\ (TokenOver(t) => TokenOver(t)')
<1>1. /\ tokens \in Seq(TokenRow) /\ Len(tokens) \in Nat /\ now \in Nat
      /\ \A t \in 1 .. Len(tokens) : tokens[t] \in TokenRow
    BY TokensTyped DEF TablesInv, AccessTypeOK
<1>2. /\ Len(tokens) <= Len(tokens')
      /\ \A t \in 1 .. Len(tokens) :
             /\ tokens'[t].owner = tokens[t].owner /\ tokens'[t].expires = tokens[t].expires
             /\ tokens[t].revoked => tokens'[t].revoked
    <2>1. CASE UNCHANGED tokens
        BY <1>1, <2>1
    <2>2. ASSUME NEW t \in 1 .. Len(tokens), Revoke(t)
          PROVE  <1>2!1 /\ <1>2!2
        BY <1>1, <2>2 DEF Revoke, TokenRow
    <2>3. ASSUME NEW u, NEW direct, NEW expires,
                 tokens' = Append(tokens, Token(u, direct, expires))
          PROVE  <1>2!1 /\ <1>2!2
        BY <1>1, <2>3
    <2> QED
        BY <2>1, <2>2, <2>3
<1>3. ASSUME NEW t \in 1 .. Len(tokens), TokenOver(t) PROVE TokenOver(t)'
    <2>1. tokens[t].expires \in Nat
        BY <1>1 DEF TokenRow
    <2> QED
        BY <1>1, <1>2, <1>3, <2>1 DEF TokenOver, After
<1> QED
    BY <1>2, <1>3

LEMMA CookiesGrow ==
    ASSUME TablesInv, now' \in Nat, now <= now', key' = key, loggedOut \subseteq loggedOut',
           \/ UNCHANGED <<cookies, sessions>>
           \/ UNCHANGED cookies /\ \E c : sessions' = Without(sessions, c)
           \/ \E row : /\ cookies' = Append(cookies, key)
                       /\ sessions' = With(sessions, Len(cookies) + 1, row)
    PROVE  /\ Len(cookies) <= Len(cookies')
           /\ \A c \in 1 .. Len(cookies) : CookieOver(c) => CookieOver(c)'
<1>1. /\ cookies \in Seq(Nat) /\ Len(cookies) \in Nat /\ now \in Nat
      /\ \A c \in DOMAIN sessions : sessions[c].expires \in Nat
    BY DEF TablesInv, AccessTypeOK
<1>2. /\ Len(cookies) <= Len(cookies')
      /\ \A c \in 1 .. Len(cookies) :
             /\ cookies'[c] = cookies[c]
             /\ c \in DOMAIN sessions' => c \in DOMAIN sessions /\ sessions'[c] = sessions[c]
    <2>1. CASE UNCHANGED <<cookies, sessions>>
        BY <1>1, <2>1
    <2>2. ASSUME NEW d, UNCHANGED cookies, sessions' = Without(sessions, d)
          PROVE  <1>2!1 /\ <1>2!2
        BY <1>1, <2>2 DEF Without
    <2>3. ASSUME NEW row, cookies' = Append(cookies, key),
                 sessions' = With(sessions, Len(cookies) + 1, row)
          PROVE  <1>2!1 /\ <1>2!2
        BY <1>1, <2>3 DEF With
    <2> QED
        BY <2>1, <2>2, <2>3
<1>3. ASSUME NEW c \in 1 .. Len(cookies), CookieOver(c) PROVE CookieOver(c)'
    <2>1. CASE c \in loggedOut \/ ~Signed(c)
        BY <1>2, <2>1 DEF CookieOver, Signed
    <2>2. CASE ~Lives(sessions, c)
        BY <1>1, <1>2, <2>2 DEF CookieOver, Lives, Has, After
    <2> QED
        BY <1>3, <2>1, <2>2 DEF CookieOver
<1> QED
    BY <1>2, <1>3

-----------------------------------------------------------------------------
\* Each table changes in few actions: the lemma gives, per table, what a step does.
LEMMA FactorsStep ==
    ASSUME NEW r \in Requests, Statement(r)
    PROVE  \/ UNCHANGED factors
           \/ InHandler(r) /\ (EnrollMFA(local[r].user) \/ DisableMFA(local[r].user))
BY DEF Statement, Login, CheckFactor, CreateMFAChallenge, CreateSession,
       InsertFails, Verify, ReadChallenge, CheckCode, ConsumeChallenge, Arrive,
       ReadToken, ReadOwner, LookupSession, Answer, handleMFAEnroll,
       handleMFADisable, handleLogout, handleCreateAPIToken, handleDeleteAPIToken,
       handleRunPushGuarded

LEMMA TokensStep ==
    ASSUME NEW r \in Requests, Statement(r)
    PROVE  \/ UNCHANGED tokens
           \/ \E t \in 1 .. Len(tokens) : Revoke(t)
           \/ /\ requireAdmin(r)
              /\ \E direct \in BOOLEAN, ttl \in TokenTTLs :
                     tokens' = Append(tokens, Token(local[r].user, direct, now + ttl))
BY DEF Statement, Login, CheckFactor, CreateMFAChallenge, CreateSession,
       InsertFails, Verify, ReadChallenge, CheckCode, ConsumeChallenge, Arrive,
       ReadToken, ReadOwner, LookupSession, Answer, handleMFAEnroll,
       handleMFADisable, handleLogout, handleCreateAPIToken, handleDeleteAPIToken,
       handleRunPushGuarded, authRows, Issue

LEMMA ChallengesStep ==
    ASSUME NEW r \in Requests, Statement(r)
    PROVE  \/ UNCHANGED <<challenges, asked>>
           \/ UNCHANGED asked /\ \E c : challenges' = Without(challenges, c)
           \/ /\ At(r, "challenge") /\ asked' = asked + 1
              /\ challenges' = With(challenges, asked + 1,
                                    [user |-> local[r].user, expires |-> now + ChallengeTTL])
BY DEF Statement, Login, CheckFactor, CreateMFAChallenge, CreateSession,
       InsertFails, Verify, ReadChallenge, CheckCode, ConsumeChallenge, Arrive,
       ReadToken, ReadOwner, LookupSession, Answer, handleMFAEnroll,
       handleMFADisable, handleLogout, handleCreateAPIToken, handleDeleteAPIToken,
       handleRunPushGuarded, authRows, clients

LEMMA SessionsStep ==
    ASSUME NEW r \in Requests, Statement(r)
    PROVE  /\ key' = key
           /\ \/ UNCHANGED <<sessions, cookies, loggedOut>>
              \/ UNCHANGED <<cookies, loggedOut>> /\ \E c : sessions' = Without(sessions, c)
              \/ /\ At(r, "session") /\ cookies' = Append(cookies, key) /\ UNCHANGED loggedOut
                 /\ sessions' = With(sessions, Len(cookies) + 1,
                                     [user |-> local[r].user, expires |-> now + SessionTTL])
              \/ /\ local[r].cookie # 0 /\ UNCHANGED cookies
                 /\ DestroySession(local[r].cookie)
                 /\ loggedOut' = loggedOut \cup {local[r].cookie}
<1>1. key' = key
    BY DEF Statement, Login, CheckFactor, CreateMFAChallenge, CreateSession,
           InsertFails, Verify, ReadChallenge, CheckCode, ConsumeChallenge, Arrive,
           ReadToken, ReadOwner, LookupSession, Answer, handleMFAEnroll,
           handleMFADisable, handleLogout, handleCreateAPIToken, handleDeleteAPIToken,
           handleRunPushGuarded
<1>2. CASE \E ok \in BOOLEAN : handleLogout(r, ok)
    <2>1. UNCHANGED cookies
        BY <1>2 DEF handleLogout, clients
    <2>2. \/ UNCHANGED <<sessions, loggedOut>>
          \/ /\ local[r].cookie # 0 /\ DestroySession(local[r].cookie)
             /\ loggedOut' = loggedOut \cup {local[r].cookie}
        BY <1>2 DEF handleLogout
    <2> QED
        BY <1>1, <2>1, <2>2
<1>3. CASE CreateSession(r)
    BY <1>1, <1>3 DEF CreateSession
<1>4. CASE \E ok \in BOOLEAN : LookupSession(r, ok)
    BY <1>1, <1>4 DEF LookupSession, clients
<1>5. CASE ~CreateSession(r) /\ \A ok \in BOOLEAN : ~handleLogout(r, ok) /\ ~LookupSession(r, ok)
    <2>1. UNCHANGED <<sessions, cookies, loggedOut>>
        BY <1>5 DEF Statement, Login, CheckFactor, CreateMFAChallenge,
               InsertFails, Verify, ReadChallenge, CheckCode, ConsumeChallenge, Arrive,
               ReadToken, ReadOwner, Answer, handleMFAEnroll,
               handleMFADisable, handleCreateAPIToken, handleDeleteAPIToken,
               handleRunPushGuarded, authRows, clients, history
    <2> QED
        BY <1>1, <2>1
<1> QED
    BY <1>2, <1>3, <1>4, <1>5

LEMMA ClockStep ==
    ASSUME NEW r \in Requests, Statement(r)
    PROVE  now' = now
BY DEF Statement, Login, CheckFactor, CreateMFAChallenge, CreateSession,
       InsertFails, Verify, ReadChallenge, CheckCode, ConsumeChallenge, Arrive,
       ReadToken, ReadOwner, LookupSession, Answer, handleMFAEnroll,
       handleMFADisable, handleLogout, handleCreateAPIToken, handleDeleteAPIToken,
       handleRunPushGuarded

LEMMA TablesStep ==
    ASSUME TablesInv, RequestsInv, NEW r \in Requests, Statement(r)
    PROVE  TablesInv'
<1>1. /\ asked \in Nat /\ now \in Nat /\ key \in Nat /\ cookies \in Seq(Nat)
      /\ Len(cookies) \in Nat /\ secrets \in Nat /\ secret \in [Users -> Nat]
      /\ now' = now /\ key' = key
    <2>1. AccessTypeOK
        BY DEF TablesInv
    <2>2. now' = now /\ key' = key
        BY <2>1, ClockStep, SessionsStep
    <2> QED
        BY <2>1, <2>2 DEF AccessTypeOK
<1>2. /\ step[r] \in {"challenge", "session"} \cup Handlers => local[r].user \in Users
      /\ local[r].cookie \in 0 .. Len(cookies)
    BY DEF RequestsInv, RequestInv, KnowsWho, Sent, LoginSteps, Handlers
<1>3. secret' \in [Users -> Nat] /\ secrets' \in Nat
    <2>1. CASE UNCHANGED factors
        BY <1>1, <2>1 DEF factors
    <2>2. CASE InHandler(r) /\ EnrollMFA(local[r].user)
        <3>1. secrets' = secrets + 1 /\ secret' = [secret EXCEPT ![local[r].user] = secrets + 1]
            BY <2>2 DEF EnrollMFA
        <3>2. secrets + 1 \in Nat
            BY <1>1
        <3> QED
            BY <1>1, <3>1, <3>2
    <2>3. CASE InHandler(r) /\ DisableMFA(local[r].user)
        BY <1>1, <2>3 DEF DisableMFA
    <2> QED
        BY <2>1, <2>2, <2>3, FactorsStep
<1>4. /\ tokens' \in Seq(TokenRow)
      /\ \A t \in 1 .. Len(tokens') : tokens'[t].owner \in Admins
    <2>0. /\ tokens \in Seq(TokenRow) /\ Len(tokens) \in Nat
          /\ \A t \in 1 .. Len(tokens) : tokens[t] \in TokenRow /\ tokens[t].owner \in Admins
        BY TokensTyped DEF TablesInv
    <2>1. CASE UNCHANGED tokens
        BY <2>0, <2>1
    <2>2. ASSUME NEW t \in 1 .. Len(tokens), Revoke(t)
          PROVE  <1>4!1 /\ <1>4!2
        <3>1. [tokens[t] EXCEPT !.revoked = TRUE] \in TokenRow
              /\ [tokens[t] EXCEPT !.revoked = TRUE].owner = tokens[t].owner
            BY <2>0 DEF TokenRow
        <3> QED
            BY <2>0, <2>2, <3>1 DEF Revoke
    <2>3. ASSUME requireAdmin(r), NEW direct \in BOOLEAN, NEW ttl \in TokenTTLs,
                 tokens' = Append(tokens, Token(local[r].user, direct, now + ttl))
          PROVE  <1>4!1 /\ <1>4!2
        <3> DEFINE row == Token(local[r].user, direct, now + ttl)
        <3>1. row \in TokenRow /\ row.owner \in Admins
            BY <1>1, <2>3, AccessConsts DEF Token, TokenRow, requireAdmin
        <3> HIDE DEF row
        <3>2. tokens' = Append(tokens, row)
            BY <2>3 DEF row
        <3> QED
            BY <2>0, <3>1, <3>2
    <2> QED
        BY <2>1, <2>2, <2>3, TokensStep
<1>5. /\ asked' \in Nat /\ DOMAIN challenges' \subseteq 1 .. asked'
      /\ \A c \in DOMAIN challenges' : challenges'[c] \in [user : Users, expires : Nat]
    <2>0. /\ DOMAIN challenges \subseteq 1 .. asked
          /\ \A c \in DOMAIN challenges : challenges[c] \in [user : Users, expires : Nat]
        BY DEF TablesInv, AccessTypeOK
    <2>1. CASE UNCHANGED <<challenges, asked>>
        BY <1>1, <2>0, <2>1
    <2>2. ASSUME NEW c, UNCHANGED asked, challenges' = Without(challenges, c)
          PROVE  <1>5!1 /\ <1>5!2
        BY <1>1, <2>0, <2>2 DEF Without
    <2>3. ASSUME NEW row \in [user : Users, expires : Nat], asked' = asked + 1,
                 challenges' = With(challenges, asked + 1, row)
          PROVE  <1>5!1 /\ <1>5!2
        BY <1>1, <2>0, <2>3 DEF With
    <2>4. At(r, "challenge") =>
              [user |-> local[r].user, expires |-> now + ChallengeTTL]
                  \in [user : Users, expires : Nat]
        BY <1>1, <1>2, AccessConsts DEF At
    <2> QED
        BY <2>1, <2>2, <2>3, <2>4, ChallengesStep
<1>6. /\ cookies' \in Seq(Nat)
      /\ DOMAIN sessions' \subseteq 1 .. Len(cookies')
      /\ \A c \in DOMAIN sessions' : sessions'[c] \in [user : Users, expires : Nat]
      /\ \A c \in 1 .. Len(cookies') : cookies'[c] <= key
      /\ \A c \in loggedOut' :
             c \in 1 .. Len(cookies') /\ (c \in DOMAIN sessions' => cookies'[c] < key)
    <2>0. /\ DOMAIN sessions \subseteq 1 .. Len(cookies)
          /\ \A c \in DOMAIN sessions : sessions[c] \in [user : Users, expires : Nat]
          /\ \A c \in 1 .. Len(cookies) : cookies[c] <= key /\ cookies[c] \in Nat
          /\ \A c \in loggedOut :
                 c \in 1 .. Len(cookies) /\ (c \in DOMAIN sessions => cookies[c] < key)
        <3>1. \A c \in 1 .. Len(cookies) : cookies[c] \in Nat
            BY <1>1
        <3> QED
            BY <3>1 DEF TablesInv, AccessTypeOK, Has
    <2>1. CASE UNCHANGED <<sessions, cookies, loggedOut>>
        BY <1>1, <2>0, <2>1
    <2>2. ASSUME NEW c, UNCHANGED <<cookies, loggedOut>>, sessions' = Without(sessions, c)
          PROVE  <1>6!1 /\ <1>6!2 /\ <1>6!3 /\ <1>6!4 /\ <1>6!5
        BY <1>1, <2>0, <2>2 DEF Without
    <2>3. ASSUME NEW row \in [user : Users, expires : Nat], UNCHANGED loggedOut,
                 cookies' = Append(cookies, key),
                 sessions' = With(sessions, Len(cookies) + 1, row)
          PROVE  <1>6!1 /\ <1>6!2 /\ <1>6!3 /\ <1>6!4 /\ <1>6!5
        <3>1. /\ cookies' \in Seq(Nat) /\ Len(cookies') = Len(cookies) + 1
              /\ \A c \in 1 .. Len(cookies) : cookies'[c] = cookies[c]
              /\ cookies'[Len(cookies) + 1] = key
            BY <1>1, <2>3
        <3>2. /\ DOMAIN sessions' = DOMAIN sessions \cup {Len(cookies) + 1}
              /\ \A c \in DOMAIN sessions : c # Len(cookies) + 1 /\ sessions'[c] = sessions[c]
              /\ sessions'[Len(cookies) + 1] = row
            BY <1>1, <2>0, <2>3 DEF With
        <3> QED
            BY <1>1, <2>0, <2>3, <3>1, <3>2
    <2>4. At(r, "session") =>
              [user |-> local[r].user, expires |-> now + SessionTTL]
                  \in [user : Users, expires : Nat]
        BY <1>1, <1>2, AccessConsts DEF At
    <2>5. ASSUME local[r].cookie # 0, UNCHANGED cookies, DestroySession(local[r].cookie),
                 loggedOut' = loggedOut \cup {local[r].cookie}
          PROVE  <1>6!1 /\ <1>6!2 /\ <1>6!3 /\ <1>6!4 /\ <1>6!5
        <3> PICK d \in 1 .. Len(cookies) : d = local[r].cookie
            BY <1>1, <1>2, <2>5
        <3>1. /\ DOMAIN sessions' \subseteq DOMAIN sessions
              /\ \A c \in DOMAIN sessions' : sessions'[c] = sessions[c]
              /\ cookies[d] = key => d \notin DOMAIN sessions'
            BY <2>5 DEF DestroySession, Without, Signed
        <3>2. cookies[d] <= key /\ cookies[d] \in Nat
            BY <2>0
        <3> QED
            BY <1>1, <2>0, <2>5, <3>1, <3>2
    <2> QED
        BY <2>1, <2>2, <2>3, <2>4, <2>5, SessionsStep
<1> QED
    BY <1>1, <1>3, <1>4, <1>5, <1>6 DEF TablesInv, AccessTypeOK, TokenRow, Has

LEMMA TablesElapse ==
    ASSUME TablesInv, Elapse
    PROVE  TablesInv'
<1>1. now' \in Nat
    BY DEF TablesInv, AccessTypeOK, Elapse
<1> QED
    BY <1>1 DEF TablesInv, AccessTypeOK, Elapse, factors, authRows, clients, requests, history, Has

\* A start draws a key that was never used, or keeps its own.
LEMMA TablesNewService ==
    ASSUME TablesInv, NewService
    PROVE  TablesInv'
<1>1. key \in Nat /\ key' \in Nat /\ key <= key' /\ \A c \in 1 .. Len(cookies) : cookies[c] \in Nat
    BY DEF TablesInv, AccessTypeOK, NewService
<1>2. AccessTypeOK'
    BY <1>1 DEF TablesInv, AccessTypeOK, NewService, factors, authRows, clients
<1> QED
    BY <1>1, <1>2 DEF TablesInv, NewService, authRows, clients, history, Has

LEMMA StatementsGrow ==
    ASSUME TablesInv, Elapse \/ \E r \in Requests : Statement(r)
    PROVE  Grows
<1>1. now \in Nat /\ asked \in Nat /\ AccessTypeOK
    BY DEF TablesInv, AccessTypeOK
<1>2. CASE Elapse
    <2>1. /\ now' = now + 1 /\ asked' = asked /\ key' = key
          /\ UNCHANGED <<tokens, cookies, sessions, loggedOut>>
        BY <1>2 DEF Elapse, authRows, clients, history
    <2>2. now' \in Nat /\ now <= now' /\ asked <= asked'
        BY <1>1, <2>1
    <2> QED
        BY <2>1, <2>2, TokensGrow, CookiesGrow DEF Grows
<1>3. ASSUME NEW r \in Requests, Statement(r) PROVE Grows
    <2>1. now' = now /\ key' = key
        BY <1>1, <1>3, ClockStep, SessionsStep
    <2>2. asked <= asked'
        <3>1. asked' = asked \/ asked' = asked + 1
            BY <1>3, ChallengesStep
        <3> QED
            BY <1>1, <3>1
    <2>3. \/ UNCHANGED tokens
          \/ \E t \in 1 .. Len(tokens) : Revoke(t)
          \/ \E u, direct, expires : tokens' = Append(tokens, Token(u, direct, expires))
        BY <1>3, TokensStep
    <2>4. loggedOut \subseteq loggedOut'
        BY <1>3, SessionsStep
    <2>5. \/ UNCHANGED <<cookies, sessions>>
          \/ UNCHANGED cookies /\ \E c : sessions' = Without(sessions, c)
          \/ \E row : /\ cookies' = Append(cookies, key)
                      /\ sessions' = With(sessions, Len(cookies) + 1, row)
        BY <1>3, SessionsStep DEF DestroySession
    <2>6. now' \in Nat /\ now <= now'
        BY <1>1, <2>1
    <2> QED
        BY <2>1, <2>2, <2>3, <2>4, <2>5, <2>6, TokensGrow, CookiesGrow DEF Grows
<1> QED
    BY <1>2, <1>3

-----------------------------------------------------------------------------
\* What Observe records of a request that goes from one statement to the next.
LEMMA WatchMoves ==
    ASSUME Observe, NEW r \in Requests, watch[r] \in Seen, NEW l, local'[r] = l
    PROVE  /\ watch'[r] \in Seen
           /\ step'[r] = "idle" => watch'[r] = NothingSeen
           /\ step[r] # "idle" /\ step'[r] # "idle" =>
                  /\ watch'[r].cookieOver = watch[r].cookieOver
                  /\ watch'[r].tokenOver = watch[r].tokenOver
                  /\ watch[r].off => watch'[r].off
                  /\ watch[r].live => watch'[r].live
                  /\ l.cookie = 0 /\ l.bearer = 0 /\ l.user \in Users /\ ~MFAEnabled(l.user)'
                         => watch'[r].off
                  /\ l.challenge # 0 /\ Lives(challenges, l.challenge)
                     /\ UNCHANGED <<challenges, now>> => watch'[r].live
           /\ step[r] = "idle" /\ step'[r] # "idle" =>
                  /\ watch'[r].cookieOver => CookieOver(l.cookie)'
                  /\ watch'[r].tokenOver => TokenOver(l.bearer)'
<1> DEFINE M == Moment(r)'
<1>1. /\ M \in Seen
      /\ M.cookieOver => CookieOver(l.cookie)'
      /\ M.tokenOver => TokenOver(l.bearer)'
      /\ l.cookie = 0 /\ l.bearer = 0 /\ l.user \in Users /\ ~MFAEnabled(l.user)' => M.off
      /\ l.challenge # 0 /\ Lives(challenges, l.challenge) /\ UNCHANGED <<challenges, now>>
             => M.live
    <2>1. Lives(challenges, l.challenge) /\ UNCHANGED <<challenges, now>>
              => Lives(challenges, l.challenge)'
        BY DEF Lives, Has, After
    <2> QED
        BY <2>1 DEF Moment, Seen
<1>2. watch'[r] = IF step'[r] = "idle" THEN NothingSeen
                  ELSE IF step[r] = "idle" THEN M
                  ELSE [watch[r] EXCEPT !.off = @ \/ M.off, !.live = @ \/ M.live]
    BY DEF Observe
<1>3. NothingSeen \in Seen
    BY DEF NothingSeen, Seen
<1> HIDE DEF M
<1>4. CASE step'[r] = "idle"
    BY <1>2, <1>3, <1>4
<1>5. CASE step'[r] # "idle" /\ step[r] = "idle"
    BY <1>1, <1>2, <1>5
<1>6. CASE step'[r] # "idle" /\ step[r] # "idle"
    BY <1>1, <1>2, <1>6 DEF Seen
<1> QED
    BY <1>4, <1>5, <1>6

\* A request that stays at its statement.
LEMMA RequestWaits ==
    ASSUME TablesInv, TablesInv', NEW r \in Requests, RequestInv(r), Observe, Grows,
           step'[r] = step[r], local'[r] = local[r]
    PROVE  RequestInv(r)'
<1> PICK l \in Sent : l = local[r]
    BY DEF RequestInv
<1>0. local'[r] = l
    OBVIOUS
<1>1. watch[r] \in Seen /\ step[r] \in Statements
    BY DEF RequestInv
<1>2. /\ watch'[r] \in Seen
      /\ step[r] # "idle" =>
                  /\ watch'[r].cookieOver = watch[r].cookieOver
                  /\ watch'[r].tokenOver = watch[r].tokenOver
                  /\ watch[r].off => watch'[r].off
                  /\ watch[r].live => watch'[r].live
    BY <1>0, <1>1, WatchMoves
<1>3. Len(tokens) \in Nat /\ Len(cookies) \in Nat /\ asked \in Nat
    BY TokensTyped DEF TablesInv, AccessTypeOK
<1>4. l \in Sent'
    <2>1. l.bearer \in 0 .. Len(tokens) /\ l.cookie \in 0 .. Len(cookies) /\ l.challenge \in 0 .. asked
        BY DEF Sent
    <2>2. Len(tokens') \in Int /\ Len(cookies') \in Int /\ asked' \in Int
        BY DEF TablesInv, AccessTypeOK
    <2> QED
        BY <1>3, <2>1, <2>2 DEF Sent, Grows
<1>5. /\ l.bearer # 0 => /\ tokens'[l.bearer].owner = tokens[l.bearer].owner
                         /\ TokenOver(l.bearer) => TokenOver(l.bearer)'
      /\ l.cookie # 0 => (CookieOver(l.cookie) => CookieOver(l.cookie)')
    BY <1>3 DEF Sent, Grows
<1>6. KnowsWho(r)'
    BY <1>0, <1>1, <1>5 DEF RequestInv, KnowsWho, LoginSteps
<1>7. HasProved(r)'
    BY <1>0, <1>1, <1>2 DEF RequestInv, HasProved, Earned
<1>8. StillOver(r)'
    BY <1>0, <1>1, <1>2, <1>5 DEF RequestInv, StillOver, KnowsWho
<1> QED
    BY <1>0, <1>1, <1>2, <1>4, <1>6, <1>7, <1>8 DEF RequestInv

\* A request that is done.
LEMMA RequestIsDone ==
    ASSUME NEW r \in Requests, TablesInv', watch[r] \in Seen, Observe,
           step'[r] = "idle", local'[r] = NoLocals
    PROVE  RequestInv(r)'
<1>1. watch'[r] \in Seen
    BY WatchMoves
<1>2. NoLocals \in Sent'
    BY DEF NoLocals, Sent, TablesInv, AccessTypeOK
<1> QED
    BY <1>1, <1>2 DEF RequestInv, KnowsWho, HasProved, StillOver, Statements, LoginSteps, Handlers

\* A statement moves its own request only.
LEMMA OtherRequests ==
    ASSUME TablesInv, RequestsInv, NEW r \in Requests, Statement(r), NEW q \in Requests, q # r
    PROVE  step'[q] = step[q] /\ local'[q] = local[q]
<1>1. DOMAIN step = Requests /\ DOMAIN local = Requests
    BY DEF RequestsInv, TablesInv, AccessTypeOK
<1>2. \/ Finish(r)
      \/ \E s, l : Proceed(r, s, l)
    BY DEF Statement, Login, CheckFactor, CreateMFAChallenge, CreateSession,
           InsertFails, Verify, ReadChallenge, CheckCode, ConsumeChallenge, Arrive,
           ReadToken, ReadOwner, LookupSession, Answer, handleMFAEnroll,
           handleMFADisable, handleLogout, handleCreateAPIToken, handleDeleteAPIToken,
           handleRunPushGuarded, TryCookie
<1>3. CASE Finish(r)
    BY <1>1, <1>3 DEF Finish
<1>4. ASSUME NEW s, NEW l, Proceed(r, s, l)
      PROVE  step'[q] = step[q] /\ local'[q] = local[q]
    BY <1>1, <1>4 DEF Proceed
<1> QED
    BY <1>2, <1>3, <1>4

LEMMA MoveFacts ==
    ASSUME TablesInv, RequestsInv, NEW r \in Requests, Observe,
           NEW s, NEW l, Proceed(r, s, l), s # "idle"
    PROVE  /\ step'[r] = s /\ local'[r] = l
           /\ watch'[r] \in Seen
           /\ step[r] # "idle" =>
                  /\ watch'[r].cookieOver = watch[r].cookieOver
                  /\ watch'[r].tokenOver = watch[r].tokenOver
                  /\ watch[r].off => watch'[r].off
                  /\ watch[r].live => watch'[r].live
                  /\ l.cookie = 0 /\ l.bearer = 0 /\ l.user \in Users /\ ~MFAEnabled(l.user)'
                         => watch'[r].off
                  /\ l.challenge # 0 /\ Lives(challenges, l.challenge)
                     /\ UNCHANGED <<challenges, now>> => watch'[r].live
           /\ step[r] = "idle" =>
                  /\ watch'[r].cookieOver => CookieOver(l.cookie)'
                  /\ watch'[r].tokenOver => TokenOver(l.bearer)'
<1>1. step'[r] = s /\ local'[r] = l
    BY DEF Proceed, RequestsInv
<1>2. watch[r] \in Seen
    BY DEF RequestsInv, RequestInv
<1> QED
    BY <1>1, <1>2, WatchMoves

LEMMA DoneFacts ==
    ASSUME RequestsInv, TablesInv', NEW r \in Requests, Observe, Finish(r)
    PROVE  RequestInv(r)'
<1>1. step'[r] = "idle" /\ local'[r] = NoLocals /\ watch[r] \in Seen
    BY DEF Finish, RequestsInv, RequestInv
<1> QED
    BY <1>1, RequestIsDone

\* The statements of a login: who logs in, and what the second factor saw.
LEMMA LoginStatements ==
    ASSUME TablesInv, TablesInv', RequestsInv, NEW r \in Requests,
           \/ \E u \in Users : Login(r, u)
           \/ (\E ok \in BOOLEAN : CheckFactor(r, ok))
           \/ \E c \in 1 .. asked : Verify(r, c)
           \/ (\E ok \in BOOLEAN : ReadChallenge(r, ok))
           \/ \E s \in 0 .. secrets, at \in 0 .. now + 2 :
                  CheckCode(r, [secret |-> s, at |-> at])
           \/ (\E ok \in BOOLEAN : ConsumeChallenge(r, ok))
    PROVE  RequestInv(r)'
<1> PICK k \in Sent : k = local[r]
    BY DEF RequestsInv, RequestInv
<1>0. /\ Len(tokens) \in Nat /\ Len(cookies) \in Nat /\ asked \in Nat /\ now \in Nat
      /\ UNCHANGED <<tokens, cookies, asked, now, secret>>
    <2>1. Len(tokens) \in Nat /\ Len(cookies) \in Nat /\ asked \in Nat /\ now \in Nat
        BY TokensTyped DEF TablesInv, AccessTypeOK
    <2>2. UNCHANGED <<tokens, cookies, asked, now, secret>>
        BY DEF Login, CheckFactor, Verify, ReadChallenge, CheckCode, ConsumeChallenge,
               factors, authRows, clients
    <2> QED
        BY <2>1, <2>2
<1>1. /\ KnowsWho(r) /\ HasProved(r) /\ watch[r] \in Seen
      /\ Sent' = Sent /\ NoLocals \in Sent
      /\ \A u : MFAEnabled(u)' <=> MFAEnabled(u)
    BY <1>0 DEF RequestsInv, RequestInv, Sent, NoLocals, MFAEnabled
\* What is left to show of a login that goes on.
<1>2. ASSUME NEW s \in LoginSteps, NEW l \in Sent, Proceed(r, s, l), Observe,
             l.cookie = 0, l.bearer = 0,
             s # "challenged" => l.user \in Users,
             s = "challenged" => l.challenge # 0,
             HasProved(r)'
      PROVE  RequestInv(r)'
    <2>1. step'[r] = s /\ local'[r] = l /\ watch'[r] \in Seen
        BY <1>2, MoveFacts DEF LoginSteps
    <2>2. s \notin Handlers \cup {"idle", "token", "owner", "cookie"} /\ s \in Statements
        BY DEF LoginSteps, Handlers, Statements
    <2>3. KnowsWho(r)'
        BY <1>2, <2>1, <2>2 DEF KnowsWho, Handlers
    <2>4. StillOver(r)'
        BY <2>1, <2>2 DEF StillOver
    <2> QED
        BY <1>1, <1>2, <2>1, <2>2, <2>3, <2>4 DEF RequestInv
<1>3. ASSUME NEW u \in Users, Login(r, u) PROVE RequestInv(r)'
    <2> DEFINE l == [NoLocals EXCEPT !.user = u]
    <2>1. l \in Sent /\ l.cookie = 0 /\ l.bearer = 0 /\ l.user = u
        BY <1>1 DEF NoLocals, Sent
    <2>2. Proceed(r, "factor", l) /\ Observe /\ "factor" \in LoginSteps
        BY <1>3 DEF Login, LoginSteps
    <2> HIDE DEF l
    <2>3. step'[r] = "factor"
        BY <2>2, MoveFacts
    <2>4. HasProved(r)'
        BY <2>3 DEF HasProved
    <2> QED
        BY <1>2, <2>1, <2>2, <2>4
<1>4. ASSUME NEW ok \in BOOLEAN, CheckFactor(r, ok) PROVE RequestInv(r)'
    <2>1. /\ step[r] = "factor" /\ k.cookie = 0 /\ k.bearer = 0 /\ k.user \in Users
          /\ Observe /\ {"challenge", "session"} \subseteq LoginSteps
        BY <1>1, <1>4 DEF CheckFactor, At, KnowsWho, LoginSteps
    <2>2. CASE Proceed(r, "challenge", k)
        <3>1. step'[r] = "challenge"
            BY <2>1, <2>2, MoveFacts
        <3> QED
            BY <1>2, <2>1, <2>2, <3>1 DEF HasProved
    <2>3. CASE Proceed(r, "session", k) /\ ~MFAEnabled(k.user)
        <3>1. /\ step'[r] = "session" /\ local'[r] = k
              /\ ~MFAEnabled(k.user)' => watch'[r].off
            BY <2>1, <2>3, MoveFacts
        <3>2. HasProved(r)'
            BY <1>1, <2>3, <3>1 DEF HasProved, Earned
        <3> QED
            BY <1>2, <2>1, <2>3, <3>2
    <2>4. CASE Proceed(r, "session", [k EXCEPT !.unread = TRUE])
        <3> PICK l : l = [k EXCEPT !.unread = TRUE]
            OBVIOUS
        <3>1. /\ l \in Sent /\ l.cookie = 0 /\ l.bearer = 0 /\ l.user \in Users /\ l.unread
            BY <2>1 DEF Sent
        <3>2. Proceed(r, "session", l)
            BY <2>4
        <3>3. step'[r] = "session" /\ local'[r] = l
            BY <2>1, <3>2, MoveFacts
        <3>4. HasProved(r)'
            BY <3>1, <3>3 DEF HasProved, Earned
        <3> QED
            BY <1>2, <2>1, <3>1, <3>2, <3>4
    <2> QED
        BY <1>4, <2>2, <2>3, <2>4 DEF CheckFactor
<1>5. ASSUME NEW c \in 1 .. asked, Verify(r, c) PROVE RequestInv(r)'
    <2> DEFINE l == [NoLocals EXCEPT !.challenge = c]
    <2>1. l \in Sent /\ l.cookie = 0 /\ l.bearer = 0 /\ l.challenge # 0
        <3>1. c \in 0 .. asked /\ c # 0
            BY <1>0
        <3> QED
            BY <1>1, <3>1 DEF NoLocals, Sent
    <2>2. Proceed(r, "challenged", l) /\ Observe /\ "challenged" \in LoginSteps
        BY <1>5 DEF Verify, LoginSteps
    <2> HIDE DEF l
    <2>3. step'[r] = "challenged"
        BY <2>2, MoveFacts
    <2>4. HasProved(r)'
        BY <2>3 DEF HasProved
    <2> QED
        BY <1>2, <2>1, <2>2, <2>4
<1>6. ASSUME NEW ok \in BOOLEAN, ReadChallenge(r, ok) PROVE RequestInv(r)'
    <2>1. /\ step[r] = "challenged" /\ k.cookie = 0 /\ k.bearer = 0 /\ k.challenge # 0
          /\ Observe /\ "code" \in LoginSteps
        BY <1>1, <1>6 DEF ReadChallenge, At, KnowsWho, LoginSteps
    <2>2. CASE Finish(r)
        BY <2>1, <2>2, DoneFacts
    <2>3. ASSUME NEW l, Proceed(r, "code", l), UNCHANGED <<challenges, now>>,
                 Lives(challenges, l.challenge), l.challenge # 0
          PROVE  step'[r] = "code" /\ watch'[r].live
        BY <2>1, <2>3, MoveFacts
    <2>4. CASE /\ Proceed(r, "code", [k EXCEPT !.user = challenges[k.challenge].user])
               /\ Lives(challenges, k.challenge) /\ UNCHANGED challenges
        <3>1. challenges[k.challenge].user \in Users
            BY <2>4 DEF Lives, Has, TablesInv, AccessTypeOK
        <3> PICK l : l = [k EXCEPT !.user = challenges[k.challenge].user]
            OBVIOUS
        <3>2. /\ l \in Sent /\ l.cookie = 0 /\ l.bearer = 0 /\ l.user \in Users
              /\ l.challenge = k.challenge
            BY <2>1, <3>1 DEF Sent
        <3>3. Proceed(r, "code", l)
            BY <2>4
        <3>4. /\ UNCHANGED <<challenges, now>>
              /\ Lives(challenges, l.challenge) /\ l.challenge # 0
            BY <1>0, <2>1, <2>4, <3>2
        <3>5. step'[r] = "code" /\ watch'[r].live
            BY <2>3, <3>3, <3>4
        <3>6. HasProved(r)'
            BY <3>5 DEF HasProved
        <3> QED
            BY <1>2, <2>1, <3>2, <3>3, <3>6
    <2> QED
        BY <1>6, <2>2, <2>4 DEF ReadChallenge
<1>7. ASSUME NEW n \in 0 .. secrets, NEW t \in 0 .. now + 2,
             CheckCode(r, [secret |-> n, at |-> t])
      PROVE  RequestInv(r)'
    <2> DEFINE code == [secret |-> n, at |-> t]
    <2>1. /\ step[r] = "code" /\ k.cookie = 0 /\ k.bearer = 0 /\ k.user \in Users
          /\ watch[r].live /\ Observe /\ "consume" \in LoginSteps
        BY <1>1, <1>7 DEF CheckCode, At, KnowsWho, HasProved, LoginSteps
    <2>2. CASE Finish(r)
        BY <2>1, <2>2, DoneFacts
    <2>3. CASE /\ MFAEnabled(k.user) /\ VerifyTOTP(secret[k.user], code)
               /\ Proceed(r, "consume", [k EXCEPT !.code = code \in Shown(k.user)])
        <3>1. n = secret[k.user] /\ n # 0 /\ t <= now + 1 /\ now <= t + 1
            BY <2>3 DEF MFAEnabled, VerifyTOTP
        <3>2. t \in 0 .. now + 1 /\ now - 1 <= t
            BY <1>0, <3>1
        <3>3. code \in Shown(k.user)
            BY <3>1, <3>2 DEF Shown
        <3> DEFINE l == [k EXCEPT !.code = code \in Shown(k.user)]
        <3>4. /\ l \in Sent /\ l.cookie = 0 /\ l.bearer = 0 /\ l.user \in Users /\ l.code
            BY <2>1, <3>3 DEF Sent
        <3>5. Proceed(r, "consume", l)
            BY <2>3
        <3> HIDE DEF l
        <3>6. step'[r] = "consume" /\ local'[r] = l /\ watch'[r].live
            BY <2>1, <3>5, MoveFacts
        <3>7. HasProved(r)'
            BY <3>4, <3>6 DEF HasProved
        <3> QED
            BY <1>2, <2>1, <3>4, <3>5, <3>7
    <2> QED
        BY <1>7, <2>2, <2>3 DEF CheckCode
<1>8. ASSUME NEW ok \in BOOLEAN, ConsumeChallenge(r, ok) PROVE RequestInv(r)'
    <2>1. /\ step[r] = "consume" /\ k.cookie = 0 /\ k.bearer = 0 /\ k.user \in Users
          /\ watch[r].live /\ k.code /\ Proceed(r, "session", k) /\ Observe
          /\ "session" \in LoginSteps
        BY <1>1, <1>8 DEF ConsumeChallenge, At, KnowsWho, HasProved, LoginSteps
    <2>2. step'[r] = "session" /\ local'[r] = k /\ watch'[r].live
        BY <2>1, MoveFacts
    <2>3. HasProved(r)'
        BY <2>1, <2>2 DEF HasProved, Earned
    <2> QED
        BY <1>2, <2>1, <2>3
<1> QED
    BY <1>3, <1>4, <1>5, <1>6, <1>7, <1>8

\* The statements that admit a request: nothing that was over when it began is relied
\* on, since what was over then is over when it is looked at.
LEMMA AdmittingStatements ==
    ASSUME TablesInv, TablesInv', RequestsInv, ~relied, NEW r \in Requests,
           \/ \E c \in 0 .. Len(cookies), t \in 0 .. Len(tokens) : Arrive(r, c, t)
           \/ \E ok \in BOOLEAN : ReadToken(r, ok) \/ ReadOwner(r, ok) \/ LookupSession(r, ok)
    PROVE  RequestInv(r)' /\ ~relied'
<1> PICK k \in Sent : k = local[r]
    BY DEF RequestsInv, RequestInv
<1> DEFINE Same == UNCHANGED <<tokens, cookies, asked, now, key, loggedOut>>
<1>0. Same /\ Observe
    BY DEF Arrive, ReadToken, ReadOwner, LookupSession, authRows, clients, history
<1>1. /\ KnowsWho(r) /\ StillOver(r) /\ watch[r] \in Seen
      /\ Sent' = Sent /\ NoLocals \in Sent
      /\ Len(tokens) \in Nat /\ Len(cookies) \in Nat
      /\ \A t : TokenOver(t)' <=> TokenOver(t)
    <2>1. KnowsWho(r) /\ StillOver(r) /\ watch[r] \in Seen
        BY DEF RequestsInv, RequestInv
    <2>2. Len(tokens) \in Nat /\ Len(cookies) \in Nat /\ asked \in Nat
        BY TokensTyped DEF TablesInv, AccessTypeOK
    <2>3. Sent' = Sent /\ NoLocals \in Sent
        BY <1>0, <2>2 DEF Sent, NoLocals
    <2>4. \A t : TokenOver(t)' <=> TokenOver(t)
        BY <1>0 DEF TokenOver, After
    <2> QED
        BY <2>1, <2>2, <2>3, <2>4
<1>2. ASSUME UNCHANGED sessions, NEW c PROVE CookieOver(c)' <=> CookieOver(c)
    BY <1>0, <1>2 DEF CookieOver, Signed, Lives, Has, After
<1>a. ASSUME NEW s, s # "idle", NEW l, Proceed(r, s, l)
      PROVE  /\ step'[r] = s /\ local'[r] = l
             /\ step[r] # "idle" => watch'[r].cookieOver = watch[r].cookieOver
             /\ step[r] # "idle" => watch'[r].tokenOver = watch[r].tokenOver
             /\ step[r] = "idle" => (watch'[r].cookieOver => CookieOver(l.cookie)')
             /\ step[r] = "idle" => (watch'[r].tokenOver => TokenOver(l.bearer)')
    BY <1>0, <1>a, MoveFacts
<1>3. ASSUME NEW s \in {"token", "owner", "cookie"} \cup Handlers, NEW l \in Sent,
             Proceed(r, s, l), KnowsWho(r)', StillOver(r)'
      PROVE  RequestInv(r)'
    <2>1. /\ s \notin LoginSteps /\ s # "idle" /\ s \in Statements
          /\ ~(s \in {"code", "consume"}) /\ s # "session" /\ s # "consume"
        BY DEF LoginSteps, Handlers, Statements
    <2>2. step'[r] = s /\ local'[r] = l /\ watch'[r] \in Seen
        BY <1>0, <1>3, <2>1, MoveFacts
    <2>3. HasProved(r)'
        BY <2>1, <2>2 DEF HasProved
    <2> QED
        BY <1>1, <1>3, <2>1, <2>2, <2>3 DEF RequestInv
<1>4. ASSUME NEW c \in 0 .. Len(cookies), NEW t \in 0 .. Len(tokens), Arrive(r, c, t)
      PROVE  RequestInv(r)'
    <2>1. ASSUME NEW s \in {"token", "cookie"}, NEW l \in Sent, Proceed(r, s, l),
                 s = "token" => l.bearer # 0,
                 s = "cookie" => l.cookie # 0
          PROVE  RequestInv(r)'
        <3>1. step[r] = "idle" /\ s # "idle"
            BY <1>4 DEF Arrive, At
        <3>2. /\ step'[r] = s /\ local'[r] = l
              /\ watch'[r].cookieOver => CookieOver(l.cookie)'
              /\ watch'[r].tokenOver => TokenOver(l.bearer)'
            BY <1>a, <2>1, <3>1
        <3>3. KnowsWho(r)'
            BY <2>1, <3>2 DEF KnowsWho, LoginSteps, Handlers
        <3>4. StillOver(r)'
            BY <2>1, <3>2 DEF StillOver
        <3> QED
            BY <1>3, <2>1, <3>3, <3>4
    <2> DEFINE l == [NoLocals EXCEPT !.cookie = c, !.bearer = t]
    <2>2. l \in Sent /\ l.cookie = c /\ l.bearer = t
        BY <1>1 DEF NoLocals, Sent
    <2>3. /\ t # 0 => Proceed(r, "token", l)
          /\ t = 0 => Proceed(r, "cookie", l) /\ c # 0
        BY <1>4 DEF Arrive
    <2> HIDE DEF l
    <2> QED
        BY <2>1, <2>2, <2>3
\* authH's fall-through to the cookie.
<1>5. ASSUME TryCookie(r), step[r] \in {"token", "owner"}, UNCHANGED sessions
      PROVE  RequestInv(r)'
    <2>1. CASE Finish(r)
        BY <1>0, <2>1, DoneFacts
    <2>2. CASE k.cookie # 0 /\ Proceed(r, "cookie", [k EXCEPT !.bearer = 0])
        <3> PICK l : l = [k EXCEPT !.bearer = 0]
            OBVIOUS
        <3>0. 0 \in 0 .. Len(tokens)
            BY <1>1
        <3>1. l \in Sent /\ l.cookie = k.cookie /\ l.cookie # 0
            BY <2>2, <3>0 DEF Sent
        <3>2. Proceed(r, "cookie", l)
            BY <2>2
        <3>3. /\ step'[r] = "cookie" /\ local'[r] = l
              /\ watch'[r].cookieOver = watch[r].cookieOver
            BY <1>a, <1>5, <3>2
        <3>4. watch[r].cookieOver => CookieOver(k.cookie)
            BY <1>1, <1>5, <2>2 DEF StillOver
        <3>5. watch'[r].cookieOver => CookieOver(l.cookie)'
            BY <1>2, <1>5, <3>1, <3>3, <3>4
        <3>6. KnowsWho(r)' /\ StillOver(r)'
            BY <3>1, <3>3, <3>5 DEF KnowsWho, StillOver, LoginSteps, Handlers
        <3> QED
            BY <1>3, <3>1, <3>2, <3>6
    <2> QED
        BY <1>5, <2>1, <2>2 DEF TryCookie
<1>6. ASSUME NEW ok \in BOOLEAN, ReadToken(r, ok) PROVE RequestInv(r)'
    <2>1. step[r] = "token" /\ UNCHANGED sessions /\ k.bearer # 0
        BY <1>1, <1>6 DEF ReadToken, At, authRows, KnowsWho
    <2>2. CASE TryCookie(r)
        BY <1>5, <2>1, <2>2
    <2>3. CASE Proceed(r, "owner", k) /\ ~TokenOver(k.bearer)
        <3>1. /\ step'[r] = "owner" /\ local'[r] = k
              /\ watch'[r].cookieOver = watch[r].cookieOver
              /\ watch'[r].tokenOver = watch[r].tokenOver
            BY <1>a, <2>1, <2>3
        <3>2. /\ ~watch[r].tokenOver
              /\ k.cookie # 0 /\ watch[r].cookieOver => CookieOver(k.cookie)
            BY <1>1, <2>1, <2>3 DEF StillOver
        <3>3. k.cookie # 0 /\ watch'[r].cookieOver => CookieOver(k.cookie)'
            BY <1>2, <2>1, <3>1, <3>2
        <3>4. KnowsWho(r)' /\ StillOver(r)'
            BY <2>1, <3>1, <3>2, <3>3 DEF KnowsWho, StillOver, LoginSteps, Handlers
        <3> QED
            BY <1>3, <2>3, <3>4
    <2> QED
        BY <1>6, <2>2, <2>3 DEF ReadToken, TokenOver
<1>7. ASSUME NEW ok \in BOOLEAN, ReadOwner(r, ok) PROVE RequestInv(r)' /\ ~relied'
    <2>1. step[r] = "owner" /\ UNCHANGED sessions /\ k.bearer # 0 /\ ~watch[r].tokenOver
        BY <1>1, <1>7 DEF ReadOwner, At, authRows, KnowsWho, StillOver
    <2>2. ~relied'
        BY <1>7, <2>1 DEF ReadOwner
    <2>3. CASE TryCookie(r)
        BY <1>5, <2>1, <2>2, <2>3
    <2>4. CASE Proceed(r, "bearer handler", [k EXCEPT !.user = tokens[k.bearer].owner])
        <3>1. tokens[k.bearer].owner \in Users
            BY <1>1, <2>1, TokensTyped DEF TokenRow, Sent
        <3> PICK l : l = [k EXCEPT !.user = tokens[k.bearer].owner]
            OBVIOUS
        <3>2. /\ l \in Sent /\ l.bearer = k.bearer
              /\ l.user = tokens[l.bearer].owner /\ l.user \in Users
            BY <3>1 DEF Sent
        <3>3. Proceed(r, "bearer handler", l)
            BY <2>4
        <3>4. step'[r] = "bearer handler" /\ local'[r] = l
            BY <1>a, <3>3
        <3>5. KnowsWho(r)' /\ StillOver(r)'
            BY <1>0, <2>1, <3>2, <3>4 DEF KnowsWho, StillOver, LoginSteps, Handlers
        <3> QED
            BY <1>3, <2>2, <3>2, <3>3, <3>5 DEF Handlers
    <2> QED
        BY <1>7, <2>2, <2>3, <2>4 DEF ReadOwner
<1>8. ASSUME NEW ok \in BOOLEAN, LookupSession(r, ok) PROVE RequestInv(r)' /\ ~relied'
    <2>1. step[r] = "cookie" /\ k.cookie \in 1 .. Len(cookies)
        <3>1. step[r] = "cookie" /\ k.cookie # 0
            BY <1>1, <1>8 DEF LookupSession, At, KnowsWho
        <3> QED
            BY <1>1, <3>1 DEF Sent
    <2>2. CASE Finish(r) /\ UNCHANGED relied
        BY <1>0, <2>2, DoneFacts
    <2>3. CASE /\ Signed(k.cookie) /\ Lives(sessions, k.cookie)
               /\ Proceed(r, "cookie handler", [k EXCEPT !.user = sessions[k.cookie].user])
               /\ relied' = (relied \/ watch[r].cookieOver)
        <3>1. k.cookie \notin loggedOut
            <4>1. key \in Nat
                BY DEF TablesInv, AccessTypeOK
            <4>2. cookies[k.cookie] = key /\ Has(sessions, k.cookie)
                BY <2>3 DEF Signed, Lives
            <4> QED
                BY <4>1, <4>2 DEF TablesInv
        <3>2. ~CookieOver(k.cookie)
            BY <2>3, <3>1 DEF CookieOver
        <3>3. ~relied'
            <4>1. ~watch[r].cookieOver
                BY <1>1, <2>1, <3>2 DEF StillOver
            <4> QED
                BY <2>3, <4>1
        <3>4. sessions[k.cookie].user \in Users
            BY <2>3 DEF Lives, Has, TablesInv, AccessTypeOK
        <3> PICK l : l = [k EXCEPT !.user = sessions[k.cookie].user]
            OBVIOUS
        <3>5. l \in Sent /\ l.user \in Users
            BY <3>4 DEF Sent
        <3>6. Proceed(r, "cookie handler", l)
            BY <2>3
        <3>7. step'[r] = "cookie handler" /\ local'[r] = l
            BY <1>a, <3>6
        <3>8. KnowsWho(r)' /\ StillOver(r)'
            BY <3>5, <3>7 DEF KnowsWho, StillOver, LoginSteps, Handlers
        <3> QED
            BY <1>3, <3>3, <3>5, <3>6, <3>8 DEF Handlers
    <2> QED
        BY <1>8, <2>2, <2>3 DEF LookupSession
<1>9. (\/ \E ok \in BOOLEAN : ReadToken(r, ok)
       \/ \E c \in 0 .. Len(cookies), t \in 0 .. Len(tokens) : Arrive(r, c, t))
          => ~relied'
    BY DEF ReadToken, Arrive, history
<1> QED
    BY <1>4, <1>6, <1>7, <1>8, <1>9

LEMMA RequestsStep ==
    ASSUME TablesInv, RequestsInv, ~relied, NEW r \in Requests, Statement(r)
    PROVE  RequestsInv' /\ ~relied'
<1>1. TablesInv' /\ Grows /\ Observe
    <2>1. Observe
        BY DEF Statement, Login, CheckFactor, CreateMFAChallenge, CreateSession,
               InsertFails, Verify, ReadChallenge, CheckCode, ConsumeChallenge, Arrive,
               ReadToken, ReadOwner, LookupSession, Answer, handleMFAEnroll,
               handleMFADisable, handleLogout, handleCreateAPIToken, handleDeleteAPIToken,
               handleRunPushGuarded
    <2> QED
        BY <2>1, TablesStep, StatementsGrow
<1>2. ASSUME NEW q \in Requests, q # r PROVE RequestInv(q)'
    BY <1>1, <1>2, OtherRequests, RequestWaits DEF RequestsInv
<1>3. RequestInv(r)' /\ ~relied'
    <2>1. CASE \/ \E u \in Users : Login(r, u)
               \/ (\E ok \in BOOLEAN : CheckFactor(r, ok))
               \/ \E c \in 1 .. asked : Verify(r, c)
               \/ (\E ok \in BOOLEAN : ReadChallenge(r, ok))
               \/ \E s \in 0 .. secrets, at \in 0 .. now + 2 :
                      CheckCode(r, [secret |-> s, at |-> at])
               \/ (\E ok \in BOOLEAN : ConsumeChallenge(r, ok))
        <3>1. RequestInv(r)'
            BY <1>1, <2>1, LoginStatements
        <3>2. ~relied'
            BY <2>1 DEF Login, CheckFactor, Verify, ReadChallenge, CheckCode, ConsumeChallenge,
                        history
        <3> QED
            BY <3>1, <3>2
    <2>2. CASE \/ \E c \in 0 .. Len(cookies), t \in 0 .. Len(tokens) : Arrive(r, c, t)
               \/ \E ok \in BOOLEAN : ReadToken(r, ok) \/ ReadOwner(r, ok) \/ LookupSession(r, ok)
        BY <1>1, <2>2, AdmittingStatements
    <2>3. CASE \/ CreateMFAChallenge(r) \/ CreateSession(r) \/ InsertFails(r)
               \/ Answer(r) \/ handleMFAEnroll(r) \/ handleMFADisable(r)
               \/ \E ok \in BOOLEAN : handleLogout(r, ok)
               \/ \E direct \in BOOLEAN, ttl \in TokenTTLs :
                      handleCreateAPIToken(r, direct, now + ttl)
               \/ \E t \in 1 .. Len(tokens) : handleDeleteAPIToken(r, t)
               \/ handleRunPushGuarded(r)
        <3>1. Finish(r) /\ ~relied'
            BY <2>3 DEF CreateMFAChallenge, CreateSession, InsertFails, Answer,
                        handleMFAEnroll, handleMFADisable, handleLogout,
                        handleCreateAPIToken, handleDeleteAPIToken, handleRunPushGuarded,
                        history
        <3> QED
            BY <1>1, <3>1, DoneFacts
    <2> QED
        BY <2>1, <2>2, <2>3 DEF Statement
<1>4. DOMAIN step' = Requests /\ DOMAIN local' = Requests /\ DOMAIN watch' = Requests
    <2>1. DOMAIN step = Requests /\ DOMAIN local = Requests
        BY DEF RequestsInv
    <2>2. \/ Finish(r)
          \/ \E s, l : Proceed(r, s, l)
        BY DEF Statement, Login, CheckFactor, CreateMFAChallenge, CreateSession,
               InsertFails, Verify, ReadChallenge, CheckCode, ConsumeChallenge, Arrive,
               ReadToken, ReadOwner, LookupSession, Answer, handleMFAEnroll,
               handleMFADisable, handleLogout, handleCreateAPIToken, handleDeleteAPIToken,
               handleRunPushGuarded, TryCookie
    <2>3. DOMAIN step' = Requests /\ DOMAIN local' = Requests
        BY <2>1, <2>2 DEF Finish, Proceed
    <2>4. DOMAIN watch' = Requests
        BY <1>1 DEF Observe
    <2> QED
        BY <2>3, <2>4
<1> QED
    BY <1>2, <1>3, <1>4 DEF RequestsInv

\* A session is created by a request that proved what the second factor asks.
LEMMA SessionIsEarned ==
    ASSUME RequestsInv, earned, NEW r \in Requests, Statement(r)
    PROVE  earned'
<1>1. CASE CreateSession(r)
    <2>1. step[r] = "session"
        BY <1>1 DEF CreateSession, At
    <2>2. Earned(r)
        BY <2>1 DEF RequestsInv, RequestInv, HasProved
    <2> QED
        BY <1>1, <2>2 DEF CreateSession
<1>2. CASE ~CreateSession(r)
    BY <1>2 DEF Statement, Login, CheckFactor, CreateMFAChallenge,
           InsertFails, Verify, ReadChallenge, CheckCode, ConsumeChallenge, Arrive,
           ReadToken, ReadOwner, LookupSession, Answer, handleMFAEnroll,
           handleMFADisable, handleLogout, handleCreateAPIToken, handleDeleteAPIToken,
           handleRunPushGuarded, history
<1> QED
    BY <1>1, <1>2

\* A scope that lets a request push directly is of a token, and a token is an
\* administrator's.
LEMMA PushIsAdmins ==
    ASSUME TablesInv, RequestsInv, ~bypassed, NEW r \in Requests, Statement(r)
    PROVE  ~bypassed'
<1>1. CASE handleRunPushGuarded(r)
    <2>1. Scope(r) => requireAdmin(r)
        <3>1. ASSUME Scope(r)
              PROVE  /\ local[r].user = tokens[local[r].bearer].owner
                     /\ local[r].bearer \in 0 .. Len(tokens) /\ local[r].bearer # 0
            BY <3>1 DEF Scope, At, RequestsInv, RequestInv, KnowsWho, Sent
        <3>2. Len(tokens) \in Nat
            BY TokensTyped
        <3> QED
            BY <3>1, <3>2 DEF requireAdmin, TablesInv
    <2> QED
        BY <1>1, <2>1 DEF handleRunPushGuarded
<1>2. CASE ~handleRunPushGuarded(r)
    BY <1>2 DEF Statement, Login, CheckFactor, CreateMFAChallenge, CreateSession,
           InsertFails, Verify, ReadChallenge, CheckCode, ConsumeChallenge, Arrive,
           ReadToken, ReadOwner, LookupSession, Answer, handleMFAEnroll,
           handleMFADisable, handleLogout, handleCreateAPIToken, handleDeleteAPIToken, history
<1> QED
    BY <1>1, <1>2

LEMMA RequestsElapse ==
    ASSUME TablesInv, RequestsInv, Elapse
    PROVE  RequestsInv'
<1>1. TablesInv' /\ Grows /\ Observe
    BY TablesElapse, StatementsGrow DEF Elapse
<1>2. UNCHANGED <<step, local>>
    BY DEF Elapse, requests
<1>3. ASSUME NEW q \in Requests PROVE RequestInv(q)'
    BY <1>1, <1>2, RequestWaits DEF RequestsInv
<1> QED
    BY <1>1, <1>2, <1>3 DEF RequestsInv, Observe

LEMMA RequestsNewService ==
    ASSUME TablesInv, RequestsInv, NewService
    PROVE  RequestsInv'
<1>1. TablesInv' /\ Observe
    BY TablesNewService DEF NewService
<1>2. /\ step' = [r \in Requests |-> "idle"] /\ local' = [r \in Requests |-> NoLocals]
    BY DEF NewService
<1>3. ASSUME NEW q \in Requests PROVE RequestInv(q)'
    <2>1. step'[q] = "idle" /\ local'[q] = NoLocals /\ watch[q] \in Seen
        BY <1>2 DEF RequestsInv, RequestInv
    <2> QED
        BY <1>1, <2>1, RequestIsDone
<1> QED
    BY <1>1, <1>2, <1>3 DEF RequestsInv, Observe

LEMMA AccessStutters ==
    ASSUME AccessInv, UNCHANGED accessVars
    PROVE  AccessInv'
<1>1. /\ UNCHANGED <<secret, secrets, sessions, challenges, tokens, key, cookies, asked, now>>
      /\ UNCHANGED <<step, local, watch, loggedOut, earned, relied, bypassed>>
    BY DEF accessVars, factors, authRows, clients, requests, history
<1>2. TablesInv'
    BY <1>1 DEF AccessInv, TablesInv, AccessTypeOK, Has
<1>3. RequestsInv'
    BY <1>1 DEF AccessInv, RequestsInv, RequestInv, KnowsWho, HasProved, Earned, StillOver,
       Sent, TokenOver, CookieOver, Signed, Lives, Has, After
<1> QED
    BY <1>1, <1>2, <1>3 DEF AccessInv

\* The inductive invariant of Access.
THEOREM AccessInvariant == AccessSpec => []AccessInv
<1>1. AccessInv /\ [AccessNext]_accessVars => AccessInv'
    <2> SUFFICES ASSUME AccessInv, [AccessNext]_accessVars PROVE AccessInv'
        OBVIOUS
    <2>0. TablesInv /\ RequestsInv /\ earned /\ ~relied /\ ~bypassed
        BY DEF AccessInv
    <2>1. CASE Elapse
        <3>1. earned' /\ ~relied' /\ ~bypassed'
            BY <2>0, <2>1 DEF Elapse, history
        <3> QED
            BY <2>0, <2>1, <3>1, TablesElapse, RequestsElapse DEF AccessInv
    <2>2. CASE NewService
        <3>1. earned' /\ ~relied' /\ ~bypassed'
            BY <2>0, <2>2 DEF NewService, history
        <3> QED
            BY <2>0, <2>2, <3>1, TablesNewService, RequestsNewService DEF AccessInv
    <2>3. ASSUME NEW r \in Requests, Statement(r) PROVE AccessInv'
        BY <2>0, <2>3, TablesStep, RequestsStep, SessionIsEarned, PushIsAdmins DEF AccessInv
    <2>4. CASE UNCHANGED accessVars
        BY <2>4, AccessStutters
    <2> QED
        BY <2>1, <2>2, <2>3, <2>4 DEF AccessNext
<1> QED
    BY AccessInitInv, <1>1, PTL DEF AccessSpec

\* Type correctness of Access.
THEOREM AccessTypeCorrect == AccessSpec => []AccessTypeOK
<1>1. AccessInv => AccessTypeOK
    BY DEF AccessInv, TablesInv
<1> QED
    BY AccessInvariant, <1>1, PTL

\* The second factor holds for any users and lifetimes, and however enrolments,
\* expiries, failing statements and restarts fall between the statements of a login:
\* a session is earned, or its login could not read whether there is a factor.
THEOREM LoginsEarnTheirSessions == AccessSpec => []SessionsAreEarned
<1>1. AccessInv => SessionsAreEarned
    BY DEF AccessInv, SessionsAreEarned
<1> QED
    BY AccessInvariant, <1>1, PTL

\* No request is admitted by a cookie or a token that was over when it began.
THEOREM NothingOverIsReliedOn == AccessSpec => []EndedStaysEnded
<1>1. AccessInv => EndedStaysEnded
    BY DEF AccessInv, EndedStaysEnded
<1> QED
    BY AccessInvariant, <1>1, PTL

\* A push without a change request is an administrator's, whatever tokens there are.
THEOREM OnlyAdminsPushDirectly == AccessSpec => []DirectPushesAreAdmins
<1>1. AccessInv => DirectPushesAreAdmins
    BY DEF AccessInv, DirectPushesAreAdmins
<1> QED
    BY AccessInvariant, <1>1, PTL

-----------------------------------------------------------------------------
\* SchedulerLease.

\* A replica within its lease is the one the row names, and the row expires when
\* the lease does: the relation between the local age and the shared row that
\* OverlapOnlyByOverrun rests on.
RowIsOfTheLeader ==
    \A r \in Replicas : Leading(r) => holder = r /\ left = TTL - age[r]

LeaseInv == TypeOK /\ RowIsOfTheLeader

LEMMA Consts ==
    /\ TTL \in Nat /\ TTL >= 1
    /\ MaxDelay \in Nat /\ MaxDelay <= TTL
    /\ MaxInterval \in Nat
    /\ MaxFaults \in Nat
    /\ \A j \in Jobs : Interval[j] \in Int /\ 1 <= Interval[j] /\ Interval[j] <= MaxInterval
    /\ OldestExpiry \in Int /\ OldestExpiry < 0 /\ OldestExpiry <= TTL
    /\ Never = -1
BY IntervalAssumption, TTLAssumption, FaultsAssumption DEF OldestExpiry, Never

LEMMA LaterType ==
    ASSUME NEW t \in Elapsed, NEW cap \in Int, cap <= MaxInterval
    PROVE  Later(t, cap) \in Elapsed
BY Consts DEF Later, Elapsed, Never

LEMMA AgeType ==
    ASSUME NEW t \in 0 .. TTL + 1
    PROVE  Later(t, TTL + 1) \in 0 .. TTL + 1
BY Consts DEF Later, Never

LEMMA LaterEachType ==
    ASSUME NEW f \in [Replicas -> [Jobs -> Elapsed]]
    PROVE  LaterEach(f) \in [Replicas -> [Jobs -> Elapsed]]
<1>1. ASSUME NEW r \in Replicas, NEW j \in Jobs
      PROVE  Later(f[r][j], Interval[j]) \in Elapsed
    <2>1. f[r][j] \in Elapsed
        OBVIOUS
    <2> QED
        BY <2>1, Consts, LaterType
<1> QED
    BY <1>1 DEF LaterEach

LEMMA CappedType ==
    ASSUME NEW t \in Elapsed, NEW j \in Jobs
    PROVE  Capped(t, j) \in Elapsed
BY Consts DEF Capped, Elapsed, Never

\* Type correctness of one step.
LEMMA LeaseTypeStep ==
    ASSUME TypeOK, [Next]_vars
    PROVE  TypeOK'
<1> USE DEF TypeOK, PCs
<1>0. Never \in Elapsed /\ 0 \in Elapsed
    BY Consts DEF Elapsed
<1>1. CASE Tick
    <2>1. left' \in OldestExpiry .. TTL
        <3> HIDE DEF TypeOK
        <3>1. left \in OldestExpiry .. TTL
            BY DEF TypeOK
        <3>2. left' = IF left = OldestExpiry THEN left ELSE left - 1
            BY <1>1 DEF Tick
        <3> QED
            BY <3>1, <3>2, Consts
    <2>2. age' \in [Replicas -> 0 .. TTL + 1]
        BY <1>1, AgeType DEF Tick
    <2>3. since' \in [Replicas -> [Jobs -> Elapsed]]
        BY <1>1, LaterEachType DEF Tick
    <2>4. curAge' \in [Replicas -> Elapsed] /\ tickAge' \in [Replicas -> Elapsed]
        <3>1. ASSUME NEW t \in Elapsed PROVE Later(t, MaxInterval) \in Elapsed
            BY Consts, LaterType
        <3> QED
            BY <1>0, <1>1, <3>1 DEF Tick
    <2>5. tickGap' \in [Replicas -> Elapsed]
        BY <1>1, <2>4 DEF Tick
    <2>6. tickSince' \in [Replicas -> [Jobs -> Elapsed]]
        BY <1>1, <2>3 DEF Tick
    <2>7. buffered' \in [Replicas -> BOOLEAN]
        BY <1>1 DEF Tick
    <2> QED
        BY <1>1, <2>1, <2>2, <2>3, <2>4, <2>5, <2>6, <2>7 DEF Tick
<1>2. ASSUME NEW r \in Replicas
      PROVE  /\ EmptyChannel(r) =>
                    /\ buffered' \in [Replicas -> BOOLEAN]
                    /\ tickAge' \in [Replicas -> Elapsed]
                    /\ tickGap' \in [Replicas -> Elapsed]
                    /\ tickSince' \in [Replicas -> [Jobs -> Elapsed]]
             /\ Forget(r) =>
                    /\ age' \in [Replicas -> 0 .. TTL + 1]
                    /\ curAge' \in [Replicas -> Elapsed]
                    /\ curSince' \in [Replicas -> [Jobs -> Elapsed]]
    <2>1. [j \in Jobs |-> Never] \in [Jobs -> Elapsed] /\ 0 \in 0 .. TTL + 1
        BY <1>0, Consts
    <2>2. ASSUME EmptyChannel(r)
          PROVE  /\ buffered' \in [Replicas -> BOOLEAN]
                 /\ tickAge' \in [Replicas -> Elapsed]
                 /\ tickGap' \in [Replicas -> Elapsed]
                 /\ tickSince' \in [Replicas -> [Jobs -> Elapsed]]
        BY <1>0, <2>1, <2>2 DEF EmptyChannel
    <2>3. ASSUME Forget(r)
          PROVE  /\ age' \in [Replicas -> 0 .. TTL + 1]
                 /\ curAge' \in [Replicas -> Elapsed]
                 /\ curSince' \in [Replicas -> [Jobs -> Elapsed]]
        BY <1>0, <2>1, <2>3 DEF Forget
    <2> QED
        BY <2>2, <2>3
<1>3. ASSUME NEW r \in Replicas, Receive(r) PROVE TypeOK'
    BY <1>2, <1>3, Consts DEF Receive, lease
<1>4. ASSUME NEW r \in Replicas, TakeLease(r) PROVE TypeOK'
    <2>1. left' \in OldestExpiry .. TTL
        BY <1>4, Consts DEF TakeLease
    <2> QED
        BY <1>4, <2>1 DEF TakeLease, ticker, current
<1>5. ASSUME NEW r \in Replicas, BackToWaiting(r), running[r] = {},
             UNCHANGED <<lease, since, ticker, running>>,
             faults' \in 0 .. MaxFaults
      PROVE  TypeOK'
    BY <1>2, <1>5 DEF BackToWaiting, lease, ticker
<1>6. ASSUME NEW r \in Replicas, MissLease(r) PROVE TypeOK'
    BY <1>5, <1>6 DEF MissLease
<1>7. ASSUME NEW r \in Replicas, AcquireFails(r) PROVE TypeOK'
    <2>1. faults' \in 0 .. MaxFaults
        BY <1>7, Consts DEF AcquireFails
    <2>2. running[r] = {}
        BY <1>7 DEF AcquireFails
    <2> QED
        BY <1>5, <1>7, <2>1, <2>2 DEF AcquireFails
<1>8. ASSUME NEW r \in Replicas, JobsDone(r) PROVE TypeOK'
    BY <1>5, <1>8 DEF JobsDone, JobsReturned
<1>9. ASSUME NEW r \in Replicas, Fire(r) PROVE TypeOK'
    <2>1. since' \in [Replicas -> [Jobs -> Elapsed]]
          /\ tickSince' \in [Replicas -> [Jobs -> Elapsed]]
        BY <1>9, CappedType DEF Fire
    <2>2. Due(r) \subseteq Jobs
        BY DEF Due
    <2> QED
        BY <1>9, <2>1, <2>2 DEF Fire, lease, current
<1>10. ASSUME NEW r \in Replicas, NEW j \in Jobs, FinishJob(r, j) PROVE TypeOK'
    BY <1>10 DEF FinishJob, lease, ticker, current
<1>11. ASSUME NEW r \in Replicas, Crash(r) PROVE TypeOK'
    <2>1. since' \in [Replicas -> [Jobs -> Elapsed]]
        BY <1>0, <1>11 DEF Crash
    <2>2. faults' \in 0 .. MaxFaults
        BY <1>11, Consts DEF Crash
    <2>3. EmptyChannel(r) /\ Forget(r) /\ left' = left
        BY <1>11 DEF Crash
    <2>4. /\ holder' \in Replicas \cup {Nobody, Gone}
          /\ pc' \in [Replicas -> PCs]
          /\ running' \in [Replicas -> SUBSET Jobs]
          /\ \A s \in Replicas : running'[s] # {} => pc'[s] = "running"
        BY <1>11 DEF Crash
    <2> QED
        BY <1>2, <2>1, <2>2, <2>3, <2>4
<1>12. ASSUME NEW r \in Replicas, Restart(r) PROVE TypeOK'
    BY <1>12 DEF Restart, lease, ticker, current
<1>13. CASE UNCHANGED vars
    BY <1>13 DEF vars, lease, ticker, current
<1> QED
    BY <1>1, <1>3, <1>4, <1>6, <1>7, <1>8, <1>9, <1>10, <1>11, <1>12, <1>13
    DEF Next, Step

\* No step separates the row from the leader.
LEMMA LeaderStep ==
    ASSUME LeaseInv, [Next]_vars
    PROVE  RowIsOfTheLeader'
<1> USE DEF LeaseInv
<1>0. /\ \A r \in Replicas : age[r] \in 0 .. TTL + 1
      /\ left \in Int
    BY Consts DEF TypeOK
<1> SUFFICES ASSUME NEW s \in Replicas, Leading(s)'
             PROVE  (holder = s /\ left = TTL - age[s])'
    BY DEF RowIsOfTheLeader
<1>1. CASE Tick
    <2>1. pc'[s] = pc[s] /\ age'[s] = Later(age[s], TTL + 1)
        BY <1>1 DEF Tick
    <2>2. age[s] <= TTL - 1 /\ age'[s] = age[s] + 1
        BY <1>0, <2>1, Consts DEF Leading, Later, Never
    <2>3. holder = s /\ left = TTL - age[s]
        BY <1>0, <2>1, <2>2, Consts DEF Leading, RowIsOfTheLeader
    <2>4. left' = left - 1
        BY <1>0, <1>1, <2>2, <2>3, Consts DEF Tick
    <2> QED
        BY <1>0, <1>1, <2>2, <2>3, <2>4, Consts DEF Tick
<1>2. ASSUME NEW r \in Replicas, TakeLease(r)
      PROVE  (holder = s /\ left = TTL - age[s])'
    <2>1. CASE s = r
        <3>1. age'[r] = age[r] /\ age[r] <= TTL
            BY <1>2, <2>1 DEF TakeLease, Leading
        <3> QED
            BY <1>0, <1>2, <2>1, <3>1, Consts DEF TakeLease
    <2>2. CASE s # r
        <3>1. Leading(s)
            BY <1>2, <2>2 DEF TakeLease, Leading, TypeOK
        <3>2. holder = s /\ left = TTL - age[s] /\ age[s] <= TTL
            BY <3>1 DEF RowIsOfTheLeader, Leading
        <3>3. holder \notin {Nobody, r}
            BY <2>2, <3>2, NamesAssumption
        <3>4. ~(left + age[r] < 0)
            BY <1>0, <3>2, Consts
        <3> QED
            BY <1>2, <3>3, <3>4 DEF TakeLease, Available
    <2> QED
        BY <2>1, <2>2
\* The steps that change neither the row nor another replica.
<1>3. ASSUME NEW r \in Replicas, pc'[r] \in {"down", "waiting", "acquire"} \/
                                 (pc[r] \in {"fire", "running"} /\ age'[r] = age[r]),
             \A t \in Replicas \ {r} : pc'[t] = pc[t] /\ age'[t] = age[t],
             left' = left, holder' = holder \/ (holder = r /\ pc'[r] = "down")
      PROVE  (holder = s /\ left = TTL - age[s])'
    <2>1. pc'[s] \in {"fire", "running"} /\ age'[s] <= TTL
        BY DEF Leading
    <2>2. Leading(s) /\ age'[s] = age[s]
        BY <1>3, <2>1 DEF Leading
    <2>3. holder = s /\ left = TTL - age[s]
        BY <2>2 DEF RowIsOfTheLeader
    <2> QED
        BY <1>3, <2>1, <2>2, <2>3
<1>4. ASSUME NEW r \in Replicas, Receive(r)
      PROVE  (holder = s /\ left = TTL - age[s])'
    BY <1>3, <1>4 DEF Receive, lease, TypeOK
<1>5. ASSUME NEW r \in Replicas, MissLease(r) \/ AcquireFails(r) \/ JobsDone(r)
      PROVE  (holder = s /\ left = TTL - age[s])'
    BY <1>3, <1>5 DEF MissLease, AcquireFails, JobsDone, BackToWaiting, Forget, lease, TypeOK
<1>6. ASSUME NEW r \in Replicas, Fire(r)
      PROVE  (holder = s /\ left = TTL - age[s])'
    BY <1>3, <1>6 DEF Fire, lease, TypeOK
<1>7. ASSUME NEW r \in Replicas, NEW j \in Jobs, FinishJob(r, j)
      PROVE  (holder = s /\ left = TTL - age[s])'
    BY <1>3, <1>7 DEF FinishJob, lease, TypeOK
<1>8. ASSUME NEW r \in Replicas, Crash(r)
      PROVE  (holder = s /\ left = TTL - age[s])'
    BY <1>3, <1>8 DEF Crash, Forget, TypeOK
<1>9. ASSUME NEW r \in Replicas, Restart(r)
      PROVE  (holder = s /\ left = TTL - age[s])'
    BY <1>3, <1>9 DEF Restart, lease, TypeOK
<1>10. CASE UNCHANGED vars
    BY <1>10 DEF vars, lease, Leading, RowIsOfTheLeader
<1> QED
    BY <1>1, <1>2, <1>4, <1>5, <1>6, <1>7, <1>8, <1>9, <1>10 DEF Next, Step

LEMMA LeaseInit == Init => LeaseInv
<1> SUFFICES ASSUME Init PROVE LeaseInv
    OBVIOUS
<1>1. Never \in Elapsed
    BY Consts DEF Elapsed
<1>2. TypeOK
    BY <1>1, Consts DEF Init, TypeOK, PCs
<1>3. RowIsOfTheLeader
    BY DEF Init, RowIsOfTheLeader, Leading
<1> QED
    BY <1>2, <1>3 DEF LeaseInv

\* The inductive invariant holds in every reachable state.
THEOREM LeaseInvariant == Spec => []LeaseInv
<1>1. LeaseInv /\ [Next]_vars => LeaseInv'
    BY LeaseTypeStep, LeaderStep DEF LeaseInv
<1> QED
    BY LeaseInit, <1>1, PTL DEF Spec

\* Type correctness of SchedulerLease.
THEOREM LeaseTypeCorrect == Spec => []TypeOK
<1>1. LeaseInv => TypeOK
    BY DEF LeaseInv
<1> QED
    BY LeaseInvariant, <1>1, PTL

\* Mutual exclusion up to the lifetime of the lease: at most one replica is
\* between its Acquire and the end of the lease it got, for any number of
\* replicas, crashes, restarts and slow statements.
THEOREM OneLeaderWithinTheLease == Spec => []OverlapOnlyByOverrun
<1>1. LeaseInv => OverlapOnlyByOverrun
    BY DEF LeaseInv, RowIsOfTheLeader, OverlapOnlyByOverrun
<1> QED
    BY LeaseInvariant, <1>1, PTL
================================================================================
