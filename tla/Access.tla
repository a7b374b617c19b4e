--------------------------------- MODULE Access ---------------------------------
(***************************************************************************)
(* Who a request acts as: password login, the second factor, session       *)
(* cookies (internal/auth), API tokens (internal/apitokens), and the       *)
(* middlewares of internal/api that admit a request to its handler.  Each  *)
(* request is a sequence of statements, any of which may fail: because its *)
(* client has left, or by itself, as a locked or full database makes it.   *)
(*                                                                         *)
(* The unit of time is one period of the one-time codes.  Random ids,      *)
(* secrets and keys do not repeat, and nobody guesses them.                *)
(***************************************************************************)
EXTENDS Integers, Sequences, FiniteSets, Table

CONSTANTS Users, Admins, Writers,  \* by role; a role never changes
          NoUser,                  \* no user
          Requests,                \* requests in flight, each used again and again
          SessionTTL, ChallengeTTL, TokenTTLs,
          MaxSessions, MaxChallenges, MaxTokens, MaxSecrets,  \* bounds: how many are ever made
          MaxKeys,                 \* bound: keys ever generated
          MaxTime                  \* bound: the clock stops

ASSUME RolesAssumption ==
    /\ Admins \subseteq Writers /\ Writers \subseteq Users /\ NoUser \notin Users
    /\ IsFiniteSet(Admins)
ASSUME LifetimesAssumption == SessionTTL \in Nat /\ ChallengeTTL \in Nat /\ TokenTTLs \subseteq Nat
ASSUME BoundsAssumption ==
    /\ MaxSessions \in Nat /\ MaxChallenges \in Nat /\ MaxTokens \in Nat
    /\ MaxSecrets \in Nat /\ MaxKeys \in Nat \ {0} /\ MaxTime \in Nat

VARIABLES
    secret, secrets,   \* users.totp_secret, 0 for NULL, and how many were generated
    sessions,          \* the rows of sessions, by id
    challenges,        \* the rows of mfa_challenges, by id
    tokens,            \* the rows of api_tokens; rows are never deleted
    key,               \* the key this start of the process signs with
    cookies,           \* the key each session's cookie was signed with
    asked,             \* how many challenges reached a client
    now,
    step, local,       \* of each request: its next statement, its variables
    \* history variables
    watch,             \* of each request, what was the case at a moment of its life
    loggedOut,         \* sessions that a logout ended
    earned,            \* every session was earned, or its factor could not be read
    relied,            \* some request relied on what had ended before it began
    bypassed           \* somebody else than an administrator pushed directly

factors == <<secret, secrets>>
authRows == <<sessions, challenges, tokens>>
clients == <<cookies, asked>>
requests == <<step, local>>
history == <<loggedOut, earned, relied, bypassed>>
accessVars == <<factors, authRows, key, clients, now, requests, watch, history>>

\* cookie, bearer and challenge are what the client sent, 0 for nothing; user is
\* the user the request acts as, once known; code: the code it sent was the user's;
\* unread: whether the user has a second factor could not be read.
\* (The code and the route are chosen where the program first looks at them.)
NoLocals == [user |-> NoUser, cookie |-> 0, bearer |-> 0, challenge |-> 0, code |-> FALSE,
         unread |-> FALSE]
NothingSeen == [off |-> FALSE, live |-> FALSE,
                cookieOver |-> FALSE, tokenOver |-> FALSE]

Has(table, i) == i \in DOMAIN table

After(t) == now > t
Lives(table, i) == Has(table, i) /\ ~After(table[i].expires)
Signed(c) == cookies[c] = key
CookieOver(c) == c \in loggedOut \/ ~Signed(c) \/ ~Lives(sessions, c)
TokenOver(t) == tokens[t].revoked \/ After(tokens[t].expires)

\* VerifyTOTP: the code of this period or of an adjacent one.
VerifyTOTP(s, code) == code.secret = s /\ code.at <= now + 1 /\ now <= code.at + 1
MFAEnabled(u) == secret[u] # 0

\* What the user's authenticator shows, if its clock is at most a period off.
Shown(u) == {code \in [secret : {secret[u]} \ {0}, at : 0 .. now + 1] : now - 1 <= code.at}

Token(u, direct, expires) ==
    [owner |-> u, direct |-> direct, expires |-> expires, revoked |-> FALSE]

\* The database may be one that an earlier run left: an administrator may be
\* enrolled and may have issued a token.
AccessInit ==
    /\ \E enrolled \in SUBSET Admins :
           /\ Cardinality(enrolled) <= MaxSecrets /\ secrets = Cardinality(enrolled)
           /\ secret \in [Users -> 0 .. secrets]
           /\ {u \in Users : secret[u] # 0} = enrolled
           /\ \A u, v \in enrolled : u # v => secret[u] # secret[v]
    /\ tokens \in {<<>>} \cup {<<Token(a, direct, ttl)>> : a \in Admins, direct \in BOOLEAN, ttl \in TokenTTLs}
    /\ sessions = <<>> /\ challenges = <<>>
    /\ key = 1
    /\ cookies = <<>> /\ asked = 0
    /\ now = 0
    /\ step = [r \in Requests |-> "idle"]
    /\ local = [r \in Requests |-> NoLocals]
    /\ watch = [r \in Requests |-> NothingSeen]
    /\ loggedOut = {} /\ earned = TRUE /\ relied = FALSE /\ bypassed = FALSE
-----------------------------------------------------------------------------
\* What is the case now of the user, challenge, code, cookie and token of a request.
Moment(r) ==
    LET l == local[r] IN
    [off |-> l.cookie = 0 /\ l.bearer = 0 /\ l.user \in Users /\ ~MFAEnabled(l.user),
     live |-> l.challenge # 0 /\ Lives(challenges, l.challenge),
     cookieOver |-> l.cookie # 0 /\ CookieOver(l.cookie),
     tokenOver |-> l.bearer # 0 /\ TokenOver(l.bearer)]

\* watch accumulates what was the case at some moment of the request; the last
\* two fields are about the moment it began.
Observe ==
    watch' = [r \in Requests |->
        IF step'[r] = "idle" THEN NothingSeen
        ELSE IF step[r] = "idle" THEN Moment(r)'
        ELSE [watch[r] EXCEPT !.off = @ \/ Moment(r)'.off, !.live = @ \/ Moment(r)'.live]]

-----------------------------------------------------------------------------
At(r, statement) == step[r] = statement
Proceed(r, statement, l) ==
    /\ step' = [step EXCEPT ![r] = statement]
    /\ local' = [local EXCEPT ![r] = l]
Finish(r) ==
    /\ step' = [step EXCEPT ![r] = "idle"]
    /\ local' = [local EXCEPT ![r] = NoLocals]

\* The password is right: the SELECT of Authenticate and the bcrypt comparison.
Login(r, u) ==
    /\ At(r, "idle")
    /\ Proceed(r, "factor", [NoLocals EXCEPT !.user = u])
    /\ UNCHANGED <<factors, authRows, key, clients, now, history>>
    /\ Observe

\* ok: the database executes the statement.
\* An error of MFAEnabled is ignored, and reads as "off".
CheckFactor(r, ok) ==
    /\ At(r, "factor")
    /\ \/ ok /\ MFAEnabled(local[r].user) /\ Proceed(r, "challenge", local[r])
       \/ ok /\ ~MFAEnabled(local[r].user) /\ Proceed(r, "session", local[r])
       \/ ~ok /\ Proceed(r, "session", [local[r] EXCEPT !.unread = TRUE])
    /\ UNCHANGED <<factors, authRows, key, clients, now, history>>
    /\ Observe

CreateMFAChallenge(r) ==
    /\ At(r, "challenge") /\ asked < MaxChallenges
    /\ challenges' = With(challenges, asked + 1,
                          [user |-> local[r].user, expires |-> now + ChallengeTTL])
    /\ asked' = asked + 1
    /\ Finish(r)
    /\ UNCHANGED <<factors, sessions, tokens, key, cookies, now, history>>
    /\ Observe

\* No secret was stored, or the challenge lived and the code was right, at some moment
\* of the request; or whether one is stored could not be read.
Earned(r) ==
    \/ watch[r].off
    \/ watch[r].live /\ local[r].code
    \/ local[r].unread

CreateSession(r) ==
    /\ At(r, "session") /\ Len(cookies) < MaxSessions
    /\ sessions' = With(sessions, Len(cookies) + 1,
                        [user |-> local[r].user, expires |-> now + SessionTTL])
    /\ cookies' = Append(cookies, key)
    /\ earned' = (earned /\ Earned(r))
    /\ Finish(r)
    /\ UNCHANGED <<factors, challenges, tokens, key, asked, now, loggedOut, relied, bypassed>>
    /\ Observe

\* An INSERT that fails.
InsertFails(r) ==
    /\ step[r] \in {"challenge", "session"}
    /\ Finish(r)
    /\ UNCHANGED <<factors, authRows, key, clients, now, history>>
    /\ Observe
-----------------------------------------------------------------------------
Verify(r, c) ==
    /\ At(r, "idle")
    /\ Proceed(r, "challenged", [NoLocals EXCEPT !.challenge = c])
    /\ UNCHANGED <<factors, authRows, key, clients, now, history>>
    /\ Observe

\* Mutated form: the expiry of the challenge is not looked at.
ReadChallengeAnyAge(r, ok) ==
    LET c == local[r].challenge IN
    /\ At(r, "challenged")
    /\ IF ok /\ Has(challenges, c)
       THEN Proceed(r, "code", [local[r] EXCEPT !.user = challenges[c].user])
            /\ UNCHANGED challenges
       ELSE Finish(r)
            /\ challenges' = IF ok THEN Without(challenges, c) ELSE challenges
    /\ UNCHANGED <<factors, sessions, tokens, key, clients, now, history>>
    /\ Observe

\* RedeemMFAChallenge, its first SELECT and the DELETE of an expired row.
ReadChallenge(r, ok) ==
    LET c == local[r].challenge IN
    /\ At(r, "challenged")
    /\ IF ok /\ Lives(challenges, c)
       THEN Proceed(r, "code", [local[r] EXCEPT !.user = challenges[c].user])
            /\ UNCHANGED challenges
       ELSE Finish(r)
            /\ challenges' = IF ok THEN Without(challenges, c) ELSE challenges
    /\ UNCHANGED <<factors, sessions, tokens, key, clients, now, history>>
    /\ Observe

\* AuthenticateMFA reads the secret again; a NULL or a failed read is a wrong code.
CheckCode(r, code) ==
    LET u == local[r].user IN
    /\ At(r, "code")
    /\ IF MFAEnabled(u) /\ VerifyTOTP(secret[u], code)
       THEN Proceed(r, "consume", [local[r] EXCEPT !.code = code \in Shown(u)])
       ELSE Finish(r)
    /\ UNCHANGED <<factors, authRows, key, clients, now, history>>
    /\ Observe

\* The error of the DELETE, and how many rows it found, are ignored.
ConsumeChallenge(r, ok) ==
    /\ At(r, "consume")
    /\ challenges' = IF ok THEN Without(challenges, local[r].challenge) ELSE challenges
    /\ Proceed(r, "session", local[r])
    /\ UNCHANGED <<factors, sessions, tokens, key, clients, now, history>>
    /\ Observe
-----------------------------------------------------------------------------
\* A request to an authenticated route, with a cookie, a bearer token or both.
Arrive(r, c, t) ==
    /\ At(r, "idle") /\ (c # 0 \/ t # 0)
    /\ Proceed(r, IF t # 0 THEN "token" ELSE "cookie",
            [NoLocals EXCEPT !.cookie = c, !.bearer = t])
    /\ UNCHANGED <<factors, authRows, key, clients, now, history>>
    /\ Observe

\* authH's fall-through when the bearer token does not do.
TryCookie(r) == IF local[r].cookie # 0 THEN Proceed(r, "cookie", [local[r] EXCEPT !.bearer = 0])
                ELSE Finish(r)

\* Mutated form: revoked_at is not looked at.
ReadRevokedToken(r, ok) ==
    /\ At(r, "token")
    /\ IF ok /\ ~After(tokens[local[r].bearer].expires)
       THEN Proceed(r, "owner", local[r])
       ELSE TryCookie(r)
    /\ UNCHANGED <<factors, authRows, key, clients, now, history>>
    /\ Observe

\* Service.Authenticate of apitokens.
ReadToken(r, ok) ==
    /\ At(r, "token")
    /\ IF ok /\ ~tokens[local[r].bearer].revoked /\ ~After(tokens[local[r].bearer].expires)
       THEN Proceed(r, "owner", local[r])
       ELSE TryCookie(r)
    /\ UNCHANGED <<factors, authRows, key, clients, now, history>>
    /\ Observe

\* userFromAPIToken: the owner's row, by the copy of the token read before.
ReadOwner(r, ok) ==
    /\ At(r, "owner")
    /\ IF ok
       THEN /\ Proceed(r, "bearer handler", [local[r] EXCEPT !.user = tokens[local[r].bearer].owner])
            /\ relied' = (relied \/ watch[r].tokenOver)
       ELSE TryCookie(r) /\ UNCHANGED relied
    /\ UNCHANGED <<factors, authRows, key, clients, now, loggedOut, earned, bypassed>>
    /\ Observe

LookupSession(r, ok) ==
    LET c == local[r].cookie IN
    /\ At(r, "cookie")
    /\ IF Signed(c) /\ ok /\ Lives(sessions, c)
       THEN /\ Proceed(r, "cookie handler", [local[r] EXCEPT !.user = sessions[c].user])
            /\ relied' = (relied \/ watch[r].cookieOver)
            /\ UNCHANGED sessions
       ELSE /\ Finish(r)
            /\ sessions' = IF Signed(c) /\ ok THEN Without(sessions, c) ELSE sessions
            /\ UNCHANGED relied
    /\ UNCHANGED <<factors, challenges, tokens, key, clients, now, loggedOut, earned, bypassed>>
    /\ Observe
-----------------------------------------------------------------------------
InHandler(r) == step[r] \in {"bearer handler", "cookie handler"}

\* requireWrite and requireAdmin, around the handlers.
requireWrite(r) == local[r].user \in Writers
requireAdmin(r) == local[r].user \in Admins

\* The handlers that change nothing here, a refused role, and a handler whose
\* statement fails.
Answer(r) ==
    /\ InHandler(r)
    /\ Finish(r)
    /\ UNCHANGED <<factors, authRows, key, clients, now, history>>
    /\ Observe

EnrollMFA(u) ==
    /\ secrets < MaxSecrets
    /\ secrets' = secrets + 1
    /\ secret' = [secret EXCEPT ![u] = secrets + 1]
DisableMFA(u) == secret' = [secret EXCEPT ![u] = 0] /\ UNCHANGED secrets

handleMFAEnroll(r) ==
    /\ InHandler(r)
    /\ EnrollMFA(local[r].user)
    /\ Finish(r)
    /\ UNCHANGED <<authRows, key, clients, now, history>>
    /\ Observe

handleMFADisable(r) ==
    /\ InHandler(r)
    /\ DisableMFA(local[r].user)
    /\ Finish(r)
    /\ UNCHANGED <<authRows, key, clients, now, history>>
    /\ Observe

DestroySession(c) == sessions' = IF Signed(c) THEN Without(sessions, c) ELSE sessions

\* Ends the session of the cookie, whoever the bearer token belongs to.  The error of
\* the DELETE is ignored: the answer is the same, and the row stays.
handleLogout(r, ok) ==
    LET c == local[r].cookie IN
    /\ InHandler(r)
    /\ IF c # 0 /\ ok
       THEN DestroySession(c) /\ loggedOut' = loggedOut \cup {c}
       ELSE UNCHANGED <<sessions, loggedOut>>
    /\ Finish(r)
    /\ UNCHANGED <<factors, challenges, tokens, key, clients, now, earned, relied, bypassed>>
    /\ Observe

Issue(u, direct, expires) ==
    /\ Len(tokens) < MaxTokens
    /\ tokens' = Append(tokens, Token(u, direct, expires))

\* Mutated form: the route asks for requireWrite.
handleCreateAPITokenByWriters(r, direct, expires) ==
    /\ InHandler(r) /\ requireWrite(r)
    /\ Issue(local[r].user, direct, expires)
    /\ Finish(r)
    /\ UNCHANGED <<factors, sessions, challenges, key, clients, now, history>>
    /\ Observe

handleCreateAPIToken(r, direct, expires) ==
    /\ InHandler(r) /\ requireAdmin(r)
    /\ Issue(local[r].user, direct, expires)
    /\ Finish(r)
    /\ UNCHANGED <<factors, sessions, challenges, key, clients, now, history>>
    /\ Observe

Revoke(t) == tokens' = [tokens EXCEPT ![t].revoked = TRUE]

handleDeleteAPIToken(r, t) ==
    /\ InHandler(r) /\ requireAdmin(r)
    /\ Revoke(t)
    /\ Finish(r)
    /\ UNCHANGED <<factors, sessions, challenges, key, clients, now, history>>
    /\ Observe

\* The scopes are in the request's context only behind a bearer token.
Scope(r) == At(r, "bearer handler") /\ tokens[local[r].bearer].direct

handleRunPushGuarded(r) ==
    /\ InHandler(r) /\ requireWrite(r)
    /\ requireAdmin(r) \/ Scope(r)
    /\ bypassed' = (bypassed \/ ~requireAdmin(r))
    /\ Finish(r)
    /\ UNCHANGED <<factors, authRows, key, clients, now, loggedOut, earned, relied>>
    /\ Observe
-----------------------------------------------------------------------------
Elapse ==
    /\ now < MaxTime
    /\ now' = now + 1
    /\ UNCHANGED <<factors, authRows, key, clients, requests, history>>
    /\ Observe

\* A start has the configured key, or without one draws its own.
NewService ==
    /\ \/ key' = key
       \/ key < MaxKeys /\ key' = key + 1
    /\ step' = [r \in Requests |-> "idle"]
    /\ local' = [r \in Requests |-> NoLocals]
    /\ UNCHANGED <<factors, authRows, clients, now, history>>
    /\ Observe

Statement(r) ==
    \/ \E u \in Users : Login(r, u)
    \/ CreateMFAChallenge(r) \/ CreateSession(r) \/ InsertFails(r)
    \/ \E c \in 1 .. asked : Verify(r, c)
    \/ \E s \in 0 .. secrets, at \in 0 .. now + 2 : CheckCode(r, [secret |-> s, at |-> at])
    \/ \E c \in 0 .. Len(cookies), t \in 0 .. Len(tokens) : Arrive(r, c, t)
    \/ Answer(r) \/ handleMFAEnroll(r) \/ handleMFADisable(r)
    \/ \E direct \in BOOLEAN, ttl \in TokenTTLs : handleCreateAPIToken(r, direct, now + ttl)
    \/ \E t \in 1 .. Len(tokens) : handleDeleteAPIToken(r, t)
    \/ handleRunPushGuarded(r)
    \/ \E ok \in BOOLEAN :
           \/ CheckFactor(r, ok) \/ ReadChallenge(r, ok) \/ ConsumeChallenge(r, ok)
           \/ ReadToken(r, ok) \/ ReadOwner(r, ok) \/ LookupSession(r, ok)
           \/ handleLogout(r, ok)

AccessNext == Elapse \/ NewService \/ (\E r \in Requests : Statement(r))
AccessSpec == AccessInit /\ [][AccessNext]_accessVars
-----------------------------------------------------------------------------
AccessTypeOK ==
    /\ secret \in [Users -> Nat] /\ secrets \in Nat
    /\ tokens \in Seq([owner : Users, direct : BOOLEAN, expires : Nat, revoked : BOOLEAN])
    /\ key \in Nat /\ cookies \in Seq(Nat) /\ asked \in Nat /\ now \in Nat
    /\ DOMAIN sessions \subseteq 1 .. Len(cookies)
    /\ \A c \in DOMAIN sessions : sessions[c] \in [user : Users, expires : Nat]
    /\ DOMAIN challenges \subseteq 1 .. asked
    /\ \A c \in DOMAIN challenges : challenges[c] \in [user : Users, expires : Nat]

\* The second factor (server.go handleLogin and handleMFAVerify): a session is only
\* ever created by a request during which the user had no secret stored, or during
\* which the challenge had not expired and the code was that of the stored secret.
\* The one exception is a login that could not read whether a secret is stored: the
\* error of MFAEnabled (server.go:447) is ignored.  A secret replaced or removed
\* between the two halves of a login, an expired or reused challenge, a client that
\* left and any other failed statement never add up to another session.
SessionsAreEarned == earned

\* What has ended stays ended: no request is admitted by a cookie whose session a
\* logout ended, or that had expired or was signed with the key of an earlier start,
\* nor by a token that had expired or been revoked, before the request began.  (A
\* logout whose DELETE failed is answered too, and ended nothing: server.go:549.)
EndedStaysEnded == ~relied

\* server.go:240-244: issuing is admin-only so that operators cannot give
\* themselves apply:direct. A push without a change request is an admin's, with a
\* cookie or with any token that was ever issued.
DirectPushesAreAdmins == ~bypassed
================================================================================
