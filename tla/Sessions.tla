------------------------------- MODULE Sessions -------------------------------
(***************************************************************************)
(* Sign-in, refresh and logout: the authentication service                 *)
(* (internal/features/access/app/auth.go) and its handlers, the tables of  *)
(* auth states, sessions and refresh tokens (access/postgres) and the      *)
(* cookies of the browsers.                                                *)
(*                                                                         *)
(* A sign-in or a refresh draws a grant: the session token and the refresh *)
(* token it will answer with.  The service calls the store once for each   *)
(* step, and each call is a transaction of its own, so requests interleave *)
(* between any two of them.  The rotation of a refresh token is two steps, *)
(* between which it holds the lock of the token's row.                     *)
(*                                                                         *)
(* An operator whose name starts with Slip is a plausible mistake in the   *)
(* definition below it, kept to check that the properties notice it.       *)
(***************************************************************************)
EXTENDS Naturals, FiniteSets

CONSTANTS
    Requests,    \* concurrent requests
    Browsers,    \* cookie jars
    Grants,      \* pairs of tokens, each drawn once
    AuthStates,  \* authorization attempts
    MaxLosses,   \* bound on requests that get no answer
    None

ASSUME ConstantsAssumption ==
    /\ None \notin Grants \cup AuthStates \cup Browsers
    /\ MaxLosses \in Nat

VARIABLES
    authStates,  \* access_auth_states: each attempt
    tokens,      \* access_refresh_tokens, by grant
    sessions,    \* access_sessions, by grant
    family,      \* session_id of a grant's rows: the first grant of its sign-in
    jar,         \* the grant whose cookies a browser holds
    requests,    \* what each request is doing
    started,     \* the auth state that let a grant's sign-in through
    reused,      \* families in which reuse of a token was detected
    losses       \* requests that got no answer

tables == <<authStates, tokens, sessions, family>>
history == <<started, reused, losses>>
vars == <<tables, jar, requests, history>>

RowStatus == {"none", "live", "revoked", "gone"}

NoSession == [status |-> "none", expired |-> FALSE]
NoToken == [status |-> "none", expired |-> FALSE, replaced |-> FALSE]

SigningIn == {"create_session", "create_token"}
Refreshing == {"lock_token", "rotate", "revoke_session", "renew_session"}
LoggingOut == {"end_session", "end_token"}
Answering == {"welcome", "farewell", "apology", "goodbye"}

Request ==
    [pc : {"idle"} \cup SigningIn \cup Refreshing \cup LoggingOut \cup Answering,
     browser : Browsers \cup {None}, used : Grants \cup {None}, session : BOOLEAN,
     fresh : BOOLEAN, next : Grants \cup {None}, state : AuthStates \cup {None}]

Idle == [pc |-> "idle", browser |-> None, used |-> None, session |-> FALSE,
         fresh |-> FALSE, next |-> None, state |-> None]

\* A browser drops the session cookie once it has expired; otherwise it sends both.
SessionCookies(g) == {TRUE} \cup (IF sessions[g].expired THEN {FALSE} ELSE {})

Unused(g) ==
    /\ tokens[g].status = "none" /\ sessions[g].status = "none"
    /\ \A r \in Requests : requests[r].next # g

\* UPDATE ... SET revoked_at = NOW() WHERE ... AND revoked_at IS NULL
Revoked(row) == IF row.status = "live" THEN [row EXCEPT !.status = "revoked"] ELSE row

\* The rotation that holds the row of g.
Holds(r, g) == requests[r].pc = "rotate" /\ requests[r].used = g

SlipNoRowLock(g) == TRUE

\* FOR UPDATE, or any other write to the row, waits for the rotation that holds it.
RowFree(g) == \A r \in Requests : ~Holds(r, g)

Goto(r, pc) == requests' = [requests EXCEPT ![r].pc = pc]

-------------------------------------------------------------------------------
(* Sign-in. *)

LoginURL(s) ==
    /\ authStates[s] = "none"
    /\ authStates' = [authStates EXCEPT ![s] = "open"]
    /\ UNCHANGED <<tokens, sessions, family, jar, requests, history>>

SlipReadAuthState(r, b, s) ==
    /\ requests[r].pc = "idle"
    /\ authStates[s] = "open"
    /\ \E g \in Grants :
         /\ Unused(g)
         /\ requests' = [requests EXCEPT ![r] =
                [Idle EXCEPT !.pc = "create_session", !.browser = b, !.next = g, !.state = s]]
    /\ UNCHANGED <<tables, jar, history>>

\* ConsumeAuthState deletes the state it returns.  A callback with any other state
\* is refused and changes nothing.
BeginCallback(r, b, s) ==
    /\ requests[r].pc = "idle"
    /\ authStates[s] = "open"
    /\ authStates' = [authStates EXCEPT ![s] = "gone"]
    /\ \E g \in Grants :
         /\ Unused(g)
         /\ requests' = [requests EXCEPT ![r] =
                [Idle EXCEPT !.pc = "create_session", !.browser = b, !.next = g, !.state = s]]
    /\ UNCHANGED <<tokens, sessions, family, jar, history>>

\* issueTokens: a new family, its session first.
IssueSession(r) ==
    LET g == requests[r].next IN
    /\ requests[r].pc = "create_session"
    /\ sessions' = [sessions EXCEPT ![g].status = "live"]
    /\ family' = [family EXCEPT ![g] = g]
    /\ started' = [started EXCEPT ![g] = requests[r].state]
    /\ Goto(r, "create_token")
    /\ UNCHANGED <<authStates, tokens, jar, reused, losses>>

IssueToken(r) ==
    /\ requests[r].pc = "create_token"
    /\ tokens' = [tokens EXCEPT ![requests[r].next].status = "live"]
    /\ Goto(r, "welcome")
    /\ UNCHANGED <<authStates, sessions, family, jar, history>>

-------------------------------------------------------------------------------
(* Refresh. *)

\* The new token is drawn and the clock read before the row is locked.
BeginRefresh(r, b) ==
    LET g == jar[b] IN
    /\ requests[r].pc = "idle"
    /\ g # None
    /\ \E next \in Grants, sent \in SessionCookies(g) :
         /\ Unused(next)
         /\ requests' = [requests EXCEPT ![r] =
                [Idle EXCEPT !.pc = "lock_token", !.browser = b, !.used = g,
                             !.session = sent, !.fresh = ~tokens[g].expired, !.next = next]]
    /\ UNCHANGED <<tables, jar, history>>

LockToken(r) ==
    LET g == requests[r].used IN
    /\ requests[r].pc = "lock_token"
    /\ RowFree(g)
    /\ requests[r].fresh
    /\ tokens[g].status = "live"
    /\ Goto(r, "rotate")
    /\ UNCHANGED <<tables, jar, history>>

\* The token is not there, expired, or revoked without a successor.
RefuseToken(r) ==
    LET g == requests[r].used IN
    /\ requests[r].pc = "lock_token"
    /\ RowFree(g)
    /\ \/ tokens[g].status = "gone"
       \/ ~requests[r].fresh
       \/ tokens[g].status = "revoked" /\ ~tokens[g].replaced
    /\ Goto(r, "farewell")
    /\ UNCHANGED <<tables, jar, history>>

\* The token was rotated before.  The family is revoked and the revocation rolled
\* back, because reuse is reported as an error and errors roll back.
DetectReuse(r) ==
    LET g == requests[r].used IN
    /\ requests[r].pc = "lock_token"
    /\ RowFree(g)
    /\ requests[r].fresh
    /\ tokens[g].status = "revoked" /\ tokens[g].replaced
    /\ reused' = reused \cup {family[g]}
    /\ Goto(r, "farewell")
    /\ UNCHANGED <<tables, jar, started, losses>>

\* The update of the old row may find nothing to revoke; the insert is done all
\* the same.
RotateToken(r) ==
    LET g == requests[r].used
        next == requests[r].next
    IN
    /\ requests[r].pc = "rotate"
    /\ tokens' = [tokens EXCEPT ![g] = IF @.status = "live"
                                       THEN [@ EXCEPT !.status = "revoked", !.replaced = TRUE]
                                       ELSE @,
                                ![next].status = "live"]
    /\ family' = [family EXCEPT ![next] = family[g]]
    /\ Goto(r, "revoke_session")
    /\ UNCHANGED <<authStates, sessions, jar, history>>

SlipKeepOldSession(r) ==
    /\ requests[r].pc = "revoke_session"
    /\ Goto(r, "renew_session")
    /\ UNCHANGED <<tables, jar, history>>

\* The session the browser sent, if it sent one.
RevokeOldSession(r) ==
    LET g == requests[r].used IN
    /\ requests[r].pc = "revoke_session"
    /\ sessions' = [sessions EXCEPT ![g] = IF requests[r].session THEN Revoked(@) ELSE @]
    /\ Goto(r, "renew_session")
    /\ UNCHANGED <<authStates, tokens, family, jar, history>>

RenewSession(r) ==
    /\ requests[r].pc = "renew_session"
    /\ sessions' = [sessions EXCEPT ![requests[r].next].status = "live"]
    /\ Goto(r, "welcome")
    /\ UNCHANGED <<authStates, tokens, family, jar, history>>

-------------------------------------------------------------------------------
(* Logout. *)

BeginLogout(r, b) ==
    LET g == jar[b] IN
    /\ requests[r].pc = "idle"
    /\ g # None
    /\ \E sent \in SessionCookies(g) :
         requests' = [requests EXCEPT ![r] =
             [Idle EXCEPT !.pc = "end_session", !.browser = b, !.used = g, !.session = sent]]
    /\ UNCHANGED <<tables, jar, history>>

EndSession(r) ==
    LET g == requests[r].used IN
    /\ requests[r].pc = "end_session"
    /\ sessions' = [sessions EXCEPT ![g] = IF requests[r].session THEN Revoked(@) ELSE @]
    /\ Goto(r, "end_token")
    /\ UNCHANGED <<authStates, tokens, family, jar, history>>

EndToken(r) ==
    LET g == requests[r].used IN
    /\ requests[r].pc = "end_token"
    /\ RowFree(g)
    /\ tokens' = [tokens EXCEPT ![g] = Revoked(@)]
    /\ Goto(r, "goodbye")
    /\ UNCHANGED <<authStates, sessions, family, jar, history>>

-------------------------------------------------------------------------------
(* Failures and answers. *)

SlipKeepCookies(pc) == IF pc \in LoggingOut THEN "goodbye" ELSE "apology"

SlipEndTokenAnyway(pc) ==
    CASE pc = "end_session" -> "end_token"
      [] pc = "end_token" -> "goodbye"
      [] pc \in Refreshing -> "farewell"
      [] OTHER -> "apology"

\* How a request that cannot go on is answered: a callback with an error, a refresh
\* with an error that clears the cookies, a logout as if all had gone well.
AnswerToFailure(pc) ==
    CASE pc \in LoggingOut -> "goodbye"
      [] pc \in Refreshing -> "farewell"
      [] OTHER -> "apology"

\* A call to the store or to the identity provider fails; an open rotation is
\* rolled back, what was committed stays.
Fail(r) ==
    /\ requests[r].pc \in SigningIn \cup Refreshing \cup LoggingOut
    /\ Goto(r, AnswerToFailure(requests[r].pc))
    /\ UNCHANGED <<tables, jar, history>>

\* The answer sets all the cookies, clears all of them, or leaves them alone.
Answer(r) ==
    LET b == requests[r].browser IN
    /\ requests[r].pc \in Answering
    /\ jar' = CASE requests[r].pc = "welcome" -> [jar EXCEPT ![b] = requests[r].next]
                [] requests[r].pc \in {"farewell", "goodbye"} -> [jar EXCEPT ![b] = None]
                [] OTHER -> jar
    /\ requests' = [requests EXCEPT ![r] = Idle]
    /\ UNCHANGED <<tables, history>>

\* The process stops, or the browser is gone: the request ends where it is.
Lose(r) ==
    /\ requests[r].pc # "idle"
    /\ losses < MaxLosses
    /\ losses' = losses + 1
    /\ requests' = [requests EXCEPT ![r] = Idle]
    /\ UNCHANGED <<tables, jar, started, reused>>

-------------------------------------------------------------------------------
(* Time and the cleanup loop. *)

ExpireAuthState(s) ==
    /\ authStates[s] = "open"
    /\ authStates' = [authStates EXCEPT ![s] = "expired"]
    /\ UNCHANGED <<tokens, sessions, family, jar, requests, history>>

ExpireSession(g) ==
    /\ sessions[g].status \in {"live", "revoked"}
    /\ ~sessions[g].expired
    /\ sessions' = [sessions EXCEPT ![g].expired = TRUE]
    /\ UNCHANGED <<authStates, tokens, family, jar, requests, history>>

\* APP_REFRESH_TTL is longer than APP_SESSION_TTL: the session goes first.
ExpireToken(g) ==
    /\ tokens[g].status \in {"live", "revoked"}
    /\ ~tokens[g].expired
    /\ sessions[g].status = "none" \/ sessions[g].expired
    /\ tokens' = [tokens EXCEPT ![g].expired = TRUE]
    /\ UNCHANGED <<authStates, sessions, family, jar, requests, history>>

SlipPurgeRevokedOnly(rows) == [g \in Grants |->
    IF rows[g].expired /\ rows[g].status # "live"
    THEN [rows[g] EXCEPT !.status = "gone"] ELSE rows[g]]

Purged(rows) == [g \in Grants |->
    IF rows[g].expired THEN [rows[g] EXCEPT !.status = "gone"] ELSE rows[g]]

\* One transaction over the three tables; it waits for the rows it deletes.
CleanupExpired ==
    /\ \A g \in Grants : tokens[g].expired => RowFree(g)
    /\ authStates' = [s \in AuthStates |->
                         IF authStates[s] = "expired" THEN "gone" ELSE authStates[s]]
    /\ sessions' = Purged(sessions)
    /\ tokens' = Purged(tokens)
    /\ UNCHANGED <<family, jar, requests, history>>

-------------------------------------------------------------------------------

Init ==
    /\ authStates = [s \in AuthStates |-> "none"]
    /\ tokens = [g \in Grants |-> NoToken]
    /\ sessions = [g \in Grants |-> NoSession]
    /\ family = [g \in Grants |-> None]
    /\ jar = [b \in Browsers |-> None]
    /\ requests = [r \in Requests |-> Idle]
    /\ started = [g \in Grants |-> None]
    /\ reused = {}
    /\ losses = 0

Proceed(r) ==
    \/ IssueSession(r)
    \/ IssueToken(r)
    \/ LockToken(r)
    \/ RefuseToken(r)
    \/ DetectReuse(r)
    \/ RotateToken(r)
    \/ RevokeOldSession(r)
    \/ RenewSession(r)
    \/ EndSession(r)
    \/ EndToken(r)
    \/ Fail(r)
    \/ Answer(r)

Begin(r, b) ==
    \/ \E s \in AuthStates : BeginCallback(r, b, s)
    \/ BeginRefresh(r, b)
    \/ BeginLogout(r, b)

Expire ==
    \/ \E s \in AuthStates : ExpireAuthState(s)
    \/ \E g \in Grants : ExpireSession(g) \/ ExpireToken(g)

Next ==
    \/ \E s \in AuthStates : LoginURL(s)
    \/ \E r \in Requests, b \in Browsers : Begin(r, b)
    \/ \E r \in Requests : Proceed(r) \/ Lose(r)
    \/ Expire
    \/ CleanupExpired

Spec == Init /\ [][Next]_vars

\* Every request gets on, and the cleanup loop runs on its ticker.
FairSpec ==
    /\ Spec
    /\ \A r \in Requests : WF_vars(Proceed(r))
    /\ WF_vars(CleanupExpired)

-------------------------------------------------------------------------------

TypeOK ==
    /\ authStates \in [AuthStates -> {"none", "open", "expired", "gone"}]
    /\ tokens \in [Grants -> [status : RowStatus, expired : BOOLEAN, replaced : BOOLEAN]]
    /\ sessions \in [Grants -> [status : RowStatus, expired : BOOLEAN]]
    /\ family \in [Grants -> Grants \cup {None}]
    /\ jar \in [Browsers -> Grants \cup {None}]
    /\ requests \in [Requests -> Request]
    /\ started \in [Grants -> AuthStates \cup {None}]
    /\ reused \subseteq Grants
    /\ losses \in Nat

Family(f) == {g \in Grants : family[g] = f}
LiveTokens(f) == {g \in Family(f) : tokens[g].status = "live"}
LiveSessions(f) == {g \in Family(f) : sessions[g].status = "live" /\ ~sessions[g].expired}

\* A family has one refresh token that can be used, however many requests present
\* its tokens at once.
OneLiveToken == \A f \in Grants : \A g, h \in LiveTokens(f) : g = h

\* A refresh revokes the session before it issues the next: a family has one session
\* that can be used.
OneLiveSession == \A f \in Grants : \A g, h \in LiveSessions(f) : g = h

\* All the refresh tokens the family ever had are revoked or deleted.
Closed(f) == /\ tokens[f].status # "none"
             /\ family[f] = f
             /\ LiveTokens(f) = {}

\* Once its last token is revoked, by a logout or otherwise, nobody refreshes a family again.
ClosedFamilyStaysClosed == [][\A f \in Grants : Closed(f) => Closed(f)']_vars

\* When a logout has revoked the token of a family, none of its sessions works any more,
\* although the two are revoked in two transactions and a refresh may run in between.
LogoutShutsFamily == \A g \in Grants :
    tokens[g].status = "revoked" /\ ~tokens[g].replaced => LiveSessions(family[g]) = {}

\* One authorization attempt signs in once, however often its callback is sent.
AuthStateUsedOnce == \A g, h \in Grants :
    started[g] # None /\ started[g] = started[h] => g = h

\* With one request at a time and no lost answer, a browser is never taken for one
\* that presents an old token.
NoFalseReuse == reused = {}

\* Every expired refresh token is deleted in the end.
ExpiredTokensGo == \A g \in Grants : tokens[g].expired ~> tokens[g].status = "gone"

===============================================================================
