---------------------------- MODULE SessionsProofs ----------------------------
(***************************************************************************)
(* Proofs about Sessions.  Everything follows from the inductive invariant *)
(* Sound: a family of refresh tokens is a chain, of which only the last    *)
(* token has no successor; a grant is private to the request that drew it  *)
(* until it is answered; and whoever knows the last grant of a family knows*)
(* the only one whose session may still work.  What depends on how         *)
(* browsers behave comes last, from Orderly.                               *)
(***************************************************************************)
EXTENDS Sessions, TLAPS

Active(g) == sessions[g].status = "live" /\ ~sessions[g].expired

\* No session of g's family works, but perhaps that of g.
OthersInactive(g) == \A h \in Grants : family[h] = family[g] /\ h # g => ~Active(h)

\* g has reached a browser, or is about to.
Known(g) ==
    \/ \E b \in Browsers : jar[b] = g
    \/ \E r \in Requests : requests[r].used = g
    \/ \E r \in Requests : requests[r].pc = "welcome" /\ requests[r].next = g

Head(g) == tokens[g].status # "none" /\ ~tokens[g].replaced

\* What a request carries while it is at work.
ShapedBy(r) ==
    /\ requests[r].pc = "idle" => requests[r] = Idle
    /\ requests[r].pc # "idle" => requests[r].browser \in Browsers
    /\ requests[r].pc \in SigningIn \cup Refreshing \cup {"welcome"} => requests[r].next \in Grants
    /\ requests[r].pc \in Refreshing \cup LoggingOut => requests[r].used \in Grants
    /\ requests[r].pc \in Refreshing \cup LoggingOut /\ ~requests[r].session
         => sessions[requests[r].used].expired

Shapes == \A r \in Requests : ShapedBy(r)

\* The rows of a grant and the family they name appear together.
Rows == \A g \in Grants :
    /\ family[g] # None <=> tokens[g].status # "none" \/ sessions[g].status # "none"
    /\ tokens[g].expired => tokens[g].status # "none"
    /\ sessions[g].expired => sessions[g].status # "none"
    /\ tokens[g].replaced => tokens[g].status \in {"revoked", "gone"}

\* A family is named after its first grant, which has a token before any other has.
Roots == \A g \in Grants : family[g] # None =>
    /\ family[family[g]] = family[g]
    /\ family[g] # g => tokens[family[g]].status # "none"

\* A grant is private to the request that drew it, which fills its rows in order.
Private == \A r \in Requests :
    LET g == requests[r].next IN g # None =>
    /\ \A p \in Requests : requests[p].next = g => p = r
    /\ \A p \in Requests : requests[p].used # g
    /\ \A b \in Browsers : jar[b] # g

DrawnBy(r) ==
    LET g == requests[r].next IN
    /\ requests[r].pc \in {"create_session", "lock_token", "rotate"} =>
         tokens[g].status = "none" /\ sessions[g].status = "none"
    /\ requests[r].pc = "create_token" =>
         tokens[g].status = "none" /\ sessions[g].status # "none" /\ family[g] = g
    /\ requests[r].pc \in {"revoke_session", "renew_session"} =>
         /\ sessions[g].status = "none"
         /\ tokens[g].status \in {"live", "gone"}
         /\ ~tokens[g].replaced
         /\ family[g] = family[requests[r].used]

Drawn == \A r \in Requests : DrawnBy(r)

\* Whoever knows a grant without a successor knows the last of its family.
Knowledge == \A g \in Grants : Known(g) =>
    /\ tokens[g].status # "none"
    /\ ~tokens[g].replaced => OthersInactive(g)

\* One rotation at a time holds the row of a token, and it is live.
Locked == \A r \in Requests : requests[r].pc = "rotate" =>
    /\ tokens[requests[r].used].status = "live"
    /\ \A p \in Requests : Holds(p, requests[r].used) => p = r

\* A family has one token without a successor.
OneHead == \A g, h \in Grants :
    family[g] # None /\ family[g] = family[h] /\ Head(g) /\ Head(h) => g = h

\* The sessions that a refresh or a logout has left behind do not work.
EndedBy(r) ==
    LET g == requests[r].used IN
    /\ requests[r].pc = "revoke_session" => OthersInactive(g)
    /\ requests[r].pc = "renew_session" => OthersInactive(g) /\ ~Active(g)
    /\ requests[r].pc = "end_token" => ~Active(g)

Ended == \A r \in Requests : EndedBy(r)

\* An authorization attempt is spent by the one sign-in it lets through.
Spent ==
    /\ \A g \in Grants : started[g] # None => authStates[started[g]] = "gone"
    /\ \A r \in Requests : requests[r].pc = "create_session" =>
         /\ requests[r].state \in AuthStates
         /\ authStates[requests[r].state] = "gone"
         /\ \A g \in Grants : started[g] # requests[r].state
         /\ \A p \in Requests : requests[p].pc = "create_session"
                                /\ requests[p].state = requests[r].state => p = r

Chains == Shapes /\ Rows /\ Roots /\ Private /\ Drawn /\ Locked /\ OneHead

Sound ==
    /\ TypeOK
    /\ Chains
    /\ Knowledge
    /\ Ended
    /\ OneLiveSession
    /\ LogoutShutsFamily
    /\ Spent
    /\ AuthStateUsedOnce

\* The invariants about what is stored do not change with the requests.
Stored == Rows /\ Roots /\ OneHead /\ OneLiveSession /\ LogoutShutsFamily /\ AuthStateUsedOnce

-------------------------------------------------------------------------------
(* Facts used in several places. *)

LEMMA RowsTyped ==
    ASSUME TypeOK, NEW g \in Grants
    PROVE  /\ tokens[g] \in [status : RowStatus, expired : BOOLEAN, replaced : BOOLEAN]
           /\ sessions[g] \in [status : RowStatus, expired : BOOLEAN]
           /\ family[g] \in Grants \cup {None}
    BY DEF TypeOK

LEMMA NoneIsNoGrant == None \notin Grants /\ None \notin AuthStates /\ None \notin Browsers
    BY ConstantsAssumption DEF ConstantsAssumption

\* The places a request can be at.
Places == {"idle"} \cup SigningIn \cup Refreshing \cup LoggingOut \cup Answering

LEMMA GotoTyped ==
    ASSUME requests \in [Requests -> Request], NEW r \in Requests, NEW pc \in Places,
           Goto(r, pc)
    PROVE  requests' \in [Requests -> Request]
<1>1. requests[r] \in Request
    OBVIOUS
<1>2. [requests[r] EXCEPT !.pc = pc] \in Request
    BY <1>1 DEF Request, Places
<1>3. requests' = [requests EXCEPT ![r] = [requests[r] EXCEPT !.pc = pc]]
    BY DEF Goto
<1> QED
    BY <1>2, <1>3

LEMMA IdleTyped == Idle \in Request
    BY DEF Idle, Request

LEMMA StoredStays ==
    ASSUME Stored, UNCHANGED <<tables, started>>
    PROVE  Stored'
    BY DEF Stored, tables, Rows, Roots, OneHead, Head, OneLiveSession, LiveSessions, Family,
           LogoutShutsFamily, AuthStateUsedOnce

LEMMA SoundStored ==
    ASSUME Sound
    PROVE  Stored
    BY DEF Sound, Chains, Stored

-------------------------------------------------------------------------------
(* The initial state. *)

LEMMA InitSound == Init => Sound
<1> SUFFICES ASSUME Init PROVE Sound
    OBVIOUS
<1>1. TypeOK
    BY IdleTyped DEF Init, TypeOK, NoToken, NoSession, RowStatus
<1>2. Shapes /\ Private /\ Drawn /\ Locked
    BY DEF Init, Shapes, ShapedBy, Private, Drawn, DrawnBy, Locked, Holds, Idle, SigningIn, Refreshing, LoggingOut
<1>3. Rows /\ Roots /\ OneHead
    BY DEF Init, Rows, Roots, OneHead, NoToken, NoSession
<1>4. Knowledge
    BY NoneIsNoGrant DEF Init, Knowledge, Known, Idle
<1>5. Ended /\ Spent
    BY DEF Init, Ended, EndedBy, Spent, Idle
<1>6. OneLiveSession
    BY DEF Init, OneLiveSession, LiveSessions, Family, NoSession
<1>7. LogoutShutsFamily
    BY DEF Init, LogoutShutsFamily, NoToken
<1>8. AuthStateUsedOnce
    BY DEF Init, AuthStateUsedOnce
<1> QED
    BY <1>1, <1>2, <1>3, <1>4, <1>5, <1>6, <1>7, <1>8 DEF Sound, Chains

-------------------------------------------------------------------------------
(* Steps that change only where a request is. *)

\* A request that goes on, with the tables as they are.
LEMMA LockTokenSound ==
    ASSUME Sound, NEW r \in Requests, LockToken(r)
    PROVE  Sound'
<1>1. TypeOK'
    BY GotoTyped DEF Sound, TypeOK, LockToken, tables, history, Refreshing, Places
<1>2. Stored'
    BY SoundStored, StoredStays DEF LockToken, tables, history
<1>3. Shapes'
    BY DEF Goto, Sound, TypeOK, Chains, Shapes, ShapedBy, LockToken, tables, SigningIn, Refreshing, LoggingOut
<1>4. Private' /\ Drawn'
    BY DEF Goto, Sound, TypeOK, Chains, Private, Drawn, DrawnBy, LockToken, tables
<1>5. Locked'
    BY DEF Goto, Sound, TypeOK, Chains, Locked, Holds, RowFree, LockToken, tables
<1>6. Knowledge'
    BY DEF Goto, Sound, TypeOK, Knowledge, Known, OthersInactive, Active, LockToken, tables
<1>7. Ended' /\ Spent'
    BY DEF Goto, Sound, TypeOK, Ended, EndedBy, OthersInactive, Active, Spent, LockToken, tables, history
<1> QED
    BY <1>1, <1>2, <1>3, <1>4, <1>5, <1>6, <1>7 DEF Sound, Chains, Stored

\* A refresh that is refused; it keeps what it drew until it is answered.
LEMMA RefuseSound ==
    ASSUME Sound, NEW r \in Requests,
           UNCHANGED <<tables, jar, started, losses>>, reused' \subseteq Grants,
           NEW pc \in {"farewell", "apology", "goodbye"}, Goto(r, pc),
           requests[r].pc # "idle"
    PROVE  Sound'
<1>1. TypeOK'
    BY GotoTyped DEF Sound, TypeOK, tables, Answering, Places
<1>2. Stored'
    BY SoundStored, StoredStays
<1>3. Shapes'
    BY DEF Goto, Sound, TypeOK, Chains, Shapes, ShapedBy, tables, SigningIn, Refreshing, LoggingOut
<1>4. Private' /\ Drawn'
    BY DEF Goto, Sound, TypeOK, Chains, Private, Drawn, DrawnBy, tables
<1>5. Locked'
    BY DEF Goto, Sound, TypeOK, Chains, Locked, Holds, tables
<1>6. Knowledge'
    BY DEF Goto, Sound, TypeOK, Knowledge, Known, OthersInactive, Active, tables
<1>7. Ended' /\ Spent'
    BY DEF Goto, Sound, TypeOK, Ended, EndedBy, OthersInactive, Active, Spent, tables
<1> QED
    BY <1>1, <1>2, <1>3, <1>4, <1>5, <1>6, <1>7 DEF Sound, Chains, Stored

LEMMA FailSound ==
    ASSUME Sound, NEW r \in Requests, RefuseToken(r) \/ DetectReuse(r) \/ Fail(r)
    PROVE  Sound'
<1>1. requests[r].pc = "lock_token" =>
        requests[r].used \in Grants /\ family[requests[r].used] \in Grants
    BY NoneIsNoGrant DEF Sound, TypeOK, Chains, Shapes, ShapedBy, Knowledge, Known, Rows, Refreshing
<1>2. reused \subseteq Grants
    BY DEF Sound, TypeOK
<1>3. CASE RefuseToken(r)
    BY <1>2, <1>3, RefuseSound DEF RefuseToken, history
<1>4. CASE DetectReuse(r)
    BY <1>1, <1>2, <1>4, RefuseSound DEF DetectReuse
<1>5. CASE Fail(r)
    BY <1>2, <1>5, RefuseSound
    DEF Fail, AnswerToFailure, history, SigningIn, Refreshing, LoggingOut
<1> QED
    BY <1>3, <1>4, <1>5

\* A request that ends, by an answer or without one.
LEMMA EndSound ==
    ASSUME Sound, NEW r \in Requests, requests[r].pc # "idle",
           requests' = [requests EXCEPT ![r] = Idle],
           UNCHANGED <<tables, started, reused>>, losses' \in Nat,
           jar' \in [Browsers -> Grants \cup {None}],
           \A b \in Browsers : jar'[b] # jar[b] =>
               jar'[b] = None \/ (requests[r].pc = "welcome" /\ jar'[b] = requests[r].next)
    PROVE  Sound'
<1>1. TypeOK'
    BY IdleTyped DEF Sound, TypeOK, tables
<1>2. Stored'
    BY SoundStored, StoredStays
<1>3. Shapes'
    BY DEF Sound, TypeOK, Chains, Shapes, ShapedBy, tables, SigningIn, Refreshing, LoggingOut, Idle
<1>4. Private' /\ Drawn'
    BY NoneIsNoGrant DEF Sound, TypeOK, Chains, Private, Drawn, DrawnBy, tables, Idle
<1>5. Locked'
    BY DEF Sound, TypeOK, Chains, Locked, Holds, tables, Idle
<1>6. Knowledge'
    BY NoneIsNoGrant DEF Sound, TypeOK, Knowledge, Known, OthersInactive, Active, tables, Idle
<1>7. Ended' /\ Spent'
    BY DEF Sound, TypeOK, Ended, EndedBy, OthersInactive, Active, Spent, tables, Idle
<1> QED
    BY <1>1, <1>2, <1>3, <1>4, <1>5, <1>6, <1>7 DEF Sound, Chains, Stored

LEMMA AnswerSound ==
    ASSUME Sound, NEW r \in Requests, Answer(r) \/ Lose(r)
    PROVE  Sound'
<1>1. CASE Answer(r)
  <2>1. requests[r].pc = "welcome" => requests[r].next \in Grants
      BY DEF Sound, Chains, Shapes, ShapedBy
  <2>2. jar' \in [Browsers -> Grants \cup {None}]
      BY <1>1, <2>1 DEF Answer, Sound, TypeOK
  <2>3. \A b \in Browsers : jar'[b] # jar[b] =>
            jar'[b] = None \/ (requests[r].pc = "welcome" /\ jar'[b] = requests[r].next)
      BY <1>1 DEF Answer, Sound, TypeOK
  <2> QED
      BY <1>1, <2>2, <2>3, EndSound DEF Answer, history, Answering, Sound, TypeOK
<1>2. CASE Lose(r)
  <2>1. jar' = jar /\ losses' \in Nat /\ reused' = reused /\ started' = started
      BY <1>2 DEF Lose, Sound, TypeOK
  <2>2. jar' \in [Browsers -> Grants \cup {None}]
      BY <2>1 DEF Sound, TypeOK
  <2>3. \A b \in Browsers : jar'[b] = jar[b]
      BY <2>1
  <2> QED
      BY <1>2, <2>1, <2>2, <2>3, EndSound DEF Lose
<1> QED
    BY <1>1, <1>2

-------------------------------------------------------------------------------
(* Steps by which rows only lose: sessions and tokens are revoked, expire  *)
(* or are deleted.                                                         *)

SessionsFade ==
    /\ sessions' \in [Grants -> [status : RowStatus, expired : BOOLEAN]]
    /\ \A g \in Grants :
         /\ sessions'[g].status = "none" <=> sessions[g].status = "none"
         /\ sessions[g].expired => sessions'[g].expired
         /\ sessions'[g].expired => sessions'[g].status # "none"
         /\ sessions'[g].status = "live" => sessions[g].status = "live"

TokensFade ==
    /\ tokens' \in [Grants -> [status : RowStatus, expired : BOOLEAN, replaced : BOOLEAN]]
    /\ \A g \in Grants :
         /\ tokens'[g].status = "none" <=> tokens[g].status = "none"
         /\ tokens'[g].replaced <=> tokens[g].replaced
         /\ tokens'[g].expired => tokens'[g].status # "none"
         /\ tokens'[g].status \in {tokens[g].status, "gone"}

LEMMA ActiveFades ==
    ASSUME TypeOK, SessionsFade, NEW g \in Grants, Active(g)'
    PROVE  Active(g)
    BY DEF SessionsFade, Active, TypeOK

LEMMA FadeStored ==
    ASSUME TypeOK, Stored, SessionsFade, TokensFade, UNCHANGED <<family, started>>
    PROVE  Stored'
<1>1. Rows'
    BY DEF Stored, Rows, SessionsFade, TokensFade
<1>2. Roots' /\ OneHead'
  <2>1. Roots'
      BY DEF TypeOK, Stored, Roots, TokensFade
  <2>2. OneHead'
      BY DEF Stored, OneHead, Head, TokensFade
  <2> QED
      BY <2>1, <2>2
<1>3. \A f \in Grants : LiveSessions(f)' \subseteq LiveSessions(f)
    BY ActiveFades DEF LiveSessions, Family, Active
<1>4. OneLiveSession'
    BY <1>3 DEF Stored, OneLiveSession
<1>5. LogoutShutsFamily'
  <2> SUFFICES ASSUME NEW g \in Grants, tokens'[g].status = "revoked", ~tokens'[g].replaced
               PROVE  LiveSessions(family[g])' = {}
      BY DEF LogoutShutsFamily
  <2>1. tokens[g].status = "revoked" /\ ~tokens[g].replaced
      BY DEF TokensFade
  <2>2. LiveSessions(family[g]) = {}
      BY <2>1 DEF Stored, LogoutShutsFamily
  <2>3. family[g] \in Grants
      BY <2>1, RowsTyped DEF Stored, Rows
  <2> QED
      BY <1>3, <2>2, <2>3
<1>6. AuthStateUsedOnce'
    BY DEF Stored, AuthStateUsedOnce
<1> QED
    BY <1>1, <1>2, <1>4, <1>5, <1>6 DEF Stored

LEMMA FadeKnowledge ==
    ASSUME TypeOK, Knowledge, SessionsFade, TokensFade, UNCHANGED family,
           \A g \in Grants : Known(g)' => Known(g)
    PROVE  Knowledge'
<1> SUFFICES ASSUME NEW g \in Grants, Known(g)'
             PROVE  tokens'[g].status # "none" /\ (~tokens'[g].replaced => OthersInactive(g)')
    BY DEF Knowledge
<1>1. tokens[g].status # "none" /\ (~tokens[g].replaced => OthersInactive(g))
    BY DEF Knowledge
<1>2. OthersInactive(g) => OthersInactive(g)'
    BY ActiveFades DEF OthersInactive
<1> QED
    BY <1>1, <1>2 DEF TokensFade

\* The clock and the cleanup loop, which leave the requests where they are and do not
\* touch a row that a rotation holds.
LEMMA FadeSound ==
    ASSUME Sound, SessionsFade, TokensFade, UNCHANGED <<family, jar, requests, history>>,
           authStates' \in [AuthStates -> {"none", "open", "expired", "gone"}],
           \A s \in AuthStates : authStates[s] = "gone" => authStates'[s] = "gone",
           \A r \in Requests : requests[r].pc = "rotate" =>
               tokens'[requests[r].used].status = tokens[requests[r].used].status
    PROVE  Sound'
<1>1. TypeOK'
    BY DEF Sound, TypeOK, SessionsFade, TokensFade, history
<1>2. Stored'
    BY SoundStored, FadeStored DEF Sound, history
<1>3. Shapes'
    BY DEF Sound, Chains, Shapes, ShapedBy, SessionsFade
<1>4. Private'
    BY DEF Sound, Chains, Private
<1>5. Drawn'
  <2> SUFFICES ASSUME NEW r \in Requests,
                      requests[r].pc \in {"create_session", "lock_token", "rotate",
                            "create_token", "revoke_session", "renew_session"}
               PROVE  DrawnBy(r)'
      BY DEF Drawn, DrawnBy
  <2> QED
      BY DEF Sound, Chains, Drawn, DrawnBy, Shapes, ShapedBy, SessionsFade, TokensFade, SigningIn, Refreshing
<1>6. Locked'
    BY DEF Sound, Chains, Locked, Holds
<1>7. Knowledge'
    BY FadeKnowledge DEF Sound, Known
<1>8. Ended'
    BY ActiveFades DEF Sound, Chains, Ended, EndedBy, OthersInactive, Shapes, ShapedBy, Refreshing, LoggingOut
<1>9. Spent'
    BY NoneIsNoGrant DEF Sound, TypeOK, Spent, history
<1> QED
    BY <1>1, <1>2, <1>3, <1>4, <1>5, <1>6, <1>7, <1>8, <1>9 DEF Sound, Chains, Stored

LEMMA SessionsStay ==
    ASSUME Sound, UNCHANGED sessions
    PROVE  SessionsFade
    BY DEF Sound, TypeOK, Chains, Rows, SessionsFade

LEMMA TokensStay ==
    ASSUME Sound, UNCHANGED tokens
    PROVE  TokensFade
    BY DEF Sound, TypeOK, Chains, Rows, TokensFade

LEMMA LoginURLSound ==
    ASSUME Sound, NEW s \in AuthStates, LoginURL(s) \/ ExpireAuthState(s)
    PROVE  Sound'
<1>1. authStates' \in [AuthStates -> {"none", "open", "expired", "gone"}]
    BY DEF LoginURL, ExpireAuthState, Sound, TypeOK
<1>2. \A t \in AuthStates : authStates[t] = "gone" => authStates'[t] = "gone"
    BY DEF LoginURL, ExpireAuthState, Sound, TypeOK
<1>3. UNCHANGED <<tokens, sessions, family, jar, requests, history>>
    BY DEF LoginURL, ExpireAuthState
<1> QED
    BY <1>1, <1>2, <1>3, SessionsStay, TokensStay, FadeSound

LEMMA ExpireSessionSound ==
    ASSUME Sound, NEW g \in Grants, ExpireSession(g)
    PROVE  Sound'
<1>1. SessionsFade
    BY DEF SessionsFade, ExpireSession, Sound, TypeOK, Chains, Rows
<1>2. TokensFade
    BY TokensStay DEF ExpireSession
<1>3. authStates' = authStates
    BY DEF ExpireSession
<1> QED
    BY <1>1, <1>2, <1>3, FadeSound DEF ExpireSession, Sound, TypeOK

LEMMA ExpireTokenSound ==
    ASSUME Sound, NEW g \in Grants, ExpireToken(g)
    PROVE  Sound'
<1>1. SessionsFade
    BY SessionsStay DEF ExpireToken
<1>2. TokensFade
  <2>1. tokens[g].status # "none" /\ tokens' = [tokens EXCEPT ![g].expired = TRUE]
      BY DEF ExpireToken
  <2>2. tokens' \in [Grants -> [status : RowStatus, expired : BOOLEAN, replaced : BOOLEAN]]
      BY <2>1 DEF Sound, TypeOK
  <2>3. ASSUME NEW h \in Grants
        PROVE  /\ tokens'[h].status = tokens[h].status
               /\ tokens'[h].replaced = tokens[h].replaced
               /\ tokens'[h].expired => tokens'[h].status # "none"
    <3>1. CASE h = g
        BY <2>1, <3>1 DEF Sound, TypeOK
    <3>2. CASE h # g
        BY <2>1, <3>2 DEF Sound, TypeOK, Chains, Rows
    <3> QED
        BY <3>1, <3>2
  <2> QED
      BY <2>2, <2>3 DEF TokensFade
<1>3. \A h \in Grants : tokens'[h].status = tokens[h].status
    BY DEF ExpireToken, Sound, TypeOK
<1>4. \A r \in Requests : requests[r].pc = "rotate" => requests[r].used \in Grants
    BY DEF Sound, Chains, Shapes, ShapedBy, Refreshing
<1> QED
    BY <1>1, <1>2, <1>3, <1>4, FadeSound DEF ExpireToken, Sound, TypeOK

LEMMA CleanupSound ==
    ASSUME Sound, CleanupExpired
    PROVE  Sound'
<1>1. SessionsFade
    BY DEF SessionsFade, CleanupExpired, Purged, Sound, TypeOK, Chains, Rows, RowStatus
<1>2. TokensFade
    BY DEF TokensFade, CleanupExpired, Purged, Sound, TypeOK, Chains, Rows, RowStatus
<1>3. authStates' \in [AuthStates -> {"none", "open", "expired", "gone"}]
    BY DEF CleanupExpired, Sound, TypeOK
<1>4. \A s \in AuthStates : authStates[s] = "gone" => authStates'[s] = "gone"
    BY DEF CleanupExpired
<1>5. ASSUME NEW r \in Requests, requests[r].pc = "rotate"
      PROVE  tokens'[requests[r].used].status = tokens[requests[r].used].status
  <2>1. requests[r].used \in Grants
      BY <1>5 DEF Sound, Chains, Shapes, ShapedBy, Refreshing
  <2>2. ~tokens[requests[r].used].expired
      BY <1>5, <2>1 DEF CleanupExpired, RowFree, Holds
  <2> QED
      BY <2>1, <2>2 DEF CleanupExpired, Purged
<1> QED
    BY <1>1, <1>2, <1>3, <1>4, <1>5, FadeSound DEF CleanupExpired

-------------------------------------------------------------------------------
(* Revocations by requests. *)

LEMMA RevokedTyped ==
    ASSUME TypeOK, NEW g \in Grants
    PROVE  /\ Revoked(sessions[g]) \in [status : RowStatus, expired : BOOLEAN]
           /\ Revoked(sessions[g]).status \in {sessions[g].status, "revoked"}
           /\ Revoked(sessions[g]).status # "live"
           /\ Revoked(sessions[g]).status = "none" <=> sessions[g].status = "none"
           /\ Revoked(sessions[g]).expired = sessions[g].expired
    BY RowsTyped DEF Revoked, RowStatus

\* A request revokes the session it was sent and goes on.
LEMMA RevokeSound ==
    ASSUME Sound, NEW r \in Requests, NEW pc \in {"renew_session", "end_token"}, Goto(r, pc),
           requests[r].pc = IF pc = "end_token" THEN "end_session" ELSE "revoke_session",
           sessions' = [sessions EXCEPT ![requests[r].used] =
                            IF requests[r].session THEN Revoked(@) ELSE @],
           UNCHANGED <<authStates, tokens, family, jar, history>>
    PROVE  Sound'
<1>1. PICK g \in Grants : g = requests[r].used /\ (requests[r].session \/ sessions[g].expired)
    BY DEF Sound, Chains, Shapes, ShapedBy, Refreshing, LoggingOut
<1>2. SessionsFade
    BY <1>1, RevokedTyped DEF SessionsFade, Sound, TypeOK, Chains, Rows
<1>3. TokensFade
    BY TokensStay
<1>4. ~Active(g)'
    BY <1>1, RevokedTyped DEF Active, Sound, TypeOK
<1>5. TypeOK'
  <2>1. requests' \in [Requests -> Request]
      BY GotoTyped DEF Sound, TypeOK, Places, Refreshing, LoggingOut
  <2> QED
      BY <1>2, <2>1 DEF Sound, TypeOK, SessionsFade, history
<1>6. Stored'
    BY <1>2, <1>3, SoundStored, FadeStored DEF Sound, history
<1>7. Shapes'
    BY <1>2 DEF Sound, TypeOK, Chains, Shapes, ShapedBy, Goto, SessionsFade, SigningIn, Refreshing, LoggingOut
<1>8. Private'
    BY DEF Sound, TypeOK, Chains, Private, Goto
<1>9. Drawn'
  <2> SUFFICES ASSUME NEW q \in Requests,
                      requests'[q].pc \in {"create_session", "lock_token", "rotate",
                            "create_token", "revoke_session", "renew_session"}
               PROVE  DrawnBy(q)'
      BY DEF Drawn, DrawnBy
  <2>1. requests[q].next \in Grants
      BY DEF Sound, TypeOK, Chains, Shapes, ShapedBy, Goto, SigningIn, Refreshing
  <2>2. DrawnBy(q)
      BY DEF Sound, Chains, Drawn
  <2> QED
      BY <1>2, <2>1, <2>2 DEF DrawnBy, Goto, Sound, TypeOK, SessionsFade
<1>10. Locked'
    BY DEF Sound, TypeOK, Chains, Locked, Holds, Goto
<1>11. Knowledge'
  <2>1. \A h \in Grants : Known(h)' => Known(h)
      BY DEF Known, Goto, Sound, TypeOK
  <2> QED
      BY <1>2, <1>3, <2>1, FadeKnowledge DEF Sound
<1>12. Ended'
  <2> SUFFICES ASSUME NEW q \in Requests
               PROVE  EndedBy(q)'
      BY DEF Ended
  <2>1. \A h \in Grants : OthersInactive(h) => OthersInactive(h)'
      BY <1>2, ActiveFades DEF Sound, OthersInactive
  <2>2. EndedBy(q)
      BY DEF Sound, Ended
  <2>3. CASE q = r
    <3>1. requests'[q].used = g /\ requests'[q].pc = pc
        BY <1>1, <2>3 DEF Goto, Sound, TypeOK, Request
    <3> QED
        BY <1>1, <1>4, <2>1, <2>2, <2>3, <3>1 DEF EndedBy
  <2>4. CASE q # r
    <3>1. requests'[q] = requests[q]
        BY <2>4 DEF Goto, Sound, TypeOK
    <3>2. requests[q].pc \in {"revoke_session", "renew_session", "end_token"} =>
              requests[q].used \in Grants
        BY DEF Sound, Chains, Shapes, ShapedBy, Refreshing, LoggingOut
    <3> QED
        BY <1>2, <2>1, <2>2, <3>1, <3>2, ActiveFades DEF Sound, EndedBy
  <2> QED
      BY <2>3, <2>4
<1>13. Spent'
    BY DEF Sound, TypeOK, Spent, Goto, history
<1> QED
    BY <1>5, <1>6, <1>7, <1>8, <1>9, <1>10, <1>11, <1>12, <1>13
    DEF Sound, Chains, Stored

LEMMA RevokeOldSessionSound ==
    ASSUME Sound, NEW r \in Requests, RevokeOldSession(r) \/ EndSession(r)
    PROVE  Sound'
    BY RevokeSound DEF RevokeOldSession, EndSession

\* The logout knows the last grant of its family, whose session it has ended.
LEMMA EndTokenSound ==
    ASSUME Sound, NEW r \in Requests, EndToken(r)
    PROVE  Sound'
<1>1. PICK g \in Grants : g = requests[r].used
    BY DEF EndToken, Sound, Chains, Shapes, ShapedBy, LoggingOut
<1>2. Known(g) /\ ~Active(g) /\ RowFree(g)
    BY <1>1 DEF EndToken, Known, Sound, Ended, EndedBy
<1>3. tokens' = [tokens EXCEPT ![g] = Revoked(@)]
    BY <1>1 DEF EndToken
<1>4. /\ Revoked(tokens[g]) \in [status : RowStatus, expired : BOOLEAN, replaced : BOOLEAN]
      /\ Revoked(tokens[g]).status \in
            IF tokens[g].status = "live" THEN {"revoked"} ELSE {tokens[g].status}
      /\ Revoked(tokens[g]).expired = tokens[g].expired
      /\ Revoked(tokens[g]).replaced = tokens[g].replaced
    BY RowsTyped DEF Revoked, RowStatus, Sound
<1>5. \A h \in Grants \ {g} : tokens'[h] = tokens[h]
    BY <1>3 DEF Sound, TypeOK
<1>6. tokens'[g] = Revoked(tokens[g])
    BY <1>3 DEF Sound, TypeOK
<1>7. TypeOK'
  <2>1. requests' \in [Requests -> Request]
      BY GotoTyped DEF EndToken, Sound, TypeOK, Places, Answering
  <2>2. tokens' \in [Grants -> [status : RowStatus, expired : BOOLEAN, replaced : BOOLEAN]]
      BY <1>3, <1>4 DEF Sound, TypeOK
  <2> QED
      BY <2>1, <2>2 DEF EndToken, Sound, TypeOK, history
<1>8. Rows' /\ Roots'
  <2>1. Rows'
      BY <1>4, <1>5, <1>6 DEF EndToken, Sound, Chains, Rows
  <2>2. \A h \in Grants : tokens[h].status # "none" => tokens'[h].status # "none"
      BY <1>4, <1>5, <1>6
  <2>3. Roots'
      BY <2>2 DEF EndToken, Sound, TypeOK, Chains, Roots
  <2> QED
      BY <2>1, <2>3
<1>9. OneHead'
  <2>1. \A h \in Grants : Head(h)' => Head(h)
      BY <1>4, <1>5, <1>6 DEF Head
  <2> QED
      BY <2>1 DEF EndToken, Sound, Chains, OneHead
<1>10. OneLiveSession' /\ AuthStateUsedOnce'
    BY DEF EndToken, history, Sound, OneLiveSession, LiveSessions, Family, AuthStateUsedOnce
<1>11. LogoutShutsFamily'
  <2> SUFFICES ASSUME NEW h \in Grants, tokens'[h].status = "revoked", ~tokens'[h].replaced
               PROVE  LiveSessions(family[h]) = {}
      BY DEF LogoutShutsFamily, LiveSessions, Family, EndToken
  <2>1. CASE h = g
    <3>1. OthersInactive(g)
        BY <1>2, <1>4, <1>6, <2>1 DEF Sound, Knowledge
    <3> QED
        BY <1>2, <2>1, <3>1 DEF OthersInactive, Active, LiveSessions, Family
  <2>2. CASE h # g
      BY <1>5, <2>2 DEF Sound, LogoutShutsFamily
  <2> QED
      BY <2>1, <2>2
<1>12. Shapes' /\ Private'
    BY DEF EndToken, Goto, Sound, TypeOK, Chains, Shapes, ShapedBy, Private, SigningIn, Refreshing, LoggingOut
<1>13. Drawn'
  <2> SUFFICES ASSUME NEW q \in Requests,
                      requests'[q].pc \in {"create_session", "lock_token", "rotate",
                            "create_token", "revoke_session", "renew_session"}
               PROVE  DrawnBy(q)'
      BY DEF Drawn, DrawnBy
  <2>1. requests'[q] = requests[q]
      BY DEF EndToken, Goto, Sound, TypeOK
  <2>2. requests[q].next \in Grants \ {g}
      BY <1>1, <2>1, NoneIsNoGrant DEF Sound, Chains, Shapes, ShapedBy, Private, SigningIn, Refreshing
  <2>3. DrawnBy(q)
      BY DEF Sound, Chains, Drawn
  <2> QED
      BY <1>5, <2>1, <2>2, <2>3 DEF DrawnBy, EndToken
<1>14. Locked'
  <2> SUFFICES ASSUME NEW q \in Requests, requests'[q].pc = "rotate"
               PROVE  /\ tokens'[requests'[q].used].status = "live"
                      /\ \A p \in Requests : requests'[p].pc = "rotate"
                            /\ requests'[p].used = requests'[q].used => p = q
      BY DEF Locked, Holds
  <2>1. \A p \in Requests : requests'[p].used = requests[p].used
                            /\ (requests'[p].pc = "rotate" => requests[p].pc = "rotate")
      BY DEF EndToken, Goto, Sound, TypeOK, Request
  <2>2. requests[q].used \in Grants \ {g}
      BY <1>2, <2>1 DEF RowFree, Holds, Sound, Chains, Shapes, ShapedBy, Refreshing
  <2> QED
      BY <1>5, <2>1, <2>2 DEF Sound, Chains, Locked, Holds
<1>15. Knowledge'
  <2>1. \A h \in Grants : Known(h)' => Known(h)
      BY DEF Known, EndToken, Goto, Sound, TypeOK
  <2>2. \A h \in Grants : OthersInactive(h)' <=> OthersInactive(h)
      BY DEF OthersInactive, Active, EndToken
  <2>3. \A h \in Grants : (tokens[h].status # "none" => tokens'[h].status # "none")
                         /\ (tokens[h].replaced => tokens'[h].replaced)
      BY <1>4, <1>5, <1>6
  <2> QED
      BY <2>1, <2>2, <2>3 DEF Sound, Knowledge
<1>16. Ended' /\ Spent'
    BY DEF EndToken, Goto, history, Sound, TypeOK, Ended, EndedBy, OthersInactive, Active, Spent
<1> QED
    BY <1>7, <1>8, <1>9, <1>10, <1>11, <1>12, <1>13, <1>14, <1>15, <1>16 DEF Sound, Chains

-------------------------------------------------------------------------------
(* New rows. *)

\* A refresh stores its session: it is the head of the family that nobody else knows.
LEMMA RenewSessionSound ==
    ASSUME Sound, NEW r \in Requests, RenewSession(r)
    PROVE  Sound'
<1>1. PICK g \in Grants : g = requests[r].next
    BY DEF RenewSession, Sound, Chains, Shapes, ShapedBy, Refreshing
<1>2. PICK u \in Grants : u = requests[r].used
    BY DEF RenewSession, Sound, Chains, Shapes, ShapedBy, Refreshing
<1>3. /\ sessions[g].status = "none"
      /\ tokens[g].status \in {"live", "gone"}
      /\ Head(g)
      /\ family[g] = family[u] /\ family[g] \in Grants
    BY <1>1, <1>2, RowsTyped DEF RenewSession, Sound, Chains, Drawn, DrawnBy, Head, Rows
<1>4. \A h \in Grants : family[h] = family[g] => ~Active(h)
    BY <1>2, <1>3 DEF RenewSession, Sound, Ended, EndedBy, OthersInactive
<1>5. sessions' = [sessions EXCEPT ![g].status = "live"]
    BY <1>1 DEF RenewSession
<1>6. \A h \in Grants \ {g} : sessions'[h] = sessions[h] /\ (Active(h)' <=> Active(h))
    BY <1>5 DEF Sound, TypeOK, Active
<1>7. sessions'[g].status = "live" /\ sessions'[g].expired = sessions[g].expired
    BY <1>5 DEF Sound, TypeOK
<1>8. \A h \in Grants : family[h] = family[g] /\ Head(h) => h = g
    BY <1>3, NoneIsNoGrant DEF Sound, Chains, OneHead
<1>9. TypeOK'
  <2>1. requests' \in [Requests -> Request]
      BY GotoTyped DEF RenewSession, Sound, TypeOK, Places, Answering
  <2>2. sessions' \in [Grants -> [status : RowStatus, expired : BOOLEAN]]
      BY <1>5 DEF Sound, TypeOK, RowStatus
  <2> QED
      BY <2>1, <2>2 DEF RenewSession, Sound, TypeOK, history
<1>10. Rows' /\ Roots' /\ OneHead'
  <2>1. Rows'
      BY <1>3, <1>6, <1>7, NoneIsNoGrant DEF RenewSession, Sound, Chains, Rows
  <2> QED
      BY <2>1 DEF RenewSession, Sound, Chains, Roots, OneHead, Head
<1>11. OneLiveSession'
    BY <1>4, <1>6 DEF RenewSession, Sound, OneLiveSession, LiveSessions, Family, Active
<1>12. LogoutShutsFamily'
  <2> SUFFICES ASSUME NEW h \in Grants, tokens[h].status = "revoked", ~tokens[h].replaced
               PROVE  LiveSessions(family[h])' = {}
      BY DEF LogoutShutsFamily, LiveSessions, Family, RenewSession
  <2>1. family[h] # family[g]
      BY <1>3, <1>8 DEF Head
  <2>2. LiveSessions(family[h]) = {}
      BY DEF Sound, LogoutShutsFamily
  <2> QED
      BY <1>6, <2>1, <2>2 DEF LiveSessions, Family, Active, RenewSession
<1>13. AuthStateUsedOnce' /\ Spent'
    BY DEF RenewSession, Goto, history, Sound, TypeOK, AuthStateUsedOnce, Spent
<1>14. \A q \in Requests : requests'[q].used = requests[q].used /\ requests'[q].next = requests[q].next
    BY DEF RenewSession, Goto, Sound, TypeOK
<1>15. \A q \in Requests \ {r} : requests'[q] = requests[q]
    BY DEF RenewSession, Goto, Sound, TypeOK
<1>16. requests'[r].pc = "welcome" /\ requests'[r].browser = requests[r].browser
    BY DEF RenewSession, Goto, Sound, TypeOK
<1>17. \A q \in Requests : requests[q].next = g => q = r
    BY <1>1, NoneIsNoGrant DEF Sound, Chains, Private
<1>18. \A q \in Requests : requests[q].used # g
    BY <1>1, NoneIsNoGrant DEF Sound, Chains, Private
<1>19. Shapes'
  <2> SUFFICES ASSUME NEW q \in Requests
               PROVE  ShapedBy(q)'
      BY DEF Shapes
  <2>1. ShapedBy(q)
      BY DEF Sound, Chains, Shapes
  <2>2. CASE q = r
      BY <1>1, <1>14, <1>16, <2>1, <2>2
      DEF RenewSession, ShapedBy, SigningIn, Refreshing, LoggingOut
  <2>3. CASE q # r
      BY <1>6, <1>15, <1>18, <2>1, <2>3 DEF ShapedBy
  <2> QED
      BY <2>2, <2>3
<1>20. Private'
    BY <1>14 DEF RenewSession, Sound, Chains, Private
<1>21. Drawn'
  <2> SUFFICES ASSUME NEW q \in Requests,
                      requests'[q].pc \in {"create_session", "lock_token", "rotate",
                            "create_token", "revoke_session", "renew_session"}
               PROVE  DrawnBy(q)'
      BY DEF Drawn, DrawnBy
  <2>1. q # r
      BY <1>16
  <2>2. requests'[q] = requests[q] /\ requests[q].next \in Grants \ {g}
      BY <1>15, <1>17, <2>1 DEF Sound, Chains, Shapes, ShapedBy, SigningIn, Refreshing
  <2>3. DrawnBy(q)
      BY DEF Sound, Chains, Drawn
  <2> QED
      BY <1>6, <2>2, <2>3 DEF DrawnBy, RenewSession
<1>22. Locked'
    BY <1>14, <1>15, <1>16 DEF RenewSession, Sound, Chains, Locked, Holds
<1>23. Knowledge'
  <2> SUFFICES ASSUME NEW h \in Grants, Known(h)'
               PROVE  /\ tokens[h].status # "none"
                      /\ ~tokens[h].replaced => OthersInactive(h)'
      BY DEF Knowledge, RenewSession
  <2>1. CASE h = g
      BY <1>3, <1>4, <1>6, <2>1 DEF OthersInactive, RenewSession
  <2>2. CASE h # g
    <3>1. Known(h)
        BY <1>1, <1>14, <1>15, <1>16, <2>2 DEF Known, RenewSession
    <3>2. tokens[h].status # "none" /\ (~tokens[h].replaced => OthersInactive(h))
        BY <3>1 DEF Sound, Knowledge
    <3>3. ~tokens[h].replaced => family[h] # family[g]
        BY <1>8, <2>2, <3>2 DEF Head
    <3> QED
        BY <1>6, <3>2, <3>3 DEF OthersInactive, RenewSession
  <2> QED
      BY <2>1, <2>2
<1>24. Ended'
  <2> SUFFICES ASSUME NEW q \in Requests, q # r,
                      requests[q].pc \in {"revoke_session", "renew_session", "end_token"}
               PROVE  EndedBy(q)'
      BY <1>15, <1>16 DEF Ended, EndedBy
  <2>1. PICK v \in Grants : v = requests[q].used
      BY DEF Sound, Chains, Shapes, ShapedBy, Refreshing, LoggingOut
  <2>2. v # g
      BY <1>18, <2>1
  <2>3. requests[q].pc # "end_token" => family[v] # family[g]
    <3> SUFFICES ASSUME requests[q].pc # "end_token" PROVE family[v] # family[g]
        OBVIOUS
    <3>1. PICK n \in Grants : n = requests[q].next
        BY DEF Sound, Chains, Shapes, ShapedBy, Refreshing
    <3>2. Head(n) /\ family[n] = family[v]
        BY <2>1, <3>1 DEF Sound, Chains, Drawn, DrawnBy, Head
    <3>3. n # g
        BY <1>17, <3>1
    <3> QED
        BY <1>8, <3>2, <3>3
  <2>4. EndedBy(q)
      BY DEF Sound, Ended
  <2>5. requests'[q] = requests[q]
      BY <1>15
  <2> QED
      BY <1>6, <2>1, <2>2, <2>3, <2>4, <2>5 DEF EndedBy, OthersInactive, RenewSession
<1> QED
    BY <1>9, <1>10, <1>11, <1>12, <1>13, <1>19, <1>20, <1>21, <1>22, <1>23, <1>24 DEF Sound, Chains

\* A sign-in opens a family with its session.
LEMMA IssueSessionSound ==
    ASSUME Sound, NEW r \in Requests, IssueSession(r)
    PROVE  Sound'
<1>1. PICK g \in Grants : g = requests[r].next
    BY DEF IssueSession, Sound, Chains, Shapes, ShapedBy, SigningIn
<1>2. tokens[g].status = "none" /\ sessions[g].status = "none" /\ family[g] = None
    BY <1>1 DEF IssueSession, Sound, Chains, Drawn, DrawnBy, Rows
<1>3. \A h \in Grants : family[h] # g
    BY <1>2, NoneIsNoGrant DEF Sound, Chains, Roots
<1>4. sessions' = [sessions EXCEPT ![g].status = "live"] /\ family' = [family EXCEPT ![g] = g]
    BY <1>1 DEF IssueSession
<1>5. \A h \in Grants \ {g} : /\ sessions'[h] = sessions[h] /\ family'[h] = family[h]
                             /\ started'[h] = started[h] /\ (Active(h)' <=> Active(h))
    BY <1>1, <1>4 DEF IssueSession, Sound, TypeOK, Active
<1>6. sessions'[g].status = "live" /\ sessions'[g].expired = sessions[g].expired /\ family'[g] = g
    BY <1>4 DEF Sound, TypeOK
<1>7. \A q \in Requests : requests'[q].used = requests[q].used /\ requests'[q].next = requests[q].next
    BY DEF IssueSession, Goto, Sound, TypeOK
<1>8. \A q \in Requests \ {r} : requests'[q] = requests[q]
    BY DEF IssueSession, Goto, Sound, TypeOK
<1>9. requests'[r].pc = "create_token" /\ requests'[r].browser = requests[r].browser
    BY DEF IssueSession, Goto, Sound, TypeOK
<1>10. \A q \in Requests : requests[q].next = g => q = r
    BY <1>1, NoneIsNoGrant DEF Sound, Chains, Private
<1>11. \A q \in Requests : requests[q].used # g
    BY <1>1, NoneIsNoGrant DEF Sound, Chains, Private
<1>12. requests[r].state \in AuthStates /\ started'[g] = requests[r].state
    BY <1>1 DEF IssueSession, Sound, Spent, TypeOK
<1>13. TypeOK'
  <2>1. requests' \in [Requests -> Request]
      BY GotoTyped DEF IssueSession, Sound, TypeOK, Places, SigningIn
  <2>2. sessions' \in [Grants -> [status : RowStatus, expired : BOOLEAN]]
      BY <1>4 DEF Sound, TypeOK, RowStatus
  <2>3. started' \in [Grants -> AuthStates \cup {None}]
      BY <1>12 DEF IssueSession, Sound, TypeOK
  <2>4. family' \in [Grants -> Grants \cup {None}]
      BY <1>4 DEF Sound, TypeOK
  <2> QED
      BY <2>1, <2>2, <2>3, <2>4 DEF IssueSession, Sound, TypeOK
<1>14. Rows'
    BY <1>2, <1>5, <1>6, NoneIsNoGrant DEF IssueSession, Sound, Chains, Rows
<1>15. Roots'
    BY <1>2, <1>3, <1>5, <1>6, RowsTyped, NoneIsNoGrant DEF IssueSession, Sound, Chains, Roots
<1>16. OneHead'
    BY <1>2, <1>3, <1>5, <1>6 DEF IssueSession, Sound, Chains, OneHead, Head
<1>17. OneLiveSession'
    BY <1>3, <1>5, <1>6 DEF Sound, OneLiveSession, LiveSessions, Family, Active
<1>18. LogoutShutsFamily'
  <2> SUFFICES ASSUME NEW h \in Grants, tokens[h].status = "revoked", ~tokens[h].replaced
               PROVE  LiveSessions(family[h])' = {}
      BY DEF LogoutShutsFamily, IssueSession
  <2>1. h # g /\ family[h] # g
      BY <1>2, <1>3
  <2>2. LiveSessions(family[h]) = {}
      BY DEF Sound, LogoutShutsFamily
  <2> QED
      BY <1>5, <1>6, <2>1, <2>2 DEF LiveSessions, Family, Active
<1>19. AuthStateUsedOnce' /\ Spent'
  <2>1. \A h \in Grants : started[h] # requests[r].state
      BY DEF IssueSession, Sound, Spent
  <2>2. AuthStateUsedOnce'
      BY <1>5, <1>12, <2>1 DEF Sound, AuthStateUsedOnce
  <2>3. \A q \in Requests \ {r} : requests[q].pc = "create_session" =>
            requests[q].state # requests[r].state
      BY DEF IssueSession, Sound, Spent
  <2> QED
      BY <1>5, <1>8, <1>9, <1>12, <2>2, <2>3 DEF IssueSession, Sound, Spent
<1>20. Shapes'
  <2> SUFFICES ASSUME NEW q \in Requests
               PROVE  ShapedBy(q)'
      BY DEF Shapes
  <2>1. ShapedBy(q)
      BY DEF Sound, Chains, Shapes
  <2>2. CASE q = r
      BY <1>1, <1>7, <1>9, <2>1, <2>2
      DEF IssueSession, ShapedBy, SigningIn, Refreshing, LoggingOut
  <2>3. CASE q # r
      BY <1>5, <1>8, <1>11, <2>1, <2>3 DEF ShapedBy
  <2> QED
      BY <2>2, <2>3
<1>21. Private'
    BY <1>7 DEF IssueSession, Sound, Chains, Private
<1>22. Drawn'
  <2> SUFFICES ASSUME NEW q \in Requests,
                      requests'[q].pc \in {"create_session", "lock_token", "rotate",
                            "create_token", "revoke_session", "renew_session"}
               PROVE  DrawnBy(q)'
      BY DEF Drawn, DrawnBy
  <2>1. CASE q = r
      BY <1>1, <1>2, <1>6, <1>7, <1>9, <2>1 DEF DrawnBy, IssueSession
  <2>2. CASE q # r
    <3>1. requests'[q] = requests[q] /\ requests[q].next \in Grants \ {g}
        BY <1>8, <1>10, <2>2 DEF Sound, Chains, Shapes, ShapedBy, SigningIn, Refreshing
    <3>2. requests[q].pc \in {"revoke_session", "renew_session"} =>
              requests[q].used \in Grants \ {g}
        BY <1>11 DEF Sound, Chains, Shapes, ShapedBy, Refreshing
    <3>3. DrawnBy(q)
        BY DEF Sound, Chains, Drawn
    <3> QED
        BY <1>5, <3>1, <3>2, <3>3 DEF DrawnBy, IssueSession
  <2> QED
      BY <2>1, <2>2
<1>23. Locked'
    BY <1>7, <1>8, <1>9 DEF IssueSession, Sound, Chains, Locked, Holds
<1>24. Knowledge'
  <2> SUFFICES ASSUME NEW h \in Grants, Known(h)'
               PROVE  /\ tokens[h].status # "none"
                      /\ ~tokens[h].replaced => OthersInactive(h)'
      BY DEF Knowledge, IssueSession
  <2>1. Known(h)
      BY <1>7, <1>8, <1>9 DEF Known, IssueSession
  <2>2. tokens[h].status # "none" /\ (~tokens[h].replaced => OthersInactive(h))
      BY <2>1 DEF Sound, Knowledge
  <2>3. h # g /\ family[h] # g
      BY <1>2, <1>3, <2>2
  <2> QED
      BY <1>5, <1>6, <2>2, <2>3 DEF OthersInactive
<1>25. Ended'
  <2> SUFFICES ASSUME NEW q \in Requests, q # r,
                      requests[q].pc \in {"revoke_session", "renew_session", "end_token"}
               PROVE  EndedBy(q)'
      BY <1>8, <1>9 DEF Ended, EndedBy
  <2>1. PICK v \in Grants : v = requests[q].used
      BY DEF Sound, Chains, Shapes, ShapedBy, Refreshing, LoggingOut
  <2>2. v # g /\ family[v] # g
      BY <1>3, <1>11, <2>1
  <2>3. EndedBy(q)
      BY DEF Sound, Ended
  <2>4. requests'[q] = requests[q]
      BY <1>8
  <2> QED
      BY <1>5, <1>6, <2>1, <2>2, <2>3, <2>4 DEF EndedBy, OthersInactive
<1> QED
    BY <1>13, <1>14, <1>15, <1>16, <1>17, <1>18, <1>19, <1>20, <1>21, <1>22, <1>23, <1>24, <1>25
    DEF Sound, Chains

-------------------------------------------------------------------------------

\* A sign-in stores its token: the family has no other.
LEMMA IssueTokenSound ==
    ASSUME Sound, NEW r \in Requests, IssueToken(r)
    PROVE  Sound'
<1>1. PICK g \in Grants : g = requests[r].next
    BY DEF IssueToken, Sound, Chains, Shapes, ShapedBy, SigningIn
<1>2. tokens[g].status = "none" /\ sessions[g].status # "none" /\ family[g] = g
      /\ ~tokens[g].replaced
    BY <1>1 DEF IssueToken, Sound, Chains, Drawn, DrawnBy, Rows
<1>3. \A h \in Grants : family[h] = g => h = g
    BY <1>2, NoneIsNoGrant DEF Sound, Chains, Roots
<1>4. tokens' = [tokens EXCEPT ![g].status = "live"]
    BY <1>1 DEF IssueToken
<1>5. \A h \in Grants \ {g} : tokens'[h] = tokens[h]
    BY <1>4 DEF Sound, TypeOK
<1>6. tokens'[g].status = "live" /\ ~tokens'[g].replaced /\ tokens'[g].expired = tokens[g].expired
    BY <1>2, <1>4 DEF Sound, TypeOK
<1>7. \A q \in Requests : requests'[q].used = requests[q].used /\ requests'[q].next = requests[q].next
    BY DEF IssueToken, Goto, Sound, TypeOK
<1>8. \A q \in Requests \ {r} : requests'[q] = requests[q]
    BY DEF IssueToken, Goto, Sound, TypeOK
<1>9. requests'[r].pc = "welcome" /\ requests'[r].browser = requests[r].browser
    BY DEF IssueToken, Goto, Sound, TypeOK
<1>10. \A q \in Requests : requests[q].next = g => q = r
    BY <1>1, NoneIsNoGrant DEF Sound, Chains, Private
<1>11. \A q \in Requests : requests[q].used # g
    BY <1>1, NoneIsNoGrant DEF Sound, Chains, Private
<1>12. \A h \in Grants : OthersInactive(h)' <=> OthersInactive(h)
    BY DEF IssueToken, OthersInactive, Active
<1>13. TypeOK'
  <2>1. requests' \in [Requests -> Request]
      BY GotoTyped DEF IssueToken, Sound, TypeOK, Places, Answering
  <2>2. tokens' \in [Grants -> [status : RowStatus, expired : BOOLEAN, replaced : BOOLEAN]]
      BY <1>4 DEF Sound, TypeOK, RowStatus
  <2> QED
      BY <2>1, <2>2 DEF IssueToken, Sound, TypeOK, history
<1>14. Rows'
    BY <1>2, <1>5, <1>6, NoneIsNoGrant DEF IssueToken, Sound, Chains, Rows
<1>15. Roots'
  <2>1. \A h \in Grants : tokens[h].status # "none" => tokens'[h].status # "none"
      BY <1>5, <1>6
  <2> QED
      BY <2>1 DEF IssueToken, Sound, TypeOK, Chains, Roots
<1>16. OneHead'
  <2> SUFFICES ASSUME NEW a \in Grants, NEW b \in Grants, family[a] # None,
                      family[a] = family[b], Head(a)', Head(b)'
               PROVE  a = b
      BY DEF OneHead, IssueToken
  <2>1. CASE a = g \/ b = g
      BY <1>2, <1>3, <2>1
  <2>2. CASE a # g /\ b # g
    <3>1. Head(a) /\ Head(b)
        BY <1>5, <2>2 DEF Head
    <3> QED
        BY <3>1 DEF Sound, Chains, OneHead
  <2> QED
      BY <2>1, <2>2
<1>17. OneLiveSession' /\ AuthStateUsedOnce'
    BY DEF IssueToken, history, Sound, OneLiveSession, LiveSessions, Family, AuthStateUsedOnce
<1>18. LogoutShutsFamily'
    BY <1>5, <1>6 DEF IssueToken, Sound, LogoutShutsFamily, LiveSessions, Family
<1>19. Spent'
    BY DEF IssueToken, Goto, history, Sound, TypeOK, Spent
<1>20. Shapes'
  <2> SUFFICES ASSUME NEW q \in Requests
               PROVE  ShapedBy(q)'
      BY DEF Shapes
  <2>1. ShapedBy(q)
      BY DEF Sound, Chains, Shapes
  <2>2. CASE q = r
      BY <1>1, <1>7, <1>9, <2>1, <2>2
      DEF IssueToken, ShapedBy, SigningIn, Refreshing, LoggingOut
  <2>3. CASE q # r
      BY <1>8, <2>1, <2>3 DEF ShapedBy, IssueToken
  <2> QED
      BY <2>2, <2>3
<1>21. Private'
    BY <1>7 DEF IssueToken, Sound, Chains, Private
<1>22. Drawn'
  <2> SUFFICES ASSUME NEW q \in Requests,
                      requests'[q].pc \in {"create_session", "lock_token", "rotate",
                            "create_token", "revoke_session", "renew_session"}
               PROVE  DrawnBy(q)'
      BY DEF Drawn, DrawnBy
  <2>1. q # r
      BY <1>9
  <2>2. requests'[q] = requests[q] /\ requests[q].next \in Grants \ {g}
      BY <1>8, <1>10, <2>1 DEF Sound, Chains, Shapes, ShapedBy, SigningIn, Refreshing
  <2>3. DrawnBy(q)
      BY DEF Sound, Chains, Drawn
  <2> QED
      BY <1>5, <2>2, <2>3 DEF DrawnBy, IssueToken
<1>23. Locked'
  <2>1. \A q \in Requests : requests'[q].pc = "rotate" =>
            requests[q].pc = "rotate" /\ requests[q].used \in Grants \ {g}
      BY <1>8, <1>9, <1>11 DEF Sound, Chains, Shapes, ShapedBy, Refreshing
  <2> QED
      BY <1>5, <1>7, <2>1 DEF Sound, Chains, Locked, Holds
<1>24. Knowledge'
  <2> SUFFICES ASSUME NEW h \in Grants, Known(h)'
               PROVE  /\ tokens'[h].status # "none"
                      /\ ~tokens'[h].replaced => OthersInactive(h)
      BY <1>12 DEF Knowledge
  <2>1. CASE h = g
      BY <1>2, <1>3, <1>6, <2>1 DEF OthersInactive
  <2>2. CASE h # g
    <3>1. Known(h)
        BY <1>1, <1>7, <1>8, <1>9, <2>2 DEF Known, IssueToken
    <3> QED
        BY <1>5, <2>2, <3>1 DEF Sound, Knowledge
  <2> QED
      BY <2>1, <2>2
<1>25. Ended'
    BY DEF IssueToken, Goto, Sound, TypeOK, Ended, EndedBy, OthersInactive, Active
<1> QED
    BY <1>13, <1>14, <1>15, <1>16, <1>17, <1>18, <1>19, <1>20, <1>21, <1>22, <1>23, <1>24, <1>25
    DEF Sound, Chains

\* A rotation gives the last token of its family a successor.
LEMMA RotateTokenSound ==
    ASSUME Sound, NEW r \in Requests, RotateToken(r)
    PROVE  Sound'
<1>1. PICK g \in Grants : g = requests[r].next
    BY DEF RotateToken, Sound, Chains, Shapes, ShapedBy, Refreshing
<1>2. PICK u \in Grants : u = requests[r].used
    BY DEF RotateToken, Sound, Chains, Shapes, ShapedBy, Refreshing
<1>3. /\ tokens[g].status = "none" /\ sessions[g].status = "none"
      /\ family[g] = None /\ ~tokens[g].replaced
    BY <1>1 DEF RotateToken, Sound, Chains, Drawn, DrawnBy, Rows
<1>4. tokens[u].status = "live" /\ Known(u) /\ Head(u) /\ family[u] \in Grants /\ u # g
    BY <1>2, <1>3, RowsTyped DEF RotateToken, Known, Sound, Chains, Locked, Head, Rows
<1>5. OthersInactive(u)
    BY <1>4 DEF Sound, Knowledge, Head
<1>6. tokens' = [tokens EXCEPT ![u] = [@ EXCEPT !.status = "revoked", !.replaced = TRUE],
                               ![g].status = "live"]
    BY <1>1, <1>2, <1>4 DEF RotateToken, Sound, TypeOK
<1>7. family' = [family EXCEPT ![g] = family[u]]
    BY <1>1, <1>2 DEF RotateToken
<1>8. \A h \in Grants \ {g, u} : tokens'[h] = tokens[h]
    BY <1>6 DEF Sound, TypeOK
<1>9. /\ tokens'[u].status = "revoked" /\ tokens'[u].replaced
      /\ tokens'[u].expired = tokens[u].expired
    BY <1>4, <1>6 DEF Sound, TypeOK
<1>10. /\ tokens'[g].status = "live" /\ ~tokens'[g].replaced
       /\ tokens'[g].expired = tokens[g].expired
    BY <1>3, <1>4, <1>6 DEF Sound, TypeOK
<1>11. family'[g] = family[u] /\ \A h \in Grants \ {g} : family'[h] = family[h]
    BY <1>7 DEF Sound, TypeOK
<1>12. \A h \in Grants : ~Active(g) /\ (Active(h)' <=> Active(h))
    BY <1>3 DEF RotateToken, Active
<1>13. \A h \in Grants : tokens[h].status # "none" => tokens'[h].status # "none"
    BY <1>8, <1>9, <1>10
<1>14. \A q \in Requests : requests'[q].used = requests[q].used /\ requests'[q].next = requests[q].next
    BY DEF RotateToken, Goto, Sound, TypeOK
<1>15. \A q \in Requests \ {r} : requests'[q] = requests[q]
    BY DEF RotateToken, Goto, Sound, TypeOK
<1>16. /\ requests'[r].pc = "revoke_session" /\ requests'[r].browser = requests[r].browser
       /\ requests'[r].session = requests[r].session
    BY DEF RotateToken, Goto, Sound, TypeOK
<1>17. \A q \in Requests : requests[q].next = g => q = r
    BY <1>1, NoneIsNoGrant DEF Sound, Chains, Private
<1>18. \A q \in Requests : requests[q].used # g
    BY <1>1, NoneIsNoGrant DEF Sound, Chains, Private
<1>19. \A h \in Grants : OthersInactive(h) /\ h # g => OthersInactive(h)'
    BY <1>11, <1>12 DEF OthersInactive
<1>20. TypeOK'
  <2>1. requests' \in [Requests -> Request]
      BY GotoTyped DEF RotateToken, Sound, TypeOK, Places, Refreshing
  <2>2. tokens' \in [Grants -> [status : RowStatus, expired : BOOLEAN, replaced : BOOLEAN]]
    <3> DEFINE Row == [status : RowStatus, expired : BOOLEAN, replaced : BOOLEAN]
    <3>1. tokens[u] \in Row /\ tokens[g] \in Row
        BY RowsTyped DEF Sound
    <3>2. [tokens[u] EXCEPT !.status = "revoked", !.replaced = TRUE] \in Row
        BY <3>1 DEF RowStatus
    <3>3. [tokens[g] EXCEPT !.status = "live"] \in Row
        BY <3>1 DEF RowStatus
    <3>4. tokens \in [Grants -> Row]
        BY DEF Sound, TypeOK
    <3>5. tokens' = [tokens EXCEPT ![u] = [tokens[u] EXCEPT !.status = "revoked", !.replaced = TRUE],
                                   ![g] = [tokens[g] EXCEPT !.status = "live"]]
        BY <1>4, <1>6, <3>4
    <3> HIDE DEF Row
    <3>6. tokens' \in [Grants -> Row]
        BY <3>2, <3>3, <3>4, <3>5
    <3> QED
        BY <3>6 DEF Row
  <2>3. family' \in [Grants -> Grants \cup {None}]
      BY <1>4, <1>7 DEF Sound, TypeOK
  <2> QED
      BY <2>1, <2>2, <2>3 DEF RotateToken, Sound, TypeOK, history
<1>21. Rows'
  <2> SUFFICES ASSUME NEW h \in Grants
               PROVE  /\ family'[h] # None <=> tokens'[h].status # "none" \/ sessions[h].status # "none"
                      /\ tokens'[h].expired => tokens'[h].status # "none"
                      /\ sessions[h].expired => sessions[h].status # "none"
                      /\ tokens'[h].replaced => tokens'[h].status \in {"revoked", "gone"}
      BY DEF Rows, RotateToken
  <2>1. /\ family[h] # None <=> tokens[h].status # "none" \/ sessions[h].status # "none"
        /\ tokens[h].expired => tokens[h].status # "none"
        /\ sessions[h].expired => sessions[h].status # "none"
        /\ tokens[h].replaced => tokens[h].status \in {"revoked", "gone"}
      BY DEF Sound, Chains, Rows
  <2>2. family[u] # None
      BY <1>4, NoneIsNoGrant
  <2>3. CASE h = g
      BY <1>10, <1>11, <2>1, <2>2, <2>3
  <2>4. CASE h = u
      BY <1>4, <1>9, <1>11, <2>1, <2>2, <2>4
  <2>5. CASE h # g /\ h # u
    <3>1. tokens'[h] = tokens[h] /\ family'[h] = family[h]
        BY <1>8, <1>11, <2>5
    <3> QED
        BY <2>1, <3>1
  <2> QED
      BY <2>3, <2>4, <2>5
<1>22. Roots'
  <2> SUFFICES ASSUME NEW h \in Grants, family'[h] # None
               PROVE  /\ family'[family'[h]] = family'[h]
                      /\ family'[h] # h => tokens'[family'[h]].status # "none"
      BY DEF Roots
  <2>1. PICK f \in Grants : f = family'[h] /\ f # g /\ family[f] = f
                          /\ (h # g /\ f # h => tokens[f].status # "none")
                          /\ (h = g /\ f # u => tokens[f].status # "none")
    <3>1. CASE h = g
        BY <1>3, <1>4, <1>11, <3>1, NoneIsNoGrant DEF Sound, Chains, Roots
    <3>2. CASE h # g
      <4>1. family[h] \in Grants /\ family'[h] = family[h]
          BY <1>11, <3>2, RowsTyped DEF Sound
      <4> QED
          BY <1>3, <3>2, <4>1, NoneIsNoGrant DEF Sound, Chains, Roots
    <3> QED
        BY <3>1, <3>2
  <2>2. family'[f] = f
      BY <1>11, <2>1
  <2>3. f # h => tokens'[f].status # "none"
      BY <1>4, <1>13, <2>1
  <2> QED
      BY <2>1, <2>2, <2>3
<1>23. OneHead'
  <2> SUFFICES ASSUME NEW a \in Grants, NEW b \in Grants, family'[a] # None,
                      family'[a] = family'[b], Head(a)', Head(b)'
               PROVE  a = b
      BY DEF OneHead
  <2>1. a # u /\ b # u
      BY <1>9 DEF Head
  <2>2. \A h \in {a, b} \ {g} : Head(h) /\ family'[h] = family[h]
      BY <1>8, <1>11, <2>1 DEF Head
  <2>3. CASE a # g /\ b # g
      BY <2>2, <2>3 DEF Sound, Chains, OneHead
  <2>4. CASE (a = g) # (b = g)
    <3>1. PICK h \in {a, b} \ {g} : family[h] = family[u] /\ Head(h)
        BY <1>11, <2>2, <2>4
    <3>2. h = u
        BY <1>4, <3>1, NoneIsNoGrant DEF Sound, Chains, OneHead
    <3> QED
        BY <2>1, <3>1, <3>2
  <2> QED
      BY <2>3, <2>4
<1>24. OneLiveSession' /\ LogoutShutsFamily'
  <2>1. \A f \in Grants : LiveSessions(f)' = LiveSessions(f)
    <3> SUFFICES ASSUME NEW f \in Grants, NEW h \in Grants
                 PROVE  family'[h] = f /\ Active(h) <=> family[h] = f /\ Active(h)
        BY DEF LiveSessions, Family, Active, RotateToken
    <3> QED
        BY <1>11, <1>12
  <2>2. OneLiveSession'
      BY <2>1 DEF Sound, OneLiveSession
  <2>3. ASSUME NEW h \in Grants, tokens'[h].status = "revoked", ~tokens'[h].replaced
        PROVE  LiveSessions(family[h])' = {} /\ family'[h] = family[h]
    <3>1. h # g /\ h # u
        BY <1>9, <1>10, <2>3
    <3>2. tokens'[h] = tokens[h]
        BY <1>8, <3>1
    <3>3. LiveSessions(family[h]) = {} /\ tokens[h].status # "none"
        BY <2>3, <3>2 DEF Sound, LogoutShutsFamily
    <3>4. family[h] \in Grants
        BY <3>3, RowsTyped DEF Sound, Chains, Rows
    <3> QED
        BY <1>11, <2>1, <3>1, <3>3, <3>4
  <2>4. LogoutShutsFamily'
      BY <2>3 DEF LogoutShutsFamily
  <2> QED
      BY <2>2, <2>4
<1>25. AuthStateUsedOnce' /\ Spent'
    BY DEF RotateToken, Goto, history, Sound, TypeOK, AuthStateUsedOnce, Spent
<1>26. Shapes'
  <2> SUFFICES ASSUME NEW q \in Requests
               PROVE  ShapedBy(q)'
      BY DEF Shapes
  <2>1. ShapedBy(q)
      BY DEF Sound, Chains, Shapes
  <2>2. CASE q = r
      BY <1>14, <1>16, <2>1, <2>2
      DEF RotateToken, ShapedBy, SigningIn, Refreshing, LoggingOut
  <2>3. CASE q # r
      BY <1>15, <2>1, <2>3 DEF ShapedBy, RotateToken
  <2> QED
      BY <2>2, <2>3
<1>27. Private'
    BY <1>14 DEF RotateToken, Sound, Chains, Private
<1>28. Drawn'
  <2> SUFFICES ASSUME NEW q \in Requests,
                      requests'[q].pc \in {"create_session", "lock_token", "rotate",
                            "create_token", "revoke_session", "renew_session"}
               PROVE  DrawnBy(q)'
      BY DEF Drawn, DrawnBy
  <2>1. CASE q = r
      BY <1>1, <1>2, <1>3, <1>4, <1>10, <1>11, <1>14, <1>16, <2>1 DEF DrawnBy, RotateToken
  <2>2. CASE q # r
    <3>1. requests'[q] = requests[q]
        BY <1>15, <2>2
    <3>2. PICK n \in Grants : n = requests[q].next /\ n # g
        BY <1>17, <2>2, <3>1 DEF Sound, Chains, Shapes, ShapedBy, SigningIn, Refreshing
    <3>3. n # u
        BY <1>2, <3>2, NoneIsNoGrant DEF Sound, Chains, Private
    <3>4. requests[q].pc \in {"revoke_session", "renew_session"} =>
              requests[q].used \in Grants \ {g}
        BY <1>18 DEF Sound, Chains, Shapes, ShapedBy, Refreshing
    <3>5. DrawnBy(q)
        BY DEF Sound, Chains, Drawn
    <3>6. tokens'[n] = tokens[n] /\ family'[n] = family[n] /\ sessions' = sessions
        BY <1>8, <1>11, <3>2, <3>3 DEF RotateToken
    <3>7. requests[q].pc \in {"revoke_session", "renew_session"} =>
              family'[requests[q].used] = family[requests[q].used]
        BY <1>11, <3>4
    <3> QED
        BY <3>1, <3>2, <3>5, <3>6, <3>7 DEF DrawnBy
  <2> QED
      BY <2>1, <2>2
<1>29. Locked'
  <2> SUFFICES ASSUME NEW q \in Requests, requests'[q].pc = "rotate"
               PROVE  /\ tokens'[requests'[q].used].status = "live"
                      /\ \A p \in Requests : requests'[p].pc = "rotate"
                            /\ requests'[p].used = requests'[q].used => p = q
      BY DEF Locked, Holds
  <2>1. q # r /\ requests'[q] = requests[q]
      BY <1>15, <1>16
  <2>2. requests[q].used \in Grants \ {g, u}
      BY <1>2, <1>18, <2>1
      DEF RotateToken, Sound, Chains, Shapes, ShapedBy, Refreshing, Locked, Holds
  <2> QED
      BY <1>8, <1>15, <1>16, <2>1, <2>2 DEF Sound, Chains, Locked, Holds
<1>30. Knowledge'
  <2> SUFFICES ASSUME NEW h \in Grants, Known(h)'
               PROVE  /\ tokens'[h].status # "none"
                      /\ ~tokens'[h].replaced => OthersInactive(h)'
      BY DEF Knowledge
  <2>1. Known(h)
      BY <1>14, <1>15, <1>16 DEF Known, RotateToken
  <2>2. tokens[h].status # "none" /\ (~tokens[h].replaced => OthersInactive(h))
      BY <2>1 DEF Sound, Knowledge
  <2>3. h # g
      BY <1>3, <2>2
  <2> QED
      BY <1>8, <1>9, <1>13, <1>19, <2>2, <2>3
<1>31. Ended'
  <2> SUFFICES ASSUME NEW q \in Requests
               PROVE  EndedBy(q)'
      BY DEF Ended
  <2>1. CASE q = r
      BY <1>2, <1>4, <1>5, <1>14, <1>16, <1>19, <2>1 DEF EndedBy
  <2>2. CASE q # r
    <3>1. requests'[q] = requests[q] /\ EndedBy(q)
        BY <1>15, <2>2 DEF Sound, Ended
    <3>2. requests[q].pc \in {"revoke_session", "renew_session", "end_token"} =>
              requests[q].used \in Grants \ {g}
        BY <1>18 DEF Sound, Chains, Shapes, ShapedBy, Refreshing, LoggingOut
    <3> QED
        BY <1>12, <1>19, <3>1, <3>2 DEF EndedBy
  <2> QED
      BY <2>1, <2>2
<1> QED
    BY <1>20, <1>21, <1>22, <1>23, <1>24, <1>25, <1>26, <1>27, <1>28, <1>29, <1>30, <1>31
    DEF Sound, Chains

-------------------------------------------------------------------------------
(* Requests that begin. *)

LEMMA UnusedIsFree ==
    ASSUME Sound, NEW g \in Grants, Unused(g)
    PROVE  /\ tokens[g].status = "none" /\ sessions[g].status = "none"
           /\ ~Known(g)
           /\ \A q \in Requests : requests[q].next # g /\ requests[q].used # g
           /\ \A b \in Browsers : jar[b] # g
    BY DEF Sound, Knowledge, Unused, Known

\* A request that presents the cookies of a browser.
LEMMA PresentSound ==
    ASSUME Sound, NEW r \in Requests, requests[r].pc = "idle", NEW n \in Request,
           requests' = [requests EXCEPT ![r] = n],
           NEW b \in Browsers, n.browser = b, n.used = jar[b], n.used \in Grants,
           n.session \/ sessions[n.used].expired,
           \/ n.pc = "lock_token" /\ n.next \in Grants /\ Unused(n.next)
           \/ n.pc = "end_session" /\ n.next = None,
           UNCHANGED <<tables, jar, history>>
    PROVE  Sound'
<1>1. requests'[r] = n /\ \A q \in Requests \ {r} : requests'[q] = requests[q]
    BY DEF Sound, TypeOK
<1>2. Known(n.used)
    BY DEF Known
<1>3. n.next # None => n.next # n.used
    BY <1>2, UnusedIsFree
<1>4. TypeOK'
    BY DEF Sound, TypeOK, tables, history
<1>5. Stored'
    BY SoundStored, StoredStays DEF history
<1>6. Shapes'
  <2> SUFFICES ASSUME NEW q \in Requests
               PROVE  ShapedBy(q)'
      BY DEF Shapes
  <2>1. CASE q = r
      BY <1>1, <2>1 DEF ShapedBy, tables, SigningIn, Refreshing, LoggingOut
  <2>2. CASE q # r
      BY <1>1, <2>2 DEF Sound, Chains, Shapes, ShapedBy, tables
  <2> QED
      BY <2>1, <2>2
<1>7. Private'
  <2> SUFFICES ASSUME NEW q \in Requests, requests'[q].next # None
               PROVE  /\ \A p \in Requests : requests'[p].next = requests'[q].next => p = q
                      /\ \A p \in Requests : requests'[p].used # requests'[q].next
                      /\ \A c \in Browsers : jar[c] # requests'[q].next
      BY DEF Private
  <2>1. CASE q = r
      BY <1>1, <1>3, <2>1, UnusedIsFree
  <2>2. CASE q # r
      BY <1>1, <2>2, UnusedIsFree DEF Sound, Chains, Private
  <2> QED
      BY <2>1, <2>2
<1>8. Drawn'
  <2> SUFFICES ASSUME NEW q \in Requests
               PROVE  DrawnBy(q)'
      BY DEF Drawn
  <2>1. CASE q = r
      BY <1>1, <2>1, UnusedIsFree DEF DrawnBy, tables
  <2>2. CASE q # r
      BY <1>1, <2>2 DEF Sound, Chains, Drawn, DrawnBy, tables
  <2> QED
      BY <2>1, <2>2
<1>9. Locked'
    BY <1>1 DEF Sound, Chains, Locked, Holds, tables
<1>10. Knowledge'
  <2>1. \A g \in Grants : Known(g)' => Known(g)
      BY <1>1, <1>2 DEF Known
  <2> QED
      BY <2>1 DEF Sound, Knowledge, OthersInactive, Active, tables
<1>11. Ended' /\ Spent'
    BY <1>1 DEF Sound, Ended, EndedBy, OthersInactive, Active, Spent, tables, history
<1> QED
    BY <1>4, <1>5, <1>6, <1>7, <1>8, <1>9, <1>10, <1>11 DEF Sound, Chains, Stored

LEMMA BeginRefreshSound ==
    ASSUME Sound, NEW r \in Requests, NEW b \in Browsers, BeginRefresh(r, b)
    PROVE  Sound'
<1>1. PICK next \in Grants, sent \in SessionCookies(jar[b]) :
        /\ Unused(next)
        /\ requests' = [requests EXCEPT ![r] =
              [Idle EXCEPT !.pc = "lock_token", !.browser = b, !.used = jar[b],
                           !.session = sent, !.fresh = ~tokens[jar[b]].expired, !.next = next]]
    BY DEF BeginRefresh
<1>2. jar[b] \in Grants /\ tokens[jar[b]].expired \in BOOLEAN
    BY RowsTyped DEF BeginRefresh, Sound, TypeOK
<1>3. sent \in BOOLEAN /\ (sent \/ sessions[jar[b]].expired)
    BY DEF SessionCookies
<1> DEFINE n == [Idle EXCEPT !.pc = "lock_token", !.browser = b, !.used = jar[b],
                             !.session = sent, !.fresh = ~tokens[jar[b]].expired, !.next = next]
<1>4. (~tokens[jar[b]].expired) \in BOOLEAN
    OBVIOUS
<1>5. n \in Request
    BY <1>2, <1>3, <1>4 DEF Idle, Request, Refreshing
<1>6. /\ n.pc = "lock_token" /\ n.browser = b /\ n.used = jar[b] /\ n.session = sent
      /\ n.next = next
    BY DEF Idle
<1>7. requests' = [requests EXCEPT ![r] = n] /\ Unused(next)
    BY <1>1
<1>8. requests[r].pc = "idle" /\ UNCHANGED <<tables, jar, history>>
    BY DEF BeginRefresh
<1> HIDE DEF n
<1> QED
    BY <1>2, <1>3, <1>5, <1>6, <1>7, <1>8, PresentSound

LEMMA BeginLogoutSound ==
    ASSUME Sound, NEW r \in Requests, NEW b \in Browsers, BeginLogout(r, b)
    PROVE  Sound'
<1>1. PICK sent \in SessionCookies(jar[b]) :
        requests' = [requests EXCEPT ![r] =
            [Idle EXCEPT !.pc = "end_session", !.browser = b, !.used = jar[b], !.session = sent]]
    BY DEF BeginLogout
<1>2. jar[b] \in Grants
    BY DEF BeginLogout, Sound, TypeOK
<1>3. sent \in BOOLEAN /\ (sent \/ sessions[jar[b]].expired)
    BY DEF SessionCookies
<1> DEFINE n == [Idle EXCEPT !.pc = "end_session", !.browser = b, !.used = jar[b], !.session = sent]
<1>4. n \in Request
    BY <1>2, <1>3 DEF Idle, Request, LoggingOut
<1>5. /\ n.pc = "end_session" /\ n.browser = b /\ n.used = jar[b] /\ n.session = sent
      /\ n.next = None
    BY DEF Idle
<1>6. requests' = [requests EXCEPT ![r] = n]
    BY <1>1
<1>7. requests[r].pc = "idle" /\ UNCHANGED <<tables, jar, history>>
    BY DEF BeginLogout
<1> HIDE DEF n
<1> QED
    BY <1>2, <1>3, <1>4, <1>5, <1>6, <1>7, PresentSound

LEMMA BeginCallbackSound ==
    ASSUME Sound, NEW r \in Requests, NEW b \in Browsers, NEW s \in AuthStates,
           BeginCallback(r, b, s)
    PROVE  Sound'
<1>1. PICK g \in Grants :
        /\ Unused(g)
        /\ requests' = [requests EXCEPT ![r] =
              [Idle EXCEPT !.pc = "create_session", !.browser = b, !.next = g, !.state = s]]
    BY DEF BeginCallback
<1> DEFINE n == [Idle EXCEPT !.pc = "create_session", !.browser = b, !.next = g, !.state = s]
<1>2. n \in Request
    BY DEF Idle, Request, SigningIn
<1>3. /\ n.pc = "create_session" /\ n.browser = b /\ n.used = None /\ n.next = g
      /\ n.state = s
    BY DEF Idle
<1>4. requests'[r] = n /\ \A q \in Requests \ {r} : requests'[q] = requests[q]
    BY <1>1 DEF Sound, TypeOK
<1> HIDE DEF n
<1>5. UNCHANGED <<tokens, sessions, family, jar, history>>
    BY DEF BeginCallback
<1>6. authStates' = [authStates EXCEPT ![s] = "gone"] /\ authStates[s] = "open"
    BY DEF BeginCallback
<1>7. TypeOK'
  <2>1. requests' \in [Requests -> Request]
      BY <1>1, <1>2 DEF Sound, TypeOK, n
  <2> QED
      BY <1>5, <1>6, <2>1 DEF Sound, TypeOK, history
<1>8. Rows' /\ Roots' /\ OneHead'
    BY <1>5 DEF Sound, Chains, Rows, Roots, OneHead, Head
<1>9. OneLiveSession' /\ LogoutShutsFamily' /\ AuthStateUsedOnce'
    BY <1>5 DEF Sound, OneLiveSession, LogoutShutsFamily, LiveSessions, Family,
                AuthStateUsedOnce, history
<1>10. Shapes'
  <2> SUFFICES ASSUME NEW q \in Requests
               PROVE  ShapedBy(q)'
      BY DEF Shapes
  <2>1. CASE q = r
      BY <1>3, <1>4, <2>1 DEF ShapedBy, SigningIn, Refreshing, LoggingOut
  <2>2. CASE q # r
      BY <1>4, <1>5, <2>2 DEF Sound, Chains, Shapes, ShapedBy
  <2> QED
      BY <2>1, <2>2
<1>11. Private'
  <2>0. /\ None # g
        /\ \A q \in Requests : requests[q].next # g /\ requests[q].used # g
        /\ \A c \in Browsers : jar[c] # g
      BY <1>1, UnusedIsFree, NoneIsNoGrant
  <2> SUFFICES ASSUME NEW q \in Requests, requests'[q].next # None
               PROVE  /\ \A p \in Requests : requests'[p].next = requests'[q].next => p = q
                      /\ \A p \in Requests : requests'[p].used # requests'[q].next
                      /\ \A c \in Browsers : jar[c] # requests'[q].next
      BY <1>5 DEF Private
  <2>1. CASE q = r
      BY <1>3, <1>4, <2>0, <2>1
  <2>2. CASE q # r
      BY <1>3, <1>4, <2>0, <2>2 DEF Sound, Chains, Private
  <2> QED
      BY <2>1, <2>2
<1>12. Drawn'
  <2> SUFFICES ASSUME NEW q \in Requests
               PROVE  DrawnBy(q)'
      BY DEF Drawn
  <2>1. CASE q = r
      BY <1>1, <1>3, <1>4, <1>5, <2>1, UnusedIsFree DEF DrawnBy
  <2>2. CASE q # r
      BY <1>4, <1>5, <2>2 DEF Sound, Chains, Drawn, DrawnBy
  <2> QED
      BY <2>1, <2>2
<1>13. Locked'
    BY <1>3, <1>4, <1>5 DEF Sound, Chains, Locked, Holds
<1>14. Knowledge'
  <2>1. \A h \in Grants : Known(h)' => Known(h)
      BY <1>3, <1>4, <1>5, NoneIsNoGrant DEF Known
  <2> QED
      BY <1>5, <2>1 DEF Sound, Knowledge, OthersInactive, Active
<1>15. Ended'
    BY <1>3, <1>4, <1>5 DEF Sound, Ended, EndedBy, OthersInactive, Active
<1>16. Spent'
  <2>1. \A t \in AuthStates : authStates[t] = "gone" => authStates'[t] = "gone" /\ t # s
      BY <1>6 DEF Sound, TypeOK
  <2>2. authStates'[s] = "gone"
      BY <1>6 DEF Sound, TypeOK
  <2>3. \A g1 \in Grants : started[g1] # None => started[g1] \in AuthStates
      BY DEF Sound, TypeOK
  <2>4. \A g1 \in Grants : started[g1] # s
      BY <2>1, <2>3, NoneIsNoGrant DEF Sound, Spent
  <2>5. \A q \in Requests : requests[q].pc = "create_session" => requests[q].state # s
      BY <2>1 DEF Sound, Spent
  <2> QED
      BY <1>3, <1>4, <1>5, <2>1, <2>2, <2>3, <2>4, <2>5 DEF Sound, Spent, history
<1> QED
    BY <1>7, <1>8, <1>9, <1>10, <1>11, <1>12, <1>13, <1>14, <1>15, <1>16 DEF Sound, Chains

-------------------------------------------------------------------------------
(* The theorems. *)

LEMMA SoundInductive == Sound /\ [Next]_vars => Sound'
<1> SUFFICES ASSUME Sound, [Next]_vars PROVE Sound'
    OBVIOUS
<1>1. CASE \E s \in AuthStates : LoginURL(s)
    BY <1>1, LoginURLSound
<1>2. CASE \E r \in Requests, b \in Browsers : Begin(r, b)
    BY <1>2, BeginCallbackSound, BeginRefreshSound, BeginLogoutSound DEF Begin
<1>3. CASE \E r \in Requests : Proceed(r) \/ Lose(r)
    BY <1>3, IssueSessionSound, IssueTokenSound, LockTokenSound, FailSound, RotateTokenSound,
       RevokeOldSessionSound, RenewSessionSound, EndTokenSound, AnswerSound DEF Proceed
<1>4. CASE Expire
    BY <1>4, LoginURLSound, ExpireSessionSound, ExpireTokenSound DEF Expire
<1>5. CASE CleanupExpired
    BY <1>5, CleanupSound
<1>6. CASE UNCHANGED vars
  <2>1. Stored'
      BY <1>6, SoundStored, StoredStays DEF vars, history, tables
  <2>2. UNCHANGED <<authStates, tokens, sessions, family, jar, requests, started, reused, losses>>
      BY <1>6 DEF vars, tables, history
  <2>3. TypeOK'
      BY <2>2 DEF Sound, TypeOK
  <2>4. Shapes'
      BY <2>2 DEF Sound, Chains, Shapes, ShapedBy
  <2>5. Private'
      BY <2>2 DEF Sound, Chains, Private
  <2>6. Drawn'
      BY <2>2 DEF Sound, Chains, Drawn, DrawnBy
  <2>7. Locked'
      BY <2>2 DEF Sound, Chains, Locked, Holds
  <2>8. Knowledge'
      BY <2>2 DEF Sound, Knowledge, Known, OthersInactive, Active
  <2>9. Ended'
      BY <2>2 DEF Sound, Ended, EndedBy, OthersInactive, Active
  <2>10. Spent'
      BY <2>2 DEF Sound, Spent
  <2> QED
      BY <2>1, <2>3, <2>4, <2>5, <2>6, <2>7, <2>8, <2>9, <2>10 DEF Sound, Chains, Stored
<1> QED
    BY <1>1, <1>2, <1>3, <1>4, <1>5, <1>6 DEF Next

LEMMA SoundAlways == Spec => []Sound
<1>1. Init => Sound
    BY InitSound
<1>2. Sound /\ [Next]_vars => Sound'
    BY SoundInductive
<1> QED
    BY <1>1, <1>2, PTL DEF Spec

\* Every variable keeps its type; a detected reuse is of a family that exists.
THEOREM TypeCorrect == Spec => []TypeOK
<1>1. Sound => TypeOK
    BY DEF Sound
<1> QED
    BY <1>1, SoundAlways, PTL

\* A family never has two refresh tokens that can be used: RotateRefreshToken inserts
\* the next only while it holds the row of the last.
THEOREM TokensExclude == Spec => []OneLiveToken
<1>1. Sound => OneLiveToken
  <2> SUFFICES ASSUME Sound, NEW f \in Grants, NEW g \in LiveTokens(f), NEW h \in LiveTokens(f)
               PROVE  g = h
      BY DEF OneLiveToken
  <2>1. Head(g) /\ Head(h)
      BY DEF LiveTokens, Family, Head, Sound, Chains, Rows
  <2> QED
      BY <2>1, NoneIsNoGrant DEF LiveTokens, Family, Sound, Chains, OneHead
<1> QED
    BY <1>1, SoundAlways, PTL

\* A family never has two sessions that can be used: Refresh revokes the last session
\* before it creates the next.
THEOREM SessionsExclude == Spec => []OneLiveSession
<1>1. Sound => OneLiveSession
    BY DEF Sound
<1> QED
    BY <1>1, SoundAlways, PTL

\* A logout that has revoked the last token of a family leaves no session that works.
THEOREM LogoutShuts == Spec => []LogoutShutsFamily
<1>1. Sound => LogoutShutsFamily
    BY DEF Sound
<1> QED
    BY <1>1, SoundAlways, PTL

\* ConsumeAuthState lets one sign-in through for each authorization attempt.
THEOREM AuthStatesSpent == Spec => []AuthStateUsedOnce
<1>1. Sound => AuthStateUsedOnce
    BY DEF Sound
<1> QED
    BY <1>1, SoundAlways, PTL

\* Expiry, revocation and deletion bring no token back to life.
LEMMA NoRevival ==
    ASSUME UNCHANGED family,
           \A g \in Grants : tokens'[g].status = "live" => tokens[g].status = "live",
           \A g \in Grants : tokens[g].status # "none" => tokens'[g].status # "none",
           NEW f \in Grants, Closed(f)
    PROVE  Closed(f)'
    BY DEF Closed, LiveTokens, Family

\* The token of a sign-in is the first of a family of its own.
LEMMA IssueTokenReopensNothing ==
    ASSUME Sound, NEW r \in Requests, IssueToken(r), NEW f \in Grants, Closed(f)
    PROVE  Closed(f)'
<1> DEFINE n == requests[r].next
<1>1. requests[r].pc = "create_token" /\ n \in Grants
    BY DEF IssueToken, Sound, Chains, Shapes, ShapedBy, SigningIn
<1>2. tokens[n].status = "none" /\ family[n] = n
    BY <1>1 DEF Sound, Chains, Drawn, DrawnBy
<1>3. f # n
    BY <1>2 DEF Closed
<1>4. family' = family /\ tokens' = [tokens EXCEPT ![n].status = "live"]
    BY DEF IssueToken
<1>5. \A g \in Grants \ {n} : tokens'[g] = tokens[g]
    BY <1>4 DEF Sound, TypeOK
<1> QED
    BY <1>2, <1>3, <1>4, <1>5 DEF Closed, LiveTokens, Family

\* The successor of a token joins a family that is not closed.
LEMMA RotationReopensNothing ==
    ASSUME Sound, NEW r \in Requests, RotateToken(r), NEW f \in Grants, Closed(f)
    PROVE  Closed(f)'
<1> DEFINE g == requests[r].used
           n == requests[r].next
<1>1. requests[r].pc = "rotate" /\ g \in Grants /\ n \in Grants
    BY DEF RotateToken, Sound, Chains, Shapes, ShapedBy, SigningIn, Refreshing
<1>2. tokens[g].status = "live" /\ tokens[n].status = "none"
    BY <1>1 DEF Sound, Chains, Drawn, DrawnBy, Locked
<1>3. family[g] # f
    BY <1>1, <1>2 DEF Closed, LiveTokens, Family
<1>4. f # n /\ f # g
    BY <1>2, <1>3 DEF Closed
<1>5. /\ \A h \in Grants \ {n} : family'[h] = family[h]
      /\ family'[n] = family[g]
    BY <1>1 DEF RotateToken, Sound, TypeOK
<1>6. \A h \in Grants \ {g, n} : tokens'[h] = tokens[h]
    BY DEF RotateToken, Sound, TypeOK
<1>7. \A h \in Grants : family'[h] = f => h \notin {g, n}
    BY <1>1, <1>2, <1>3, <1>5
<1> QED
    BY <1>3, <1>4, <1>5, <1>6, <1>7 DEF Closed, LiveTokens, Family

LEMMA SessionReopensNothing ==
    ASSUME Sound, NEW r \in Requests, IssueSession(r), NEW f \in Grants, Closed(f)
    PROVE  Closed(f)'
<1> DEFINE n == requests[r].next
<1>1. requests[r].pc = "create_session" /\ n \in Grants
    BY DEF IssueSession, Sound, Chains, Shapes, ShapedBy, SigningIn
<1>2. tokens[n].status = "none" /\ f # n
    BY <1>1 DEF Sound, Chains, Drawn, DrawnBy, Closed
<1>3. tokens' = tokens /\ \A h \in Grants \ {n} : family'[h] = family[h]
    BY DEF IssueSession, Sound, TypeOK
<1> QED
    BY <1>2, <1>3 DEF Closed, LiveTokens, Family

\* No step gives a closed family a token that can be used.
LEMMA NothingReopens ==
    ASSUME Sound, [Next]_vars, NEW f \in Grants, Closed(f)
    PROVE  Closed(f)'
<1>1. CASE UNCHANGED <<tokens, family>>
    BY <1>1 DEF Closed, LiveTokens, Family
<1>2. ASSUME NEW r \in Requests, EndToken(r)
      PROVE  Closed(f)'
    BY <1>2, NoRevival, RowsTyped DEF EndToken, Revoked, Sound, TypeOK
<1>3. ASSUME NEW g \in Grants, ExpireToken(g)
      PROVE  Closed(f)'
    BY <1>3, NoRevival, RowsTyped DEF ExpireToken, Sound, TypeOK
<1>4. CASE CleanupExpired
    BY <1>4, NoRevival, RowsTyped DEF CleanupExpired, Purged, Sound, TypeOK
<1>5. ASSUME NEW r \in Requests, Proceed(r)
      PROVE  Closed(f)'
  <2>1. CASE \/ LockToken(r) \/ RefuseToken(r) \/ DetectReuse(r) \/ RevokeOldSession(r)
             \/ RenewSession(r) \/ EndSession(r) \/ Fail(r) \/ Answer(r)
      BY <1>1, <2>1 DEF LockToken, RefuseToken, DetectReuse, RevokeOldSession, RenewSession,
                        EndSession, Fail, Answer, tables
  <2> QED
      BY <1>2, <1>5, <2>1, IssueTokenReopensNothing, SessionReopensNothing,
         RotationReopensNothing DEF Proceed
<1>6. CASE \E r \in Requests, b \in Browsers : Begin(r, b)
    BY <1>1, <1>6 DEF Begin, BeginCallback, BeginRefresh, BeginLogout, tables
<1>7. CASE \/ \E s \in AuthStates : LoginURL(s) \/ ExpireAuthState(s)
           \/ \E r \in Requests : Lose(r)
           \/ \E g \in Grants : ExpireSession(g)
    BY <1>1, <1>7 DEF LoginURL, ExpireAuthState, Lose, ExpireSession, tables
<1>8. CASE UNCHANGED vars
    BY <1>1, <1>8 DEF vars, tables
<1> QED
    BY <1>3, <1>4, <1>5, <1>6, <1>7, <1>8 DEF Next, Expire

\* Once every token of a family is revoked or deleted, none of its tokens can ever be
\* used again: RotateRefreshToken issues a token only for one that was live when it
\* took the row, and a sign-in starts a family of its own.
THEOREM ClosedForGood == Spec => ClosedFamilyStaysClosed
<1>1. Sound /\ [Next]_vars => [\A f \in Grants : Closed(f) => Closed(f)']_vars
    BY NothingReopens
<1> QED
    BY <1>1, SoundAlways, PTL DEF Spec, ClosedFamilyStaysClosed

-------------------------------------------------------------------------------
(* A browser that takes one thing at a time.  A token is reused when two   *)
(* requests of one browser present it, or when the answer that carried its *)
(* successor did not arrive.  A browser that does neither never presents a *)
(* token that was rotated, whatever the other browsers do.                 *)

\* No two requests of a browser are at work at once, and every answer has arrived.
OneAtATime ==
    /\ losses = 0
    /\ \A r, s \in Requests :
         /\ requests[r].pc # "idle" /\ requests[s].pc # "idle"
         /\ requests[r].browser = requests[s].browser
         => r = s

\* Only one browser holds a grant.
JarsApart == \A b, c \in Browsers : jar[b] # None /\ jar[b] = jar[c] => b = c

\* What a request presented stays in its browser's jar until it is answered.
Presented == \A r \in Requests : requests[r].used # None =>
    requests[r].pc # "idle" /\ jar[requests[r].browser] = requests[r].used

\* A grant that was drawn and not answered yet has no successor.
DrawnIsLast == \A r \in Requests : requests[r].next # None => ~tokens[requests[r].next].replaced

\* The request that rotated a token will overwrite the jar that holds it.
Outgoing(b) == \E r \in Requests :
    /\ requests[r].browser = b /\ requests[r].used = jar[b]
    /\ requests[r].pc \in {"revoke_session", "renew_session", "welcome", "farewell"}

OldTokensLeave == \A b \in Browsers :
    jar[b] # None /\ tokens[jar[b]].replaced => Outgoing(b)

\* A refresh that has yet to rotate its token presents one that was not rotated.
FreshlyPresented == \A r \in Requests :
    requests[r].pc \in {"lock_token", "rotate"} => ~tokens[requests[r].used].replaced

Orderly ==
    /\ JarsApart
    /\ Presented
    /\ DrawnIsLast
    /\ OldTokensLeave
    /\ FreshlyPresented
    /\ NoFalseReuse

\* No token gains or loses a successor.
SuccessorsStay == \A g \in Grants : tokens'[g].replaced = tokens[g].replaced

LEMMA InitOrderly == Init => Orderly
    BY DEF Init, Orderly, JarsApart, Presented, DrawnIsLast, OldTokensLeave, FreshlyPresented,
           NoFalseReuse, Idle

\* Steps of the clock, of the cleanup loop and of the sign-in page.
LEMMA StaysOrderly ==
    ASSUME Sound, Orderly, SuccessorsStay, UNCHANGED <<jar, requests, reused>>
    PROVE  Orderly'
<1>1. \A b \in Browsers : jar[b] # None => jar[b] \in Grants
    BY DEF Sound, TypeOK
<1>2. JarsApart' /\ Presented' /\ NoFalseReuse'
    BY DEF Orderly, JarsApart, Presented, NoFalseReuse
<1>3. DrawnIsLast'
    BY DEF Orderly, DrawnIsLast, SuccessorsStay, Sound, TypeOK, Request
<1>4. OldTokensLeave'
    BY <1>1 DEF Orderly, OldTokensLeave, Outgoing, SuccessorsStay
<1>5. FreshlyPresented'
    BY DEF Orderly, FreshlyPresented, SuccessorsStay, Sound, Chains, Shapes, ShapedBy, Refreshing
<1> QED
    BY <1>2, <1>3, <1>4, <1>5 DEF Orderly

\* A request that moves keeps what it carries.
LEMMA GotoMoves ==
    ASSUME Sound, NEW r \in Requests, NEW pc, Goto(r, pc)
    PROVE  /\ \A p \in Requests : /\ requests'[p].used = requests[p].used
                                  /\ requests'[p].next = requests[p].next
                                  /\ requests'[p].browser = requests[p].browser
           /\ \A p \in Requests \ {r} : requests'[p].pc = requests[p].pc
           /\ requests'[r].pc = pc
<1>1. /\ requests' = [requests EXCEPT ![r].pc = pc]
      /\ requests \in [Requests -> Request]
    BY DEF Goto, Sound, TypeOK
<1> QED
    BY <1>1 DEF Request

\* A request that goes on without changing a jar or rotating a token.
LEMMA ProceedsOrderly ==
    ASSUME Sound, Orderly, SuccessorsStay, UNCHANGED <<jar, reused>>,
           NEW r \in Requests, NEW pc, Goto(r, pc),
           requests[r].pc # "idle", pc # "idle",
           pc \in {"lock_token", "rotate"} => requests[r].pc \in {"lock_token", "rotate"},
           requests[r].pc \in {"revoke_session", "renew_session"} =>
               pc \in {"renew_session", "welcome", "farewell"},
           requests[r].pc \notin {"welcome", "farewell"}
    PROVE  Orderly'
<1>1. \A b \in Browsers : jar[b] # None => jar[b] \in Grants
    BY DEF Sound, TypeOK
<1>2. /\ \A p \in Requests : /\ requests'[p].used = requests[p].used
                             /\ requests'[p].next = requests[p].next
                             /\ requests'[p].browser = requests[p].browser
      /\ \A p \in Requests \ {r} : requests'[p].pc = requests[p].pc
      /\ requests'[r].pc = pc
    BY GotoMoves
<1>3. JarsApart' /\ Presented' /\ NoFalseReuse'
    BY <1>2 DEF Orderly, JarsApart, Presented, NoFalseReuse
<1>4. DrawnIsLast'
    BY <1>2 DEF Orderly, DrawnIsLast, SuccessorsStay, Sound, TypeOK, Request
<1>5. ASSUME NEW b \in Browsers, Outgoing(b)
      PROVE  Outgoing(b)'
    BY <1>2, <1>5 DEF Outgoing
<1>6. OldTokensLeave'
    BY <1>1, <1>5 DEF Orderly, OldTokensLeave, SuccessorsStay
<1>7. \A p \in Requests : requests[p].pc \in {"lock_token", "rotate"} => requests[p].used \in Grants
    BY DEF Sound, Chains, Shapes, ShapedBy, Refreshing
<1>8. FreshlyPresented'
    BY <1>2, <1>7 DEF Orderly, FreshlyPresented, SuccessorsStay
<1> QED
    BY <1>3, <1>4, <1>6, <1>8 DEF Orderly

\* A rotation: the token it replaces is in no jar but that of its own browser, and no
\* other request presents it.
LEMMA RotateOrderly ==
    ASSUME Sound, Orderly, OneAtATime, NEW r \in Requests, RotateToken(r)
    PROVE  Orderly'
<1> DEFINE g == requests[r].used
           n == requests[r].next
<1>1. requests[r].pc = "rotate" /\ g \in Grants /\ n \in Grants /\ g # None /\ n # None
    BY NoneIsNoGrant DEF RotateToken, Sound, Chains, Shapes, ShapedBy, SigningIn, Refreshing
<1>2. /\ \A p \in Requests : /\ requests'[p].used = requests[p].used
                             /\ requests'[p].next = requests[p].next
                             /\ requests'[p].browser = requests[p].browser
      /\ \A p \in Requests \ {r} : requests'[p].pc = requests[p].pc
      /\ requests'[r].pc = "revoke_session"
    BY GotoMoves DEF RotateToken
<1>3. \A h \in Grants \ {g} : tokens'[h].replaced = tokens[h].replaced
  <2> SUFFICES ASSUME NEW h \in Grants \ {g}
               PROVE  tokens'[h].replaced = tokens[h].replaced
      OBVIOUS
  <2>1. tokens[h] \in [status : RowStatus, expired : BOOLEAN, replaced : BOOLEAN]
      BY RowsTyped DEF Sound
  <2>2. tokens'[h] = IF h = n THEN [tokens[h] EXCEPT !.status = "live"] ELSE tokens[h]
      BY <1>1 DEF RotateToken, Sound, TypeOK
  <2> QED
      BY <2>1, <2>2
<1>4. \A p \in Requests : requests[p].next # None => requests[p].next # g
    BY <1>1 DEF Sound, Chains, Private
<1>5. jar[requests[r].browser] = g /\ requests[r].browser \in Browsers
    BY <1>1 DEF Orderly, Presented, Sound, Chains, Shapes, ShapedBy
<1>6. \A b \in Browsers : jar[b] = g => b = requests[r].browser
    BY <1>1, <1>5 DEF Orderly, JarsApart
<1>7. jar' = jar /\ reused' = reused
    BY DEF RotateToken, history
<1>8. JarsApart' /\ Presented' /\ NoFalseReuse'
    BY <1>2, <1>7 DEF Orderly, JarsApart, Presented, NoFalseReuse
<1>9. DrawnIsLast'
    BY <1>2, <1>3, <1>4 DEF Orderly, DrawnIsLast, Sound, TypeOK, Request
<1>10. OldTokensLeave'
  <2> SUFFICES ASSUME NEW b \in Browsers, jar[b] # None, tokens'[jar[b]].replaced
               PROVE  Outgoing(b)'
      BY <1>7 DEF OldTokensLeave
  <2>1. CASE jar[b] = g
      BY <1>2, <1>6, <1>7, <2>1 DEF Outgoing
  <2>2. CASE jar[b] # g
    <3>1. tokens[jar[b]].replaced
        BY <1>3, <2>2 DEF Sound, TypeOK
    <3>2. Outgoing(b)
        BY <3>1 DEF Orderly, OldTokensLeave
    <3> QED
        BY <1>1, <1>2, <1>7, <3>2 DEF Outgoing
  <2> QED
      BY <2>1, <2>2
<1>11. FreshlyPresented'
  <2> SUFFICES ASSUME NEW p \in Requests, p # r, requests[p].pc \in {"lock_token", "rotate"}
               PROVE  ~tokens'[requests[p].used].replaced
      BY <1>2 DEF FreshlyPresented
  <2>1. requests[p].used \in Grants /\ requests[p].browser \in Browsers /\ requests[p].used # None
      BY NoneIsNoGrant DEF Sound, Chains, Shapes, ShapedBy, Refreshing
  <2>2. jar[requests[p].browser] = requests[p].used
      BY <2>1 DEF Orderly, Presented
  <2>3. requests[p].used # g
      BY <1>1, <1>6, <2>1, <2>2 DEF OneAtATime
  <2> QED
      BY <1>3, <2>1, <2>3 DEF Orderly, FreshlyPresented
<1> QED
    BY <1>8, <1>9, <1>10, <1>11 DEF Orderly

\* An answer: it replaces or clears what the browser sent.
LEMMA AnswerOrderly ==
    ASSUME Sound, Orderly, OneAtATime, NEW r \in Requests, Answer(r)
    PROVE  Orderly'
<1> DEFINE d == requests[r].browser
           n == requests[r].next
<1>1. requests[r].pc # "idle" /\ d \in Browsers /\ requests[r].pc \in Answering
    BY DEF Answer, Answering, Sound, Chains, Shapes, ShapedBy
<1>2. requests'[r] = Idle /\ \A p \in Requests \ {r} : requests'[p] = requests[p]
    BY DEF Answer, Sound, TypeOK
<1>3. tokens' = tokens /\ reused' = reused
    BY DEF Answer, tables, history
<1>4. requests[r].pc = "welcome" => n \in Grants /\ n # None
    BY NoneIsNoGrant DEF Sound, Chains, Shapes, ShapedBy
<1>5. /\ \A b \in Browsers \ {d} : jar'[b] = jar[b]
      /\ \/ requests[r].pc = "welcome" /\ jar'[d] = n
         \/ jar'[d] = None
         \/ requests[r].pc = "apology" /\ jar'[d] = jar[d]
    BY <1>1 DEF Answer, Answering, Sound, TypeOK
<1>6. requests[r].pc = "welcome" => \A b \in Browsers : jar[b] # n
    BY <1>4 DEF Sound, Chains, Private
<1>7. JarsApart'
    BY <1>1, <1>5, <1>6 DEF Orderly, JarsApart
<1>8. \A p \in Requests \ {r} : requests[p].pc # "idle" => requests[p].browser # d
    BY <1>1 DEF OneAtATime
<1>9. Presented'
  <2> SUFFICES ASSUME NEW p \in Requests, requests'[p].used # None
               PROVE  requests'[p].pc # "idle" /\ jar'[requests'[p].browser] = requests'[p].used
      BY DEF Presented
  <2>1. p # r /\ requests'[p] = requests[p]
      BY <1>2 DEF Idle
  <2>2. requests[p].pc # "idle" /\ jar[requests[p].browser] = requests[p].used
      BY <2>1 DEF Orderly, Presented
  <2>3. requests[p].browser \in Browsers \ {d}
      BY <1>8, <2>1, <2>2 DEF Sound, Chains, Shapes, ShapedBy
  <2> QED
      BY <1>5, <2>1, <2>2, <2>3
<1>10. DrawnIsLast'
    BY <1>2, <1>3 DEF Orderly, DrawnIsLast, Idle
<1>11. OldTokensLeave'
  <2> SUFFICES ASSUME NEW b \in Browsers, jar'[b] # None, tokens[jar'[b]].replaced
               PROVE  Outgoing(b)'
      BY <1>3 DEF OldTokensLeave
  <2>1. ~(requests[r].pc = "welcome" /\ b = d /\ jar'[b] = n)
      BY <1>4 DEF Orderly, DrawnIsLast
  <2>2. jar'[b] = jar[b] /\ (b = d => requests[r].pc = "apology")
      BY <1>5, <2>1
  <2>3. PICK p \in Requests :
            /\ requests[p].browser = b /\ requests[p].used = jar[b]
            /\ requests[p].pc \in {"revoke_session", "renew_session", "welcome", "farewell"}
      BY <2>2 DEF Orderly, OldTokensLeave, Outgoing
  <2>4. p # r
      BY <2>2, <2>3
  <2> QED
      BY <1>2, <2>2, <2>3, <2>4 DEF Outgoing
<1>12. FreshlyPresented'
    BY <1>2, <1>3 DEF Orderly, FreshlyPresented, Idle
<1>13. NoFalseReuse'
    BY <1>3 DEF Orderly, NoFalseReuse
<1> QED
    BY <1>7, <1>9, <1>10, <1>11, <1>12, <1>13 DEF Orderly

\* A new request: a jar that holds a rotated token belongs to a browser that is waiting
\* for an answer, which sends nothing else.
LEMMA BeginOrderly ==
    ASSUME Sound, Orderly, OneAtATime', NEW r \in Requests, NEW b \in Browsers, Begin(r, b)
    PROVE  Orderly'
<1>1. requests[r].pc = "idle" /\ UNCHANGED <<tokens, jar, reused>>
    BY DEF Begin, BeginCallback, BeginRefresh, BeginLogout, tables, history
<1>2. PICK q \in Request :
        /\ requests' = [requests EXCEPT ![r] = q]
        /\ q.pc # "idle" /\ q.browser = b
        /\ q.used # None => q.used = jar[b]
        /\ q.next # None => q.next \in Grants /\ Unused(q.next)
        /\ q.pc \in {"lock_token", "rotate"} => q.used = jar[b] /\ jar[b] # None
        /\ q.pc \notin {"revoke_session", "renew_session", "welcome", "farewell"}
  <2>1. jar[b] \in Grants \cup {None}
      BY DEF Sound, TypeOK
  <2>2. ASSUME NEW s \in AuthStates, BeginCallback(r, b, s)
        PROVE  \E q \in Request :
        /\ requests' = [requests EXCEPT ![r] = q]
        /\ q.pc # "idle" /\ q.browser = b
        /\ q.used # None => q.used = jar[b]
        /\ q.next # None => q.next \in Grants /\ Unused(q.next)
        /\ q.pc \in {"lock_token", "rotate"} => q.used = jar[b] /\ jar[b] # None
        /\ q.pc \notin {"revoke_session", "renew_session", "welcome", "farewell"}
    <3>1. PICK h \in Grants : /\ Unused(h)
                              /\ requests' = [requests EXCEPT ![r] =
                                     [Idle EXCEPT !.pc = "create_session", !.browser = b,
                                                  !.next = h, !.state = s]]
        BY <2>2 DEF BeginCallback
    <3>2. [Idle EXCEPT !.pc = "create_session", !.browser = b, !.next = h, !.state = s] \in Request
        BY DEF Idle, Request, SigningIn
    <3> QED
        BY <3>1, <3>2 DEF Idle
  <2>3. CASE BeginRefresh(r, b)
    <3>1. PICK h \in Grants, sent \in SessionCookies(jar[b]) :
              /\ Unused(h)
              /\ requests' = [requests EXCEPT ![r] =
                   [Idle EXCEPT !.pc = "lock_token", !.browser = b, !.used = jar[b],
                        !.session = sent, !.fresh = ~tokens[jar[b]].expired, !.next = h]]
        BY <2>3 DEF BeginRefresh
    <3>2. jar[b] # None /\ jar[b] \in Grants /\ sent \in BOOLEAN /\ tokens[jar[b]].expired \in BOOLEAN
        BY <2>1, <2>3, RowsTyped DEF BeginRefresh, SessionCookies, Sound
    <3>3. [Idle EXCEPT !.pc = "lock_token", !.browser = b, !.used = jar[b],
              !.session = sent, !.fresh = ~tokens[jar[b]].expired, !.next = h] \in Request
        BY <3>2 DEF Idle, Request, Refreshing
    <3> QED
        BY <3>1, <3>2, <3>3 DEF Idle
  <2>4. CASE BeginLogout(r, b)
    <3>1. PICK sent \in SessionCookies(jar[b]) :
              requests' = [requests EXCEPT ![r] =
                   [Idle EXCEPT !.pc = "end_session", !.browser = b, !.used = jar[b], !.session = sent]]
        BY <2>4 DEF BeginLogout
    <3>2. jar[b] # None /\ sent \in BOOLEAN
        BY <2>4 DEF BeginLogout, SessionCookies
    <3>3. [Idle EXCEPT !.pc = "end_session", !.browser = b, !.used = jar[b], !.session = sent] \in Request
        BY <2>1, <3>2 DEF Idle, Request, LoggingOut
    <3> QED
        BY <3>1, <3>2, <3>3 DEF Idle
  <2> QED
      BY <2>2, <2>3, <2>4 DEF Begin
<1>3. requests'[r] = q /\ \A p \in Requests \ {r} : requests'[p] = requests[p]
    BY <1>2 DEF Sound, TypeOK
<1>4. JarsApart' /\ NoFalseReuse'
    BY <1>1 DEF Orderly, JarsApart, NoFalseReuse
<1>5. Presented'
    BY <1>1, <1>2, <1>3 DEF Orderly, Presented
<1>6. q.next # None => ~tokens[q.next].replaced
    BY <1>2 DEF Unused, Sound, Chains, Rows
<1>7. DrawnIsLast'
    BY <1>1, <1>3, <1>6 DEF Orderly, DrawnIsLast
<1>8. ASSUME NEW c \in Browsers, jar[c] # None, tokens[jar[c]].replaced
      PROVE  \E p \in Requests \ {r} :
               /\ requests[p].browser = c /\ requests[p].used = jar[c]
               /\ requests[p].pc \in {"revoke_session", "renew_session", "welcome", "farewell"}
    BY <1>1, <1>8 DEF Orderly, OldTokensLeave, Outgoing
<1>9. OldTokensLeave'
    BY <1>1, <1>3, <1>8 DEF OldTokensLeave, Outgoing
<1>10. jar[b] # None => ~tokens[jar[b]].replaced
  <2> SUFFICES ASSUME jar[b] # None, tokens[jar[b]].replaced PROVE FALSE
      OBVIOUS
  <2>1. PICK p \in Requests \ {r} :
               /\ requests[p].browser = b
               /\ requests[p].pc \in {"revoke_session", "renew_session", "welcome", "farewell"}
      BY <1>8
  <2>2. requests'[p].pc # "idle" /\ requests'[p].browser = b
      BY <1>3, <2>1
  <2> QED
      BY <1>2, <1>3, <2>2 DEF OneAtATime
<1>11. FreshlyPresented'
    BY <1>1, <1>2, <1>3, <1>10 DEF Orderly, FreshlyPresented
<1> QED
    BY <1>4, <1>5, <1>7, <1>9, <1>11 DEF Orderly

\* The steps of a request at work.
LEMMA ProceedOrderly ==
    ASSUME Sound, Orderly, OneAtATime, NEW r \in Requests, Proceed(r)
    PROVE  Orderly'
<1>1. CASE LockToken(r) \/ RefuseToken(r) \/ RevokeOldSession(r) \/ RenewSession(r)
           \/ EndSession(r) \/ Fail(r) \/ IssueSession(r)
  <2>1. SuccessorsStay /\ UNCHANGED <<jar, reused>>
      BY <1>1 DEF SuccessorsStay, LockToken, RefuseToken, RevokeOldSession, RenewSession,
                  EndSession, Fail, IssueSession, tables, history
  <2> QED
      BY <1>1, <2>1, ProceedsOrderly
      DEF LockToken, RefuseToken, RevokeOldSession, RenewSession, EndSession, Fail, IssueSession,
          AnswerToFailure, SigningIn, Refreshing, LoggingOut
<1>2. CASE IssueToken(r) \/ EndToken(r)
  <2>1. SuccessorsStay /\ UNCHANGED <<jar, reused>>
      BY <1>2, RowsTyped DEF SuccessorsStay, IssueToken, EndToken, Revoked, Sound, TypeOK, history
  <2> QED
      BY <1>2, <2>1, ProceedsOrderly DEF IssueToken, EndToken
<1>3. ~DetectReuse(r)
    BY DEF DetectReuse, Orderly, FreshlyPresented
<1> QED
    BY <1>1, <1>2, <1>3, RotateOrderly, AnswerOrderly DEF Proceed

LEMMA OrderlyInductive ==
    Sound /\ Orderly /\ OneAtATime /\ OneAtATime' /\ [Next]_vars => Orderly'
<1> SUFFICES ASSUME Sound, Orderly, OneAtATime, OneAtATime', [Next]_vars PROVE Orderly'
    OBVIOUS
<1>1. ASSUME NEW r \in Requests, Lose(r)
      PROVE  FALSE
    BY <1>1 DEF Lose, OneAtATime
<1>2. ASSUME NEW s \in AuthStates, LoginURL(s) \/ ExpireAuthState(s)
      PROVE  Orderly'
    BY <1>2, StaysOrderly DEF SuccessorsStay, LoginURL, ExpireAuthState, history
<1>3. ASSUME NEW g \in Grants, ExpireSession(g)
      PROVE  Orderly'
    BY <1>3, StaysOrderly DEF SuccessorsStay, ExpireSession, history
<1>4. ASSUME NEW g \in Grants, ExpireToken(g)
      PROVE  Orderly'
    BY <1>4, StaysOrderly DEF SuccessorsStay, ExpireToken, history, Sound, TypeOK
<1>5. CASE CleanupExpired
    BY <1>5, StaysOrderly, RowsTyped DEF SuccessorsStay, CleanupExpired, Purged, history, Sound
<1>6. CASE UNCHANGED vars
    BY <1>6, StaysOrderly DEF SuccessorsStay, vars, tables, history
<1> QED
    BY <1>1, <1>2, <1>3, <1>4, <1>5, <1>6, BeginOrderly, ProceedOrderly DEF Next, Expire

\* As long as no browser sends two requests at once and no answer is lost, presenting a
\* refresh token never looks like theft: between RotateRefreshToken and the answer that
\* overwrites the cookies, the rotated token is in the hands of nobody who could send it,
\* however many browsers refresh, log in and log out at the same time.
THEOREM NoFalseAlarm == Spec /\ []OneAtATime => []NoFalseReuse
<1>1. Init => Orderly
    BY InitOrderly
<1>2. Orderly => NoFalseReuse
    BY DEF Orderly
<1> QED
    BY <1>1, <1>2, SoundAlways, OrderlyInductive, PTL DEF Spec

\* The system the run sessions_alone checks is of this kind.
THEOREM NoFalseAlarmAlone ==
    (\A r, s \in Requests : r = s) /\ MaxLosses = 0 => (Spec => []NoFalseReuse)
<1> SUFFICES ASSUME \A r, s \in Requests : r = s, MaxLosses = 0
             PROVE  Spec => []NoFalseReuse
    OBVIOUS
<1>1. Init => OneAtATime
    BY DEF Init, OneAtATime
<1>2. OneAtATime /\ [Next]_vars => OneAtATime'
  <2> SUFFICES ASSUME losses = 0, [Next]_vars PROVE losses' = 0
      BY DEF OneAtATime
  <2>1. \A r \in Requests, b \in Browsers : Begin(r, b) => losses' = losses
      BY DEF Begin, BeginCallback, BeginRefresh, BeginLogout, history
  <2>2. ASSUME NEW r \in Requests, Proceed(r)
        PROVE  losses' = losses
    <3>1. CASE IssueSession(r) \/ IssueToken(r) \/ LockToken(r) \/ RefuseToken(r)
               \/ DetectReuse(r) \/ RotateToken(r)
        BY <3>1 DEF IssueSession, IssueToken, LockToken, RefuseToken, DetectReuse, RotateToken,
                    history
    <3>2. CASE RevokeOldSession(r) \/ RenewSession(r) \/ EndSession(r) \/ EndToken(r)
               \/ Fail(r) \/ Answer(r)
        BY <3>2 DEF RevokeOldSession, RenewSession, EndSession, EndToken, Fail, Answer, history
    <3> QED
        BY <2>2, <3>1, <3>2 DEF Proceed
  <2>3. \A r \in Requests : ~Lose(r)
      BY DEF Lose
  <2>4. (\E s \in AuthStates : LoginURL(s)) \/ Expire \/ CleanupExpired => losses' = losses
      BY DEF LoginURL, Expire, ExpireAuthState, ExpireSession, ExpireToken, CleanupExpired, history
  <2> QED
      BY <2>1, <2>2, <2>3, <2>4 DEF Next, vars, history
<1> QED
    BY <1>1, <1>2, NoFalseAlarm, PTL DEF Spec

===============================================================================
