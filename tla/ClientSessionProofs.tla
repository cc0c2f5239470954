------------------------ MODULE ClientSessionProofs ------------------------
(***************************************************************************)
(* Theorems about ClientSession for any number of accounts, calls and      *)
(* sessions, expiries, reloads and faults.  OneIdentity needs only that an *)
(* answer names an account and that the first refresh runs alone.  The     *)
(* other two follow calls across time: which refresh cookie each carries,  *)
(* and which calls there can be when nothing was under way at the last     *)
(* sign-in or sign-out.  That every call ends follows from the stages a    *)
(* call passes, each of which it leaves once what is due is done.          *)
(***************************************************************************)
EXTENDS ClientSession, FiniteSetTheorems, TLAPS

----------------------------------------------------------------------------
(* The inductive invariant *)

\* Only the call c is under way.
Alone(c) == \A d \in Slots \ {c} : calls[d].kind = "free"

\* The browser's cookie is of a session that was not revoked.
CookieStands == cookie \in DOMAIN owner \ revoked

\* No refresh finds the session s any more.
Dead(s) == s \in {NoSession} \cup revoked \cup ended

\* What one call says of itself.
CallSound(k) ==
    /\ k.cookie \in DOMAIN owner \cup {NoSession}
    /\ k.at = "found" => k.kind \in {"boot", "refresh"} /\ k.cookie \in DOMAIN owner
    /\ k.at = "waiting" => k.kind \in {"login", "get"}
    /\ k.kind \in {"boot", "refresh", "login"} /\ k.at = "ok" => k.token.who \in Accounts
    /\ k.kind \in {"boot", "refresh", "logout"} => k.set \in {Keep, NoSession}
    /\ k.kind \in {"boot", "refresh"} /\ k.at \in {"sent", "found", "ok"} => k.set = Keep
    /\ k.kind = "login" => k.who \in Accounts
    /\ k.kind = "login" /\ (k.at \in {"denied", "waiting"} \/ k.retried) => ~k.right

\* A login answered with a session: nobody else knows it yet.
LoginSound(c) ==
    calls[c].kind = "login" =>
      /\ \A d \in Slots : calls[d].kind = "login" => d = c
      /\ calls[c].at = "ok" =>
           /\ calls[c].set \in DOMAIN owner \ revoked
           /\ owner[calls[c].set] = calls[c].token.who
           /\ cookie # calls[c].set
           /\ \A d \in Slots : calls[d].cookie # calls[c].set

\* The first refresh runs before anything else does.
BootAlone(c) ==
    calls[c].kind = "boot" =>
      /\ Alone(c) /\ loading /\ user = NoAccount
      /\ calls[c].cookie = cookie
      /\ calls[c].at \in {"found", "ok"} => CookieStands
      /\ calls[c].at = "ok" => calls[c].token.who = owner[cookie]

\* After a logout with no call under way: until it is answered it is alone, and
\* then its session is dead, for every refresh too.
LeftForGood ==
    signedOut /\ ~stray =>
      /\ user = NoAccount
      /\ \A c \in Slots : calls[c].kind \in {"boot", "refresh"} =>
           calls[c].at \in {"sent", "denied"} /\ Dead(calls[c].cookie)
      /\ \/ Dead(cookie)
         \/ \E c \in Slots :
              /\ calls[c].kind = "logout" /\ calls[c].at = "sent"
              /\ calls[c].cookie = cookie

\* A logout that counts is alone, as are a login that may succeed and nobody's
\* requests.
CallsInOrder ==
    ~stray =>
      /\ \A c \in Slots : calls[c].kind = "logout" => Alone(c) /\ user = NoAccount
      /\ \A c \in Slots : calls[c].kind = "get" => user # NoAccount
      /\ \A c \in Slots : calls[c].kind = "login" /\ (Refreshing \/ user # NoAccount) =>
           calls[c].retried

\* While no session ends of itself, a refresh carries the browser's cookie, and
\* it is that of the user.
RefreshInOrder(c) ==
    calls[c].kind = "refresh" =>
      /\ calls[c].cookie = cookie
      /\ calls[c].at \in {"found", "ok"} => CookieStands
      /\ calls[c].at = "ok" => calls[c].token.who = owner[cookie]
      /\ calls[c].at = "denied" => user = NoAccount

SessionInOrder ==
    ~stray /\ ended = {} =>
      /\ user # NoAccount => CookieStands /\ owner[cookie] = user
      /\ \A c \in Slots : RefreshInOrder(c)

SessionInv ==
    /\ TypeOK
    /\ OneIdentity
    /\ \A c \in Slots : CallSound(calls[c])
    /\ \A c \in Slots : LoginSound(c)
    /\ \A c \in Slots : BootAlone(c)
    /\ LeftForGood
    /\ CallsInOrder
    /\ SessionInOrder

----------------------------------------------------------------------------
(* Facts about the state *)

\* The sessions stored are numbered without a gap, and the next is new.
LEMMA Owners ==
    ASSUME SessionAssumption, TypeOK
    PROVE  /\ DOMAIN owner \subseteq Sessions
           /\ \A s \in DOMAIN owner : owner[s] \in Accounts
           /\ NoSession \notin DOMAIN owner /\ Keep \notin DOMAIN owner
           /\ Cardinality(DOMAIN owner) \in Nat
           /\ DOMAIN owner = 1 .. Cardinality(DOMAIN owner)
<1>1. PICK n \in 0 .. MaxSessions : owner \in [1 .. n -> Accounts]
    BY DEF TypeOK
<1>2. DOMAIN owner = 1 .. n /\ n \in Nat /\ n <= MaxSessions /\ MaxSessions \in Nat
    BY <1>1 DEF SessionAssumption
<1>3. Cardinality(DOMAIN owner) = n
    BY <1>2, FS_Interval
<1> QED
    BY <1>1, <1>2, <1>3 DEF Sessions, NoSession, Keep

\* What a call says when it leaves.
LEMMA SentFields ==
    ASSUME SessionAssumption, TypeOK,
           NEW kind \in {"boot", "refresh", "login", "logout", "get"}
    PROVE  /\ Sent(kind) \in Call
           /\ Sent(kind).kind = kind /\ Sent(kind).at = "sent"
           /\ Sent(kind).cookie = CookieOf(kind, cookie)
           /\ Sent(kind).right = TRUE /\ Sent(kind).retried = FALSE
           /\ Sent(kind).set = Keep
           /\ kind # "login" => CallSound(Sent(kind))
<1>1. /\ CookieOf(kind, cookie) \in Sessions \cup {NoSession}
      /\ CookieOf(kind, cookie) \in DOMAIN owner \cup {NoSession}
    BY Owners DEF TypeOK, CookieOf
<1>2. TokenOf(kind, stored) \in Token \cup {NoToken}
    BY DEF TypeOK, TokenOf
<1>3. /\ Sent(kind).kind = kind /\ Sent(kind).at = "sent"
      /\ Sent(kind).cookie = CookieOf(kind, cookie)
      /\ Sent(kind).token = TokenOf(kind, stored)
      /\ Sent(kind).right = TRUE /\ Sent(kind).retried = FALSE
      /\ Sent(kind).set = Keep
    BY DEF Sent, Free
<1>4. Sent(kind) \in Call
    BY <1>1, <1>2 DEF Sent, Free, Call
<1> QED
    BY <1>1, <1>3, <1>4 DEF CallSound

LEMMA FreeFields ==
    /\ Free \in Call /\ Free.kind = "free" /\ Free.at = "sent"
    /\ Free.cookie = NoSession /\ ~Free.retried /\ Free.set = Keep
    /\ CallSound(Free)
    BY DEF Free, Call, CallSound

LEMMA WhoRuns ==
    ASSUME SessionAssumption
    PROVE  /\ RefreshCall \in Slots /\ 1 \in Slots /\ RefreshCall # 1
           /\ Running = {} <=> \A d \in Slots : calls[d].kind = "free"
           /\ \A c \in Slots : Running = {c} => Alone(c)
           /\ Refreshing => Running # {}
    BY DEF SessionAssumption, RefreshCall, Slots, Running, Alone, Refreshing

\* A token answered to a call is the account's.
LEMMA FreshTokens ==
    ASSUME NEW a \in Accounts
    PROVE  Fresh(a) \in Token /\ Fresh(a).who = a
    BY DEF Fresh, Token

----------------------------------------------------------------------------
(* Steps *)

\* The state of one call changes and nothing else.
LEMMA CallChanges ==
    ASSUME SessionAssumption, SessionInv, NEW c \in Slots, NEW rec \in Call,
           calls' = [calls EXCEPT ![c] = rec],
           UNCHANGED <<server, tab, history, bounds>>,
           CallSound(rec),
           calls[c].kind # "logout",
           rec.kind \in {calls[c].kind, "free", "get"},
           rec.kind = "get" => calls[c].kind = "get" \/ user # NoAccount,
           rec.kind = "login" => rec.at # "ok" /\ (calls[c].retried => rec.retried),
           rec.kind \in {"boot", "refresh"} =>
             /\ rec.cookie = calls[c].cookie
             /\ rec.at \in {"found", "ok", "denied"}
             /\ rec.at \in {"found", "ok"} => calls[c].at = "found" \/ Live(rec.cookie)
             /\ rec.at = "ok" => rec.token.who = owner[rec.cookie]
             /\ rec.at = "denied" => ~Live(rec.cookie),
           rec.cookie \in {calls[c].cookie, NoSession}
    PROVE  SessionInv'
<1>1. /\ \A d \in Slots : calls'[d] = IF d = c THEN rec ELSE calls[d]
      /\ calls' \in [Slots -> Call]
    BY DEF SessionInv, TypeOK
<1>2. /\ owner' = owner /\ revoked' = revoked /\ ended' = ended
      /\ cookie' = cookie /\ stored' = stored /\ user' = user /\ loading' = loading
      /\ socket' = socket /\ signedOut' = signedOut /\ stray' = stray
      /\ expiries' = expiries /\ reloads' = reloads /\ faults' = faults
    BY DEF server, tab, history, bounds
<1>3. TypeOK'
    BY <1>1, <1>2 DEF SessionInv, TypeOK
<1>4. OneIdentity'
    BY <1>2 DEF SessionInv, OneIdentity
<1>5. (\A d \in Slots : CallSound(calls[d]))'
    BY <1>1, <1>2 DEF SessionInv, CallSound
<1>6. (\A d \in Slots : LoginSound(d))'
    BY <1>1, <1>2, Owners DEF SessionInv, LoginSound
<1>7. (\A d \in Slots : BootAlone(d))'
    BY <1>1, <1>2 DEF SessionInv, BootAlone, Alone, CookieStands, Live
<1>8. LeftForGood'
    <2> SUFFICES ASSUME signedOut, ~stray
                 PROVE  LeftForGood'
        BY <1>2 DEF LeftForGood
    <2>1. /\ user = NoAccount
          /\ \A d \in Slots : calls[d].kind \in {"boot", "refresh"} =>
               calls[d].at \in {"sent", "denied"} /\ Dead(calls[d].cookie)
        BY DEF SessionInv, LeftForGood
    <2>2. \A d \in Slots : calls'[d].kind \in {"boot", "refresh"} =>
               calls'[d].at \in {"sent", "denied"} /\ Dead(calls'[d].cookie)
        BY <1>1, <2>1, Owners DEF SessionInv, Dead, Live
    <2>3. CASE Dead(cookie)
        BY <1>2, <2>1, <2>2, <2>3 DEF LeftForGood, Dead
    <2>4. ASSUME NEW d \in Slots, calls[d].kind = "logout", calls[d].at = "sent",
                 calls[d].cookie = cookie
          PROVE  calls'[d] = calls[d]
        BY <1>1, <2>4
    <2> QED
        BY <1>2, <2>1, <2>2, <2>3, <2>4 DEF SessionInv, LeftForGood, Dead
<1>9. Refreshing' => Refreshing \/ user # NoAccount
    BY <1>1, WhoRuns DEF Refreshing
<1>10. CallsInOrder'
    BY <1>1, <1>2, <1>9 DEF SessionInv, CallsInOrder, Alone
<1>11. SessionInOrder'
    BY <1>1, <1>2 DEF SessionInv, SessionInOrder, RefreshInOrder, CookieStands, Live
<1> QED
    BY <1>3, <1>4, <1>5, <1>6, <1>7, <1>8, <1>10, <1>11 DEF SessionInv

\* Fields of a call that is under way.
LEMMA CallFields ==
    ASSUME SessionInv, NEW c \in Slots
    PROVE  calls[c] \in Call /\ CallSound(calls[c])
    BY DEF SessionInv, TypeOK

LEMMA FindSessionStep ==
    ASSUME SessionAssumption, SessionInv, NEW c \in Slots, FindSession(c)
    PROVE  SessionInv'
<1> DEFINE k == calls[c]
           clear == IF k.cookie = NoSession THEN Keep ELSE NoSession
           found == [k EXCEPT !.at = "found"]
           denied == [k EXCEPT !.at = "denied", !.set = clear]
<1>1. k \in Call /\ CallSound(k) /\ k.kind \in {"boot", "refresh"} /\ k.at = "sent"
    BY CallFields DEF FindSession
<1>2. UNCHANGED <<server, tab, history, bounds>>
    BY DEF FindSession, Answer
<1>3. CASE Live(k.cookie)
    <2>1. calls' = [calls EXCEPT ![c] = found]
        BY <1>3 DEF FindSession, Found, Answer
    <2>2. /\ found \in Call /\ found.kind = k.kind /\ found.at = "found"
          /\ found.cookie = k.cookie /\ found.set = k.set
        BY <1>1 DEF Call
    <2>3. CallSound(found)
        BY <1>1, <1>3, <2>2 DEF CallSound, Live
    <2> HIDE DEF found
    <2> QED
        BY <1>1, <1>2, <1>3, <2>1, <2>2, <2>3, CallChanges
<1>4. CASE ~Live(k.cookie)
    <2>1. calls' = [calls EXCEPT ![c] = denied]
        BY <1>4 DEF FindSession, Found, Answer
    <2>2. /\ denied \in Call /\ denied.kind = k.kind /\ denied.at = "denied"
          /\ denied.cookie = k.cookie /\ denied.set \in {Keep, NoSession}
        BY <1>1 DEF Call
    <2>3. CallSound(denied)
        BY <1>1, <2>2 DEF CallSound
    <2> HIDE DEF denied
    <2> QED
        BY <1>1, <1>2, <1>4, <2>1, <2>2, <2>3, CallChanges
<1> QED
    BY <1>3, <1>4

LEMMA IssueTokenStep ==
    ASSUME SessionAssumption, SessionInv, NEW c \in Slots, IssueToken(c)
    PROVE  SessionInv'
<1> DEFINE k == calls[c]
           rec == [k EXCEPT !.at = "ok", !.token = Fresh(owner[k.cookie])]
<1>1. k \in Call /\ CallSound(k) /\ k.at = "found"
    BY CallFields DEF IssueToken
<1>2. UNCHANGED <<server, tab, history, bounds>> /\ calls' = [calls EXCEPT ![c] = rec]
    BY DEF IssueToken, Answer
<1>3. k.kind \in {"boot", "refresh"} /\ k.set = Keep
    BY <1>1 DEF CallSound
<1>4. k.cookie \in DOMAIN owner /\ owner[k.cookie] \in Accounts
    BY <1>1, Owners DEF CallSound, SessionInv
<1>5. Fresh(owner[k.cookie]) \in Token /\ Fresh(owner[k.cookie]).who = owner[k.cookie]
    BY <1>4, FreshTokens
<1>6. /\ rec \in Call /\ rec.kind = k.kind /\ rec.at = "ok" /\ rec.cookie = k.cookie
      /\ rec.set = k.set /\ rec.token.who = owner[k.cookie]
    BY <1>1, <1>5 DEF Call
<1>7. CallSound(rec)
    BY <1>1, <1>3, <1>4, <1>6 DEF CallSound
<1> HIDE DEF rec
<1> QED
    BY <1>1, <1>2, <1>3, <1>6, <1>7, CallChanges

LEMMA RequireAuthStep ==
    ASSUME SessionAssumption, SessionInv, NEW c \in Slots, RequireAuth(c)
    PROVE  SessionInv'
<1> DEFINE k == calls[c]
           rec == [k EXCEPT !.at = IF k.token.live THEN "ok" ELSE "denied"]
<1>1. k \in Call /\ CallSound(k) /\ k.kind = "get"
    BY CallFields DEF RequireAuth
<1>2. UNCHANGED <<server, tab, history, bounds>> /\ calls' = [calls EXCEPT ![c] = rec]
    BY DEF RequireAuth, Answer
<1>3. /\ rec \in Call /\ rec.kind = "get" /\ rec.at \in {"ok", "denied"}
      /\ rec.cookie = k.cookie
    BY <1>1 DEF Call
<1>4. CallSound(rec)
    BY <1>1, <1>3 DEF CallSound
<1> HIDE DEF rec
<1> QED
    BY <1>1, <1>2, <1>3, <1>4, CallChanges

LEMMA EndsStep ==
    ASSUME SessionAssumption, SessionInv, NEW c \in Slots, Ends(c)
    PROVE  SessionInv'
<1>1. UNCHANGED <<server, tab, history, bounds>> /\ calls' = [calls EXCEPT ![c] = Free]
    BY DEF Ends
<1>2. calls[c].kind \in {"login", "get"}
    BY DEF Ends
<1> QED
    BY <1>1, <1>2, FreeFields, CallChanges

LEMMA GetStep ==
    ASSUME SessionAssumption, SessionInv, NEW c \in Slots, Get(c)
    PROVE  SessionInv'
<1> DEFINE rec == Sent("get")
<1>1. /\ UNCHANGED <<server, tab, history, bounds>> /\ calls' = [calls EXCEPT ![c] = rec]
      /\ calls[c].kind = "free" /\ user # NoAccount
    BY DEF Get, NextSlot
<1>2. /\ rec \in Call /\ CallSound(rec) /\ rec.kind = "get" /\ rec.cookie = NoSession
    BY SentFields DEF SessionInv, CookieOf
<1> HIDE DEF rec
<1> QED
    BY <1>1, <1>2, CallChanges

LEMMA LoginStep ==
    ASSUME SessionAssumption, SessionInv, NEW c \in Slots, Login(c)
    PROVE  SessionInv'
<1> DEFINE k == calls[c]
           s == Cardinality(DOMAIN owner) + 1
           denied == [k EXCEPT !.at = "denied"]
           ok == [k EXCEPT !.at = "ok", !.set = s, !.token = Fresh(k.who)]
<1>1. k \in Call /\ CallSound(k) /\ k.kind = "login" /\ k.at = "sent"
    BY CallFields DEF Login
<1>2. UNCHANGED <<revoked, ended, tab, history, bounds>>
    BY DEF Login, Answer
<1>3. CASE ~k.right
    <2>1. calls' = [calls EXCEPT ![c] = denied] /\ UNCHANGED server
        BY <1>2, <1>3 DEF Login, Answer, server
    <2>2. /\ denied \in Call /\ denied.kind = "login" /\ denied.at = "denied"
          /\ denied.cookie = k.cookie /\ denied.who = k.who /\ denied.right = k.right
          /\ denied.retried = k.retried
        BY <1>1 DEF Call
    <2>3. CallSound(denied)
        BY <1>1, <1>3, <2>2 DEF CallSound
    <2> HIDE DEF denied
    <2> QED
        BY <1>1, <1>2, <2>1, <2>2, <2>3, CallChanges
<1>4. CASE k.right
    <2>1. /\ s \in Sessions /\ calls' = [calls EXCEPT ![c] = ok]
          /\ owner' = [t \in 1 .. s |-> IF t = s THEN k.who ELSE owner[t]]
        BY <1>4 DEF Login, Answer
    <2>2. /\ s \notin DOMAIN owner /\ DOMAIN owner' = DOMAIN owner \cup {s}
          /\ s # NoSession /\ s # Keep
          /\ owner'[s] = k.who /\ \A t \in DOMAIN owner : owner'[t] = owner[t]
        BY <2>1, Owners DEF SessionInv, NoSession, Keep
    <2>3. owner' \in [1 .. s -> Accounts] /\ s \in 0 .. MaxSessions
        BY <1>1, <2>1, <2>2, Owners DEF SessionInv, CallSound, Sessions
    <2>4. Fresh(k.who) \in Token /\ Fresh(k.who).who = k.who /\ k.who \in Accounts
        BY <1>1, FreshTokens DEF CallSound
    <2>5. /\ ok \in Call /\ ok.kind = "login" /\ ok.at = "ok" /\ ok.cookie = k.cookie
          /\ ok.who = k.who /\ ok.right = k.right /\ ok.retried = k.retried
          /\ ok.set = s /\ ok.token.who = k.who
        BY <1>1, <2>1, <2>4 DEF Call
    <2>6. /\ \A d \in Slots : calls'[d] = IF d = c THEN ok ELSE calls[d]
          /\ calls' \in [Slots -> Call]
        BY <2>1, <2>5 DEF SessionInv, TypeOK
    <2>7. /\ revoked' = revoked /\ ended' = ended
          /\ cookie' = cookie /\ stored' = stored /\ user' = user /\ loading' = loading
          /\ socket' = socket /\ signedOut' = signedOut /\ stray' = stray
          /\ expiries' = expiries /\ reloads' = reloads /\ faults' = faults
        BY <1>2 DEF tab, history, bounds
    <2> HIDE DEF s, ok
    <2>8. TypeOK'
        BY <1>1, <2>2, <2>3, <2>5, <2>6, <2>7 DEF SessionInv, TypeOK
    <2>9. OneIdentity'
        BY <2>7 DEF SessionInv, OneIdentity
    <2>10. (\A d \in Slots : CallSound(calls[d]))'
        BY <1>1, <1>4, <2>2, <2>4, <2>5, <2>6 DEF SessionInv, CallSound
    <2>11. (\A d \in Slots : LoginSound(d))'
        <3>1. \A d \in Slots : calls[d].cookie # s
            BY <2>2 DEF SessionInv, CallSound
        <3>2. cookie # s /\ s \notin revoked
            BY <2>2 DEF SessionInv, TypeOK
        <3> QED
            BY <1>1, <2>2, <2>5, <2>6, <2>7, <3>1, <3>2 DEF SessionInv, LoginSound
    <2>12. (\A d \in Slots : BootAlone(d))'
        BY <1>1, <2>5, <2>6 DEF SessionInv, BootAlone, Alone
    <2>13. LeftForGood'
        BY <1>1, <2>5, <2>6, <2>7 DEF SessionInv, LeftForGood, CallsInOrder, Alone, Dead
    <2>14. Refreshing' => Refreshing
        BY <1>1, <2>6, WhoRuns DEF Refreshing
    <2>15. CallsInOrder'
        BY <1>1, <2>5, <2>6, <2>7, <2>14 DEF SessionInv, CallsInOrder, Alone
    <2>16. SessionInOrder'
        BY <1>1, <2>2, <2>5, <2>6, <2>7
        DEF SessionInv, SessionInOrder, RefreshInOrder, CookieStands
    <2> QED
        BY <2>8, <2>9, <2>10, <2>11, <2>12, <2>13, <2>15, <2>16 DEF SessionInv
<1> QED
    BY <1>3, <1>4

LEMMA LogoutStep ==
    ASSUME SessionAssumption, SessionInv, NEW c \in Slots, Logout(c)
    PROVE  SessionInv'
<1> DEFINE k == calls[c]
           rec == [k EXCEPT !.at = "ok", !.set = NoSession]
<1>1. k \in Call /\ CallSound(k) /\ k.kind = "logout" /\ k.at = "sent"
    BY CallFields DEF Logout
<1>2. /\ calls' = [calls EXCEPT ![c] = rec]
      /\ revoked' = revoked \cup ({k.cookie} \ {NoSession})
    BY DEF Logout, Answer, RevokedBy
<1>3. /\ rec \in Call /\ rec.kind = "logout" /\ rec.at = "ok" /\ rec.cookie = k.cookie
      /\ rec.set = NoSession
    BY <1>1 DEF Call
<1>4. /\ \A d \in Slots : calls'[d] = IF d = c THEN rec ELSE calls[d]
      /\ calls' \in [Slots -> Call]
    BY <1>2, <1>3 DEF SessionInv, TypeOK
<1>5. /\ owner' = owner /\ ended' = ended
      /\ cookie' = cookie /\ stored' = stored /\ user' = user /\ loading' = loading
      /\ socket' = socket /\ signedOut' = signedOut /\ stray' = stray
      /\ expiries' = expiries /\ reloads' = reloads /\ faults' = faults
    BY DEF Logout, Answer, tab, history, bounds
<1> HIDE DEF rec
<1>6. revoked' \subseteq DOMAIN owner
    BY <1>1, <1>2 DEF SessionInv, TypeOK, CallSound
<1>7. TypeOK'
    BY <1>1, <1>3, <1>4, <1>5, <1>6 DEF SessionInv, TypeOK
<1>8. OneIdentity'
    BY <1>5 DEF SessionInv, OneIdentity
<1>9. (\A d \in Slots : CallSound(calls[d]))'
    BY <1>1, <1>3, <1>4, <1>5 DEF SessionInv, CallSound
<1>10. (\A d \in Slots : LoginSound(d))'
    BY <1>1, <1>2, <1>3, <1>4, <1>5 DEF SessionInv, LoginSound
<1>11. (\A d \in Slots : BootAlone(d))'
    BY <1>1, <1>3, <1>4 DEF SessionInv, BootAlone, Alone
<1>12. LeftForGood'
    BY <1>1, <1>2, <1>3, <1>4, <1>5 DEF SessionInv, LeftForGood, CallsInOrder, Alone, Dead
<1>13. Refreshing' => Refreshing
    BY <1>1, <1>4, WhoRuns DEF Refreshing
<1>14. CallsInOrder'
    BY <1>1, <1>3, <1>4, <1>5, <1>13 DEF SessionInv, CallsInOrder, Alone
<1>15. ~stray => user = NoAccount /\ \A d \in Slots : calls[d].kind # "refresh"
    BY <1>1 DEF SessionInv, CallsInOrder, Alone
<1>16. SessionInOrder'
    BY <1>3, <1>4, <1>5, <1>1, <1>15 DEF SessionInOrder, RefreshInOrder
<1> QED
    BY <1>7, <1>8, <1>9, <1>10, <1>11, <1>12, <1>14, <1>16 DEF SessionInv

\* A first 401 joins the refresh that runs or starts one with the cookie there is.
LEMMA DeniedOnceStep ==
    ASSUME SessionAssumption, SessionInv, NEW c \in Slots, DeniedOnce(c)
    PROVE  SessionInv'
<1> DEFINE k == calls[c]
           wait == [k EXCEPT !.at = "waiting", !.retried = TRUE]
           ref == Sent("refresh")
<1>1. /\ k \in Call /\ CallSound(k) /\ k.kind \in {"login", "get"} /\ k.at = "denied"
      /\ UNCHANGED <<server, tab, history, bounds>>
    BY CallFields DEF DeniedOnce
<1>2. /\ wait \in Call /\ wait.kind = k.kind /\ wait.at = "waiting"
      /\ wait.cookie = k.cookie /\ wait.right = k.right /\ wait.retried = TRUE
      /\ wait.who = k.who /\ wait.set = k.set
    BY <1>1 DEF Call
<1>3. CallSound(wait)
    BY <1>1, <1>2 DEF CallSound
<1>4. [calls EXCEPT ![c].at = "waiting", ![c].retried = TRUE] = [calls EXCEPT ![c] = wait]
    BY <1>1 DEF SessionInv, TypeOK
<1>5. CASE Refreshing
    <2>1. calls' = [calls EXCEPT ![c] = wait]
        BY <1>4, <1>5 DEF DeniedOnce
    <2> HIDE DEF wait
    <2> QED
        BY <1>1, <1>2, <1>3, <2>1, CallChanges
<1>6. CASE ~Refreshing
    <2>1. calls' = [[calls EXCEPT ![c] = wait] EXCEPT ![RefreshCall] = ref]
        BY <1>4, <1>6 DEF DeniedOnce
    <2>2. /\ ref \in Call /\ CallSound(ref) /\ ref.kind = "refresh" /\ ref.at = "sent"
          /\ ref.cookie = cookie
        BY SentFields DEF SessionInv, CookieOf
    <2>3. c # RefreshCall /\ RefreshCall \in Slots /\ calls[RefreshCall].kind = "free"
        BY <1>1, <1>6, WhoRuns DEF Refreshing
    <2> HIDE DEF wait, ref
    <2>4. /\ \A d \in Slots : calls'[d] = IF d = c THEN wait
                                        ELSE IF d = RefreshCall THEN ref ELSE calls[d]
          /\ calls' \in [Slots -> Call]
        BY <1>2, <2>1, <2>2, <2>3 DEF SessionInv, TypeOK
    <2>5. /\ owner' = owner /\ revoked' = revoked /\ ended' = ended
          /\ cookie' = cookie /\ stored' = stored /\ user' = user /\ loading' = loading
          /\ socket' = socket /\ signedOut' = signedOut /\ stray' = stray
          /\ expiries' = expiries /\ reloads' = reloads /\ faults' = faults
        BY <1>1 DEF server, tab, history, bounds
    <2>6. TypeOK'
        BY <1>1, <1>2, <2>4, <2>5, SMTT(30) DEF SessionInv, TypeOK
    <2>7. OneIdentity'
        BY <2>5 DEF SessionInv, OneIdentity
    <2>8. (\A d \in Slots : CallSound(calls[d]))'
        BY <1>3, <2>2, <2>4, <2>5 DEF SessionInv, CallSound
    <2>9. (\A d \in Slots : LoginSound(d))'
        BY <1>1, <1>2, <2>2, <2>4, <2>5 DEF SessionInv, LoginSound
    <2>10. (\A d \in Slots : BootAlone(d))'
        BY <1>1, <1>2, <2>2, <2>4 DEF SessionInv, BootAlone, Alone
    <2>11. signedOut /\ ~stray => Dead(cookie)
        BY <1>1 DEF SessionInv, LeftForGood, CallsInOrder, Alone
    <2>12. LeftForGood'
        BY <1>1, <1>2, <2>2, <2>4, <2>5, <2>11 DEF SessionInv, LeftForGood, Dead
    <2>13. ~stray => \A d \in Slots \ {c} : calls[d].kind = "login" => calls[d].retried
        BY <1>1 DEF SessionInv, CallsInOrder, LoginSound
    <2>14. CallsInOrder'
        BY <1>1, <1>2, <2>2, <2>4, <2>5, <2>13 DEF SessionInv, CallsInOrder, Alone
    <2>15. SessionInOrder'
        BY <1>1, <1>2, <2>2, <2>4, <2>5
        DEF SessionInv, SessionInOrder, RefreshInOrder, CookieStands
    <2> QED
        BY <2>6, <2>7, <2>8, <2>9, <2>10, <2>12, <2>14, <2>15 DEF SessionInv
<1> QED
    BY <1>5, <1>6

\* The token of an answer becomes the tab's.
LEMMA AppliedTypes ==
    ASSUME TypeOK, NEW t \in Token \cup {NoToken}, ApplyAuth(t)
    PROVE  /\ stored' \in Token \cup {NoToken} /\ stored' = t /\ user' = t.who
           /\ user' \in Accounts \cup {NoAccount}
           /\ socket' \in [at : {"none", "connecting", "open"}, token : Token \cup {NoToken}]
           /\ socket'.at = "connecting" /\ socket'.token = t
<1>1. t.who \in Accounts \cup {NoAccount}
    BY DEF Token, NoToken
<1> QED
    BY <1>1 DEF ApplyAuth, Connecting

LEMMA RefreshAnsweredStep ==
    ASSUME SessionAssumption, SessionInv, NEW c \in Slots, RefreshAnswered(c)
    PROVE  SessionInv'
<1> DEFINE k == calls[c]
           again(d) == [calls[d] EXCEPT !.at = "sent",
                                        !.token = TokenOf(calls[d].kind, k.token)]
<1>1. /\ k \in Call /\ CallSound(k) /\ k.kind = "refresh" /\ k.at \in {"ok", "denied"}
      /\ c = RefreshCall /\ k.token \in Token \cup {NoToken}
    BY CallFields DEF RefreshAnswered, SessionInv, TypeOK, Call
<1>2. \A d \in Slots : calls'[d] =
        IF d = c THEN Free
        ELSE IF calls[d].at = "waiting" THEN (IF k.at = "ok" THEN again(d) ELSE Free)
        ELSE calls[d]
    BY DEF RefreshAnswered
<1>3. ASSUME NEW d \in Slots
      PROVE  /\ again(d) \in Call /\ again(d).kind = calls[d].kind /\ again(d).at = "sent"
             /\ again(d).cookie = calls[d].cookie /\ again(d).right = calls[d].right
             /\ again(d).retried = calls[d].retried /\ again(d).who = calls[d].who
             /\ again(d).set = calls[d].set
    <2>1. calls[d] \in Call
        BY CallFields
    <2>2. TokenOf(calls[d].kind, k.token) \in Token \cup {NoToken}
        BY <1>1 DEF TokenOf
    <2> QED
        BY <2>1, <2>2 DEF Call
<1> HIDE DEF again
<1>4. /\ owner' = owner /\ revoked' = revoked /\ ended' = ended /\ loading' = loading
      /\ signedOut' = signedOut /\ stray' = stray
      /\ expiries' = expiries /\ reloads' = reloads /\ faults' = faults
    BY DEF RefreshAnswered, server, history, bounds
<1>5. cookie' \in {cookie, NoSession} /\ (k.at = "ok" => cookie' = cookie)
    BY <1>1 DEF RefreshAnswered, SetCookie, CallSound
<1>6. /\ k.at = "ok" => ApplyAuth(k.token) /\ k.token.who \in Accounts
      /\ k.at = "denied" => stored' = stored /\ user' = user /\ socket' = socket
    BY <1>1 DEF RefreshAnswered, CallSound
<1>7. calls' \in [Slots -> Call]
    <2>1. calls' = [d \in Slots |-> calls'[d]]
        BY DEF RefreshAnswered
    <2>2. ASSUME NEW d \in Slots
          PROVE  calls'[d] \in Call
        BY <1>2, <1>3, <2>2, FreeFields, CallFields
    <2> QED
        BY <2>1, <2>2
<1>8. TypeOK'
    <2>1. /\ stored' \in Token \cup {NoToken} /\ user' \in Accounts \cup {NoAccount}
          /\ socket' \in [at : {"none", "connecting", "open"}, token : Token \cup {NoToken}]
        <3>1. CASE k.at = "ok"
            BY <1>1, <1>6, <3>1, AppliedTypes DEF SessionInv
        <3>2. CASE k.at = "denied"
            BY <1>6, <3>2 DEF SessionInv, TypeOK
        <3> QED
            BY <1>1, <3>1, <3>2
    <2>2. \A d \in Slots : calls'[d].kind = "refresh" => d = RefreshCall
        BY <1>1, <1>2, <1>3, FreeFields DEF SessionInv, TypeOK
    <2> QED
        BY <1>4, <1>5, <1>7, <2>1, <2>2 DEF SessionInv, TypeOK
<1>9. OneIdentity'
    <2>1. CASE k.at = "ok"
        BY <1>1, <1>6, <2>1, AppliedTypes DEF SessionInv, OneIdentity, SessionAssumption
    <2>2. CASE k.at = "denied"
        BY <1>6, <2>2 DEF SessionInv, OneIdentity
    <2> QED
        BY <1>1, <2>1, <2>2
<1>10. (\A d \in Slots : CallSound(calls[d]))'
    <2> SUFFICES ASSUME NEW d \in Slots
                 PROVE  CallSound(calls[d])'
        OBVIOUS
    <2>1. CallSound(calls[d])
        BY CallFields
    <2>2. calls[d].at = "waiting" => CallSound(again(d))
        BY <1>3, <2>1 DEF CallSound
    <2>3. \/ calls'[d] \in {Free, calls[d]}
          \/ calls'[d] = again(d) /\ calls[d].at = "waiting"
        BY <1>2
    <2>4. CallSound(calls'[d])
        BY <2>1, <2>2, <2>3, FreeFields
    <2> QED
        BY <1>4, <2>4 DEF CallSound
<1>11. (\A d \in Slots : LoginSound(d))'
    BY <1>2, <1>3, <1>4, <1>5, FreeFields, Owners DEF SessionInv, LoginSound
<1>12. (\A d \in Slots : BootAlone(d))'
    BY <1>1, <1>2, <1>3, FreeFields DEF SessionInv, BootAlone, Alone
<1>13. LeftForGood'
    <2> SUFFICES ASSUME signedOut, ~stray
                 PROVE  LeftForGood'
        BY <1>4 DEF LeftForGood
    <2>1. user = NoAccount /\ k.at = "denied" /\ Dead(cookie)
        BY <1>1 DEF SessionInv, LeftForGood, CallsInOrder, Alone
    <2> QED
        BY <1>2, <1>4, <1>5, <1>6, <2>1, FreeFields DEF SessionInv, LeftForGood, Dead
<1>14. k.at = "ok" => user' # NoAccount
    BY <1>1, <1>6 DEF ApplyAuth, SessionAssumption
<1>15. CallsInOrder'
    <2> SUFFICES ASSUME ~stray
                 PROVE  CallsInOrder'
        BY <1>4 DEF CallsInOrder
    <2>1. \A d \in Slots : calls[d].kind # "logout"
        BY <1>1 DEF SessionInv, CallsInOrder, Alone
    <2>2. \A d \in Slots : calls[d].kind = "login" => calls[d].retried
        BY <1>1 DEF SessionInv, CallsInOrder, Refreshing
    <2>3. \A d \in Slots : calls'[d].kind = "get" => user' # NoAccount
        BY <1>1, <1>2, <1>3, <1>6, <1>14, FreeFields DEF SessionInv, CallsInOrder
    <2> QED
        BY <1>2, <1>3, <2>1, <2>2, <2>3, FreeFields DEF CallsInOrder
<1>16. SessionInOrder'
    <2> SUFFICES ASSUME ~stray, ended = {}
                 PROVE  SessionInOrder'
        BY <1>4 DEF SessionInOrder
    <2>1. \A d \in Slots : calls'[d].kind # "refresh"
        BY <1>1, <1>2, <1>3, FreeFields DEF SessionInv, TypeOK
    <2>2. CASE k.at = "ok"
        BY <1>1, <1>4, <1>5, <1>6, <2>1, <2>2
        DEF SessionInv, SessionInOrder, RefreshInOrder, CookieStands, ApplyAuth
    <2>3. CASE k.at = "denied"
        BY <1>1, <1>6, <2>1, <2>3 DEF SessionInv, SessionInOrder, RefreshInOrder
    <2> QED
        BY <1>1, <2>2, <2>3
<1> QED
    BY <1>8, <1>9, <1>10, <1>11, <1>12, <1>13, <1>15, <1>16 DEF SessionInv

\* A call ends and nothing else runs: what matters is who is signed in and with
\* which cookie.
LEMMA Settled ==
    ASSUME SessionAssumption, SessionInv, NEW c \in Slots,
           TypeOK', OneIdentity',
           calls' = [calls EXCEPT ![c] = Free],
           UNCHANGED server,
           \A d \in Slots \ {c} : LoginSound(d)' /\ ~(calls[d].kind = "boot"),
           signedOut' /\ ~stray' => user' = NoAccount /\ Dead(cookie') /\ Alone(c),
           ~stray' => Alone(c),
           ~stray' /\ ended = {} /\ user' # NoAccount =>
             cookie' \in DOMAIN owner \ revoked /\ owner[cookie'] = user'
    PROVE  SessionInv'
<1>1. \A d \in Slots : calls'[d] = IF d = c THEN Free ELSE calls[d]
    BY DEF SessionInv, TypeOK
<1>2. owner' = owner /\ revoked' = revoked /\ ended' = ended
    BY DEF server
<1>3. (\A d \in Slots : CallSound(calls[d]))'
    BY <1>1, <1>2, FreeFields DEF SessionInv, CallSound
<1>4. (\A d \in Slots : LoginSound(d))'
    BY <1>1, FreeFields DEF LoginSound
<1>5. (\A d \in Slots : BootAlone(d))'
    BY <1>1, FreeFields DEF BootAlone
<1>6. ~stray' => \A d \in Slots : calls'[d].kind = "free"
    BY <1>1, FreeFields DEF Alone
<1>7. LeftForGood'
    BY <1>2, <1>6 DEF LeftForGood, Dead
<1>8. CallsInOrder'
    BY <1>6 DEF CallsInOrder
<1>9. SessionInOrder'
    BY <1>2, <1>6 DEF SessionInOrder, RefreshInOrder, CookieStands
<1> QED
    BY <1>3, <1>4, <1>5, <1>7, <1>8, <1>9 DEF SessionInv

LEMMA LoginAnsweredStep ==
    ASSUME SessionAssumption, SessionInv, NEW c \in Slots, LoginAnswered(c)
    PROVE  SessionInv'
<1> DEFINE k == calls[c]
<1>1. /\ k \in Call /\ CallSound(k) /\ k.kind = "login" /\ k.at = "ok"
      /\ k.token \in Token \cup {NoToken} /\ k.token.who \in Accounts
    BY CallFields DEF LoginAnswered, Call, CallSound
<1>2. /\ k.set \in DOMAIN owner \ revoked /\ owner[k.set] = k.token.who
      /\ \A d \in Slots : calls[d].kind = "login" => d = c
    BY <1>1 DEF SessionInv, LoginSound
<1>3. /\ UNCHANGED <<server, loading, bounds>> /\ ApplyAuth(k.token)
      /\ calls' = [calls EXCEPT ![c] = Free]
      /\ signedOut' = FALSE /\ stray' = (Running # {c})
    BY DEF LoginAnswered
<1>4. cookie' = k.set
    BY <1>2, Owners DEF LoginAnswered, SetCookie, SessionInv
<1>5. TypeOK'
    BY <1>1, <1>2, <1>3, <1>4, AppliedTypes, FreeFields
    DEF SessionInv, TypeOK, server, bounds
<1>6. OneIdentity'
    BY <1>1, <1>3, AppliedTypes DEF SessionInv, OneIdentity, SessionAssumption
<1>7. \A d \in Slots \ {c} : LoginSound(d)' /\ calls[d].kind # "boot"
    BY <1>1, <1>2, <1>3 DEF SessionInv, TypeOK, LoginSound, BootAlone, Alone
<1>8. ~stray' => Alone(c)
    BY <1>3, WhoRuns
<1>9. cookie' \in DOMAIN owner \ revoked /\ owner[cookie'] = user'
    BY <1>2, <1>3, <1>4 DEF ApplyAuth
<1> QED
    BY <1>3, <1>5, <1>6, <1>7, <1>8, <1>9, Settled

LEMMA BootAnsweredStep ==
    ASSUME SessionAssumption, SessionInv, NEW c \in Slots, BootAnswered(c)
    PROVE  SessionInv'
<1> DEFINE k == calls[c]
<1>1. /\ k \in Call /\ CallSound(k) /\ k.kind = "boot" /\ k.at \in {"ok", "denied"}
      /\ k.token \in Token \cup {NoToken} /\ k.set \in {Keep, NoSession}
      /\ k.at = "ok" => k.token.who \in Accounts /\ k.set = Keep
    BY CallFields DEF BootAnswered, Call, CallSound
<1>2. /\ Alone(c) /\ user = NoAccount /\ k.cookie = cookie
      /\ k.at = "ok" => CookieStands /\ k.token.who = owner[cookie]
    BY <1>1 DEF SessionInv, BootAlone
<1>3. /\ UNCHANGED <<server, history, bounds>>
      /\ calls' = [calls EXCEPT ![c] = Free] /\ loading' = FALSE
      /\ k.at = "ok" => ApplyAuth(k.token)
      /\ k.at = "denied" => stored' = NoToken /\ user' = user /\ socket' = socket
    BY DEF BootAnswered
<1>4. cookie' \in {cookie, NoSession} /\ (k.at = "ok" => cookie' = cookie)
    BY <1>1 DEF BootAnswered, SetCookie
<1>5. TypeOK' /\ OneIdentity'
    <2>1. /\ stored' \in Token \cup {NoToken} /\ user' \in Accounts \cup {NoAccount}
          /\ socket' \in [at : {"none", "connecting", "open"}, token : Token \cup {NoToken}]
          /\ OneIdentity'
        <3>1. CASE k.at = "ok"
            BY <1>1, <1>3, <3>1, AppliedTypes DEF SessionInv, OneIdentity, SessionAssumption
        <3>2. CASE k.at = "denied"
            BY <1>2, <1>3, <3>2 DEF SessionInv, TypeOK, OneIdentity
        <3> QED
            BY <1>1, <3>1, <3>2
    <2> QED
        BY <1>3, <1>4, <2>1, FreeFields DEF SessionInv, TypeOK, server, history, bounds
<1>6. \A d \in Slots \ {c} : LoginSound(d)' /\ calls[d].kind # "boot"
    BY <1>2, <1>3 DEF SessionInv, TypeOK, LoginSound, Alone
<1>7. signedOut /\ ~stray => k.at = "denied" /\ Dead(cookie)
    BY <1>1, <1>2 DEF SessionInv, LeftForGood
<1>8. signedOut' /\ ~stray' => user' = NoAccount /\ Dead(cookie')
    BY <1>2, <1>3, <1>4, <1>7 DEF history, Dead
<1>9. user' # NoAccount => cookie' \in DOMAIN owner \ revoked /\ owner[cookie'] = user'
    BY <1>1, <1>2, <1>3, <1>4 DEF ApplyAuth, CookieStands
<1> QED
    BY <1>2, <1>3, <1>5, <1>6, <1>8, <1>9, Settled

LEMMA LogoutAnsweredStep ==
    ASSUME SessionAssumption, SessionInv, NEW c \in Slots, LogoutAnswered(c)
    PROVE  SessionInv'
<1> DEFINE k == calls[c]
<1>1. /\ k \in Call /\ CallSound(k) /\ k.kind = "logout" /\ k.at = "ok"
      /\ k.set \in {Keep, NoSession}
    BY CallFields DEF LogoutAnswered, CallSound
<1>2. /\ UNCHANGED <<server, stored, user, loading, socket, history, bounds>>
      /\ calls' = [calls EXCEPT ![c] = Free]
    BY DEF LogoutAnswered
<1>3. cookie' \in {cookie, NoSession}
    BY <1>1 DEF LogoutAnswered, SetCookie
<1>4. TypeOK'
    BY <1>2, <1>3, FreeFields DEF SessionInv, TypeOK, server, history, bounds
<1>5. OneIdentity'
    BY <1>2 DEF SessionInv, OneIdentity
<1>6. \A d \in Slots \ {c} : LoginSound(d)' /\ calls[d].kind # "boot"
    <2>1. /\ \A d \in Slots : calls'[d] = IF d = c THEN Free ELSE calls[d]
          /\ owner' = owner /\ revoked' = revoked
        BY <1>2 DEF SessionInv, TypeOK, server
    <2>2. NoSession \notin DOMAIN owner
        BY Owners DEF SessionInv
    <2>3. \A d \in Slots \ {c} : LoginSound(d)'
        BY <1>3, <2>1, <2>2, FreeFields DEF SessionInv, LoginSound
    <2> QED
        BY <1>1, <2>3 DEF SessionInv, BootAlone, Alone
<1>7. ~stray => Alone(c) /\ user = NoAccount
    BY <1>1 DEF SessionInv, CallsInOrder
<1>8. signedOut' /\ ~stray' => Dead(cookie')
    BY <1>1, <1>2, <1>3, <1>7 DEF SessionInv, LeftForGood, Alone, Dead, history
<1> QED
    BY <1>2, <1>4, <1>5, <1>6, <1>7, <1>8, Settled DEF history

\* A form submitted while another call is under way counts as stray.
LEMMA SubmitLoginStep ==
    ASSUME SessionAssumption, SessionInv, NEW c \in Slots, NEW a \in Accounts,
           NEW right \in BOOLEAN, SubmitLogin(c, a, right)
    PROVE  SessionInv'
<1> DEFINE sent == Sent("login")
           rec == [sent EXCEPT !.who = a, !.right = right]
<1>1. /\ sent \in Call /\ sent.kind = "login" /\ sent.at = "sent"
      /\ sent.cookie = NoSession /\ sent.retried = FALSE
    BY SentFields DEF SessionInv, CookieOf
<1> HIDE DEF sent
<1>2. /\ rec \in Call /\ rec.kind = "login" /\ rec.at = "sent" /\ rec.cookie = NoSession
      /\ rec.retried = FALSE /\ rec.who = a
    BY <1>1 DEF Call
<1>3. CallSound(rec)
    BY <1>2 DEF CallSound
<1>4. /\ calls' = [calls EXCEPT ![c] = rec] /\ user = NoAccount /\ ~loading
      /\ \A d \in Slots : calls[d].kind # "login"
      /\ stray' = (stray \/ Running # {})
    BY DEF SubmitLogin, sent
<1>5. /\ owner' = owner /\ revoked' = revoked /\ ended' = ended
      /\ cookie' = cookie /\ stored' = stored /\ user' = user /\ loading' = loading
      /\ socket' = socket /\ signedOut' = signedOut
      /\ expiries' = expiries /\ reloads' = reloads /\ faults' = faults
    BY DEF SubmitLogin, server, tab, bounds
<1> HIDE DEF rec
<1>6. /\ \A d \in Slots : calls'[d] = IF d = c THEN rec ELSE calls[d]
      /\ calls' \in [Slots -> Call]
    BY <1>2, <1>4 DEF SessionInv, TypeOK
<1>7. TypeOK'
    <2>1. stray' \in BOOLEAN
        BY <1>4 DEF SessionInv, TypeOK
    <2> QED
        BY <1>2, <1>5, <1>6, <2>1 DEF SessionInv, TypeOK
<1>8. OneIdentity'
    BY <1>5 DEF SessionInv, OneIdentity
<1>9. (\A d \in Slots : CallSound(calls[d]))'
    BY <1>3, <1>5, <1>6 DEF SessionInv, CallSound
<1>10. (\A d \in Slots : LoginSound(d))'
    BY <1>2, <1>4, <1>6 DEF LoginSound
<1>11. (\A d \in Slots : BootAlone(d))'
    BY <1>2, <1>4, <1>6 DEF SessionInv, BootAlone
<1>12. ~stray' => ~stray /\ \A d \in Slots : d # c => calls'[d].kind = "free"
    BY <1>4, <1>6, WhoRuns
<1>13. ~stray' => \A d \in Slots : calls[d].kind = "free"
    BY <1>4, WhoRuns
<1>14. LeftForGood'
    BY <1>2, <1>4, <1>5, <1>6, <1>12, <1>13 DEF SessionInv, LeftForGood, Dead
<1>15. ~stray' => ~Refreshing'
    <2>1. c # RefreshCall
        BY DEF SubmitLogin, NextSlot
    <2> QED
        BY <1>12, <2>1, WhoRuns DEF Refreshing
<1>16. CallsInOrder'
    BY <1>2, <1>4, <1>5, <1>6, <1>12, <1>15 DEF CallsInOrder
<1>17. SessionInOrder'
    BY <1>2, <1>4, <1>5, <1>6, <1>12 DEF SessionInOrder, RefreshInOrder
<1> QED
    BY <1>7, <1>8, <1>9, <1>10, <1>11, <1>14, <1>16, <1>17 DEF SessionInv

\* logout() with calls under way counts as stray; without, it is alone.
LEMMA LogoutCallStep ==
    ASSUME SessionAssumption, SessionInv, NEW c \in Slots, user # NoAccount,
           LogoutCall(c)
    PROVE  SessionInv'
<1> DEFINE rec == Sent("logout")
<1>1. /\ rec \in Call /\ CallSound(rec) /\ rec.kind = "logout" /\ rec.at = "sent"
      /\ rec.cookie = cookie
    BY SentFields DEF SessionInv, CookieOf
<1>2. /\ calls' = [calls EXCEPT ![c] = rec] /\ calls[c].kind = "free" /\ c # RefreshCall
      /\ stored' = NoToken /\ user' = NoAccount /\ socket' = NoSocket
      /\ signedOut' = TRUE /\ stray' = (Running # {})
    BY DEF LogoutCall, NextSlot
<1>3. /\ owner' = owner /\ revoked' = revoked /\ ended' = ended
      /\ cookie' = cookie /\ loading' = loading
      /\ expiries' = expiries /\ reloads' = reloads /\ faults' = faults
    BY DEF LogoutCall, server, bounds
<1> HIDE DEF rec
<1>4. /\ \A d \in Slots : calls'[d] = IF d = c THEN rec ELSE calls[d]
      /\ calls' \in [Slots -> Call]
    BY <1>1, <1>2 DEF SessionInv, TypeOK
<1>5. TypeOK'
    BY <1>1, <1>2, <1>3, <1>4 DEF SessionInv, TypeOK, NoSocket
<1>6. OneIdentity'
    BY <1>2 DEF OneIdentity
<1>7. (\A d \in Slots : CallSound(calls[d]))'
    BY <1>1, <1>3, <1>4 DEF SessionInv, CallSound
<1>8. (\A d \in Slots : LoginSound(d))'
    BY <1>1, <1>3, <1>4 DEF SessionInv, LoginSound
<1>9. (\A d \in Slots : BootAlone(d))'
    BY <1>1, <1>4 DEF SessionInv, BootAlone
<1>10. ~stray' => \A d \in Slots : d # c => calls'[d].kind = "free"
    BY <1>2, <1>4, WhoRuns
<1>11. LeftForGood'
    BY <1>1, <1>2, <1>3, <1>4, <1>10 DEF LeftForGood, Dead
<1>12. CallsInOrder'
    BY <1>1, <1>2, <1>4, <1>10 DEF CallsInOrder, Alone
<1>13. SessionInOrder'
    BY <1>1, <1>2, <1>4, <1>10 DEF SessionInOrder, RefreshInOrder
<1> QED
    BY <1>5, <1>6, <1>7, <1>8, <1>9, <1>11, <1>12, <1>13 DEF SessionInv

LEMMA SignOutStep ==
    ASSUME SessionAssumption, SessionInv, NEW c \in Slots, SignOut(c) \/ SocketRefused(c)
    PROVE  SessionInv'
<1>1. user # NoAccount /\ LogoutCall(c)
    BY DEF SignOut, SocketRefused, SessionInv, OneIdentity, NoSocket
<1> QED
    BY <1>1, LogoutCallStep

LEMMA SocketStep ==
    ASSUME SessionAssumption, SessionInv, SocketOpens \/ SocketDrops
    PROVE  SessionInv'
<1>1. /\ UNCHANGED <<server, cookie, stored, user, loading, calls, history, bounds>>
      /\ socket.at # "none"
      /\ \E at \in {"open", "connecting"} : socket' = [socket EXCEPT !.at = at]
    BY DEF SocketOpens, SocketDrops
<1>2. /\ owner' = owner /\ revoked' = revoked /\ ended' = ended /\ calls' = calls
      /\ cookie' = cookie /\ stored' = stored /\ user' = user /\ loading' = loading
      /\ signedOut' = signedOut /\ stray' = stray
      /\ expiries' = expiries /\ reloads' = reloads /\ faults' = faults
    BY <1>1 DEF server, history, bounds
<1>3. /\ socket' \in [at : {"none", "connecting", "open"}, token : Token \cup {NoToken}]
      /\ socket'.token = socket.token /\ socket'.at # "none"
    BY <1>1 DEF SessionInv, TypeOK
<1>4. TypeOK'
    BY <1>2, <1>3 DEF SessionInv, TypeOK
<1>5. OneIdentity'
    BY <1>1, <1>2, <1>3 DEF SessionInv, OneIdentity, NoSocket
<1> QED
    BY <1>2, <1>4, <1>5
    DEF SessionInv, CallSound, LoginSound, BootAlone, Alone, LeftForGood, Dead,
        CallsInOrder, Refreshing, SessionInOrder, RefreshInOrder, CookieStands

LEMMA TokensExpireStep ==
    ASSUME SessionAssumption, SessionInv, TokensExpire
    PROVE  SessionInv'
<1>1. ASSUME NEW t \in Token \cup {NoToken}
      PROVE  Over(t) \in Token \cup {NoToken} /\ Over(t).who = t.who
    <2>1. CASE t \in Token
        BY <2>1 DEF Over, Token
    <2>2. CASE t = NoToken
        <3>1. t \in [who : {NoAccount}, live : {FALSE}]
            BY <2>2 DEF NoToken
        <3>2. Over(t) = t
            BY <3>1 DEF Over
        <3> QED
            BY <2>2, <3>2
    <2> QED
        BY <2>1, <2>2
<1>2. \A d \in Slots : calls'[d] = [calls[d] EXCEPT !.token = Over(@)]
    BY DEF TokensExpire
<1>3. ASSUME NEW d \in Slots
      PROVE  /\ calls'[d] \in Call /\ calls'[d].kind = calls[d].kind
             /\ calls'[d].at = calls[d].at /\ calls'[d].cookie = calls[d].cookie
             /\ calls'[d].who = calls[d].who /\ calls'[d].right = calls[d].right
             /\ calls'[d].retried = calls[d].retried /\ calls'[d].set = calls[d].set
             /\ calls'[d].token.who = calls[d].token.who
    <2>1. calls[d] \in Call /\ calls[d].token \in Token \cup {NoToken}
        BY CallFields DEF Call
    <2>2. Over(calls[d].token) \in Token \cup {NoToken}
          /\ Over(calls[d].token).who = calls[d].token.who
        BY <1>1, <2>1
    <2> QED
        BY <1>2, <2>1, <2>2, ZenonT(60) DEF Call
<1>4. calls' \in [Slots -> Call]
    BY <1>3 DEF TokensExpire
<1>5. /\ stored' = Over(stored) /\ socket' = [socket EXCEPT !.token = Over(@)]
      /\ owner' = owner /\ revoked' = revoked /\ ended' = ended
      /\ cookie' = cookie /\ user' = user /\ loading' = loading
      /\ signedOut' = signedOut /\ stray' = stray
      /\ expiries' = expiries + 1 /\ expiries < MaxExpiries
      /\ reloads' = reloads /\ faults' = faults
    BY DEF TokensExpire, server, history
<1>6. /\ stored' \in Token \cup {NoToken} /\ stored'.who = stored.who
      /\ socket' \in [at : {"none", "connecting", "open"}, token : Token \cup {NoToken}]
      /\ socket'.at = socket.at /\ socket'.token.who = socket.token.who
      /\ socket = NoSocket => socket' = NoSocket
    <2>1. /\ stored \in Token \cup {NoToken}
          /\ socket \in [at : {"none", "connecting", "open"}, token : Token \cup {NoToken}]
        BY DEF SessionInv, TypeOK
    <2>2. /\ socket'.at = socket.at /\ socket'.token = Over(socket.token)
          /\ socket.token \in Token \cup {NoToken}
          /\ socket' = [at |-> socket.at, token |-> Over(socket.token)]
        BY <1>5, <2>1
    <2>3. NoToken \in [who : {NoAccount}, live : {FALSE}]
        BY DEF NoToken
    <2>4. Over(NoToken) = NoToken
        BY <2>3 DEF Over
    <2> QED
        BY <1>1, <1>5, <2>1, <2>2, <2>4 DEF NoSocket
<1>7. expiries' \in 0 .. MaxExpiries
    BY <1>5 DEF SessionInv, TypeOK, SessionAssumption
<1>8. TypeOK'
    BY <1>3, <1>4, <1>5, <1>6, <1>7 DEF SessionInv, TypeOK
<1>9. OneIdentity'
    BY <1>5, <1>6 DEF SessionInv, OneIdentity
<1>10. (\A d \in Slots : CallSound(calls[d]))'
    BY <1>3, <1>5 DEF SessionInv, CallSound
<1>11. (\A d \in Slots : LoginSound(d) /\ BootAlone(d))'
    BY <1>3, <1>5 DEF SessionInv, LoginSound, BootAlone, Alone, CookieStands
<1>12. LeftForGood'
    BY <1>3, <1>5 DEF SessionInv, LeftForGood, Dead
<1>13. Refreshing' => Refreshing
    BY <1>3, WhoRuns DEF Refreshing
<1>14. CallsInOrder'
    BY <1>3, <1>5, <1>13 DEF SessionInv, CallsInOrder, Alone
<1>15. SessionInOrder'
    BY <1>3, <1>5 DEF SessionInv, SessionInOrder, RefreshInOrder, CookieStands
<1> QED
    BY <1>8, <1>9, <1>10, <1>11, <1>12, <1>14, <1>15 DEF SessionInv

LEMMA ReloadStep ==
    ASSUME SessionAssumption, SessionInv, Reload
    PROVE  SessionInv'
<1> DEFINE boot == Sent("boot")
<1>1. /\ boot \in Call /\ CallSound(boot) /\ boot.kind = "boot" /\ boot.at = "sent"
      /\ boot.cookie = cookie
    BY SentFields DEF SessionInv, CookieOf
<1>2. \A d \in Slots : calls'[d] = IF d = 1 THEN boot ELSE Free
    BY DEF Reload
<1>3. /\ calls' = [d \in Slots |-> IF d = 1 THEN boot ELSE Free]
      /\ user' = NoAccount /\ socket' = NoSocket /\ loading' = TRUE
      /\ owner' = owner /\ revoked' = revoked /\ ended' = ended
      /\ cookie' = cookie /\ stored' = stored /\ signedOut' = signedOut
      /\ reloads' = reloads + 1 /\ reloads < MaxReloads
      /\ expiries' = expiries /\ faults' = faults
      /\ stray' \in BOOLEAN
      /\ ~stray' => ~stray /\ ~\E d \in Slots : calls[d].kind = "logout"
                                               /\ calls[d].at = "sent"
    BY DEF Reload, server, SessionInv, TypeOK
<1> HIDE DEF boot
<1>4. calls' \in [Slots -> Call] /\ reloads' \in 0 .. MaxReloads
    BY <1>1, <1>3, FreeFields DEF SessionInv, TypeOK, SessionAssumption
<1>5. TypeOK'
    BY <1>1, <1>2, <1>3, <1>4, FreeFields DEF SessionInv, TypeOK, NoSocket
<1>6. OneIdentity'
    BY <1>3 DEF OneIdentity
<1>7. (\A d \in Slots : CallSound(calls[d]))'
    BY <1>1, <1>2, <1>3, FreeFields DEF CallSound
<1>8. (\A d \in Slots : LoginSound(d))'
    BY <1>1, <1>2, FreeFields DEF LoginSound
<1>9. (\A d \in Slots : BootAlone(d))'
    BY <1>1, <1>2, <1>3, FreeFields DEF BootAlone, Alone
<1>10. LeftForGood'
    BY <1>1, <1>2, <1>3, FreeFields DEF SessionInv, LeftForGood, Dead
<1>11. CallsInOrder'
    BY <1>1, <1>2, FreeFields DEF CallsInOrder
<1>12. SessionInOrder'
    BY <1>1, <1>2, <1>3, FreeFields DEF SessionInOrder, RefreshInOrder
<1> QED
    BY <1>5, <1>6, <1>7, <1>8, <1>9, <1>10, <1>11, <1>12 DEF SessionInv

LEMMA LoseCallStep ==
    ASSUME SessionAssumption, SessionInv, NEW c \in Slots, LoseCall(c)
    PROVE  SessionInv'
<1>1. /\ calls[c].kind # "free"
      /\ calls' = [d \in Slots |->
           IF d = c \/ (calls[c].kind = "refresh" /\ calls[d].at = "waiting") THEN Free
           ELSE calls[d]]
      /\ loading' = (loading /\ calls[c].kind # "boot")
      /\ stray' = (stray \/ (calls[c].kind = "logout" /\ calls[c].at = "sent"))
    BY DEF LoseCall
<1>2. /\ owner' = owner /\ revoked' = revoked /\ ended' = ended
      /\ cookie' = cookie /\ stored' = stored /\ user' = user /\ socket' = socket
      /\ signedOut' = signedOut /\ expiries' = expiries /\ reloads' = reloads
    BY DEF LoseCall, server
<1>3. faults' \in 0 .. MaxFaults
    BY DEF LoseCall, Fault, SessionInv, TypeOK, SessionAssumption
<1>4. /\ calls'[c] = Free
      /\ \A d \in Slots : calls'[d] \in {Free, calls[d]}
    BY <1>1
<1>5. calls' \in [Slots -> Call]
    BY <1>1, FreeFields DEF SessionInv, TypeOK
<1>6. loading' \in BOOLEAN /\ stray' \in BOOLEAN
    BY <1>1
<1>7. TypeOK'
    BY <1>2, <1>3, <1>4, <1>5, <1>6, FreeFields DEF SessionInv, TypeOK
<1>8. OneIdentity'
    BY <1>2 DEF SessionInv, OneIdentity
<1>9. (\A d \in Slots : CallSound(calls[d]))'
    BY <1>2, <1>4, FreeFields DEF SessionInv, CallSound
<1>10. (\A d \in Slots : LoginSound(d))'
    BY <1>2, <1>4, FreeFields, Owners DEF SessionInv, LoginSound
<1>11. (\A d \in Slots : BootAlone(d))'
    BY <1>1, <1>4, FreeFields DEF SessionInv, BootAlone, Alone
<1>12. ~stray' => ~stray /\ ~(calls[c].kind = "logout" /\ calls[c].at = "sent")
    BY <1>1
<1>13. LeftForGood'
    <2> SUFFICES ASSUME signedOut, ~stray'
                 PROVE  LeftForGood'
        BY <1>2 DEF LeftForGood
    <2>1. user = NoAccount /\ Dead(cookie)
        BY <1>1, <1>12 DEF SessionInv, LeftForGood, CallsInOrder, Alone
    <2> QED
        BY <1>2, <1>4, <1>12, <2>1, FreeFields DEF SessionInv, LeftForGood, Dead
<1>14. Refreshing' => Refreshing
    BY <1>4, WhoRuns, FreeFields DEF Refreshing
<1>15. CallsInOrder'
    BY <1>2, <1>4, <1>12, <1>14, FreeFields DEF SessionInv, CallsInOrder, Alone
<1>16. SessionInOrder'
    BY <1>2, <1>4, <1>12, FreeFields
    DEF SessionInv, SessionInOrder, RefreshInOrder, CookieStands
<1> QED
    BY <1>7, <1>8, <1>9, <1>10, <1>11, <1>13, <1>15, <1>16 DEF SessionInv

LEMMA SessionEndsStep ==
    ASSUME SessionAssumption, SessionInv, NEW s \in Sessions, SessionEnds(s)
    PROVE  SessionInv'
<1>1. /\ s \in DOMAIN owner /\ ended' = ended \cup {s}
      /\ owner' = owner /\ revoked' = revoked /\ calls' = calls
      /\ cookie' = cookie /\ stored' = stored /\ user' = user /\ loading' = loading
      /\ socket' = socket /\ signedOut' = signedOut /\ stray' = stray
      /\ expiries' = expiries /\ reloads' = reloads
    BY DEF SessionEnds, Live, tab, history
<1>2. faults' \in 0 .. MaxFaults
    BY DEF SessionEnds, Fault, SessionInv, TypeOK, SessionAssumption
<1>3. TypeOK'
    BY <1>1, <1>2 DEF SessionInv, TypeOK
<1>4. SessionInOrder'
    BY <1>1 DEF SessionInOrder
<1>5. LeftForGood'
    BY <1>1 DEF SessionInv, LeftForGood, Dead
<1> QED
    BY <1>1, <1>3, <1>4, <1>5
    DEF SessionInv, OneIdentity, CallSound, LoginSound, BootAlone, Alone, CookieStands,
        CallsInOrder, Refreshing

----------------------------------------------------------------------------
(* Theorems *)

LEMMA SessionInit ==
    ASSUME SessionAssumption, Init
    PROVE  SessionInv
<1> DEFINE boot == Sent("boot")
<1>1. /\ DOMAIN owner = {} /\ owner \in [1 .. 0 -> Accounts]
      /\ revoked = {} /\ ended = {} /\ cookie = NoSession
      /\ stored = NoToken /\ user = NoAccount /\ loading = TRUE /\ socket = NoSocket
      /\ calls = [d \in Slots |-> IF d = 1 THEN boot ELSE Free]
      /\ signedOut = FALSE /\ stray = FALSE
      /\ expiries = 0 /\ reloads = 0 /\ faults = 0
    BY DEF Init
<1>2. /\ boot \in Call /\ boot.kind = "boot" /\ boot.at = "sent"
      /\ boot.cookie = NoSession /\ boot.set = Keep /\ boot.retried = FALSE
    BY <1>1 DEF Sent, Free, Call, CookieOf, TokenOf
<1> HIDE DEF boot
<1>3. \A d \in Slots : calls[d] = IF d = 1 THEN boot ELSE Free
    BY <1>1
<1>4. calls \in [Slots -> Call]
    BY <1>1, <1>2, FreeFields
<1>5. \E n \in 0 .. MaxSessions : owner \in [1 .. n -> Accounts]
    BY <1>1 DEF SessionAssumption
<1>6. TypeOK
    <2>1. /\ socket \in [at : {"none", "connecting", "open"}, token : Token \cup {NoToken}]
          /\ expiries \in 0 .. MaxExpiries /\ reloads \in 0 .. MaxReloads
          /\ faults \in 0 .. MaxFaults
        BY <1>1 DEF NoSocket, SessionAssumption
    <2>2. \A d \in Slots : calls[d].kind = "refresh" => d = RefreshCall
        BY <1>2, <1>3, FreeFields
    <2> QED
        BY <1>1, <1>4, <1>5, <2>1, <2>2 DEF TypeOK
<1>7. \A d \in Slots : CallSound(calls[d]) /\ LoginSound(d) /\ BootAlone(d)
    BY <1>1, <1>2, <1>3, FreeFields DEF CallSound, LoginSound, BootAlone, Alone
<1> QED
    BY <1>1, <1>2, <1>3, <1>6, <1>7, FreeFields
    DEF SessionInv, OneIdentity, LeftForGood, CallsInOrder, SessionInOrder, RefreshInOrder

LEMMA SessionNext ==
    ASSUME SessionAssumption, SessionInv, [Next]_vars
    PROVE  SessionInv'
<1>1. ASSUME NEW c \in Slots, Handle(c)
      PROVE  SessionInv'
    BY <1>1, LoginStep, FindSessionStep, IssueTokenStep, LogoutStep, RequireAuthStep
    DEF Handle
<1>2. ASSUME NEW c \in Slots, Receive(c)
      PROVE  SessionInv'
    BY <1>2, LoginAnsweredStep, BootAnsweredStep, RefreshAnsweredStep, DeniedOnceStep,
       EndsStep, LogoutAnsweredStep
    DEF Receive
<1>3. CASE UNCHANGED vars
    <2>1. /\ owner' = owner /\ revoked' = revoked /\ ended' = ended /\ calls' = calls
          /\ cookie' = cookie /\ stored' = stored /\ user' = user /\ loading' = loading
          /\ socket' = socket /\ signedOut' = signedOut /\ stray' = stray
          /\ expiries' = expiries /\ reloads' = reloads /\ faults' = faults
        BY <1>3 DEF vars, server, tab, history, bounds
    <2>2. TypeOK' /\ OneIdentity' /\ (\A c \in Slots : CallSound(calls[c]))'
        BY <2>1 DEF SessionInv, TypeOK, OneIdentity, CallSound
    <2>3. (\A c \in Slots : LoginSound(c))' /\ (\A c \in Slots : BootAlone(c))'
        BY <2>1 DEF SessionInv, LoginSound, BootAlone, Alone, CookieStands
    <2>4. LeftForGood' /\ CallsInOrder'
        BY <2>1 DEF SessionInv, LeftForGood, Dead, CallsInOrder, Refreshing, Alone
    <2>5. SessionInOrder'
        BY <2>1 DEF SessionInv, SessionInOrder, RefreshInOrder, CookieStands
    <2> QED
        BY <2>2, <2>3, <2>4, <2>5 DEF SessionInv
<1> QED
    BY <1>1, <1>2, <1>3, SubmitLoginStep, GetStep, SignOutStep, LoseCallStep, SocketStep,
       TokensExpireStep, ReloadStep, SessionEndsStep
    DEF Next

\* The invariant of the tab and its sessions: what each call knows, and which
\* calls there can be after a sign-in or sign-out with none under way.
THEOREM SessionInvariant == Spec => []SessionInv
    BY SessionAssumption, SessionInit, SessionNext, PTL DEF Spec

\* For any number of accounts, calls and sessions, the user shown, the stored token
\* and the socket are of one account.
THEOREM IdentityIsOne == Spec => []OneIdentity
<1>1. SessionInv => OneIdentity
    BY DEF SessionInv
<1> QED
    BY <1>1, SessionInvariant, PTL

\* Who signed out with no call under way is not signed in again by any answer.
THEOREM StaysSignedOut == Spec => []SignedOutStays
<1>1. SessionInv => SignedOutStays
    BY DEF SessionInv, LeftForGood, SignedOutStays
<1> QED
    BY <1>1, SessionInvariant, PTL

\* Who signed in with no call under way keeps a refresh cookie of their own.
THEOREM KeepsSession == Spec => []SessionKept
<1>1. ASSUME SessionInv
      PROVE  SessionKept
    <2>1. NoSession \notin DOMAIN owner
        BY <1>1, SessionAssumption, Owners DEF SessionInv
    <2> QED
        BY <1>1, <2>1 DEF SessionInv, SessionInOrder, CookieStands, SessionKept
<1> QED
    BY <1>1, SessionInvariant, PTL

----------------------------------------------------------------------------
(* How a step moves the calls *)

\* Nothing of what follows sees what a call carries.
Place(k) == <<k.kind, k.at, k.retried>>

\* What one step makes of a call, if the tab is not reloaded.
Moves(k, m) ==
    \/ Place(m) = Place(k)
    \/ k.kind = "free" \/ m.kind = "free"
    \/ /\ m.kind = k.kind /\ m.retried = k.retried
       /\ \/ k.at = "sent" /\ m.at \in {"found", "ok", "denied"}
          \/ k.at = "found" /\ m.at = "ok"
          \/ k.at = "waiting" /\ m.at = "sent"
    \/ /\ m.kind = k.kind /\ k.kind \in {"login", "get"}
       /\ k.at = "denied" /\ ~k.retried /\ m.at = "waiting" /\ m.retried

\* A login that will be stored has its place among the sessions.
RoomFor(k) ==
    k.kind = "login" /\ k.at = "sent" /\ k.right => Cardinality(DOMAIN owner) < MaxSessions

\* Who waits has the refresh to wait for, and was refused once.
WaitInv ==
    /\ calls[RefreshCall].kind \in {"free", "refresh"}
    /\ \A c \in Slots : /\ calls[c].at = "waiting" => Refreshing /\ calls[c].retried
                        /\ RoomFor(calls[c])

EndsInv == SessionInv /\ WaitInv

\* A step that changes one call.
LEMMA OneCallMoves ==
    ASSUME SessionInv, NEW c \in Slots, NEW rec,
           calls' = [calls EXCEPT ![c] = rec], Moves(calls[c], rec), NEW d \in Slots
    PROVE  Moves(calls[d], calls'[d])
<1>1. calls'[d] = IF d = c THEN rec ELSE calls[d]
    BY DEF SessionInv, TypeOK
<1> QED
    BY <1>1 DEF Moves

\* What the gateway makes of a call.
HandledTo(k, rec) ==
    /\ rec.kind = k.kind /\ rec.retried = k.retried
    /\ \/ k.at = "sent" /\ rec.at \in {"found", "ok", "denied"}
       \/ k.at = "found" /\ rec.at = "ok"

\* The gateway's steps change one call, forward.
LEMMA HandledCall ==
    ASSUME SessionAssumption, SessionInv, NEW c \in Slots, Handle(c)
    PROVE  /\ \E rec : calls' = [calls EXCEPT ![c] = rec] /\ HandledTo(calls[c], rec)
           /\ owner' = owner \/ calls[c].kind = "login"
<1> DEFINE k == calls[c]
<1>1. k \in Call
    BY CallFields
<1>2. ASSUME NEW rec, calls' = [calls EXCEPT ![c] = rec], owner' = owner \/ k.kind = "login",
             rec.kind = k.kind, rec.retried = k.retried,
             \/ k.at = "sent" /\ rec.at \in {"found", "ok", "denied"}
             \/ k.at = "found" /\ rec.at = "ok"
      PROVE  /\ \E r : calls' = [calls EXCEPT ![c] = r] /\ HandledTo(k, r)
             /\ owner' = owner \/ k.kind = "login"
    BY <1>2 DEF HandledTo
<1>3. CASE Login(c)
    <2> DEFINE s == Cardinality(DOMAIN owner) + 1
               yes == [k EXCEPT !.at = "ok", !.set = s, !.token = Fresh(k.who)]
               no == [k EXCEPT !.at = "denied"]
    <2>1. /\ k.at = "sent" /\ k.kind = "login"
          /\ calls' = [calls EXCEPT ![c] = yes] \/ calls' = [calls EXCEPT ![c] = no]
        BY <1>3 DEF Login, Answer
    <2>2. /\ yes.kind = k.kind /\ yes.retried = k.retried /\ yes.at = "ok"
          /\ no.kind = k.kind /\ no.retried = k.retried /\ no.at = "denied"
        BY <1>1 DEF Call
    <2> HIDE DEF yes, no
    <2> QED
        BY <1>2, <2>1, <2>2
<1>4. CASE FindSession(c)
    <2> DEFINE yes == [k EXCEPT !.at = "found"]
               clear == IF k.cookie = NoSession THEN Keep ELSE NoSession
               no == [k EXCEPT !.at = "denied", !.set = clear]
    <2>1. /\ k.at = "sent" /\ owner' = owner
          /\ calls' = [calls EXCEPT ![c] = yes] \/ calls' = [calls EXCEPT ![c] = no]
        BY <1>4 DEF FindSession, Answer, server
    <2>2. /\ yes.kind = k.kind /\ yes.retried = k.retried /\ yes.at = "found"
          /\ no.kind = k.kind /\ no.retried = k.retried /\ no.at = "denied"
        BY <1>1 DEF Call
    <2> HIDE DEF yes, no
    <2> QED
        BY <1>2, <2>1, <2>2
<1>5. CASE IssueToken(c)
    <2> DEFINE yes == [k EXCEPT !.at = "ok", !.token = Fresh(owner[k.cookie])]
    <2>1. k.at = "found" /\ owner' = owner /\ calls' = [calls EXCEPT ![c] = yes]
        BY <1>5 DEF IssueToken, Answer, server
    <2>2. yes.kind = k.kind /\ yes.retried = k.retried /\ yes.at = "ok"
        BY <1>1 DEF Call
    <2> HIDE DEF yes
    <2> QED
        BY <1>2, <2>1, <2>2
<1>6. CASE Logout(c)
    <2> DEFINE yes == [k EXCEPT !.at = "ok", !.set = NoSession]
    <2>1. k.at = "sent" /\ owner' = owner /\ calls' = [calls EXCEPT ![c] = yes]
        BY <1>6 DEF Logout, Answer, server
    <2>2. yes.kind = k.kind /\ yes.retried = k.retried /\ yes.at = "ok"
        BY <1>1 DEF Call
    <2> HIDE DEF yes
    <2> QED
        BY <1>2, <2>1, <2>2
<1>7. CASE RequireAuth(c)
    <2> DEFINE to == IF k.token.live THEN "ok" ELSE "denied"
               yes == [k EXCEPT !.at = to]
    <2>1. k.at = "sent" /\ owner' = owner /\ calls' = [calls EXCEPT ![c] = yes]
        BY <1>7 DEF RequireAuth, Answer, server
    <2>2. yes.kind = k.kind /\ yes.retried = k.retried /\ yes.at \in {"ok", "denied"}
        BY <1>1 DEF Call
    <2> HIDE DEF yes
    <2> QED
        BY <1>2, <2>1, <2>2
<1> QED
    BY <1>3, <1>4, <1>5, <1>6, <1>7 DEF Handle

\* Who waited for the refresh is sent again, or fails with it.
LEMMA AnsweredCalls ==
    ASSUME SessionInv, NEW c \in Slots, RefreshAnswered(c), NEW d \in Slots
    PROVE  \/ d = c /\ calls'[d] = Free
           \/ d # c /\ calls[d].at # "waiting" /\ calls'[d] = calls[d]
           \/ d # c /\ calls[d].at = "waiting" /\ calls'[d] = Free
           \/ /\ d # c /\ calls[d].at = "waiting" /\ calls'[d].at = "sent"
              /\ calls'[d].kind = calls[d].kind /\ calls'[d].retried = calls[d].retried
              /\ calls'[d].right = calls[d].right
<1> DEFINE t == calls[c].token
           again == [calls[d] EXCEPT !.at = "sent", !.token = TokenOf(calls[d].kind, t)]
<1>1. calls'[d] = CASE d = c -> Free
               [] d # c /\ calls[d].at = "waiting" ->
                    IF calls[c].at = "ok" THEN again ELSE Free
               [] OTHER -> calls[d]
    BY DEF RefreshAnswered
<1>2. /\ again.at = "sent" /\ again.kind = calls[d].kind /\ again.retried = calls[d].retried
      /\ again.right = calls[d].right
    BY CallFields DEF Call
<1> HIDE DEF again
<1> QED
    BY <1>1, <1>2

\* Who is refused waits for the refresh, which starts if there is none.
LEMMA DeniedCalls ==
    ASSUME SessionAssumption, SessionInv, WaitInv, NEW c \in Slots, DeniedOnce(c)
    PROVE  /\ c # RefreshCall
           /\ calls'[c].at = "waiting" /\ calls'[c].retried /\ calls'[c].kind = calls[c].kind
           /\ calls'[RefreshCall].kind = "refresh"
           /\ ~Refreshing => calls'[RefreshCall].at = "sent"
           /\ Refreshing => calls'[RefreshCall] = calls[RefreshCall]
           /\ \A d \in Slots \ {c, RefreshCall} : calls'[d] = calls[d]
<1> DEFINE wait == [calls[c] EXCEPT !.at = "waiting", !.retried = TRUE]
<1>1. calls[c] \in Call /\ calls \in [Slots -> Call] /\ calls[c].kind \in {"login", "get"}
    BY DEF SessionInv, TypeOK, DeniedOnce
<1>2. c # RefreshCall /\ RefreshCall \in Slots
    BY <1>1, WhoRuns DEF WaitInv
<1>3. [calls EXCEPT ![c].at = "waiting", ![c].retried = TRUE] = [calls EXCEPT ![c] = wait]
    BY <1>1
<1>4. wait.at = "waiting" /\ wait.retried /\ wait.kind = calls[c].kind
    BY <1>1 DEF Call
<1>5. Sent("refresh").kind = "refresh" /\ Sent("refresh").at = "sent"
    BY SentFields DEF SessionInv
<1>6. CASE Refreshing
    <2>1. calls' = [calls EXCEPT ![c] = wait]
        BY <1>3, <1>6 DEF DeniedOnce
    <2> HIDE DEF wait
    <2>2. /\ calls'[c] = wait /\ calls'[RefreshCall] = calls[RefreshCall]
          /\ \A d \in Slots \ {c, RefreshCall} : calls'[d] = calls[d]
        BY <1>1, <1>2, <2>1
    <2>3. calls[RefreshCall].kind = "refresh"
        BY <1>6 DEF WaitInv, Refreshing
    <2> QED
        BY <1>2, <1>4, <1>6, <2>2, <2>3
<1>7. CASE ~Refreshing
    <2>1. calls' = [[calls EXCEPT ![c] = wait] EXCEPT ![RefreshCall] = Sent("refresh")]
        BY <1>3, <1>7 DEF DeniedOnce
    <2> HIDE DEF wait
    <2>2. /\ calls'[c] = wait /\ calls'[RefreshCall] = Sent("refresh")
          /\ \A d \in Slots \ {c, RefreshCall} : calls'[d] = calls[d]
        BY <1>1, <1>2, <2>1
    <2> QED
        BY <1>2, <1>4, <1>5, <1>7, <2>2
<1> QED
    BY <1>6, <1>7

\* A call that ends frees its slot.
LEMMA EndedCall ==
    ASSUME SessionInv, WaitInv, NEW c \in Slots,
           LoginAnswered(c) \/ BootAnswered(c) \/ Ends(c) \/ LogoutAnswered(c)
    PROVE  calls' = [calls EXCEPT ![c] = Free] /\ c # RefreshCall /\ owner' = owner
<1>1. calls[c].kind \in {"login", "boot", "get", "logout"}
    BY DEF LoginAnswered, BootAnswered, Ends, LogoutAnswered
<1>2. c # RefreshCall
    BY <1>1 DEF WaitInv
<1>3. calls' = [calls EXCEPT ![c] = Free] /\ owner' = owner
    BY DEF LoginAnswered, BootAnswered, Ends, LogoutAnswered, server
<1> QED
    BY <1>2, <1>3

\* An answer that is lost ends the call, and with a refresh those that wait for it.
LEMMA LostCalls ==
    ASSUME SessionAssumption, SessionInv, WaitInv, NEW c \in Slots, LoseCall(c)
    PROVE  /\ owner' = owner
           /\ \A d \in Slots : calls'[d] \in {Free, calls[d]}
           /\ calls'[RefreshCall] # calls[RefreshCall] =>
                \A d \in Slots : calls'[d].at # "waiting"
<1>1. /\ \A d \in Slots : calls'[d] =
              IF d = c \/ (calls[c].kind = "refresh" /\ calls[d].at = "waiting") THEN Free
              ELSE calls[d]
      /\ owner' = owner /\ calls[c].kind # "free" /\ calls[c].at # "waiting"
    BY DEF LoseCall, server
<1>2. RefreshCall \in Slots /\ Free.at # "waiting"
    BY WhoRuns, FreeFields
<1>3. calls[RefreshCall].at # "waiting"
    <2>1. CallSound(calls[RefreshCall])
        BY <1>2, CallFields
    <2> QED
        BY <2>1 DEF WaitInv, CallSound
<1>4. ASSUME calls'[RefreshCall] # calls[RefreshCall]
      PROVE  c = RefreshCall /\ calls[c].kind = "refresh"
    BY <1>1, <1>2, <1>3, <1>4 DEF WaitInv
<1> QED
    BY <1>1, <1>2, <1>4

\* A call leaves for a free slot.
LEMMA NewCall ==
    ASSUME SessionAssumption, SessionInv, NEW c \in Slots,
           \/ Get(c) \/ SignOut(c) \/ SocketRefused(c)
           \/ \E a \in Accounts, right \in BOOLEAN : SubmitLogin(c, a, right)
    PROVE  /\ c # RefreshCall /\ calls[c].kind = "free" /\ owner' = owner
           /\ \E rec : /\ calls' = [calls EXCEPT ![c] = rec] /\ rec.at = "sent"
                       /\ rec.kind = "login" => Cardinality(DOMAIN owner) < MaxSessions
<1>1. CASE Get(c)
    <2>1. Sent("get").kind = "get" /\ Sent("get").at = "sent"
        BY SentFields DEF SessionInv
    <2> QED
        BY <1>1, <2>1 DEF Get, NextSlot, server
<1>2. CASE LogoutCall(c)
    <2>1. Sent("logout").kind = "logout" /\ Sent("logout").at = "sent"
        BY SentFields DEF SessionInv
    <2> QED
        BY <1>2, <2>1 DEF LogoutCall, NextSlot, server
<1>3. ASSUME NEW a \in Accounts, NEW right \in BOOLEAN, SubmitLogin(c, a, right)
      PROVE  /\ c # RefreshCall /\ calls[c].kind = "free" /\ owner' = owner
             /\ \E rec : /\ calls' = [calls EXCEPT ![c] = rec] /\ rec.at = "sent"
                         /\ rec.kind = "login" => Cardinality(DOMAIN owner) < MaxSessions
    <2> DEFINE rec == [Sent("login") EXCEPT !.who = a, !.right = right]
    <2>1. Sent("login") \in Call /\ Sent("login").kind = "login" /\ Sent("login").at = "sent"
        BY SentFields DEF SessionInv
    <2>2. rec.at = "sent"
        BY <2>1 DEF Call
    <2>3. calls' = [calls EXCEPT ![c] = rec]
        BY <1>3 DEF SubmitLogin
    <2>4. /\ c # RefreshCall /\ calls[c].kind = "free" /\ owner' = owner
          /\ Cardinality(DOMAIN owner) < MaxSessions
        BY <1>3 DEF SubmitLogin, NextSlot, server
    <2> HIDE DEF rec
    <2> QED
        BY <2>2, <2>3, <2>4
<1> QED
    BY <1>1, <1>2, <1>3 DEF SignOut, SocketRefused

\* Expired tokens are no answer.
LEMMA ExpiredCalls ==
    ASSUME SessionInv, TokensExpire, NEW d \in Slots
    PROVE  /\ calls'[d].kind = calls[d].kind /\ calls'[d].at = calls[d].at
           /\ calls'[d].retried = calls[d].retried /\ calls'[d].right = calls[d].right
           /\ owner' = owner
<1>1. calls[d] \in Call
    BY CallFields
<1>2. calls'[d] = [calls[d] EXCEPT !.token = Over(@)] /\ owner' = owner
    BY DEF TokensExpire, server
<1> QED
    BY <1>1, <1>2 DEF Call

\* One step, as the calls see it.
LEMMA NextMoves ==
    ASSUME SessionAssumption, SessionInv, WaitInv, [Next]_vars, ~Reload, NEW d \in Slots
    PROVE  Moves(calls[d], calls'[d])
<1>1. ASSUME NEW c \in Slots, Handle(c) PROVE Moves(calls[d], calls'[d])
    <2>1. PICK rec : calls' = [calls EXCEPT ![c] = rec] /\ HandledTo(calls[c], rec)
        BY <1>1, HandledCall
    <2>2. Moves(calls[c], rec)
        BY <2>1 DEF HandledTo, Moves
    <2> QED
        BY <2>1, <2>2, OneCallMoves
<1>2. ASSUME NEW c \in Slots,
             LoginAnswered(c) \/ BootAnswered(c) \/ Ends(c) \/ LogoutAnswered(c)
      PROVE  Moves(calls[d], calls'[d])
    <2>1. calls' = [calls EXCEPT ![c] = Free] /\ Moves(calls[c], Free)
        BY <1>2, EndedCall, FreeFields DEF Moves
    <2> QED
        BY <2>1, OneCallMoves
<1>3. ASSUME NEW c \in Slots, RefreshAnswered(c) PROVE Moves(calls[d], calls'[d])
    BY <1>3, AnsweredCalls, FreeFields DEF Moves
<1>4. ASSUME NEW c \in Slots, DeniedOnce(c) PROVE Moves(calls[d], calls'[d])
    <2>1. calls[c].kind \in {"login", "get"} /\ calls[c].at = "denied" /\ ~calls[c].retried
        BY <1>4 DEF DeniedOnce, Retries
    <2> QED
        BY <1>4, <2>1, DeniedCalls DEF Moves, Refreshing
<1>5. ASSUME NEW c \in Slots,
             \/ Get(c) \/ SignOut(c) \/ SocketRefused(c)
             \/ \E a \in Accounts, right \in BOOLEAN : SubmitLogin(c, a, right)
      PROVE  Moves(calls[d], calls'[d])
    <2>1. PICK rec : calls' = [calls EXCEPT ![c] = rec] /\ calls[c].kind = "free"
        BY <1>5, NewCall
    <2>2. Moves(calls[c], rec)
        BY <2>1 DEF Moves
    <2> QED
        BY <2>1, <2>2, OneCallMoves
<1>6. ASSUME NEW c \in Slots, LoseCall(c) PROVE Moves(calls[d], calls'[d])
    <2>1. calls'[d] \in {Free, calls[d]}
        BY <1>6, LostCalls
    <2> QED
        BY <2>1, FreeFields DEF Moves
<1>7. CASE TokensExpire
    BY <1>7, ExpiredCalls DEF Moves, Place
<1>8. CASE UNCHANGED calls
    BY <1>8 DEF Moves
<1>9. SocketOpens \/ SocketDrops \/ (\E s \in Sessions : SessionEnds(s)) => UNCHANGED calls
    BY DEF SocketOpens, SocketDrops, SessionEnds
<1> QED
    BY <1>1, <1>2, <1>3, <1>4, <1>5, <1>6, <1>7, <1>8, <1>9 DEF Next, Receive, vars

\* A step that changes one call, and starts no wait, keeps the waits in order.
LEMMA OneCallWaits ==
    ASSUME SessionAssumption, SessionInv, WaitInv, NEW c \in Slots, NEW rec,
           calls' = [calls EXCEPT ![c] = rec], rec.at # "waiting",
           c = RefreshCall => rec.kind = calls[c].kind,
           \/ owner' = owner /\ RoomFor(rec)
           \/ calls[c].kind = "login" /\ rec.at # "sent"
    PROVE  WaitInv'
<1>1. \A d \in Slots : calls'[d] = IF d = c THEN rec ELSE calls[d]
    BY DEF SessionInv, TypeOK
<1>2. RefreshCall \in Slots /\ (calls'[RefreshCall].kind = calls[RefreshCall].kind)
    BY <1>1, WhoRuns
<1>3. \A d \in Slots : RoomFor(calls[d])'
    <2>1. CASE owner' = owner /\ RoomFor(rec)
        BY <1>1, <2>1 DEF WaitInv, RoomFor
    <2>2. CASE calls[c].kind = "login" /\ rec.at # "sent"
        <3>1. \A d \in Slots \ {c} : calls[d].kind # "login"
            BY <2>2 DEF SessionInv, LoginSound
        <3> QED
            BY <1>1, <2>2, <3>1 DEF RoomFor
    <2> QED
        BY <2>1, <2>2
<1> QED
    BY <1>1, <1>2, <1>3 DEF WaitInv, Refreshing

\* A call that left for the refresh waits for it until it is over.
LEMMA WaitNext ==
    ASSUME SessionAssumption, SessionInv, WaitInv, [Next]_vars
    PROVE  WaitInv'
<1>1. ASSUME NEW c \in Slots, Handle(c) PROVE WaitInv'
    <2>1. PICK rec : calls' = [calls EXCEPT ![c] = rec] /\ HandledTo(calls[c], rec)
        BY <1>1, HandledCall
    <2>2. owner' = owner \/ calls[c].kind = "login"
        BY <1>1, HandledCall
    <2>3. /\ rec.at \notin {"waiting", "sent"} /\ rec.kind = calls[c].kind
          /\ RoomFor(rec)
        BY <2>1 DEF HandledTo, RoomFor
    <2> QED
        BY <2>1, <2>2, <2>3, OneCallWaits
<1>2. ASSUME NEW c \in Slots,
             LoginAnswered(c) \/ BootAnswered(c) \/ Ends(c) \/ LogoutAnswered(c)
      PROVE  WaitInv'
    <2>1. /\ calls' = [calls EXCEPT ![c] = Free] /\ c # RefreshCall /\ owner' = owner
          /\ Free.at = "sent" /\ RoomFor(Free)
        BY <1>2, EndedCall, FreeFields DEF RoomFor
    <2> QED
        BY <2>1, OneCallWaits
<1>3. ASSUME NEW c \in Slots, RefreshAnswered(c) PROVE WaitInv'
    <2>1. c = RefreshCall /\ owner' = owner
        BY <1>3 DEF RefreshAnswered, SessionInv, TypeOK, server
    <2>2. calls'[RefreshCall].kind = "free"
        BY <1>3, <2>1, AnsweredCalls, FreeFields
    <2>3. \A d \in Slots : calls'[d].at # "waiting"
        BY <1>3, AnsweredCalls, FreeFields
    <2>4. \A d \in Slots : calls[d].at = "waiting" /\ calls[d].kind = "login" => ~calls[d].right
        BY CallFields DEF CallSound
    <2>5. \A d \in Slots : RoomFor(calls[d])'
        BY <1>3, <2>1, <2>4, AnsweredCalls, FreeFields DEF RoomFor, WaitInv
    <2> QED
        BY <2>2, <2>3, <2>5 DEF WaitInv
<1>4. ASSUME NEW c \in Slots, DeniedOnce(c) PROVE WaitInv'
    <2>1. owner' = owner /\ RefreshCall \in Slots
        BY <1>4, WhoRuns DEF DeniedOnce, server
    <2>2. /\ calls'[c].at = "waiting" /\ calls'[c].retried /\ calls'[RefreshCall].kind = "refresh"
          /\ \A d \in Slots \ {c, RefreshCall} : calls'[d] = calls[d]
        BY <1>4, DeniedCalls
    <2>3. calls'[RefreshCall].at = "waiting" => calls'[RefreshCall].retried
        BY <1>4, <2>1, DeniedCalls DEF WaitInv
    <2>4. \A d \in Slots : RoomFor(calls[d])'
        BY <2>1, <2>2 DEF RoomFor, WaitInv
    <2> QED
        BY <2>2, <2>3, <2>4 DEF WaitInv, Refreshing
<1>5. ASSUME NEW c \in Slots,
             \/ Get(c) \/ SignOut(c) \/ SocketRefused(c)
             \/ \E a \in Accounts, right \in BOOLEAN : SubmitLogin(c, a, right)
      PROVE  WaitInv'
    <2>1. PICK rec : /\ calls' = [calls EXCEPT ![c] = rec] /\ rec.at = "sent"
                     /\ rec.kind = "login" => Cardinality(DOMAIN owner) < MaxSessions
        BY <1>5, NewCall
    <2>2. c # RefreshCall /\ owner' = owner
        BY <1>5, NewCall
    <2>3. RoomFor(rec)
        BY <2>1 DEF RoomFor
    <2> QED
        BY <2>1, <2>2, <2>3, OneCallWaits
<1>6. ASSUME NEW c \in Slots, LoseCall(c) PROVE WaitInv'
    <2>1. /\ owner' = owner /\ RefreshCall \in Slots
          /\ \A d \in Slots : calls'[d] \in {Free, calls[d]}
          /\ calls'[RefreshCall] # calls[RefreshCall] =>
                \A d \in Slots : calls'[d].at # "waiting"
        BY <1>6, LostCalls, WhoRuns
    <2>2. \A d \in Slots : RoomFor(calls[d])'
        BY <2>1, FreeFields DEF RoomFor, WaitInv
    <2> QED
        BY <2>1, <2>2, FreeFields DEF WaitInv, Refreshing
<1>7. CASE TokensExpire
    <2>1. owner' = owner /\ RefreshCall \in Slots
        BY <1>7, WhoRuns DEF TokensExpire, server
    <2>2. \A d \in Slots : RoomFor(calls[d])'
        BY <1>7, <2>1, ExpiredCalls DEF RoomFor, WaitInv
    <2> QED
        BY <1>7, <2>1, <2>2, ExpiredCalls DEF WaitInv, Refreshing
<1>8. CASE UNCHANGED <<calls, owner>>
    BY <1>8 DEF WaitInv, Refreshing, RoomFor
<1>9. CASE Reload
    <2>1. /\ \A d \in Slots : calls'[d] = IF d = 1 THEN Sent("boot") ELSE Free
          /\ RefreshCall \in Slots /\ RefreshCall # 1
        BY <1>9, WhoRuns DEF Reload
    <2>2. Sent("boot").kind = "boot" /\ Sent("boot").at = "sent"
        BY SentFields DEF SessionInv
    <2> QED
        BY <2>1, <2>2, FreeFields DEF WaitInv, RoomFor
<1>10. SocketOpens \/ SocketDrops \/ (\E s \in Sessions : SessionEnds(s)) \/ UNCHANGED vars
         => UNCHANGED <<calls, owner>>
    BY DEF SocketOpens, SocketDrops, SessionEnds, vars, server
<1> QED
    BY <1>1, <1>2, <1>3, <1>4, <1>5, <1>6, <1>7, <1>8, <1>9, <1>10 DEF Next, Receive

\* The invariant the ends of the calls need.
LEMMA EndsInvariant == Spec => []EndsInv
<1>1. Init => WaitInv
    <2> SUFFICES ASSUME Init PROVE WaitInv
        OBVIOUS
    <2>1. /\ \A d \in Slots : calls[d] = IF d = 1 THEN Sent("boot") ELSE Free
          /\ RefreshCall \in Slots /\ RefreshCall # 1
        BY SessionAssumption, WhoRuns DEF Init
    <2>2. Sent("boot").kind = "boot" /\ Sent("boot").at = "sent"
        BY DEF Sent, Free
    <2> QED
        BY <2>1, <2>2, FreeFields DEF WaitInv, RoomFor
<1>2. SessionInv /\ WaitInv /\ [Next]_vars => WaitInv'
    BY SessionAssumption, WaitNext
<1>3. SessionInv /\ WaitInv => EndsInv
    BY DEF EndsInv
<1> QED
    BY <1>1, <1>2, <1>3, SessionInvariant, PTL DEF Spec

----------------------------------------------------------------------------
(* Every call ends *)

\* How far a call is: sent, sent again, found by a refresh, refused once, waiting
\* for the refresh, answered for good, over.
First(k)    == k.kind # "free" /\ k.at = "sent" /\ ~k.retried
Again(k)    == k.kind # "free" /\ k.at = "sent" /\ k.retried
Looked(k)   == k.kind # "free" /\ k.at = "found"
Refused(k)  == k.kind \in {"login", "get"} /\ k.at = "denied" /\ ~k.retried
Waits(k)    == k.kind # "free" /\ k.at = "waiting"
Answered(k) == k.kind # "free" /\ k.at \in {"ok", "denied"} /\ ~Refused(k)
Gone(k)     == k.kind = "free"

\* The gateway has an answer to work on, or the tab one to take.
HandleDue(c) ==
    /\ calls[c].kind # "free"
    /\ calls[c].at = "found" \/ (calls[c].at = "sent" /\ RoomFor(calls[c]))

ReceiveDue(c) == calls[c].kind # "free" /\ calls[c].at \in {"ok", "denied"}

\* What stays due is done: what FairSpec says of a call, with what makes its
\* steps possible written out.
Served(c) ==
    /\ <>[]HandleDue(c) => []<><<Handle(c)>>_vars
    /\ <>[]ReceiveDue(c) => []<><<Receive(c)>>_vars

AllServed == \A c \in Slots : Served(c)

\* Every call is at one of the stages.
LEMMA Stages ==
    ASSUME NEW k \in Call
    PROVE  First(k) \/ Again(k) \/ Looked(k) \/ Refused(k) \/ Waits(k) \/ Answered(k) \/ Gone(k)
BY DEF Call, First, Again, Looked, Refused, Waits, Answered, Gone

\* What a step makes of a call at each stage.
LEMMA StageMoves ==
    ASSUME NEW k \in Call, NEW m \in Call, Moves(k, m), Waits(k) => k.retried
    PROVE  /\ First(k) => First(m) \/ Looked(m) \/ Refused(m) \/ Answered(m) \/ Gone(m)
           /\ Looked(k) => Looked(m) \/ Answered(m) \/ Gone(m)
           /\ Refused(k) => Refused(m) \/ Waits(m) \/ Gone(m)
           /\ Waits(k) => Waits(m) \/ Again(m) \/ Gone(m)
           /\ Again(k) => Again(m) \/ Looked(m) \/ Answered(m) \/ Gone(m)
           /\ Answered(k) => Answered(m) \/ Gone(m)
<1>1. CASE m.kind = "free"
    BY <1>1 DEF Gone
<1>2. CASE k.kind = "free"
    BY <1>2 DEF First, Again, Looked, Refused, Waits, Answered
<1>3. CASE Place(m) = Place(k)
    BY <1>3 DEF Place, First, Again, Looked, Refused, Waits, Answered
<1>4. CASE /\ m.kind = k.kind /\ m.retried = k.retried /\ k.kind # "free"
           /\ \/ k.at = "sent" /\ m.at \in {"found", "ok", "denied"}
              \/ k.at = "found" /\ m.at = "ok"
              \/ k.at = "waiting" /\ m.at = "sent"
    BY <1>4 DEF First, Again, Looked, Refused, Waits, Answered, Call
<1>5. CASE /\ m.kind = k.kind /\ k.kind \in {"login", "get"}
           /\ k.at = "denied" /\ ~k.retried /\ m.at = "waiting" /\ m.retried
    BY <1>5 DEF First, Again, Looked, Refused, Waits, Answered
<1> QED
    BY <1>1, <1>2, <1>3, <1>4, <1>5 DEF Moves

\* The same of a step of the program.
LEMMA StepStages ==
    ASSUME SessionAssumption, EndsInv, EndsInv', [Next]_vars, ~Reload, NEW c \in Slots
    PROVE  LET k == calls[c] m == calls'[c]
           IN  /\ First(k) => First(m) \/ Looked(m) \/ Refused(m) \/ Answered(m) \/ Gone(m)
               /\ Looked(k) => Looked(m) \/ Answered(m) \/ Gone(m)
               /\ Refused(k) => Refused(m) \/ Waits(m) \/ Gone(m)
               /\ Waits(k) => Waits(m) \/ Again(m) \/ Gone(m)
               /\ Again(k) => Again(m) \/ Looked(m) \/ Answered(m) \/ Gone(m)
               /\ Answered(k) => Answered(m) \/ Gone(m)
<1>1. calls[c] \in Call /\ calls'[c] \in Call
    BY DEF EndsInv, SessionInv, TypeOK
<1>2. Moves(calls[c], calls'[c])
    BY NextMoves DEF EndsInv
<1>3. Waits(calls[c]) => calls[c].retried
    BY DEF EndsInv, WaitInv, Waits
<1> QED
    BY <1>1, <1>2, <1>3, StageMoves

\* What is handled is no longer as it was.
LEMMA HandleStages ==
    ASSUME SessionAssumption, EndsInv, NEW c \in Slots, Handle(c)
    PROVE  LET m == calls'[c]
           IN  ~First(m) /\ ~Again(m) /\ (Looked(m) => ~Looked(calls[c]))
<1>1. PICK rec : calls' = [calls EXCEPT ![c] = rec] /\ HandledTo(calls[c], rec)
    BY HandledCall DEF EndsInv
<1>2. calls'[c] = rec
    BY <1>1 DEF EndsInv, SessionInv, TypeOK
<1> QED
    BY <1>1, <1>2 DEF HandledTo, First, Again, Looked

\* Nor is what was received.
LEMMA ReceiveStages ==
    ASSUME SessionAssumption, EndsInv, NEW c \in Slots, Receive(c)
    PROVE  ~Answered(calls'[c]) /\ ~Refused(calls'[c])
<1>1. CASE LoginAnswered(c) \/ BootAnswered(c) \/ Ends(c) \/ LogoutAnswered(c)
    <2>1. calls' = [calls EXCEPT ![c] = Free]
        BY <1>1, EndedCall DEF EndsInv
    <2> QED
        BY <2>1, FreeFields DEF EndsInv, SessionInv, TypeOK, Answered, Refused
<1>2. CASE RefreshAnswered(c)
    BY <1>2, AnsweredCalls, FreeFields DEF EndsInv, Answered, Refused
<1>3. CASE DeniedOnce(c)
    BY <1>3, DeniedCalls DEF EndsInv, Answered, Refused
<1> QED
    BY <1>1, <1>2, <1>3 DEF Receive

\* A call is due at each stage but that of waiting.
LEMMA StagesDue ==
    ASSUME EndsInv, NEW c \in Slots
    PROVE  /\ First(calls[c]) \/ Again(calls[c]) \/ Looked(calls[c]) => HandleDue(c)
           /\ Refused(calls[c]) \/ Answered(calls[c]) => ReceiveDue(c)
BY DEF EndsInv, WaitInv, First, Again, Looked, Refused, Answered, HandleDue, ReceiveDue

\* The refresh calls never wait.
LEMMA RefreshStages ==
    ASSUME SessionAssumption, EndsInv
    PROVE  /\ ~Waits(calls[RefreshCall]) /\ ~Refused(calls[RefreshCall])
           /\ \A c \in Slots : Waits(calls[c]) => ~Gone(calls[RefreshCall])
<1>1. CallSound(calls[RefreshCall])
    BY WhoRuns, CallFields DEF EndsInv
<1> QED
    BY <1>1 DEF EndsInv, WaitInv, CallSound, Waits, Refused, Gone, Refreshing

\* From when on the tab is not reloaded.
Settling == []EndsInv /\ [][Next]_vars /\ [][~Reload]_vars

\* From each stage but that of waiting a call comes to a later one.
GoesOn(c) ==
    LET k == calls[c]
    IN  /\ First(k) ~> (Looked(k) \/ Refused(k) \/ Answered(k) \/ Gone(k))
        /\ Again(k) ~> (Looked(k) \/ Answered(k) \/ Gone(k))
        /\ Looked(k) ~> (Answered(k) \/ Gone(k))
        /\ Refused(k) ~> (Waits(k) \/ Gone(k))
        /\ Waits(k) => []Waits(k) \/ <>(Again(k) \/ Gone(k))
        /\ Answered(k) ~> Gone(k)

\* Each stage but that of waiting passes, if what is due is done.
LEMMA CallStages ==
    ASSUME NEW c \in Slots
    PROVE  Settling /\ Served(c) => GoesOn(c)
<1> DEFINE F == First(calls[c])   A == Again(calls[c])  L == Looked(calls[c])
           R == Refused(calls[c]) W == Waits(calls[c])
           D == Answered(calls[c]) G == Gone(calls[c])
           H == HandleDue(c)  V == ReceiveDue(c)
<1>1. EndsInv /\ EndsInv' /\ [Next]_vars /\ [~Reload]_vars
        => /\ F => F' \/ L' \/ R' \/ D' \/ G'
           /\ L => L' \/ D' \/ G'
           /\ R => R' \/ W' \/ G'
           /\ W => W' \/ A' \/ G'
           /\ A => A' \/ L' \/ D' \/ G'
           /\ D => D' \/ G'
    <2> SUFFICES ASSUME EndsInv, EndsInv', [Next]_vars, [~Reload]_vars
                 PROVE  /\ F => F' \/ L' \/ R' \/ D' \/ G'
                        /\ L => L' \/ D' \/ G'
                        /\ R => R' \/ W' \/ G'
                        /\ W => W' \/ A' \/ G'
                        /\ A => A' \/ L' \/ D' \/ G'
                        /\ D => D' \/ G'
        OBVIOUS
    <2>1. CASE UNCHANGED vars
        BY <2>1 DEF vars, First, Again, Looked, Refused, Waits, Answered, Gone
    <2>2. CASE ~Reload
        BY <2>2, StepStages, SessionAssumption
    <2> QED
        BY <2>1, <2>2
<1>2. EndsInv /\ <<Handle(c)>>_vars => ~F' /\ ~A' /\ (L' => ~L)
    BY HandleStages, SessionAssumption
<1>3. EndsInv /\ <<Receive(c)>>_vars => ~D' /\ ~R'
    BY ReceiveStages, SessionAssumption
<1>4. Served(c) => /\ <>[]H => []<><<Handle(c)>>_vars
                   /\ <>[]V => []<><<Receive(c)>>_vars
    BY DEF Served
<1>5. EndsInv => (F \/ A \/ L => H) /\ (R \/ D => V)
    BY StagesDue
<1> HIDE DEF F, A, L, R, W, D, G, H, V
<1>6. Settling /\ Served(c) => (F ~> (L \/ R \/ D \/ G))
    BY <1>1, <1>2, <1>4, <1>5, PTL DEF Settling
<1>7. Settling /\ Served(c) => (A ~> (L \/ D \/ G))
    BY <1>1, <1>2, <1>4, <1>5, PTL DEF Settling
<1>8. Settling /\ Served(c) => (L ~> (D \/ G))
    BY <1>1, <1>2, <1>4, <1>5, PTL DEF Settling
<1>9. Settling /\ Served(c) => (R ~> (W \/ G))
    BY <1>1, <1>3, <1>4, <1>5, PTL DEF Settling
<1>10. Settling /\ Served(c) => (D ~> G)
    BY <1>1, <1>3, <1>4, <1>5, PTL DEF Settling
<1>11. Settling => (W => []W \/ <>(A \/ G))
    BY <1>1, PTL DEF Settling
<1> QED
    BY <1>6, <1>7, <1>8, <1>9, <1>10, <1>11, PTL DEF GoesOn, F, A, L, R, W, D, G

\* The refresh ends, whoever waits for it.
LEMMA RefreshEnds ==
    Settling /\ Served(RefreshCall)
      => (~Gone(calls[RefreshCall]) ~> Gone(calls[RefreshCall]))
<1> DEFINE k == calls[RefreshCall]
<1>1. Settling /\ Served(RefreshCall) => GoesOn(RefreshCall)
    BY SessionAssumption, WhoRuns, CallStages
<1>2. EndsInv => /\ First(k) \/ Again(k) \/ Looked(k) \/ Answered(k) \/ Gone(k)
                 /\ ~Refused(k)
    BY SessionAssumption, WhoRuns, RefreshStages, Stages DEF EndsInv, SessionInv, TypeOK
<1> QED
    BY <1>1, <1>2, PTL DEF Settling, GoesOn

\* A call that waits goes on when the refresh ends, and waits only once.
LEMMA CallEnds ==
    ASSUME NEW c \in Slots
    PROVE  Settling /\ Served(c) /\ Served(RefreshCall)
             => (~Gone(calls[c]) ~> Gone(calls[c]))
<1> DEFINE k == calls[c]
<1>1. Settling /\ Served(c) => GoesOn(c)
    BY CallStages
<1>2. EndsInv => /\ \/ First(k) \/ Again(k) \/ Looked(k) \/ Refused(k) \/ Waits(k)
                    \/ Answered(k) \/ Gone(k)
                 /\ Waits(k) => ~Gone(calls[RefreshCall])
    BY SessionAssumption, RefreshStages, Stages DEF EndsInv, SessionInv, TypeOK
<1> QED
    BY <1>1, <1>2, RefreshEnds, PTL DEF Settling, Served, GoesOn

\* For any number of accounts, calls, sessions and faults every call ends, if what
\* stays due is done and the tab is not reloaded for ever: no wrong password, and
\* no refresh that fails, sends a call round in circles.
THEOREM CallsEnd == Spec /\ AllServed /\ <>[][~Reload]_vars => EveryCallEnds
<1> SUFFICES ASSUME NEW c \in Slots
             PROVE  Spec /\ AllServed /\ <>[][~Reload]_vars
                      => (calls[c].kind # "free" ~> calls[c].kind = "free")
    BY DEF EveryCallEnds
<1>1. AllServed => Served(c) /\ Served(RefreshCall)
    BY SessionAssumption, WhoRuns DEF AllServed
<1>2. Gone(calls[c]) <=> calls[c].kind = "free"
    BY DEF Gone
<1> QED
    BY <1>1, <1>2, CallEnds, EndsInvariant, PTL DEF Spec, Settling, Served
=============================================================================
