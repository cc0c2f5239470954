--------------------------- MODULE ClientSession ---------------------------
(***************************************************************************)
(* Who is signed in: a browser tab (client/src/context/AuthContext.jsx,    *)
(* lib/api.js, lib/socket.js, pages/Login.jsx) with the refresh sessions   *)
(* and access tokens of the gateway (controllers/authController.js,        *)
(* middleware/auth.js, config/socket.js).                                  *)
(*                                                                         *)
(* The tab's calls are answered in any order.  A call that is answered 401 *)
(* waits for one refresh shared by all and is sent once more.  The browser *)
(* keeps the refresh cookie: it is sent as it is when a call leaves and    *)
(* changed as answers arrive.  An access token is its account and whether  *)
(* its fifteen minutes are over.                                           *)
(***************************************************************************)
EXTENDS Integers, FiniteSets

CONSTANTS
    Accounts, NoAccount,
    MaxCalls,        \* calls the tab has under way at a time, a refresh aside
    MaxSessions,     \* bound: refresh sessions created
    MaxExpiries,     \* bound: times the access tokens expire
    MaxReloads,      \* bound: reloads of the tab
    MaxFaults        \* bound: lost calls and refresh sessions past thirty days

ASSUME SessionAssumption ==
    /\ NoAccount \notin Accounts /\ MaxCalls \in Nat \ {0}
    /\ MaxSessions \in Nat /\ MaxExpiries \in Nat /\ MaxReloads \in Nat /\ MaxFaults \in Nat

VARIABLES
    owner,      \* the account of each RefreshSession
    revoked,    \* those with revokedAt
    ended,      \* those past expiresAt
    cookie,     \* refresh_token: the session the browser holds
    stored,     \* sessionStorage "token"
    user,       \* the provider's user
    loading,    \* the first refresh is not over: nothing else is shown
    socket,     \* the tab's Socket.IO connection
    calls,      \* the calls under way
    signedOut,  \* logout() ran after the last sign-in (history)
    stray,      \* calls were under way when the user last signed in or out or
                \* tried to, or a logout never reached the gateway (history)
    expiries, reloads, faults

server == <<owner, revoked, ended>>
tab == <<cookie, stored, user, loading, socket>>
history == <<signedOut, stray>>
bounds == <<expiries, reloads, faults>>
vars == <<server, tab, calls, history, bounds>>

----------------------------------------------------------------------------
(* Types *)

NoSession == 0
Sessions == 1 .. MaxSessions
Live(s) == s \in DOMAIN owner \ (revoked \cup ended)

Token == [who : Accounts, live : BOOLEAN]
NoToken == [who |-> NoAccount, live |-> FALSE]
Fresh(a) == [who |-> a, live |-> TRUE]

\* refreshPromise is one call of its own.
RefreshCall == 0
Slots == 0 .. MaxCalls

\* What an answer does to the cookie.
Keep == -1

Call ==
    [kind    : {"free", "boot", "refresh", "login", "logout", "get"},
     at      : {"sent", "found", "waiting", "ok", "denied"},
     cookie  : Sessions \cup {NoSession},          \* as sent; what refresh found
     token   : Token \cup {NoToken},               \* as sent; what is answered
     who     : Accounts \cup {NoAccount},          \* the account of a login
     right   : BOOLEAN,                            \* its password is right
     retried : BOOLEAN,                            \* _retry
     set     : Sessions \cup {NoSession, Keep}]

Free == [kind |-> "free", at |-> "sent", cookie |-> NoSession, token |-> NoToken,
         who |-> NoAccount, right |-> TRUE, retried |-> FALSE, set |-> Keep]

\* Every call leaves with the cookie and the stored token of its moment; each is
\* kept where the gateway reads it.
CookieOf(kind, k) == IF kind \in {"boot", "refresh", "logout"} THEN k ELSE NoSession
TokenOf(kind, t) == IF kind = "get" THEN t ELSE NoToken

Sent(kind) ==
    [Free EXCEPT !.kind = kind, !.cookie = CookieOf(kind, cookie),
                 !.token = TokenOf(kind, stored)]

NoSocket == [at |-> "none", token |-> NoToken]
Connecting(t) == [at |-> "connecting", token |-> t]

Running == {c \in Slots : calls[c].kind # "free"}
\* The slot of the next call.
NextSlot(c) ==
    /\ c # RefreshCall /\ calls[c].kind = "free"
    /\ \A d \in 1 .. c - 1 : calls[d].kind # "free"

Refreshing == calls[RefreshCall].kind # "free"

Init ==
    /\ owner = [s \in {} |-> NoAccount] /\ revoked = {} /\ ended = {}
    /\ cookie = NoSession /\ stored = NoToken /\ user = NoAccount
    /\ loading = TRUE /\ socket = NoSocket
    /\ calls = [c \in Slots |-> IF c = 1 THEN Sent("boot") ELSE Free]
    /\ signedOut = FALSE /\ stray = FALSE
    /\ expiries = 0 /\ reloads = 0 /\ faults = 0

----------------------------------------------------------------------------
(* The gateway *)

Answer(c, rec) ==
    /\ calls' = [calls EXCEPT ![c] = rec]
    /\ UNCHANGED <<tab, history, bounds>>

\* A login or registration.  Nothing is answered before the session is stored.
Login(c) ==
    LET s == Cardinality(DOMAIN owner) + 1
    IN  /\ calls[c].kind = "login" /\ calls[c].at = "sent"
        /\ IF calls[c].right
             THEN /\ s \in Sessions
                  /\ owner' = [t \in 1 .. s |-> IF t = s THEN calls[c].who ELSE owner[t]]
                  /\ Answer(c, [calls[c] EXCEPT !.at = "ok", !.set = s,
                                                !.token = Fresh(calls[c].who)])
             ELSE Answer(c, [calls[c] EXCEPT !.at = "denied"]) /\ UNCHANGED owner
        /\ UNCHANGED <<revoked, ended>>

\* Mutant: a revoked session is as good as any.
FoundRevoked(s) == s \in DOMAIN owner \ ended

Found(s) == Live(s)

\* refresh reads the session, and then answers for what it read.
FindSession(c) ==
    /\ calls[c].kind \in {"boot", "refresh"} /\ calls[c].at = "sent"
    /\ Answer(c, IF Found(calls[c].cookie) THEN [calls[c] EXCEPT !.at = "found"]
                 ELSE [calls[c] EXCEPT !.at = "denied",
                         !.set = IF calls[c].cookie = NoSession THEN Keep ELSE NoSession])
    /\ UNCHANGED server

IssueToken(c) ==
    /\ calls[c].at = "found"
    /\ Answer(c, [calls[c] EXCEPT !.at = "ok", !.token = Fresh(owner[calls[c].cookie])])
    /\ UNCHANGED server

RevokedBy(k) == {k} \ {NoSession}

Logout(c) ==
    /\ calls[c].kind = "logout" /\ calls[c].at = "sent"
    /\ revoked' = revoked \cup RevokedBy(calls[c].cookie)
    /\ Answer(c, [calls[c] EXCEPT !.at = "ok", !.set = NoSession])
    /\ UNCHANGED <<owner, ended>>

\* Any route behind requireAuth.
RequireAuth(c) ==
    /\ calls[c].kind = "get" /\ calls[c].at = "sent"
    /\ Answer(c, [calls[c] EXCEPT !.at = IF calls[c].token.live THEN "ok" ELSE "denied"])
    /\ UNCHANGED server

Handle(c) == Login(c) \/ FindSession(c) \/ IssueToken(c) \/ Logout(c) \/ RequireAuth(c)

----------------------------------------------------------------------------
(* The tab *)

\* Mutant: a cookie that is there is cleared but never replaced.
SetCookieOnce(c) ==
    cookie' = IF calls[c].set = Keep \/ (cookie # NoSession /\ calls[c].set # NoSession)
              THEN cookie ELSE calls[c].set

SetCookie(c) == cookie' = IF calls[c].set = Keep THEN cookie ELSE calls[c].set

\* Mutant: the socket that is open is kept.
KeepSocket(t) ==
    /\ stored' = t /\ user' = t.who
    /\ socket' = IF socket.at = "none" THEN Connecting(t) ELSE socket

\* applyAuth, bootstrap's assignments and the auth:refreshed listener: the token
\* is stored, the user set and a socket opened with the token.
ApplyAuth(t) == stored' = t /\ user' = t.who /\ socket' = Connecting(t)

\* The answer of a login the user waits for.
LoginAnswered(c) ==
    /\ calls[c].kind = "login" /\ calls[c].at = "ok"
    /\ SetCookie(c) /\ ApplyAuth(calls[c].token)
    /\ calls' = [calls EXCEPT ![c] = Free]
    /\ signedOut' = FALSE /\ stray' = (Running # {c})
    /\ UNCHANGED <<server, loading, bounds>>

BootAnswered(c) ==
    /\ calls[c].kind = "boot" /\ calls[c].at \in {"ok", "denied"}
    /\ SetCookie(c) /\ loading' = FALSE
    /\ IF calls[c].at = "ok" THEN ApplyAuth(calls[c].token)
       ELSE stored' = NoToken /\ UNCHANGED <<user, socket>>
    /\ calls' = [calls EXCEPT ![c] = Free]
    /\ UNCHANGED <<server, history, bounds>>

\* Mutant: a call that was sent again may be sent once more.
RetriesAlways(c) == TRUE

\* The interceptor sends a call once more only.
Retries(c) == ~calls[c].retried

\* refreshPromise settles: the calls that wait for it are sent again with its
\* token, or fail with it.
RefreshAnswered(c) ==
    LET t == calls[c].token
        again(d) == [calls[d] EXCEPT !.at = "sent", !.token = TokenOf(calls[d].kind, t)]
    IN  /\ calls[c].kind = "refresh" /\ calls[c].at \in {"ok", "denied"}
        /\ SetCookie(c)
        /\ IF calls[c].at = "ok" THEN ApplyAuth(t) ELSE UNCHANGED <<stored, user, socket>>
        /\ calls' = [d \in Slots |->
             CASE d = c -> Free
               [] d # c /\ calls[d].at = "waiting" ->
                    IF calls[c].at = "ok" THEN again(d) ELSE Free
               [] OTHER -> calls[d]]
        /\ UNCHANGED <<server, loading, history, bounds>>

\* The interceptor of a first 401 starts the refresh or joins the one that runs;
\* a second one is an error on the page.
DeniedOnce(c) ==
    /\ calls[c].kind \in {"login", "get"} /\ calls[c].at = "denied" /\ Retries(c)
    /\ LET wait == [calls EXCEPT ![c].at = "waiting", ![c].retried = TRUE]
       IN  calls' = IF Refreshing THEN wait
                    ELSE [wait EXCEPT ![RefreshCall] = Sent("refresh")]
    /\ UNCHANGED <<server, tab, history, bounds>>

Ends(c) ==
    /\ \/ calls[c].kind = "get" /\ calls[c].at = "ok"
       \/ calls[c].kind \in {"login", "get"} /\ calls[c].at = "denied" /\ ~Retries(c)
    /\ calls' = [calls EXCEPT ![c] = Free]
    /\ UNCHANGED <<server, tab, history, bounds>>

LogoutAnswered(c) ==
    /\ calls[c].kind = "logout" /\ calls[c].at = "ok"
    /\ SetCookie(c)
    /\ calls' = [calls EXCEPT ![c] = Free]
    /\ UNCHANGED <<server, stored, user, loading, socket, history, bounds>>

Receive(c) ==
    LoginAnswered(c) \/ BootAnswered(c) \/ RefreshAnswered(c) \/ DeniedOnce(c) \/ Ends(c)
      \/ LogoutAnswered(c)

\* The login form: shown to nobody who is signed in, one submission at a time.
SubmitLogin(c, a, right) ==
    /\ NextSlot(c) /\ ~loading /\ user = NoAccount
    /\ \A d \in Slots : calls[d].kind # "login"
    /\ Cardinality(DOMAIN owner) < MaxSessions
    /\ calls' = [calls EXCEPT ![c] = [Sent("login") EXCEPT !.who = a, !.right = right]]
    /\ stray' = (stray \/ Running # {})
    /\ UNCHANGED <<server, tab, signedOut, bounds>>

\* A page's request.
Get(c) ==
    /\ NextSlot(c) /\ user # NoAccount
    /\ calls' = [calls EXCEPT ![c] = Sent("get")]
    /\ UNCHANGED <<server, tab, history, bounds>>

\* logout() does not wait for its request.
LogoutCall(c) ==
    /\ NextSlot(c)
    /\ calls' = [calls EXCEPT ![c] = Sent("logout")]
    /\ stored' = NoToken /\ user' = NoAccount /\ socket' = NoSocket
    /\ signedOut' = TRUE /\ stray' = (Running # {})
    /\ UNCHANGED <<server, cookie, loading, bounds>>

SignOut(c) == user # NoAccount /\ LogoutCall(c)

\* The gateway checks the token of a connection once, when it opens.
SocketOpens ==
    /\ socket.at = "connecting" /\ socket.token.live
    /\ socket' = [socket EXCEPT !.at = "open"]
    /\ UNCHANGED <<server, cookie, stored, user, loading, calls, history, bounds>>

\* connect_error with an expired token is auth:expired, which is logout().
SocketRefused(c) ==
    /\ socket.at = "connecting" /\ ~socket.token.live
    /\ LogoutCall(c)

\* The connection breaks; socket.io opens it again with the token it was given.
SocketDrops ==
    /\ socket.at = "open"
    /\ socket' = [socket EXCEPT !.at = "connecting"]
    /\ UNCHANGED <<server, cookie, stored, user, loading, calls, history, bounds>>

----------------------------------------------------------------------------
(* The environment *)

Over(t) == [t EXCEPT !.live = FALSE]

\* Fifteen minutes pass.
TokensExpire ==
    /\ expiries < MaxExpiries /\ expiries' = expiries + 1
    /\ stored' = Over(stored) /\ socket' = [socket EXCEPT !.token = Over(@)]
    /\ calls' = [c \in Slots |-> [calls[c] EXCEPT !.token = Over(@)]]
    /\ UNCHANGED <<server, cookie, user, loading, history, reloads, faults>>

\* The sessionStorage and the cookie survive.  The calls are given up: one that
\* reaches the gateway does so before.
Reload ==
    /\ reloads < MaxReloads /\ reloads' = reloads + 1
    /\ calls' = [d \in Slots |-> IF d = 1 THEN Sent("boot") ELSE Free]
    /\ user' = NoAccount /\ socket' = NoSocket /\ loading' = TRUE
    /\ stray' = (stray \/ \E d \in Slots : calls[d].kind = "logout" /\ calls[d].at = "sent")
    /\ UNCHANGED <<server, cookie, stored, signedOut, expiries, faults>>

Fault == faults < MaxFaults /\ faults' = faults + 1

\* The network loses a request or its answer: the caller gets an error that is
\* no 401.
LoseCall(c) ==
    /\ Fault
    /\ calls[c].kind # "free" /\ calls[c].at # "waiting"
    /\ calls' = [d \in Slots |->
         IF d = c \/ (calls[c].kind = "refresh" /\ calls[d].at = "waiting") THEN Free
         ELSE calls[d]]
    /\ loading' = (loading /\ calls[c].kind # "boot")
    /\ stray' = (stray \/ (calls[c].kind = "logout" /\ calls[c].at = "sent"))
    /\ UNCHANGED <<server, cookie, stored, user, socket, signedOut, expiries, reloads>>

\* Thirty days pass for a session.
SessionEnds(s) ==
    /\ Fault
    /\ Live(s) /\ ended' = ended \cup {s}
    /\ UNCHANGED <<owner, revoked, tab, calls, history, expiries, reloads>>

Next ==
    \/ \E c \in Slots :
         \/ Handle(c) \/ Receive(c)
         \/ \E a \in Accounts, right \in BOOLEAN : SubmitLogin(c, a, right)
         \/ Get(c) \/ SignOut(c) \/ SocketRefused(c) \/ LoseCall(c)
    \/ SocketOpens \/ SocketDrops \/ TokensExpire \/ Reload
    \/ \E s \in Sessions : SessionEnds(s)

Spec == Init /\ [][Next]_vars

\* The gateway answers what reaches it, and the tab's event loop runs.
FairSpec ==
    Spec /\ \A c \in Slots : WF_vars(Handle(c)) /\ WF_vars(Receive(c))

----------------------------------------------------------------------------
(* Properties *)

TypeOK ==
    /\ \E n \in 0 .. MaxSessions : owner \in [1 .. n -> Accounts]
    /\ revoked \subseteq DOMAIN owner /\ ended \subseteq DOMAIN owner
    /\ cookie \in DOMAIN owner \cup {NoSession}
    /\ stored \in Token \cup {NoToken}
    /\ user \in Accounts \cup {NoAccount}
    /\ loading \in BOOLEAN
    /\ socket \in [at : {"none", "connecting", "open"}, token : Token \cup {NoToken}]
    /\ calls \in [Slots -> Call]
    /\ \A c \in Slots : calls[c].kind = "refresh" => c = RefreshCall
    /\ signedOut \in BOOLEAN /\ stray \in BOOLEAN
    /\ expiries \in 0 .. MaxExpiries /\ reloads \in 0 .. MaxReloads
    /\ faults \in 0 .. MaxFaults

\* The user on the screen, the token the requests carry and the connection that
\* receives the updates are of one account, whatever answers overtake the
\* user's signing in and out; without a user there is no connection.
OneIdentity ==
    IF user = NoAccount THEN socket = NoSocket
    ELSE stored.who = user /\ socket.token.who = user /\ socket.at # "none"

\* Who signed out with no call under way stays out, after a reload too and though
\* the answer of the logout was lost, until they sign in; only a logout the
\* gateway never saw leaves a session to come back to.
SignedOutStays == signedOut /\ ~stray => user = NoAccount

\* Who signed in with no call under way keeps the refresh cookie of a session of
\* their own that no logout revoked, as long as its thirty days last.
SessionKept ==
    user # NoAccount /\ ~stray /\ ended = {} =>
      /\ cookie # NoSession /\ cookie \notin revoked
      /\ owner[cookie] = user

\* Every call ends: it is answered, fails, or is sent again once; a wrong
\* password while a session is left does not go round in circles.
EveryCallEnds == \A c \in Slots : calls[c].kind # "free" ~> calls[c].kind = "free"
=============================================================================
