----------------------------- MODULE Admission -----------------------------
(***************************************************************************)
(* Who may start work: the fixed-window limiter in front of the submit,    *)
(* retry and ask routes (server/src/middleware/rateLimit.js) and the daily *)
(* budgets and active-job reservations kept in one document per user       *)
(* (server/src/services/usageService.js).                                  *)
(*                                                                         *)
(* A request passes the limiter in the gateway's memory, reads the clock,  *)
(* and only then sends the one conditional update that admits or refuses   *)
(* it; the clock may have moved on, past midnight too, when MongoDB applies *)
(* it.  finishJob comes from callbacks and deletions, at any time and any  *)
(* number of times.                                                        *)
(***************************************************************************)
EXTENDS Integers, FiniteSets, Sequences

CONSTANTS
    Users, NoUser,
    Jobs, NoJob,          \* the jobs of a user
    Requests,             \* requests the gateway serves at a time
    MediaSeconds,         \* what a job is charged until it is measured
    DailySeconds, DailyQuestions, ActiveLimit,
    Lease,                \* leaseMs, in ticks
    DayLength,            \* ticks of a UTC day
    Durations, Unknown,   \* measured durations, and none
    Window, WindowMax,    \* windowMs in ticks, and max, of each limiter
    MaxBuckets,           \* entries a limiter keeps
    MaxTime,              \* bound: ticks
    MaxCalls,             \* bound: requests
    MaxRestarts           \* bound: restarts of the gateway

ASSUME AdmissionAssumption ==
    /\ NoUser \notin Users /\ NoJob \notin Jobs
    /\ MediaSeconds \in Nat \ {0} /\ DailySeconds \in Nat /\ DailySeconds >= MediaSeconds
    /\ DailyQuestions \in Nat \ {0} /\ ActiveLimit \in Nat \ {0}
    /\ Lease \in Nat \ {0} /\ DayLength \in Nat \ {0}
    /\ Durations \subseteq Nat /\ Unknown \notin Durations
    /\ Window \in [{"job", "question"} -> Nat \ {0}]
    /\ WindowMax \in [{"job", "question"} -> Nat \ {0}] /\ MaxBuckets \in Nat \ {0}
    /\ MaxTime \in Nat /\ MaxCalls \in Nat /\ MaxRestarts \in Nat

VARIABLES
    time,      \* the clock
    doc,       \* the ResourceUsage document of each user
    buckets,   \* each limiter's Map from users to their window
    request,   \* what each request waits for
    used,      \* seconds charged for work admitted on each day (history)
    asked,     \* questions admitted on each day (history)
    open,      \* reservations made and not finished (history)
    setbacks,  \* times a request of an earlier day was applied last (history)
    lapsed,    \* a reservation ended before its job did (history)
    served,    \* when a limiter let requests through, and in which window (history)
    calls, restarts

budget == <<doc, used, asked, open, setbacks>>
limiter == <<buckets, served>>
vars == <<time, doc, buckets, request, used, asked, open, setbacks, lapsed, served, calls,
          restarts>>

----------------------------------------------------------------------------
(* Types *)

Limiters == {"job", "question"}
Times == 0 .. MaxTime

\* toISOString().slice(0, 10); 0 is the empty day of a new document.
DayOf(t) == 1 + t \div DayLength
Days == 1 .. DayOf(MaxTime)

Reservation == [job : Jobs, day : Days, expires : 0 .. MaxTime + Lease]

Document ==
    [day : Days \cup {0}, seconds : Nat, questions : Nat, active : SUBSET Reservation]

Request ==
    [at : {"idle", "clock", "update"}, for : Limiters, user : Users \cup {NoUser},
     job : Jobs \cup {NoJob}, now : Times]

Bucket == [count : Nat, reset : Nat]

\* A request that was let through, in the window that ends at reset.
Pass == [at : Times, reset : Nat]

Idle == [at |-> "idle", for |-> "job", user |-> NoUser, job |-> NoJob, now |-> 0]

Init ==
    /\ time = 0
    \* ensure() creates the document with these values before its first use.
    /\ doc = [u \in Users |-> [day |-> 0, seconds |-> 0, questions |-> 0, active |-> {}]]
    /\ buckets = [l \in Limiters |-> [u \in {} |-> 0]]
    /\ request = [r \in Requests |-> Idle]
    /\ used = [u \in Users |-> [d \in Days |-> 0]]
    /\ asked = [u \in Users |-> [d \in Days |-> 0]]
    /\ open = [u \in Users |-> {}]
    /\ setbacks = [u \in Users |-> 0]
    /\ lapsed = FALSE
    /\ served = [l \in Limiters |-> [u \in Users |-> <<>>]]
    /\ calls = 0 /\ restarts = 0

----------------------------------------------------------------------------
(* The limiter: one synchronous call, so one step *)

\* Mutant: a full table drops running windows too.
PrunedAll(b) ==
    IF Cardinality(DOMAIN b) >= MaxBuckets THEN [u \in {} |-> 0] ELSE b

\* The entries left when a full table has dropped the windows that are over.
Pruned(b) ==
    LET kept == IF Cardinality(DOMAIN b) >= MaxBuckets
                THEN {u \in DOMAIN b : b[u].reset > time} ELSE DOMAIN b
    IN  [u \in kept |-> b[u]]

\* No room for a user who has no entry.
TableFull(b, u) == u \notin DOMAIN b /\ Cardinality(DOMAIN b) >= MaxBuckets

\* The user's window: the running one, or a new one.
WindowOf(b, u, l) ==
    IF u \in DOMAIN b /\ b[u].reset > time THEN b[u]
    ELSE [count |-> 0, reset |-> time + Window[l]]

Stored(b, u, w) == [v \in DOMAIN b \cup {u} |-> IF v = u THEN w ELSE b[v]]

Arrive(r, u, l, j) ==
    LET b == Pruned(buckets[l])
        w == WindowOf(b, u, l)
        passes == ~TableFull(b, u) /\ w.count < WindowMax[l]
        after == CASE TableFull(b, u) -> b
                   [] passes -> Stored(b, u, [w EXCEPT !.count = @ + 1])
                   [] OTHER -> Stored(b, u, w)
    IN  /\ request[r].at = "idle" /\ calls < MaxCalls
        /\ (l = "job") = (j # NoJob)
        /\ calls' = calls + 1
        /\ buckets' = [buckets EXCEPT ![l] = after]
        /\ served' = IF passes
             THEN [served EXCEPT ![l][u] = Append(@, [at |-> time, reset |-> w.reset])]
             ELSE served
        /\ request' = IF passes
             THEN [request EXCEPT ![r] = [at |-> "clock", for |-> l, user |-> u, job |-> j,
                                          now |-> 0]]
             ELSE request
        /\ UNCHANGED <<time, budget, lapsed, restarts>>

----------------------------------------------------------------------------
(* The budget *)

\* `const now = clock()`; the update is sent with it and applied later.
ReadClock(r) ==
    /\ request[r].at = "clock"
    /\ request' = [request EXCEPT ![r].at = "update", ![r].now = time]
    /\ UNCHANGED <<time, limiter, budget, lapsed, calls, restarts>>

\* The expressions of the update, over the document it finds.
SecondsAt(d, now) == IF d.day = DayOf(now) THEN d.seconds ELSE 0
QuestionsAt(d, now) == IF d.day = DayOf(now) THEN d.questions ELSE 0

\* Mutant: a reservation counts on its own day only.
ActiveToday(d, now) == {v \in d.active : v.expires > now /\ v.day = DayOf(now)}

ActiveAt(d, now) == {v \in d.active : v.expires > now}

Holds(d, now, j) == \E v \in ActiveAt(d, now) : v.job = j

\* Mutant: the limit itself still admits one.
MayReserveOneMore(d, now, j) ==
    \/ Holds(d, now, j)
    \/ /\ Cardinality(ActiveAt(d, now)) <= ActiveLimit
       /\ SecondsAt(d, now) + MediaSeconds <= DailySeconds

MayReserve(d, now, j) ==
    \/ Holds(d, now, j)
    \/ /\ Cardinality(ActiveAt(d, now)) < ActiveLimit
       /\ SecondsAt(d, now) + MediaSeconds <= DailySeconds

\* Mutant: a replay is charged again.
ReservedTwice(d, now, j) ==
    [day |-> DayOf(now), seconds |-> SecondsAt(d, now) + MediaSeconds,
     questions |-> QuestionsAt(d, now),
     active |-> {v \in ActiveAt(d, now) : v.job # j}
       \cup {[job |-> j, day |-> DayOf(now), expires |-> now + Lease]}]

Reserved(d, now, j) ==
    LET new == [job |-> j, day |-> DayOf(now), expires |-> now + Lease]
        again == Holds(d, now, j)
    IN  [day |-> DayOf(now),
         seconds |-> SecondsAt(d, now) + (IF again THEN 0 ELSE MediaSeconds),
         questions |-> QuestionsAt(d, now),
         active |-> ActiveAt(d, now) \cup (IF again THEN {} ELSE {new})]

\* The update moves the document back to the day its request began in.
SetBack(u, now) == IF DayOf(now) < doc[u].day THEN 1 ELSE 0

ReserveJob(r) ==
    LET u == request[r].user  j == request[r].job  now == request[r].now
        charged == MayReserve(doc[u], now, j) /\ ~Holds(doc[u], now, j)
    IN  /\ request[r].at = "update" /\ request[r].for = "job"
        /\ request' = [request EXCEPT ![r] = Idle]
        /\ IF MayReserve(doc[u], now, j)
             THEN /\ doc' = [doc EXCEPT ![u] = Reserved(@, now, j)]
                  /\ setbacks' = [setbacks EXCEPT ![u] = @ + SetBack(u, now)]
             ELSE UNCHANGED <<doc, setbacks>>
        /\ IF charged
             THEN /\ used' = [used EXCEPT ![u][DayOf(now)] = @ + MediaSeconds]
                  /\ open' = [open EXCEPT ![u] = {v \in @ : v.job # j}
                       \cup {[job |-> j, day |-> DayOf(now), expires |-> now + Lease]}]
                  /\ lapsed' = (lapsed \/ now + Lease <= time)
             ELSE UNCHANGED <<used, open, lapsed>>
        /\ UNCHANGED <<time, limiter, asked, calls, restarts>>

\* Mutant: one question more than the budget.
MayAskAgain(d, now) == d.day # DayOf(now) \/ d.questions <= DailyQuestions

MayAsk(d, now) == QuestionsAt(d, now) < DailyQuestions

ReserveQuestion(r) ==
    LET u == request[r].user  now == request[r].now
    IN  /\ request[r].at = "update" /\ request[r].for = "question"
        /\ request' = [request EXCEPT ![r] = Idle]
        /\ IF MayAsk(doc[u], now)
             THEN /\ doc' = [doc EXCEPT ![u] =
                       [@ EXCEPT !.day = DayOf(now), !.seconds = SecondsAt(doc[u], now),
                                 !.questions = QuestionsAt(doc[u], now) + 1]]
                  /\ setbacks' = [setbacks EXCEPT ![u] = @ + SetBack(u, now)]
                  /\ asked' = [asked EXCEPT ![u][DayOf(now)] = @ + 1]
             ELSE UNCHANGED <<doc, setbacks, asked>>
        /\ UNCHANGED <<time, limiter, used, open, lapsed, calls, restarts>>

\* What a measured duration gives back of a reservation.
Refund(seconds) == IF seconds = Unknown \/ seconds > MediaSeconds THEN 0
                   ELSE MediaSeconds - seconds

Finished(d, j, seconds) ==
    LET mine == {v \in d.active : v.job = j}
        today == \E v \in mine : v.day = d.day
        rest == d.seconds - (IF today THEN Refund(seconds) ELSE 0)
    IN  [d EXCEPT !.seconds = IF rest < 0 THEN 0 ELSE rest, !.active = @ \ mine]

\* One update; a duplicate callback, or one for a job that was never admitted,
\* finds no reservation.
FinishJob(u, j, seconds) ==
    LET mine == {v \in open[u] : v.job = j}
    IN  /\ doc' = [doc EXCEPT ![u] = Finished(@, j, seconds)]
        /\ open' = [open EXCEPT ![u] = @ \ mine]
        /\ used' = [used EXCEPT ![u] = [d \in Days |->
             @[d] - (IF \E v \in mine : v.day = d THEN Refund(seconds) ELSE 0)]]
        /\ UNCHANGED <<time, limiter, request, asked, setbacks, lapsed, calls, restarts>>

----------------------------------------------------------------------------
(* Time and restarts *)

Tick ==
    /\ time < MaxTime
    /\ time' = time + 1
    /\ lapsed' = (lapsed \/ \E u \in Users : \E v \in open[u] : v.expires <= time + 1)
    /\ UNCHANGED <<limiter, request, budget, calls, restarts>>

\* The windows are in memory, the budgets are not.  An update under way may be
\* applied or not: here it is not.
Restart ==
    /\ restarts < MaxRestarts
    /\ restarts' = restarts + 1
    /\ buckets' = [l \in Limiters |-> [u \in {} |-> 0]]
    /\ served' = [l \in Limiters |-> [u \in Users |-> <<>>]]
    /\ request' = [r \in Requests |-> Idle]
    /\ UNCHANGED <<time, budget, lapsed, calls>>

Next ==
    \/ \E r \in Requests :
         \/ \E u \in Users, l \in Limiters, j \in Jobs \cup {NoJob} : Arrive(r, u, l, j)
         \/ ReadClock(r) \/ ReserveJob(r) \/ ReserveQuestion(r)
    \/ \E u \in Users, j \in Jobs, seconds \in Durations \cup {Unknown} :
         FinishJob(u, j, seconds)
    \/ Tick
    \/ Restart

Spec == Init /\ [][Next]_vars

----------------------------------------------------------------------------
(* Properties *)

TypeOK ==
    /\ time \in Times
    /\ doc \in [Users -> Document]
    /\ \A l \in Limiters :
         /\ DOMAIN buckets[l] \subseteq Users
         /\ \A u \in DOMAIN buckets[l] : buckets[l][u] \in Bucket
    /\ request \in [Requests -> Request]
    /\ used \in [Users -> [Days -> Nat]]
    /\ asked \in [Users -> [Days -> Nat]]
    /\ open \in [Users -> SUBSET Reservation]
    /\ setbacks \in [Users -> Nat]
    /\ lapsed \in BOOLEAN
    /\ served \in [Limiters -> [Users -> Seq(Pass)]]
    /\ calls \in 0 .. MaxCalls /\ restarts \in 0 .. MaxRestarts

\* The work admitted on a day stays within the daily limits, however requests
\* overlap, retry, finish late or lose their reservation.  A request that read
\* the clock before midnight and is applied after one of the new day makes the
\* document forget a day's counts: each such overtaking, and nothing else,
\* allows one more budget.
DailyLimits ==
    \A u \in Users, d \in Days :
       /\ used[u][d] <= DailySeconds * (1 + setbacks[u])
       /\ asked[u][d] <= DailyQuestions * (1 + setbacks[u])

\* While no reservation outlived its lease and no midnight was overtaken, the
\* document charges exactly the work of its day: a replayed submission is
\* charged once, a refund is given once and never to another day.
ChargedExactly ==
    \A u \in Users : ~lapsed /\ setbacks[u] = 0 /\ doc[u].day # 0 =>
       /\ doc[u].seconds = used[u][doc[u].day]
       /\ doc[u].questions = asked[u][doc[u].day]

\* No more jobs of a user run under a live reservation than the limit, though
\* requests that read the clock at different times prune the list in any order.
ActiveWithinLimit ==
    \A u \in Users : Cardinality({v \in open[u] : v.expires > time}) <= ActiveLimit

\* The jobs of a user that hold a reservation now.
LiveJobs(u) == {v.job : v \in {v \in open[u] : v.expires > time}}

\* A job gets a reservation only while fewer live ones than the limit are held,
\* though the update is sent with an older clock, and replaces and prunes entries:
\* what UserBudget promises, step by step.
Contract == INSTANCE UserBudget WITH
    Limit <- ActiveLimit,
    live  <- [u \in Users |-> LiveJobs(u)]

ImplementsBudget == Contract!Spec

\* What limiter l let through in the span of a window from time t on.
Through(l, u, t) ==
    Cardinality({i \in DOMAIN served[l][u] : served[l][u][i].at \in t .. t + Window[l] - 1})

\* A limiter lets WindowMax requests of a user through in a window, and in no
\* span of that length more than two windows' worth, although a full table
\* drops entries to make room.
LimiterHolds ==
    \A l \in Limiters, u \in Users :
       /\ u \in DOMAIN buckets[l] =>
            LET w == buckets[l][u]
            IN  Through(l, u, w.reset - Window[l]) <= WindowMax[l]
       /\ \A t \in Times : Through(l, u, t) <= 2 * WindowMax[l]
=============================================================================
