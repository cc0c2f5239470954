-------------------------- MODULE AdmissionProofs --------------------------
(***************************************************************************)
(* Proofs about Admission, for any users, jobs, requests, limits, lease,   *)
(* windows, length of a day and refunds: what a day admits stays within    *)
(* the daily limits but for the requests that overtake a midnight, no more *)
(* jobs run under a live reservation than the limit allows, the document   *)
(* charges exactly the work of its day, and the limiter lets no more       *)
(* through than its window.                                                *)
(*                                                                         *)
(* The document counts one day only, so the bound on what was admitted on  *)
(* any other day has to be carried along: Counted says what the document   *)
(* implies for the days before it, its own, and those after it.            *)
(***************************************************************************)
EXTENDS Admission, FiniteSetTheorems, SequenceTheorems, TLAPS

----------------------------------------------------------------------------
(* The inductive invariant *)

Booking == [job : Jobs \cup {NoJob}, day : Int, expires : Int]

Budget == [day : Int, seconds : Nat, questions : Nat, active : SUBSET Booking]

BudgetTypes ==
    /\ time \in Times
    /\ doc \in [Users -> Budget]
    /\ request \in [Requests -> Request]
    /\ used \in [Users -> [Days -> Int]]
    /\ asked \in [Users -> [Days -> Int]]
    /\ open \in [Users -> SUBSET Booking]
    /\ setbacks \in [Users -> Nat]

\* A request has the user it came for, and a clock that was read before.
Timely ==
    \A r \in Requests :
        /\ request[r].at # "idle" => request[r].user \in Users
        /\ request[r].at = "update" => request[r].now <= time

\* What was admitted on each day, from the day and the count of the document
\* and what the overtaken midnights made it forget (carried).
Counted(total, limit, day, count, carried) ==
    \A d \in Days :
        /\ d = day => total[d] <= carried + count
        /\ d > day => total[d] <= carried
        /\ d < day => total[d] <= carried + limit

SecondsCounted(u) ==
    /\ doc[u].seconds <= DailySeconds
    /\ Counted(used[u], DailySeconds, doc[u].day, doc[u].seconds, DailySeconds * setbacks[u])

QuestionsCounted(u) ==
    /\ doc[u].questions <= DailyQuestions
    /\ Counted(asked[u], DailyQuestions, doc[u].day, doc[u].questions,
               DailyQuestions * setbacks[u])

\* The document lists what is open, and nothing live is missing from it.
ListedActive(u) ==
    /\ IsFiniteSet(doc[u].active) /\ Cardinality(doc[u].active) <= ActiveLimit
    /\ doc[u].active \subseteq open[u]
    /\ \A v \in open[u] : v.expires > time => v \in doc[u].active

BudgetInv ==
    /\ BudgetTypes
    /\ Timely
    /\ \A u \in Users : SecondsCounted(u) /\ QuestionsCounted(u) /\ ListedActive(u)

----------------------------------------------------------------------------
(* Arithmetic *)

LEMMA DayType == \A t \in Times : DayOf(t) \in Int
  BY AdmissionAssumption DEF DayOf, Times

LEMMA DaysInt == Days \subseteq Int
  BY DEF Days

LEMMA OneMore == \A n, m \in Nat : n * (1 + m) = n * m + n /\ n * m \in Nat
  BY SMT

\* An update that admits c more on its day, which may be an earlier one than
\* the document's: then it forgets a day's count.
LEMMA CountStep ==
    ASSUME NEW total \in [Days -> Int], NEW limit \in Nat, NEW day \in Int, NEW count \in Nat,
           NEW carried \in Nat, NEW now \in Int, NEW c \in Nat,
           count <= limit, Counted(total, limit, day, count, carried),
           (IF day = now THEN count ELSE 0) + c <= limit
    PROVE  Counted([total EXCEPT ![now] = @ + c], limit, now,
                   (IF day = now THEN count ELSE 0) + c,
                   carried + (IF now < day THEN limit ELSE 0))
<1> DEFINE new == [total EXCEPT ![now] = @ + c]
           kept == IF day = now THEN count ELSE 0
           forgot == carried + (IF now < day THEN limit ELSE 0)
<1> SUFFICES ASSUME NEW d \in Days
             PROVE  /\ d = now => new[d] <= forgot + (kept + c)
                    /\ d > now => new[d] <= forgot
                    /\ d < now => new[d] <= forgot + limit
  BY DEF Counted
<1>1. /\ d = day => total[d] <= carried + count
      /\ d > day => total[d] <= carried
      /\ d < day => total[d] <= carried + limit
  BY DEF Counted
<1>2. d \in Int /\ total[d] \in Int
  BY DaysInt
<1>3. new[d] = IF d = now THEN total[d] + c ELSE total[d]
  OBVIOUS
<1> QED
  BY <1>1, <1>2, <1>3

\* The same where nothing is admitted.
LEMMA CountMoved ==
    ASSUME NEW total \in [Days -> Int], NEW limit \in Nat, NEW day \in Int, NEW count \in Nat,
           NEW carried \in Nat, NEW now \in Int,
           count <= limit, Counted(total, limit, day, count, carried)
    PROVE  Counted(total, limit, now, IF day = now THEN count ELSE 0,
                   carried + (IF now < day THEN limit ELSE 0))
<1> DEFINE kept == IF day = now THEN count ELSE 0
           forgot == carried + (IF now < day THEN limit ELSE 0)
<1> SUFFICES ASSUME NEW d \in Days
             PROVE  /\ d = now => total[d] <= forgot + kept
                    /\ d > now => total[d] <= forgot
                    /\ d < now => total[d] <= forgot + limit
  BY DEF Counted
<1>1. /\ d = day => total[d] <= carried + count
      /\ d > day => total[d] <= carried
      /\ d < day => total[d] <= carried + limit
  BY DEF Counted
<1>2. d \in Int /\ total[d] \in Int
  BY DaysInt
<1> QED
  BY <1>1, <1>2

\* What a setback of the document carries over.
LEMMA CarriedStep ==
    ASSUME NEW u \in Users, BudgetTypes, NEW now \in Int, NEW limit \in Nat
    PROVE  limit * (setbacks[u] + (IF now < doc[u].day THEN 1 ELSE 0))
             = limit * setbacks[u] + (IF now < doc[u].day THEN limit ELSE 0)
<1>1. setbacks[u] \in Nat /\ doc[u].day \in Int
  BY DEF BudgetTypes, Budget
<1>2. limit * (1 + setbacks[u]) = limit * setbacks[u] + limit
  BY <1>1, OneMore
<1>3. setbacks[u] + 1 = 1 + setbacks[u] /\ setbacks[u] + 0 = setbacks[u]
      /\ limit * setbacks[u] + 0 = limit * setbacks[u]
  BY <1>1, OneMore
<1> QED
  BY <1>1, <1>2, <1>3

----------------------------------------------------------------------------
(* Steps that leave a user's document alone *)

UserInv(u) == SecondsCounted(u) /\ QuestionsCounted(u) /\ ListedActive(u)

LEMMA FrameStep ==
    ASSUME BudgetInv, NEW u \in Users,
           doc'[u] = doc[u], used'[u] = used[u], asked'[u] = asked[u],
           open'[u] = open[u], setbacks'[u] = setbacks[u],
           time' \in Times, time <= time'
    PROVE  UserInv(u)'
<1>1. UserInv(u) /\ open[u] \subseteq Booking /\ time \in Int /\ time' \in Int
  BY DEF BudgetInv, BudgetTypes, UserInv, Times
<1>2. SecondsCounted(u)' /\ QuestionsCounted(u)'
  BY <1>1 DEF UserInv, SecondsCounted, QuestionsCounted, Counted
<1>3. \A v \in open[u] : v.expires > time' => v.expires > time
  BY <1>1 DEF Booking
<1>4. ListedActive(u)'
  BY <1>1, <1>3 DEF UserInv, ListedActive
<1> QED
  BY <1>2, <1>4 DEF UserInv

LEMMA ArriveStep ==
    ASSUME BudgetInv, NEW r \in Requests, NEW u \in Users, NEW l \in Limiters,
           NEW j \in Jobs \cup {NoJob}, Arrive(r, u, l, j)
    PROVE  BudgetInv'
<1>1. /\ UNCHANGED <<time, doc, used, asked, open, setbacks>>
      /\ \/ request' = request
         \/ request' = [request EXCEPT ![r] = [at |-> "clock", for |-> l, user |-> u,
                                               job |-> j, now |-> 0]]
  BY DEF Arrive, budget
<1>2. [at |-> "clock", for |-> l, user |-> u, job |-> j, now |-> 0] \in Request
  BY AdmissionAssumption DEF Request, Times
<1>3. BudgetTypes'
  BY <1>1, <1>2 DEF BudgetInv, BudgetTypes
<1>4. Timely'
  BY <1>1 DEF BudgetInv, BudgetTypes, Timely
<1>5. time \in Times /\ time <= time
  BY DEF BudgetInv, BudgetTypes, Times
<1>6. \A w \in Users : UserInv(w)'
  BY <1>1, <1>5, FrameStep
<1> QED
  BY <1>3, <1>4, <1>6 DEF BudgetInv, UserInv

LEMMA ReadClockStep ==
    ASSUME BudgetInv, NEW r \in Requests, ReadClock(r)
    PROVE  BudgetInv'
<1>1. /\ UNCHANGED <<time, doc, used, asked, open, setbacks>>
      /\ request[r].at = "clock"
      /\ request' = [request EXCEPT ![r].at = "update", ![r].now = time]
  BY DEF ReadClock, budget
<1>2. time \in Times /\ time <= time
  BY DEF BudgetInv, BudgetTypes, Times
<1>3. BudgetTypes'
  <2> DEFINE next == [request[r] EXCEPT !.at = "update", !.now = time]
  <2>1. request \in [Requests -> Request]
    BY DEF BudgetInv, BudgetTypes
  <2>2. next \in Request
    BY <1>2, <2>1 DEF Request
  <2>3. request' = [request EXCEPT ![r] = next]
    BY <1>1, <2>1
  <2> HIDE DEF next
  <2>4. request' \in [Requests -> Request]
    BY <2>1, <2>2, <2>3
  <2> QED
    BY <1>1, <2>4 DEF BudgetInv, BudgetTypes
<1>4. Timely'
  BY <1>1, <1>2 DEF BudgetInv, BudgetTypes, Timely
<1>5. \A w \in Users : UserInv(w)'
  BY <1>1, <1>2, FrameStep
<1> QED
  BY <1>3, <1>4, <1>5 DEF BudgetInv, UserInv

LEMMA TickStep ==
    ASSUME BudgetInv, Tick
    PROVE  BudgetInv'
<1>1. UNCHANGED <<doc, used, asked, open, setbacks, request>>
  BY DEF Tick, budget
<1>2. time' \in Times /\ time <= time' /\ time \in Int
  BY AdmissionAssumption DEF Tick, BudgetInv, BudgetTypes, Times
<1>3. BudgetTypes'
  BY <1>1, <1>2 DEF BudgetInv, BudgetTypes
<1>4. \A r \in Requests : request[r].now \in Int
  BY DEF BudgetInv, BudgetTypes, Request, Times
<1>5. Timely'
  BY <1>1, <1>2, <1>4 DEF BudgetInv, BudgetTypes, Timely, Times
<1>6. \A w \in Users : UserInv(w)'
  BY <1>1, <1>2, FrameStep
<1> QED
  BY <1>3, <1>5, <1>6 DEF BudgetInv, UserInv

LEMMA IdleType == Idle \in Request /\ Idle.at = "idle"
  BY AdmissionAssumption DEF Idle, Request, Limiters, Times

LEMMA RestartStep ==
    ASSUME BudgetInv, Restart
    PROVE  BudgetInv'
<1>1. /\ UNCHANGED <<time, doc, used, asked, open, setbacks>>
      /\ request' = [r \in Requests |-> Idle]
  BY DEF Restart, budget
<1>2. BudgetTypes'
  BY <1>1, IdleType DEF BudgetInv, BudgetTypes
<1>3. Timely'
  BY <1>1, IdleType DEF Timely
<1>4. time \in Times /\ time <= time
  BY DEF BudgetInv, BudgetTypes, Times
<1>5. \A w \in Users : UserInv(w)'
  BY <1>1, <1>4, FrameStep
<1> QED
  BY <1>2, <1>3, <1>5 DEF BudgetInv, UserInv

----------------------------------------------------------------------------
(* Requests that are admitted *)

\* What a request that sends its update knows.
LEMMA Sender ==
    ASSUME BudgetInv, NEW r \in Requests, request[r].at = "update"
    PROVE  /\ request[r].user \in Users /\ request[r].job \in Jobs \cup {NoJob}
           /\ request[r].now \in Times /\ request[r].now \in Int
           /\ request[r].now <= time /\ time \in Int
           /\ DayOf(request[r].now) \in Int
  BY DayType DEF BudgetInv, BudgetTypes, Timely, Request, Times

\* The request is answered, if it is one, and other users are not touched.
LEMMA AnswerStep ==
    ASSUME BudgetInv, NEW u \in Users, UNCHANGED time,
           \/ request' = request
           \/ \E r \in Requests : request' = [request EXCEPT ![r] = Idle],
           NEW d \in Budget, doc' = [doc EXCEPT ![u] = d],
           NEW s \in [Days -> Int], used' = [used EXCEPT ![u] = s],
           NEW q \in [Days -> Int], asked' = [asked EXCEPT ![u] = q],
           NEW o \in SUBSET Booking, open' = [open EXCEPT ![u] = o],
           NEW b \in Nat, setbacks' = [setbacks EXCEPT ![u] = b],
           UserInv(u)'
    PROVE  BudgetInv'
<1>1. BudgetTypes'
  BY IdleType DEF BudgetInv, BudgetTypes
<1>2. Timely'
  BY IdleType DEF BudgetInv, BudgetTypes, Timely
<1>3. time' \in Times /\ time <= time'
  BY DEF BudgetInv, BudgetTypes, Times
<1>4. ASSUME NEW w \in Users, w # u PROVE UserInv(w)'
  <2>1. doc'[w] = doc[w] /\ used'[w] = used[w] /\ asked'[w] = asked[w]
        /\ open'[w] = open[w] /\ setbacks'[w] = setbacks[w]
    BY <1>4 DEF BudgetInv, BudgetTypes
  <2> QED
    BY <1>3, <2>1, FrameStep
<1> QED
  BY <1>1, <1>2, <1>4 DEF BudgetInv, UserInv

LEMMA RefusedStep ==
    ASSUME BudgetInv, NEW r \in Requests, request' = [request EXCEPT ![r] = Idle],
           UNCHANGED <<time, doc, used, asked, open, setbacks>>
    PROVE  BudgetInv'
<1>1. BudgetTypes'
  BY IdleType DEF BudgetInv, BudgetTypes
<1>2. Timely'
  BY IdleType DEF BudgetInv, BudgetTypes, Timely
<1>3. time \in Times /\ time <= time
  BY DEF BudgetInv, BudgetTypes, Times
<1>4. \A w \in Users : UserInv(w)'
  BY <1>3, FrameStep
<1> QED
  BY <1>1, <1>2, <1>4 DEF BudgetInv, UserInv

LEMMA UserTypes ==
    ASSUME BudgetInv, NEW u \in Users
    PROVE  /\ doc[u] \in Budget /\ doc[u].day \in Int
           /\ doc[u].seconds \in Nat /\ doc[u].questions \in Nat
           /\ doc[u].active \subseteq Booking
           /\ used[u] \in [Days -> Int] /\ asked[u] \in [Days -> Int]
           /\ open[u] \subseteq Booking /\ setbacks[u] \in Nat
           /\ DailySeconds \in Nat /\ DailyQuestions \in Nat
           /\ DailySeconds * setbacks[u] \in Nat /\ DailyQuestions * setbacks[u] \in Nat
           /\ SecondsCounted(u) /\ QuestionsCounted(u) /\ ListedActive(u)
<1>1. /\ doc[u] \in Budget /\ used[u] \in [Days -> Int] /\ asked[u] \in [Days -> Int]
      /\ open[u] \subseteq Booking /\ setbacks[u] \in Nat
      /\ SecondsCounted(u) /\ QuestionsCounted(u) /\ ListedActive(u)
  BY DEF BudgetInv, BudgetTypes
<1>2. DailySeconds \in Nat /\ DailyQuestions \in Nat
  BY AdmissionAssumption
<1> QED
  BY <1>1, <1>2, OneMore DEF Budget

\* The counts of the other kind are moved to the day of the update.
LEMMA SecondsMoved ==
    ASSUME BudgetInv, NEW u \in Users, NEW now \in Times,
           doc'[u].day = DayOf(now), doc'[u].seconds = SecondsAt(doc[u], now),
           setbacks'[u] = setbacks[u] + SetBack(u, now), used'[u] = used[u]
    PROVE  SecondsCounted(u)'
<1> DEFINE old == doc[u]
           day == DayOf(now)
           carried == DailySeconds * setbacks[u]
           kept == IF old.day = day THEN old.seconds ELSE 0
<1>1. /\ day \in Int /\ old.day \in Int /\ old.seconds \in Nat /\ carried \in Nat
      /\ used[u] \in [Days -> Int] /\ DailySeconds \in Nat /\ BudgetTypes
      /\ old.seconds <= DailySeconds
      /\ Counted(used[u], DailySeconds, old.day, old.seconds, carried)
  BY UserTypes, DayType DEF BudgetInv, SecondsCounted
<1>2. DailySeconds * setbacks'[u] = carried + (IF day < old.day THEN DailySeconds ELSE 0)
  BY <1>1, CarriedStep DEF SetBack
<1>3. doc'[u].seconds = kept
  BY DEF SecondsAt
<1> HIDE DEF carried, day, old
<1>4. Counted(used[u], DailySeconds, day, kept,
              carried + (IF day < old.day THEN DailySeconds ELSE 0))
  BY <1>1, CountMoved
<1>5. kept <= DailySeconds
  BY <1>1
<1> QED
  BY <1>2, <1>3, <1>4, <1>5 DEF SecondsCounted, Counted, day

LEMMA QuestionsMoved ==
    ASSUME BudgetInv, NEW u \in Users, NEW now \in Times,
           doc'[u].day = DayOf(now), doc'[u].questions = QuestionsAt(doc[u], now),
           setbacks'[u] = setbacks[u] + SetBack(u, now), asked'[u] = asked[u]
    PROVE  QuestionsCounted(u)'
<1> DEFINE old == doc[u]
           day == DayOf(now)
           carried == DailyQuestions * setbacks[u]
           kept == IF old.day = day THEN old.questions ELSE 0
<1>1. /\ day \in Int /\ old.day \in Int /\ old.questions \in Nat /\ carried \in Nat
      /\ asked[u] \in [Days -> Int] /\ DailyQuestions \in Nat /\ BudgetTypes
      /\ old.questions <= DailyQuestions
      /\ Counted(asked[u], DailyQuestions, old.day, old.questions, carried)
  BY UserTypes, DayType DEF BudgetInv, QuestionsCounted
<1>2. DailyQuestions * setbacks'[u] = carried + (IF day < old.day THEN DailyQuestions ELSE 0)
  BY <1>1, CarriedStep DEF SetBack
<1>3. doc'[u].questions = kept
  BY DEF QuestionsAt
<1> HIDE DEF carried, day, old
<1>4. Counted(asked[u], DailyQuestions, day, kept,
              carried + (IF day < old.day THEN DailyQuestions ELSE 0))
  BY <1>1, CountMoved
<1>5. kept <= DailyQuestions
  BY <1>1
<1> QED
  BY <1>2, <1>3, <1>4, <1>5 DEF QuestionsCounted, Counted, day

LEMMA AddedType ==
    ASSUME NEW f \in [Days -> Int], NEW d, NEW c \in Int
    PROVE  [f EXCEPT ![d] = @ + c] \in [Days -> Int]
<1> DEFINE g == [f EXCEPT ![d] = @ + c]
<1>1. g = [e \in Days |-> g[e]]
  OBVIOUS
<1>2. \A e \in Days : g[e] = IF e = d THEN f[e] + c ELSE f[e]
  OBVIOUS
<1>3. \A e \in Days : g[e] \in Int
  BY <1>2
<1> HIDE DEF g
<1>4. g \in [Days -> Int]
  BY <1>1, <1>3
<1> QED
  BY <1>4 DEF g

LEMMA ReserveQuestionStep ==
    ASSUME BudgetInv, NEW r \in Requests, ReserveQuestion(r)
    PROVE  BudgetInv'
<1>0. PICK u \in Users, now \in Times : u = request[r].user /\ now = request[r].now
  BY Sender DEF ReserveQuestion
<1> DEFINE day == DayOf(now)
           old == doc[u]
           seconds == SecondsAt(old, now)
           questions == QuestionsAt(old, now) + 1
           new == [old EXCEPT !.day = day, !.seconds = seconds, !.questions = questions]
           total == [asked[u] EXCEPT ![day] = @ + 1]
           later == setbacks[u] + SetBack(u, now)
<1>1. /\ u \in Users /\ day \in Int /\ request' = [request EXCEPT ![r] = Idle]
      /\ UNCHANGED <<time, used, open>>
  BY <1>0, DayType DEF ReserveQuestion
<1>2. CASE ~MayAsk(old, now)
  <2>1. UNCHANGED <<time, doc, used, asked, open, setbacks>>
    BY <1>0, <1>1, <1>2 DEF ReserveQuestion
  <2> QED
    BY <1>1, <2>1, RefusedStep
<1>3. CASE MayAsk(old, now)
  <2>1. /\ doc' = [doc EXCEPT ![u] = new]
        /\ setbacks' = [setbacks EXCEPT ![u] = later]
        /\ asked' = [asked EXCEPT ![u] = total]
    BY <1>0, <1>1, <1>3 DEF ReserveQuestion, BudgetInv, BudgetTypes
  <2>2. /\ old \in Budget /\ old.day \in Int /\ old.seconds \in Nat /\ old.questions \in Nat
        /\ used[u] \in [Days -> Int] /\ asked[u] \in [Days -> Int]
        /\ open[u] \subseteq Booking /\ setbacks[u] \in Nat
        /\ SecondsCounted(u) /\ QuestionsCounted(u) /\ ListedActive(u)
    BY <1>1, UserTypes
  <2>3. /\ SecondsAt(old, now) = (IF old.day = day THEN old.seconds ELSE 0)
        /\ QuestionsAt(old, now) = (IF old.day = day THEN old.questions ELSE 0)
        /\ SetBack(u, now) = (IF day < old.day THEN 1 ELSE 0)
    BY DEF SecondsAt, QuestionsAt, SetBack
  <2> HIDE DEF day
  <2>3a. SecondsAt(old, now) \in Nat /\ QuestionsAt(old, now) + 1 \in Nat /\ SetBack(u, now) \in Nat
    BY <2>2, <2>3
  <2>4. /\ new \in Budget /\ new.day = day /\ new.seconds = SecondsAt(old, now)
        /\ new.questions = QuestionsAt(old, now) + 1 /\ new.active = old.active
    <3> HIDE DEF old, seconds, questions
    <3>1. seconds \in Nat /\ questions \in Nat
      BY <2>3a DEF seconds, questions
    <3>2. /\ new \in Budget /\ new.day = day /\ new.seconds = seconds
          /\ new.questions = questions /\ new.active = old.active
      BY <1>1, <2>2, <3>1 DEF Budget
    <3> QED
      BY <3>2 DEF seconds, questions
  <2>5. total \in [Days -> Int] /\ later \in Nat
    <3>1. 1 \in Int
      OBVIOUS
    <3>2. total \in [Days -> Int]
      BY <2>2, <3>1, AddedType, Zenon
    <3> QED
      BY <2>2, <2>3a, <3>2
  <2>6. /\ used' = [used EXCEPT ![u] = used[u]] /\ open' = [open EXCEPT ![u] = open[u]]
        /\ used \in [Users -> [Days -> Int]] /\ open \in [Users -> SUBSET Booking]
    BY <1>1 DEF BudgetInv, BudgetTypes
  <2> HIDE DEF old, new, total, later
  <2>7. /\ doc'[u] = new /\ setbacks'[u] = later /\ asked'[u] = total
        /\ used'[u] = used[u] /\ open'[u] = open[u]
    BY <1>1, <2>1 DEF BudgetInv, BudgetTypes
  <2>8. SecondsCounted(u)'
    BY <2>4, <2>7, SecondsMoved DEF later, old, day
  <2>9. QuestionsCounted(u)'
    <3> DEFINE carried == DailyQuestions * setbacks[u]
               kept == IF old.day = day THEN old.questions ELSE 0
    <3>1. carried \in Nat /\ DailyQuestions \in Nat
      BY <1>1, UserTypes
    <3>2. old.questions <= DailyQuestions
          /\ Counted(asked[u], DailyQuestions, old.day, old.questions, carried)
      BY <2>2 DEF QuestionsCounted, old
    <3>3. DailyQuestions * later = carried + (IF day < old.day THEN DailyQuestions ELSE 0)
      BY <1>1, <2>3, <3>1, CarriedStep DEF BudgetInv, later, old
    <3> HIDE DEF carried
    <3>4. kept + 1 <= DailyQuestions
      BY <1>3, <2>2, <2>3, <3>1 DEF MayAsk
    <3>5. Counted(total, DailyQuestions, day, kept + 1,
                  carried + (IF day < old.day THEN DailyQuestions ELSE 0))
      BY <1>1, <2>2, <3>1, <3>2, <3>4, CountStep DEF total
    <3> QED
      BY <2>3, <2>4, <2>7, <3>3, <3>4, <3>5 DEF QuestionsCounted, Counted
  <2>10. ListedActive(u)'
    BY <1>1, <2>2, <2>4, <2>7 DEF ListedActive, old
  <2> QED
    BY <1>1, <2>1, <2>2, <2>4, <2>5, <2>6, <2>8, <2>9, <2>10, AnswerStep DEF UserInv
<1> QED
  BY <1>2, <1>3

\* The reservations that a request still finds are among those listed, and it
\* drops none that is live.
LEMMA ActiveKept ==
    ASSUME BudgetInv, NEW u \in Users, NEW now \in Times, now <= time
    PROVE  /\ ActiveAt(doc[u], now) \subseteq doc[u].active
           /\ IsFiniteSet(ActiveAt(doc[u], now))
           /\ Cardinality(ActiveAt(doc[u], now)) <= ActiveLimit
           /\ Cardinality(ActiveAt(doc[u], now)) \in Nat
           /\ \A v \in open[u] : v.expires > time => v \in ActiveAt(doc[u], now)
<1>1. /\ open[u] \subseteq Booking /\ ListedActive(u) /\ doc[u].active \subseteq Booking
      /\ time \in Int /\ now \in Int /\ ActiveLimit \in Nat
  BY UserTypes, AdmissionAssumption DEF BudgetInv, BudgetTypes, Times
<1>2. ActiveAt(doc[u], now) \subseteq doc[u].active
  BY DEF ActiveAt
<1>3. IsFiniteSet(doc[u].active) /\ Cardinality(doc[u].active) <= ActiveLimit
  BY <1>1 DEF ListedActive
<1>4. /\ IsFiniteSet(ActiveAt(doc[u], now))
      /\ Cardinality(ActiveAt(doc[u], now)) <= Cardinality(doc[u].active)
  BY <1>2, <1>3, FS_Subset
<1>5. Cardinality(ActiveAt(doc[u], now)) \in Nat /\ Cardinality(doc[u].active) \in Nat
  BY <1>3, <1>4, FS_CardinalityType
<1>6. ASSUME NEW v \in open[u], v.expires > time PROVE v \in ActiveAt(doc[u], now)
  <2>1. v.expires \in Int
    BY <1>1 DEF Booking
  <2> QED
    BY <1>1, <1>6, <2>1 DEF ListedActive, ActiveAt
<1> QED
  BY <1>1, <1>2, <1>3, <1>4, <1>5, <1>6

\* A replay finds its reservation: the document moves, nothing is charged.
LEMMA ReserveAgainStep ==
    ASSUME BudgetInv, NEW r \in Requests, ReserveJob(r),
           NEW u \in Users, NEW now \in Times, NEW j \in Jobs \cup {NoJob},
           u = request[r].user, now = request[r].now, j = request[r].job,
           Holds(doc[u], now, j)
    PROVE  BudgetInv'
<1> DEFINE old == doc[u]
           day == DayOf(now)
           seconds == SecondsAt(old, now)
           questions == QuestionsAt(old, now)
           active == ActiveAt(old, now)
           later == setbacks[u] + SetBack(u, now)
           new == [day |-> day, seconds |-> seconds, questions |-> questions, active |-> active]
<1>1. /\ request' = [request EXCEPT ![r] = Idle] /\ UNCHANGED <<time, asked, used, open>>
      /\ doc' = [doc EXCEPT ![u] = Reserved(old, now, j)]
      /\ setbacks' = [setbacks EXCEPT ![u] = later]
      /\ now <= time
  BY Sender DEF ReserveJob, MayReserve
<1>2. /\ seconds \in Nat /\ questions \in Nat /\ later \in Nat /\ day \in Int
      /\ active \subseteq Booking
  BY UserTypes, DayType DEF SecondsAt, QuestionsAt, SetBack, ActiveAt
<1>3. Reserved(old, now, j) = new
  <2>1. seconds + 0 = seconds
    BY <1>2
  <2>2. active \cup {} = active
    OBVIOUS
  <2> HIDE DEF active, seconds, questions
  <2> QED
    BY <2>1, <2>2 DEF Reserved, active, seconds, questions
<1> HIDE DEF seconds, questions, active, later, day
<1>4. new \in Budget
  BY <1>2 DEF Budget
<1>5. /\ doc' = [doc EXCEPT ![u] = new] /\ doc'[u] = new /\ setbacks'[u] = later
      /\ used' = [used EXCEPT ![u] = used[u]] /\ asked' = [asked EXCEPT ![u] = asked[u]]
      /\ open' = [open EXCEPT ![u] = open[u]]
      /\ used'[u] = used[u] /\ asked'[u] = asked[u] /\ open'[u] = open[u]
  BY <1>1, <1>3 DEF BudgetInv, BudgetTypes
<1>6. SecondsCounted(u)' /\ QuestionsCounted(u)'
  <2>1. doc'[u].day = DayOf(now) /\ doc'[u].seconds = SecondsAt(old, now)
        /\ doc'[u].questions = QuestionsAt(old, now)
        /\ setbacks'[u] = setbacks[u] + SetBack(u, now)
    BY <1>5 DEF seconds, questions, day, later
  <2> QED
    BY <1>5, <2>1, SecondsMoved, QuestionsMoved
<1>7. ListedActive(u)'
  <2>1. doc'[u].active = active /\ time' = time /\ open'[u] = open[u]
    BY <1>1, <1>5
  <2>2. /\ IsFiniteSet(active) /\ Cardinality(active) <= ActiveLimit
        /\ active \subseteq doc[u].active /\ doc[u].active \subseteq open[u]
        /\ \A v \in open[u] : v.expires > time => v \in active
    BY <1>1, ActiveKept, UserTypes DEF ListedActive, active
  <2> QED
    BY <2>1, <2>2 DEF ListedActive
<1>8. /\ used[u] \in [Days -> Int] /\ asked[u] \in [Days -> Int]
      /\ open[u] \in SUBSET Booking
  BY UserTypes
<1> HIDE DEF new
<1> QED
  BY <1>1, <1>2, <1>4, <1>5, <1>6, <1>7, <1>8, AnswerStep DEF UserInv

\* A new reservation is charged on the day of its request and takes a place.
LEMMA ReserveNewStep ==
    ASSUME BudgetInv, NEW r \in Requests, ReserveJob(r),
           NEW u \in Users, NEW now \in Times, NEW j \in Jobs \cup {NoJob},
           u = request[r].user, now = request[r].now, j = request[r].job,
           ~Holds(doc[u], now, j), MayReserve(doc[u], now, j)
    PROVE  BudgetInv'
<1> DEFINE old == doc[u]
           day == DayOf(now)
           seconds == SecondsAt(old, now)
           questions == QuestionsAt(old, now)
           active == ActiveAt(old, now)
           later == setbacks[u] + SetBack(u, now)
           booked == [job |-> j, day |-> day, expires |-> now + Lease]
           new == [day |-> day, seconds |-> seconds + MediaSeconds, questions |-> questions,
                   active |-> active \cup {booked}]
           total == [used[u] EXCEPT ![day] = @ + MediaSeconds]
           others == {v \in open[u] : v.job # j}
<1>1. /\ request' = [request EXCEPT ![r] = Idle] /\ UNCHANGED <<time, asked>>
      /\ doc' = [doc EXCEPT ![u] = Reserved(old, now, j)]
      /\ setbacks' = [setbacks EXCEPT ![u] = later]
      /\ used' = [used EXCEPT ![u] = total]
      /\ open' = [open EXCEPT ![u] = others \cup {booked}]
      /\ now <= time
  BY Sender DEF ReserveJob, BudgetInv, BudgetTypes
<1>2. /\ seconds \in Nat /\ questions \in Nat /\ later \in Nat /\ day \in Int
      /\ active \subseteq Booking /\ others \subseteq Booking
      /\ MediaSeconds \in Nat /\ DailySeconds \in Nat /\ now \in Int /\ Lease \in Int
  BY UserTypes, DayType, AdmissionAssumption
     DEF SecondsAt, QuestionsAt, SetBack, ActiveAt, Times
<1>3. booked \in Booking
  BY <1>2 DEF Booking
<1>4. Reserved(old, now, j) = new
  BY DEF Reserved
<1>5. /\ Cardinality(active) < ActiveLimit /\ seconds + MediaSeconds <= DailySeconds
      /\ \A v \in active : v.job # j
  BY DEF MayReserve, Holds
<1> HIDE DEF seconds, questions, active, later, day, booked, others, total
<1>6. new \in Budget /\ others \cup {booked} \in SUBSET Booking
  BY <1>2, <1>3 DEF Budget
<1>7. total \in [Days -> Int]
  <2>1. MediaSeconds \in Int /\ used[u] \in [Days -> Int]
    BY <1>2, UserTypes
  <2> QED
    BY <2>1, AddedType, Zenon DEF total
<1>8. /\ doc' = [doc EXCEPT ![u] = new] /\ doc'[u] = new /\ setbacks'[u] = later
      /\ used'[u] = total /\ open'[u] = others \cup {booked}
      /\ asked' = [asked EXCEPT ![u] = asked[u]] /\ asked'[u] = asked[u]
  BY <1>1, <1>4 DEF BudgetInv, BudgetTypes
<1>9. QuestionsCounted(u)'
  <2>1. doc'[u].day = DayOf(now) /\ doc'[u].questions = QuestionsAt(old, now)
        /\ setbacks'[u] = setbacks[u] + SetBack(u, now)
    BY <1>8 DEF questions, day, later
  <2> QED
    BY <1>8, <2>1, QuestionsMoved
<1>10. SecondsCounted(u)'
  <2> DEFINE carried == DailySeconds * setbacks[u]
             kept == IF old.day = day THEN old.seconds ELSE 0
  <2>1. /\ carried \in Nat /\ old.day \in Int /\ old.seconds \in Nat /\ BudgetTypes
        /\ used[u] \in [Days -> Int] /\ old.seconds <= DailySeconds
        /\ Counted(used[u], DailySeconds, old.day, old.seconds, carried)
    BY UserTypes DEF BudgetInv, SecondsCounted
  <2>2. DailySeconds * later = carried + (IF day < old.day THEN DailySeconds ELSE 0)
    BY <1>2, <2>1, CarriedStep DEF later, SetBack, day
  <2>3. seconds = kept
    BY DEF seconds, SecondsAt, day
  <2> HIDE DEF carried, old
  <2>4. Counted(total, DailySeconds, day, kept + MediaSeconds,
                carried + (IF day < old.day THEN DailySeconds ELSE 0))
    BY <1>2, <1>5, <2>1, <2>3, CountStep DEF total
  <2> QED
    BY <1>5, <1>8, <2>2, <2>3, <2>4 DEF SecondsCounted, Counted
<1>11. ListedActive(u)'
  <2>1. /\ doc'[u].active = active \cup {booked} /\ time' = time
        /\ open'[u] = others \cup {booked}
    BY <1>1, <1>8
  <2>2. IsFiniteSet(active) /\ Cardinality(active) \in Nat
        /\ \A v \in open[u] : v.expires > time => v \in active
    BY <1>1, ActiveKept DEF active
  <2>3. IsFiniteSet(active \cup {booked})
        /\ Cardinality(active \cup {booked}) <= ActiveLimit
    <3>1. ActiveLimit \in Nat
      BY AdmissionAssumption
    <3>2. CASE booked \in active
      <4>1. active \cup {booked} = active
        BY <3>2
      <4>2. Cardinality(active) <= ActiveLimit
        BY <1>5, <2>2, <3>1
      <4> QED
        BY <2>2, <4>1, <4>2
    <3>3. CASE booked \notin active
      <4>1. /\ IsFiniteSet(active \cup {booked})
            /\ Cardinality(active \cup {booked}) = Cardinality(active) + 1
        BY <2>2, <3>3, FS_AddElement
      <4> QED
        BY <1>5, <2>2, <3>1, <4>1
    <3> QED
      BY <3>2, <3>3
  <2>4. active \subseteq others
    <3>1. active \subseteq open[u]
      BY <1>1, ActiveKept, UserTypes DEF active, ListedActive
    <3> QED
      BY <1>5, <3>1 DEF others
  <2>5. \A v \in others : v \in open[u]
    BY DEF others
  <2> QED
    BY <2>1, <2>2, <2>3, <2>4, <2>5 DEF ListedActive
<1>12. asked[u] \in [Days -> Int]
  BY UserTypes
<1> HIDE DEF new
<1> QED
  BY <1>1, <1>2, <1>6, <1>7, <1>8, <1>9, <1>10, <1>11, <1>12, AnswerStep DEF UserInv

LEMMA ReserveJobStep ==
    ASSUME BudgetInv, NEW r \in Requests, ReserveJob(r)
    PROVE  BudgetInv'
<1>1. PICK u \in Users, now \in Times, j \in Jobs \cup {NoJob} :
        u = request[r].user /\ now = request[r].now /\ j = request[r].job
  BY Sender DEF ReserveJob
<1>2. CASE Holds(doc[u], now, j)
  BY <1>1, <1>2, ReserveAgainStep
<1>3. CASE ~Holds(doc[u], now, j) /\ MayReserve(doc[u], now, j)
  BY <1>1, <1>3, ReserveNewStep
<1>4. CASE ~MayReserve(doc[u], now, j)
  <2>1. /\ request' = [request EXCEPT ![r] = Idle]
        /\ UNCHANGED <<time, doc, used, asked, open, setbacks>>
    BY <1>1, <1>4 DEF ReserveJob
  <2> QED
    BY <2>1, RefusedStep
<1> QED
  BY <1>2, <1>3, <1>4

----------------------------------------------------------------------------
(* Reservations that end *)

LEMMA RefundType ==
    ASSUME NEW seconds \in Durations \cup {Unknown}
    PROVE  Refund(seconds) \in Nat
<1>1. MediaSeconds \in Nat /\ (seconds = Unknown \/ seconds \in Nat)
  BY AdmissionAssumption
<1> QED
  BY <1>1 DEF Refund

\* What is given back to the document is given back to the same day of the
\* history, as what the document lists is open.
LEMMA FinishJobStep ==
    ASSUME BudgetInv, NEW u \in Users, NEW j \in Jobs, NEW seconds \in Durations \cup {Unknown},
           FinishJob(u, j, seconds)
    PROVE  BudgetInv'
<1> DEFINE old == doc[u]
           refund == Refund(seconds)
           mine == {v \in old.active : v.job = j}
           ours == {v \in open[u] : v.job = j}
           today == \E v \in mine : v.day = old.day
           rest == old.seconds - (IF today THEN refund ELSE 0)
           left == IF rest < 0 THEN 0 ELSE rest
           active == old.active \ mine
           new == [old EXCEPT !.seconds = left, !.active = active]
           total == [d \in Days |-> used[u][d] -
                       (IF \E v \in ours : v.day = d THEN refund ELSE 0)]
<1>1. /\ UNCHANGED <<time, asked, request, setbacks>>
      /\ doc' = [doc EXCEPT ![u] = new]
      /\ used' = [used EXCEPT ![u] = total]
      /\ open' = [open EXCEPT ![u] = open[u] \ ours]
  BY DEF FinishJob, Finished, BudgetInv, BudgetTypes
<1>2. /\ old \in Budget /\ old.day \in Int /\ old.seconds \in Nat /\ old.active \subseteq Booking
      /\ used[u] \in [Days -> Int] /\ asked[u] \in [Days -> Int]
      /\ open[u] \subseteq Booking /\ setbacks[u] \in Nat
      /\ DailySeconds \in Nat /\ DailySeconds * setbacks[u] \in Nat
      /\ SecondsCounted(u) /\ QuestionsCounted(u) /\ ListedActive(u)
  BY UserTypes
<1>3. refund \in Nat
  BY RefundType
<1>4. left \in Nat /\ left <= old.seconds
      /\ (today => old.seconds - refund <= left) /\ (~today => left = old.seconds)
  <2> HIDE DEF today, refund, old
  <2> QED
    BY <1>2, <1>3
<1>5. mine \subseteq ours /\ active \subseteq Booking
  BY <1>2 DEF ListedActive
<1>6. total \in [Days -> Int]
  <2>1. \A d \in Days : used[u][d] - (IF \E v \in ours : v.day = d THEN refund ELSE 0) \in Int
    <3> HIDE DEF refund, ours
    <3> QED
      BY <1>2, <1>3
  <2> QED
    BY <2>1
<1>7. new \in Budget /\ new.day = old.day /\ new.seconds = left
      /\ new.questions = old.questions /\ new.active = active
  <2> HIDE DEF left, active, old
  <2> QED
    BY <1>2, <1>4, <1>5 DEF Budget
<1>8. /\ doc'[u] = new /\ used'[u] = total /\ open'[u] = open[u] \ ours
      /\ asked' = [asked EXCEPT ![u] = asked[u]] /\ asked'[u] = asked[u]
      /\ setbacks' = [setbacks EXCEPT ![u] = setbacks[u]] /\ setbacks'[u] = setbacks[u]
  BY <1>1 DEF BudgetInv, BudgetTypes
<1>9. SecondsCounted(u)'
  <2> DEFINE carried == DailySeconds * setbacks[u]
  <2>1. /\ carried \in Nat /\ old.seconds <= DailySeconds
        /\ Counted(used[u], DailySeconds, old.day, old.seconds, carried)
    BY <1>2 DEF SecondsCounted
  <2>2. ASSUME NEW d \in Days
        PROVE  /\ d = old.day => total[d] <= carried + left
               /\ d > old.day => total[d] <= carried
               /\ d < old.day => total[d] <= carried + DailySeconds
    <3>1. /\ d = old.day => used[u][d] <= carried + old.seconds
          /\ d > old.day => used[u][d] <= carried
          /\ d < old.day => used[u][d] <= carried + DailySeconds
      BY <2>1 DEF Counted
    <3>2. d \in Int /\ used[u][d] \in Int
      BY <1>2, DaysInt
    <3>3. /\ total[d] \in Int /\ total[d] <= used[u][d]
          /\ (\E v \in ours : v.day = d) => total[d] = used[u][d] - refund
      <4> HIDE DEF refund, ours
      <4> QED
        BY <1>3, <3>2
    <3>4. CASE d = old.day
      <4>1. today => \E v \in ours : v.day = d
        BY <1>5, <3>4
      <4> HIDE DEF today, left, refund, ours, total, carried, old
      <4> QED
        BY <1>2, <1>3, <1>4, <2>1, <3>1, <3>2, <3>3, <3>4, <4>1
    <3>5. CASE d # old.day
      <4> HIDE DEF refund, ours, total, carried, old, left
      <4> QED
        BY <1>2, <2>1, <3>1, <3>2, <3>3, <3>5
    <3> QED
      BY <3>4, <3>5
  <2>3. left <= DailySeconds
    <3> HIDE DEF left, old
    <3> QED
      BY <1>2, <1>4, <2>1
  <2> HIDE DEF left, total, new, old
  <2> QED
    BY <1>7, <1>8, <2>2, <2>3 DEF SecondsCounted, Counted
<1>10. QuestionsCounted(u)'
  <2> HIDE DEF new, old
  <2> QED
    BY <1>2, <1>7, <1>8 DEF QuestionsCounted, Counted, old
<1>11. ListedActive(u)'
  <2>1. IsFiniteSet(old.active) /\ Cardinality(old.active) <= ActiveLimit
        /\ ActiveLimit \in Nat
    BY <1>2, AdmissionAssumption DEF ListedActive
  <2>2. IsFiniteSet(active) /\ Cardinality(active) <= Cardinality(old.active)
    BY <2>1, FS_Subset
  <2>3. Cardinality(active) \in Nat /\ Cardinality(old.active) \in Nat
    BY <2>1, <2>2, FS_CardinalityType
  <2>4. active \subseteq open[u] \ ours
    BY <1>2 DEF ListedActive
  <2>5. \A v \in open[u] \ ours : v.expires > time => v \in active
    BY <1>2 DEF ListedActive
  <2>6. doc'[u].active = active /\ time' = time
    BY <1>1, <1>7, <1>8
  <2> HIDE DEF active, ours, old
  <2> QED
    BY <1>8, <2>1, <2>2, <2>3, <2>4, <2>5, <2>6 DEF ListedActive
<1> HIDE DEF new, total, ours
<1>12. open[u] \ ours \in SUBSET Booking
  BY <1>2
<1> QED
  BY <1>1, <1>2, <1>6, <1>7, <1>8, <1>9, <1>10, <1>11, <1>12, AnswerStep DEF UserInv

----------------------------------------------------------------------------
(* Every step preserves the invariant *)

LEMMA BudgetInit == Init => BudgetInv
<1> SUFFICES ASSUME Init PROVE BudgetInv
  OBVIOUS
<1> DEFINE empty == [day |-> 0, seconds |-> 0, questions |-> 0, active |-> {}]
           zero == [d \in Days |-> 0]
<1>1. /\ time = 0 /\ doc = [u \in Users |-> empty]
      /\ request = [r \in Requests |-> Idle]
      /\ used = [u \in Users |-> zero] /\ asked = [u \in Users |-> zero]
      /\ open = [u \in Users |-> {}] /\ setbacks = [u \in Users |-> 0]
  BY DEF Init
<1>2. /\ empty \in Budget /\ empty.day = 0 /\ empty.seconds = 0
      /\ empty.questions = 0 /\ empty.active = {}
  BY DEF Budget
<1>3. zero \in [Days -> Int] /\ \A d \in Days : zero[d] = 0
  OBVIOUS
<1> HIDE DEF empty, zero
<1>4. BudgetTypes
  <2>1. time \in Times
    BY <1>1, AdmissionAssumption DEF Times
  <2> QED
    BY <1>1, <1>2, <1>3, <2>1, IdleType DEF BudgetTypes
<1>5. Timely
  BY <1>1, IdleType DEF Timely
<1>6. ASSUME NEW u \in Users
      PROVE  SecondsCounted(u) /\ QuestionsCounted(u) /\ ListedActive(u)
  <2>1. /\ doc[u] = empty /\ used[u] = zero /\ asked[u] = zero
        /\ open[u] = {} /\ setbacks[u] = 0
    BY <1>1
  <2>2. DailySeconds \in Nat /\ DailyQuestions \in Nat /\ ActiveLimit \in Nat
    BY AdmissionAssumption
  <2>3. DailySeconds * 0 = 0 /\ DailyQuestions * 0 = 0
    BY <2>2
  <2>4. SecondsCounted(u)
    BY <1>2, <1>3, <2>1, <2>2, <2>3 DEF SecondsCounted, Counted
  <2>5. QuestionsCounted(u)
    BY <1>2, <1>3, <2>1, <2>2, <2>3 DEF QuestionsCounted, Counted
  <2>6. ListedActive(u)
    BY <1>2, <2>1, <2>2, FS_EmptySet DEF ListedActive
  <2> QED
    BY <2>4, <2>5, <2>6
<1> QED
  BY <1>4, <1>5, <1>6 DEF BudgetInv

\* BudgetInv is inductive.
LEMMA BudgetStep == BudgetInv /\ [Next]_vars => BudgetInv'
<1> SUFFICES ASSUME BudgetInv, [Next]_vars PROVE BudgetInv'
  OBVIOUS
<1>1. ASSUME NEW r \in Requests, NEW u \in Users, NEW l \in Limiters,
             NEW j \in Jobs \cup {NoJob}, Arrive(r, u, l, j)
      PROVE  BudgetInv'
  BY <1>1, ArriveStep
<1>2. ASSUME NEW r \in Requests, ReadClock(r) PROVE BudgetInv'
  BY <1>2, ReadClockStep
<1>3. ASSUME NEW r \in Requests, ReserveJob(r) PROVE BudgetInv'
  BY <1>3, ReserveJobStep
<1>4. ASSUME NEW r \in Requests, ReserveQuestion(r) PROVE BudgetInv'
  BY <1>4, ReserveQuestionStep
<1>5. ASSUME NEW u \in Users, NEW j \in Jobs, NEW seconds \in Durations \cup {Unknown},
             FinishJob(u, j, seconds)
      PROVE  BudgetInv'
  BY <1>5, FinishJobStep
<1>6. CASE Tick
  BY <1>6, TickStep
<1>7. CASE Restart
  BY <1>7, RestartStep
<1>8. CASE UNCHANGED vars
  <2>1. UNCHANGED <<time, doc, request, used, asked, open, setbacks>>
    BY <1>8 DEF vars
  <2> QED
    BY <2>1 DEF BudgetInv, BudgetTypes, Timely, SecondsCounted, QuestionsCounted,
                ListedActive, Counted
<1> QED
  BY <1>1, <1>2, <1>3, <1>4, <1>5, <1>6, <1>7, <1>8 DEF Next

----------------------------------------------------------------------------
(* Theorems *)

\* The inductive invariant of the budget document, of every instance.
THEOREM BudgetInvariant == Spec => []BudgetInv
<1>1. Init => BudgetInv
  BY BudgetInit
<1>2. BudgetInv /\ [Next]_vars => BudgetInv'
  BY BudgetStep
<1> QED
  BY <1>1, <1>2, PTL DEF Spec

\* Whatever requests, replays, refunds, expiries and restarts do to a user's
\* ResourceUsage document, each day admits one budget, and one more for every
\* request of an earlier day that is applied after one of a later day.
THEOREM DailyLimitsHold == Spec => []DailyLimits
<1>1. BudgetInv => DailyLimits
  <2> SUFFICES ASSUME BudgetInv, NEW u \in Users, NEW d \in Days
               PROVE  /\ used[u][d] <= DailySeconds * (1 + setbacks[u])
                      /\ asked[u][d] <= DailyQuestions * (1 + setbacks[u])
    BY DEF DailyLimits
  <2>1. /\ doc[u].day \in Int /\ doc[u].seconds \in Nat /\ doc[u].questions \in Nat
        /\ used[u] \in [Days -> Int] /\ asked[u] \in [Days -> Int] /\ setbacks[u] \in Nat
        /\ DailySeconds \in Nat /\ DailyQuestions \in Nat /\ d \in Int
        /\ SecondsCounted(u) /\ QuestionsCounted(u)
    BY UserTypes, DaysInt
  <2>2. /\ DailySeconds * setbacks[u] \in Nat /\ DailyQuestions * setbacks[u] \in Nat
        /\ DailySeconds * (1 + setbacks[u]) = DailySeconds * setbacks[u] + DailySeconds
        /\ DailyQuestions * (1 + setbacks[u]) = DailyQuestions * setbacks[u] + DailyQuestions
    BY <2>1, OneMore
  <2> DEFINE carried == DailySeconds * setbacks[u]
             carriedQuestions == DailyQuestions * setbacks[u]
  <2>3. /\ d = doc[u].day => used[u][d] <= carried + doc[u].seconds
        /\ d > doc[u].day => used[u][d] <= carried
        /\ d < doc[u].day => used[u][d] <= carried + DailySeconds
        /\ doc[u].seconds <= DailySeconds
    BY <2>1 DEF SecondsCounted, Counted
  <2>4. /\ d = doc[u].day => asked[u][d] <= carriedQuestions + doc[u].questions
        /\ d > doc[u].day => asked[u][d] <= carriedQuestions
        /\ d < doc[u].day => asked[u][d] <= carriedQuestions + DailyQuestions
        /\ doc[u].questions <= DailyQuestions
    BY <2>1 DEF QuestionsCounted, Counted
  <2>5. carried \in Nat /\ carriedQuestions \in Nat /\ used[u][d] \in Int /\ asked[u][d] \in Int
    BY <2>1, <2>2
  <2> HIDE DEF carried, carriedQuestions
  <2>6. used[u][d] <= carried + DailySeconds
    BY <2>1, <2>3, <2>5
  <2>7. asked[u][d] <= carriedQuestions + DailyQuestions
    BY <2>1, <2>4, <2>5
  <2> QED
    BY <2>2, <2>6, <2>7 DEF carried, carriedQuestions
<1> QED
  BY <1>1, BudgetInvariant, PTL

\* No more jobs of a user run under a live reservation than the limit allows,
\* though every request prunes and counts by the clock it read before.
THEOREM ActiveLimitHolds == Spec => []ActiveWithinLimit
<1>1. BudgetInv => ActiveWithinLimit
  <2> SUFFICES ASSUME BudgetInv, NEW u \in Users
               PROVE  Cardinality({v \in open[u] : v.expires > time}) <= ActiveLimit
    BY DEF ActiveWithinLimit
  <2> DEFINE live == {v \in open[u] : v.expires > time}
  <2>1. /\ ListedActive(u) /\ ActiveLimit \in Nat
    BY UserTypes, AdmissionAssumption
  <2>2. live \subseteq doc[u].active /\ IsFiniteSet(doc[u].active)
        /\ Cardinality(doc[u].active) <= ActiveLimit
    BY <2>1 DEF ListedActive
  <2>3. IsFiniteSet(live) /\ Cardinality(live) <= Cardinality(doc[u].active)
    BY <2>2, FS_Subset
  <2>4. Cardinality(live) \in Nat /\ Cardinality(doc[u].active) \in Nat
    BY <2>2, <2>3, FS_CardinalityType
  <2> HIDE DEF live
  <2>5. Cardinality(live) <= ActiveLimit
    BY <2>1, <2>2, <2>3, <2>4
  <2> QED
    BY <2>5 DEF live
<1> QED
  BY <1>1, BudgetInvariant, PTL

----------------------------------------------------------------------------
(* The windows of the limiter *)

\* The requests let through in the window that ends at reset.
PassedIn(s, reset) == {i \in DOMAIN s : s[i].reset = reset}

\* Every request is in its window, no window has more than its share, and
\* windows do not overlap.
Spaced(s, width, max) ==
    /\ \A i \in DOMAIN s :
         /\ s[i].reset - width <= s[i].at /\ s[i].at < s[i].reset
         /\ Cardinality(PassedIn(s, s[i].reset)) <= max
    /\ \A i, k \in DOMAIN s : s[i].reset < s[k].reset => s[i].reset + width <= s[k].reset

\* A window that counts every request let through in it and follows all others.
Follows(s, width, w) ==
    /\ w.count = Cardinality(PassedIn(s, w.reset))
    /\ \A i \in DOMAIN s : s[i].reset = w.reset \/ s[i].reset + width <= w.reset

\* What the table tells of a user at a time: no entry, no window that runs.
Known(s, width, max, b, u, now) ==
    /\ u \in DOMAIN b =>
         /\ b[u] \in Bucket /\ b[u].count <= max /\ b[u].reset <= now + width
         /\ Follows(s, width, b[u])
    /\ u \notin DOMAIN b => \A i \in DOMAIN s : s[i].reset <= now

WindowsOf(l, u) ==
    /\ served[l][u] \in Seq(Pass)
    /\ Spaced(served[l][u], Window[l], WindowMax[l])
    /\ Known(served[l][u], Window[l], WindowMax[l], buckets[l], u, time)

WindowInv ==
    /\ time \in Nat
    /\ buckets = [l \in Limiters |-> buckets[l]]
    /\ served = [l \in Limiters |-> [u \in Users |-> served[l][u]]]
    /\ \A l \in Limiters, u \in Users : WindowsOf(l, u)

LEMMA WindowTypes ==
    ASSUME NEW l \in Limiters
    PROVE  Window[l] \in Nat /\ Window[l] > 0 /\ WindowMax[l] \in Nat /\ WindowMax[l] > 0
  BY AdmissionAssumption DEF Limiters

LEMMA PassTypes ==
    ASSUME NEW s \in Seq(Pass)
    PROVE  /\ Len(s) \in Nat /\ DOMAIN s = 1 .. Len(s)
           /\ \A i \in DOMAIN s : s[i].at \in Int /\ s[i].reset \in Int
           /\ \A reset : IsFiniteSet(PassedIn(s, reset))
                         /\ Cardinality(PassedIn(s, reset)) \in Nat
<1>1. Len(s) \in Nat /\ DOMAIN s = 1 .. Len(s)
  OBVIOUS
<1>2. ASSUME NEW i \in DOMAIN s PROVE s[i].at \in Int /\ s[i].reset \in Int
  <2>1. s[i] \in Pass
    BY <1>1
  <2> QED
    BY <2>1 DEF Pass, Times
<1>3. ASSUME NEW reset
      PROVE  IsFiniteSet(PassedIn(s, reset)) /\ Cardinality(PassedIn(s, reset)) \in Nat
  <2>1. PassedIn(s, reset) \subseteq 1 .. Len(s)
    BY <1>1 DEF PassedIn
  <2>2. IsFiniteSet(1 .. Len(s))
    BY <1>1, FS_Interval
  <2> QED
    BY <2>1, <2>2, FS_Subset, FS_CardinalityType
<1> QED
  BY <1>1, <1>2, <1>3

\* One more request is let through in a window that has room.
LEMMA PassStep ==
    ASSUME NEW s \in Seq(Pass), NEW width \in Nat, width > 0, NEW max \in Nat, NEW now \in Times,
           NEW w \in Bucket, Spaced(s, width, max), Follows(s, width, w),
           w.count < max, now < w.reset, w.reset <= now + width,
           NEW t, t = Append(s, [at |-> now, reset |-> w.reset])
    PROVE  /\ t \in Seq(Pass) /\ Spaced(t, width, max)
           /\ Follows(t, width, [w EXCEPT !.count = @ + 1])
<1> DEFINE p == [at |-> now, reset |-> w.reset]
           n == Len(s) + 1
<1>1. /\ Len(s) \in Nat /\ DOMAIN s = 1 .. Len(s)
      /\ \A i \in DOMAIN s : s[i].at \in Int /\ s[i].reset \in Int
      /\ \A reset : IsFiniteSet(PassedIn(s, reset)) /\ Cardinality(PassedIn(s, reset)) \in Nat
  BY PassTypes
<1>2. /\ w.count \in Nat /\ w.reset \in Nat /\ now \in Nat /\ p \in Pass
      /\ p.at = now /\ p.reset = w.reset
  BY AdmissionAssumption DEF Bucket, Pass, Times
<1> HIDE DEF p
<1>3. /\ t \in Seq(Pass) /\ DOMAIN t = 1 .. n /\ t[n] = p
      /\ \A i \in DOMAIN s : t[i] = s[i]
  <2>1. t = Append(s, p)
    BY DEF p
  <2> QED
    BY <1>1, <1>2, <2>1, AppendProperties
<1>4. /\ DOMAIN t = DOMAIN s \cup {n} /\ n \notin DOMAIN s
      /\ \A i \in DOMAIN t : t[i].reset \in Int
  BY <1>1, <1>2, <1>3
<1>5. PassedIn(t, w.reset) = PassedIn(s, w.reset) \cup {n}
  BY <1>2, <1>3, <1>4 DEF PassedIn
<1>6. Cardinality(PassedIn(t, w.reset)) = w.count + 1
  <2>1. n \notin PassedIn(s, w.reset)
    BY <1>4 DEF PassedIn
  <2>2. Cardinality(PassedIn(s, w.reset)) = w.count
    BY DEF Follows
  <2>3. IsFiniteSet(PassedIn(s, w.reset))
    BY <1>1
  <2> QED
    BY <1>5, <2>1, <2>2, <2>3, FS_AddElement
<1>7. \A reset : reset # w.reset => PassedIn(t, reset) = PassedIn(s, reset)
  BY <1>2, <1>3, <1>4 DEF PassedIn
<1>8. \A i \in DOMAIN t : t[i].reset = w.reset \/ t[i].reset + width <= w.reset
  BY <1>2, <1>3, <1>4 DEF Follows
<1>9. Spaced(t, width, max)
  <2>1. ASSUME NEW i \in DOMAIN t
        PROVE  /\ t[i].reset - width <= t[i].at /\ t[i].at < t[i].reset
               /\ Cardinality(PassedIn(t, t[i].reset)) <= max
    <3>1. t[i].reset - width <= t[i].at /\ t[i].at < t[i].reset
      BY <1>1, <1>2, <1>3, <1>4 DEF Spaced
    <3>2. CASE t[i].reset = w.reset
      <4>1. w.count + 1 <= max
        BY <1>2
      <4> QED
        BY <1>6, <3>1, <3>2, <4>1
    <3>3. CASE t[i].reset # w.reset
      <4>1. i \in DOMAIN s /\ t[i] = s[i]
        BY <1>2, <1>3, <1>4, <3>3
      <4>2. Cardinality(PassedIn(s, s[i].reset)) <= max
        BY <4>1 DEF Spaced
      <4> QED
        BY <1>7, <3>1, <3>3, <4>1, <4>2
    <3> QED
      BY <3>2, <3>3
  <2>2. ASSUME NEW i \in DOMAIN t, NEW k \in DOMAIN t, t[i].reset < t[k].reset
        PROVE  t[i].reset + width <= t[k].reset
    <3>1. CASE t[k].reset = w.reset
      <4>1. t[i].reset \in Int /\ t[k].reset \in Int
        BY <1>4
      <4>2. t[i].reset = w.reset \/ t[i].reset + width <= w.reset
        BY <1>8
      <4> QED
        BY <2>2, <3>1, <4>1, <4>2
    <3>2. CASE t[k].reset # w.reset
      <4>1. k \in DOMAIN s /\ t[k] = s[k] /\ s[k].reset + width <= w.reset
        BY <1>2, <1>3, <1>4, <1>8, <3>2
      <4>2. i \in DOMAIN s /\ t[i] = s[i]
        BY <1>1, <1>2, <1>3, <1>4, <2>2, <4>1
      <4> QED
        BY <2>2, <4>1, <4>2 DEF Spaced
    <3> QED
      BY <3>1, <3>2
  <2> QED
    BY <2>1, <2>2 DEF Spaced
<1>10. Follows(t, width, [w EXCEPT !.count = @ + 1])
  <2> DEFINE x == [w EXCEPT !.count = @ + 1]
  <2>1. x.reset = w.reset /\ x.count = w.count + 1
    BY DEF Bucket
  <2> QED
    BY <1>6, <1>8, <2>1 DEF Follows
<1> QED
  BY <1>3, <1>9, <1>10

\* A table that was pruned, at a time that is not earlier, tells as much.
LEMMA PrunedKnown ==
    ASSUME NEW s \in Seq(Pass), NEW width \in Nat, width > 0, NEW max \in Nat, NEW u \in Users,
           NEW b, time \in Nat, Known(s, width, max, b, u, time)
    PROVE  Known(s, width, max, Pruned(b), u, time)
<1>1. \A i \in DOMAIN s : s[i].reset \in Int
  BY PassTypes
<1>2. CASE u \in DOMAIN Pruned(b)
  <2>1. u \in DOMAIN b /\ Pruned(b)[u] = b[u]
    BY <1>2 DEF Pruned
  <2> QED
    BY <1>2, <2>1 DEF Known
<1>3. CASE u \notin DOMAIN Pruned(b) /\ u \in DOMAIN b
  <2>1. ~(b[u].reset > time) /\ b[u].reset \in Nat
    BY <1>3 DEF Pruned, Known, Bucket
  <2>2. \A i \in DOMAIN s : s[i].reset = b[u].reset \/ s[i].reset + width <= b[u].reset
    BY <1>3 DEF Known, Follows
  <2>3. ASSUME NEW i \in DOMAIN s PROVE s[i].reset <= time
    <3>1. s[i].reset \in Int
      BY <1>1
    <3>2. s[i].reset = b[u].reset \/ s[i].reset + width <= b[u].reset
      BY <2>2
    <3> QED
      BY <2>1, <3>1, <3>2
  <2> QED
    BY <1>3, <2>3 DEF Known
<1>4. CASE u \notin DOMAIN b
  <2>1. u \notin DOMAIN Pruned(b)
    BY <1>4 DEF Pruned
  <2> QED
    BY <1>4, <2>1 DEF Known
<1> QED
  BY <1>2, <1>3, <1>4

\* The window a request finds or opens.
LEMMA WindowFollows ==
    ASSUME NEW l \in Limiters, NEW s \in Seq(Pass), NEW u \in Users, NEW b, time \in Nat,
           Known(s, Window[l], WindowMax[l], b, u, time)
    PROVE  /\ WindowOf(b, u, l) \in Bucket /\ WindowOf(b, u, l).count <= WindowMax[l]
           /\ time < WindowOf(b, u, l).reset /\ WindowOf(b, u, l).reset <= time + Window[l]
           /\ Follows(s, Window[l], WindowOf(b, u, l))
<1>1. Window[l] \in Nat /\ Window[l] > 0 /\ WindowMax[l] \in Nat /\ WindowMax[l] > 0
  BY WindowTypes
<1>2. CASE u \in DOMAIN b /\ b[u].reset > time
  <2>1. WindowOf(b, u, l) = b[u]
    BY <1>2 DEF WindowOf
  <2>2. b[u].reset \in Nat
    BY <1>2 DEF Known, Bucket
  <2> QED
    BY <1>2, <2>1, <2>2 DEF Known
<1>3. CASE ~(u \in DOMAIN b /\ b[u].reset > time)
  <2> DEFINE w == [count |-> 0, reset |-> time + Window[l]]
  <2>1. WindowOf(b, u, l) = w
    BY <1>3 DEF WindowOf
  <2>2. w \in Bucket /\ w.count = 0 /\ w.reset = time + Window[l]
    BY <1>1 DEF Bucket
  <2>3. \A i \in DOMAIN s : s[i].reset \in Int /\ s[i].reset <= time
    <3>1. \A i \in DOMAIN s : s[i].reset \in Int
      BY PassTypes
    <3>2. CASE u \notin DOMAIN b
      BY <3>1, <3>2 DEF Known
    <3>3. CASE u \in DOMAIN b
      <4>1. b[u].reset \in Nat /\ ~(b[u].reset > time)
        BY <1>3, <3>3 DEF Known, Bucket
      <4>2. \A i \in DOMAIN s : s[i].reset = b[u].reset \/ s[i].reset + Window[l] <= b[u].reset
        BY <3>3 DEF Known, Follows
      <4>3. ASSUME NEW i \in DOMAIN s PROVE s[i].reset <= time
        <5>1. s[i].reset \in Int
          BY <3>1
        <5>2. s[i].reset = b[u].reset \/ s[i].reset + Window[l] <= b[u].reset
          BY <4>2
        <5> QED
          BY <1>1, <4>1, <5>1, <5>2
      <4> QED
        BY <3>1, <4>3
    <3> QED
      BY <3>2, <3>3
  <2> HIDE DEF w
  <2>4. Follows(s, Window[l], w)
    <3>1. PassedIn(s, w.reset) = {}
      BY <1>1, <2>2, <2>3 DEF PassedIn
    <3>2. Cardinality(PassedIn(s, w.reset)) = 0
      BY <3>1, FS_EmptySet
    <3> QED
      BY <1>1, <2>2, <2>3, <3>2 DEF Follows
  <2> QED
    BY <1>1, <2>1, <2>2, <2>4
<1> QED
  BY <1>2, <1>3

\* What the rest of the table tells when one entry is stored.
LEMMA StoredKnown ==
    ASSUME NEW s, NEW width, NEW max, NEW now, NEW b, NEW u, NEW v, NEW w,
           v # u, Known(s, width, max, b, v, now)
    PROVE  Known(s, width, max, Stored(b, u, w), v, now)
<1>1. v \in DOMAIN Stored(b, u, w) <=> v \in DOMAIN b
  BY DEF Stored
<1>2. v \in DOMAIN b => Stored(b, u, w)[v] = b[v]
  BY DEF Stored
<1> QED
  BY <1>1, <1>2 DEF Known

LEMMA EntryStored ==
    ASSUME NEW s, NEW width, NEW max, NEW now, NEW b, NEW u, NEW w \in Bucket,
           w.count <= max, w.reset <= now + width, Follows(s, width, w)
    PROVE  Known(s, width, max, Stored(b, u, w), u, now)
<1>1. u \in DOMAIN Stored(b, u, w) /\ Stored(b, u, w)[u] = w
  BY DEF Stored
<1> QED
  BY <1>1 DEF Known

LEMMA WindowArrive ==
    ASSUME WindowInv, time \in Times, NEW r \in Requests, NEW u \in Users, NEW l \in Limiters,
           NEW j \in Jobs \cup {NoJob}, Arrive(r, u, l, j)
    PROVE  WindowInv'
<1> DEFINE b == Pruned(buckets[l])
           w == WindowOf(b, u, l)
           passes == ~TableFull(b, u) /\ w.count < WindowMax[l]
           more == [w EXCEPT !.count = @ + 1]
           after == CASE TableFull(b, u) -> b
                      [] passes -> Stored(b, u, more)
                      [] OTHER -> Stored(b, u, w)
           s == served[l][u]
           log == IF passes THEN Append(s, [at |-> time, reset |-> w.reset]) ELSE s
<1>1. /\ time' = time /\ time \in Nat
      /\ buckets' = [buckets EXCEPT ![l] = after]
      /\ served' = IF passes
           THEN [served EXCEPT ![l][u] = Append(@, [at |-> time, reset |-> w.reset])]
           ELSE served
  BY DEF Arrive, WindowInv
<1>2. /\ s \in Seq(Pass) /\ Spaced(s, Window[l], WindowMax[l])
      /\ Window[l] \in Nat /\ Window[l] > 0 /\ WindowMax[l] \in Nat
      /\ Known(s, Window[l], WindowMax[l], b, u, time)
  <2>1. /\ s \in Seq(Pass) /\ Spaced(s, Window[l], WindowMax[l])
        /\ Known(s, Window[l], WindowMax[l], buckets[l], u, time)
    BY DEF WindowInv, WindowsOf
  <2>2. Window[l] \in Nat /\ Window[l] > 0 /\ WindowMax[l] \in Nat
    BY WindowTypes
  <2> HIDE DEF s
  <2> QED
    BY <1>1, <2>1, <2>2, PrunedKnown
<1>3. /\ w \in Bucket /\ w.count <= WindowMax[l]
      /\ time < w.reset /\ w.reset <= time + Window[l] /\ Follows(s, Window[l], w)
  <2> HIDE DEF s, b
  <2> QED
    BY <1>1, <1>2, WindowFollows
<1>4. /\ buckets'[l] = after /\ served'[l][u] = log
      /\ buckets' = [k \in Limiters |-> buckets'[k]]
      /\ served' = [k \in Limiters |-> [v \in Users |-> served'[k][v]]]
  <2> HIDE DEF after, passes, w
  <2>1. buckets = [k \in Limiters |-> buckets[k]]
        /\ served = [k \in Limiters |-> [v \in Users |-> served[k][v]]]
    BY DEF WindowInv
  <2>2. buckets'[l] = after /\ buckets' = [k \in Limiters |-> buckets'[k]]
    BY <1>1, <2>1
  <2>3. CASE passes
    BY <1>1, <2>1, <2>2, <2>3, ZenonT(60)
  <2>4. CASE ~passes
    BY <1>1, <2>1, <2>2, <2>4
  <2> QED
    BY <2>3, <2>4
<1>5. /\ \A k \in Limiters : k # l => buckets'[k] = buckets[k]
      /\ \A k \in Limiters, v \in Users : k # l \/ v # u => served'[k][v] = served[k][v]
  <2> HIDE DEF after, passes, w
  <2>1. buckets = [k \in Limiters |-> buckets[k]]
        /\ served = [k \in Limiters |-> [v \in Users |-> served[k][v]]]
    BY DEF WindowInv
  <2> QED
    BY <1>1, <2>1
<1>6. /\ log \in Seq(Pass) /\ Spaced(log, Window[l], WindowMax[l])
      /\ Known(log, Window[l], WindowMax[l], after, u, time)
  <2>1. CASE TableFull(b, u)
    BY <1>2, <2>1
  <2>2. CASE ~TableFull(b, u) /\ w.count < WindowMax[l]
    <3>1. log = Append(s, [at |-> time, reset |-> w.reset]) /\ after = Stored(b, u, more)
      BY <2>2
    <3> HIDE DEF s, b, w
    <3>2. /\ log \in Seq(Pass) /\ Spaced(log, Window[l], WindowMax[l])
          /\ Follows(log, Window[l], more)
      BY <1>2, <1>3, <2>2, <3>1, PassStep
    <3>3. more \in Bucket /\ more.count <= WindowMax[l] /\ more.reset <= time + Window[l]
      BY <1>2, <1>3, <2>2 DEF Bucket
    <3> HIDE DEF log, after, more
    <3> QED
      BY <1>2, <3>1, <3>2, <3>3, EntryStored
  <2>3. CASE ~TableFull(b, u) /\ ~(w.count < WindowMax[l])
    <3>1. log = s /\ after = Stored(b, u, w)
      BY <2>3
    <3> HIDE DEF s, b, w, log, after
    <3> QED
      BY <1>2, <1>3, <3>1, EntryStored
  <2> QED
    BY <2>1, <2>2, <2>3
<1>7. ASSUME NEW v \in Users, v # u
      PROVE  Known(served[l][v], Window[l], WindowMax[l], after, v, time)
  <2>1. served[l][v] \in Seq(Pass) /\ Known(served[l][v], Window[l], WindowMax[l], buckets[l], v, time)
    BY DEF WindowInv, WindowsOf
  <2>2. Known(served[l][v], Window[l], WindowMax[l], b, v, time)
    BY <1>1, <1>2, <2>1, PrunedKnown
  <2> HIDE DEF b, w, more
  <2>3. \A e : Known(served[l][v], Window[l], WindowMax[l], Stored(b, u, e), v, time)
    BY <1>7, <2>2, StoredKnown
  <2>4. after = b \/ \E e : after = Stored(b, u, e)
    OBVIOUS
  <2> HIDE DEF after
  <2> QED
    BY <2>2, <2>3, <2>4
<1> HIDE DEF after, log, passes
<1>8. ASSUME NEW k \in Limiters, NEW v \in Users
      PROVE  WindowsOf(k, v)'
  <2>1. CASE k = l /\ v = u
    BY <1>1, <1>4, <1>6, <2>1 DEF WindowsOf
  <2>2. CASE k = l /\ v # u
    <3>1. served'[l][v] = served[l][v] /\ WindowsOf(l, v)
      BY <1>5, <2>2 DEF WindowInv
    <3> QED
      BY <1>1, <1>4, <1>7, <2>2, <3>1 DEF WindowsOf
  <2>3. CASE k # l
    <3>1. served'[k][v] = served[k][v] /\ buckets'[k] = buckets[k] /\ WindowsOf(k, v)
      BY <1>5, <2>3 DEF WindowInv
    <3> QED
      BY <1>1, <3>1 DEF WindowsOf
  <2> QED
    BY <2>1, <2>2, <2>3
<1> QED
  BY <1>1, <1>4, <1>8 DEF WindowInv

LEMMA WindowTick ==
    ASSUME WindowInv, Tick
    PROVE  WindowInv'
<1>1. UNCHANGED <<buckets, served>> /\ time' = time + 1 /\ time \in Nat /\ time' \in Nat
  BY DEF Tick, limiter, WindowInv
<1>2. ASSUME NEW l \in Limiters, NEW u \in Users
      PROVE  WindowsOf(l, u)'
  <2> DEFINE s == served[l][u]
             b == buckets[l]
  <2>1. /\ s \in Seq(Pass) /\ Spaced(s, Window[l], WindowMax[l])
        /\ Known(s, Window[l], WindowMax[l], b, u, time)
    BY DEF WindowInv, WindowsOf
  <2>2. Window[l] \in Nat /\ \A i \in DOMAIN s : s[i].reset \in Int
    BY <2>1, WindowTypes, PassTypes
  <2> HIDE DEF s, b
  <2>3. Known(s, Window[l], WindowMax[l], b, u, time + 1)
    <3>1. u \in DOMAIN b => b[u].reset <= time + 1 + Window[l]
      BY <1>1, <2>1, <2>2 DEF Known, Bucket
    <3>2. u \notin DOMAIN b => \A i \in DOMAIN s : s[i].reset <= time + 1
      BY <1>1, <2>1, <2>2 DEF Known
    <3> QED
      BY <2>1, <3>1, <3>2 DEF Known
  <2> QED
    BY <1>1, <2>1, <2>3 DEF WindowsOf, s, b
<1> QED
  BY <1>1, <1>2 DEF WindowInv

\* Nothing was let through, and the table is empty.
LEMMA WindowEmpty ==
    ASSUME NEW width, NEW max, NEW u, NEW now
    PROVE  /\ <<>> \in Seq(Pass) /\ Spaced(<<>>, width, max)
           /\ Known(<<>>, width, max, [v \in {} |-> 0], u, now)
<1>1. <<>> \in Seq(Pass) /\ DOMAIN <<>> = {}
  OBVIOUS
<1>2. DOMAIN [v \in {} |-> 0] = {}
  OBVIOUS
<1> QED
  BY <1>1, <1>2 DEF Spaced, Known

LEMMA WindowStart ==
    ASSUME time \in Nat, buckets = [l \in Limiters |-> [u \in {} |-> 0]],
           served = [l \in Limiters |-> [u \in Users |-> <<>>]]
    PROVE  WindowInv
<1>1. ASSUME NEW l \in Limiters, NEW u \in Users
      PROVE  WindowsOf(l, u)
  <2>1. served[l][u] = <<>> /\ buckets[l] = [v \in {} |-> 0]
    OBVIOUS
  <2> QED
    BY <2>1, WindowEmpty DEF WindowsOf
<1> QED
  BY <1>1 DEF WindowInv

LEMMA WindowRestart ==
    ASSUME WindowInv, Restart
    PROVE  WindowInv'
<1>1. /\ time' \in Nat /\ buckets' = [l \in Limiters |-> [u \in {} |-> 0]]
      /\ served' = [l \in Limiters |-> [u \in Users |-> <<>>]]
  BY DEF Restart, WindowInv
<1>2. ASSUME NEW l \in Limiters, NEW u \in Users
      PROVE  WindowsOf(l, u)'
  <2>1. served'[l][u] = <<>> /\ buckets'[l] = [v \in {} |-> 0]
    BY <1>1
  <2> QED
    BY <2>1, WindowEmpty DEF WindowsOf
<1> QED
  BY <1>1, <1>2 DEF WindowInv

\* WindowInv is inductive, with the type of the clock.
LEMMA WindowStep == WindowInv /\ BudgetInv /\ [Next]_vars => WindowInv'
<1> SUFFICES ASSUME WindowInv, BudgetInv, [Next]_vars PROVE WindowInv'
  OBVIOUS
<1>0. time \in Times
  BY DEF BudgetInv, BudgetTypes
<1>1. ASSUME NEW r \in Requests, NEW u \in Users, NEW l \in Limiters,
             NEW j \in Jobs \cup {NoJob}, Arrive(r, u, l, j)
      PROVE  WindowInv'
  BY <1>0, <1>1, WindowArrive
<1>2. CASE UNCHANGED <<time, buckets, served>>
  BY <1>2 DEF WindowInv, WindowsOf
<1>3. ASSUME NEW r \in Requests, ReadClock(r) \/ ReserveJob(r) \/ ReserveQuestion(r)
      PROVE  WindowInv'
  BY <1>2, <1>3 DEF ReadClock, ReserveJob, ReserveQuestion, limiter
<1>4. ASSUME NEW u \in Users, NEW j \in Jobs, NEW seconds \in Durations \cup {Unknown},
             FinishJob(u, j, seconds)
      PROVE  WindowInv'
  BY <1>2, <1>4 DEF FinishJob, limiter
<1>5. CASE Tick
  BY <1>5, WindowTick
<1>6. CASE Restart
  BY <1>6, WindowRestart
<1>7. CASE UNCHANGED vars
  BY <1>2, <1>7 DEF vars
<1> QED
  BY <1>1, <1>3, <1>4, <1>5, <1>6, <1>7 DEF Next

LEMMA WindowInit == Init => WindowInv
<1> SUFFICES ASSUME Init PROVE WindowInv
  OBVIOUS
<1>1. /\ time \in Nat /\ buckets = [l \in Limiters |-> [u \in {} |-> 0]]
      /\ served = [l \in Limiters |-> [u \in Users |-> <<>>]]
  BY DEF Init
<1> QED
  BY <1>1, WindowStart

LEMMA SpanArithmetic ==
    ASSUME NEW at \in Int, NEW reset \in Int, NEW t \in Int, NEW width \in Nat,
           reset - width <= at, at < reset, t <= at, at <= t + width - 1
    PROVE  t < reset /\ reset < t + width + width
  OBVIOUS

LEMMA ThreeApart ==
    ASSUME NEW a \in Int, NEW b \in Int, NEW c \in Int, NEW t \in Int, NEW width \in Nat,
           t < a, t < b, t < c, a < t + width + width, b < t + width + width,
           c < t + width + width, a # b,
           a < b => a + width <= b, b < a => b + width <= a,
           a < c => a + width <= c, c < a => c + width <= a,
           b < c => b + width <= c, c < b => c + width <= b
    PROVE  c = a \/ c = b
  OBVIOUS

LEMMA WindowArithmetic ==
    ASSUME NEW at \in Int, NEW reset \in Int, NEW last \in Int, NEW width \in Nat,
           last - width <= at, at < reset, reset = last \/ reset + width <= last
    PROVE  reset = last
  OBVIOUS

\* A span as long as a window meets two windows at most.
LEMMA SpanMeetsTwo ==
    ASSUME NEW s \in Seq(Pass), NEW width \in Nat, width > 0, NEW max \in Nat, NEW t \in Nat,
           Spaced(s, width, max)
    PROVE  Cardinality({i \in DOMAIN s : s[i].at \in t .. t + width - 1}) <= 2 * max
<1> DEFINE T == {i \in DOMAIN s : s[i].at \in t .. t + width - 1}
<1>1. /\ \A i \in DOMAIN s : s[i].at \in Int /\ s[i].reset \in Int
      /\ \A reset : IsFiniteSet(PassedIn(s, reset)) /\ Cardinality(PassedIn(s, reset)) \in Nat
  BY PassTypes
<1>2. ASSUME NEW i \in T PROVE t < s[i].reset /\ s[i].reset < t + width + width /\ i \in DOMAIN s
  <2>1. /\ i \in DOMAIN s /\ s[i].at \in Int /\ s[i].reset \in Int
        /\ t <= s[i].at /\ s[i].at <= t + width - 1
    BY <1>1
  <2>2. s[i].reset - width <= s[i].at /\ s[i].at < s[i].reset
    BY <2>1 DEF Spaced
  <2> QED
    BY <2>1, <2>2, SpanArithmetic
<1>3. CASE T = {}
  <2>1. Cardinality(T) = 0
    BY <1>3, FS_EmptySet
  <2> QED
    BY <2>1
<1>4. CASE T # {}
  <2>1. PICK i \in T : TRUE
    BY <1>4
  <2>2. PICK k \in T : \A h \in T : h \in PassedIn(s, s[i].reset) \cup PassedIn(s, s[k].reset)
    <3>1. CASE \A h \in T : s[h].reset = s[i].reset
      <4>1. \A h \in T : h \in PassedIn(s, s[i].reset)
        BY <1>2, <3>1 DEF PassedIn
      <4> QED
        BY <2>1, <4>1
    <3>2. CASE \E k \in T : s[k].reset # s[i].reset
      <4>1. PICK k \in T : s[k].reset # s[i].reset
        BY <3>2
      <4>2. ASSUME NEW h \in T PROVE s[h].reset = s[i].reset \/ s[h].reset = s[k].reset
        <5>1. /\ s[h].reset \in Int /\ s[i].reset \in Int /\ s[k].reset \in Int
              /\ h \in DOMAIN s /\ i \in DOMAIN s /\ k \in DOMAIN s
          BY <1>1, <1>2, <2>1, <4>1
        <5>2. /\ t < s[h].reset /\ s[h].reset < t + width + width
              /\ t < s[i].reset /\ s[i].reset < t + width + width
              /\ t < s[k].reset /\ s[k].reset < t + width + width
          BY <1>2, <2>1, <4>1
        <5>3. /\ s[h].reset < s[i].reset => s[h].reset + width <= s[i].reset
              /\ s[i].reset < s[h].reset => s[i].reset + width <= s[h].reset
              /\ s[h].reset < s[k].reset => s[h].reset + width <= s[k].reset
              /\ s[k].reset < s[h].reset => s[k].reset + width <= s[h].reset
              /\ s[k].reset < s[i].reset => s[k].reset + width <= s[i].reset
              /\ s[i].reset < s[k].reset => s[i].reset + width <= s[k].reset
          BY <5>1 DEF Spaced
        <5> DEFINE a == s[i].reset
                   b == s[k].reset
                   c == s[h].reset
        <5>4. a \in Int /\ b \in Int /\ c \in Int /\ a # b
          BY <4>1, <5>1
        <5> HIDE DEF a, b, c
        <5>5. /\ t < a /\ t < b /\ t < c
              /\ a < t + width + width /\ b < t + width + width /\ c < t + width + width
              /\ (a < b => a + width <= b) /\ (b < a => b + width <= a)
              /\ (a < c => a + width <= c) /\ (c < a => c + width <= a)
              /\ (b < c => b + width <= c) /\ (c < b => c + width <= b)
          BY <5>2, <5>3 DEF a, b, c
        <5>6. c = a \/ c = b
          BY <5>4, <5>5, ThreeApart
        <5> QED
          BY <5>6 DEF a, b, c
      <4>3. \A h \in T : h \in PassedIn(s, s[i].reset) \cup PassedIn(s, s[k].reset)
        BY <1>2, <4>2 DEF PassedIn
      <4> QED
        BY <4>1, <4>3
    <3> QED
      BY <3>1, <3>2
  <2> DEFINE A == PassedIn(s, s[i].reset)
             B == PassedIn(s, s[k].reset)
  <2>3. /\ IsFiniteSet(A) /\ Cardinality(A) \in Nat /\ Cardinality(A) <= max
        /\ IsFiniteSet(B) /\ Cardinality(B) \in Nat /\ Cardinality(B) <= max
    BY <1>1, <1>2, <2>1, <2>2 DEF Spaced
  <2>4. T \subseteq A \cup B
    BY <2>2
  <2> HIDE DEF A, B, T
  <2>5. /\ IsFiniteSet(A \cup B) /\ Cardinality(A \cap B) \in Nat
        /\ Cardinality(A \cup B) = Cardinality(A) + Cardinality(B) - Cardinality(A \cap B)
    BY <2>3, FS_Union, FS_Intersection, FS_CardinalityType
  <2>6. IsFiniteSet(T) /\ Cardinality(T) <= Cardinality(A \cup B) /\ Cardinality(T) \in Nat
    BY <2>4, <2>5, FS_Subset, FS_CardinalityType
  <2>7. Cardinality(T) <= 2 * max
    <3>1. \A x, a, b, c \in Nat : a <= max /\ b <= max /\ x <= a + b - c => x <= 2 * max
      OBVIOUS
    <3>2. Cardinality(T) <= Cardinality(A) + Cardinality(B) - Cardinality(A \cap B)
      BY <2>5, <2>6
    <3> QED
      BY <2>3, <2>5, <2>6, <3>1, <3>2
  <2> QED
    BY <2>7 DEF T
<1> QED
  BY <1>3, <1>4

\* The window of an entry holds what it counted and nothing else.
LEMMA SpanOfWindow ==
    ASSUME NEW s \in Seq(Pass), NEW width \in Nat, width > 0, NEW max \in Nat, NEW w \in Bucket,
           Spaced(s, width, max), Follows(s, width, w), w.count <= max
    PROVE  Cardinality({i \in DOMAIN s :
                          s[i].at \in (w.reset - width) .. (w.reset - width) + width - 1}) <= max
<1> DEFINE T == {i \in DOMAIN s : s[i].at \in (w.reset - width) .. (w.reset - width) + width - 1}
<1>1. /\ \A i \in DOMAIN s : s[i].at \in Int /\ s[i].reset \in Int
      /\ IsFiniteSet(PassedIn(s, w.reset)) /\ w.reset \in Nat /\ w.count \in Nat
      /\ Cardinality(PassedIn(s, w.reset)) = w.count
  BY PassTypes DEF Bucket, Follows
<1>2. ASSUME NEW i \in T PROVE i \in PassedIn(s, w.reset)
  <2>1. /\ i \in DOMAIN s /\ s[i].at \in Int /\ s[i].reset \in Int
        /\ w.reset - width <= s[i].at
    BY <1>1
  <2>2. s[i].at < s[i].reset /\ (s[i].reset = w.reset \/ s[i].reset + width <= w.reset)
    BY <2>1 DEF Spaced, Follows
  <2>3. s[i].reset = w.reset
    BY <1>1, <2>1, <2>2, WindowArithmetic
  <2> QED
    BY <2>1, <2>3 DEF PassedIn
<1>3. T \subseteq PassedIn(s, w.reset)
  BY <1>2
<1> HIDE DEF T
<1>4. Cardinality(T) <= w.count /\ Cardinality(T) \in Nat
  BY <1>1, <1>3, FS_Subset, FS_CardinalityType
<1>5. Cardinality(T) <= max
  BY <1>1, <1>4
<1> QED
  BY <1>5 DEF T

----------------------------------------------------------------------------
(* The limiter's theorem *)

\* The inductive invariant of the limiters' tables, of every instance.
THEOREM WindowInvariant == Spec => []WindowInv
<1>1. Init => WindowInv
  BY WindowInit
<1>2. WindowInv /\ BudgetInv /\ [Next]_vars => WindowInv'
  BY WindowStep
<1> QED
  BY <1>1, <1>2, BudgetInvariant, PTL DEF Spec

\* A limiter never lets more of a user's requests through in a window than it
\* may, nor more than twice that in any span of the same length, whatever users
\* come and whichever entries a full table drops.
THEOREM LimiterKept == Spec => []LimiterHolds
<1>1. WindowInv => LimiterHolds
  <2> SUFFICES ASSUME WindowInv, NEW l \in Limiters, NEW u \in Users
               PROVE  /\ u \in DOMAIN buckets[l] =>
                           Through(l, u, buckets[l][u].reset - Window[l]) <= WindowMax[l]
                      /\ \A t \in Times : Through(l, u, t) <= 2 * WindowMax[l]
    BY DEF LimiterHolds
  <2> DEFINE s == served[l][u]
             w == buckets[l][u]
  <2>1. /\ s \in Seq(Pass) /\ Spaced(s, Window[l], WindowMax[l])
        /\ Known(s, Window[l], WindowMax[l], buckets[l], u, time)
        /\ Window[l] \in Nat /\ Window[l] > 0 /\ WindowMax[l] \in Nat
    BY WindowTypes DEF WindowInv, WindowsOf
  <2>2. ASSUME u \in DOMAIN buckets[l]
        PROVE  Through(l, u, w.reset - Window[l]) <= WindowMax[l]
    <3>1. w \in Bucket /\ w.count <= WindowMax[l] /\ Follows(s, Window[l], w)
      BY <2>1, <2>2 DEF Known
    <3> HIDE DEF s, w
    <3>2. Cardinality({i \in DOMAIN s : s[i].at \in (w.reset - Window[l]) ..
                         (w.reset - Window[l]) + Window[l] - 1}) <= WindowMax[l]
      BY <2>1, <3>1, SpanOfWindow
    <3> QED
      BY <3>2 DEF Through, s
  <2>3. ASSUME NEW t \in Times
        PROVE  Through(l, u, t) <= 2 * WindowMax[l]
    <3>1. t \in Nat
      BY DEF Times
    <3> HIDE DEF s
    <3>2. Cardinality({i \in DOMAIN s : s[i].at \in t .. t + Window[l] - 1}) <= 2 * WindowMax[l]
      BY <2>1, <3>1, SpanMeetsTwo
    <3> QED
      BY <3>2 DEF Through, s
  <2> QED
    BY <2>2, <2>3
<1> QED
  BY <1>1, WindowInvariant, PTL

----------------------------------------------------------------------------
(* What the document charges *)

CountedNow(total, day, count) ==
    \A d \in Days : (d = day => total[d] = count) /\ (d > day => total[d] = 0)

TodayOf(d) == {v \in d.active : v.day = d.day}

\* The document lists what is open, one live reservation for a job, charges what
\* its day admitted, and every reservation of its day in full.
Exact(d, reserved, seconds, questions, now) ==
    /\ d.active = reserved
    /\ \A v \in reserved : v.expires > now /\ v.day <= d.day
    /\ \A v, w \in reserved : v.job = w.job => v = w
    /\ CountedNow(seconds, d.day, d.seconds) /\ CountedNow(questions, d.day, d.questions)
    /\ MediaSeconds * Cardinality(TodayOf(d)) <= d.seconds

ChargedInv ==
    \A u \in Users : ~lapsed /\ setbacks[u] = 0 =>
       Exact(doc[u], open[u], used[u], asked[u], time)

\* An update of the day or of a later one that counts c more.
LEMMA CountedNowStep ==
    ASSUME NEW total \in [Days -> Int], NEW day \in Int, NEW count \in Nat, NEW now \in Int,
           NEW c \in Nat, CountedNow(total, day, count), day <= now
    PROVE  CountedNow([total EXCEPT ![now] = @ + c], now,
                      (IF day = now THEN count ELSE 0) + c)
<1> DEFINE new == [total EXCEPT ![now] = @ + c]
<1> SUFFICES ASSUME NEW d \in Days
             PROVE  /\ d = now => new[d] = (IF day = now THEN count ELSE 0) + c
                    /\ d > now => new[d] = 0
  BY DEF CountedNow
<1>1. (d = day => total[d] = count) /\ (d > day => total[d] = 0)
  BY DEF CountedNow
<1>2. d \in Int /\ total[d] \in Int
  BY DaysInt
<1>3. new[d] = IF d = now THEN total[d] + c ELSE total[d]
  OBVIOUS
<1> QED
  BY <1>1, <1>2, <1>3

LEMMA CountedNowMoved ==
    ASSUME NEW total \in [Days -> Int], NEW day \in Int, NEW count \in Nat, NEW now \in Int,
           CountedNow(total, day, count), day <= now
    PROVE  CountedNow(total, now, IF day = now THEN count ELSE 0)
<1> SUFFICES ASSUME NEW d \in Days
             PROVE  /\ d = now => total[d] = (IF day = now THEN count ELSE 0)
                    /\ d > now => total[d] = 0
  BY DEF CountedNow
<1>1. (d = day => total[d] = count) /\ (d > day => total[d] = 0)
  BY DEF CountedNow
<1>2. d \in Int /\ total[d] \in Int
  BY DaysInt
<1> QED
  BY <1>1, <1>2

\* The same reservations, of which only those of the same day are charged.
LEMMA TodayMoved ==
    ASSUME NEW d \in Budget, NEW e \in Budget, IsFiniteSet(d.active), e.active = d.active,
           \A v \in d.active : v.day <= d.day, d.day <= e.day,
           MediaSeconds * Cardinality(TodayOf(d)) <= d.seconds,
           e.seconds = IF d.day = e.day THEN d.seconds ELSE 0
    PROVE  MediaSeconds * Cardinality(TodayOf(e)) <= e.seconds
<1>1. d.day \in Int /\ e.day \in Int /\ \A v \in d.active : v.day \in Int
  BY DEF Budget, Booking
<1>2. CASE d.day = e.day
  <2>1. TodayOf(e) = TodayOf(d)
    BY <1>2 DEF TodayOf
  <2> QED
    BY <1>2, <2>1
<1>3. CASE d.day # e.day
  <2>1. TodayOf(e) = {}
    BY <1>1, <1>3 DEF TodayOf
  <2>2. Cardinality(TodayOf(e)) = 0
    BY <2>1, FS_EmptySet
  <2>3. MediaSeconds * 0 = 0
    BY AdmissionAssumption
  <2> QED
    BY <1>3, <2>2, <2>3
<1> QED
  BY <1>2, <1>3

\* What a document that charges exactly finds at a clock read before: every
\* reservation is still active.
LEMMA AllActive ==
    ASSUME NEW d \in Budget, NEW reserved, NEW seconds, NEW questions, NEW t \in Int,
           NEW now \in Int, now <= t, Exact(d, reserved, seconds, questions, t)
    PROVE  ActiveAt(d, now) = reserved
<1>1. d.active = reserved /\ \A v \in reserved : v.expires \in Int /\ v.expires > t
  BY DEF Exact, Budget, Booking
<1>2. \A v \in d.active : v.expires > now
  BY <1>1
<1> QED
  BY <1>1, <1>2 DEF ActiveAt

\* A document that an update moved to its own day or a later one, with asks more
\* questions.
MovedOn(d, e, asks) ==
    /\ d.day <= e.day /\ e.active = d.active
    /\ e.seconds = (IF d.day = e.day THEN d.seconds ELSE 0)
    /\ e.questions = (IF d.day = e.day THEN d.questions ELSE 0) + asks

\* A replay or a question moves the counts to its day.
LEMMA ExactMoved ==
    ASSUME NEW d \in Budget, NEW e \in Budget, IsFiniteSet(d.active), NEW t \in Int,
           NEW seconds \in [Days -> Int], NEW questions \in [Days -> Int], NEW asks \in Nat,
           Exact(d, d.active, seconds, questions, t), MovedOn(d, e, asks),
           NEW after \in [Days -> Int],
           \/ asks = 0 /\ after = questions
           \/ after = [questions EXCEPT ![e.day] = @ + asks]
    PROVE  Exact(e, d.active, seconds, after, t)
<1>1. /\ d.day \in Int /\ e.day \in Int /\ d.seconds \in Nat /\ d.questions \in Nat
      /\ \A v \in d.active : v.day \in Int
      /\ d.day <= e.day /\ e.active = d.active
      /\ e.seconds = (IF d.day = e.day THEN d.seconds ELSE 0)
      /\ e.questions = (IF d.day = e.day THEN d.questions ELSE 0) + asks
  BY DEF Budget, Booking, MovedOn
<1>2. CountedNow(seconds, e.day, e.seconds)
  BY <1>1, CountedNowMoved DEF Exact
<1>3. CountedNow(after, e.day, e.questions)
  <2>1. CASE asks = 0 /\ after = questions
    <3>1. e.questions = IF d.day = e.day THEN d.questions ELSE 0
      BY <1>1, <2>1
    <3> QED
      BY <1>1, <2>1, <3>1, CountedNowMoved DEF Exact
  <2>2. CASE after = [questions EXCEPT ![e.day] = @ + asks]
    <3>1. CountedNow(questions, d.day, d.questions)
      BY DEF Exact
    <3>2. CountedNow([questions EXCEPT ![e.day] = @ + asks], e.day,
                     (IF d.day = e.day THEN d.questions ELSE 0) + asks)
      BY <1>1, <3>1, CountedNowStep
    <3> QED
      BY <1>1, <2>2, <3>2
  <2> QED
    BY <2>1, <2>2
<1>4. MediaSeconds * Cardinality(TodayOf(e)) <= e.seconds
  <2>1. \A v \in d.active : v.day <= d.day
    BY DEF Exact
  <2>2. MediaSeconds * Cardinality(TodayOf(d)) <= d.seconds
    BY DEF Exact
  <2> QED
    BY <1>1, <2>1, <2>2, TodayMoved
<1>5. \A v \in d.active : v.expires > t /\ v.day <= e.day
  BY <1>1 DEF Exact
<1>6. \A v, w \in d.active : v.job = w.job => v = w
  BY DEF Exact
<1> QED
  BY <1>1, <1>2, <1>3, <1>4, <1>5, <1>6 DEF Exact

\* A new reservation is charged in full.
LEMMA ExactReserved ==
    ASSUME NEW d \in Budget, NEW e \in Budget, IsFiniteSet(d.active), NEW t \in Int,
           NEW seconds \in [Days -> Int], NEW questions \in [Days -> Int], NEW v \in Booking,
           Exact(d, d.active, seconds, questions, t), d.day <= e.day,
           \A w \in d.active : w.job # v.job, v.day = e.day, v.expires > t,
           e.active = d.active \cup {v},
           e.seconds = (IF d.day = e.day THEN d.seconds ELSE 0) + MediaSeconds,
           e.questions = (IF d.day = e.day THEN d.questions ELSE 0)
    PROVE  Exact(e, d.active \cup {v}, [seconds EXCEPT ![e.day] = @ + MediaSeconds],
                 questions, t)
<1>1. /\ d.day \in Int /\ e.day \in Int /\ d.seconds \in Nat /\ d.questions \in Nat
      /\ \A w \in d.active : w.day \in Int
      /\ MediaSeconds \in Nat
  BY AdmissionAssumption DEF Budget, Booking
<1>2. CountedNow([seconds EXCEPT ![e.day] = @ + MediaSeconds], e.day, e.seconds)
  <2>1. CountedNow(seconds, d.day, d.seconds)
    BY DEF Exact
  <2>2. CountedNow([seconds EXCEPT ![e.day] = @ + MediaSeconds], e.day,
                   (IF d.day = e.day THEN d.seconds ELSE 0) + MediaSeconds)
    BY <1>1, <2>1, CountedNowStep
  <2> QED
    BY <2>2
<1>3. CountedNow(questions, e.day, e.questions)
  BY <1>1, CountedNowMoved DEF Exact
<1>4. MediaSeconds * Cardinality(TodayOf(e)) <= e.seconds
  <2> DEFINE n == Cardinality(TodayOf(d))
  <2>1. TodayOf(d) \subseteq d.active /\ v \notin d.active
    BY DEF TodayOf
  <2>2. IsFiniteSet(TodayOf(d)) /\ n \in Nat
    BY <2>1, FS_Subset, FS_CardinalityType
  <2>3. CASE d.day = e.day
    <3>1. TodayOf(e) = TodayOf(d) \cup {v}
      BY <2>3 DEF TodayOf
    <3>2. Cardinality(TodayOf(e)) = n + 1
      BY <2>1, <2>2, <3>1, FS_AddElement, ZenonT(60)
    <3>3. MediaSeconds * (1 + n) = MediaSeconds * n + MediaSeconds /\ MediaSeconds * n \in Nat
      BY <1>1, <2>2, OneMore
    <3>4. 1 + n = n + 1 /\ e.seconds = d.seconds + MediaSeconds
      BY <2>2, <2>3
    <3>5. MediaSeconds * n <= d.seconds
      BY DEF Exact
    <3> HIDE DEF n
    <3>6. MediaSeconds * n + MediaSeconds <= d.seconds + MediaSeconds
      <4> DEFINE m == MediaSeconds * n
      <4>1. m \in Nat /\ m <= d.seconds
        BY <3>3, <3>5
      <4> HIDE DEF m
      <4>2. m + MediaSeconds <= d.seconds + MediaSeconds
        BY <1>1, <4>1
      <4> QED
        BY <4>2 DEF m
    <3> QED
      BY <3>2, <3>3, <3>4, <3>6
  <2>4. CASE d.day # e.day
    <3>1. \A w \in d.active : w.day <= d.day
      BY DEF Exact
    <3>2. TodayOf(e) = {v}
      BY <1>1, <2>4, <3>1 DEF TodayOf
    <3>3. Cardinality(TodayOf(e)) = 1
      BY <3>2, FS_Singleton
    <3>4. MediaSeconds * 1 = MediaSeconds /\ e.seconds = MediaSeconds
      BY <1>1, <2>4
    <3> QED
      BY <1>1, <3>3, <3>4
  <2> QED
    BY <2>3, <2>4
<1>5. \A w \in d.active \cup {v} : w.expires > t /\ w.day <= e.day
  <2>1. \A w \in d.active : w.expires > t /\ w.day <= d.day
    BY DEF Exact
  <2>2. \A w \in d.active : w.day <= e.day
    BY <1>1, <2>1
  <2> QED
    BY <1>1, <2>1, <2>2
<1>6. \A w, x \in d.active \cup {v} : w.job = x.job => w = x
  BY DEF Exact
<1> QED
  BY <1>2, <1>3, <1>4, <1>5, <1>6 DEF Exact

\* A document and a history from which the reservations of a job are taken.
TakenFrom(d, e, j, mine, today, refund, seconds, after) ==
    /\ mine = {v \in d.active : v.job = j}
    /\ today <=> \E v \in mine : v.day = d.day
    /\ e.day = d.day /\ e.questions = d.questions /\ e.active = d.active \ mine
    /\ e.seconds = (LET rest == d.seconds - (IF today THEN refund ELSE 0)
                    IN  IF rest < 0 THEN 0 ELSE rest)
    /\ \A x \in Days : after[x] =
         seconds[x] - (IF \E v \in mine : v.day = x THEN refund ELSE 0)

\* A reservation that ends gives back what it was charged too much, if its day
\* is the document's, and takes nothing from what the others are charged.
LEMMA ExactFinished ==
    ASSUME NEW d \in Budget, NEW e \in Budget, IsFiniteSet(d.active), NEW t \in Int,
           NEW seconds \in [Days -> Int], NEW questions \in [Days -> Int], NEW j,
           NEW refund \in Nat, refund <= MediaSeconds,
           Exact(d, d.active, seconds, questions, t),
           NEW mine, NEW today \in BOOLEAN, NEW after \in [Days -> Int],
           TakenFrom(d, e, j, mine, today, refund, seconds, after)
    PROVE  Exact(e, d.active \ mine, after, questions, t)
<1>1. /\ d.day \in Int /\ d.seconds \in Nat /\ \A w \in d.active : w.day \in Int
      /\ MediaSeconds \in Nat
  BY AdmissionAssumption DEF Budget, Booking
<1>2. /\ \A w \in d.active : w.expires > t /\ w.day <= d.day
      /\ \A w, x \in d.active : w.job = x.job => w = x
      /\ MediaSeconds * Cardinality(TodayOf(d)) <= d.seconds
      /\ CountedNow(seconds, d.day, d.seconds) /\ CountedNow(questions, d.day, d.questions)
  BY DEF Exact
<1>0. /\ mine = {v \in d.active : v.job = j}
      /\ today <=> \E v \in mine : v.day = d.day
      /\ e.day = d.day /\ e.questions = d.questions /\ e.active = d.active \ mine
      /\ e.seconds = (LET rest == d.seconds - (IF today THEN refund ELSE 0)
                      IN  IF rest < 0 THEN 0 ELSE rest)
      /\ \A x \in Days : after[x] =
           seconds[x] - (IF \E v \in mine : v.day = x THEN refund ELSE 0)
  BY DEF TakenFrom
<1> DEFINE n == Cardinality(TodayOf(d))
           m == Cardinality(TodayOf(e))
<1>3. IsFiniteSet(TodayOf(d)) /\ n \in Nat
  <2>1. TodayOf(d) \subseteq d.active
    BY DEF TodayOf
  <2> QED
    BY <2>1, FS_Subset, FS_CardinalityType
<1>4. ASSUME today PROVE n \in Nat /\ n > 0 /\ m = n - 1
  <2>1. PICK v \in mine : v.day = d.day
    BY <1>0, <1>4
  <2>2. mine = {v}
    BY <1>0, <1>2, <2>1
  <2>3. TodayOf(e) = TodayOf(d) \ {v} /\ v \in TodayOf(d)
    BY <1>0, <2>1, <2>2 DEF TodayOf
  <2>4. m = n - 1
    BY <1>3, <2>3, FS_RemoveElement
  <2>5. n # 0
    BY <1>3, <2>3, FS_EmptySet
  <2> QED
    BY <1>3, <2>4, <2>5
<1>5. ASSUME ~today PROVE m = n
  <2>1. TodayOf(e) = TodayOf(d)
    BY <1>0, <1>5 DEF TodayOf
  <2> QED
    BY <2>1
<1> HIDE DEF n, m
<1>6. /\ MediaSeconds * m <= e.seconds
      /\ e.seconds = d.seconds - (IF today THEN refund ELSE 0)
  <2>1. CASE today
    <3> DEFINE p == MediaSeconds * m
    <3>1. m \in Nat /\ n = 1 + m
      BY <1>4, <2>1
    <3>2. p \in Nat /\ MediaSeconds * n = p + MediaSeconds
      BY <1>1, <3>1, OneMore
    <3>3. MediaSeconds * n <= d.seconds
      BY <1>2 DEF n
    <3> HIDE DEF p
    <3>4. p + MediaSeconds <= d.seconds
      BY <3>2, <3>3
    <3>5. p <= d.seconds - refund /\ ~(d.seconds - refund < 0)
      BY <1>1, <3>2, <3>4
    <3> QED
      BY <1>0, <2>1, <3>5 DEF p
  <2>2. CASE ~today
    <3>1. m = n /\ MediaSeconds * n <= d.seconds
      BY <1>2, <1>5, <2>2 DEF n
    <3>2. e.seconds = d.seconds /\ d.seconds - 0 = d.seconds
      BY <1>0, <1>1, <2>2
    <3> QED
      BY <1>0, <2>2, <3>1, <3>2
  <2> QED
    BY <2>1, <2>2
<1>7. CountedNow(after, e.day, e.seconds)
  <2>1. ASSUME NEW x \in Days
        PROVE  (x = d.day => after[x] = e.seconds) /\ (x > d.day => after[x] = 0)
    <3>1. (x = d.day => seconds[x] = d.seconds) /\ (x > d.day => seconds[x] = 0)
      BY <1>2 DEF CountedNow
    <3>2. x \in Int /\ after[x] = seconds[x] - (IF \E v \in mine : v.day = x THEN refund ELSE 0)
      BY <1>0, DaysInt
    <3>3. x > d.day => ~\E v \in mine : v.day = x
      BY <1>0, <1>1, <1>2, <3>2
    <3>4. CASE x = d.day
      <4>1. (\E v \in mine : v.day = x) <=> today
        BY <1>0, <3>4
      <4>2. after[x] = d.seconds - (IF today THEN refund ELSE 0)
        BY <3>1, <3>2, <3>4, <4>1
      <4> QED
        BY <1>6, <3>4, <4>2, <1>1
    <3>5. CASE x > d.day
      BY <1>1, <3>1, <3>2, <3>3, <3>5
    <3> QED
      BY <3>4, <3>5
  <2> QED
    BY <1>0, <2>1 DEF CountedNow
<1>8. MediaSeconds * Cardinality(TodayOf(e)) <= e.seconds
  BY <1>6 DEF m
<1> QED
  BY <1>0, <1>2, <1>7, <1>8 DEF Exact

\* Steps that leave a user's budget alone.
LEMMA ChargedFrame ==
    ASSUME ChargedInv, NEW w \in Users, time' = time, ~lapsed' => ~lapsed,
           doc'[w] = doc[w], used'[w] = used[w], asked'[w] = asked[w],
           open'[w] = open[w], setbacks'[w] = setbacks[w],
           ~lapsed' /\ setbacks'[w] = 0
    PROVE  Exact(doc'[w], open'[w], used'[w], asked'[w], time')
  BY DEF ChargedInv

\* What an update that is admitted without overtaking a midnight starts from.
LEMMA ChargedBefore ==
    ASSUME ChargedInv, BudgetInv, NEW u \in Users, NEW now \in Times, now <= time, ~lapsed,
           setbacks[u] + SetBack(u, now) = 0
    PROVE  /\ Exact(doc[u], doc[u].active, used[u], asked[u], time)
           /\ doc[u].active = open[u] /\ IsFiniteSet(doc[u].active)
           /\ doc[u] \in Budget /\ doc[u].day <= DayOf(now)
           /\ used[u] \in [Days -> Int] /\ asked[u] \in [Days -> Int]
           /\ ActiveAt(doc[u], now) = doc[u].active
           /\ time \in Int /\ now \in Int /\ DayOf(now) \in Int
<1>1. /\ doc[u] \in Budget /\ doc[u].day \in Int /\ setbacks[u] \in Nat /\ ListedActive(u)
      /\ used[u] \in [Days -> Int] /\ asked[u] \in [Days -> Int]
      /\ time \in Int /\ now \in Int /\ DayOf(now) \in Int
  BY UserTypes, DayType DEF BudgetInv, BudgetTypes, Times
<1>2. SetBack(u, now) = 0 /\ setbacks[u] = 0
  BY <1>1 DEF SetBack
<1>3. doc[u].day <= DayOf(now)
  BY <1>1, <1>2 DEF SetBack
<1>4. Exact(doc[u], open[u], used[u], asked[u], time)
  BY <1>2 DEF ChargedInv
<1>5. doc[u].active = open[u]
  BY <1>4 DEF Exact
<1>6. ActiveAt(doc[u], now) = open[u]
  BY <1>1, <1>4, AllActive
<1> QED
  BY <1>1, <1>3, <1>4, <1>5, <1>6 DEF ListedActive

LEMMA ChargedQuestion ==
    ASSUME ChargedInv, BudgetInv, NEW r \in Requests, ReserveQuestion(r)
    PROVE  ChargedInv'
<1>1. PICK u \in Users, now \in Times : u = request[r].user /\ now = request[r].now
  BY Sender DEF ReserveQuestion
<1>2. now <= time /\ UNCHANGED <<time, used, open, lapsed>>
  BY <1>1, Sender DEF ReserveQuestion
<1> SUFFICES ASSUME NEW w \in Users, ~lapsed', setbacks'[w] = 0
             PROVE  Exact(doc'[w], open'[w], used'[w], asked'[w], time')
  BY DEF ChargedInv
<1>3. CASE w # u \/ ~MayAsk(doc[u], now)
  <2>1. doc'[w] = doc[w] /\ asked'[w] = asked[w] /\ setbacks'[w] = setbacks[w]
    BY <1>1, <1>3 DEF ReserveQuestion, BudgetInv, BudgetTypes
  <2> QED
    BY <1>2, <2>1, ChargedFrame
<1>4. CASE w = u /\ MayAsk(doc[u], now)
  <2> DEFINE d == doc[u]
             e == [d EXCEPT !.day = DayOf(now), !.seconds = SecondsAt(d, now),
                            !.questions = QuestionsAt(d, now) + 1]
             after == [asked[u] EXCEPT ![DayOf(now)] = @ + 1]
  <2>1. doc'[u] = e /\ asked'[u] = after /\ setbacks'[u] = setbacks[u] + SetBack(u, now)
    BY <1>1, <1>4 DEF ReserveQuestion, BudgetInv, BudgetTypes
  <2>2. /\ Exact(d, d.active, used[u], asked[u], time) /\ d.active = open[u]
        /\ IsFiniteSet(d.active) /\ d \in Budget /\ d.day <= DayOf(now)
        /\ used[u] \in [Days -> Int] /\ asked[u] \in [Days -> Int]
        /\ time \in Int /\ DayOf(now) \in Int
    BY <1>2, <1>4, <2>1, ChargedBefore
  <2>3. /\ SecondsAt(d, now) = (IF d.day = DayOf(now) THEN d.seconds ELSE 0)
        /\ QuestionsAt(d, now) = (IF d.day = DayOf(now) THEN d.questions ELSE 0)
        /\ SecondsAt(d, now) \in Nat /\ QuestionsAt(d, now) + 1 \in Nat
    BY <2>2 DEF SecondsAt, QuestionsAt, Budget
  <2> HIDE DEF d
  <2>4. /\ e \in Budget /\ e.day = DayOf(now) /\ e.active = d.active
        /\ e.seconds = (IF d.day = DayOf(now) THEN d.seconds ELSE 0)
        /\ e.questions = (IF d.day = DayOf(now) THEN d.questions ELSE 0) + 1
    <3> DEFINE day == DayOf(now)
               s == SecondsAt(d, now)
               q == QuestionsAt(d, now) + 1
    <3> HIDE DEF day, s, q
    <3>1. day \in Int /\ s \in Nat /\ q \in Nat
      BY <2>2, <2>3 DEF day, s, q
    <3>2. e = [d EXCEPT !.day = day, !.seconds = s, !.questions = q]
      BY DEF day, s, q
    <3>3. /\ e \in Budget /\ e.day = day /\ e.active = d.active /\ e.seconds = s
          /\ e.questions = q
      BY <2>2, <3>1, <3>2 DEF Budget
    <3> QED
      BY <2>3, <3>3 DEF day, s, q
  <2>5. after \in [Days -> Int]
    <3>1. 1 \in Int
      OBVIOUS
    <3> QED
      BY <2>2, <3>1, AddedType, Zenon
  <2>6. after = [asked[u] EXCEPT ![e.day] = @ + 1]
    BY <2>4
  <2> HIDE DEF e, after
  <2>7. Exact(e, d.active, used[u], after, time)
    <3>1. MovedOn(d, e, 1)
      BY <2>2, <2>4 DEF MovedOn
    <3> QED
      BY <2>2, <2>4, <2>5, <2>6, <3>1, ExactMoved
  <2> QED
    BY <1>2, <1>4, <2>1, <2>2, <2>7
<1> QED
  BY <1>3, <1>4

LEMMA ChargedReserve ==
    ASSUME ChargedInv, BudgetInv, NEW r \in Requests, ReserveJob(r)
    PROVE  ChargedInv'
<1>1. PICK u \in Users, now \in Times, j \in Jobs \cup {NoJob} :
        u = request[r].user /\ now = request[r].now /\ j = request[r].job
  BY Sender DEF ReserveJob
<1>2. now <= time /\ UNCHANGED <<time, asked>>
  BY <1>1, Sender DEF ReserveJob
<1>3. ~lapsed' => ~lapsed
  BY DEF ReserveJob
<1> SUFFICES ASSUME NEW w \in Users, ~lapsed', setbacks'[w] = 0
             PROVE  Exact(doc'[w], open'[w], used'[w], asked'[w], time')
  BY DEF ChargedInv
<1>4. CASE w # u \/ ~MayReserve(doc[u], now, j)
  <2>1. /\ doc'[w] = doc[w] /\ used'[w] = used[w] /\ setbacks'[w] = setbacks[w]
        /\ open'[w] = open[w]
    BY <1>1, <1>4 DEF ReserveJob, BudgetInv, BudgetTypes
  <2> QED
    BY <1>2, <1>3, <2>1, ChargedFrame
<1>5. CASE w = u /\ MayReserve(doc[u], now, j)
  <2> DEFINE d == doc[u]
             e == Reserved(d, now, j)
             v == [job |-> j, day |-> DayOf(now), expires |-> now + Lease]
  <2>1. doc'[u] = e /\ setbacks'[u] = setbacks[u] + SetBack(u, now)
    BY <1>1, <1>5 DEF ReserveJob, BudgetInv, BudgetTypes
  <2>2. /\ Exact(d, d.active, used[u], asked[u], time) /\ d.active = open[u]
        /\ IsFiniteSet(d.active) /\ d \in Budget /\ d.day <= DayOf(now)
        /\ used[u] \in [Days -> Int] /\ asked[u] \in [Days -> Int]
        /\ ActiveAt(d, now) = d.active
        /\ time \in Int /\ now \in Int /\ DayOf(now) \in Int
    BY <1>2, <1>3, <1>5, <2>1, ChargedBefore
  <2>3. /\ SecondsAt(d, now) = (IF d.day = DayOf(now) THEN d.seconds ELSE 0)
        /\ QuestionsAt(d, now) = (IF d.day = DayOf(now) THEN d.questions ELSE 0)
        /\ SecondsAt(d, now) \in Nat /\ QuestionsAt(d, now) \in Nat
        /\ d.active \subseteq Booking /\ MediaSeconds \in Nat /\ Lease \in Nat
    BY <2>2, AdmissionAssumption DEF SecondsAt, QuestionsAt, Budget
  <2>4. v \in Booking /\ v.job = j /\ v.day = DayOf(now) /\ v.expires = now + Lease
    BY <2>2, <2>3 DEF Booking
  <2> HIDE DEF d, v
  <2>5. CASE Holds(doc[u], now, j)
    <3>1. used'[u] = used[u] /\ open'[u] = open[u]
      BY <1>1, <2>5 DEF ReserveJob
    <3> DEFINE s == SecondsAt(d, now)
               q == QuestionsAt(d, now)
    <3>2. e = [day |-> DayOf(now), seconds |-> s, questions |-> q, active |-> d.active]
      <4>1. s + 0 = s /\ d.active \cup {} = d.active
        BY <2>3
      <4> HIDE DEF s, q
      <4> QED
        BY <2>2, <2>5, <4>1 DEF Reserved, s, q, d
    <3> HIDE DEF e
    <3>3. /\ e \in Budget /\ e.day = DayOf(now) /\ e.active = d.active
          /\ e.seconds = (IF d.day = DayOf(now) THEN d.seconds ELSE 0)
          /\ e.questions = (IF d.day = DayOf(now) THEN d.questions ELSE 0) + 0
      <4> HIDE DEF s, q
      <4>1. s \in Nat /\ q \in Nat
        BY <2>3 DEF s, q
      <4>2. /\ e \in Budget /\ e.day = DayOf(now) /\ e.active = d.active /\ e.seconds = s
            /\ e.questions = q /\ q + 0 = q
        BY <2>2, <2>3, <3>2, <4>1 DEF Budget
      <4> QED
        BY <2>3, <4>2 DEF s, q
    <3>4. Exact(e, d.active, used[u], asked[u], time)
      <4>1. MovedOn(d, e, 0)
        BY <2>2, <3>3 DEF MovedOn
      <4> QED
        BY <2>2, <3>3, <4>1, ExactMoved
    <3> QED
      BY <1>2, <1>5, <2>1, <2>2, <3>1, <3>4
  <2>6. CASE ~Holds(doc[u], now, j)
    <3> DEFINE others == {x \in open[u] : x.job # j}
    <3>1. /\ used'[u] = [used[u] EXCEPT ![DayOf(now)] = @ + MediaSeconds]
          /\ open'[u] = others \cup {v}
          /\ ~(now + Lease <= time)
      <4>1. /\ used' = [used EXCEPT ![u][DayOf(now)] = @ + MediaSeconds]
            /\ open' = [open EXCEPT ![u] = {x \in @ : x.job # j} \cup {v}]
        BY <1>1, <1>5, <2>6 DEF ReserveJob, v
      <4>2. lapsed' = (lapsed \/ now + Lease <= time)
        BY <1>1, <1>5, <2>6 DEF ReserveJob
      <4>3. used \in [Users -> [Days -> Int]] /\ open \in [Users -> SUBSET Booking]
        BY DEF BudgetInv, BudgetTypes
      <4>4. used'[u] = [used[u] EXCEPT ![DayOf(now)] = @ + MediaSeconds]
        BY <4>1, <4>3
      <4>5. open'[u] = others \cup {v}
        BY <4>1, <4>3
      <4>6. ~(now + Lease <= time)
        BY <4>2, Zenon
      <4> QED
        BY <4>4, <4>5, <4>6
    <3>2. \A x \in d.active : x.job # j
      BY <2>2, <2>6 DEF Holds, d
    <3>3. others = d.active
      BY <2>2, <3>2
    <3> HIDE DEF others
    <3> DEFINE s == SecondsAt(d, now) + MediaSeconds
               q == QuestionsAt(d, now)
    <3>4. e = [day |-> DayOf(now), seconds |-> s, questions |-> q, active |-> d.active \cup {v}]
      BY <2>2, <2>6 DEF Reserved, d, v
    <3> HIDE DEF e
    <3>5. /\ e \in Budget /\ e.day = DayOf(now) /\ e.active = d.active \cup {v}
          /\ e.seconds = (IF d.day = DayOf(now) THEN d.seconds ELSE 0) + MediaSeconds
          /\ e.questions = (IF d.day = DayOf(now) THEN d.questions ELSE 0)
      <4>1. s \in Nat /\ q \in Nat
        BY <2>3
      <4> HIDE DEF s, q
      <4>2. /\ e \in Budget /\ e.day = DayOf(now) /\ e.active = d.active \cup {v}
            /\ e.seconds = s /\ e.questions = q
        BY <2>2, <2>3, <2>4, <3>4, <4>1 DEF Budget
      <4> QED
        BY <2>3, <4>2 DEF s, q
    <3>6. v.expires > time
      BY <2>2, <2>3, <2>4, <3>1
    <3>7. Exact(e, d.active \cup {v}, [used[u] EXCEPT ![e.day] = @ + MediaSeconds], asked[u],
                time)
      BY <2>2, <2>4, <3>2, <3>5, <3>6, ExactReserved
    <3> QED
      BY <1>2, <1>5, <2>1, <3>1, <3>3, <3>5, <3>7
  <2> QED
    BY <2>5, <2>6
<1> QED
  BY <1>4, <1>5

LEMMA RefundBounded ==
    ASSUME NEW seconds \in Durations \cup {Unknown}
    PROVE  Refund(seconds) \in Nat /\ Refund(seconds) <= MediaSeconds
<1>1. MediaSeconds \in Nat /\ (seconds = Unknown \/ seconds \in Nat)
  BY AdmissionAssumption
<1> QED
  BY <1>1 DEF Refund

LEMMA ChargedFinish ==
    ASSUME ChargedInv, BudgetInv, NEW u \in Users, NEW j \in Jobs,
           NEW seconds \in Durations \cup {Unknown}, FinishJob(u, j, seconds)
    PROVE  ChargedInv'
<1>1. UNCHANGED <<time, asked, setbacks, lapsed>>
  BY DEF FinishJob
<1> SUFFICES ASSUME NEW w \in Users, ~lapsed', setbacks'[w] = 0
             PROVE  Exact(doc'[w], open'[w], used'[w], asked'[w], time')
  BY DEF ChargedInv
<1>2. CASE w # u
  <2>1. doc'[w] = doc[w] /\ used'[w] = used[w] /\ open'[w] = open[w]
    BY <1>2 DEF FinishJob, BudgetInv, BudgetTypes
  <2> QED
    BY <1>1, <2>1, ChargedFrame
<1>3. CASE w = u
  <2> DEFINE d == doc[u]
             refund == Refund(seconds)
             mine == {v \in d.active : v.job = j}
             today == \E v \in mine : v.day = d.day
             rest == d.seconds - (IF today THEN refund ELSE 0)
             left == IF rest < 0 THEN 0 ELSE rest
             e == [d EXCEPT !.seconds = left, !.active = @ \ mine]
             after == [x \in Days |-> used[u][x] -
                         (IF \E v \in mine : v.day = x THEN refund ELSE 0)]
  <2>1. /\ Exact(d, open[u], used[u], asked[u], time) /\ d \in Budget
        /\ IsFiniteSet(d.active) /\ d.seconds \in Nat
        /\ used[u] \in [Days -> Int] /\ asked[u] \in [Days -> Int] /\ time \in Int
    BY <1>1, <1>3, UserTypes DEF ChargedInv, ListedActive, BudgetInv, BudgetTypes, Times
  <2>2. d.active = open[u]
    BY <2>1 DEF Exact
  <2>3. /\ doc'[u] = e /\ open'[u] = d.active \ mine /\ used'[u] = after
    BY <2>2 DEF FinishJob, Finished, BudgetInv, BudgetTypes
  <2>4. refund \in Nat /\ refund <= MediaSeconds
    BY RefundBounded
  <2>5. PICK b \in BOOLEAN : b = today
    OBVIOUS
  <2>6. e.seconds = left /\ e.day = d.day /\ e.questions = d.questions
        /\ e.active = d.active \ mine /\ left \in Nat /\ e \in Budget
    <3>1. left \in Nat
      <4> HIDE DEF today, refund, d
      <4> QED
        BY <2>1, <2>4
    <3> DEFINE a == d.active \ mine
    <3>2. a \subseteq Booking
      BY <2>1 DEF Budget
    <3>3. e = [d EXCEPT !.seconds = left, !.active = a]
      OBVIOUS
    <3> HIDE DEF left, a, d, e
    <3>4. e.seconds = left /\ e.day = d.day /\ e.questions = d.questions
          /\ e.active = a /\ e \in Budget
      BY <2>1, <3>1, <3>2, <3>3 DEF Budget
    <3> QED
      BY <3>1, <3>4 DEF a
  <2>7. after \in [Days -> Int]
    <3> HIDE DEF refund, mine
    <3>1. \A x \in Days : used[u][x] -
                         (IF \E v \in mine : v.day = x THEN refund ELSE 0) \in Int
      BY <2>1, <2>4
    <3> QED
      BY <3>1
  <2>8. \A x \in Days : after[x] =
              used[u][x] - (IF \E v \in mine : v.day = x THEN refund ELSE 0)
    OBVIOUS
  <2>9. /\ b <=> \E v \in mine : v.day = d.day
        /\ e.seconds = (LET less == d.seconds - (IF b THEN refund ELSE 0)
                        IN  IF less < 0 THEN 0 ELSE less)
    BY <2>5, <2>6
  <2>10. PICK m : m = mine
    OBVIOUS
  <2>11. /\ m = {v \in d.active : v.job = j} /\ e.active = d.active \ m
         /\ (b <=> \E v \in m : v.day = d.day)
         /\ \A x \in Days : after[x] =
              used[u][x] - (IF \E v \in m : v.day = x THEN refund ELSE 0)
    BY <2>6, <2>8, <2>9, <2>10
  <2>12. e.seconds = (LET less == d.seconds - (IF b THEN refund ELSE 0)
                      IN  IF less < 0 THEN 0 ELSE less)
    BY <2>9
  <2>13. open'[u] = d.active \ m
    BY <2>3, <2>10
  <2> HIDE DEF d, refund, mine, today, rest, left, e, after
  <2>14. Exact(d, d.active, used[u], asked[u], time)
    BY <2>1, <2>2
  <2>15. Exact(e, d.active \ m, after, asked[u], time)
    <3>1. TakenFrom(d, e, j, m, b, refund, used[u], after)
      BY <2>6, <2>11, <2>12 DEF TakenFrom
    <3>2. d \in Budget /\ e \in Budget /\ IsFiniteSet(d.active) /\ time \in Int
      BY <2>1, <2>6
    <3>3. used[u] \in [Days -> Int] /\ asked[u] \in [Days -> Int] /\ after \in [Days -> Int]
      BY <2>1, <2>7
    <3>4. refund \in Nat /\ refund <= MediaSeconds
      BY <2>4
    <3> QED
      BY <2>14, <3>1, <3>2, <3>3, <3>4, ExactFinished
  <2> QED
    BY <1>1, <1>3, <2>3, <2>13, <2>15
<1> QED
  BY <1>2, <1>3

LEMMA ChargedTick ==
    ASSUME ChargedInv, BudgetInv, Tick
    PROVE  ChargedInv'
<1>1. /\ UNCHANGED <<doc, used, asked, open, setbacks>> /\ time' = time + 1
      /\ lapsed' = (lapsed \/ \E u \in Users : \E v \in open[u] : v.expires <= time + 1)
  BY DEF Tick, budget
<1> SUFFICES ASSUME NEW w \in Users, ~lapsed', setbacks'[w] = 0
             PROVE  Exact(doc'[w], open'[w], used'[w], asked'[w], time')
  BY DEF ChargedInv
<1>2. ~lapsed /\ \A v \in open[w] : ~(v.expires <= time + 1)
  BY <1>1, Zenon
<1>3. Exact(doc[w], open[w], used[w], asked[w], time)
  BY <1>1, <1>2 DEF ChargedInv
<1>4. time \in Int /\ \A v \in open[w] : v.expires \in Int
  BY UserTypes DEF BudgetInv, BudgetTypes, Times, Booking
<1>5. \A v \in open[w] : v.expires > time + 1
  BY <1>2, <1>4
<1>6. Exact(doc[w], open[w], used[w], asked[w], time + 1)
  BY <1>3, <1>5 DEF Exact
<1> QED
  BY <1>1, <1>6

\* ChargedInv is inductive, with BudgetInv.
LEMMA ChargedStep == ChargedInv /\ BudgetInv /\ [Next]_vars => ChargedInv'
<1> SUFFICES ASSUME ChargedInv, BudgetInv, [Next]_vars PROVE ChargedInv'
  OBVIOUS
<1>1. CASE UNCHANGED <<time, budget, lapsed>>
  BY <1>1 DEF ChargedInv, budget
<1>2. ASSUME NEW r \in Requests, NEW u \in Users, NEW l \in Limiters,
             NEW j \in Jobs \cup {NoJob}, Arrive(r, u, l, j)
      PROVE  ChargedInv'
  BY <1>1, <1>2 DEF Arrive
<1>3. ASSUME NEW r \in Requests, ReadClock(r) PROVE ChargedInv'
  BY <1>1, <1>3 DEF ReadClock
<1>4. ASSUME NEW r \in Requests, ReserveJob(r) PROVE ChargedInv'
  BY <1>4, ChargedReserve
<1>5. ASSUME NEW r \in Requests, ReserveQuestion(r) PROVE ChargedInv'
  BY <1>5, ChargedQuestion
<1>6. ASSUME NEW u \in Users, NEW j \in Jobs, NEW seconds \in Durations \cup {Unknown},
             FinishJob(u, j, seconds)
      PROVE  ChargedInv'
  BY <1>6, ChargedFinish
<1>7. CASE Tick
  BY <1>7, ChargedTick
<1>8. CASE Restart
  BY <1>1, <1>8 DEF Restart
<1>9. CASE UNCHANGED vars
  BY <1>1, <1>9 DEF vars, budget
<1> QED
  BY <1>2, <1>3, <1>4, <1>5, <1>6, <1>7, <1>8, <1>9 DEF Next

LEMMA ChargedInit == Init => ChargedInv
<1> SUFFICES ASSUME Init, NEW u \in Users
             PROVE  Exact(doc[u], open[u], used[u], asked[u], time)
  BY DEF ChargedInv
<1> DEFINE empty == [day |-> 0, seconds |-> 0, questions |-> 0, active |-> {}]
           zero == [d \in Days |-> 0]
<1>1. doc[u] = empty /\ open[u] = {} /\ used[u] = zero /\ asked[u] = zero
  BY DEF Init
<1>2. /\ empty.day = 0 /\ empty.seconds = 0 /\ empty.questions = 0 /\ empty.active = {}
      /\ \A d \in Days : zero[d] = 0
  OBVIOUS
<1> HIDE DEF empty, zero
<1>3. TodayOf(empty) = {} /\ Cardinality(TodayOf(empty)) = 0
  BY <1>2, FS_EmptySet DEF TodayOf
<1>4. MediaSeconds * 0 <= 0
  BY AdmissionAssumption
<1> QED
  BY <1>1, <1>2, <1>3, <1>4 DEF Exact, CountedNow

----------------------------------------------------------------------------
(* The theorem about charges *)

\* The inductive invariant behind the charges, of every instance.
THEOREM ChargedInvariant == Spec => []ChargedInv
<1>1. Init => ChargedInv
  BY ChargedInit
<1>2. ChargedInv /\ BudgetInv /\ [Next]_vars => ChargedInv'
  BY ChargedStep
<1> QED
  BY <1>1, <1>2, BudgetInvariant, PTL DEF Spec

\* A document is of a day that has come, or new.
DayInv == \A u \in Users : doc[u].day \in Days \cup {0}

LEMMA DayHasCome == \A t \in Times : DayOf(t) \in Days
<1> SUFFICES ASSUME NEW t \in Times PROVE DayOf(t) \in Days
  OBVIOUS
<1>1. t \in Nat /\ MaxTime \in Nat /\ t <= MaxTime /\ DayLength \in Nat /\ DayLength > 0
  BY AdmissionAssumption DEF Times
<1>2. t \div DayLength <= MaxTime \div DayLength
      /\ t \div DayLength \in Nat /\ MaxTime \div DayLength \in Nat
  BY <1>1
<1> QED
  BY <1>2 DEF DayOf, Days

LEMMA DayStep == DayInv /\ BudgetInv /\ [Next]_vars => DayInv'
<1> SUFFICES ASSUME DayInv, BudgetInv, [Next]_vars PROVE DayInv'
  OBVIOUS
<1>1. CASE \A u \in Users : doc'[u].day = doc[u].day
  BY <1>1 DEF DayInv
<1>2. ASSUME NEW r \in Requests, ReserveJob(r) \/ ReserveQuestion(r)
      PROVE  DayInv'
  <2>1. PICK now \in Times : now = request[r].now
    BY <1>2, Sender DEF ReserveJob, ReserveQuestion
  <2>2. ASSUME NEW u \in Users PROVE doc'[u] = doc[u] \/ doc'[u].day = DayOf(now)
    <3>1. doc \in [Users -> Budget]
      BY DEF BudgetInv, BudgetTypes
    <3>2. CASE ReserveJob(r)
      <4>1. PICK v \in Users, j \in Jobs \cup {NoJob} : v = request[r].user /\ j = request[r].job
        BY <3>2, Sender DEF ReserveJob
      <4>2. doc' = doc \/ doc' = [doc EXCEPT ![v] = Reserved(@, now, j)]
        BY <2>1, <3>2, <4>1 DEF ReserveJob
      <4>3. Reserved(doc[v], now, j).day = DayOf(now)
        BY DEF Reserved
      <4> QED
        BY <3>1, <4>2, <4>3
    <3>3. CASE ReserveQuestion(r)
      <4>1. PICK v \in Users : v = request[r].user
        BY <3>3, Sender DEF ReserveQuestion
      <4> DEFINE day == DayOf(now)
                 s == SecondsAt(doc[v], now)
                 q == QuestionsAt(doc[v], now) + 1
                 new == [doc[v] EXCEPT !.day = day, !.seconds = s, !.questions = q]
      <4>2. doc' = doc \/ doc' = [doc EXCEPT ![v] = new]
        BY <2>1, <3>1, <3>3, <4>1 DEF ReserveQuestion
      <4> HIDE DEF day, s, q
      <4>3. new.day = day
        BY <3>1, <4>1 DEF Budget
      <4> HIDE DEF new
      <4> QED
        BY <3>1, <4>2, <4>3 DEF day
    <3> QED
      BY <1>2, <3>2, <3>3
  <2> QED
    BY <2>1, <2>2, DayHasCome DEF DayInv
<1>3. ASSUME NEW u \in Users, NEW j \in Jobs, NEW seconds \in Durations \cup {Unknown},
             FinishJob(u, j, seconds)
      PROVE  DayInv'
  <2>1. \A w \in Users : doc'[w] = doc[w] \/ doc'[w] = Finished(doc[w], j, seconds)
    BY <1>3 DEF FinishJob, BudgetInv, BudgetTypes
  <2>2. \A w \in Users : Finished(doc[w], j, seconds).day = doc[w].day
    BY DEF Finished, BudgetInv, BudgetTypes, Budget
  <2> QED
    BY <1>1, <2>1, <2>2
<1>4. ASSUME NEW r \in Requests, NEW u \in Users, NEW l \in Limiters,
             NEW j \in Jobs \cup {NoJob}, Arrive(r, u, l, j)
      PROVE  DayInv'
  <2>1. doc' = doc
    BY <1>4 DEF Arrive, budget
  <2> QED
    BY <1>1, <2>1
<1>5. ASSUME NEW r \in Requests, ReadClock(r) PROVE DayInv'
  <2>1. doc' = doc
    BY <1>5 DEF ReadClock, budget
  <2> QED
    BY <1>1, <2>1
<1>6. CASE Tick \/ Restart \/ UNCHANGED vars
  <2>1. doc' = doc
    BY <1>6 DEF Tick, Restart, vars, budget
  <2> QED
    BY <1>1, <2>1
<1> QED
  BY <1>2, <1>3, <1>4, <1>5, <1>6 DEF Next

LEMMA DayInvariant == Spec => []DayInv
<1>1. Init => DayInv
  BY DEF Init, DayInv
<1>2. DayInv /\ BudgetInv /\ [Next]_vars => DayInv'
  BY DayStep
<1> QED
  BY <1>1, <1>2, BudgetInvariant, PTL DEF Spec

\* As long as no reservation outlives its lease and no midnight is overtaken,
\* the document charges exactly what its day admitted: a replay nothing, a
\* refund once, to its own day and never more than was charged.
THEOREM ChargesExact == Spec => []ChargedExactly
<1>1. ChargedInv /\ DayInv => ChargedExactly
  <2> SUFFICES ASSUME ChargedInv, DayInv, NEW u \in Users, ~lapsed, setbacks[u] = 0,
                      doc[u].day # 0
               PROVE  /\ doc[u].seconds = used[u][doc[u].day]
                      /\ doc[u].questions = asked[u][doc[u].day]
    BY DEF ChargedExactly
  <2>1. Exact(doc[u], open[u], used[u], asked[u], time)
    BY DEF ChargedInv
  <2>2. doc[u].day \in Days
    BY DEF DayInv
  <2> QED
    BY <2>1, <2>2 DEF Exact, CountedNow
<1> QED
  BY <1>1, ChargedInvariant, DayInvariant, PTL

----------------------------------------------------------------------------
(* The places of active jobs: Admission implements UserBudget *)

\* Every reservation was asked for by a request for a job.
NamedInv ==
    /\ \A r \in Requests :
         request[r].at # "idle" /\ request[r].for = "job" => request[r].job \in Jobs
    /\ \A u \in Users : \A v \in open[u] : v.job \in Jobs

LEMMA NamedInit == Init => NamedInv
  BY DEF Init, NamedInv, Idle

LEMMA NamedStep == NamedInv /\ BudgetInv /\ [Next]_vars => NamedInv'
<1> SUFFICES ASSUME NamedInv, BudgetInv, [Next]_vars PROVE NamedInv'
  OBVIOUS
<1>1. request \in [Requests -> Request] /\ open \in [Users -> SUBSET Booking]
  BY DEF BudgetInv, BudgetTypes
<1>2. Idle.at = "idle"
  BY DEF Idle
<1>3. ASSUME UNCHANGED <<request, open>> PROVE NamedInv'
  BY <1>3 DEF NamedInv
<1>4. ASSUME NEW r \in Requests, request' = [request EXCEPT ![r] = Idle],
             \A u \in Users : \A v \in open'[u] : v.job \in Jobs
      PROVE  NamedInv'
  BY <1>1, <1>2, <1>4 DEF NamedInv
<1>5. ASSUME NEW r \in Requests, NEW u \in Users, NEW l \in Limiters,
             NEW j \in Jobs \cup {NoJob}, Arrive(r, u, l, j)
      PROVE  NamedInv'
  <2> DEFINE new == [at |-> "clock", for |-> l, user |-> u, job |-> j, now |-> 0]
  <2>1. open' = open /\ ((l = "job") = (j # NoJob))
        /\ (request' = request \/ request' = [request EXCEPT ![r] = new])
    BY <1>5 DEF Arrive, budget
  <2>2. new.for = "job" => new.job \in Jobs
    BY <2>1
  <2> HIDE DEF new
  <2> QED
    BY <1>1, <2>1, <2>2 DEF NamedInv
<1>6. ASSUME NEW r \in Requests, ReadClock(r) PROVE NamedInv'
  <2>1. /\ open' = open /\ request[r].at = "clock"
        /\ request' = [request EXCEPT ![r].at = "update", ![r].now = time]
    BY <1>6 DEF ReadClock, budget
  <2>2. \A q \in Requests :
          /\ request'[q].for = request[q].for /\ request'[q].job = request[q].job
          /\ request'[q].at # "idle" => request[q].at # "idle"
    <3>1. \A q \in Requests : request[q] \in Request
      BY <1>1
    <3> QED
      BY <1>1, <2>1, <3>1 DEF Request
  <2> QED
    BY <2>1, <2>2 DEF NamedInv
<1>7. ASSUME NEW r \in Requests, ReserveJob(r) PROVE NamedInv'
  <2> DEFINE u == request[r].user
             booked == [job |-> request[r].job, day |-> DayOf(request[r].now),
                        expires |-> request[r].now + Lease]
  <2>1. booked.job \in Jobs /\ u \in Users
    <3>1. request[r].at = "update" /\ request[r].for = "job"
      BY <1>7 DEF ReserveJob
    <3> QED
      BY <3>1, Sender DEF NamedInv
  <2>2. \/ open' = open
        \/ open' = [open EXCEPT ![u] = {v \in @ : v.job # request[r].job} \cup {booked}]
    BY <1>7 DEF ReserveJob
  <2> HIDE DEF u, booked
  <2>3. \A w \in Users : \A v \in open'[w] : v.job \in Jobs
    BY <1>1, <2>1, <2>2 DEF NamedInv
  <2>4. request' = [request EXCEPT ![r] = Idle]
    BY <1>7 DEF ReserveJob
  <2> QED
    BY <1>4, <2>3, <2>4
<1>8. ASSUME NEW r \in Requests, ReserveQuestion(r) PROVE NamedInv'
  <2>1. request' = [request EXCEPT ![r] = Idle] /\ open' = open
    BY <1>8 DEF ReserveQuestion
  <2> QED
    BY <1>4, <2>1 DEF NamedInv
<1>9. ASSUME NEW u \in Users, NEW j \in Jobs, NEW seconds \in Durations \cup {Unknown},
             FinishJob(u, j, seconds)
      PROVE  NamedInv'
  <2>1. request' = request /\ open' = [open EXCEPT ![u] = @ \ {v \in open[u] : v.job = j}]
    BY <1>9 DEF FinishJob
  <2>2. \A w \in Users : open'[w] \subseteq open[w]
    BY <1>1, <2>1
  <2> QED
    BY <2>1, <2>2 DEF NamedInv
<1>10. CASE Tick
  BY <1>3, <1>10 DEF Tick, budget
<1>11. CASE Restart
  <2>1. request' = [r \in Requests |-> Idle] /\ open' = open
    BY <1>11 DEF Restart, budget
  <2> QED
    BY <1>2, <2>1 DEF NamedInv
<1>12. CASE UNCHANGED vars
  BY <1>3, <1>12 DEF vars, budget
<1> QED
  BY <1>5, <1>6, <1>7, <1>8, <1>9, <1>10, <1>11, <1>12 DEF Next

LEMMA NamedInvariant == Spec => []NamedInv
  BY NamedInit, NamedStep, BudgetInvariant, PTL DEF Spec

\* What a step is to the contract.
PlacesStep == [Contract!Next]_([u \in Users |-> LiveJobs(u)])

LEMMA LiveOf ==
    ASSUME NEW u, NEW j
    PROVE  j \in LiveJobs(u) <=> \E v \in open[u] : v.expires > time /\ v.job = j
  BY DEF LiveJobs

LEMMA LosePlaces ==
    ASSUME NamedInv', \A u \in Users : LiveJobs(u)' \subseteq LiveJobs(u)
    PROVE  PlacesStep
<1>1. \A u \in Users : LiveJobs(u)' \subseteq Jobs
  BY DEF NamedInv, LiveJobs
<1>2. Contract!Lose
  BY <1>1 DEF Contract!Lose
<1> QED
  BY <1>2 DEF PlacesStep, Contract!Next

\* What is open and how long it lasts stays or gets less.
LEMMA FewerPlaces ==
    ASSUME NamedInv', BudgetInv, time' \in Times, time <= time',
           \A u \in Users : open'[u] \subseteq open[u]
    PROVE  PlacesStep
<1>1. ASSUME NEW u \in Users, NEW j \in LiveJobs(u)' PROVE j \in LiveJobs(u)
  <2>1. PICK v \in open'[u] : v.expires > time' /\ v.job = j
    BY <1>1 DEF LiveJobs
  <2>2. v \in open[u] /\ v.expires \in Int /\ time \in Int /\ time' \in Int
    BY DEF BudgetInv, BudgetTypes, Booking, Times
  <2>3. v.expires > time
    BY <2>1, <2>2
  <2> QED
    BY <2>1, <2>2, <2>3, LiveOf
<1> QED
  BY <1>1, LosePlaces

\* There are no more live jobs than entries that a request with an older clock counts.
LEMMA LiveJobsCounted ==
    ASSUME BudgetInv, NEW u \in Users, NEW now \in Times, now <= time
    PROVE  /\ IsFiniteSet(LiveJobs(u))
           /\ Cardinality(LiveJobs(u)) <= Cardinality(ActiveAt(doc[u], now))
<1> DEFINE live == {v \in open[u] : v.expires > time}
           active == ActiveAt(doc[u], now)
           jobOf == [v \in live |-> v.job]
<1>1. IsFiniteSet(active) /\ live \subseteq active /\ Cardinality(active) \in Nat
  BY ActiveKept
<1>2. IsFiniteSet(live) /\ Cardinality(live) <= Cardinality(active)
  BY <1>1, FS_Subset
<1>3. LiveJobs(u) = {v.job : v \in live}
  BY DEF LiveJobs
<1>4. jobOf \in Surjection(live, LiveJobs(u))
  <2> HIDE DEF live
  <2> QED
    BY <1>3 DEF Surjection
<1>5. IsFiniteSet(LiveJobs(u)) /\ Cardinality(LiveJobs(u)) <= Cardinality(live)
  BY <1>2, <1>4, FS_Surjection
<1>6. Cardinality(live) \in Nat /\ Cardinality(LiveJobs(u)) \in Nat
  BY <1>2, <1>5, FS_CardinalityType
<1> HIDE DEF live, active
<1> QED
  BY <1>1, <1>2, <1>5, <1>6 DEF active

\* A job that is charged had no live reservation, so none is replaced.
LEMMA ReservePlace ==
    ASSUME BudgetInv, NamedInv, NamedInv', NEW r \in Requests, ReserveJob(r),
           NEW u \in Users, NEW now \in Times, NEW j \in Jobs,
           u = request[r].user, now = request[r].now, j = request[r].job,
           ~Holds(doc[u], now, j), MayReserve(doc[u], now, j)
    PROVE  PlacesStep
<1> DEFINE booked == [job |-> j, day |-> DayOf(now), expires |-> now + Lease]
<1>1. /\ open' = [open EXCEPT ![u] = {v \in open[u] : v.job # j} \cup {booked}]
      /\ UNCHANGED time /\ now <= time /\ open \in [Users -> SUBSET Booking]
  BY Sender DEF ReserveJob, BudgetInv, BudgetTypes
<1>2. \A v \in open[u] : v.expires > time => v.job # j
  BY <1>1, ActiveKept DEF Holds
<1>3. \A w \in Users \ {u} : LiveJobs(w)' = LiveJobs(w)
  BY <1>1 DEF LiveJobs
<1>4. open'[u] = {v \in open[u] : v.job # j} \cup {booked}
  BY <1>1
<1>5. booked.job = j
  OBVIOUS
<1> HIDE DEF booked
<1>6. LiveJobs(u)' = IF booked.expires > time THEN LiveJobs(u) \cup {j} ELSE LiveJobs(u)
  <2>1. ASSUME NEW i
        PROVE  i \in LiveJobs(u)' <=> i \in LiveJobs(u) \/ (i = j /\ booked.expires > time)
    <3>1. i \in LiveJobs(u)' <=> \E v \in open'[u] : v.expires > time /\ v.job = i
      BY <1>1 DEF LiveJobs
    <3>2. (\E v \in open'[u] : v.expires > time /\ v.job = i) <=>
            \/ \E v \in open[u] : v.expires > time /\ v.job = i
            \/ booked.expires > time /\ i = j
      BY <1>2, <1>4, <1>5
    <3> QED
      BY <3>1, <3>2, LiveOf
  <2> QED
    BY <2>1
<1>7. CASE booked.expires > time
  <2>1. Cardinality(LiveJobs(u)) < ActiveLimit
    <3>1. /\ Cardinality(ActiveAt(doc[u], now)) < ActiveLimit
          /\ Cardinality(ActiveAt(doc[u], now)) \in Nat /\ ActiveLimit \in Nat
      BY <1>1, ActiveKept, AdmissionAssumption DEF MayReserve
    <3>2. /\ IsFiniteSet(LiveJobs(u))
          /\ Cardinality(LiveJobs(u)) <= Cardinality(ActiveAt(doc[u], now))
      BY <1>1, LiveJobsCounted
    <3>3. Cardinality(LiveJobs(u)) \in Nat
      BY <3>2, FS_CardinalityType
    <3> QED
      BY <3>1, <3>2, <3>3
  <2>2. [w \in Users |-> LiveJobs(w)]' =
          [[w \in Users |-> LiveJobs(w)] EXCEPT ![u] = LiveJobs(u) \cup {j}]
    BY <1>3, <1>6, <1>7
  <2>3. Contract!Reserve(u, j)
    BY <2>1, <2>2 DEF Contract!Reserve, Contract!Cardinality, Cardinality
  <2> QED
    BY <2>3 DEF PlacesStep, Contract!Next
<1>8. CASE ~(booked.expires > time)
  <2>1. \A w \in Users : LiveJobs(w)' = LiveJobs(w)
    BY <1>3, <1>6, <1>8
  <2> QED
    BY <2>1, LosePlaces
<1> QED
  BY <1>7, <1>8

LEMMA PlacesKept ==
    ASSUME BudgetInv, NamedInv, NamedInv', [Next]_vars
    PROVE  PlacesStep
<1>1. time \in Times /\ time <= time
  BY DEF BudgetInv, BudgetTypes, Times
<1>2. ASSUME UNCHANGED <<time, open>> PROVE PlacesStep
  BY <1>1, <1>2, FewerPlaces
<1>3. ASSUME NEW r \in Requests, NEW u \in Users, NEW l \in Limiters,
             NEW j \in Jobs \cup {NoJob}, Arrive(r, u, l, j)
      PROVE  PlacesStep
  BY <1>2, <1>3 DEF Arrive, budget
<1>4. ASSUME NEW r \in Requests, ReadClock(r) \/ ReserveQuestion(r) PROVE PlacesStep
  BY <1>2, <1>4 DEF ReadClock, ReserveQuestion, budget
<1>5. ASSUME NEW r \in Requests, ReserveJob(r) PROVE PlacesStep
  <2>1. PICK u \in Users, now \in Times, j \in Jobs :
          u = request[r].user /\ now = request[r].now /\ j = request[r].job
    <3>1. request[r].at = "update" /\ request[r].for = "job"
      BY <1>5 DEF ReserveJob
    <3> QED
      BY <3>1, Sender DEF NamedInv
  <2>2. CASE ~Holds(doc[u], now, j) /\ MayReserve(doc[u], now, j)
    BY <1>5, <2>1, <2>2, ReservePlace
  <2>3. CASE ~(~Holds(doc[u], now, j) /\ MayReserve(doc[u], now, j))
    <3>1. UNCHANGED <<time, open>>
      BY <1>5, <2>1, <2>3 DEF ReserveJob
    <3> QED
      BY <1>2, <3>1
  <2> QED
    BY <2>2, <2>3
<1>6. ASSUME NEW u \in Users, NEW j \in Jobs, NEW seconds \in Durations \cup {Unknown},
             FinishJob(u, j, seconds)
      PROVE  PlacesStep
  <2>1. UNCHANGED time /\ open' = [open EXCEPT ![u] = @ \ {v \in open[u] : v.job = j}]
    BY <1>6 DEF FinishJob
  <2>2. \A w \in Users : open'[w] \subseteq open[w]
    BY <2>1 DEF BudgetInv, BudgetTypes
  <2> QED
    BY <1>1, <2>1, <2>2, FewerPlaces
<1>7. CASE Tick
  <2>1. open' = open /\ time' \in Times /\ time <= time'
    BY <1>1, <1>7, AdmissionAssumption DEF Tick, budget, Times
  <2> QED
    BY <2>1, FewerPlaces
<1>8. CASE Restart
  BY <1>2, <1>8 DEF Restart, budget
<1>9. CASE UNCHANGED vars
  BY <1>2, <1>9 DEF vars, budget
<1> QED
  BY <1>3, <1>4, <1>5, <1>6, <1>7, <1>8, <1>9 DEF Next

\* Whatever clock a conditional update of the usage document was sent with, and
\* whatever it prunes and replaces, a job gets a live reservation only while fewer
\* than the limit are held: usageService.js does what UserBudget promises.
THEOREM BudgetImplemented == Spec => ImplementsBudget
<1>1. Init => Contract!Init
  <2> SUFFICES ASSUME Init PROVE Contract!Init
    OBVIOUS
  <2>1. \A u \in Users : LiveJobs(u) = {}
    BY DEF Init, LiveJobs
  <2> QED
    BY <2>1 DEF Contract!Init
<1> QED
  BY <1>1, PlacesKept, BudgetInvariant, NamedInvariant, PTL
  DEF Spec, ImplementsBudget, Contract!Spec, PlacesStep

----------------------------------------------------------------------------
(* What may be given back, and the types *)

\* The reservations open of one day.
OnDay(reserved, d) == {v \in reserved : v.day = d}

\* A job has one reservation at most, and every day was charged for what is open.
Covers(total, reserved) ==
    /\ IsFiniteSet(reserved)
    /\ \A v, w \in reserved : v.job = w.job => v = w
    /\ \A d \in Days : MediaSeconds * Cardinality(OnDay(reserved, d)) <= total[d]

LEMMA MoreTimes == \A n, m, k \in Nat : m <= k => n * m <= n * k
<1> SUFFICES ASSUME NEW n \in Nat, NEW m \in Nat, NEW k \in Nat, m <= k PROVE n * m <= n * k
  OBVIOUS
<1>1. PICK i \in Nat : k = m + i
  <2>1. k - m \in Nat /\ k = m + (k - m)
    OBVIOUS
  <2> QED
    BY <2>1
<1>2. n * k = n * m + n * i /\ n * i \in Nat /\ n * m \in Nat
  BY <1>1
<1> QED
  BY <1>2

LEMMA OnDayFinite ==
    ASSUME NEW reserved, IsFiniteSet(reserved), NEW d
    PROVE  IsFiniteSet(OnDay(reserved, d)) /\ Cardinality(OnDay(reserved, d)) \in Nat
<1>1. OnDay(reserved, d) \subseteq reserved
  BY DEF OnDay
<1> QED
  BY <1>1, FS_Subset, FS_CardinalityType

LEMMA CoversFewer ==
    ASSUME NEW total \in [Days -> Int], NEW reserved, Covers(total, reserved),
           NEW rest \in SUBSET reserved
    PROVE  Covers(total, rest)
<1>1. IsFiniteSet(reserved) /\ IsFiniteSet(rest)
  BY FS_Subset DEF Covers
<1>2. ASSUME NEW d \in Days PROVE MediaSeconds * Cardinality(OnDay(rest, d)) <= total[d]
  <2> DEFINE m == Cardinality(OnDay(rest, d))
             k == Cardinality(OnDay(reserved, d))
  <2>1. OnDay(rest, d) \subseteq OnDay(reserved, d)
    BY DEF OnDay
  <2>2. m \in Nat /\ k \in Nat /\ m <= k
    BY <1>1, <2>1, OnDayFinite, FS_Subset
  <2>3. MediaSeconds * k <= total[d] /\ total[d] \in Int /\ MediaSeconds \in Nat
    BY AdmissionAssumption DEF Covers
  <2> HIDE DEF m, k
  <2>4. MediaSeconds * m <= MediaSeconds * k
    BY <2>2, <2>3, MoreTimes
  <2>5. MediaSeconds * m \in Int /\ MediaSeconds * k \in Int
    BY <2>2, <2>3
  <2>6. MediaSeconds * m <= total[d]
    BY <2>3, <2>4, <2>5
  <2> QED
    BY <2>6 DEF m
<1>3. \A v, w \in rest : v.job = w.job => v = w
  BY DEF Covers
<1> QED
  BY <1>1, <1>2, <1>3 DEF Covers

LEMMA CoversOneMore ==
    ASSUME NEW total \in [Days -> Int], NEW reserved, Covers(total, reserved),
           NEW new, \A v \in reserved : v.job # new.job, NEW day \in Days, new.day = day,
           NEW after, after = [total EXCEPT ![day] = @ + MediaSeconds]
    PROVE  Covers(after, reserved \cup {new})
<1> DEFINE more == reserved \cup {new}
<1>1. IsFiniteSet(reserved) /\ IsFiniteSet(more) /\ new \notin reserved
  BY FS_AddElement DEF Covers
<1>2. \A v, w \in more : v.job = w.job => v = w
  BY DEF Covers
<1>3. ASSUME NEW d \in Days PROVE MediaSeconds * Cardinality(OnDay(more, d)) <= after[d]
  <2> DEFINE n == Cardinality(OnDay(reserved, d))
  <2>1. /\ n \in Nat /\ MediaSeconds * n <= total[d] /\ total[d] \in Int
        /\ MediaSeconds \in Nat /\ IsFiniteSet(OnDay(reserved, d))
    BY <1>1, OnDayFinite, AdmissionAssumption DEF Covers
  <2>2. CASE d = day
    <3>1. OnDay(more, d) = OnDay(reserved, d) \cup {new} /\ new \notin OnDay(reserved, d)
      BY <1>1, <2>2 DEF OnDay
    <3>2. Cardinality(OnDay(more, d)) = n + 1
      BY <2>1, <3>1, FS_AddElement
    <3>3. after[d] = total[d] + MediaSeconds
      BY <2>2
    <3> HIDE DEF n, more
    <3>4. MediaSeconds * (1 + n) = MediaSeconds * n + MediaSeconds /\ MediaSeconds * n \in Nat
      BY <2>1, OneMore
    <3>5. n + 1 = 1 + n
      BY <2>1
    <3> QED
      BY <2>1, <3>2, <3>3, <3>4, <3>5
  <2>3. CASE d # day
    <3>1. OnDay(more, d) = OnDay(reserved, d) /\ after[d] = total[d]
      BY <2>3 DEF OnDay
    <3> QED
      BY <2>1, <3>1
  <2> QED
    BY <2>2, <2>3
<1> QED
  BY <1>1, <1>2, <1>3 DEF Covers

\* Of each day no more is given back than the one reservation of the job that is
\* removed.
OfJob(reserved, j) == {v \in reserved : v.job = j}
GivenBack(total, mine, back) ==
    [d \in Days |-> total[d] - (IF \E v \in mine : v.day = d THEN back ELSE 0)]

LEMMA CoversReturned ==
    ASSUME NEW total \in [Days -> Int], NEW reserved, Covers(total, reserved),
           NEW j, NEW back \in Nat, back <= MediaSeconds
    PROVE  Covers(GivenBack(total, OfJob(reserved, j), back), reserved \ OfJob(reserved, j))
<1> DEFINE mine == {v \in reserved : v.job = j}
           after == [d \in Days |-> total[d] - (IF \E v \in mine : v.day = d THEN back ELSE 0)]
           rest == reserved \ mine
<1>1. IsFiniteSet(reserved) /\ IsFiniteSet(rest)
  BY FS_Subset DEF Covers
<1>2. Covers(total, rest)
  BY CoversFewer
<1>3. ASSUME NEW d \in Days PROVE MediaSeconds * Cardinality(OnDay(rest, d)) <= after[d]
  <2>1. CASE \E v \in mine : v.day = d
    <3>1. PICK v \in mine : v.day = d
      BY <2>1
    <3>2. OnDay(rest, d) = OnDay(reserved, d) \ {v} /\ v \in OnDay(reserved, d)
      BY <3>1 DEF OnDay, Covers
    <3> DEFINE n == Cardinality(OnDay(rest, d))
    <3>3. /\ IsFiniteSet(OnDay(reserved, d)) /\ Cardinality(OnDay(reserved, d)) \in Nat
          /\ n \in Nat
      BY <1>1, OnDayFinite
    <3>4. n = Cardinality(OnDay(reserved, d)) - 1
      BY <3>2, <3>3, FS_RemoveElement, ZenonT(60)
    <3>5. Cardinality(OnDay(reserved, d)) = 1 + n
      BY <3>3, <3>4
    <3>6. MediaSeconds * (1 + n) <= total[d] /\ total[d] \in Int /\ MediaSeconds \in Nat
      BY <3>5, AdmissionAssumption DEF Covers
    <3>7. after[d] = total[d] - back
      BY <2>1
    <3> HIDE DEF n, rest
    <3>8. MediaSeconds * (1 + n) = MediaSeconds * n + MediaSeconds /\ MediaSeconds * n \in Nat
      BY <3>3, <3>6, OneMore
    <3>9. MediaSeconds * n <= after[d]
      BY <3>6, <3>7, <3>8
    <3> QED
      BY <3>9 DEF n, rest
  <2>2. CASE ~\E v \in mine : v.day = d
    <3>1. after[d] = total[d]
      BY <2>2
    <3> QED
      BY <1>2, <3>1 DEF Covers
  <2> QED
    BY <2>1, <2>2
<1>4. Covers(after, rest)
  BY <1>1, <1>2, <1>3 DEF Covers
<1> QED
  BY <1>4 DEF GivenBack, OfJob

\* What is open is of a day that has come and ends a lease after it at the latest.
CoveredInv ==
    /\ \A u \in Users :
         /\ open[u] \subseteq Reservation
         /\ Covers(used[u], open[u])
         /\ \A d \in Days : asked[u][d] >= 0
    /\ lapsed \in BOOLEAN

LEMMA NewReservation ==
    ASSUME NEW j \in Jobs, NEW now \in Times
    PROVE  [job |-> j, day |-> DayOf(now), expires |-> now + Lease] \in Reservation
<1>1. now + Lease \in 0 .. MaxTime + Lease
  BY AdmissionAssumption DEF Times
<1> QED
  BY <1>1, DayHasCome DEF Reservation

LEMMA CoveredReserve ==
    ASSUME BudgetInv, NamedInv, CoveredInv, NEW r \in Requests, ReserveJob(r)
    PROVE  CoveredInv'
<1>1. PICK u \in Users, now \in Times, j \in Jobs :
        u = request[r].user /\ now = request[r].now /\ j = request[r].job
  <2>1. request[r].at = "update" /\ request[r].for = "job"
    BY DEF ReserveJob
  <2> QED
    BY <2>1, Sender DEF NamedInv
<1> DEFINE new == [job |-> j, day |-> DayOf(now), expires |-> now + Lease]
           kept == {v \in open[u] : v.job # j}
           booked == kept \cup {new}
           charged == [used[u] EXCEPT ![DayOf(now)] = @ + MediaSeconds]
<1>2. /\ used \in [Users -> [Days -> Int]] /\ open \in [Users -> SUBSET Booking]
      /\ DayOf(now) \in Days /\ new \in Reservation /\ new.job = j /\ new.day = DayOf(now)
  BY NewReservation, DayHasCome DEF BudgetInv, BudgetTypes
<1>3. asked' = asked /\ lapsed' \in BOOLEAN
  BY DEF ReserveJob, CoveredInv
<1>4. \/ UNCHANGED <<used, open>>
      \/ /\ used' = [used EXCEPT ![u] = charged] /\ open' = [open EXCEPT ![u] = booked]
  <2>1. \/ UNCHANGED <<used, open>>
        \/ /\ used' = [used EXCEPT ![u][DayOf(now)] = @ + MediaSeconds]
           /\ open' = [open EXCEPT ![u] = booked]
    BY <1>1 DEF ReserveJob
  <2> QED
    BY <1>2, <2>1
<1>5. Covers(charged, booked) /\ booked \subseteq Reservation
  <2>1. Covers(used[u], kept) /\ kept \subseteq Reservation /\ used[u] \in [Days -> Int]
    BY <1>2, CoversFewer DEF CoveredInv
  <2>2. \A v \in kept : v.job # new.job
    BY <1>2
  <2> HIDE DEF kept, new
  <2> QED
    BY <1>2, <2>1, <2>2, CoversOneMore
<1> HIDE DEF new, kept, booked, charged
<1> QED
  BY <1>2, <1>3, <1>4, <1>5 DEF CoveredInv

LEMMA CoveredStep == BudgetInv /\ NamedInv /\ CoveredInv /\ [Next]_vars => CoveredInv'
<1> SUFFICES ASSUME BudgetInv, NamedInv, CoveredInv, [Next]_vars PROVE CoveredInv'
  OBVIOUS
<1>1. ASSUME UNCHANGED <<used, asked, open>>, lapsed' \in BOOLEAN PROVE CoveredInv'
  BY <1>1 DEF CoveredInv
<1>2. lapsed \in BOOLEAN
  BY DEF CoveredInv
<1>3. ASSUME NEW r \in Requests, NEW u \in Users, NEW l \in Limiters,
             NEW j \in Jobs \cup {NoJob}, Arrive(r, u, l, j)
      PROVE  CoveredInv'
  BY <1>1, <1>2, <1>3 DEF Arrive, budget
<1>4. ASSUME NEW r \in Requests, ReadClock(r) PROVE CoveredInv'
  BY <1>1, <1>2, <1>4 DEF ReadClock, budget
<1>5. ASSUME NEW r \in Requests, ReserveJob(r) PROVE CoveredInv'
  BY <1>5, CoveredReserve
<1>6. ASSUME NEW r \in Requests, ReserveQuestion(r) PROVE CoveredInv'
  <2>1. PICK u \in Users, d \in Days :
          asked' = asked \/ asked' = [asked EXCEPT ![u][d] = @ + 1]
    <3>1. request[r].at = "update"
      BY <1>6 DEF ReserveQuestion
    <3>2. request[r].user \in Users /\ DayOf(request[r].now) \in Days
      BY <3>1, Sender, DayHasCome
    <3> QED
      BY <1>6, <3>2 DEF ReserveQuestion
  <2>2. UNCHANGED <<used, open, lapsed>> /\ asked \in [Users -> [Days -> Int]]
    BY <1>6 DEF ReserveQuestion, BudgetInv, BudgetTypes
  <2>3. \A w \in Users, e \in Days : asked'[w][e] >= 0
    <3>1. \A w \in Users, e \in Days : asked[w][e] \in Int /\ asked[w][e] >= 0
      BY <2>2 DEF CoveredInv
    <3>2. \A w \in Users, e \in Days :
            asked'[w][e] = asked[w][e] \/ asked'[w][e] = asked[w][e] + 1
      BY <2>1, <2>2
    <3> QED
      BY <3>1, <3>2
  <2> QED
    BY <2>2, <2>3 DEF CoveredInv
<1>7. ASSUME NEW u \in Users, NEW j \in Jobs, NEW seconds \in Durations \cup {Unknown},
             FinishJob(u, j, seconds)
      PROVE  CoveredInv'
  <2> DEFINE mine == OfJob(open[u], j)
             back == Refund(seconds)
             after == GivenBack(used[u], mine, back)
  <2>1. used \in [Users -> [Days -> Int]] /\ open \in [Users -> SUBSET Booking]
    BY DEF BudgetInv, BudgetTypes
  <2>2. /\ used' = [used EXCEPT ![u] = after] /\ open' = [open EXCEPT ![u] = open[u] \ mine]
        /\ UNCHANGED <<asked, lapsed>>
    BY <1>7, <2>1 DEF FinishJob, OfJob, GivenBack
  <2>3. Covers(used[u], open[u]) /\ used[u] \in [Days -> Int] /\ open[u] \subseteq Reservation
    BY <2>1 DEF CoveredInv
  <2>4. back \in Nat /\ back <= MediaSeconds
    BY RefundBounded
  <2> HIDE DEF back
  <2>5. Covers(after, open[u] \ mine)
    BY <2>3, <2>4, CoversReturned
  <2>6. open[u] \ mine \subseteq Reservation
    BY <2>3
  <2>7. after \in [Days -> Int]
    BY <2>3, <2>4 DEF GivenBack
  <2> HIDE DEF after, mine
  <2> QED
    BY <2>1, <2>2, <2>5, <2>6, <2>7 DEF CoveredInv
<1>8. CASE Tick
  BY <1>1, <1>2, <1>8 DEF Tick, budget
<1>9. CASE Restart
  BY <1>1, <1>2, <1>9 DEF Restart, budget
<1>10. CASE UNCHANGED vars
  BY <1>1, <1>2, <1>10 DEF vars, budget
<1> QED
  BY <1>3, <1>4, <1>5, <1>6, <1>7, <1>8, <1>9, <1>10 DEF Next

LEMMA CoveredInit == Init => CoveredInv
<1> SUFFICES ASSUME Init PROVE CoveredInv
  OBVIOUS
<1>1. ASSUME NEW u \in Users PROVE Covers(used[u], open[u])
  <2>1. open[u] = {} /\ \A d \in Days : used[u][d] = 0
    BY DEF Init
  <2>2. \A d \in Days : OnDay(open[u], d) = {}
    BY <2>1 DEF OnDay
  <2>3. MediaSeconds * 0 = 0
    BY AdmissionAssumption
  <2> QED
    BY <2>1, <2>2, <2>3, FS_EmptySet DEF Covers
<1>2. \A u \in Users : open[u] = {}
  BY DEF Init
<1>3. \A u \in Users, d \in Days : asked[u][d] = 0
  BY DEF Init
<1>4. lapsed \in BOOLEAN
  BY DEF Init
<1> QED
  BY <1>1, <1>2, <1>3, <1>4 DEF CoveredInv

\* However refunds, replays, overtaken midnights and reservations that outlived
\* their lease are ordered, each day was charged in full for every reservation of it
\* that is still open: finishJob never gives back what was not charged.
THEOREM ChargesCoverRefunds == Spec => []CoveredInv
  BY CoveredInit, CoveredStep, BudgetInvariant, NamedInvariant, PTL DEF Spec

\* The tables hold users' entries and the bounds of the model hold.
TableInv ==
    /\ \A l \in Limiters : DOMAIN buckets[l] \subseteq Users
    /\ calls \in 0 .. MaxCalls /\ restarts \in 0 .. MaxRestarts

LEMMA TableStep == TableInv /\ [Next]_vars => TableInv'
<1> SUFFICES ASSUME TableInv, [Next]_vars PROVE TableInv'
  OBVIOUS
<1>1. ASSUME UNCHANGED <<buckets, calls, restarts>> PROVE TableInv'
  BY <1>1 DEF TableInv
<1>2. ASSUME NEW r \in Requests, NEW u \in Users, NEW l \in Limiters,
             NEW j \in Jobs \cup {NoJob}, Arrive(r, u, l, j)
      PROVE  TableInv'
  <2> DEFINE b == Pruned(buckets[l])
             w == WindowOf(b, u, l)
             x == [w EXCEPT !.count = @ + 1]
  <2>1. DOMAIN b \subseteq Users
    BY DEF Pruned, TableInv
  <2>2. \A y : DOMAIN Stored(b, u, y) \subseteq Users
    BY <2>1 DEF Stored
  <2>3. /\ calls < MaxCalls /\ calls' = calls + 1 /\ restarts' = restarts
        /\ \E c : /\ buckets' = [buckets EXCEPT ![l] = c]
                  /\ c = b \/ c = Stored(b, u, x) \/ c = Stored(b, u, w)
    BY <1>2 DEF Arrive
  <2> HIDE DEF b, w, x
  <2>4. \A k \in Limiters : DOMAIN buckets'[k] \subseteq Users
    BY <2>1, <2>2, <2>3 DEF TableInv
  <2>5. calls' \in 0 .. MaxCalls
    BY <2>3, AdmissionAssumption DEF TableInv
  <2> QED
    BY <2>3, <2>4, <2>5 DEF TableInv
<1>3. CASE Restart
  <2>1. \A l \in Limiters : DOMAIN buckets'[l] = {}
    BY <1>3 DEF Restart
  <2>2. restarts' \in 0 .. MaxRestarts /\ calls' = calls
    BY <1>3, AdmissionAssumption DEF Restart, TableInv
  <2> QED
    BY <2>1, <2>2 DEF TableInv
<1>4. ASSUME NEW r \in Requests, ReadClock(r) \/ ReserveJob(r) \/ ReserveQuestion(r)
      PROVE  TableInv'
  BY <1>1, <1>4 DEF ReadClock, ReserveJob, ReserveQuestion, limiter
<1>5. ASSUME NEW u \in Users, NEW j \in Jobs, NEW seconds \in Durations \cup {Unknown},
             FinishJob(u, j, seconds)
      PROVE  TableInv'
  BY <1>1, <1>5 DEF FinishJob, limiter
<1>6. CASE Tick \/ UNCHANGED vars
  BY <1>1, <1>6 DEF Tick, vars, limiter
<1> QED
  BY <1>2, <1>3, <1>4, <1>5, <1>6 DEF Next

\* Every reachable state of the limiter and the budget is well typed: in particular no
\* charge of a day, recorded or in the document, is ever negative.
THEOREM AdmissionTypes == Spec => []TypeOK
<1>1. Init => TableInv
  BY AdmissionAssumption DEF Init, TableInv
<1>2. ASSUME BudgetInv, DayInv, CoveredInv, WindowInv, TableInv PROVE TypeOK
  <2>1. /\ time \in Times /\ doc \in [Users -> Budget] /\ request \in [Requests -> Request]
        /\ used \in [Users -> [Days -> Int]] /\ asked \in [Users -> [Days -> Int]]
        /\ open \in [Users -> SUBSET Booking] /\ setbacks \in [Users -> Nat]
    BY <1>2 DEF BudgetInv, BudgetTypes
  <2>2. open \in [Users -> SUBSET Reservation] /\ lapsed \in BOOLEAN
    BY <1>2, <2>1 DEF CoveredInv
  <2>3. doc \in [Users -> Document]
    <3> SUFFICES ASSUME NEW u \in Users PROVE doc[u] \in Document
      BY <2>1
    <3>1. doc[u] \in Budget /\ doc[u].day \in Days \cup {0} /\ doc[u].active \subseteq open[u]
      BY <1>2, <2>1 DEF DayInv, BudgetInv, ListedActive
    <3>2. doc[u].active \in SUBSET Reservation
      BY <2>2, <3>1
    <3> QED
      BY <3>1, <3>2 DEF Budget, Document
  <2>4. used \in [Users -> [Days -> Nat]]
    <3> SUFFICES ASSUME NEW u \in Users, NEW d \in Days PROVE used[u][d] \in Nat
      BY <2>1
    <3> DEFINE n == Cardinality(OnDay(open[u], d))
    <3>1. IsFiniteSet(open[u]) /\ MediaSeconds * n <= used[u][d] /\ used[u][d] \in Int
      BY <1>2, <2>1 DEF CoveredInv, Covers
    <3>2. n \in Nat /\ MediaSeconds \in Nat
      BY <3>1, OnDayFinite, AdmissionAssumption
    <3> HIDE DEF n
    <3>3. MediaSeconds * n \in Nat
      BY <3>2
    <3> QED
      BY <3>1, <3>3
  <2>5. asked \in [Users -> [Days -> Nat]]
    <3> SUFFICES ASSUME NEW u \in Users, NEW d \in Days PROVE asked[u][d] \in Nat
      BY <2>1
    <3>1. asked[u][d] \in Int /\ asked[u][d] >= 0
      BY <1>2, <2>1 DEF CoveredInv
    <3> QED
      BY <3>1
  <2>6. /\ \A l \in Limiters :
             /\ DOMAIN buckets[l] \subseteq Users
             /\ \A u \in DOMAIN buckets[l] : buckets[l][u] \in Bucket
        /\ calls \in 0 .. MaxCalls /\ restarts \in 0 .. MaxRestarts
    BY <1>2 DEF TableInv, WindowInv, WindowsOf, Known
  <2>7. served \in [Limiters -> [Users -> Seq(Pass)]]
    BY <1>2 DEF WindowInv, WindowsOf
  <2> QED
    BY <2>1, <2>2, <2>3, <2>4, <2>5, <2>6, <2>7 DEF TypeOK
<1> QED
  BY <1>1, <1>2, TableStep, BudgetInvariant, DayInvariant, ChargesCoverRefunds, WindowInvariant,
     PTL DEF Spec

=============================================================================
