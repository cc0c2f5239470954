------------------------- MODULE UploadIntakeProofs -------------------------
(***************************************************************************)
(* Proofs about UploadIntake, for any users, number of requests and slots: *)
(* slots are counted exactly, a file handed over to the controller while   *)
(* its client was there stays as long as the controller uses it, and every *)
(* request that has not ended can go on, a bounded number of steps, and    *)
(* ends.                                                                   *)
(*                                                                         *)
(* A property of the counters (SlotsExact) alone is not inductive: that a  *)
(* release takes away what was counted needs to know which requests may    *)
(* still have a cleanup to run, which Sound says of each request.          *)
(***************************************************************************)
EXTENDS UploadIntake, FiniteSetTheorems, TLAPS

----------------------------------------------------------------------------
(* The inductive invariant *)

\* A slot is held from the admission to the release, which every end comes after.
HoldsUntilEnd(rec) ==
    /\ rec.step = "new" => rec = NewRequest
    /\ rec.step \notin {"new", "done"} => rec.user # NoUser
    /\ rec.step = "done" => rec.released \/ rec.user = NoUser

\* A cleanup that waits belongs to a request that goes on; one that is over has
\* released the slot and left no directory.
CleansOnce(rec) ==
    /\ rec.step = "done" => rec.cleaning # "waiting" /\ rec.directory # "there"
    /\ rec.cleaning = "done" => rec.released /\ rec.directory # "there"

\* Nothing of the request is cleaned up or released.
Untouched(rec) ==
    rec.cleaning = "no" /\ rec.directory = "there" /\ ~rec.released

\* Before the hand-over only the end of the connection starts the cleanup, after
\* it only the controller does, unless the connection had ended before.
TouchedWhenClosed(rec) ==
    /\ rec.step = "mkdir" =>
         /\ rec.cleaning = "no" /\ rec.directory = "none"
         /\ rec.released => rec.closed
    /\ rec.step = "parse" /\ ~rec.closed => Untouched(rec)
    /\ rec.step = "controller" =>
         /\ rec.whole
         /\ rec.early => rec.closed
         /\ ~rec.early => Untouched(rec)

Sound(rec) == HoldsUntilEnd(rec) /\ CleansOnce(rec) /\ TouchedWhenClosed(rec)

IntakeInv ==
    /\ TypeOK
    /\ SlotsExact
    /\ \A r \in Requests : Sound(request[r])

----------------------------------------------------------------------------
(* What a change of one request does to the counters *)

LEMMA HoldingFinite == ASSUME TypeOK PROVE IsFiniteSet(Holding)
<1>1. IsFiniteSet(Requests)
  BY FS_Interval, IntakeAssumption DEF Requests
<1>2. Holding \subseteq Requests
  BY DEF Holding
<1> QED
  BY <1>1, <1>2, FS_Subset

\* A request that keeps its user and its slot changes no counter.
LEMMA SaveStep ==
    ASSUME IntakeInv, NEW r \in Requests, NEW rec \in Request, Sound(rec),
           rec.user = request[r].user, rec.released = request[r].released,
           Save(r, rec), UNCHANGED <<slots, users>>, faults' \in 0 .. MaxFaults
    PROVE  IntakeInv'
<1>1. request' = [request EXCEPT ![r] = rec] /\ request \in [Requests -> Request]
  BY DEF Save, IntakeInv, TypeOK
<1>2. TypeOK'
  BY <1>1 DEF IntakeInv, TypeOK
<1>3. \A s \in Requests : request'[s].user = request[s].user
                          /\ request'[s].released = request[s].released
  BY <1>1
<1>4. Holding' = Holding
  BY <1>3 DEF Holding
<1>5. SlotsExact'
  <2>1. Holding \subseteq Requests
    BY DEF Holding
  <2>2. {request'[s].user : s \in Holding} = {request[s].user : s \in Holding}
    BY <1>3, <2>1
  <2> QED
    BY <1>3, <1>4, <2>1, <2>2 DEF IntakeInv, SlotsExact
<1>6. \A s \in Requests : Sound(request'[s])
  BY <1>1 DEF IntakeInv
<1> QED
  BY <1>2, <1>5, <1>6 DEF IntakeInv

\* A release takes away the slot and the user of the request, once.
LEMMA ReleaseStep ==
    ASSUME IntakeInv, NEW r \in Requests, NEW rec \in Request,
           Sound([rec EXCEPT !.released = TRUE]),
           rec.user = request[r].user, request[r].user # NoUser,
           Release(r, rec), faults' \in 0 .. MaxFaults
    PROVE  IntakeInv'
<1> DEFINE new == [rec EXCEPT !.released = TRUE]
<1>1. request' = [request EXCEPT ![r] = new] /\ request \in [Requests -> Request]
  BY DEF Release, Save, IntakeInv, TypeOK
<1>2. new \in Request /\ new.user = request[r].user /\ new.released
  BY DEF Request
<1>3. CASE request[r].released
  <2>1. Save(r, new) /\ UNCHANGED <<slots, users>>
    BY <1>3 DEF Release, Frees
  <2> HIDE DEF new
  <2>2. new.released = request[r].released
    BY <1>1, <1>2, <1>3 DEF Request
  <2>3. Sound(new)
    BY DEF new
  <2> QED
    BY <1>2, <2>1, <2>2, <2>3, SaveStep
<1>4. CASE ~request[r].released
  <2>1. slots' = slots - 1 /\ users' = users \ {request[r].user}
    BY <1>4 DEF Release, Frees
  <2>2. r \in Holding
    BY <1>4 DEF Holding
  <2>3. /\ request'[r] = new
        /\ \A s \in Requests : s # r => request'[s] = request[s]
    BY <1>1
  <2>4. Holding' = Holding \ {r}
    BY <1>2, <2>3 DEF Holding
  <2>5. IsFiniteSet(Holding)
    BY HoldingFinite DEF IntakeInv
  <2>6. Cardinality(Holding') = Cardinality(Holding) - 1
    BY <2>2, <2>4, <2>5, FS_RemoveElement
  <2>7. Cardinality(Holding') \in Nat
    BY <2>4, <2>5, FS_RemoveElement, FS_CardinalityType
  <2>8. slots' = Cardinality(Holding') /\ slots' \in 0 .. MaxSlots
    <3>1. slots = Cardinality(Holding) /\ slots \in 0 .. MaxSlots
      BY DEF IntakeInv, SlotsExact, TypeOK
    <3> QED
      BY <2>1, <2>6, <2>7, <3>1, IntakeAssumption
  <2>9. Holding \subseteq Requests
    BY DEF Holding
  <2>10. /\ users = {request[s].user : s \in Holding}
         /\ \A s, t \in Holding : s # t => request[s].user # request[t].user
    BY DEF IntakeInv, SlotsExact
  <2>11. users' = {request'[s].user : s \in Holding'}
    BY <2>1, <2>2, <2>3, <2>4, <2>9, <2>10
  <2>12. \A s, t \in Holding' : s # t => request'[s].user # request'[t].user
    BY <2>3, <2>4, <2>9, <2>10
  <2>13. TypeOK'
    BY <1>1, <1>2, <2>1, <2>8 DEF IntakeInv, TypeOK
  <2>14. \A s \in Requests : Sound(request'[s])
    BY <2>3 DEF IntakeInv
  <2> HIDE DEF new
  <2> QED
    BY <2>8, <2>11, <2>12, <2>13, <2>14 DEF IntakeInv, SlotsExact
<1> QED
  BY <1>3, <1>4

\* The request that arrives holds nothing yet; admitted, it counts.
LEMMA ArriveStep ==
    ASSUME IntakeInv, NEW r \in Requests, NEW u \in Users, Arrive(r, u)
    PROVE  IntakeInv'
<1>1. request \in [Requests -> Request] /\ request[r] = NewRequest /\ faults' = faults
  BY DEF Arrive, IntakeInv, TypeOK, Sound, HoldsUntilEnd
<1>2. CASE Full(u)
  <2> DEFINE rec == [NewRequest EXCEPT !.step = "done"]
  <2>1. Save(r, rec) /\ UNCHANGED <<slots, users>>
    BY <1>2 DEF Arrive
  <2>2. rec \in Request /\ rec.user = request[r].user /\ rec.released = request[r].released
    BY <1>1 DEF Request, NewRequest
  <2>3. Sound(rec)
    BY DEF Sound, HoldsUntilEnd, CleansOnce, TouchedWhenClosed, NewRequest
  <2> HIDE DEF rec
  <2>4. faults' \in 0 .. MaxFaults
    BY <1>1 DEF IntakeInv, TypeOK
  <2> QED
    BY <2>1, <2>2, <2>3, <2>4, SaveStep
<1>3. CASE ~Full(u)
  <2>1. PICK read \in BOOLEAN :
          Save(r, [NewRequest EXCEPT !.step = "mkdir", !.user = u, !.whole = read])
    BY <1>3 DEF Arrive
  <2> DEFINE rec == [NewRequest EXCEPT !.step = "mkdir", !.user = u, !.whole = read]
  <2>2. rec \in Request /\ rec.user = u /\ ~rec.released
    BY DEF Request, NewRequest
  <2>3. Sound(rec)
    BY IntakeAssumption
       DEF Sound, HoldsUntilEnd, CleansOnce, TouchedWhenClosed, NewRequest
  <2>4. /\ slots' = slots + 1 /\ users' = users \cup {u}
        /\ slots < MaxSlots /\ u \notin users
    <3>1. slots' = slots + 1 /\ users' = users \cup {u}
      BY <1>3 DEF Arrive
    <3>2. slots \in 0 .. MaxSlots
      BY DEF IntakeInv, TypeOK
    <3> QED
      BY <1>3, <3>1, <3>2, IntakeAssumption DEF Full
  <2>5. /\ request'[r] = rec
        /\ \A s \in Requests : s # r => request'[s] = request[s]
        /\ request' \in [Requests -> Request]
    BY <1>1, <2>1, <2>2 DEF Save
  <2> HIDE DEF rec
  <2>6. r \notin Holding
    BY <1>1 DEF Holding, NewRequest
  <2>7. Holding' = Holding \cup {r}
    BY <2>2, <2>5, <2>6, IntakeAssumption DEF Holding
  <2>8. IsFiniteSet(Holding)
    BY HoldingFinite DEF IntakeInv
  <2>9. Cardinality(Holding') = Cardinality(Holding) + 1
    BY <2>6, <2>7, <2>8, FS_AddElement
  <2>10. /\ slots = Cardinality(Holding) /\ slots \in 0 .. MaxSlots
         /\ users = {request[s].user : s \in Holding}
         /\ \A s, t \in Holding : s # t => request[s].user # request[t].user
    BY DEF IntakeInv, SlotsExact, TypeOK
  <2>11. slots' = Cardinality(Holding') /\ slots' \in 0 .. MaxSlots
    BY <2>4, <2>9, <2>10, IntakeAssumption
  <2>12. Holding \subseteq Requests
    BY DEF Holding
  <2>13. users' = {request'[s].user : s \in Holding'}
    BY <2>2, <2>4, <2>5, <2>6, <2>7, <2>10, <2>12
  <2>14. \A s, t \in Holding' : s # t => request'[s].user # request'[t].user
    BY <2>2, <2>4, <2>5, <2>6, <2>7, <2>10, <2>12
  <2>15. TypeOK'
    BY <1>1, <2>4, <2>5, <2>11 DEF IntakeInv, TypeOK
  <2>16. \A s \in Requests : Sound(request'[s])
    BY <2>3, <2>5 DEF IntakeInv
  <2> QED
    BY <2>11, <2>13, <2>14, <2>15, <2>16 DEF IntakeInv, SlotsExact
<1> QED
  BY <1>2, <1>3

----------------------------------------------------------------------------
(* Cleanups *)

LEMMA CleanedType ==
    ASSUME NEW rec \in Request
    PROVE  /\ Cleaned(rec) \in Request
           /\ Cleaned(rec).user = rec.user /\ Cleaned(rec).released = rec.released
           /\ Cleaned(rec).cleaning \in {"waiting", "done"}
           /\ Cleaned(rec).cleaning = "done" => rec.cleaning = "done"
  BY DEF Cleaned, Request

LEMMA RestType ==
    ASSUME NEW rec \in Request, NEW step \in {"failing", "finally", "done"}
    PROVE  LET rest == Rest(rec, step)
           IN  /\ rest \in Request
               /\ rest.step = step /\ rest.user = rec.user
               /\ rest.directory = rec.directory /\ rest.released = rec.released
               /\ rest.cleaning \in {"waiting", "done"}
               /\ rest.cleaning = "done" => rec.cleaning = "done"
<1> DEFINE clean == Cleaned(rec).cleaning
<1>1. Rest(rec, step) = [NewRequest EXCEPT !.step = step, !.user = rec.user,
                                           !.directory = rec.directory, !.cleaning = clean,
                                           !.released = rec.released]
  BY DEF Rest
<1>2. clean \in {"waiting", "done"}
  BY CleanedType
<1>3. clean = "done" => rec.cleaning = "done"
  BY CleanedType
<1> HIDE DEF clean
<1>4. /\ rec.user \in Users \cup {NoUser}
      /\ rec.directory \in {"none", "there", "gone", "leaked"}
      /\ rec.released \in BOOLEAN
  BY DEF Request
<1>5. NewRequest \in Request
  BY DEF NewRequest, Request
<1>6. Rest(rec, step) \in Request
  <2>1. [NewRequest EXCEPT !.step = step, !.user = rec.user] \in Request
    BY <1>4, <1>5 DEF Request
  <2>2. ASSUME NEW base \in Request
        PROVE  [base EXCEPT !.directory = rec.directory, !.cleaning = clean,
                            !.released = rec.released] \in Request
    BY <1>2, <1>4 DEF Request
  <2>3. Rest(rec, step) =
          [[NewRequest EXCEPT !.step = step, !.user = rec.user]
             EXCEPT !.directory = rec.directory, !.cleaning = clean, !.released = rec.released]
    BY <1>1
  <2> QED
    BY <2>1, <2>2, <2>3
<1>7. LET rest == Rest(rec, step)
      IN  /\ rest.step = step /\ rest.user = rec.user
          /\ rest.directory = rec.directory /\ rest.released = rec.released
          /\ rest.cleaning = clean
  BY <1>1, <1>5 DEF Request
<1> QED
  BY <1>2, <1>3, <1>6, <1>7

LEMMA EndedType ==
    ASSUME NEW rec \in Request
    PROVE  LET ended == Ended(rec)
           IN  /\ ended \in Request
               /\ ended.step = "done" /\ ended.user = rec.user
               /\ ended.directory = rec.directory /\ ended.released = rec.released
               /\ ended.cleaning = "done"
<1>1. Rest(rec, "done") \in Request
  BY RestType
<1> QED
  BY <1>1, RestType DEF Request, Ended

\* What awaits the cleanup waits for it, or ends as it is over.
LEMMA AfterCleanupSound ==
    ASSUME NEW rec \in Request, NEW step \in {"failing", "finally"},
           rec.user # NoUser, rec.cleaning = "done" => rec.released /\ rec.directory # "there"
    PROVE  LET after == AfterCleanup(rec, step)
           IN  /\ after \in Request
               /\ after.user = rec.user /\ after.released = rec.released
               /\ Sound(after)
<1>1. CASE rec.cleaning = "done"
  <2> DEFINE ended == Ended(rec)
  <2>1. /\ AfterCleanup(rec, step) = ended
        /\ rec.released /\ rec.directory # "there"
    BY <1>1 DEF AfterCleanup
  <2>2. /\ ended \in Request /\ ended.step = "done" /\ ended.cleaning = "done"
        /\ ended.user = rec.user /\ ended.released = rec.released
        /\ ended.directory = rec.directory
    BY EndedType
  <2> HIDE DEF ended
  <2>3. ended.released
    BY <2>1, <2>2
  <2>4. Sound(ended)
    BY <2>1, <2>2, <2>3 DEF Sound, HoldsUntilEnd, CleansOnce, TouchedWhenClosed
  <2> QED
    BY <2>1, <2>2, <2>4
<1>2. CASE rec.cleaning # "done"
  BY <1>2, RestType
     DEF AfterCleanup, Sound, HoldsUntilEnd, CleansOnce, TouchedWhenClosed
<1> QED
  BY <1>1, <1>2

\* Where a cleanup waits, its end leaves a sound request once it released.
LEMMA FinishedSound ==
    ASSUME NEW rec \in Request, NEW to \in {"gone", "leaked"},
           Sound(rec), rec.cleaning = "waiting"
    PROVE  LET new == [Finished(rec) EXCEPT !.directory = to]
           IN  /\ new \in Request /\ new.user = rec.user /\ rec.user # NoUser
               /\ Sound([new EXCEPT !.released = TRUE])
<1> DEFINE new == [Finished(rec) EXCEPT !.directory = to]
<1>1. rec.step \in {"parse", "controller", "failing", "finally"} /\ rec.user # NoUser
  BY DEF Sound, HoldsUntilEnd, CleansOnce, TouchedWhenClosed, Request, NewRequest
<1>2. CASE rec.step \in {"failing", "finally"}
  <2>1. new = [Ended(rec) EXCEPT !.directory = to]
    BY <1>2 DEF Finished
  <2>2. new \in Request /\ new.user = rec.user /\ new.step = "done"
        /\ new.cleaning = "done" /\ new.directory = to
    BY <2>1, EndedType DEF Request
  <2> HIDE DEF new
  <2>3. Sound([new EXCEPT !.released = TRUE])
    BY <2>2 DEF Request, Sound, HoldsUntilEnd, CleansOnce, TouchedWhenClosed
  <2> QED
    BY <1>1, <2>2, <2>3 DEF new
<1>3. CASE rec.step \in {"parse", "controller"}
  <2>1. new = [rec EXCEPT !.cleaning = "done", !.directory = to]
    BY <1>3 DEF Finished, Request
  <2>2. new \in Request /\ new.user = rec.user
    BY <2>1 DEF Request
  <2>3. Sound([new EXCEPT !.released = TRUE])
    BY <1>1, <1>3, <2>1
       DEF Request, Sound, HoldsUntilEnd, CleansOnce, TouchedWhenClosed, Untouched
  <2> QED
    BY <1>1, <2>2, <2>3
<1> QED
  BY <1>1, <1>2, <1>3

----------------------------------------------------------------------------
(* Every step preserves the invariant *)

LEMMA IntakeInit == Init => IntakeInv
<1> SUFFICES ASSUME Init PROVE IntakeInv
  OBVIOUS
<1>1. \A r \in Requests : request[r] = NewRequest
  BY DEF Init
<1>2. TypeOK
  <2>1. NewRequest \in Request
    BY DEF NewRequest, Request
  <2>2. request \in [Requests -> Request]
    BY <2>1 DEF Init
  <2> QED
    BY <2>2, IntakeAssumption DEF Init, TypeOK
<1>3. Holding = {}
  BY <1>1 DEF Holding, NewRequest
<1>4. SlotsExact
  BY <1>3, FS_EmptySet DEF Init, SlotsExact
<1>5. Sound(NewRequest)
  <2>1. NewRequest.step = "new" /\ NewRequest.cleaning = "no"
    BY DEF NewRequest
  <2> QED
    BY <2>1 DEF Sound, HoldsUntilEnd, CleansOnce, TouchedWhenClosed
<1>6. \A r \in Requests : Sound(request[r])
  BY <1>1, <1>5
<1> QED
  BY <1>2, <1>4, <1>6 DEF IntakeInv

LEMMA MakeDirectoryStep ==
    ASSUME IntakeInv, NEW r \in Requests, MakeDirectory(r)
    PROVE  IntakeInv'
<1> DEFINE old == request[r]
           rec == [old EXCEPT !.directory = "there"]
<1>1. /\ old \in Request /\ Sound(old) /\ old.step = "mkdir"
      /\ Save(r, IF Gone(r) THEN AfterCleanup(rec, "failing") ELSE [rec EXCEPT !.step = "parse"])
      /\ UNCHANGED <<slots, users>> /\ faults' \in 0 .. MaxFaults
  BY DEF MakeDirectory, IntakeInv, TypeOK
<1>2. CASE Gone(r)
  <2>1. /\ rec \in Request /\ rec.user = old.user /\ rec.released = old.released
        /\ rec.user # NoUser /\ rec.cleaning # "done"
    BY <1>1 DEF Request, Sound, HoldsUntilEnd, TouchedWhenClosed
  <2> DEFINE new == AfterCleanup(rec, "failing")
  <2> HIDE DEF rec
  <2>2. /\ new \in Request /\ new.user = old.user /\ new.released = old.released
        /\ Sound(new)
    BY <2>1, AfterCleanupSound
  <2>3. Save(r, new)
    BY <1>1, <1>2 DEF rec
  <2> HIDE DEF new
  <2> QED
    BY <1>1, <2>2, <2>3, SaveStep
<1>3. CASE ~Gone(r)
  <2> DEFINE new == [old EXCEPT !.directory = "there", !.step = "parse"]
  <2>1. Save(r, new)
    BY <1>1, <1>3
  <2>2. new \in Request /\ new.user = old.user /\ new.released = old.released
    BY <1>1 DEF Request
  <2>3. ~old.closed
    BY <1>3 DEF Gone
  <2>4. Sound(new)
    BY <1>1, <2>3
       DEF Request, Sound, HoldsUntilEnd, CleansOnce, TouchedWhenClosed, Untouched
  <2> HIDE DEF new
  <2> QED
    BY <1>1, <2>1, <2>2, <2>4, SaveStep
<1> QED
  BY <1>2, <1>3

LEMMA DirectoryFailsStep ==
    ASSUME IntakeInv, NEW r \in Requests, DirectoryFails(r)
    PROVE  IntakeInv'
<1> DEFINE old == request[r]
           new == Ended(old)
<1>1. /\ old \in Request /\ Sound(old) /\ old.step = "mkdir"
      /\ Release(r, new) /\ faults' \in 0 .. MaxFaults
  BY IntakeAssumption DEF DirectoryFails, Fault, IntakeInv, TypeOK
<1>2. old.user # NoUser /\ old.directory = "none"
  BY <1>1 DEF Sound, HoldsUntilEnd, TouchedWhenClosed
<1>3. /\ new \in Request /\ new.user = old.user /\ new.step = "done"
      /\ new.cleaning = "done" /\ new.directory = old.directory
  BY <1>1, EndedType
<1> HIDE DEF new
<1>4. Sound([new EXCEPT !.released = TRUE])
  BY <1>2, <1>3 DEF Request, Sound, HoldsUntilEnd, CleansOnce, TouchedWhenClosed
<1> QED
  BY <1>1, <1>2, <1>3, <1>4, ReleaseStep

\* The parser and the client change what is known of the body and of its file,
\* and nothing Sound speaks of but whether the body is whole.
LEMMA BodyStep ==
    ASSUME IntakeInv, NEW r \in Requests,
           StartWrite(r) \/ BodyEnds(r) \/ WriteEnds(r) \/ ParserFails(r)
    PROVE  IntakeInv'
<1> DEFINE old == request[r]
<1>1. old \in Request /\ Sound(old)
  BY DEF IntakeInv, TypeOK
<1>2. UNCHANGED <<slots, users>> /\ faults' \in 0 .. MaxFaults
  BY DEF StartWrite, BodyEnds, WriteEnds, ParserFails, IntakeInv, TypeOK
<1>3. CASE StartWrite(r)
  <2> DEFINE new == [old EXCEPT !.write = "open"]
  <2>1. Save(r, new) /\ old.step = "parse"
    BY <1>3 DEF StartWrite
  <2>2. new \in Request /\ new.user = old.user /\ new.released = old.released
    BY <1>1 DEF Request
  <2>3. Sound(new)
    BY <1>1, <2>1
       DEF Request, Sound, HoldsUntilEnd, CleansOnce, TouchedWhenClosed, Untouched
  <2> HIDE DEF new
  <2> QED
    BY <1>2, <2>1, <2>2, <2>3, SaveStep
<1>4. CASE BodyEnds(r)
  <2> DEFINE new == [old EXCEPT !.whole = TRUE]
  <2>1. Save(r, new) /\ old.step = "parse"
    BY <1>4 DEF BodyEnds
  <2>2. new \in Request /\ new.user = old.user /\ new.released = old.released
    BY <1>1 DEF Request
  <2>3. Sound(new)
    BY <1>1, <2>1
       DEF Request, Sound, HoldsUntilEnd, CleansOnce, TouchedWhenClosed, Untouched
  <2> HIDE DEF new
  <2> QED
    BY <1>2, <2>1, <2>2, <2>3, SaveStep
<1>5. CASE WriteEnds(r)
  <2>1. PICK to \in {"broken", "stored"} : Save(r, [old EXCEPT !.write = to])
    BY <1>5 DEF WriteEnds
  <2> DEFINE new == [old EXCEPT !.write = to]
  <2>2. new \in Request /\ new.user = old.user /\ new.released = old.released
    BY <1>1 DEF Request
  <2>3. old.write = "open"
    BY <1>5 DEF WriteEnds
  <2>4. Sound(new)
    BY <1>1, <2>3
       DEF Request, Sound, HoldsUntilEnd, CleansOnce, TouchedWhenClosed, Untouched,
           NewRequest
  <2> HIDE DEF new
  <2>5. Save(r, new)
    BY <2>1 DEF new
  <2> QED
    BY <1>2, <2>2, <2>4, <2>5, SaveStep
<1>6. CASE ParserFails(r)
  <2> DEFINE new == [old EXCEPT !.broken = TRUE]
  <2>1. Save(r, new) /\ old.step = "parse"
    BY <1>6 DEF ParserFails
  <2>2. new \in Request /\ new.user = old.user /\ new.released = old.released
    BY <1>1 DEF Request
  <2>3. Sound(new)
    BY <1>1, <2>1
       DEF Request, Sound, HoldsUntilEnd, CleansOnce, TouchedWhenClosed, Untouched
  <2> HIDE DEF new
  <2> QED
    BY <1>2, <2>1, <2>2, <2>3, SaveStep
<1> QED
  BY <1>3, <1>4, <1>5, <1>6

\* The hand-over: what the controller gets of a client that is there is whole.
LEMMA ParserCallsBackStep ==
    ASSUME IntakeInv, NEW r \in Requests, ParserCallsBack(r)
    PROVE  IntakeInv'
<1> DEFINE old == request[r]
<1>1. /\ old \in Request /\ Sound(old) /\ old.step = "parse"
      /\ UNCHANGED <<slots, users>> /\ faults' \in 0 .. MaxFaults
  BY DEF ParserCallsBack, IntakeInv, TypeOK
<1>2. CASE Save(r, AfterCleanup(old, "failing"))
  <2> DEFINE new == AfterCleanup(old, "failing")
  <2>1. /\ old.user # NoUser
        /\ old.cleaning = "done" => old.released /\ old.directory # "there"
    BY <1>1 DEF Sound, HoldsUntilEnd, CleansOnce
  <2>2. /\ new \in Request /\ new.user = old.user /\ new.released = old.released
        /\ Sound(new)
    BY <1>1, <2>1, AfterCleanupSound
  <2> HIDE DEF new
  <2>3. Save(r, new)
    BY <1>2 DEF new
  <2> QED
    BY <1>1, <2>2, <2>3, SaveStep
<1>3. CASE old.whole /\ Save(r, [old EXCEPT !.step = "controller", !.early = old.closed])
  <2> DEFINE new == [old EXCEPT !.step = "controller", !.early = old.closed]
  <2>1. new \in Request /\ new.user = old.user /\ new.released = old.released
    BY <1>1 DEF Request
  <2>2. Sound(new)
    BY <1>1, <1>3
       DEF Request, Sound, HoldsUntilEnd, CleansOnce, TouchedWhenClosed, Untouched
  <2> HIDE DEF new
  <2>3. Save(r, new)
    BY <1>3 DEF new
  <2> QED
    BY <1>1, <2>1, <2>2, <2>3, SaveStep
<1> QED
  BY <1>2, <1>3 DEF ParserCallsBack

LEMMA ControllerEndsStep ==
    ASSUME IntakeInv, NEW r \in Requests, ControllerEnds(r)
    PROVE  IntakeInv'
<1> DEFINE old == request[r]
           new == AfterCleanup(old, "finally")
<1>1. /\ old \in Request /\ Sound(old) /\ old.step = "controller" /\ Save(r, new)
      /\ UNCHANGED <<slots, users>> /\ faults' \in 0 .. MaxFaults
  BY DEF ControllerEnds, IntakeInv, TypeOK
<1>2. /\ old.user # NoUser
      /\ old.cleaning = "done" => old.released /\ old.directory # "there"
  BY <1>1 DEF Sound, HoldsUntilEnd, CleansOnce
<1>3. /\ new \in Request /\ new.user = old.user /\ new.released = old.released
      /\ Sound(new)
  BY <1>1, <1>2, AfterCleanupSound
<1> HIDE DEF new
<1> QED
  BY <1>1, <1>3, SaveStep

\* The end of a connection releases a request without a directory, leaves one
\* that the controller owns alone, and starts the cleanup of any other.
LEMMA DisconnectStep ==
    ASSUME IntakeInv, NEW r \in Requests, Disconnect(r)
    PROVE  IntakeInv'
<1> DEFINE old == request[r]
           after == [old EXCEPT !.closed = TRUE, !.aborted = ~old.whole,
                                !.broken = @ \/ (old.step = "parse" /\ ~old.whole)]
<1>1. /\ old \in Request /\ Sound(old) /\ ~old.closed
      /\ old.step \in {"mkdir", "parse", "controller"} /\ faults' \in 0 .. MaxFaults
  BY DEF Disconnect, IntakeInv, TypeOK
<1>2. after \in Request /\ after.user = old.user /\ after.released = old.released
  BY <1>1 DEF Request
<1>3. old.user # NoUser
  BY <1>1 DEF Sound, HoldsUntilEnd
<1>4. CASE old.step = "mkdir"
  <2>1. old.directory = "none" /\ old.cleaning = "no"
    BY <1>1, <1>4 DEF Sound, TouchedWhenClosed
  <2>2. Release(r, after)
    BY <2>1 DEF Disconnect
  <2>3. Sound([after EXCEPT !.released = TRUE])
    BY <1>1, <1>3, <1>4, <2>1
       DEF Request, Sound, HoldsUntilEnd, CleansOnce, TouchedWhenClosed
  <2> HIDE DEF after
  <2> QED
    BY <1>1, <1>2, <1>3, <2>2, <2>3, ReleaseStep
<1>5. CASE old.step \in {"parse", "controller"}
  <2>1. Untouched(old)
    BY <1>1, <1>5 DEF Sound, TouchedWhenClosed
  <2>2. UNCHANGED <<slots, users>>
    BY <2>1 DEF Disconnect, Untouched
  <2>3. CASE old.step = "parse"
    <3> DEFINE new == [after EXCEPT !.cleaning = "waiting"]
    <3>1. Save(r, new)
      BY <1>1, <2>1, <2>3 DEF Disconnect, Untouched, Owned, Cleaned, Request
    <3>2. new \in Request /\ new.user = old.user /\ new.released = old.released
      <4> HIDE DEF after
      <4> QED
        BY <1>2 DEF Request
    <3>3. Sound(new)
      BY <1>1, <1>3, <2>1, <2>3
         DEF Request, Sound, HoldsUntilEnd, CleansOnce, TouchedWhenClosed, Untouched
    <3> HIDE DEF new
    <3> QED
      BY <1>1, <2>2, <3>1, <3>2, <3>3, SaveStep
  <2>4. CASE old.step = "controller"
    <3>1. old.whole
      BY <1>1, <2>4 DEF Sound, TouchedWhenClosed
    <3>2. Save(r, after)
      BY <2>1, <2>4, <3>1 DEF Disconnect, Untouched, Owned
    <3>3. Sound(after)
      BY <1>1, <1>3, <2>1, <2>4, <3>1
         DEF Request, Sound, HoldsUntilEnd, CleansOnce, TouchedWhenClosed, Untouched
    <3> HIDE DEF after
    <3> QED
      BY <1>1, <1>2, <2>2, <3>2, <3>3, SaveStep
  <2> QED
    BY <1>5, <2>3, <2>4
<1> QED
  BY <1>1, <1>4, <1>5

LEMMA RemovalStep ==
    ASSUME IntakeInv, NEW r \in Requests, RemoveUpload(r) \/ RemovalFails(r)
    PROVE  IntakeInv'
<1> DEFINE old == request[r]
<1>1. old \in Request /\ Sound(old) /\ old.cleaning = "waiting"
  BY DEF RemoveUpload, RemovalFails, IntakeInv, TypeOK
<1>2. faults' \in 0 .. MaxFaults
  BY IntakeAssumption DEF RemoveUpload, RemovalFails, Fault, IntakeInv, TypeOK
<1>3. PICK to \in {"gone", "leaked"} : Release(r, [Finished(old) EXCEPT !.directory = to])
  BY DEF RemoveUpload, RemovalFails
<1> DEFINE new == [Finished(old) EXCEPT !.directory = to]
<1>4. /\ new \in Request /\ new.user = old.user /\ old.user # NoUser
      /\ Sound([new EXCEPT !.released = TRUE])
  BY <1>1, FinishedSound
<1>5. Release(r, new)
  BY <1>3
<1> HIDE DEF new
<1> QED
  BY <1>2, <1>4, <1>5, ReleaseStep

\* IntakeInv is inductive.
LEMMA IntakeStep == IntakeInv /\ [Next]_vars => IntakeInv'
<1> SUFFICES ASSUME IntakeInv, [Next]_vars PROVE IntakeInv'
  OBVIOUS
<1>1. ASSUME NEW r \in Requests, NEW u \in Users, Arrive(r, u) PROVE IntakeInv'
  BY <1>1, ArriveStep
<1>2. ASSUME NEW r \in Requests,
             StartWrite(r) \/ BodyEnds(r) \/ WriteEnds(r) \/ ParserFails(r)
      PROVE  IntakeInv'
  BY <1>2, BodyStep
<1>3. ASSUME NEW r \in Requests, MakeDirectory(r) PROVE IntakeInv'
  BY <1>3, MakeDirectoryStep
<1>4. ASSUME NEW r \in Requests, ParserCallsBack(r) PROVE IntakeInv'
  BY <1>4, ParserCallsBackStep
<1>5. ASSUME NEW r \in Requests, ControllerEnds(r) PROVE IntakeInv'
  BY <1>5, ControllerEndsStep
<1>6. ASSUME NEW r \in Requests, RemoveUpload(r) \/ RemovalFails(r) PROVE IntakeInv'
  BY <1>6, RemovalStep
<1>7. ASSUME NEW r \in Requests, Disconnect(r) PROVE IntakeInv'
  BY <1>7, DisconnectStep
<1>8. ASSUME NEW r \in Requests, DirectoryFails(r) PROVE IntakeInv'
  BY <1>8, DirectoryFailsStep
<1>9. CASE UNCHANGED vars
  <2>1. /\ Holding' = Holding
        /\ UNCHANGED <<request, slots, users, faults>>
    BY <1>9 DEF vars, Holding
  <2>2. TypeOK'
    BY <2>1 DEF IntakeInv, TypeOK
  <2>3. SlotsExact'
    BY <2>1 DEF IntakeInv, SlotsExact
  <2> QED
    BY <2>1, <2>2, <2>3 DEF IntakeInv
<1> QED
  BY <1>1, <1>2, <1>3, <1>4, <1>5, <1>6, <1>7, <1>8, <1>9 DEF Next, Serve, Client

----------------------------------------------------------------------------
(* Theorems *)

\* The inductive invariant of the middleware, of every instance.
THEOREM IntakeInvariant == Spec => []IntakeInv
<1>1. Init => IntakeInv
  BY IntakeInit
<1>2. IntakeInv /\ [Next]_vars => IntakeInv'
  BY IntakeStep
<1> QED
  BY <1>1, <1>2, PTL DEF Spec

\* Whatever events a request sees and in which order, the slots and users that
\* createUploadMiddleware counts are those of the uploads that hold one.
THEOREM SlotsCounted == Spec => []SlotsExact
<1>1. IntakeInv => SlotsExact
  BY DEF IntakeInv
<1> QED
  BY <1>1, IntakeInvariant, PTL

\* No event of a connection takes from createJob the file it got, or the slot,
\* while it works, if the client was still there at the hand-over.
THEOREM FileKept == Spec => []OwnedFileKept
<1>1. IntakeInv => OwnedFileKept
  BY DEF IntakeInv, Sound, TouchedWhenClosed, Untouched, OwnedFileKept, UsesFile
<1> QED
  BY <1>1, IntakeInvariant, PTL

----------------------------------------------------------------------------
(* Every upload ends *)

\* One of Serve and Client has its guard: in this order those of MakeDirectory and
\* ControllerEnds, BodyEnds, WriteEnds, ParserCallsBack, RemoveUpload.
CanGoOn(rec) ==
    \/ rec.step \in {"mkdir", "controller"}
    \/ rec.step = "parse" /\ ~rec.whole /\ ~rec.closed
    \/ rec.write = "open" /\ (rec.whole \/ rec.broken)
    \/ rec.step = "parse" /\ rec.write # "open" /\ (rec.broken \/ rec.whole)
    \/ rec.cleaning = "waiting" /\ rec.write # "open"

Unfinished(rec) == rec.step \notin {"new", "done"}

NeverStuck == \A r \in Requests : Unfinished(request[r]) => CanGoOn(request[r])

\* What makes it so: a parser that will get no more was told, and what only waits
\* for its cleanup has one, which nothing written holds up.
Onward(rec) ==
    /\ rec.step = "parse" /\ rec.closed => rec.whole \/ rec.broken
    /\ rec.step \in {"failing", "finally"} => rec.cleaning = "waiting" /\ rec.write # "open"

EndsInv ==
    /\ IntakeInv
    /\ \A r \in Requests : Onward(request[r])

\* What a request has before it: how far its step is from the end, and what may
\* still happen to its body, connection, file and cleanup meanwhile.
StepsLeft(step) ==
    CASE step = "new"     -> 6 [] step = "mkdir"   -> 5 [] step = "parse" -> 4
      [] step = "controller" -> 3 [] step = "failing" -> 2 [] step = "finally" -> 1
      [] step = "done"    -> 0

WriteLeft(write) ==
    CASE write = "none" -> 2 [] write = "open" -> 1 [] write \in {"stored", "broken"} -> 0

CleanupLeft(cleaning) ==
    CASE cleaning = "no" -> 2 [] cleaning = "waiting" -> 1 [] cleaning = "done" -> 0

Left(b) == IF b THEN 0 ELSE 1

EventsLeft(rec) ==
    Left(rec.whole) + Left(rec.broken) + Left(rec.closed)
      + WriteLeft(rec.write) + CleanupLeft(rec.cleaning)

Rank(rec) == 8 * StepsLeft(rec.step) + EventsLeft(rec)

LEMMA LeftValue ==
    ASSUME NEW b
    PROVE  Left(b) \in 0 .. 1 /\ (b => Left(b) = 0) /\ (~b => Left(b) = 1)
  BY DEF Left

LEMMA LeftValues ==
    ASSUME NEW rec \in Request
    PROVE  /\ StepsLeft(rec.step) \in 0 .. 6
           /\ WriteLeft(rec.write) \in 0 .. 2
           /\ CleanupLeft(rec.cleaning) \in 0 .. 2
<1>1. /\ rec.step \in {"new", "mkdir", "parse", "failing", "controller", "finally", "done"}
      /\ rec.write \in {"none", "open", "stored", "broken"}
      /\ rec.cleaning \in {"no", "waiting", "done"}
  BY DEF Request
<1>2. StepsLeft(rec.step) \in 0 .. 6
  BY <1>1 DEF StepsLeft
<1>3. WriteLeft(rec.write) \in 0 .. 2
  BY <1>1 DEF WriteLeft
<1>4. CleanupLeft(rec.cleaning) \in 0 .. 2
  BY <1>1 DEF CleanupLeft
<1> QED
  BY <1>2, <1>3, <1>4

LEMMA EventsValue ==
    ASSUME NEW rec \in Request
    PROVE  EventsLeft(rec) \in 0 .. 7
<1>1. /\ Left(rec.whole) \in 0 .. 1 /\ Left(rec.broken) \in 0 .. 1
      /\ Left(rec.closed) \in 0 .. 1
  BY LeftValue
<1>2. WriteLeft(rec.write) \in 0 .. 2 /\ CleanupLeft(rec.cleaning) \in 0 .. 2
  BY LeftValues
<1> QED
  BY <1>1, <1>2 DEF EventsLeft

LEMMA RankValue == ASSUME NEW rec \in Request PROVE Rank(rec) \in 0 .. 55
  BY LeftValues, EventsValue DEF Rank

\* A later step outweighs all that may happen at the one before.
LEMMA LaterStep ==
    ASSUME NEW old \in Request, NEW new \in Request,
           StepsLeft(new.step) < StepsLeft(old.step)
    PROVE  Rank(new) < Rank(old)
<1>1. /\ StepsLeft(new.step) \in 0 .. 6 /\ StepsLeft(old.step) \in 0 .. 6
      /\ EventsLeft(new) \in 0 .. 7 /\ EventsLeft(old) \in 0 .. 7
  BY LeftValues, EventsValue
<1> QED
  BY <1>1 DEF Rank

\* What has happened to a request does not happen again.
Kept(old, new) ==
    /\ new.step = old.step
    /\ old.whole => new.whole
    /\ old.broken => new.broken
    /\ old.closed => new.closed
    /\ WriteLeft(new.write) <= WriteLeft(old.write)
    /\ CleanupLeft(new.cleaning) <= CleanupLeft(old.cleaning)

LEMMA LaterEvent ==
    ASSUME NEW old \in Request, NEW new \in Request, Kept(old, new),
           \/ new.whole /\ ~old.whole
           \/ new.broken /\ ~old.broken
           \/ new.closed /\ ~old.closed
           \/ WriteLeft(new.write) < WriteLeft(old.write)
           \/ CleanupLeft(new.cleaning) < CleanupLeft(old.cleaning)
    PROVE  Rank(new) < Rank(old)
<1>1. /\ Left(new.whole) \in 0 .. 1 /\ Left(old.whole) \in 0 .. 1
      /\ Left(new.whole) <= Left(old.whole)
      /\ new.whole /\ ~old.whole => Left(new.whole) < Left(old.whole)
  <2>1. old.whole => new.whole
    BY DEF Kept
  <2> QED
    BY <2>1 DEF Left
<1>2. /\ Left(new.broken) \in 0 .. 1 /\ Left(old.broken) \in 0 .. 1
      /\ Left(new.broken) <= Left(old.broken)
      /\ new.broken /\ ~old.broken => Left(new.broken) < Left(old.broken)
  <2>1. old.broken => new.broken
    BY DEF Kept
  <2> QED
    BY <2>1 DEF Left
<1>3. /\ Left(new.closed) \in 0 .. 1 /\ Left(old.closed) \in 0 .. 1
      /\ Left(new.closed) <= Left(old.closed)
      /\ new.closed /\ ~old.closed => Left(new.closed) < Left(old.closed)
  <2>1. old.closed => new.closed
    BY DEF Kept
  <2> QED
    BY <2>1 DEF Left
<1>4. /\ WriteLeft(new.write) \in 0 .. 2 /\ WriteLeft(old.write) \in 0 .. 2
      /\ WriteLeft(new.write) <= WriteLeft(old.write)
      /\ CleanupLeft(new.cleaning) \in 0 .. 2 /\ CleanupLeft(old.cleaning) \in 0 .. 2
      /\ CleanupLeft(new.cleaning) <= CleanupLeft(old.cleaning)
      /\ StepsLeft(new.step) \in 0 .. 6 /\ StepsLeft(new.step) = StepsLeft(old.step)
  BY LeftValues DEF Kept
<1>5. \/ Left(new.whole) < Left(old.whole)
      \/ Left(new.broken) < Left(old.broken)
      \/ Left(new.closed) < Left(old.closed)
      \/ WriteLeft(new.write) < WriteLeft(old.write)
      \/ CleanupLeft(new.cleaning) < CleanupLeft(old.cleaning)
  BY <1>1, <1>2, <1>3
<1>6. EventsLeft(new) < EventsLeft(old)
  BY <1>1, <1>2, <1>3, <1>4, <1>5 DEF EventsLeft
<1>7. EventsLeft(new) \in 0 .. 7 /\ EventsLeft(old) \in 0 .. 7
  BY EventsValue
<1> QED
  BY <1>4, <1>6, <1>7 DEF Rank

\* A step is that of one request, which goes on and comes closer to its end.
GoesOn(r) ==
    \E new \in Request :
       /\ request' = [request EXCEPT ![r] = new]
       /\ Onward(new)
       /\ Rank(new) < Rank(request[r])

\* Only waiting for the cleanup, or over.
LEMMA RestOnward ==
    ASSUME NEW rec \in Request, NEW step \in {"failing", "finally"}
    PROVE  LET after == AfterCleanup(rec, step)
           IN  /\ after \in Request /\ Onward(after)
               /\ after.step \in {step, "done"}
<1>1. CASE rec.cleaning = "done"
  <2>1. AfterCleanup(rec, step) = Ended(rec)
    BY <1>1 DEF AfterCleanup
  <2>2. Ended(rec) \in Request /\ Ended(rec).step = "done"
    BY EndedType
  <2> QED
    BY <2>1, <2>2 DEF Onward
<1>2. CASE rec.cleaning # "done"
  <2> DEFINE rest == Rest(rec, step)
  <2>1. AfterCleanup(rec, step) = rest
    BY <1>2 DEF AfterCleanup
  <2>2. rest \in Request /\ rest.step = step /\ rest.cleaning = "waiting"
    BY <1>2, RestType
  <2>3. rest.write = "none"
    BY DEF Rest, NewRequest
  <2> HIDE DEF rest
  <2> QED
    BY <2>1, <2>2, <2>3 DEF Onward
<1> QED
  BY <1>1, <1>2

LEMMA ArriveOnward ==
    ASSUME EndsInv, NEW r \in Requests, NEW u \in Users, Arrive(r, u)
    PROVE  GoesOn(r)
<1> DEFINE old == request[r]
<1>1. old \in Request /\ old.step = "new"
  BY DEF EndsInv, IntakeInv, TypeOK, Arrive
<1>2. PICK read \in BOOLEAN :
        \/ Save(r, [NewRequest EXCEPT !.step = "done"])
        \/ Save(r, [NewRequest EXCEPT !.step = "mkdir", !.user = u, !.whole = read])
  BY DEF Arrive
<1>3. NewRequest \in Request
  BY DEF NewRequest, Request
<1>4. CASE Save(r, [NewRequest EXCEPT !.step = "done"])
  <2> DEFINE new == [NewRequest EXCEPT !.step = "done"]
  <2>1. new \in Request /\ new.step = "done" /\ request' = [request EXCEPT ![r] = new]
    BY <1>3, <1>4 DEF Request, Save
  <2> HIDE DEF new
  <2>2. Onward(new) /\ StepsLeft(new.step) < StepsLeft(old.step)
    BY <1>1, <2>1 DEF Onward, StepsLeft
  <2> QED
    BY <1>1, <2>1, <2>2, LaterStep DEF GoesOn
<1>5. CASE Save(r, [NewRequest EXCEPT !.step = "mkdir", !.user = u, !.whole = read])
  <2> DEFINE new == [NewRequest EXCEPT !.step = "mkdir", !.user = u, !.whole = read]
  <2>1. new \in Request /\ new.step = "mkdir" /\ request' = [request EXCEPT ![r] = new]
    BY <1>3, <1>5 DEF Request, Save
  <2> HIDE DEF new
  <2>2. Onward(new) /\ StepsLeft(new.step) < StepsLeft(old.step)
    BY <1>1, <2>1 DEF Onward, StepsLeft
  <2> QED
    BY <1>1, <2>1, <2>2, LaterStep DEF GoesOn
<1> QED
  BY <1>2, <1>4, <1>5

LEMMA MakeDirectoryOnward ==
    ASSUME EndsInv, NEW r \in Requests, MakeDirectory(r) \/ DirectoryFails(r)
    PROVE  GoesOn(r)
<1> DEFINE old == request[r]
           rec == [old EXCEPT !.directory = "there"]
<1>1. old \in Request /\ old.step = "mkdir"
  BY DEF EndsInv, IntakeInv, TypeOK, MakeDirectory, DirectoryFails
<1>2. rec \in Request
  BY <1>1 DEF Request
<1>3. CASE MakeDirectory(r) /\ Gone(r)
  <2> DEFINE new == AfterCleanup(rec, "failing")
  <2>1. request' = [request EXCEPT ![r] = new]
    BY <1>3 DEF MakeDirectory, Save
  <2> HIDE DEF rec
  <2>2. new \in Request /\ Onward(new) /\ new.step \in {"failing", "done"}
    BY <1>2, RestOnward
  <2> HIDE DEF new
  <2>3. StepsLeft(new.step) < StepsLeft(old.step)
    BY <1>1, <2>2 DEF StepsLeft
  <2> QED
    BY <1>1, <2>1, <2>2, <2>3, LaterStep DEF GoesOn
<1>4. CASE MakeDirectory(r) /\ ~Gone(r)
  <2> DEFINE new == [old EXCEPT !.directory = "there", !.step = "parse"]
  <2>1. request' = [request EXCEPT ![r] = new] /\ ~old.closed
    BY <1>4 DEF MakeDirectory, Save, Gone
  <2>2. new \in Request /\ new.step = "parse" /\ ~new.closed
    BY <1>1, <2>1 DEF Request
  <2> HIDE DEF new
  <2>3. Onward(new) /\ StepsLeft(new.step) < StepsLeft(old.step)
    BY <1>1, <2>2 DEF Onward, StepsLeft
  <2> QED
    BY <1>1, <2>1, <2>2, <2>3, LaterStep DEF GoesOn
<1>5. CASE DirectoryFails(r)
  <2> DEFINE new == [Ended(old) EXCEPT !.released = TRUE]
  <2>1. request' = [request EXCEPT ![r] = new]
    BY <1>5 DEF DirectoryFails, Release, Save
  <2>2. Ended(old) \in Request /\ Ended(old).step = "done"
    BY <1>1, EndedType
  <2>3. new \in Request /\ new.step = "done"
    BY <2>2 DEF Request
  <2> HIDE DEF new
  <2>4. Onward(new) /\ StepsLeft(new.step) < StepsLeft(old.step)
    BY <1>1, <2>3 DEF Onward, StepsLeft
  <2> QED
    BY <1>1, <2>1, <2>3, <2>4, LaterStep DEF GoesOn
<1> QED
  BY <1>3, <1>4, <1>5

\* What happens to the body, the file and the connection happens once.
LEMMA EventOnward ==
    ASSUME EndsInv, NEW r \in Requests, NEW new \in Request,
           request' = [request EXCEPT ![r] = new], Kept(request[r], new),
           ~request[r].closed \/ new.closed = request[r].closed,
           new.step = "parse" /\ new.closed /\ ~request[r].closed => new.whole \/ new.broken,
           \/ new.whole /\ ~request[r].whole
           \/ new.broken /\ ~request[r].broken
           \/ new.closed /\ ~request[r].closed
           \/ WriteLeft(new.write) < WriteLeft(request[r].write)
           \/ CleanupLeft(new.cleaning) < CleanupLeft(request[r].cleaning),
           new.step \in {"parse", "controller", "mkdir"}
    PROVE  GoesOn(r)
<1>1. request[r] \in Request /\ Onward(request[r])
  BY DEF EndsInv, IntakeInv, TypeOK
<1>2. Onward(new)
  BY <1>1 DEF Onward, Kept
<1> QED
  BY <1>1, <1>2, LaterEvent DEF GoesOn

LEMMA BodyOnward ==
    ASSUME EndsInv, NEW r \in Requests,
           StartWrite(r) \/ BodyEnds(r) \/ WriteEnds(r) \/ ParserFails(r)
    PROVE  GoesOn(r)
<1> DEFINE old == request[r]
<1>1. old \in Request /\ Onward(old)
  BY DEF EndsInv, IntakeInv, TypeOK
<1>2. CASE StartWrite(r)
  <2> DEFINE new == [old EXCEPT !.write = "open"]
  <2>1. request' = [request EXCEPT ![r] = new] /\ old.step = "parse" /\ old.write = "none"
    BY <1>2 DEF StartWrite, Save
  <2>2. /\ new \in Request /\ new.step = old.step /\ new.write = "open"
        /\ new.whole = old.whole /\ new.broken = old.broken
        /\ new.closed = old.closed /\ new.cleaning = old.cleaning
    BY <1>1 DEF Request
  <2> HIDE DEF new
  <2>3. WriteLeft(new.write) < WriteLeft(old.write)
    BY <2>1, <2>2 DEF WriteLeft
  <2>4. Kept(old, new)
    BY <1>1, <2>1, <2>2, <2>3, LeftValues DEF Kept
  <2> QED
    BY <2>1, <2>2, <2>3, <2>4, EventOnward
<1>3. CASE BodyEnds(r)
  <2> DEFINE new == [old EXCEPT !.whole = TRUE]
  <2>1. request' = [request EXCEPT ![r] = new] /\ old.step = "parse" /\ ~old.whole
    BY <1>3 DEF BodyEnds, Save
  <2>2. /\ new \in Request /\ new.step = old.step /\ new.write = old.write
        /\ new.whole /\ new.broken = old.broken
        /\ new.closed = old.closed /\ new.cleaning = old.cleaning
    BY <1>1 DEF Request
  <2> HIDE DEF new
  <2>3. Kept(old, new)
    BY <1>1, <2>2, LeftValues DEF Kept
  <2> QED
    BY <2>1, <2>2, <2>3, EventOnward
<1>4. CASE WriteEnds(r)
  <2>1. PICK to \in {"broken", "stored"} : request' = [request EXCEPT ![r] = [old EXCEPT !.write = to]]
    BY <1>4 DEF WriteEnds, Save
  <2> DEFINE new == [old EXCEPT !.write = to]
  <2>2. old.write = "open"
    BY <1>4 DEF WriteEnds
  <2>3. /\ new \in Request /\ new.step = old.step /\ new.write = to
        /\ new.whole = old.whole /\ new.broken = old.broken
        /\ new.closed = old.closed /\ new.cleaning = old.cleaning
    BY <1>1 DEF Request
  <2>4. request' = [request EXCEPT ![r] = new]
    BY <2>1
  <2> HIDE DEF new
  <2>5. WriteLeft(new.write) < WriteLeft(old.write)
    BY <2>2, <2>3 DEF WriteLeft
  <2>6. Kept(old, new)
    BY <1>1, <2>3, <2>5, LeftValues DEF Kept
  <2>7. Rank(new) < Rank(old)
    BY <1>1, <2>3, <2>5, <2>6, LaterEvent
  <2>8. Onward(new)
    BY <1>1, <2>3 DEF Onward
  <2> QED
    BY <2>3, <2>4, <2>7, <2>8 DEF GoesOn
<1>5. CASE ParserFails(r)
  <2> DEFINE new == [old EXCEPT !.broken = TRUE]
  <2>1. request' = [request EXCEPT ![r] = new] /\ old.step = "parse" /\ ~old.broken
    BY <1>5 DEF ParserFails, Save
  <2>2. /\ new \in Request /\ new.step = old.step /\ new.write = old.write
        /\ new.whole = old.whole /\ new.broken
        /\ new.closed = old.closed /\ new.cleaning = old.cleaning
    BY <1>1 DEF Request
  <2> HIDE DEF new
  <2>3. Kept(old, new)
    BY <1>1, <2>2, LeftValues DEF Kept
  <2> QED
    BY <2>1, <2>2, <2>3, EventOnward
<1> QED
  BY <1>2, <1>3, <1>4, <1>5

LEMMA HandOverOnward ==
    ASSUME EndsInv, NEW r \in Requests, ParserCallsBack(r) \/ ControllerEnds(r)
    PROVE  GoesOn(r)
<1> DEFINE old == request[r]
<1>1. old \in Request
  BY DEF EndsInv, IntakeInv, TypeOK
<1>2. ASSUME NEW step \in {"failing", "finally"}, old.step \in {"parse", "controller"},
             Save(r, AfterCleanup(old, step))
      PROVE  GoesOn(r)
  <2> DEFINE new == AfterCleanup(old, step)
  <2>1. new \in Request /\ Onward(new) /\ new.step \in {step, "done"}
    BY <1>1, RestOnward
  <2>2. request' = [request EXCEPT ![r] = new]
    BY <1>2 DEF Save
  <2> HIDE DEF new
  <2>3. StepsLeft(new.step) < StepsLeft(old.step)
    BY <1>2, <2>1 DEF StepsLeft
  <2> QED
    BY <1>1, <2>1, <2>2, <2>3, LaterStep DEF GoesOn
<1>3. CASE /\ old.step = "parse"
           /\ Save(r, [old EXCEPT !.step = "controller", !.early = old.closed])
  <2> DEFINE new == [old EXCEPT !.step = "controller", !.early = old.closed]
  <2>1. new \in Request /\ new.step = "controller"
    BY <1>1 DEF Request
  <2>2. request' = [request EXCEPT ![r] = new]
    BY <1>3 DEF Save
  <2> HIDE DEF new
  <2>3. Onward(new) /\ StepsLeft(new.step) < StepsLeft(old.step)
    BY <1>3, <2>1 DEF Onward, StepsLeft
  <2> QED
    BY <1>1, <2>1, <2>2, <2>3, LaterStep DEF GoesOn
<1> QED
  BY <1>2, <1>3 DEF ParserCallsBack, ControllerEnds

LEMMA DisconnectOnward ==
    ASSUME EndsInv, NEW r \in Requests, Disconnect(r)
    PROVE  GoesOn(r)
<1> DEFINE old == request[r]
           after == [old EXCEPT !.closed = TRUE, !.aborted = ~old.whole,
                                !.broken = @ \/ (old.step = "parse" /\ ~old.whole)]
<1>1. old \in Request /\ ~old.closed /\ old.step \in {"mkdir", "parse", "controller"}
  BY DEF EndsInv, IntakeInv, TypeOK, Disconnect
<1>2. /\ after \in Request /\ after.step = old.step /\ after.write = old.write
      /\ after.whole = old.whole /\ after.cleaning = old.cleaning /\ after.closed
      /\ old.broken => after.broken
      /\ old.step = "parse" => after.whole \/ after.broken
  BY <1>1 DEF Request
<1>3. \/ Save(r, [after EXCEPT !.released = TRUE]) \/ Save(r, after) \/ Save(r, Cleaned(after))
  BY DEF Disconnect, Release
<1> HIDE DEF after
<1>4. ASSUME NEW new \in Request, Save(r, new), new.step = after.step,
             new.write = after.write, new.whole = after.whole, new.broken = after.broken,
             new.closed = after.closed,
             CleanupLeft(new.cleaning) <= CleanupLeft(old.cleaning)
      PROVE  GoesOn(r)
  <2>1. request' = [request EXCEPT ![r] = new]
    BY <1>4 DEF Save
  <2>2. Kept(old, new)
    BY <1>1, <1>2, <1>4, LeftValues DEF Kept
  <2>3. new.closed /\ ~old.closed /\ new.step \in {"parse", "controller", "mkdir"}
    BY <1>1, <1>2, <1>4
  <2>4. new.step = "parse" => new.whole \/ new.broken
    BY <1>2, <1>4
  <2> QED
    BY <2>1, <2>2, <2>3, <2>4, EventOnward
<1>5. CleanupLeft(old.cleaning) \in 0 .. 2
  BY <1>1, LeftValues
<1>6. CASE Save(r, [after EXCEPT !.released = TRUE])
  <2> DEFINE new == [after EXCEPT !.released = TRUE]
  <2>1. /\ new \in Request /\ new.step = after.step /\ new.write = after.write
        /\ new.whole = after.whole /\ new.broken = after.broken
        /\ new.closed = after.closed /\ new.cleaning = old.cleaning
    BY <1>2 DEF Request
  <2> HIDE DEF new
  <2>2. CleanupLeft(new.cleaning) <= CleanupLeft(old.cleaning)
    BY <1>5, <2>1
  <2>3. Save(r, new)
    BY <1>6 DEF new
  <2> QED
    BY <1>4, <2>1, <2>2, <2>3
<1>7. CASE Save(r, after)
  <2>1. CleanupLeft(after.cleaning) <= CleanupLeft(old.cleaning)
    BY <1>2, <1>5
  <2> QED
    BY <1>2, <1>4, <1>7, <2>1
<1>8. CASE Save(r, Cleaned(after)) /\ old.cleaning # "no"
  <2>1. Cleaned(after) = after
    BY <1>2, <1>8 DEF Cleaned
  <2> QED
    BY <1>7, <1>8, <2>1
<1>9. CASE Save(r, Cleaned(after)) /\ old.cleaning = "no"
  <2> DEFINE new == [after EXCEPT !.cleaning = "waiting"]
  <2>1. Save(r, new)
    BY <1>2, <1>9 DEF Cleaned
  <2>2. /\ new \in Request /\ new.step = after.step /\ new.write = after.write
        /\ new.whole = after.whole /\ new.broken = after.broken
        /\ new.closed = after.closed /\ new.cleaning = "waiting"
    BY <1>2 DEF Request
  <2> HIDE DEF new
  <2>3. CleanupLeft(new.cleaning) <= CleanupLeft(old.cleaning)
    BY <1>9, <2>2 DEF CleanupLeft
  <2> QED
    BY <1>4, <2>1, <2>2, <2>3
<1> QED
  BY <1>3, <1>6, <1>7, <1>8, <1>9

LEMMA RemovalOnward ==
    ASSUME EndsInv, NEW r \in Requests, RemoveUpload(r) \/ RemovalFails(r)
    PROVE  GoesOn(r)
<1> DEFINE old == request[r]
<1>1. old \in Request /\ Onward(old) /\ Sound(old) /\ old.cleaning = "waiting"
  BY DEF EndsInv, IntakeInv, TypeOK, RemoveUpload, RemovalFails
<1>2. old.step \in {"parse", "controller", "failing", "finally"}
  BY <1>1 DEF Sound, HoldsUntilEnd, CleansOnce, TouchedWhenClosed, Request, NewRequest
<1>3. PICK to \in {"gone", "leaked"} :
        request' = [request EXCEPT ![r] =
                      [[Finished(old) EXCEPT !.directory = to] EXCEPT !.released = TRUE]]
  BY DEF RemoveUpload, RemovalFails, Release, Save
<1> DEFINE new == [[Finished(old) EXCEPT !.directory = to] EXCEPT !.released = TRUE]
<1>4. CASE old.step \in {"failing", "finally"}
  <2>1. Finished(old) = Ended(old)
    BY <1>4 DEF Finished
  <2>2. Ended(old) \in Request /\ Ended(old).step = "done"
    BY <1>1, EndedType
  <2>3. new \in Request /\ new.step = "done"
    BY <2>1, <2>2 DEF Request
  <2> HIDE DEF new
  <2>4. Onward(new) /\ StepsLeft(new.step) < StepsLeft(old.step)
    BY <1>4, <2>3 DEF Onward, StepsLeft
  <2>5. request' = [request EXCEPT ![r] = new]
    BY <1>3 DEF new
  <2> QED
    BY <1>1, <2>3, <2>4, <2>5, LaterStep DEF GoesOn
<1>5. CASE old.step \in {"parse", "controller"}
  <2>1. Finished(old) = [old EXCEPT !.cleaning = "done"]
    BY <1>5 DEF Finished
  <2>2. /\ new \in Request /\ new.step = old.step /\ new.write = old.write
        /\ new.whole = old.whole /\ new.broken = old.broken
        /\ new.closed = old.closed /\ new.cleaning = "done"
    BY <1>1, <2>1 DEF Request
  <2> HIDE DEF new
  <2>3. CleanupLeft(new.cleaning) < CleanupLeft(old.cleaning)
    BY <1>1, <2>2 DEF CleanupLeft
  <2>4. Kept(old, new)
    BY <1>1, <2>2, <2>3, LeftValues DEF Kept
  <2>5. request' = [request EXCEPT ![r] = new]
    BY <1>3 DEF new
  <2>6. new.step \in {"parse", "controller", "mkdir"}
    BY <1>5, <2>2
  <2> QED
    BY <2>2, <2>3, <2>4, <2>5, <2>6, EventOnward
<1> QED
  BY <1>2, <1>4, <1>5

LEMMA NextOnward ==
    ASSUME EndsInv, Next
    PROVE  \E r \in Requests : GoesOn(r)
<1>1. ASSUME NEW r \in Requests, NEW u \in Users, Arrive(r, u) PROVE GoesOn(r)
  BY <1>1, ArriveOnward
<1>2. ASSUME NEW r \in Requests,
             StartWrite(r) \/ BodyEnds(r) \/ WriteEnds(r) \/ ParserFails(r)
      PROVE  GoesOn(r)
  BY <1>2, BodyOnward
<1>3. ASSUME NEW r \in Requests, MakeDirectory(r) \/ DirectoryFails(r) PROVE GoesOn(r)
  BY <1>3, MakeDirectoryOnward
<1>4. ASSUME NEW r \in Requests, ParserCallsBack(r) \/ ControllerEnds(r) PROVE GoesOn(r)
  BY <1>4, HandOverOnward
<1>5. ASSUME NEW r \in Requests, Disconnect(r) PROVE GoesOn(r)
  BY <1>5, DisconnectOnward
<1>6. ASSUME NEW r \in Requests, RemoveUpload(r) \/ RemovalFails(r) PROVE GoesOn(r)
  BY <1>6, RemovalOnward
<1> QED
  BY <1>1, <1>2, <1>3, <1>4, <1>5, <1>6 DEF Next, Serve, Client

\* A step of the gateway or of the connection brings its request on.
LEMMA OwnStepOnward ==
    ASSUME EndsInv, NEW r \in Requests, Serve(r) \/ Client(r)
    PROVE  GoesOn(r)
<1>1. CASE MakeDirectory(r)
  BY <1>1, MakeDirectoryOnward
<1>2. CASE BodyEnds(r) \/ WriteEnds(r)
  BY <1>2, BodyOnward
<1>3. CASE ParserCallsBack(r) \/ ControllerEnds(r)
  BY <1>3, HandOverOnward
<1>4. CASE Disconnect(r)
  BY <1>4, DisconnectOnward
<1>5. CASE RemoveUpload(r)
  BY <1>5, RemovalOnward
<1> QED
  BY <1>1, <1>2, <1>3, <1>4, <1>5 DEF Serve, Client

LEMMA EndsInvariant == Spec => []EndsInv
<1>1. Init /\ IntakeInv => EndsInv
  <2> SUFFICES ASSUME Init, IntakeInv, NEW r \in Requests PROVE Onward(request[r])
    BY DEF EndsInv
  <2>1. request[r].step = "new"
    BY DEF Init, NewRequest
  <2> QED
    BY <2>1 DEF Onward
<1>2. EndsInv /\ IntakeInv' /\ [Next]_vars => EndsInv'
  <2> SUFFICES ASSUME EndsInv, IntakeInv', [Next]_vars, NEW s \in Requests
               PROVE  Onward(request'[s])
    BY DEF EndsInv
  <2>1. Onward(request[s]) /\ request \in [Requests -> Request]
    BY DEF EndsInv, IntakeInv, TypeOK
  <2>2. CASE UNCHANGED vars
    BY <2>1, <2>2 DEF vars
  <2>3. CASE Next
    <3>1. PICK r \in Requests : GoesOn(r)
      BY <2>3, NextOnward
    <3> QED
      BY <2>1, <3>1 DEF GoesOn
  <2> QED
    BY <2>2, <2>3
<1> QED
  BY <1>1, <1>2, IntakeInvariant, PTL DEF Spec

\* Who has not ended can go on.
LEMMA EndsCanGoOn == EndsInv => NeverStuck
<1> SUFFICES ASSUME EndsInv, NEW r \in Requests, Unfinished(request[r])
             PROVE  CanGoOn(request[r])
  BY DEF NeverStuck
<1>1. request[r] \in Request /\ Onward(request[r])
  BY DEF EndsInv, IntakeInv, TypeOK
<1>2. request[r].step \in {"mkdir", "parse", "failing", "controller", "finally"}
  BY <1>1 DEF Request, Unfinished
<1> QED
  BY <1>1, <1>2 DEF Onward, CanGoOn

\* An upload that has not ended has a step of the gateway or the end of its
\* connection before it, and one that ended left neither slot nor directory,
\* unless the removal failed: whatever the client, the parser and the file system
\* do.  This is EveryUploadEnds with the guards for ENABLED.
THEOREM UploadsGoOn ==
    Spec => [](/\ NeverStuck
               /\ \A r \in Requests : request[r].step = "done" =>
                     r \notin Holding /\ request[r].directory # "there")
<1>1. EndsInv => \A r \in Requests : request[r].step = "done" =>
                    r \notin Holding /\ request[r].directory # "there"
  BY DEF EndsInv, IntakeInv, Sound, HoldsUntilEnd, CleansOnce, Holding
<1> QED
  BY <1>1, EndsCanGoOn, EndsInvariant, PTL

\* No upload takes infinitely many steps: every step of the middleware brings one
\* request closer to its end, by a rank of at most 55, and leaves the others.
THEOREM UploadsComeToEnd ==
    Spec => [][\E r \in Requests :
                 /\ Rank(request[r]) \in 0 .. 55
                 /\ Rank(request[r])' < Rank(request[r])
                 /\ \A s \in Requests \ {r} : request'[s] = request[s]]_vars
<1>1. EndsInv /\ [Next]_vars =>
        [\E r \in Requests :
           /\ Rank(request[r]) \in 0 .. 55
           /\ Rank(request[r])' < Rank(request[r])
           /\ \A s \in Requests \ {r} : request'[s] = request[s]]_vars
  <2> SUFFICES ASSUME EndsInv, Next
               PROVE  \E r \in Requests :
                        /\ Rank(request[r]) \in 0 .. 55
                        /\ Rank(request[r])' < Rank(request[r])
                        /\ \A s \in Requests \ {r} : request'[s] = request[s]
    OBVIOUS
  <2>1. PICK r \in Requests : GoesOn(r)
    BY NextOnward
  <2>2. PICK new \in Request :
          request' = [request EXCEPT ![r] = new] /\ Rank(new) < Rank(request[r])
    BY <2>1 DEF GoesOn
  <2>3. request \in [Requests -> Request]
    BY DEF EndsInv, IntakeInv, TypeOK
  <2>4. request'[r] = new /\ \A s \in Requests \ {r} : request'[s] = request[s]
    BY <2>2, <2>3
  <2>5. Rank(request[r])' = Rank(new)
    BY <2>4 DEF Rank, EventsLeft
  <2>6. Rank(request[r]) \in 0 .. 55
    BY <2>3, RankValue
  <2> QED
    BY <2>2, <2>4, <2>5, <2>6
<1> QED
  BY <1>1, EndsInvariant, PTL DEF Spec

----------------------------------------------------------------------------
(* Every upload comes to its end *)

\* While an upload can go on, the gateway or the end of its connection goes on with
\* it sooner or later: weak fairness, with CanGoOn for ENABLED.
Attended(r) == <>[]CanGoOn(request[r]) => []<><<Serve(r) \/ Client(r)>>_vars

Over(r) == request[r].step = "done"

\* The upload is under way and has less than n before it.
Below(r, n) == Unfinished(request[r]) /\ Rank(request[r]) < n

\* The next m steps come, wherever the upload is.
Drops(r, n, m) == Below(r, n + m) ~> (Over(r) \/ Below(r, n))

\* From when on the invariant holds.
Settling == []EndsInv /\ [][Next]_vars

\* No step takes the upload back, and one of its own brings it on.
LEMMA StepDrops ==
    ASSUME EndsInv, [Next]_vars, NEW r \in Requests, NEW n \in Nat, Below(r, n)
    PROVE  /\ Below(r, n)' \/ Over(r)'
           /\ ~UNCHANGED vars /\ (Serve(r) \/ Client(r)) =>
                \A m \in Nat : n = m + 1 => Below(r, m)' \/ Over(r)'
<1>1. request \in [Requests -> Request]
  BY DEF EndsInv, IntakeInv, TypeOK
<1>2. CASE UNCHANGED vars
  BY <1>2 DEF vars, Below, Unfinished, Rank, EventsLeft
<1>3. ASSUME NEW s \in Requests, GoesOn(s), s # r
      PROVE  Below(r, n)'
  <2>1. request'[r] = request[r]
    BY <1>1, <1>3 DEF GoesOn
  <2> QED
    BY <2>1 DEF Below, Unfinished, Rank, EventsLeft
<1>4. ASSUME GoesOn(r)
      PROVE  /\ Below(r, n)' \/ Over(r)'
             /\ \A m \in Nat : n = m + 1 => Below(r, m)' \/ Over(r)'
  <2>1. PICK new \in Request : /\ request' = [request EXCEPT ![r] = new]
                               /\ Rank(new) < Rank(request[r])
    BY <1>4 DEF GoesOn
  <2>2. request'[r] = new
    BY <1>1, <2>1
  <2>3. new.step # "new"
    <3>1. /\ StepsLeft(new.step) \in 0 .. 6 /\ StepsLeft(request[r].step) \in 0 .. 6
          /\ EventsLeft(new) \in 0 .. 7 /\ EventsLeft(request[r]) \in 0 .. 7
      BY <1>1, LeftValues, EventsValue
    <3>2. StepsLeft(request[r].step) # 6
      BY <1>1 DEF Below, Unfinished, StepsLeft, Request
    <3>3. StepsLeft(new.step) # 6
      BY <2>1, <3>1, <3>2 DEF Rank
    <3> QED
      BY <3>3 DEF StepsLeft
  <2>4. Rank(new) \in 0 .. 55 /\ Rank(request[r]) \in 0 .. 55 /\ Rank(request[r]) < n
    BY <1>1, RankValue DEF Below
  <2>5. \A k \in Nat : Rank(new) < k => Below(r, k)' \/ Over(r)'
    BY <2>2, <2>3 DEF Below, Over, Unfinished, Rank, EventsLeft
  <2> QED
    BY <2>1, <2>4, <2>5
<1>5. CASE Next
  <2>1. PICK s \in Requests : GoesOn(s)
    BY <1>5, NextOnward
  <2>2. Serve(r) \/ Client(r) => GoesOn(r)
    BY OwnStepOnward
  <2> QED
    BY <1>3, <1>4, <2>1, <2>2
<1> QED
  BY <1>2, <1>5

\* One step comes.
LEMMA DropsOne ==
    ASSUME NEW r \in Requests, NEW n \in Nat
    PROVE  Settling /\ Attended(r) => Drops(r, n, 1)
<1> DEFINE P == Below(r, n + 1)  Q == Over(r) \/ Below(r, n)  C == CanGoOn(request[r])
<1>1. EndsInv /\ [Next]_vars /\ P => P' \/ Q'
  BY StepDrops
<1>2. EndsInv /\ [Next]_vars /\ P /\ <<Serve(r) \/ Client(r)>>_vars => Q'
  BY StepDrops
<1>3. EndsInv /\ P => C
  <2> SUFFICES ASSUME EndsInv, P PROVE C
    OBVIOUS
  <2>1. NeverStuck
    BY EndsCanGoOn
  <2> QED
    BY <2>1 DEF NeverStuck, Below
<1> HIDE DEF P, Q, C
<1>4. Settling /\ Attended(r) => (P ~> Q)
  BY <1>1, <1>2, <1>3, PTL DEF Settling, Attended, C
<1> QED
  BY <1>4, PTL DEF Drops, P, Q

\* And m more after m.
LEMMA DropsTwice ==
    ASSUME NEW r \in Requests, NEW n \in Nat, NEW m \in Nat
    PROVE  Drops(r, n + m, m) /\ Drops(r, n, m) => Drops(r, n, 2 * m)
<1>1. Below(r, (n + m) + m) <=> Below(r, n + 2 * m)
  <2>1. (n + m) + m = n + 2 * m
    OBVIOUS
  <2> QED
    BY <2>1
<1> QED
  BY <1>1, PTL DEF Drops

\* So twice as many come as do from everywhere.
LEMMA DropsDouble ==
    ASSUME NEW r \in Requests, NEW m \in Nat
    PROVE  (\A n \in Nat : Drops(r, n, m)) => \A n \in Nat : Drops(r, n, 2 * m)
<1>1. \A n \in Nat : n + m \in Nat
  OBVIOUS
<1>2. \A n \in Nat : Drops(r, n + m, m) /\ Drops(r, n, m) => Drops(r, n, 2 * m)
  BY DropsTwice
<1> QED
  BY <1>1, <1>2

\* More than a rank can be.
LEMMA DropsAll ==
    ASSUME NEW r \in Requests
    PROVE  Settling /\ Attended(r) => Drops(r, 0, 64)
<1>1. Settling /\ Attended(r) => \A n \in Nat : Drops(r, n, 1)
  BY DropsOne
<1>2. (\A n \in Nat : Drops(r, n, 1)) => \A n \in Nat : Drops(r, n, 2)
  BY DropsDouble, 2 * 1 = 2
<1>3. (\A n \in Nat : Drops(r, n, 2)) => \A n \in Nat : Drops(r, n, 4)
  BY DropsDouble, 2 * 2 = 4
<1>4. (\A n \in Nat : Drops(r, n, 4)) => \A n \in Nat : Drops(r, n, 8)
  BY DropsDouble, 2 * 4 = 8
<1>5. (\A n \in Nat : Drops(r, n, 8)) => \A n \in Nat : Drops(r, n, 16)
  BY DropsDouble, 2 * 8 = 16
<1>6. (\A n \in Nat : Drops(r, n, 16)) => \A n \in Nat : Drops(r, n, 32)
  BY DropsDouble, 2 * 16 = 32
<1>7. (\A n \in Nat : Drops(r, n, 32)) => Drops(r, 0, 64)
  BY DropsDouble, 2 * 32 = 64
<1> QED
  BY <1>1, <1>2, <1>3, <1>4, <1>5, <1>6, <1>7

\* Every upload that began ends, if the gateway and its server's time limit go on
\* with what can go on: whatever the other requests, the client, the parser and the
\* file system do meanwhile.
THEOREM UploadsEnd ==
    Spec /\ (\A r \in Requests : Attended(r)) =>
      \A r \in Requests : Unfinished(request[r]) ~> request[r].step = "done"
<1> SUFFICES ASSUME NEW r \in Requests
             PROVE  Spec /\ (\A s \in Requests : Attended(s)) =>
                      (Unfinished(request[r]) ~> request[r].step = "done")
  OBVIOUS
<1>1. (\A s \in Requests : Attended(s)) => Attended(r)
  OBVIOUS
<1>2. EndsInv => /\ Unfinished(request[r]) => Below(r, 0 + 64)
                 /\ ~Below(r, 0)
  <2> SUFFICES ASSUME EndsInv
               PROVE  /\ Unfinished(request[r]) => Below(r, 0 + 64)
                      /\ ~Below(r, 0)
    OBVIOUS
  <2>1. Rank(request[r]) \in 0 .. 55
    BY RankValue DEF EndsInv, IntakeInv, TypeOK
  <2> QED
    BY <2>1 DEF Below
<1>3. Over(r) <=> request[r].step = "done"
  BY DEF Over
<1>4. Settling /\ Attended(r) => Drops(r, 0, 64)
  BY DropsAll
<1> QED
  BY <1>1, <1>2, <1>3, <1>4, EndsInvariant, PTL DEF Spec, Settling, Drops

=============================================================================
