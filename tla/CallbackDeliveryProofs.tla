----------------------- MODULE CallbackDeliveryProofs -----------------------
(***************************************************************************)
(* Proofs about CallbackDelivery, for any jobs, relays, requests and       *)
(* limits: no refund is forgotten and none comes early, a delivery is      *)
(* ended only by the answer to its own version, and a settled job is       *)
(* refunded in the end.                                                    *)
(*                                                                         *)
(* The first two are not inductive.  Their invariant follows a             *)
(* notification from the relay to the gateway and back: a request is that  *)
(* of the relay which waits for it, and what it has found and done so far  *)
(* stays true as long as the job has the version it was sent for.          *)
(*                                                                         *)
(* For the refund, every request comes to its answer and every relay back  *)
(* to its loop, so a place at the gateway and a relay that can take up     *)
(* what is due come free again and again.  From when on nothing fails, the *)
(* delivery of a job that is owed its refund then has a rank that only     *)
(* falls: the relay that has it sends it, a relay that lost it leaves it   *)
(* to another, and the request it makes comes to the refund.               *)
(***************************************************************************)
EXTENDS CallbackDelivery, TLAPS

----------------------------------------------------------------------------
(* The inductive invariant *)

Active(s) == s \in {"queued", "processing"}

\* The notification of version v was acknowledged, or is of no use any more.
Answered(j, v) == callbackAck[j] >= v \/ version[j] # v

CallSound(h) ==
    call[h] # FreeCall =>
        LET j == call[h].job
            v == call[h].version
        IN  /\ v <= version[j]
            /\ call[h].step = "refund" => ~Active(status[j])
            /\ call[h].step = "store" /\ version[j] = v /\ status[j] \in Job!Settled
                 => ~reserved[j]
            /\ call[h].step = "ack" => Answered(j, v)

RelaySound(r) ==
    relay[r] # IdleRelay =>
        /\ relay[r].version <= version[relay[r].job]
        /\ relay[r].step = "wait" =>
             /\ relay[r].on # NoHandler /\ call[relay[r].on] # FreeCall
             /\ call[relay[r].on].job = relay[r].job
             /\ call[relay[r].on].version = relay[r].version
        /\ relay[r].step = "acked" => Answered(relay[r].job, relay[r].version)

JobSound(j) ==
    /\ callbackAck[j] <= version[j]
    /\ status[j] \in Job!Settled => delivery[j].state # "none"
    /\ status[j] \in Job!Settled /\ callbackAck[j] = version[j] => ~reserved[j]
    /\ Active(status[j]) => reserved[j]
    /\ delivery[j].state = "delivered" => callbackAck[j] = version[j]
    /\ j \in closing => ~Active(status[j])

OutboxInv ==
    /\ TypeOK
    /\ \A h \in Handlers : CallSound(h)
    /\ \A r \in Relays : RelaySound(r)
    /\ \A j \in Jobs : JobSound(j)

----------------------------------------------------------------------------
(* Types *)

LEMMA RelayKinds ==
    ASSUME TypeOK, NEW r \in Relays
    PROVE  /\ relay[r].step = "idle" <=> relay[r] = IdleRelay
           /\ relay[r] # IdleRelay => relay[r] \in BusyRelay
  BY DEF TypeOK, BusyRelay, IdleRelay

LEMMA CallKinds ==
    ASSUME TypeOK, NEW h \in Handlers
    PROVE  /\ call[h].step = "free" <=> call[h] = FreeCall
           /\ call[h] # FreeCall => call[h] \in Call
  BY DEF TypeOK, Call, FreeCall

----------------------------------------------------------------------------
(* The writers of the job *)

\* A version is published, with its notification or, by a deletion, without.
LEMMA PublishStep ==
    ASSUME OutboxInv, NEW j \in Jobs, NEW s \in Job!Statuses, NEW d \in {None, Pending},
           version[j] < MaxVersion,
           Job!Publish(j, s),
           percent' \in [Jobs -> 0 .. LastStage], attempts' \in [Jobs -> 0 .. MaxAttempts],
           delivery' = [delivery EXCEPT ![j] = d],
           d = None => s = "deleting",
           Active(s) => Active(status[j]),
           closing' \subseteq closing \cup {j}, j \in closing' => ~Active(s),
           UNCHANGED <<relay, callbackAck, reserved, call, faults>>
    PROVE  OutboxInv'
<1>1. /\ status' = [status EXCEPT ![j] = s]
      /\ version' = [version EXCEPT ![j] = version[j] + 1]
      /\ \A k \in Jobs : version[k] \in Nat /\ callbackAck[k] \in Nat
  BY DeliveryAssumption DEF Job!Publish, OutboxInv, TypeOK
<1>2. /\ \A k \in Jobs : status'[k] = IF k = j THEN s ELSE status[k]
      /\ \A k \in Jobs : version'[k] = IF k = j THEN version[j] + 1 ELSE version[k]
      /\ \A k \in Jobs : delivery'[k] = IF k = j THEN d ELSE delivery[k]
  BY <1>1 DEF OutboxInv, TypeOK
<1>3. d \in Delivery /\ d.state \in {"none", "pending"} /\ d.token = NoRelay
      /\ (d.state = "none" => s = "deleting")
  <2>1. None \in Delivery /\ None.state = "none" /\ None.token = NoRelay
    BY DeliveryAssumption DEF Delivery, None, Tries
  <2>2. Pending \in Delivery /\ Pending.state = "pending" /\ Pending.token = NoRelay
    BY DeliveryAssumption DEF Delivery, Pending, Tries
  <2> QED
    BY <2>1, <2>2
<1>4. TypeOK'
  <2>1. version' \in [Jobs -> 0 .. MaxVersion]
    BY <1>1, DeliveryAssumption DEF OutboxInv, TypeOK
  <2>2. \A k \in Jobs : delivery'[k].token # NoRelay <=> delivery'[k].state = "sending"
    BY <1>2, <1>3 DEF OutboxInv, TypeOK
  <2> QED
    BY <1>1, <1>3, <2>1, <2>2 DEF OutboxInv, TypeOK
<1>5. ASSUME NEW h \in Handlers
      PROVE  CallSound(h)'
  <2> SUFFICES ASSUME call[h] # FreeCall
               PROVE  CallSound(h)'
    BY DEF CallSound
  <2>1. call[h].job \in Jobs /\ call[h].version \in Nat
    BY CallKinds, DeliveryAssumption DEF OutboxInv, Call
  <2>2. CallSound(h)
    BY DEF OutboxInv
  <2> QED
    BY <1>1, <1>2, <2>1, <2>2 DEF CallSound, Answered
<1>6. ASSUME NEW r \in Relays
      PROVE  RelaySound(r)'
  <2> SUFFICES ASSUME relay[r] # IdleRelay
               PROVE  RelaySound(r)'
    BY DEF RelaySound
  <2>1. relay[r].job \in Jobs /\ relay[r].version \in Nat
    BY RelayKinds, DeliveryAssumption DEF OutboxInv, BusyRelay
  <2>2. RelaySound(r)
    BY DEF OutboxInv
  <2> QED
    BY <1>1, <1>2, <2>1, <2>2 DEF RelaySound, Answered
<1>7. ASSUME NEW k \in Jobs
      PROVE  JobSound(k)'
  <2>1. JobSound(k)
    BY DEF OutboxInv
  <2>2. CASE k = j
    BY <1>1, <1>2, <1>3, <2>1, <2>2 DEF JobSound, Job!Settled
  <2>3. CASE k # j
    BY <1>2, <2>1, <2>3 DEF JobSound
  <2> QED
    BY <2>2, <2>3
<1> QED
  BY <1>4, <1>5, <1>6, <1>7 DEF OutboxInv

LEMMA WriterStep ==
    ASSUME OutboxInv, NEW j \in Jobs,
           WorkerWrites(j) \/ CancelJob(j) \/ DeleteJob(j) \/ ExpireJob(j)
    PROVE  OutboxInv'
<1>1. CASE WorkerWrites(j)
  <2>1. PICK s \in Job!Statuses : /\ Job!Publish(j, s) /\ status[j] \in {"queued", "processing"}
                                  /\ percent' \in [Jobs -> 0 .. LastStage]
                                  /\ attempts' \in [Jobs -> 0 .. MaxAttempts]
    <3>1. CASE Job!Start(j)
      BY <3>1, DeliveryAssumption DEF Job!Start, Job!Statuses, OutboxInv, TypeOK
    <3>2. CASE Job!Advance(j)
      <4>1. PICK p \in percent[j] .. (LastStage - 1) : percent' = [percent EXCEPT ![j] = p]
        BY <3>2 DEF Job!Advance
      <4>2. p \in 0 .. LastStage
        BY <4>1, DeliveryAssumption DEF OutboxInv, TypeOK
      <4> QED
        BY <3>2, <4>1, <4>2 DEF Job!Advance, Job!Statuses, OutboxInv, TypeOK
    <3>3. CASE Job!Complete(j)
      <4>1. "completed" \in Job!Statuses /\ LastStage \in 0 .. LastStage
        BY DeliveryAssumption DEF Job!Statuses, Job!Settled
      <4>2. percent' \in [Jobs -> 0 .. LastStage]
        BY <3>3, <4>1 DEF Job!Complete, OutboxInv, TypeOK
      <4> QED
        BY <3>3, <4>1, <4>2 DEF Job!Complete, OutboxInv, TypeOK
    <3>4. CASE Job!Requeue(j)
      BY <3>4 DEF Job!Requeue, Job!Statuses, OutboxInv, TypeOK
    <3>5. CASE Job!Fail(j)
      BY <3>5 DEF Job!Fail, Job!Statuses, Job!Settled, OutboxInv, TypeOK
    <3> QED
      BY <1>1, <3>1, <3>2, <3>3, <3>4, <3>5 DEF WorkerWrites
  <2>2. /\ version[j] < MaxVersion /\ delivery' = [delivery EXCEPT ![j] = Pending]
        /\ UNCHANGED <<relay, callbackAck, reserved, call, faults, closing>>
    BY <1>1 DEF WorkerWrites, Announce, gatewayVars
  <2>3. Active(status[j]) /\ j \notin closing'
    BY <2>1, <2>2 DEF Active, OutboxInv, JobSound
  <2>4. Pending # None
    BY DEF Pending, None
  <2> QED
    BY <2>1, <2>2, <2>3, <2>4, PublishStep
<1>2. CASE CancelJob(j)
  <2>1. /\ Job!Publish(j, "cancelled") /\ version[j] < MaxVersion
        /\ delivery' = [delivery EXCEPT ![j] = Pending] /\ closing' = closing \cup {j}
        /\ UNCHANGED <<percent, attempts, relay, callbackAck, reserved, call, faults>>
    BY <1>2 DEF CancelJob, Job!Cancel, Announce
  <2>2. "cancelled" \in Job!Statuses /\ ~Active("cancelled") /\ Pending # None
        /\ percent \in [Jobs -> 0 .. LastStage] /\ attempts \in [Jobs -> 0 .. MaxAttempts]
    BY DEF Job!Statuses, Job!Settled, Active, Pending, None, OutboxInv, TypeOK
  <2> QED
    BY <2>1, <2>2, PublishStep
<1>3. CASE DeleteJob(j) \/ ExpireJob(j)
  <2>1. /\ Job!Publish(j, "deleting") /\ version[j] < MaxVersion
        /\ delivery' = [delivery EXCEPT ![j] = None] /\ closing' \subseteq closing \cup {j}
        /\ UNCHANGED <<percent, attempts, relay, callbackAck, reserved, call, faults>>
    BY <1>3 DEF DeleteJob, ExpireJob, Withdraw, Job!Delete, gatewayVars
  <2>2. "deleting" \in Job!Statuses /\ ~Active("deleting")
        /\ percent \in [Jobs -> 0 .. LastStage] /\ attempts \in [Jobs -> 0 .. MaxAttempts]
    BY DEF Job!Statuses, Active, OutboxInv, TypeOK
  <2> QED
    BY <2>1, <2>2, PublishStep
<1> QED
  BY <1>1, <1>2, <1>3

\* A request that ends a job, and its later release of the reservation.
LEMMA ClosingStep ==
    ASSUME OutboxInv, NEW j \in Jobs, RepeatRequest(j) \/ FinishJob(j)
    PROVE  OutboxInv'
<1>1. /\ UNCHANGED <<status, percent, attempts, version, delivery, relay, callbackAck, call,
                     faults>>
      /\ closing' \subseteq closing \cup {j} /\ ~Active(status[j])
      /\ reserved' \in {reserved, [reserved EXCEPT ![j] = FALSE]}
  <2>1. CASE RepeatRequest(j)
    BY <2>1 DEF RepeatRequest, Active, jobVars, outboxVars
  <2>2. CASE FinishJob(j)
    BY <2>2 DEF FinishJob, OutboxInv, JobSound, jobVars, outboxVars
  <2> QED
    BY <2>1, <2>2
<1>2. /\ reserved' \in [Jobs -> BOOLEAN]
      /\ \A k \in Jobs : /\ reserved'[k] => reserved[k]
                         /\ k # j => reserved'[k] = reserved[k]
  BY <1>1 DEF OutboxInv, TypeOK
<1>3. TypeOK'
  BY <1>1, <1>2 DEF OutboxInv, TypeOK
<1>4. \A h \in Handlers : CallSound(h)'
  <2> SUFFICES ASSUME NEW h \in Handlers, call[h] # FreeCall
               PROVE  CallSound(h)'
    BY <1>1 DEF CallSound
  <2>1. call[h].job \in Jobs /\ CallSound(h)
    BY CallKinds DEF OutboxInv, Call
  <2> QED
    BY <1>1, <1>2, <2>1 DEF CallSound, Answered
<1>5. \A r \in Relays : RelaySound(r)'
  BY <1>1 DEF OutboxInv, RelaySound, Answered
<1>6. \A k \in Jobs : JobSound(k)'
  BY <1>1, <1>2 DEF OutboxInv, JobSound
<1> QED
  BY <1>3, <1>4, <1>5, <1>6 DEF OutboxInv

----------------------------------------------------------------------------
(* Dates and the operator *)

\* Deliveries that wait or are blocked wait once more.
LEMMA DeliveryStep ==
    ASSUME OutboxInv, RetryBlocked \/ \E j \in Jobs : Elapse(j) \/ LeaseEnds(j)
    PROVE  OutboxInv'
<1>1. UNCHANGED <<status, percent, attempts, version, relay, callbackAck, reserved, call, closing>>
  BY DEF RetryBlocked, Elapse, LeaseEnds, Release, jobVars, gatewayVars
<1>2. faults' \in 0 .. MaxFaults
  BY DeliveryAssumption
     DEF RetryBlocked, Elapse, LeaseEnds, Release, Fault, OutboxInv, TypeOK
<1> DEFINE Waits(j) ==
               \/ /\ delivery'[j].state = delivery[j].state
                  /\ delivery'[j].token = delivery[j].token
               \/ /\ delivery[j].state = "blocked"
                  /\ delivery'[j].state = "pending" /\ delivery'[j].token = NoRelay
<1>3. delivery' \in [Jobs -> Delivery] /\ \A j \in Jobs : Waits(j)
  <2>1. CASE RetryBlocked
    <3>1. Pending \in Delivery /\ Pending.state = "pending" /\ Pending.token = NoRelay
      BY DeliveryAssumption DEF Delivery, Pending, Tries
    <3> QED
      BY <2>1, <3>1 DEF RetryBlocked, OutboxInv, TypeOK
  <2>2. ASSUME NEW j \in Jobs, Release(j)
        PROVE  delivery' \in [Jobs -> Delivery] /\ \A k \in Jobs : Waits(k)
    <3> DEFINE d == [delivery[j] EXCEPT !.held = FALSE]
    <3>1. delivery' = [delivery EXCEPT ![j] = d]
      BY <2>2 DEF Release
    <3>2. d \in Delivery /\ d.state = delivery[j].state /\ d.token = delivery[j].token
      BY ZenonT(60) DEF OutboxInv, TypeOK, Delivery
    <3> HIDE DEF d
    <3> QED
      BY <3>1, <3>2 DEF OutboxInv, TypeOK
  <2> QED
    BY <2>1, <2>2 DEF Elapse, LeaseEnds
<1>4. TypeOK'
  BY <1>1, <1>2, <1>3 DEF OutboxInv, TypeOK
<1>5. (\A h \in Handlers : CallSound(h)') /\ (\A r \in Relays : RelaySound(r)')
  BY <1>1 DEF OutboxInv, CallSound, RelaySound, Answered
<1>6. \A j \in Jobs : JobSound(j)'
  BY <1>1, <1>3 DEF OutboxInv, JobSound
<1> QED
  BY <1>4, <1>5, <1>6 DEF OutboxInv

----------------------------------------------------------------------------
(* The relay *)

\* A relay goes on without waiting for a request.
LEMMA RelayStepSound ==
    ASSUME OutboxInv, NEW r \in Relays, NEW q \in BusyRelay \cup {IdleRelay},
           relay' = [relay EXCEPT ![r] = q],
           q.step # "wait",
           q # IdleRelay => /\ q.version <= version[q.job]
                            /\ q.step = "acked" => Answered(q.job, q.version),
           delivery' \in [Jobs -> Delivery],
           \A j \in Jobs : delivery'[j].token # NoRelay <=> delivery'[j].state = "sending",
           \A j \in Jobs : /\ delivery'[j].state = "none" => delivery[j].state = "none"
                           /\ delivery'[j].state = "delivered" => callbackAck[j] = version[j],
           UNCHANGED <<jobVars, gatewayVars>>, faults' \in 0 .. MaxFaults
    PROVE  OutboxInv'
<1>1. UNCHANGED <<status, percent, attempts, version, callbackAck, reserved, call, closing>>
  BY DEF jobVars, gatewayVars
<1>2. TypeOK'
  BY <1>1 DEF OutboxInv, TypeOK
<1>3. \A h \in Handlers : CallSound(h)'
  BY <1>1 DEF OutboxInv, CallSound, Answered
<1>4. \A s \in Relays : RelaySound(s)'
  <2> SUFFICES ASSUME NEW s \in Relays PROVE RelaySound(s)'
    OBVIOUS
  <2>1. relay'[s] = IF s = r THEN q ELSE relay[s]
    BY DEF OutboxInv, TypeOK
  <2>2. RelaySound(s)
    BY DEF OutboxInv
  <2> QED
    BY <1>1, <2>1, <2>2 DEF RelaySound, Answered
<1>5. \A j \in Jobs : JobSound(j)'
  BY <1>1 DEF OutboxInv, JobSound
<1> QED
  BY <1>2, <1>3, <1>4, <1>5 DEF OutboxInv

LEMMA TakeUpStep ==
    ASSUME OutboxInv, NEW r \in Relays, NEW j \in Jobs, TakeUp(r, j)
    PROVE  OutboxInv'
<1> DEFINE tries == IF delivery[j].attempts > MaxDeliveries
                    THEN delivery[j].attempts ELSE delivery[j].attempts + 1
<1>0. tries \in Tries
  <2>1. delivery[j].attempts \in Tries
    BY DEF OutboxInv, TypeOK, Delivery
  <2> QED
    BY <2>1, DeliveryAssumption DEF Tries
<1>1. /\ delivery[j].state \in {"pending", "sending"}
      /\ delivery' = [delivery EXCEPT ![j] =
              [state |-> "sending", attempts |-> tries, held |-> TRUE, token |-> r]]
      /\ relay' = [relay EXCEPT ![r] =
              [step |-> IF tries <= MaxDeliveries THEN "send" ELSE "retry",
               job |-> j, version |-> version[j], tries |-> tries, on |-> NoHandler]]
  BY DEF TakeUp, Due
<1> HIDE DEF tries
<1> DEFINE d == [state |-> "sending", attempts |-> tries, held |-> TRUE, token |-> r]
           q == [step |-> IF tries <= MaxDeliveries THEN "send" ELSE "retry",
                 job |-> j, version |-> version[j], tries |-> tries, on |-> NoHandler]
<1>2. d \in Delivery /\ d.state = "sending" /\ d.token = r
  BY <1>0 DEF Delivery
<1>3. q \in BusyRelay /\ q.step \in {"send", "retry"} /\ q.version = version[q.job]
  BY <1>0 DEF BusyRelay, OutboxInv, TypeOK
<1>4. r # NoRelay /\ version[j] \in Nat
  BY DeliveryAssumption DEF OutboxInv, TypeOK
<1>5. relay' = [relay EXCEPT ![r] = q] /\ delivery' = [delivery EXCEPT ![j] = d]
  BY <1>1
<1>6. q.version <= version[q.job]
  BY <1>3, <1>4
<1> HIDE DEF d, q
<1>7. \A k \in Jobs : delivery'[k] = IF k = j THEN d ELSE delivery[k]
  BY <1>5 DEF OutboxInv, TypeOK
<1>8. /\ delivery' \in [Jobs -> Delivery]
      /\ \A k \in Jobs : delivery'[k].token # NoRelay <=> delivery'[k].state = "sending"
      /\ \A k \in Jobs : /\ delivery'[k].state = "none" => delivery[k].state = "none"
                         /\ delivery'[k].state = "delivered" => callbackAck[k] = version[k]
  BY <1>2, <1>4, <1>5, <1>7 DEF OutboxInv, TypeOK, JobSound
<1>9. UNCHANGED <<jobVars, gatewayVars>> /\ faults' \in 0 .. MaxFaults
  BY DEF TakeUp, OutboxInv, TypeOK
<1> QED
  BY <1>3, <1>5, <1>6, <1>8, <1>9, RelayStepSound

\* The relay gives up a call, or its loop starts over.
LEMMA RelayFaultStep ==
    ASSUME OutboxInv, NEW r \in Relays, CallFails(r) \/ RelayCrash(r)
    PROVE  OutboxInv'
<1>1. /\ UNCHANGED <<jobVars, delivery, gatewayVars>> /\ faults' \in 0 .. MaxFaults
      /\ relay[r] # IdleRelay
  BY DeliveryAssumption, RelayKinds DEF CallFails, RelayCrash, Fault, OutboxInv, TypeOK
<1>2. /\ delivery' \in [Jobs -> Delivery]
      /\ \A k \in Jobs : delivery'[k].token # NoRelay <=> delivery'[k].state = "sending"
      /\ \A k \in Jobs : /\ delivery'[k].state = "none" => delivery[k].state = "none"
                         /\ delivery'[k].state = "delivered" => callbackAck[k] = version[k]
  BY <1>1 DEF OutboxInv, TypeOK, JobSound
<1>3. CASE CallFails(r)
  <2>1. PICK outcome \in {"retry", "fatal"} :
          relay' = [relay EXCEPT ![r].step = outcome, ![r].on = NoHandler]
    BY <1>3 DEF CallFails
  <2> DEFINE q == [relay[r] EXCEPT !.step = outcome, !.on = NoHandler]
  <2>2. relay[r] \in BusyRelay /\ relay[r].version <= version[relay[r].job]
    BY <1>1, RelayKinds DEF OutboxInv, RelaySound
  <2>3. q \in BusyRelay /\ q.step = outcome /\ q.version = relay[r].version /\ q.job = relay[r].job
    BY <2>2 DEF BusyRelay
  <2>4. relay' = [relay EXCEPT ![r] = q]
    BY <2>1
  <2> HIDE DEF q
  <2> QED
    BY <1>1, <1>2, <2>2, <2>3, <2>4, RelayStepSound
<1>4. CASE RelayCrash(r)
  <2>1. relay' = [relay EXCEPT ![r] = IdleRelay] /\ IdleRelay.step # "wait"
    BY <1>4 DEF RelayCrash, IdleRelay
  <2> QED
    BY <1>1, <1>2, <2>1, RelayStepSound
<1> QED
  BY <1>3, <1>4

\* A delivery is ended by the relay that has it, for the version it sent.
LEMMA SettleStep ==
    ASSUME OutboxInv, NEW r \in Relays, Settle(r)
    PROVE  OutboxInv'
<1> DEFINE j == relay[r].job
           blocked == relay[r].step = "fatal" \/ relay[r].tries >= MaxDeliveries
           end == IF relay[r].step = "acked" THEN "delivered"
                  ELSE IF blocked THEN "blocked" ELSE "pending"
           d == Ended(delivery[j], end)
<1>1. /\ relay[r].step \in {"acked", "retry", "fatal"}
      /\ relay' = [relay EXCEPT ![r] = IdleRelay] /\ IdleRelay.step # "wait"
      /\ UNCHANGED <<jobVars, gatewayVars>> /\ faults' \in 0 .. MaxFaults
      /\ IF OwnsDelivery(r) THEN delivery' = [delivery EXCEPT ![j] = d] ELSE UNCHANGED delivery
  BY DEF Settle, IdleRelay, OutboxInv, TypeOK
<1>2. relay[r] # IdleRelay /\ relay[r] \in BusyRelay /\ j \in Jobs /\ delivery[j] \in Delivery
  BY <1>1, RelayKinds DEF OutboxInv, TypeOK, BusyRelay
<1>3. d \in Delivery /\ d.state = end /\ d.token = NoRelay /\ end \notin {"none", "sending"}
  BY <1>2 DEF Delivery, Ended
<1>4. end = "delivered" /\ OwnsDelivery(r) => callbackAck[j] = version[j]
  <2>1. end = "delivered" => Answered(j, relay[r].version)
    BY <1>2 DEF OutboxInv, RelaySound
  <2>2. \A k \in Jobs : callbackAck[k] <= version[k] /\ callbackAck[k] \in Nat /\ version[k] \in Nat
    BY DeliveryAssumption DEF OutboxInv, JobSound, TypeOK
  <2> QED
    BY <1>2, <2>1, <2>2 DEF OwnsDelivery, Answered
<1> HIDE DEF d, end
<1>5. /\ delivery' \in [Jobs -> Delivery]
      /\ \A k \in Jobs : delivery'[k] = IF k = j /\ OwnsDelivery(r) THEN d ELSE delivery[k]
  BY <1>1, <1>2, <1>3 DEF OutboxInv, TypeOK
<1>6. /\ \A k \in Jobs : delivery'[k].token # NoRelay <=> delivery'[k].state = "sending"
      /\ \A k \in Jobs : /\ delivery'[k].state = "none" => delivery[k].state = "none"
                         /\ delivery'[k].state = "delivered" => callbackAck[k] = version[k]
  BY <1>3, <1>4, <1>5 DEF OutboxInv, TypeOK, JobSound
<1> QED
  BY <1>1, <1>5, <1>6, RelayStepSound

----------------------------------------------------------------------------
(* The gateway *)

\* A relay sends its notification: the request is of its job and its version.
LEMMA SendStep ==
    ASSUME OutboxInv, NEW r \in Relays, Send(r)
    PROVE  OutboxInv'
<1>1. PICK h \in Handlers :
        /\ call[h] = FreeCall
        /\ call' = [call EXCEPT ![h] =
                [step |-> "read", job |-> relay[r].job, version |-> relay[r].version]]
        /\ relay' = [relay EXCEPT ![r].step = "wait", ![r].on = h]
  BY DEF Send
<1>2. /\ UNCHANGED <<status, percent, attempts, version, delivery, callbackAck, reserved,
                     closing, faults>>
      /\ relay[r].step = "send"
  BY DEF Send, jobVars
<1> DEFINE c == [step |-> "read", job |-> relay[r].job, version |-> relay[r].version]
           q == [relay[r] EXCEPT !.step = "wait", !.on = h]
<1>3. relay[r] # IdleRelay /\ relay[r] \in BusyRelay /\ relay[r].version <= version[relay[r].job]
  BY <1>2, RelayKinds DEF OutboxInv, RelaySound
<1>4. c \in Call /\ c.step = "read" /\ c.job = relay[r].job /\ c.version = relay[r].version
  BY <1>3 DEF Call, BusyRelay
<1>5. q \in BusyRelay /\ q.step = "wait" /\ q.on = h
      /\ q.job = relay[r].job /\ q.version = relay[r].version
  BY <1>3 DEF BusyRelay
<1>6. call' = [call EXCEPT ![h] = c] /\ relay' = [relay EXCEPT ![r] = q]
  BY <1>1
<1> HIDE DEF c, q
<1>7. /\ \A s \in Relays : relay'[s] = IF s = r THEN q ELSE relay[s]
      /\ \A g \in Handlers : call'[g] = IF g = h THEN c ELSE call[g]
  BY <1>6 DEF OutboxInv, TypeOK
<1>8. TypeOK'
  BY <1>2, <1>4, <1>5, <1>6 DEF OutboxInv, TypeOK
<1>9. \A g \in Handlers : CallSound(g)'
  <2>1. ASSUME NEW g \in Handlers, g # h PROVE CallSound(g)'
    BY <1>2, <1>7, <2>1 DEF OutboxInv, CallSound, Answered
  <2>2. CallSound(h)'
    BY <1>2, <1>3, <1>4, <1>7 DEF CallSound
  <2> QED
    BY <2>1, <2>2
<1>10. \A s \in Relays : RelaySound(s)'
  <2>1. ASSUME NEW s \in Relays, s # r PROVE RelaySound(s)'
    <3> SUFFICES ASSUME relay[s] # IdleRelay PROVE RelaySound(s)'
      BY <1>7, <2>1 DEF RelaySound
    <3>1. RelaySound(s) /\ relay[s] \in BusyRelay
      BY RelayKinds DEF OutboxInv
    <3>2. relay[s].step = "wait" => relay[s].on \in Handlers /\ relay[s].on # h
      BY <1>1, <3>1 DEF RelaySound, BusyRelay
    <3> QED
      BY <1>2, <1>7, <2>1, <3>1, <3>2 DEF RelaySound, Answered
  <2>2. RelaySound(r)'
    <3>1. h # NoHandler /\ c # FreeCall
      BY <1>4, DeliveryAssumption DEF FreeCall
    <3> QED
      BY <1>2, <1>3, <1>4, <1>5, <1>7, <3>1 DEF RelaySound
  <2> QED
    BY <2>1, <2>2
<1>11. \A j \in Jobs : JobSound(j)'
  BY <1>2 DEF OutboxInv, JobSound
<1> QED
  BY <1>8, <1>9, <1>10, <1>11 DEF OutboxInv

\* A request goes on: it may release the reservation of a job that is not active
\* or record the version it acknowledges.
LEMMA ContinueStep ==
    ASSUME OutboxInv, NEW h \in Handlers, call[h] # FreeCall,
           NEW step \in {"refund", "store", "ack", "error"}, Continue(h, step),
           callbackAck' \in [Jobs -> 0 .. MaxVersion],
           \A j \in Jobs :
             \/ callbackAck'[j] = callbackAck[j]
             \/ /\ callbackAck[j] < callbackAck'[j] /\ callbackAck'[j] <= version[j]
                /\ status[j] \in Job!Settled => ~reserved[j],
           reserved' \in [Jobs -> BOOLEAN],
           \A j \in Jobs : /\ reserved'[j] => reserved[j]
                           /\ reserved[j] /\ ~reserved'[j] => ~Active(status[j]),
           step = "refund" => ~Active(status[call[h].job]),
           step = "store" /\ version[call[h].job] = call[h].version
             /\ status[call[h].job] \in Job!Settled => ~reserved'[call[h].job],
           step = "ack" => \/ callbackAck'[call[h].job] >= call[h].version
                           \/ version[call[h].job] # call[h].version,
           UNCHANGED <<jobVars, outboxVars, closing>>, faults' \in 0 .. MaxFaults
    PROVE  OutboxInv'
<1> DEFINE c == [call[h] EXCEPT !.step = step]
<1>1. UNCHANGED <<status, percent, attempts, version, delivery, relay, closing>>
  BY DEF jobVars, outboxVars
<1>2. call[h] \in Call /\ call' = [call EXCEPT ![h] = c] /\ CallSound(h)
  BY CallKinds DEF OutboxInv, Continue
<1>3. c \in Call /\ c # FreeCall /\ c.step = step /\ c.job = call[h].job
      /\ c.version = call[h].version
  <2>1. c \in Call /\ c.step = step /\ c.job = call[h].job /\ c.version = call[h].version
    BY <1>2 DEF Call
  <2> HIDE DEF c
  <2> QED
    BY <2>1 DEF FreeCall
<1> HIDE DEF c
<1>4. \A g \in Handlers : call'[g] = IF g = h THEN c ELSE call[g]
  BY <1>2 DEF OutboxInv, TypeOK
<1>5. \A j \in Jobs : callbackAck[j] \in Nat /\ callbackAck'[j] \in Nat /\ version[j] \in Nat
                      /\ callbackAck'[j] >= callbackAck[j]
  BY DeliveryAssumption DEF OutboxInv, TypeOK
<1>6. \A j \in Jobs, v \in Nat : Answered(j, v) => Answered(j, v)'
  BY <1>1, <1>5 DEF Answered
<1>7. TypeOK'
  BY <1>1, <1>2, <1>3 DEF OutboxInv, TypeOK
<1>8. \A g \in Handlers : CallSound(g)'
  <2>1. ASSUME NEW g \in Handlers, g # h PROVE CallSound(g)'
    <3> SUFFICES ASSUME call[g] # FreeCall PROVE CallSound(g)'
      BY <1>4, <2>1 DEF CallSound
    <3>1. CallSound(g) /\ call[g].job \in Jobs /\ call[g].version \in Nat
      BY CallKinds, DeliveryAssumption DEF OutboxInv, Call
    <3> QED
      BY <1>1, <1>4, <1>6, <2>1, <3>1 DEF CallSound
  <2>2. CallSound(h)'
    <3>1. call[h].version <= version[call[h].job]
      BY <1>2 DEF CallSound
    <3> QED
      BY <1>1, <1>3, <1>4, <3>1 DEF CallSound, Answered
  <2> QED
    BY <2>1, <2>2
<1>9. \A r \in Relays : RelaySound(r)'
  <2> SUFFICES ASSUME NEW r \in Relays, relay[r] # IdleRelay PROVE RelaySound(r)'
    BY <1>1 DEF RelaySound
  <2>1. RelaySound(r) /\ relay[r].job \in Jobs /\ relay[r].version \in Nat
        /\ relay[r].on \in Handlers \cup {NoHandler}
    BY RelayKinds, DeliveryAssumption DEF OutboxInv, BusyRelay
  <2>2. relay[r].step = "wait" =>
          /\ relay[r].on \in Handlers /\ call'[relay[r].on] # FreeCall
          /\ call'[relay[r].on].job = relay[r].job
          /\ call'[relay[r].on].version = relay[r].version
    BY <1>3, <1>4, <2>1 DEF RelaySound
  <2> QED
    BY <1>1, <1>6, <2>1, <2>2 DEF RelaySound
<1>10. \A j \in Jobs : JobSound(j)'
  <2> SUFFICES ASSUME NEW j \in Jobs PROVE JobSound(j)'
    OBVIOUS
  <2>1. JobSound(j)
    BY DEF OutboxInv
  <2> QED
    BY <1>1, <1>5, <2>1 DEF JobSound
<1> QED
  BY <1>7, <1>8, <1>9, <1>10 DEF OutboxInv

LEMMA HandlerStepSound ==
    ASSUME OutboxInv, NEW h \in Handlers,
           ReadJob(h) \/ Refund(h) \/ StoreAck(h) \/ HandlerFails(h)
    PROVE  OutboxInv'
<1> DEFINE j == call[h].job
           v == call[h].version
<1>1. /\ UNCHANGED <<jobVars, outboxVars, closing>> /\ faults' \in 0 .. MaxFaults
      /\ call[h] # FreeCall
  BY CallKinds, DeliveryAssumption
     DEF ReadJob, Refund, StoreAck, HandlerFails, Fault, OutboxInv, TypeOK
<1>2. /\ CallSound(h) /\ call[h] \in Call /\ j \in Jobs /\ v \in Nat
      /\ callbackAck \in [Jobs -> 0 .. MaxVersion] /\ reserved \in [Jobs -> BOOLEAN]
  BY <1>1, CallKinds, DeliveryAssumption DEF OutboxInv, TypeOK, Call
<1>3. \A k \in Jobs : callbackAck[k] \in Nat /\ version[k] \in Nat
  BY DeliveryAssumption DEF OutboxInv, TypeOK
<1>4. UNCHANGED <<status, version>>
  BY <1>1 DEF jobVars
<1>5. CASE ReadJob(h)
  <2>1. UNCHANGED <<callbackAck, reserved>>
    BY <1>5 DEF ReadJob
  <2>2. CASE version[j] # v \/ Acknowledged(callbackAck[j], v)
    <3>1. Continue(h, "ack")
      BY <1>5, <2>2 DEF ReadJob
    <3>2. callbackAck'[j] >= v \/ version[j] # v
      BY <2>1, <2>2 DEF Acknowledged
    <3> QED
      BY <1>1, <1>2, <2>1, <3>1, <3>2, ContinueStep
  <2>3. CASE ~(version[j] # v \/ Acknowledged(callbackAck[j], v))
    <3>1. IF Releases(status[j]) THEN Continue(h, "refund") ELSE Continue(h, "store")
      BY <1>5, <2>3 DEF ReadJob
    <3>2. Releases(status[j]) => ~Active(status[j])
      BY DEF Releases, Active, Job!Settled
    <3>3. CASE Releases(status[j])
      BY <1>1, <1>2, <2>1, <3>1, <3>2, <3>3, ContinueStep
    <3>4. CASE ~Releases(status[j])
      BY <1>1, <1>2, <2>1, <3>1, <3>4, ContinueStep DEF Releases
    <3> QED
      BY <3>3, <3>4
  <2> QED
    BY <2>2, <2>3
<1>6. CASE Refund(h)
  <2>1. /\ call[h].step = "refund" /\ UNCHANGED callbackAck /\ Continue(h, "store")
        /\ reserved' = [reserved EXCEPT ![j] = FALSE]
    BY <1>6 DEF Refund
  <2>2. ~Active(status[j])
    BY <1>1, <1>2, <2>1 DEF CallSound
  <2>3. /\ reserved' \in [Jobs -> BOOLEAN] /\ ~reserved'[j]
        /\ \A k \in Jobs : /\ reserved'[k] => reserved[k]
                           /\ reserved[k] /\ ~reserved'[k] => ~Active(status[k])
    BY <1>2, <2>1, <2>2
  <2> QED
    BY <1>1, <1>2, <2>1, <2>3, ContinueStep
<1>7. CASE StoreAck(h)
  <2>1. /\ call[h].step = "store" /\ UNCHANGED reserved /\ Continue(h, "ack")
        /\ callbackAck' = IF Stores(j, v) THEN [callbackAck EXCEPT ![j] = v] ELSE callbackAck
    BY <1>7 DEF StoreAck
  <2>2. Stores(j, v) /\ status[j] \in Job!Settled => ~reserved[j]
    BY <1>1, <1>2, <2>1 DEF CallSound, Stores
  <2>3. v \in 0 .. MaxVersion
    BY <1>2 DEF Call
  <2>4. /\ callbackAck' \in [Jobs -> 0 .. MaxVersion]
        /\ \A k \in Jobs :
             \/ callbackAck'[k] = callbackAck[k]
             \/ /\ callbackAck[k] < callbackAck'[k] /\ callbackAck'[k] <= version[k]
                /\ status[k] \in Job!Settled => ~reserved[k]
    BY <1>2, <1>3, <2>1, <2>2, <2>3 DEF Stores
  <2>5. callbackAck'[j] >= v \/ version[j] # v
    BY <1>2, <1>3, <2>1 DEF Stores
  <2> QED
    BY <1>1, <1>2, <2>1, <2>4, <2>5, ContinueStep
<1>8. CASE HandlerFails(h)
  <2>1. UNCHANGED <<callbackAck, reserved>> /\ Continue(h, "error")
    BY <1>8 DEF HandlerFails
  <2> QED
    BY <1>1, <1>2, <2>1, ContinueStep
<1> QED
  BY <1>5, <1>6, <1>7, <1>8

\* The answer is that to the notification which the relay sent.
LEMMA AnswerStep ==
    ASSUME OutboxInv, NEW h \in Handlers, Answer(h)
    PROVE  OutboxInv'
<1> DEFINE waits(r) == relay[r].step = "wait" /\ relay[r].on = h
           next == IF call[h].step = "ack" THEN "acked" ELSE "retry"
           q(r) == [relay[r] EXCEPT !.step = next, !.on = NoHandler]
<1>1. /\ call[h] # FreeCall
      /\ UNCHANGED <<status, percent, attempts, version, delivery, callbackAck, reserved,
                     closing, faults>>
      /\ relay' = [r \in Relays |-> IF waits(r) THEN q(r) ELSE relay[r]]
      /\ call' = [call EXCEPT ![h] = FreeCall]
  BY CallKinds DEF Answer, jobVars, OutboxInv
<1>2. \A g \in Handlers : call'[g] = IF g = h THEN FreeCall ELSE call[g]
  BY <1>1 DEF OutboxInv, TypeOK
<1>3. ASSUME NEW r \in Relays, waits(r)
      PROVE  /\ relay[r] # IdleRelay
             /\ q(r) \in BusyRelay /\ q(r).step = next
             /\ q(r).job = relay[r].job /\ q(r).version = relay[r].version
  BY <1>3, RelayKinds DEF BusyRelay, OutboxInv
<1> HIDE DEF q
<1>4. \A r \in Relays : relay'[r] = IF waits(r) THEN q(r) ELSE relay[r]
  BY <1>1
<1>5. TypeOK'
  <2>1. relay' \in [Relays -> BusyRelay \cup {IdleRelay}]
    BY <1>1, <1>3 DEF OutboxInv, TypeOK
  <2> QED
    BY <1>1, <2>1 DEF OutboxInv, TypeOK
<1>6. \A g \in Handlers : CallSound(g)'
  BY <1>1, <1>2 DEF OutboxInv, CallSound, Answered
<1>7. \A r \in Relays : RelaySound(r)'
  <2> SUFFICES ASSUME NEW r \in Relays PROVE RelaySound(r)'
    OBVIOUS
  <2>1. RelaySound(r)
    BY DEF OutboxInv
  <2>2. CASE waits(r)
    <3>1. relay'[r] = q(r) /\ q(r).step = next /\ q(r).job = relay[r].job
          /\ q(r).version = relay[r].version /\ relay[r] # IdleRelay
      BY <1>3, <1>4, <2>2
    <3>2. call[h].step = "ack" => Answered(relay[r].job, relay[r].version)
      BY <1>1, <2>1, <2>2, <3>1 DEF RelaySound, OutboxInv, CallSound
    <3> QED
      BY <1>1, <2>1, <3>1, <3>2 DEF RelaySound, Answered
  <2>3. CASE ~waits(r)
    <3>1. relay'[r] = relay[r]
      BY <1>4, <2>3
    <3>2. relay[r] # IdleRelay /\ relay[r].step = "wait" =>
            relay[r].on \in Handlers /\ relay[r].on # h
      BY <2>1, <2>3, RelayKinds DEF OutboxInv, RelaySound, BusyRelay
    <3> QED
      BY <1>1, <1>2, <2>1, <3>1, <3>2 DEF RelaySound, Answered
  <2> QED
    BY <2>2, <2>3
<1>8. \A j \in Jobs : JobSound(j)'
  BY <1>1 DEF OutboxInv, JobSound
<1> QED
  BY <1>5, <1>6, <1>7, <1>8 DEF OutboxInv

LEMMA GatewayCrashStep ==
    ASSUME OutboxInv, GatewayCrash
    PROVE  OutboxInv'
<1> DEFINE q(r) == [relay[r] EXCEPT !.step = "retry", !.on = NoHandler]
<1>1. /\ UNCHANGED <<status, percent, attempts, version, delivery, callbackAck, reserved>>
      /\ relay' = [r \in Relays |-> IF relay[r].step = "wait" THEN q(r) ELSE relay[r]]
      /\ call' = [h \in Handlers |-> FreeCall] /\ closing' = {}
      /\ faults' \in 0 .. MaxFaults
  <2>1. faults' \in 0 .. MaxFaults
    <3>1. Fault
      BY DEF GatewayCrash
    <3> QED
      BY <3>1, DeliveryAssumption DEF Fault, OutboxInv, TypeOK
  <2> QED
    BY <2>1 DEF GatewayCrash, jobVars
<1>2. ASSUME NEW r \in Relays, relay[r].step = "wait"
      PROVE  /\ relay[r] # IdleRelay
             /\ q(r) \in BusyRelay /\ q(r).step = "retry"
             /\ q(r).job = relay[r].job /\ q(r).version = relay[r].version
  BY <1>2, RelayKinds DEF BusyRelay, OutboxInv
<1> HIDE DEF q
<1>3. \A r \in Relays : relay'[r] = IF relay[r].step = "wait" THEN q(r) ELSE relay[r]
  BY <1>1
<1>4. TypeOK'
  <2>1. relay' \in [Relays -> BusyRelay \cup {IdleRelay}]
    BY <1>1, <1>2 DEF OutboxInv, TypeOK
  <2> QED
    BY <1>1, <2>1 DEF OutboxInv, TypeOK
<1>5. \A h \in Handlers : CallSound(h)'
  BY <1>1 DEF CallSound
<1>6. \A r \in Relays : RelaySound(r)'
  BY <1>1, <1>2, <1>3 DEF OutboxInv, RelaySound, Answered
<1>7. \A j \in Jobs : JobSound(j)'
  BY <1>1 DEF OutboxInv, JobSound
<1> QED
  BY <1>4, <1>5, <1>6, <1>7 DEF OutboxInv

----------------------------------------------------------------------------
(* The theorems *)

LEMMA OutboxInit == Init => OutboxInv
<1> SUFFICES ASSUME Init PROVE OutboxInv
  OBVIOUS
<1>1. None \in Delivery /\ None.state = "none" /\ None.token = NoRelay
  BY DeliveryAssumption DEF None, Delivery, Tries
<1>2. TypeOK
  BY <1>1, DeliveryAssumption DEF Init, Job!Init, Job!Statuses, TypeOK
<1>3. /\ \A j \in Jobs : /\ status[j] = "queued" /\ delivery[j] = None /\ reserved[j]
                         /\ callbackAck[j] = 0 /\ version[j] = 0
      /\ closing = {}
  BY DEF Init, Job!Init
<1>4. \A j \in Jobs : JobSound(j)
  BY <1>1, <1>3 DEF JobSound, Job!Settled
<1>5. (\A h \in Handlers : CallSound(h)) /\ (\A r \in Relays : RelaySound(r))
  BY DEF Init, CallSound, RelaySound
<1> QED
  BY <1>2, <1>4, <1>5 DEF OutboxInv

LEMMA OutboxStep ==
    ASSUME OutboxInv, [Next]_vars
    PROVE  OutboxInv'
<1>1. ASSUME NEW j \in Jobs, JobStep(j) PROVE OutboxInv'
  BY <1>1, WriterStep, ClosingStep DEF JobStep
<1>2. ASSUME NEW r \in Relays, RelayStep(r) PROVE OutboxInv'
  BY <1>2, TakeUpStep, SendStep, SettleStep DEF RelayStep
<1>3. ASSUME NEW h \in Handlers, HandlerStep(h) PROVE OutboxInv'
  BY <1>3, HandlerStepSound, AnswerStep DEF HandlerStep
<1>4. CASE RetryBlocked \/ \E j \in Jobs : Elapse(j) \/ LeaseEnds(j)
  BY <1>4, DeliveryStep
<1>5. CASE FaultStep
  BY <1>5, RelayFaultStep, HandlerStepSound, DeliveryStep, GatewayCrashStep DEF FaultStep
<1>6. CASE UNCHANGED vars
  BY <1>6
     DEF vars, jobVars, outboxVars, gatewayVars, OutboxInv, TypeOK, CallSound, RelaySound,
         JobSound, Answered
<1> QED
  BY <1>1, <1>2, <1>3, <1>4, <1>5, <1>6 DEF Next

\* Notifications, requests and acknowledgements stay consistent with the job,
\* whatever is lost, repeated or late.
THEOREM OutboxInvariant == Spec => []OutboxInv
<1> QED
  BY OutboxInit, OutboxStep, PTL DEF Spec

\* No refund of a settled job is forgotten, and none is made while it is active.
THEOREM RefundsOwed == Spec => []RefundOwed
<1>1. OutboxInv => RefundOwed
  <2> SUFFICES ASSUME OutboxInv, NEW j \in Jobs
               PROVE  /\ status[j] \in Job!Settled /\ reserved[j]
                           => delivery[j].state \in {"pending", "sending", "blocked"}
                      /\ status[j] \in {"queued", "processing"} => reserved[j]
    BY DEF RefundOwed
  <2>1. JobSound(j) /\ delivery[j] \in Delivery
    BY DEF OutboxInv, TypeOK
  <2> QED
    BY <2>1 DEF JobSound, Active, Delivery
<1> QED
  BY <1>1, OutboxInvariant, PTL

\* Only the answer to a notification of the current version marks it delivered.
THEOREM DeliveriesAcked == Spec => []DeliveredIsAcked
<1>1. OutboxInv => DeliveredIsAcked
  BY DEF OutboxInv, JobSound, DeliveredIsAcked
<1> QED
  BY <1>1, OutboxInvariant, PTL

----------------------------------------------------------------------------
(* A step of a relay and of a request *)

\* How far a relay is from its loop, and a request from its answer.
RelayRank(s) ==
    CASE s = "idle" -> 0 [] s = "send" -> 3 [] s = "wait" -> 2
      [] s \in {"acked", "retry", "fatal"} -> 1
CallRank(s) ==
    CASE s = "free" -> 0 [] s = "read" -> 4 [] s = "refund" -> 3 [] s = "store" -> 2
      [] s \in {"ack", "error"} -> 1

\* What one step makes of a relay, and of a request.
RelayRests(r) == relay'[r] = relay[r]
RelayNears(r) ==
    /\ relay[r] # IdleRelay
    /\ RelayRank(relay'[r].step) < RelayRank(relay[r].step)
    /\ relay'[r] # IdleRelay =>
         /\ relay'[r].job = relay[r].job
         /\ relay'[r].version = relay[r].version
         /\ relay'[r].tries = relay[r].tries
CallRests(h) == call'[h] = call[h]
CallNears(h) == CallRank(call'[h].step) < CallRank(call[h].step)

\* The ranks of a relay.
LEMMA RankValues ==
    /\ RelayRank("idle") = 0 /\ RelayRank("send") = 3 /\ RelayRank("wait") = 2
    /\ RelayRank("acked") = 1 /\ RelayRank("retry") = 1 /\ RelayRank("fatal") = 1
  BY DEF RelayRank

\* The ranks are numbers, and zero only of a relay in its loop and of no request.
LEMMA RelayRanks ==
    ASSUME NEW q \in BusyRelay \cup {IdleRelay}
    PROVE  /\ RelayRank(q.step) \in 0 .. 3
           /\ q.step = "idle" <=> q = IdleRelay
           /\ RelayRank(q.step) = 0 <=> q = IdleRelay
  BY DEF BusyRelay, IdleRelay, RelayRank

\* And of a request: zero only when there is none.
LEMMA CallRanks ==
    ASSUME NEW c \in Call \cup {FreeCall}
    PROVE  /\ CallRank(c.step) \in 0 .. 4
           /\ c.step = "free" <=> c = FreeCall
           /\ CallRank(c.step) = 0 <=> c = FreeCall
  BY DEF Call, FreeCall, CallRank

\* A step of the relay writes at most this relay.
LEMMA RelayEdit ==
    ASSUME TypeOK, NEW r \in Relays, relay[r] # IdleRelay,
           NEW q \in BusyRelay \cup {IdleRelay}, relay' = [relay EXCEPT ![r] = q],
           RelayRank(q.step) < RelayRank(relay[r].step),
           q # IdleRelay => /\ q.job = relay[r].job /\ q.version = relay[r].version
                            /\ q.tries = relay[r].tries
    PROVE  RelayNears(r) /\ \A s \in Relays \ {r} : RelayRests(s)
  BY DEF TypeOK, RelayNears, RelayRests

\* What the steps of a relay after it took up a delivery make of the relays.
LEMMA RelayOwnStep ==
    ASSUME TypeOK, NEW r \in Relays,
           Send(r) \/ Settle(r) \/ CallFails(r) \/ RelayCrash(r)
    PROVE  RelayNears(r) /\ \A s \in Relays \ {r} : RelayRests(s)
<1>0. relay[r] # IdleRelay => relay[r] \in BusyRelay
  BY RelayKinds
<1>1. CASE Send(r)
  <2>1. PICK h \in Handlers : relay' = [relay EXCEPT ![r].step = "wait", ![r].on = h]
    BY <1>1 DEF Send
  <2> DEFINE q == [relay[r] EXCEPT !.step = "wait", !.on = h]
  <2>2. relay[r].step = "send" /\ relay[r] # IdleRelay
    BY <1>1 DEF Send, IdleRelay
  <2>3. relay' = [relay EXCEPT ![r] = q]
    BY <2>1
  <2>4. q \in BusyRelay /\ q.step = "wait" /\ q.job = relay[r].job
        /\ q.version = relay[r].version /\ q.tries = relay[r].tries
    BY <1>0, <2>2 DEF BusyRelay
  <2> HIDE DEF q
  <2> QED
    <3>1. RelayRank(q.step) < RelayRank(relay[r].step)
      BY <2>2, <2>4, RankValues
    <3> QED
      BY <2>2, <2>3, <2>4, <3>1, RelayEdit
<1>2. CASE Settle(r) \/ RelayCrash(r)
  <2>1. relay' = [relay EXCEPT ![r] = IdleRelay] /\ relay[r] # IdleRelay
    BY <1>2 DEF Settle, RelayCrash, IdleRelay
  <2>2. RelayRank(IdleRelay.step) = 0 /\ RelayRank(relay[r].step) \in 1 .. 3
    <3>1. IdleRelay.step = "idle"
      BY DEF IdleRelay
    <3> QED
      BY <2>1, <3>1, RelayRanks, RankValues DEF TypeOK
  <2> QED
    <3>1. RelayRank(IdleRelay.step) < RelayRank(relay[r].step)
      BY <2>2
    <3>2. IdleRelay \in BusyRelay \cup {IdleRelay}
      OBVIOUS
    <3> QED
      BY <2>1, <3>1, <3>2, RelayEdit
<1>3. CASE CallFails(r)
  <2>1. PICK o \in {"retry", "fatal"} :
          relay' = [relay EXCEPT ![r].step = o, ![r].on = NoHandler]
    BY <1>3 DEF CallFails
  <2> DEFINE q == [relay[r] EXCEPT !.step = o, !.on = NoHandler]
  <2>2. relay[r].step \in {"send", "wait"} /\ relay[r] # IdleRelay
    BY <1>3 DEF CallFails, IdleRelay
  <2>3. relay' = [relay EXCEPT ![r] = q]
    BY <2>1
  <2>4. q \in BusyRelay /\ q.step = o /\ q.job = relay[r].job
        /\ q.version = relay[r].version /\ q.tries = relay[r].tries
    BY <1>0, <2>2 DEF BusyRelay
  <2> HIDE DEF q
  <2> QED
    <3>1. RelayRank(q.step) < RelayRank(relay[r].step)
      BY <2>2, <2>4, RankValues
    <3> QED
      BY <2>2, <2>3, <2>4, <3>1, RelayEdit
<1> QED
  BY <1>1, <1>2, <1>3

\* What a request or a crash of the gateway makes of a relay.
LEMMA RelayAnswered ==
    ASSUME TypeOK, NEW r \in Relays, GatewayCrash \/ \E h \in Handlers : Answer(h)
    PROVE  \/ RelayRests(r)
           \/ relay[r].step = "wait" /\ RelayNears(r) /\ relay'[r].step \in {"acked", "retry"}
<1>1. \/ relay'[r] = relay[r]
      \/ /\ relay[r].step = "wait"
         /\ \E s \in {"acked", "retry"} :
              relay'[r] = [relay[r] EXCEPT !.step = s, !.on = NoHandler]
  BY DEF GatewayCrash, Answer, TypeOK
<1> SUFFICES ASSUME relay[r].step = "wait", NEW s \in {"acked", "retry"},
                    relay'[r] = [relay[r] EXCEPT !.step = s, !.on = NoHandler]
             PROVE  RelayNears(r) /\ relay'[r].step \in {"acked", "retry"}
  BY <1>1 DEF RelayRests
<1>2. relay[r] \in BusyRelay /\ relay[r] # IdleRelay
  BY RelayKinds DEF IdleRelay
<1>3. /\ relay'[r].step = s /\ relay'[r].job = relay[r].job
      /\ relay'[r].version = relay[r].version /\ relay'[r].tries = relay[r].tries
  BY <1>2 DEF BusyRelay
<1>4. RelayRank(s) = 1 /\ RelayRank(relay[r].step) = 2
  BY RankValues
<1>5. RelayRank(relay'[r].step) < RelayRank(relay[r].step)
  BY <1>3, <1>4
<1> QED
  BY <1>2, <1>3, <1>5 DEF RelayNears

\* A step that is of no relay, no answer and no crash leaves the relays.
LEMMA RelaysLeft ==
    ASSUME [Next]_vars
    PROVE  \/ UNCHANGED relay
           \/ \E r \in Relays : \/ Send(r) \/ Settle(r) \/ CallFails(r) \/ RelayCrash(r)
                                \/ \E j \in Jobs : TakeUp(r, j)
           \/ GatewayCrash \/ \E h \in Handlers : Answer(h)
<1>1. ASSUME NEW j \in Jobs, JobStep(j) \/ Elapse(j) \/ LeaseEnds(j)
      PROVE  UNCHANGED relay
  BY <1>1 DEF JobStep, WorkerWrites, CancelJob, DeleteJob, ExpireJob, RepeatRequest, FinishJob,
     Elapse, LeaseEnds, Release, outboxVars
<1>2. ASSUME NEW h \in Handlers, ReadJob(h) \/ Refund(h) \/ StoreAck(h) \/ HandlerFails(h)
      PROVE  UNCHANGED relay
  BY <1>2 DEF ReadJob, Refund, StoreAck, HandlerFails, outboxVars
<1>3. RetryBlocked \/ UNCHANGED vars => UNCHANGED relay
  BY DEF RetryBlocked, vars, outboxVars
<1> QED
  BY <1>1, <1>2, <1>3 DEF Next, RelayStep, HandlerStep, FaultStep

\* So a relay rests, comes nearer to its loop, or takes a delivery up from it.
LEMMA RelayNext ==
    ASSUME TypeOK, [Next]_vars, NEW r \in Relays
    PROVE  \/ RelayRests(r) \/ RelayNears(r)
           \/ relay[r] = IdleRelay /\ \E j \in Jobs : TakeUp(r, j)
<1>1. ASSUME NEW s \in Relays, NEW j \in Jobs, TakeUp(s, j)
      PROVE  RelayRests(r) \/ (relay[r] = IdleRelay /\ \E i \in Jobs : TakeUp(r, i))
  BY <1>1 DEF TakeUp, RelayRests, TypeOK
<1>2. ASSUME NEW s \in Relays, Send(s) \/ Settle(s) \/ CallFails(s) \/ RelayCrash(s)
      PROVE  RelayRests(r) \/ RelayNears(r)
  BY <1>2, RelayOwnStep
<1> QED
  BY <1>1, <1>2, RelaysLeft, RelayAnswered DEF RelayRests

\* One step of a request.
LEMMA CallContinues ==
    ASSUME TypeOK, NEW h \in Handlers, NEW s \in {"refund", "store", "ack", "error"},
           Continue(h, s), call[h].step \in {"read", "refund", "store"},
           CallRank(s) < CallRank(call[h].step)
    PROVE  /\ CallNears(h) /\ call'[h].step = s
           /\ \A g \in Handlers \ {h} : CallRests(g)
<1> DEFINE c == [call[h] EXCEPT !.step = s]
<1>1. call' = [call EXCEPT ![h] = c]
  BY DEF Continue
<1>2. call[h] \in Call
  BY CallKinds
<1>3. c.step = s
  BY <1>2 DEF Call
<1> HIDE DEF c
<1> QED
  BY <1>1, <1>3 DEF CallNears, CallRests, TypeOK

\* A step of a request brings it nearer to its answer, and no other.
LEMMA CallOwnStep ==
    ASSUME TypeOK, NEW h \in Handlers, HandlerStep(h) \/ HandlerFails(h)
    PROVE  CallNears(h) /\ \A g \in Handlers \ {h} : CallRests(g)
<1>1. CASE ReadJob(h)
  <2>1. /\ Continue(h, "ack") \/ Continue(h, "refund") \/ Continue(h, "store")
        /\ call[h].step = "read"
    BY <1>1 DEF ReadJob
  <2> QED
    BY <2>1, CallContinues DEF CallRank
<1>2. CASE Refund(h)
  BY <1>2, CallContinues DEF Refund, CallRank
<1>3. CASE StoreAck(h)
  BY <1>3, CallContinues DEF StoreAck, CallRank
<1>4. CASE HandlerFails(h)
  BY <1>4, CallContinues DEF HandlerFails, CallRank
<1>5. CASE Answer(h)
  <2>1. call' = [call EXCEPT ![h] = FreeCall] /\ CallRank(call[h].step) = 1
    BY <1>5 DEF Answer, CallRank
  <2>2. CallRank(FreeCall.step) = 0
    BY DEF CallRank, FreeCall
  <2> QED
    BY <2>1, <2>2 DEF CallNears, CallRests, TypeOK
<1> QED
  BY <1>1, <1>2, <1>3, <1>4, <1>5 DEF HandlerStep

\* A request rests or goes on, or begins.
LEMMA CallNext ==
    ASSUME TypeOK, [Next]_vars, NEW h \in Handlers
    PROVE  \/ CallRests(h) \/ CallNears(h)
           \/ call[h] = FreeCall
<1>1. ASSUME NEW j \in Jobs, JobStep(j) \/ Elapse(j) \/ LeaseEnds(j)
      PROVE  UNCHANGED call
  BY <1>1 DEF JobStep, WorkerWrites, CancelJob, DeleteJob, ExpireJob, RepeatRequest, FinishJob,
     Elapse, LeaseEnds, Release, gatewayVars
<1>2. ASSUME NEW r \in Relays, Settle(r) \/ CallFails(r) \/ RelayCrash(r)
                \/ \E j \in Jobs : TakeUp(r, j)
      PROVE  UNCHANGED call
  BY <1>2 DEF Settle, CallFails, RelayCrash, TakeUp, gatewayVars
<1>3. RetryBlocked \/ UNCHANGED vars => UNCHANGED call
  BY DEF RetryBlocked, vars, gatewayVars
<1>4. ASSUME NEW r \in Relays, Send(r)
      PROVE  CallRests(h) \/ call[h] = FreeCall
  BY <1>4 DEF Send, CallRests, TypeOK
<1>5. ASSUME NEW g \in Handlers, HandlerStep(g) \/ HandlerFails(g)
      PROVE  CallRests(h) \/ CallNears(h)
  BY <1>5, CallOwnStep
<1>6. CASE GatewayCrash
  <2>1. call'[h] = FreeCall /\ CallRank(FreeCall.step) = 0
    BY <1>6 DEF GatewayCrash, CallRank, FreeCall
  <2> QED
    BY <2>1, CallRanks DEF CallNears, TypeOK
<1> QED
  BY <1>1, <1>2, <1>3, <1>4, <1>5, <1>6 DEF Next, RelayStep, FaultStep, CallRests

----------------------------------------------------------------------------
(* Requests are answered, and relays come back to their loop *)

\* A relay that still has the delivery of j as its own sends the current version.
TokenSound(j) ==
    LET r == delivery[j].token
    IN  r # NoRelay /\ relay[r] # IdleRelay /\ relay[r].job = j => relay[r].version = version[j]

RefundInv == OutboxInv /\ \A j \in Jobs : TokenSound(j)

\* The token of a delivery changes when it is taken up, or is taken away; a version
\* that is published takes it away.
LEMMA TokenNext ==
    ASSUME TypeOK, [Next]_vars, NEW j \in Jobs
    PROVE  \/ \E r \in Relays : TakeUp(r, j)
           \/ delivery'[j].token = NoRelay
           \/ delivery'[j].token = delivery[j].token /\ version'[j] = version[j]
<1> DEFINE Gone == delivery'[j].token = NoRelay
           Kept == delivery'[j].token = delivery[j].token /\ version'[j] = version[j]
<1>1. None.token = NoRelay /\ Pending.token = NoRelay
  BY DEF None, Pending
<1>2. ASSUME NEW i \in Jobs, WorkerWrites(i) \/ CancelJob(i) \/ DeleteJob(i) \/ ExpireJob(i)
      PROVE  Gone \/ Kept
  <2>1. /\ delivery' = [delivery EXCEPT ![i] = Pending] \/ delivery' = [delivery EXCEPT ![i] = None]
        /\ version' = [version EXCEPT ![i] = @ + 1]
    BY <1>2 DEF WorkerWrites, CancelJob, DeleteJob, ExpireJob, Announce, Withdraw, Job!Start,
       Job!Advance, Job!Complete, Job!Requeue, Job!Fail, Job!Cancel, Job!Delete, Job!Publish
  <2> QED
    BY <1>1, <2>1 DEF TypeOK
<1>3. ASSUME NEW i \in Jobs, RepeatRequest(i) \/ FinishJob(i)
      PROVE  Kept
  BY <1>3 DEF RepeatRequest, FinishJob, jobVars, outboxVars
<1>4. ASSUME NEW i \in Jobs, Elapse(i) \/ LeaseEnds(i)
      PROVE  Kept
  <2>1. /\ delivery' = [delivery EXCEPT ![i] = [delivery[i] EXCEPT !.held = FALSE]]
        /\ UNCHANGED version
    BY <1>4 DEF Elapse, LeaseEnds, Release, jobVars
  <2>2. [delivery[i] EXCEPT !.held = FALSE].token = delivery[i].token
    BY DEF TypeOK, Delivery
  <2> QED
    BY <2>1, <2>2 DEF TypeOK
<1>5. ASSUME NEW r \in Relays, NEW i \in Jobs, TakeUp(r, i), i # j
      PROVE  Kept
  BY <1>5 DEF TakeUp, jobVars, TypeOK
<1>6. ASSUME NEW r \in Relays, Send(r) \/ CallFails(r) \/ RelayCrash(r)
      PROVE  Kept
  BY <1>6 DEF Send, CallFails, RelayCrash, jobVars
<1>7. ASSUME NEW r \in Relays, Settle(r)
      PROVE  Gone \/ Kept
  <2>1. relay[r].job \in Jobs /\ UNCHANGED version
    BY <1>7, RelayKinds DEF Settle, BusyRelay, jobVars, IdleRelay
  <2>2. ASSUME NEW s PROVE Ended(delivery[relay[r].job], s).token = NoRelay
    BY <2>1 DEF Ended, TypeOK, Delivery
  <2> DEFINE d(s) == Ended(delivery[relay[r].job], s)
  <2>3. UNCHANGED delivery \/ \E s : delivery' = [delivery EXCEPT ![relay[r].job] = d(s)]
    BY <1>7 DEF Settle
  <2>4. \A s : d(s).token = NoRelay
    BY <2>2
  <2> HIDE DEF d
  <2> QED
    BY <2>1, <2>3, <2>4 DEF TypeOK
<1>8. ASSUME NEW h \in Handlers, HandlerStep(h) \/ HandlerFails(h)
      PROVE  Kept
  BY <1>8 DEF HandlerStep, ReadJob, Refund, StoreAck, Answer, HandlerFails, jobVars, outboxVars
<1>9. RetryBlocked => Gone \/ Kept
  BY <1>1 DEF RetryBlocked, jobVars
<1>10. GatewayCrash \/ UNCHANGED vars => Kept
  BY DEF GatewayCrash, jobVars, vars, outboxVars
<1> HIDE DEF Gone, Kept
<1>11. (\E r \in Relays : TakeUp(r, j)) \/ Gone \/ Kept
  BY <1>2, <1>3, <1>4, <1>5, <1>6, <1>7, <1>8, <1>9, <1>10
     DEF Next, JobStep, RelayStep, FaultStep
<1> QED
  BY <1>11 DEF Gone, Kept

\* It still does after a step.
LEMMA TokenSoundNext ==
    ASSUME TypeOK, [Next]_vars, NEW j \in Jobs, TokenSound(j)
    PROVE  TokenSound(j)'
<1>1. ASSUME NEW r \in Relays, TakeUp(r, j)
      PROVE  TokenSound(j)'
  BY <1>1 DEF TakeUp, TypeOK, jobVars, TokenSound
<1>2. CASE delivery'[j].token = NoRelay
  BY <1>2 DEF TokenSound
<1>3. CASE delivery'[j].token = delivery[j].token /\ version'[j] = version[j]
  <2> DEFINE r == delivery[j].token
  <2> SUFFICES ASSUME r # NoRelay, relay'[r] # IdleRelay, relay'[r].job = j
               PROVE  relay'[r].version = version[j]
    BY <1>3 DEF TokenSound
  <2>1. r \in Relays
    BY DEF TypeOK, Delivery
  <2>2. CASE RelayRests(r) \/ RelayNears(r)
    <3>1. relay[r] # IdleRelay
      BY <2>2 DEF RelayRests, RelayNears
    <3> QED
      BY <2>2, <3>1 DEF RelayRests, RelayNears, TokenSound
  <2>3. CASE \E i \in Jobs : TakeUp(r, i)
    <3>1. PICK i \in Jobs : TakeUp(r, i)
      BY <2>3
    <3>2. relay'[r].job = i /\ relay'[r].version = version[i]
      BY <2>1, <3>1 DEF TakeUp, TypeOK
    <3> QED
      BY <3>2
  <2> QED
    BY <2>1, <2>2, <2>3, RelayNext
<1> QED
  BY <1>1, <1>2, <1>3, TokenNext

\* So it always does.
LEMMA RefundInvariant == Spec => []RefundInv
<1>1. Init => \A j \in Jobs : TokenSound(j)
  BY DEF Init, TokenSound, None
<1>2. OutboxInv /\ (\A j \in Jobs : TokenSound(j)) /\ [Next]_vars
        => (\A j \in Jobs : TokenSound(j))'
  BY TokenSoundNext DEF OutboxInv
<1> DEFINE T == \A j \in Jobs : TokenSound(j)
<1>3. RefundInv <=> OutboxInv /\ T
  BY DEF RefundInv
<1> HIDE DEF T
<1> QED
  BY <1>1, <1>2, <1>3, OutboxInvariant, PTL DEF Spec, T

\* What makes the steps of a request and of a relay possible, and that what is due
\* is done: a relay that waits for a free request, again and again, gets one.
SettleDue(r) == relay[r].step \in {"acked", "retry", "fatal"}
SendDue(r) == relay[r].step = "send" /\ \E h \in Handlers : call[h] = FreeCall

Served(h) == <>[](call[h] # FreeCall) => []<><<HandlerStep(h)>>_vars
Attended(r) ==
    /\ <>[]SettleDue(r) => []<><<Settle(r)>>_vars
    /\ []<>SendDue(r) => []<><<Send(r)>>_vars

CallsServed == \A h \in Handlers : Served(h)
RelaysAttended == \A r \in Relays : Attended(r)

\* The invariant holds, and gateway and relays go on, from now on.
Steady == []RefundInv /\ [][Next]_vars /\ []CallsServed /\ []RelaysAttended

\* A request is less than n steps from its answer, a relay from its loop.
CallNear(h, n) == CallRank(call[h].step) < n
RelayNear(r, n) == RelayRank(relay[r].step) < n

CallComes(h, n, m) == [](CallNear(h, n) => <>CallNear(h, m))
RelayComes(r, n, m) == [](RelayNear(r, n) => <>RelayNear(r, m))
GetsFree(h) == []<>(call[h] = FreeCall)
GetsIdle(r) == []<>(relay[r] = IdleRelay)

\* A request that is served goes on.
LEMMA CallComesNearer ==
    ASSUME NEW h \in Handlers, NEW n \in Nat, NEW m \in Nat \ {0}, n = m + 1
    PROVE  Steady => CallComes(h, n, m)
<1> DEFINE P == CallNear(h, n)  Q == CallNear(h, m)  B == call[h] # FreeCall
<1>1. RefundInv /\ [Next]_vars /\ P /\ ~Q => P' \/ Q'
  <2> SUFFICES ASSUME RefundInv, [Next]_vars, P, ~Q PROVE P' \/ Q'
    OBVIOUS
  <2>1. CallRank(call[h].step) \in 0 .. 4 /\ call[h] # FreeCall
    BY CallRanks DEF RefundInv, OutboxInv, TypeOK, CallNear
  <2>2. TypeOK'
    BY OutboxStep DEF RefundInv, OutboxInv
  <2>3. CallRank(call'[h].step) \in 0 .. 4
    BY <2>2, CallRanks DEF TypeOK
  <2>4. CallRests(h) \/ CallNears(h)
    BY <2>1, CallNext DEF RefundInv, OutboxInv
  <2> QED
    BY <2>1, <2>3, <2>4 DEF CallRests, CallNears, CallNear
<1>2. RefundInv /\ [Next]_vars /\ P /\ ~Q /\ <<HandlerStep(h)>>_vars => Q'
  <2> SUFFICES ASSUME RefundInv, [Next]_vars, P, ~Q, HandlerStep(h) PROVE Q'
    OBVIOUS
  <2>1. CallRank(call[h].step) \in 0 .. 4
    BY CallRanks DEF RefundInv, OutboxInv, TypeOK
  <2>2. TypeOK'
    BY OutboxStep DEF RefundInv, OutboxInv
  <2>3. CallRank(call'[h].step) \in 0 .. 4
    BY <2>2, CallRanks DEF TypeOK
  <2>4. CallNears(h)
    BY CallOwnStep DEF RefundInv, OutboxInv
  <2> QED
    BY <2>1, <2>3, <2>4 DEF CallNears, CallNear
<1>3. RefundInv /\ P /\ ~Q => B
  BY CallRanks DEF RefundInv, OutboxInv, TypeOK, CallNear
<1>4. Steady => Served(h)
  <2>1. Steady => CallsServed
    BY PTL DEF Steady
  <2> QED
    BY <2>1 DEF CallsServed
<1>5. Served(h) => (<>[]B => []<><<HandlerStep(h)>>_vars)
  BY DEF Served
<1> HIDE DEF P, Q, B
<1>6. Steady => [](P => <>Q)
  BY <1>1, <1>2, <1>3, <1>4, <1>5, PTL DEF Steady
<1> QED
  BY <1>6, PTL DEF P, Q, CallComes

\* So every request is answered, and its place free again.
LEMMA FreeAgain ==
    ASSUME NEW h \in Handlers
    PROVE  Steady => GetsFree(h)
<1>1. Steady => CallComes(h, 5, 4)
  BY CallComesNearer
<1>2. Steady => CallComes(h, 4, 3)
  BY CallComesNearer
<1>3. Steady => CallComes(h, 3, 2)
  BY CallComesNearer
<1>4. Steady => CallComes(h, 2, 1)
  BY CallComesNearer
<1>5. RefundInv => CallNear(h, 5) /\ (CallNear(h, 1) => call[h] = FreeCall)
  BY CallRanks DEF RefundInv, OutboxInv, TypeOK, CallNear
<1> QED
  BY <1>1, <1>2, <1>3, <1>4, <1>5, PTL DEF Steady, CallComes, GetsFree

\* A relay that is not at its loop stays where it is or comes nearer; a step of its
\* own, or the end of the request it waits for, brings it nearer.
LEMMA RelayMoves ==
    ASSUME RefundInv, [Next]_vars, NEW r \in Relays, NEW n \in Nat, NEW m \in Nat \ {0}, n = m + 1,
           RelayNear(r, n), ~RelayNear(r, m)
    PROVE  /\ relay[r] # IdleRelay
           /\ \/ RelayNear(r, m)'
              \/ relay'[r] = relay[r] /\ RelayNear(r, n)' /\ ~(Send(r) \/ Settle(r))
<1>1. relay[r] \in BusyRelay \cup {IdleRelay} /\ TypeOK
  BY DEF RefundInv, OutboxInv, TypeOK
<1>2. TypeOK'
  BY OutboxStep DEF RefundInv, OutboxInv
<1>3. RelayRank(relay[r].step) \in 0 .. 3 /\ relay[r] # IdleRelay
  BY <1>1, RelayRanks DEF RelayNear
<1>4. RelayRank(relay'[r].step) \in 0 .. 3
  BY <1>2, RelayRanks DEF TypeOK
<1>5. RelayNears(r) => RelayNear(r, m)'
  BY <1>3, <1>4 DEF RelayNears, RelayNear
<1>6. Send(r) \/ Settle(r) => RelayNears(r)
  BY <1>1, RelayOwnStep
<1> QED
  BY <1>1, <1>3, <1>5, <1>6, RelayNext DEF RelayRests, RelayNear

\* A relay that has a notification to send sends it.
LEMMA SendComes ==
    ASSUME NEW r \in Relays, NEW v \in Handlers
    PROVE  Steady => RelayComes(r, 4, 3)
<1> DEFINE P == RelayNear(r, 4)  Q == RelayNear(r, 3)  D == SendDue(r)  F == call[v] = FreeCall
           S == relay[r].step = "send"
<1>1. RefundInv /\ P /\ ~Q => S
  <2>1. TypeOK /\ P /\ ~Q => relay[r].step = "send"
    BY RelayKinds DEF RelayNear, BusyRelay, IdleRelay, RelayRank
  <2> QED
    BY <2>1 DEF RefundInv, OutboxInv
<1>2. RefundInv /\ [Next]_vars /\ P /\ ~Q => P' \/ Q'
  BY RelayMoves, 4 = 3 + 1
<1>3. RefundInv /\ [Next]_vars /\ P /\ ~Q /\ <<Send(r)>>_vars => Q'
  BY RelayMoves, 4 = 3 + 1
<1>4. S /\ F => D
  BY DEF SendDue
<1>5. Steady => Attended(r)
  <2>1. Steady => RelaysAttended
    BY PTL DEF Steady
  <2> QED
    BY <2>1 DEF RelaysAttended
<1>6. Attended(r) => ([]<>D => []<><<Send(r)>>_vars)
  BY DEF Attended
<1>7. Steady => GetsFree(v)
  BY FreeAgain
<1>8. GetsFree(v) => []<>F
  BY DEF GetsFree
<1> HIDE DEF P, Q, D, F, S
<1>9. Steady => [](P => <>Q)
  BY <1>1, <1>2, <1>3, <1>4, <1>5, <1>6, <1>7, <1>8, PTL DEF Steady
<1> QED
  BY <1>9, PTL DEF P, Q, RelayComes

WaitEnds(r) == <>RelayNear(r, 2)

\* A relay that waits gets its answer, if it does not give up before.
LEMMA AnswerComes ==
    ASSUME NEW r \in Relays
    PROVE  Steady => RelayComes(r, 3, 2)
<1> DEFINE P == RelayNear(r, 3)  Q == RelayNear(r, 2)
<1>1. ASSUME NEW h \in Handlers
      PROVE  Steady => (P /\ ~Q /\ relay[r].on = h => WaitEnds(r))
  <2> DEFINE W == P /\ ~Q /\ relay[r].on = h  F == call[h] = FreeCall
  <2>1. RefundInv /\ [Next]_vars /\ W => W' \/ Q'
    <3> SUFFICES ASSUME RefundInv, [Next]_vars, W, ~Q' PROVE W'
      OBVIOUS
    <3>1. relay'[r] = relay[r] /\ P'
      BY RelayMoves, 3 = 2 + 1
    <3> QED
      BY <3>1
  <2>2. RefundInv /\ W => ~F
    <3>1. TypeOK /\ P /\ ~Q => relay[r].step = "wait"
      BY RelayKinds DEF RelayNear, BusyRelay, IdleRelay, RelayRank
    <3> QED
      BY <3>1, RelayKinds DEF RefundInv, OutboxInv, RelaySound, IdleRelay
  <2>3. Steady => GetsFree(h)
    BY FreeAgain
  <2>4. GetsFree(h) => []<>F
    BY DEF GetsFree
  <2> HIDE DEF W, Q, F
  <2>5. Steady => (W => <>Q)
    BY <2>1, <2>2, <2>3, <2>4, PTL DEF Steady
  <2> QED
    BY <2>5, PTL DEF W, Q, WaitEnds
<1> DEFINE K == relay[r].on \in Handlers
<1>2. Steady => (P /\ ~Q /\ K => WaitEnds(r))
  BY <1>1
<1>3. RefundInv /\ P /\ ~Q => K
  <2>1. TypeOK /\ P /\ ~Q => relay[r].step = "wait" /\ relay[r] \in BusyRelay
    BY RelayKinds DEF RelayNear, BusyRelay, IdleRelay, RelayRank
  <2> QED
    BY <2>1 DEF RefundInv, OutboxInv, RelaySound, IdleRelay, BusyRelay
<1> HIDE DEF P, Q, K
<1>4. Steady => [](P => <>Q)
  BY <1>2, <1>3, PTL DEF Steady, WaitEnds, Q
<1> QED
  BY <1>4, PTL DEF P, Q, RelayComes

\* A relay whose call is over ends the delivery.
LEMMA SettleComes ==
    ASSUME NEW r \in Relays
    PROVE  Steady => RelayComes(r, 2, 1)
<1> DEFINE P == RelayNear(r, 2)  Q == RelayNear(r, 1)  D == SettleDue(r)
<1>1. RefundInv /\ P /\ ~Q => D
  <2>1. TypeOK /\ P /\ ~Q => D
    BY RelayKinds DEF RelayNear, BusyRelay, IdleRelay, RelayRank, SettleDue
  <2> QED
    BY <2>1 DEF RefundInv, OutboxInv
<1>2. RefundInv /\ [Next]_vars /\ P /\ ~Q => P' \/ Q'
  BY RelayMoves, 2 = 1 + 1
<1>3. RefundInv /\ [Next]_vars /\ P /\ ~Q /\ <<Settle(r)>>_vars => Q'
  BY RelayMoves, 2 = 1 + 1
<1>4. Steady => Attended(r)
  <2>1. Steady => RelaysAttended
    BY PTL DEF Steady
  <2> QED
    BY <2>1 DEF RelaysAttended
<1>5. Attended(r) => (<>[]D => []<><<Settle(r)>>_vars)
  BY DEF Attended
<1> HIDE DEF P, Q, D
<1>6. Steady => [](P => <>Q)
  BY <1>1, <1>2, <1>3, <1>4, <1>5, PTL DEF Steady
<1> QED
  BY <1>6, PTL DEF P, Q, RelayComes

\* So every relay comes back to its loop.
LEMMA IdleAgain ==
    ASSUME NEW r \in Relays, Handlers # {}
    PROVE  Steady => GetsIdle(r)
<1> PICK v \in Handlers : TRUE
  OBVIOUS
<1>1. Steady => RelayComes(r, 4, 3)
  BY SendComes
<1>2. Steady => RelayComes(r, 3, 2)
  BY AnswerComes
<1>3. Steady => RelayComes(r, 2, 1)
  BY SettleComes
<1>4. RefundInv => RelayNear(r, 4) /\ (RelayNear(r, 1) => relay[r] = IdleRelay)
  BY RelayRanks DEF RefundInv, OutboxInv, TypeOK, RelayNear
<1> QED
  BY <1>1, <1>2, <1>3, <1>4, PTL DEF Steady, RelayComes, GetsIdle

----------------------------------------------------------------------------
(* How far a refund is *)

\* The refund of j is still to come, and what ends the wait for it.
Owed(j) ==
    /\ status[j] \in Job!Settled /\ reserved[j]
    /\ delivery[j].state \in {"pending", "sending"}
Over(j) == ~reserved[j] \/ delivery[j].state = "blocked" \/ status[j] = "deleting"

\* Where the delivery of j is: with no relay, with one that sends or ends it, or with
\* the request it sent.  "last" is a delivery that ends as blocked.
Working(j) ==
    LET r == delivery[j].token
    IN  r # NoRelay /\ relay[r] # IdleRelay /\ relay[r].job = j
LastTry(q) == q.step = "fatal" \/ (q.step = "retry" /\ q.tries >= MaxDeliveries)
Place(j) ==
    IF ~Working(j) THEN "none"
    ELSE LET q == relay[delivery[j].token]
         IN  IF q.step = "wait" THEN call[q.on].step
             ELSE IF LastTry(q) THEN "last" ELSE q.step

\* How far the delivery is from the refund.  A relay whose lease ended may lose the
\* delivery to another, which starts anew with a lease of its own.
DeliveryLeft(held, p) ==
    CASE p = "error"  -> 14
      [] p = "retry"  -> 13
      [] p = "none"   -> IF held THEN 12 ELSE 11
      [] p = "send"   -> IF held THEN 4 ELSE 10
      [] p = "read"   -> IF held THEN 3 ELSE 9
      [] p = "refund" -> IF held THEN 2 ELSE 8
      [] p = "last"   -> IF held THEN 1 ELSE 7

Places == {"error", "retry", "none", "send", "read", "refund", "last"}

\* The values of this rank.
LEMMA LeftValues ==
    ASSUME NEW b \in BOOLEAN
    PROVE  /\ \A p \in Places : DeliveryLeft(b, p) \in 1 .. 14
           /\ DeliveryLeft(b, "error") = 14 /\ DeliveryLeft(b, "retry") = 13
           /\ DeliveryLeft(b, "none") = IF b THEN 12 ELSE 11
           /\ DeliveryLeft(b, "send") = IF b THEN 4 ELSE 10
           /\ DeliveryLeft(b, "read") = IF b THEN 3 ELSE 9
           /\ DeliveryLeft(b, "refund") = IF b THEN 2 ELSE 8
           /\ DeliveryLeft(b, "last") = IF b THEN 1 ELSE 7
  BY DEF Places, DeliveryLeft

Falls(j) ==
    /\ Owed(j)'
    /\ DeliveryLeft(delivery'[j].held, Place(j)') < DeliveryLeft(delivery[j].held, Place(j))
Keeps(j) ==
    /\ Owed(j)'
    /\ delivery'[j] = delivery[j] /\ Place(j)' = Place(j)
    /\ Working(j)' <=> Working(j)
    /\ Working(j) => relay'[delivery[j].token] = relay[delivery[j].token]

\* What the invariant says of a refund that is owed.
LEMMA OwedFacts ==
    ASSUME RefundInv, NEW j \in Jobs, Owed(j)
    PROVE  /\ delivery[j] \in Delivery
           /\ delivery[j].token # NoRelay => /\ delivery[j].token \in Relays
                                             /\ delivery[j].state = "sending"
           /\ delivery[j].token = NoRelay => delivery[j].state = "pending"
           /\ callbackAck[j] \in Nat /\ version[j] \in Nat /\ callbackAck[j] < version[j]
           /\ ~Active(status[j])
<1>1. /\ delivery[j] \in Delivery /\ JobSound(j)
      /\ delivery[j].token # NoRelay <=> delivery[j].state = "sending"
      /\ callbackAck[j] \in Nat /\ version[j] \in Nat
  BY DeliveryAssumption DEF RefundInv, OutboxInv, TypeOK
<1> QED
  BY <1>1 DEF JobSound, Owed, Delivery, Active, Job!Settled

\* And of the relay that is at it, and the request it waits for: both are of the
\* current version, and the job is not acknowledged.
LEMMA WorkingFacts ==
    ASSUME RefundInv, NEW j \in Jobs, Owed(j), Working(j)
    PROVE  LET q == relay[delivery[j].token]
           IN  /\ delivery[j].token \in Relays
               /\ q \in BusyRelay /\ q.version = version[j] /\ q.step # "acked"
               /\ q.step = "wait" => /\ q.on \in Handlers /\ call[q.on] \in Call
                                     /\ call[q.on].job = j /\ call[q.on].version = version[j]
                                     /\ call[q.on].step \in {"read", "refund", "error"}
<1> DEFINE r == delivery[j].token  q == relay[r]
<1>1. r \in Relays /\ q # IdleRelay /\ q.job = j /\ ~Answered(j, version[j])
  BY OwedFacts DEF Working, Answered
<1>2. q \in BusyRelay /\ RelaySound(r) /\ q.version = version[j]
  <2>1. q \in BusyRelay /\ RelaySound(r)
    BY <1>1, RelayKinds DEF RefundInv, OutboxInv
  <2>2. q.version = version[j]
    BY <1>1, DeliveryAssumption DEF RefundInv, TokenSound
  <2> QED
    BY <2>1, <2>2
<1>3. q.step # "acked"
  <2> HIDE DEF r
  <2>1. q.step = "acked" => Answered(q.job, q.version)
    BY <1>1, <1>2 DEF RelaySound
  <2> QED
    BY <1>1, <1>2, <2>1
<1>4. ASSUME q.step = "wait"
      PROVE  /\ q.on \in Handlers /\ call[q.on] \in Call
             /\ call[q.on].job = j /\ call[q.on].version = version[j]
             /\ call[q.on].step \in {"read", "refund", "error"}
  <2>1. q.on \in Handlers /\ call[q.on] # FreeCall /\ call[q.on].job = j
        /\ call[q.on].version = version[j]
    BY <1>1, <1>2, <1>4 DEF RelaySound, BusyRelay
  <2>2. call[q.on] \in Call /\ CallSound(q.on)
    BY <2>1, CallKinds DEF RefundInv, OutboxInv
  <2>3. call[q.on].step # "store" /\ call[q.on].step # "ack"
    BY <1>1, <2>1, <2>2 DEF CallSound, Owed
  <2> QED
    BY <2>1, <2>2, <2>3 DEF Call
<1> QED
  BY <1>1, <1>2, <1>3, <1>4

\* A refund that is owed has a place and a rank.
LEMMA PlaceFacts ==
    ASSUME RefundInv, NEW j \in Jobs, Owed(j)
    PROVE  /\ Place(j) \in Places
           /\ DeliveryLeft(delivery[j].held, Place(j)) \in 1 .. 14
<1>1. Place(j) \in Places
  <2>1. CASE ~Working(j)
    BY <2>1 DEF Place, Places
  <2>2. CASE Working(j)
    BY <2>2, WorkingFacts DEF Place, Places, LastTry, BusyRelay
  <2> QED
    BY <2>1, <2>2
<1> QED
  BY <1>1, OwedFacts, LeftValues DEF Delivery

\* A step apart from the delivery of j: its relay, if one has it, and its request rest.
Apart(j) ==
    LET r == delivery[j].token
    IN  \/ r = NoRelay
        \/ /\ relay'[r] = relay[r]
           /\ Working(j) /\ relay[r].step = "wait" => call'[relay[r].on] = call[relay[r].on]
        \/ ~Working(j) /\ (relay'[r] = IdleRelay \/ relay'[r].job # j)

\* Such a step leaves it where it is.
LEMMA ApartKeeps ==
    ASSUME NEW j \in Jobs, Owed(j), Apart(j),
           delivery'[j] = delivery[j], status'[j] = status[j], reserved'[j] = reserved[j]
    PROVE  Keeps(j)
<1>1. Owed(j)'
  BY DEF Owed
<1>2. Working(j)' <=> Working(j)
  BY DEF Apart, Working
<1>3. Working(j) => relay'[delivery[j].token] = relay[delivery[j].token]
  BY DEF Apart, Working
<1>4. Place(j)' = Place(j)
  BY <1>2 DEF Apart, Working, Place, LastTry
<1> QED
  BY <1>1, <1>2, <1>3, <1>4 DEF Keeps

\* The writers of the job, and the requests that end it, end the wait or leave it.
LEMMA JobStepKeeps ==
    ASSUME RefundInv, NEW j \in Jobs, Owed(j), NEW i \in Jobs, JobStep(i)
    PROVE  Keeps(j) \/ Over(j)'
<1>1. TypeOK /\ ~Active(status[j])
  BY OwedFacts DEF RefundInv, OutboxInv
<1>2. CASE WorkerWrites(i) \/ CancelJob(i)
  <2>1. /\ \E s : status' = [status EXCEPT ![i] = s]
        /\ delivery' = [delivery EXCEPT ![i] = Pending]
        /\ status[i] \in {"queued", "processing"}
        /\ UNCHANGED <<relay, call, reserved>>
    BY <1>2 DEF WorkerWrites, CancelJob, Announce, gatewayVars, Job!Start, Job!Advance,
       Job!Complete, Job!Requeue, Job!Fail, Job!Cancel, Job!Publish
  <2>2. i # j
    BY <1>1, <2>1 DEF Active
  <2> QED
    BY <1>1, <2>1, <2>2, ApartKeeps DEF TypeOK, Apart
<1>3. CASE DeleteJob(i) \/ ExpireJob(i)
  <2>1. /\ status' = [status EXCEPT ![i] = "deleting"]
        /\ delivery' = [delivery EXCEPT ![i] = None]
        /\ UNCHANGED <<relay, call, reserved>>
    BY <1>3 DEF DeleteJob, ExpireJob, Withdraw, Job!Delete, Job!Publish, gatewayVars
  <2>2. CASE i # j
    BY <1>1, <2>1, <2>2, ApartKeeps DEF TypeOK, Apart
  <2>3. CASE i = j
    BY <1>1, <2>1, <2>3 DEF TypeOK, Over
  <2> QED
    BY <2>2, <2>3
<1>4. CASE RepeatRequest(i)
  BY <1>4, ApartKeeps DEF RepeatRequest, jobVars, outboxVars, Apart
<1>5. CASE FinishJob(i)
  <2>1. reserved' = [reserved EXCEPT ![i] = FALSE] /\ UNCHANGED <<status, delivery, relay, call>>
    BY <1>5 DEF FinishJob, jobVars, outboxVars
  <2>2. CASE i # j
    BY <1>1, <2>1, <2>2, ApartKeeps DEF TypeOK, Apart
  <2>3. CASE i = j
    BY <1>1, <2>1, <2>3 DEF TypeOK, Over
  <2> QED
    BY <2>2, <2>3
<1> QED
  BY <1>2, <1>3, <1>4, <1>5 DEF JobStep

\* A date comes.
LEMMA ElapseFalls ==
    ASSUME RefundInv, NEW j \in Jobs, Owed(j), NEW i \in Jobs, Elapse(i)
    PROVE  IF i = j THEN Falls(j) ELSE Keeps(j)
<1> DEFINE d == [delivery[i] EXCEPT !.held = FALSE]
<1>1. /\ delivery[i].held /\ ~InProgress(i) /\ delivery' = [delivery EXCEPT ![i] = d]
      /\ UNCHANGED <<status, reserved, relay, call>>
  BY DEF Elapse, Release, jobVars, gatewayVars
<1>2. d.held = FALSE /\ d.token = delivery[i].token /\ d.state = delivery[i].state
      /\ delivery \in [Jobs -> Delivery]
  BY DEF RefundInv, OutboxInv, TypeOK, Delivery
<1> HIDE DEF d
<1>3. CASE i # j
  BY <1>1, <1>2, <1>3, ApartKeeps DEF Apart
<1>4. CASE i = j
  <2>1. delivery'[j] = d
    BY <1>1, <1>2, <1>4
  <2>2. Owed(j)'
    BY <1>1, <1>2, <1>4, <2>1 DEF Owed
  <2>3. ~Working(j)
    BY <1>1, <1>4, OwedFacts DEF InProgress, Working
  <2>4. Place(j) = "none" /\ Place(j)' = "none"
    BY <1>1, <1>2, <1>4, <2>1, <2>3 DEF Place, Working
  <2>5. DeliveryLeft(delivery'[j].held, Place(j)') = 11
    BY <1>2, <2>1, <2>4, LeftValues
  <2>6. DeliveryLeft(delivery[j].held, Place(j)) = 12
    BY <1>1, <1>4, <2>4, LeftValues
  <2> QED
    BY <1>4, <2>2, <2>5, <2>6 DEF Falls
<1> QED
  BY <1>3, <1>4

\* A relay takes up what is due.
LEMMA TakenUpFalls ==
    ASSUME RefundInv, NEW j \in Jobs, Owed(j), NEW r \in Relays, NEW i \in Jobs, TakeUp(r, i)
    PROVE  IF i = j THEN Falls(j) ELSE Keeps(j)
<1> DEFINE tries == IF delivery[i].attempts > MaxDeliveries
                    THEN delivery[i].attempts ELSE delivery[i].attempts + 1
           step == IF tries <= MaxDeliveries THEN "send" ELSE "retry"
           d == [state |-> "sending", attempts |-> tries, held |-> TRUE, token |-> r]
           q == [step |-> step, job |-> i, version |-> version[i], tries |-> tries,
                 on |-> NoHandler]
<1>1. /\ relay[r] = IdleRelay /\ Due(delivery[i])
      /\ delivery' = [delivery EXCEPT ![i] = d] /\ relay' = [relay EXCEPT ![r] = q]
      /\ UNCHANGED <<status, reserved, call>>
  BY DEF TakeUp, jobVars, gatewayVars
<1>2. d.held = TRUE /\ d.token = r /\ d.state = "sending"
      /\ q.step = step /\ q.job = i /\ q.tries = tries
  OBVIOUS
<1>3. delivery \in [Jobs -> Delivery] /\ relay \in [Relays -> BusyRelay \cup {IdleRelay}]
  BY DEF RefundInv, OutboxInv, TypeOK
<1>4. tries \in Nat
  BY <1>3, DeliveryAssumption DEF Delivery, Tries
<1>5. step = "send" \/ (step = "retry" /\ tries >= MaxDeliveries)
  BY <1>4, DeliveryAssumption
<1> HIDE DEF tries, step, d, q
<1>6. CASE i # j
  <2>1. delivery'[j] = delivery[j]
    BY <1>1, <1>3, <1>6
  <2>2. \A s \in Relays : relay'[s] = IF s = r THEN q ELSE relay[s]
    BY <1>1, <1>3
  <2>3. Apart(j)
    BY <1>1, <1>2, <1>6, <2>2, OwedFacts DEF Apart, Working
  <2> QED
    BY <1>1, <1>6, <2>1, <2>3, ApartKeeps
<1>7. CASE i = j
  <2>1. delivery'[j] = d /\ relay'[r] = q
    BY <1>1, <1>3, <1>7
  <2>2. Owed(j)'
    BY <1>1, <1>2, <2>1 DEF Owed
  <2>3. q # IdleRelay /\ r # NoRelay
    BY <1>2, <1>5, DeliveryAssumption DEF IdleRelay
  <2>4. Working(j)'
    BY <1>2, <1>7, <2>1, <2>3 DEF Working
  <2>5. Place(j)' = IF step = "send" THEN "send" ELSE "last"
    BY <1>2, <1>5, <2>1, <2>4 DEF Place, LastTry
  <2>6. DeliveryLeft(delivery'[j].held, Place(j)') \in {1, 4}
    BY <1>2, <2>1, <2>5, LeftValues
  <2>7. delivery[j].held = FALSE
    BY <1>1, <1>3, <1>7 DEF Due, Delivery
  <2>8. DeliveryLeft(delivery[j].held, Place(j)) \in 7 .. 14
    <3>1. \A p \in Places : DeliveryLeft(FALSE, p) \in 7 .. 14
      BY DEF Places, DeliveryLeft
    <3> QED
      BY <2>7, <3>1, PlaceFacts
  <2>9. DeliveryLeft(delivery'[j].held, Place(j)') < DeliveryLeft(delivery[j].held, Place(j))
    BY <2>6, <2>8
  <2> QED
    BY <1>7, <2>2, <2>9 DEF Falls
<1> QED
  BY <1>6, <1>7

\* A relay sends its notification.
LEMMA SendFalls ==
    ASSUME RefundInv, NEW j \in Jobs, Owed(j), NEW r \in Relays, Send(r)
    PROVE  IF Working(j) /\ delivery[j].token = r THEN Falls(j) ELSE Keeps(j)
<1>1. PICK h \in Handlers :
        /\ call[h] = FreeCall
        /\ call' = [call EXCEPT ![h] =
                [step |-> "read", job |-> relay[r].job, version |-> relay[r].version]]
        /\ relay' = [relay EXCEPT ![r].step = "wait", ![r].on = h]
  BY DEF Send
<1> DEFINE c == [step |-> "read", job |-> relay[r].job, version |-> relay[r].version]
           q == [relay[r] EXCEPT !.step = "wait", !.on = h]
<1>2. relay[r].step = "send" /\ UNCHANGED <<status, reserved, delivery>>
  BY DEF Send, jobVars
<1>3. relay[r] # IdleRelay /\ relay[r] \in BusyRelay
  BY <1>2, RelayKinds DEF RefundInv, OutboxInv
<1>4. c.step = "read"
  OBVIOUS
<1>5. q.step = "wait" /\ q.on = h /\ q.job = relay[r].job
  BY <1>3 DEF BusyRelay
<1>6. call' = [call EXCEPT ![h] = c] /\ relay' = [relay EXCEPT ![r] = q]
  BY <1>1
<1> HIDE DEF c, q
<1>7. /\ \A s \in Relays : relay'[s] = IF s = r THEN q ELSE relay[s]
      /\ \A g \in Handlers : call'[g] = IF g = h THEN c ELSE call[g]
  BY <1>6 DEF RefundInv, OutboxInv, TypeOK
<1>8. CASE Working(j) /\ delivery[j].token = r
  <2>1. Owed(j)' /\ delivery'[j].held = delivery[j].held /\ delivery[j].held \in BOOLEAN
    BY <1>2, OwedFacts DEF Owed, Delivery
  <2>2. q # IdleRelay /\ r # NoRelay
    BY <1>5, DeliveryAssumption DEF IdleRelay
  <2>3. Working(j)'
    BY <1>2, <1>5, <1>7, <1>8, <2>2 DEF Working
  <2>4. Place(j)' = "read"
    BY <1>2, <1>4, <1>5, <1>7, <1>8, <2>3 DEF Place
  <2>5. Place(j) = "send"
    BY <1>2, <1>8 DEF Place, LastTry
  <2>6. DeliveryLeft(delivery'[j].held, "read") < DeliveryLeft(delivery[j].held, "send")
    BY <2>1, LeftValues
  <2> QED
    BY <1>8, <2>1, <2>4, <2>5, <2>6 DEF Falls
<1>9. CASE ~(Working(j) /\ delivery[j].token = r)
  <2>1. Working(j) /\ relay[delivery[j].token].step = "wait" =>
          relay[delivery[j].token].on # h /\ relay[delivery[j].token].on \in Handlers
    BY <1>1, WorkingFacts DEF Call, FreeCall
  <2>2. ASSUME delivery[j].token = r PROVE Apart(j)
    BY <1>3, <1>5, <1>7, <1>9, <2>2 DEF Apart, Working
  <2>3. ASSUME delivery[j].token # r PROVE Apart(j)
    BY <1>7, <2>1, <2>3, OwedFacts DEF Apart
  <2> QED
    BY <1>2, <1>9, <2>2, <2>3, ApartKeeps
<1> QED
  BY <1>8, <1>9

\* A delivery ends: for the job's own relay the wait for a date begins, or its end.
LEMMA SettleFalls ==
    ASSUME RefundInv, NEW j \in Jobs, Owed(j), NEW r \in Relays, Settle(r)
    PROVE  IF Working(j) /\ delivery[j].token = r THEN Falls(j) \/ Over(j)' ELSE Keeps(j)
<1> DEFINE i == relay[r].job
           blocked == relay[r].step = "fatal" \/ relay[r].tries >= MaxDeliveries
           end == IF relay[r].step = "acked" THEN "delivered"
                  ELSE IF blocked THEN "blocked" ELSE "pending"
           d == Ended(delivery[i], end)
<1>1. /\ relay[r].step \in {"acked", "retry", "fatal"}
      /\ relay' = [relay EXCEPT ![r] = IdleRelay]
      /\ IF OwnsDelivery(r) THEN delivery' = [delivery EXCEPT ![i] = d] ELSE UNCHANGED delivery
      /\ UNCHANGED <<status, reserved, call>>
  BY DEF Settle, jobVars, gatewayVars
<1>2. /\ relay[r] # IdleRelay /\ relay[r] \in BusyRelay /\ i \in Jobs
      /\ delivery \in [Jobs -> Delivery] /\ relay \in [Relays -> BusyRelay \cup {IdleRelay}]
  BY <1>1, RelayKinds DEF RefundInv, OutboxInv, TypeOK, BusyRelay
<1>3. d.state = end /\ d.token = NoRelay /\ d.held = (end = "pending")
  BY <1>2 DEF Delivery, Ended
<1> HIDE DEF d
<1>4. \A s \in Relays : relay'[s] = IF s = r THEN IdleRelay ELSE relay[s]
  BY <1>1, <1>2
<1>5. CASE Working(j) /\ delivery[j].token = r
  <2>1. i = j /\ OwnsDelivery(r) /\ relay[r].step \in {"retry", "fatal"}
    BY <1>1, <1>5, WorkingFacts DEF OwnsDelivery, Working
  <2>2. delivery'[j] = d
    BY <1>1, <1>2, <2>1
  <2> HIDE DEF blocked
  <2>3. CASE blocked
    <3>1. end = "blocked"
      BY <2>1, <2>3
    <3>2. delivery'[j].state = "blocked"
      BY <1>3, <2>2, <3>1
    <3> QED
      BY <1>5, <3>2 DEF Over
  <2>4. CASE ~blocked
    <3>1. end = "pending"
      BY <2>1, <2>4
    <3>2. Owed(j)' /\ ~Working(j)' /\ delivery'[j].held = TRUE
      BY <1>1, <1>3, <2>2, <3>1 DEF Owed, Working
    <3>3. Place(j)' = "none" /\ Place(j) = "retry"
      BY <1>5, <2>1, <2>4, <3>2 DEF Place, LastTry, blocked
    <3>4. DeliveryLeft(delivery'[j].held, Place(j)') = 12
      BY <3>2, <3>3, LeftValues
    <3>5. DeliveryLeft(delivery[j].held, Place(j)) = 13
      BY <1>2, <3>3, LeftValues DEF Delivery
    <3> QED
      BY <1>5, <3>2, <3>4, <3>5 DEF Falls
  <2> QED
    BY <1>5, <2>3, <2>4
<1>6. CASE ~(Working(j) /\ delivery[j].token = r)
  <2>1. delivery'[j] = delivery[j]
    <3>1. i = j => ~OwnsDelivery(r)
      BY <1>2, <1>6, DeliveryAssumption DEF OwnsDelivery, Working
    <3> QED
      BY <1>1, <1>2, <3>1
  <2>2. ASSUME delivery[j].token = r PROVE Apart(j)
    BY <1>4, <1>6, <2>2 DEF Apart
  <2>3. ASSUME delivery[j].token # r PROVE Apart(j)
    BY <1>1, <1>4, <2>3, OwedFacts DEF Apart
  <2> QED
    BY <1>1, <1>6, <2>1, <2>2, <2>3, ApartKeeps
<1> QED
  BY <1>5, <1>6

\* The request that the relay of j waits for.
Asked(j, h) ==
    LET q == relay[delivery[j].token]
    IN  Working(j) /\ q.step = "wait" /\ q.on = h

\* A request that is not asked for j goes on.
LEMMA OtherCall ==
    ASSUME NEW j \in Jobs, Owed(j), NEW h \in Handlers, ~Asked(j, h),
           \A g \in Handlers \ {h} : call'[g] = call[g],
           UNCHANGED <<status, delivery, relay>>, reserved'[j] = reserved[j], RefundInv
    PROVE  Keeps(j)
<1>1. Apart(j)
  BY WorkingFacts DEF Apart, Asked
<1> QED
  BY <1>1, ApartKeeps

\* The one that is asked for j goes on, to another place of lower rank.
LEMMA OwnCall ==
    ASSUME RefundInv, NEW j \in Jobs, Owed(j), NEW h \in Handlers, Asked(j, h),
           call'[h].step = "refund", call[h].step = "read",
           UNCHANGED <<status, delivery, relay, reserved>>
    PROVE  Falls(j)
<1>1. Owed(j)'
  BY DEF Owed
<1>2. Working(j) /\ Working(j)'
  BY DEF Working, Asked
<1>3. Place(j) = "read" /\ Place(j)' = "refund"
  BY <1>2 DEF Place, Asked
<1>4. delivery[j].held \in BOOLEAN
  BY OwedFacts DEF Delivery
<1>5. DeliveryLeft(delivery[j].held, "refund") < DeliveryLeft(delivery[j].held, "read")
  BY <1>4, LeftValues
<1> QED
  BY <1>1, <1>3, <1>5 DEF Falls

\* What a step of a request does to the refund.
LEMMA CallFalls ==
    ASSUME RefundInv, NEW j \in Jobs, Owed(j), NEW h \in Handlers, HandlerStep(h)
    PROVE  IF Asked(j, h) THEN Falls(j) \/ Over(j)' ELSE Keeps(j) \/ Over(j)'
<1>0. TypeOK
  BY DEF RefundInv, OutboxInv
<1>1. \A g \in Handlers \ {h} : call'[g] = call[g]
  BY <1>0, CallOwnStep DEF CallRests
<1>2. Asked(j, h) => /\ call[h] \in Call /\ call[h].job = j /\ call[h].version = version[j]
                     /\ call[h].step \in {"read", "refund", "error"}
  BY WorkingFacts DEF Asked
<1>3. CASE ReadJob(h)
  <2>1. UNCHANGED <<status, delivery, relay, reserved>> /\ call[h].step = "read"
    BY <1>3 DEF ReadJob, jobVars, outboxVars
  <2>2. CASE Asked(j, h)
    <3>1. version[j] = call[h].version /\ ~Acknowledged(callbackAck[j], call[h].version)
          /\ Releases(status[j])
      BY <1>2, <2>2, OwedFacts DEF Acknowledged, Releases, Owed
    <3>2. Continue(h, "refund")
      BY <1>2, <1>3, <2>2, <3>1 DEF ReadJob
    <3>3. call'[h].step = "refund"
      BY <1>0, <1>2, <2>2, <3>2 DEF Continue, TypeOK, Call
    <3> QED
      BY <2>1, <2>2, <3>3, OwnCall
  <2>3. CASE ~Asked(j, h)
    BY <1>1, <2>1, <2>3, OtherCall
  <2> QED
    BY <2>2, <2>3
<1>4. CASE Refund(h)
  <2>1. /\ reserved' = [reserved EXCEPT ![call[h].job] = FALSE]
        /\ UNCHANGED <<status, delivery, relay>>
    BY <1>4 DEF Refund, jobVars, outboxVars
  <2>2. CASE call[h].job = j
    BY <1>0, <2>1, <2>2 DEF TypeOK, Over
  <2>3. CASE call[h].job # j
    <3>1. ~Asked(j, h) /\ reserved'[j] = reserved[j]
      BY <1>0, <1>2, <2>1, <2>3 DEF TypeOK
    <3> QED
      BY <1>1, <2>1, <3>1, OtherCall
  <2> QED
    BY <2>2, <2>3
<1>5. CASE StoreAck(h)
  <2>1. ~Asked(j, h) /\ UNCHANGED <<status, delivery, relay, reserved>>
    BY <1>2, <1>5 DEF StoreAck, jobVars, outboxVars
  <2> QED
    BY <1>1, <2>1, OtherCall
<1>6. CASE Answer(h)
  <2> DEFINE next == IF call[h].step = "ack" THEN "acked" ELSE "retry"
             q(r) == [relay[r] EXCEPT !.step = next, !.on = NoHandler]
  <2>1. /\ call[h].step \in {"ack", "error"}
        /\ \A r \in Relays : relay'[r] = IF relay[r].step = "wait" /\ relay[r].on = h
                                         THEN q(r) ELSE relay[r]
        /\ UNCHANGED <<status, delivery, reserved>>
    BY <1>6 DEF Answer, jobVars
  <2>2. \A r \in Relays : relay[r].step = "wait" => /\ q(r).step = next /\ q(r).job = relay[r].job
                                                    /\ q(r).tries = relay[r].tries
    BY <1>0, RelayKinds DEF BusyRelay
  <2> HIDE DEF q
  <2> DEFINE t == delivery[j].token
  <2>3. CASE Asked(j, h)
    <3>1. call[h].step = "error" /\ t \in Relays /\ relay[t].step = "wait" /\ relay[t].on = h
          /\ relay[t].job = j /\ Working(j)
      BY <1>2, <2>1, <2>3, WorkingFacts DEF Asked, Working
    <3>2. relay'[t] = q(t) /\ q(t).step = "retry" /\ q(t).job = j
      BY <2>1, <2>2, <3>1
    <3>3. q(t) # IdleRelay /\ t # NoRelay
      BY <3>1, <3>2, DeliveryAssumption DEF IdleRelay
    <3>4. Owed(j)' /\ Working(j)'
      BY <2>1, <3>2, <3>3 DEF Owed, Working
    <3>5. Place(j) = "error"
      BY <3>1 DEF Place
    <3>6. Place(j)' \in {"retry", "last"}
      BY <2>1, <3>2, <3>4 DEF Place, LastTry
    <3>7. delivery'[j] = delivery[j] /\ delivery[j].held \in BOOLEAN
      BY <2>1, OwedFacts DEF Delivery
    <3>8. DeliveryLeft(delivery'[j].held, Place(j)') \in {1, 7, 13}
      BY <3>6, <3>7, LeftValues
    <3>9. DeliveryLeft(delivery[j].held, Place(j)) = 14
      BY <3>5, <3>7, LeftValues
    <3>10. DeliveryLeft(delivery'[j].held, Place(j)') < DeliveryLeft(delivery[j].held, Place(j))
      BY <3>8, <3>9
    <3> QED
      BY <2>3, <3>4, <3>10 DEF Falls
  <2>4. CASE ~Asked(j, h)
    <3>1. ASSUME t \in Relays, ~(relay[t].step = "wait" /\ relay[t].on = h) PROVE Apart(j)
      <4>1. relay'[t] = relay[t]
        BY <2>1, <3>1
      <4> QED
        BY <1>1, <2>4, <4>1, WorkingFacts DEF Apart, Asked
    <3>2. ASSUME t \in Relays, relay[t].step = "wait", relay[t].on = h PROVE Apart(j)
      <4>1. ~Working(j) /\ relay[t] # IdleRelay
        BY <2>4, <3>2 DEF Asked, IdleRelay
      <4>2. relay'[t].job = relay[t].job
        BY <2>1, <2>2, <3>2
      <4> QED
        BY <4>1, <4>2 DEF Apart, Working
    <3>3. Apart(j)
      BY <3>1, <3>2, OwedFacts DEF Apart
    <3> QED
      BY <2>1, <2>4, <3>3, ApartKeeps
  <2> QED
    BY <2>3, <2>4
<1> QED
  BY <1>3, <1>4, <1>5, <1>6 DEF HandlerStep

\* When nothing fails, every step brings the refund nearer, leaves the delivery where
\* it is or ends the wait.
LEMMA DeliveryNext ==
    ASSUME RefundInv, [Next]_vars, faults' = faults, NEW j \in Jobs, Owed(j)
    PROVE  Falls(j) \/ Keeps(j) \/ Over(j)'
<1>1. TypeOK /\ faults \in Nat
  BY DeliveryAssumption DEF RefundInv, OutboxInv, TypeOK
<1>2. ~Fault
  BY <1>1 DEF Fault
<1>3. ~FaultStep
  BY <1>2 DEF FaultStep, CallFails, RelayCrash, HandlerFails, LeaseEnds, GatewayCrash
<1>4. CASE RetryBlocked
  <2>1. delivery'[j] = delivery[j] /\ UNCHANGED <<status, reserved, relay, call>>
    BY <1>4 DEF RetryBlocked, jobVars, gatewayVars, Owed
  <2> QED
    BY <2>1, ApartKeeps DEF Apart
<1>5. CASE UNCHANGED vars
  BY <1>5, ApartKeeps DEF vars, jobVars, outboxVars, gatewayVars, Apart
<1> QED
  BY <1>3, <1>4, <1>5, JobStepKeeps, ElapseFalls, TakenUpFalls, SendFalls, SettleFalls, CallFalls
     DEF Next, RelayStep

----------------------------------------------------------------------------
(* What a delivery waits for comes *)

\* What makes Elapse and TakeUp possible, and that what stays so, or comes back again
\* and again, is done.
ElapseDue(j) == delivery[j].held /\ ~InProgress(j)
TakeUpDue(j) ==
    (\E r \in Relays : relay[r] = IdleRelay) /\ status[j] # "deleting" /\ Due(delivery[j])

Called(j) ==
    /\ <>[]ElapseDue(j) => []<><<Elapse(j)>>_vars
    /\ []<>TakeUpDue(j) => []<><<\E r \in Relays : TakeUp(r, j)>>_vars

JobsCalled == \A j \in Jobs : Called(j)

\* From when on nothing fails.
Calm == Steady /\ [][faults' = faults]_vars

Below(j, n) == Owed(j) /\ DeliveryLeft(delivery[j].held, Place(j)) < n
Drops(j, n, m) == Below(j, n + m) ~> (Over(j) \/ Below(j, n))
Lowers(j, n) == <>(Over(j) \/ Below(j, n))

Awaits(j) ==
    CASE Place(j) = "none" -> IF delivery[j].held THEN "date" ELSE "relay"
      [] Place(j) = "send" -> "send"
      [] Place(j) \in {"read", "refund", "error"} -> "answer"
      [] OTHER -> "end"

AwaitedAt(j, n, c) ==
    /\ Owed(j)
    /\ DeliveryLeft(delivery[j].held, Place(j)) = n
    /\ Awaits(j) = c

\* The relay and the request that a delivery waits for.
SentBy(j, r) == Working(j) /\ delivery[j].token = r

\* What a delivery waits for stays the same until it comes.
LEMMA AwaitedStays ==
    ASSUME RefundInv, [Next]_vars, [faults' = faults]_vars,
           NEW j \in Jobs, NEW n \in Nat, NEW c, AwaitedAt(j, n, c)
    PROVE  \/ /\ AwaitedAt(j, n, c)'
              /\ \A r \in Relays : SentBy(j, r) => SentBy(j, r)'
              /\ \A h \in Handlers : Asked(j, h) => Asked(j, h)'
           \/ Over(j)' \/ Below(j, n)'
<1>1. faults' = faults
  BY DEF vars
<1>2. Falls(j) \/ Keeps(j) \/ Over(j)'
  BY <1>1, DeliveryNext DEF AwaitedAt
<1>3. CASE Keeps(j)
  <2>1. AwaitedAt(j, n, c)'
    BY <1>3 DEF Keeps, AwaitedAt, Awaits
  <2>2. \A r \in Relays : SentBy(j, r) => SentBy(j, r)'
    BY <1>3 DEF Keeps, SentBy
  <2>3. \A h \in Handlers : Asked(j, h) => Asked(j, h)'
    BY <1>3 DEF Keeps, Asked
  <2> QED
    BY <2>1, <2>2, <2>3
<1>4. CASE Falls(j)
  BY <1>4 DEF Falls, AwaitedAt, Below
<1> QED
  BY <1>2, <1>3, <1>4

\* What a delivery waits for is due.
LEMMA AwaitedDue ==
    ASSUME RefundInv, NEW j \in Jobs, NEW n \in Nat
    PROVE  /\ AwaitedAt(j, n, "date") => ElapseDue(j)
           /\ AwaitedAt(j, n, "relay") => status[j] # "deleting" /\ Due(delivery[j])
           /\ AwaitedAt(j, n, "send") =>
                /\ \E r \in Relays : SentBy(j, r)
                /\ \A r \in Relays : SentBy(j, r) => relay[r].step = "send"
           /\ AwaitedAt(j, n, "answer") => \E h \in Handlers : Asked(j, h)
           /\ AwaitedAt(j, n, "end") =>
                /\ \E r \in Relays : SentBy(j, r)
                /\ \A r \in Relays : SentBy(j, r) => SettleDue(r)
           /\ \A h \in Handlers : Owed(j) /\ Asked(j, h) => call[h] # FreeCall
           /\ Owed(j) /\ DeliveryLeft(delivery[j].held, Place(j)) = n =>
                \E c \in {"date", "relay", "send", "answer", "end"} : AwaitedAt(j, n, c)
<1>1. AwaitedAt(j, n, "date") => ElapseDue(j)
  <2> SUFFICES ASSUME AwaitedAt(j, n, "date") PROVE ElapseDue(j)
    OBVIOUS
  <2>1. delivery[j].held /\ Place(j) = "none"
    BY PlaceFacts DEF AwaitedAt, Awaits
  <2>2. ~Working(j)
    <3> SUFFICES ASSUME Working(j) PROVE FALSE
      OBVIOUS
    <3>1. Owed(j) /\ relay[delivery[j].token].step # "idle"
      BY WorkingFacts DEF AwaitedAt, BusyRelay
    <3> QED
      BY <2>1, <3>1, WorkingFacts DEF Place, LastTry, BusyRelay
  <2> QED
    BY <2>1, <2>2, DeliveryAssumption DEF ElapseDue, InProgress, Working
<1>2. AwaitedAt(j, n, "relay") => status[j] # "deleting" /\ Due(delivery[j])
  BY DEF AwaitedAt, Awaits, Owed, Due, Job!Settled
<1>3. ASSUME Owed(j), Working(j)
      PROVE  /\ Place(j) = "send" => relay[delivery[j].token].step = "send"
             /\ Place(j) \in {"read", "refund", "error"} =>
                  relay[delivery[j].token].step = "wait"
             /\ Place(j) \in {"retry", "last"} =>
                  relay[delivery[j].token].step \in {"retry", "fatal"}
  <2> DEFINE q == relay[delivery[j].token]
  <2>1. q.step \in {"send", "wait", "retry", "fatal"}
    BY <1>3, WorkingFacts DEF BusyRelay
  <2>2. CASE q.step = "wait"
    <3>1. Place(j) \in {"read", "refund", "error"}
      BY <1>3, <2>2, WorkingFacts DEF Place
    <3> QED
      BY <2>2, <3>1
  <2>3. CASE q.step = "send"
    <3>1. Place(j) = "send"
      BY <1>3, <2>3 DEF Place, LastTry
    <3> QED
      BY <2>3, <3>1
  <2>4. CASE q.step \in {"retry", "fatal"}
    <3>1. Place(j) \in {"retry", "last"}
      BY <1>3, <2>4 DEF Place, LastTry
    <3> QED
      BY <2>4, <3>1
  <2> QED
    BY <2>1, <2>2, <2>3, <2>4
<1>4. Owed(j) /\ Place(j) # "none" => Working(j) /\ SentBy(j, delivery[j].token)
                                      /\ delivery[j].token \in Relays
  BY WorkingFacts DEF Place, SentBy
<1>5. AwaitedAt(j, n, "send") => Owed(j) /\ Place(j) = "send"
  BY DEF AwaitedAt, Awaits
<1>6. AwaitedAt(j, n, "answer") => Owed(j) /\ Place(j) \in {"read", "refund", "error"}
  BY DEF AwaitedAt, Awaits
<1>7. AwaitedAt(j, n, "end") => Owed(j) /\ Place(j) \in {"retry", "last"}
  BY PlaceFacts DEF AwaitedAt, Awaits, Places
<1>8. Awaits(j) \in {"date", "relay", "send", "answer", "end"}
  BY DEF Awaits
<1>9. \A r : SentBy(j, r) => r = delivery[j].token
  BY DEF SentBy
<1>10. AwaitedAt(j, n, "answer") => \E h \in Handlers : Asked(j, h)
  BY <1>3, <1>4, <1>6, WorkingFacts DEF Asked
<1>11. \A h \in Handlers : Owed(j) /\ Asked(j, h) => call[h] # FreeCall
  BY WorkingFacts DEF Asked, FreeCall
<1>12. AwaitedAt(j, n, "send") => /\ \E r \in Relays : SentBy(j, r)
                                  /\ \A r \in Relays : SentBy(j, r) => relay[r].step = "send"
  BY <1>3, <1>4, <1>5, <1>9
<1>13. AwaitedAt(j, n, "end") => /\ \E r \in Relays : SentBy(j, r)
                                 /\ \A r \in Relays : SentBy(j, r) => SettleDue(r)
  BY <1>3, <1>4, <1>7, <1>9 DEF SettleDue
<1> QED
  BY <1>1, <1>2, <1>8, <1>10, <1>11, <1>12, <1>13 DEF AwaitedAt

\* When it comes, the delivery comes nearer to the refund.
LEMMA AwaitedStep ==
    ASSUME RefundInv, NEW j \in Jobs, NEW n \in Nat, NEW c, AwaitedAt(j, n, c)
    PROVE  /\ Elapse(j) => Below(j, n)'
           /\ (\E r \in Relays : TakeUp(r, j)) => Below(j, n)'
           /\ \A r \in Relays : SentBy(j, r) /\ Send(r) => Below(j, n)'
           /\ \A r \in Relays : SentBy(j, r) /\ Settle(r) => Over(j)' \/ Below(j, n)'
           /\ \A h \in Handlers : Asked(j, h) /\ HandlerStep(h) => Over(j)' \/ Below(j, n)'
<1>1. Owed(j) /\ (Falls(j) => Below(j, n)')
  BY DEF AwaitedAt, Falls, Below
<1>2. Elapse(j) => Below(j, n)'
  BY <1>1, ElapseFalls
<1>3. ASSUME NEW r \in Relays, TakeUp(r, j) PROVE Below(j, n)'
  BY <1>1, <1>3, TakenUpFalls
<1>4. ASSUME NEW r \in Relays, SentBy(j, r), Send(r) PROVE Below(j, n)'
  BY <1>1, <1>4, SendFalls DEF SentBy
<1>5. ASSUME NEW r \in Relays, SentBy(j, r), Settle(r) PROVE Over(j)' \/ Below(j, n)'
  BY <1>1, <1>5, SettleFalls DEF SentBy
<1>6. ASSUME NEW h \in Handlers, Asked(j, h), HandlerStep(h) PROVE Over(j)' \/ Below(j, n)'
  BY <1>1, <1>6, CallFalls
<1> QED
  BY <1>2, <1>3, <1>4, <1>5, <1>6

\* A relay that has the notification of j to send gets a request for it.
LEMMA SentComes ==
    ASSUME NEW j \in Jobs, NEW n \in Nat, Handlers # {}
    PROVE  Calm => (AwaitedAt(j, n, "send") => Lowers(j, n))
<1> PICK v \in Handlers : TRUE
  OBVIOUS
<1> DEFINE X == AwaitedAt(j, n, "send")  Q == Over(j) \/ Below(j, n)
<1>1. ASSUME NEW r \in Relays
      PROVE  Calm /\ Attended(r) => (X /\ SentBy(j, r) => Lowers(j, n))
  <2> DEFINE Y == X /\ SentBy(j, r)  D == SendDue(r)  F == call[v] = FreeCall
  <2>1. RefundInv /\ [Next]_vars /\ [faults' = faults]_vars /\ Y => Y' \/ Q'
    BY AwaitedStays
  <2>2. RefundInv /\ Y /\ <<Send(r)>>_vars => Q'
    BY AwaitedStep
  <2>3. RefundInv /\ Y /\ F => D
    BY AwaitedDue DEF SendDue
  <2>4. Attended(r) => ([]<>D => []<><<Send(r)>>_vars)
    BY DEF Attended
  <2>5. Steady => GetsFree(v)
    BY FreeAgain
  <2> HIDE DEF X, Y, Q, D, F
  <2>6. Calm /\ Attended(r) => (Y => <>Q)
    BY <2>1, <2>2, <2>3, <2>4, <2>5, PTL DEF Calm, Steady, GetsFree, F
  <2> QED
    BY <2>6, PTL DEF X, Y, Q, Lowers
<1>2. Calm => RelaysAttended
  BY PTL DEF Calm, Steady
<1> DEFINE K == \E r \in Relays : SentBy(j, r)
<1>3. Calm => (X /\ K => Lowers(j, n))
  BY <1>1, <1>2 DEF RelaysAttended
<1>4. RefundInv => (X => K)
  BY AwaitedDue
<1> HIDE DEF X, K
<1> QED
  BY <1>3, <1>4, PTL DEF Calm, Steady, X, K

\* The request it waits for goes on.
LEMMA AnswerLowers ==
    ASSUME NEW j \in Jobs, NEW n \in Nat
    PROVE  Calm => (AwaitedAt(j, n, "answer") => Lowers(j, n))
<1> DEFINE X == AwaitedAt(j, n, "answer")  Q == Over(j) \/ Below(j, n)
<1>1. ASSUME NEW h \in Handlers
      PROVE  Calm /\ Served(h) => (X /\ Asked(j, h) => Lowers(j, n))
  <2> DEFINE Y == X /\ Asked(j, h)  B == call[h] # FreeCall
  <2>1. RefundInv /\ [Next]_vars /\ [faults' = faults]_vars /\ Y => Y' \/ Q'
    BY AwaitedStays
  <2>2. RefundInv /\ Y /\ <<HandlerStep(h)>>_vars => Q'
    BY AwaitedStep
  <2>3. RefundInv /\ Y => B
    BY AwaitedDue DEF AwaitedAt
  <2>4. Served(h) => (<>[]B => []<><<HandlerStep(h)>>_vars)
    BY DEF Served
  <2> HIDE DEF X, Y, Q, B
  <2>5. Calm /\ Served(h) => (Y => <>Q)
    BY <2>1, <2>2, <2>3, <2>4, PTL DEF Calm, Steady
  <2> QED
    BY <2>5, PTL DEF X, Y, Q, Lowers
<1>2. Calm => CallsServed
  BY PTL DEF Calm, Steady
<1> DEFINE K == \E h \in Handlers : Asked(j, h)
<1>3. Calm => (X /\ K => Lowers(j, n))
  BY <1>1, <1>2 DEF CallsServed
<1>4. RefundInv => (X => K)
  BY AwaitedDue
<1> HIDE DEF X, K
<1> QED
  BY <1>3, <1>4, PTL DEF Calm, Steady, X, K

\* The relay ends the delivery when its call is over.
LEMMA EndLowers ==
    ASSUME NEW j \in Jobs, NEW n \in Nat
    PROVE  Calm => (AwaitedAt(j, n, "end") => Lowers(j, n))
<1> DEFINE X == AwaitedAt(j, n, "end")  Q == Over(j) \/ Below(j, n)
<1>1. ASSUME NEW r \in Relays
      PROVE  Calm /\ Attended(r) => (X /\ SentBy(j, r) => Lowers(j, n))
  <2> DEFINE Y == X /\ SentBy(j, r)  D == SettleDue(r)
  <2>1. RefundInv /\ [Next]_vars /\ [faults' = faults]_vars /\ Y => Y' \/ Q'
    BY AwaitedStays
  <2>2. RefundInv /\ Y /\ <<Settle(r)>>_vars => Q'
    BY AwaitedStep
  <2>3. RefundInv /\ Y => D
    BY AwaitedDue
  <2>4. Attended(r) => (<>[]D => []<><<Settle(r)>>_vars)
    BY DEF Attended
  <2> HIDE DEF X, Y, Q, D
  <2>5. Calm /\ Attended(r) => (Y => <>Q)
    BY <2>1, <2>2, <2>3, <2>4, PTL DEF Calm, Steady
  <2> QED
    BY <2>5, PTL DEF X, Y, Q, Lowers
<1>2. Calm => RelaysAttended
  BY PTL DEF Calm, Steady
<1> DEFINE K == \E r \in Relays : SentBy(j, r)
<1>3. Calm => (X /\ K => Lowers(j, n))
  BY <1>1, <1>2 DEF RelaysAttended
<1>4. RefundInv => (X => K)
  BY AwaitedDue
<1> HIDE DEF X, K
<1> QED
  BY <1>3, <1>4, PTL DEF Calm, Steady, X, K

\* One step comes.
LEMMA DropsOne ==
    ASSUME NEW j \in Jobs, NEW n \in Nat, NEW v \in Relays, Handlers # {}
    PROVE  Calm /\ Called(j) => Drops(j, n, 1)
<1> DEFINE P == Below(j, n + 1)  Q == Over(j) \/ Below(j, n)
           A == AwaitedAt(j, n, "date")  B == AwaitedAt(j, n, "relay")
           C1 == AwaitedAt(j, n, "send")  C2 == AwaitedAt(j, n, "answer")
           C3 == AwaitedAt(j, n, "end")
           I == relay[v] = IdleRelay  D == ElapseDue(j)  T == TakeUpDue(j)
<1>1. RefundInv /\ [Next]_vars /\ [faults' = faults]_vars => (A => A' \/ Q') /\ (B => B' \/ Q')
  BY AwaitedStays
<1>2. RefundInv => /\ A /\ <<Elapse(j)>>_vars => Q'
                   /\ B /\ <<\E r \in Relays : TakeUp(r, j)>>_vars => Q'
  BY AwaitedStep
<1>3. RefundInv => (A => D) /\ (B /\ I => T)
  BY AwaitedDue DEF TakeUpDue
<1>4. RefundInv => (P => A \/ B \/ C1 \/ C2 \/ C3 \/ Q)
  <2> SUFFICES ASSUME RefundInv, P, ~Below(j, n) PROVE A \/ B \/ C1 \/ C2 \/ C3
    OBVIOUS
  <2>1. DeliveryLeft(delivery[j].held, Place(j)) \in 1 .. 14
    BY PlaceFacts DEF Below
  <2>2. Owed(j) /\ DeliveryLeft(delivery[j].held, Place(j)) = n
    BY <2>1 DEF Below
  <2> QED
    BY <2>2, AwaitedDue
<1>5. Called(j) => /\ <>[]D => []<><<Elapse(j)>>_vars
                   /\ []<>T => []<><<\E r \in Relays : TakeUp(r, j)>>_vars
  BY DEF Called
<1>6. Steady => GetsIdle(v)
  BY IdleAgain
<1>7. Calm => (C1 => Lowers(j, n)) /\ (C2 => Lowers(j, n)) /\ (C3 => Lowers(j, n))
  BY SentComes, AnswerLowers, EndLowers
<1> HIDE DEF P, A, B, C1, C2, C3, I, D, T, Q
<1>8. Calm => (C1 \/ C2 \/ C3 => <>Q)
  BY <1>7, PTL DEF Lowers, Q
<1>9. Calm /\ Called(j) => (A => <>Q)
  BY <1>1, <1>2, <1>3, <1>5, PTL DEF Calm, Steady
<1>10. Calm /\ Called(j) => (B => <>Q)
  BY <1>1, <1>2, <1>3, <1>5, <1>6, PTL DEF Calm, Steady, GetsIdle, I
<1>11. Calm /\ Called(j) => (P ~> Q)
  BY <1>4, <1>5, <1>8, <1>9, <1>10, PTL DEF Calm, Steady, Called, D, T
<1> QED
  BY <1>11, PTL DEF Drops, P, Q

\* And m more after m.
LEMMA DropsTwice ==
    ASSUME NEW j \in Jobs, NEW n \in Nat, NEW m \in Nat
    PROVE  Drops(j, n + m, m) /\ Drops(j, n, m) => Drops(j, n, 2 * m)
<1>1. Below(j, (n + m) + m) <=> Below(j, n + 2 * m)
  <2>1. (n + m) + m = n + 2 * m
    OBVIOUS
  <2> QED
    BY <2>1
<1> QED
  BY <1>1, PTL DEF Drops

\* So twice as many come as do from everywhere.
LEMMA DropsDouble ==
    ASSUME NEW j \in Jobs, NEW m \in Nat
    PROVE  (\A n \in Nat : Drops(j, n, m)) => \A n \in Nat : Drops(j, n, 2 * m)
<1>1. \A n \in Nat : n + m \in Nat
  OBVIOUS
<1>2. \A n \in Nat : Drops(j, n + m, m) /\ Drops(j, n, m) => Drops(j, n, 2 * m)
  BY DropsTwice
<1> QED
  BY <1>1, <1>2

\* More than a rank can be.
LEMMA DropsAll ==
    ASSUME NEW j \in Jobs, Relays # {}, Handlers # {}
    PROVE  Calm /\ Called(j) => Drops(j, 0, 16)
<1> PICK v \in Relays : TRUE
  OBVIOUS
<1>1. Calm /\ Called(j) => \A n \in Nat : Drops(j, n, 1)
  BY DropsOne
<1>2. (\A n \in Nat : Drops(j, n, 1)) => \A n \in Nat : Drops(j, n, 2)
  BY DropsDouble, 2 * 1 = 2
<1>3. (\A n \in Nat : Drops(j, n, 2)) => \A n \in Nat : Drops(j, n, 4)
  BY DropsDouble, 2 * 2 = 4
<1>4. (\A n \in Nat : Drops(j, n, 4)) => \A n \in Nat : Drops(j, n, 8)
  BY DropsDouble, 2 * 4 = 8
<1>5. (\A n \in Nat : Drops(j, n, 8)) => Drops(j, 0, 16)
  BY DropsDouble, 2 * 8 = 16
<1> QED
  BY <1>1, <1>2, <1>3, <1>4, <1>5

\* Also while something fails a refund is owed until the wait for it is over.
LEMMA OwedStays ==
    ASSUME RefundInv, RefundInv', [Next]_vars, NEW j \in Jobs, Owed(j)
    PROVE  Owed(j)' \/ Over(j)'
<1>1. status'[j] \in Job!Settled \/ status'[j] = "deleting"
  <2>1. ASSUME NEW i \in Jobs, WorkerWrites(i) \/ CancelJob(i) PROVE status'[j] = status[j]
    <3>1. /\ \E s : status' = [status EXCEPT ![i] = s]
          /\ status[i] \in {"queued", "processing"}
      BY <2>1 DEF WorkerWrites, CancelJob, Job!Start, Job!Advance, Job!Complete, Job!Requeue,
         Job!Fail, Job!Cancel, Job!Publish
    <3> QED
      BY <3>1, OwedFacts DEF Active, RefundInv, OutboxInv, TypeOK
  <2>2. ASSUME NEW i \in Jobs, DeleteJob(i) \/ ExpireJob(i)
        PROVE  status'[j] \in {status[j], "deleting"}
    BY <2>2 DEF DeleteJob, ExpireJob, Withdraw, Job!Delete, Job!Publish, RefundInv, OutboxInv,
       TypeOK
  <2>3. ASSUME NEW i \in Jobs, RepeatRequest(i) \/ FinishJob(i) \/ Elapse(i) \/ LeaseEnds(i)
        PROVE  status' = status
    BY <2>3 DEF RepeatRequest, FinishJob, Elapse, LeaseEnds, Release, jobVars
  <2>4. ASSUME NEW r \in Relays, RelayStep(r) \/ CallFails(r) \/ RelayCrash(r)
        PROVE  status' = status
    BY <2>4 DEF RelayStep, TakeUp, Send, Settle, CallFails, RelayCrash, jobVars
  <2>5. ASSUME NEW h \in Handlers, HandlerStep(h) \/ HandlerFails(h) PROVE status' = status
    BY <2>5 DEF HandlerStep, ReadJob, Refund, StoreAck, Answer, HandlerFails, jobVars
  <2>6. RetryBlocked \/ GatewayCrash \/ UNCHANGED vars => status' = status
    BY DEF RetryBlocked, GatewayCrash, vars, jobVars
  <2> QED
    BY <2>1, <2>2, <2>3, <2>4, <2>5, <2>6 DEF Next, JobStep, FaultStep, Owed
<1>2. ASSUME status'[j] \in Job!Settled, reserved'[j]
      PROVE  delivery'[j].state \in {"pending", "sending", "blocked"}
  <2>1. JobSound(j)' /\ delivery'[j] \in Delivery
    BY DEF RefundInv, OutboxInv, TypeOK
  <2> QED
    BY <1>2, <2>1 DEF JobSound, Active, Delivery, Job!Settled
<1> QED
  BY <1>1, <1>2 DEF Owed, Over, RefundInv, OutboxInv, TypeOK

\* Every settled job is refunded in the end, unless its delivery is blocked or its
\* owner deletes it, for every number of jobs, relays and requests: if gateway and
\* relays go on with what they are at, a relay that has something to send gets a
\* request at last, dates come, what is due is taken up, and failures stop.  Whatever
\* crash, lost answer or ended lease came before, and however many relays and requests
\* still carry older notifications, cannot keep it from that (deliver_one of
\* ai-service/utils/callbacks.py, receiveProgress of internalController.js).
THEOREM RefundedInTheEnd ==
    ASSUME Relays # {}, Handlers # {}
    PROVE  Spec /\ []CallsServed /\ []RelaysAttended /\ JobsCalled /\ <>[][faults' = faults]_vars
             => EventuallyRefunded
<1> SUFFICES ASSUME NEW j \in Jobs
             PROVE  Spec /\ []CallsServed /\ []RelaysAttended /\ JobsCalled
                      /\ <>[][faults' = faults]_vars
                      => ((status[j] \in Job!Settled /\ reserved[j])
                            ~> (~reserved[j] \/ delivery[j].state = "blocked"
                                  \/ status[j] = "deleting"))
  BY DEF EventuallyRefunded
<1> DEFINE S == status[j] \in Job!Settled /\ reserved[j]
<1>1. JobsCalled => Called(j)
  BY DEF JobsCalled
<1>2. RefundInv => /\ S => Owed(j) \/ Over(j)
                   /\ Owed(j) => Below(j, 0 + 16)
                   /\ ~Below(j, 0)
  <2> SUFFICES ASSUME RefundInv
               PROVE  /\ S => Owed(j) \/ Over(j)
                      /\ Owed(j) => Below(j, 0 + 16)
                      /\ ~Below(j, 0)
    OBVIOUS
  <2>1. S => Owed(j) \/ Over(j)
    <3>1. JobSound(j) /\ delivery[j] \in Delivery
      BY DEF RefundInv, OutboxInv, TypeOK
    <3> QED
      BY <3>1 DEF JobSound, Active, Delivery, Job!Settled, Owed, Over
  <2>2. Owed(j) => DeliveryLeft(delivery[j].held, Place(j)) \in 1 .. 14
    BY PlaceFacts
  <2> QED
    BY <2>1, <2>2 DEF Below
<1>3. Over(j) <=> ~reserved[j] \/ delivery[j].state = "blocked" \/ status[j] = "deleting"
  BY DEF Over
<1>4. Calm /\ Called(j) => Drops(j, 0, 16)
  BY DropsAll
<1>5. RefundInv /\ RefundInv' /\ [Next]_vars /\ Owed(j) => Owed(j)' \/ Over(j)'
  BY OwedStays
<1> HIDE DEF S
<1>6. Steady /\ Called(j) /\ <>[][faults' = faults]_vars => (S ~> Over(j))
  BY <1>2, <1>4, <1>5, PTL DEF Calm, Steady, Called, Drops
<1> QED
  BY <1>1, <1>3, <1>6, RefundInvariant, PTL DEF Spec, Steady, S

=============================================================================
