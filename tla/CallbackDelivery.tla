-------------------------- MODULE CallbackDelivery --------------------------
(***************************************************************************)
(* The coalescing outbox between the worker and the gateway.  Every write  *)
(* that publishes a version of a job leaves a pending notification in the  *)
(* same document; the relay threads of ai-service/utils/                   *)
(* callback_delivery.py send it to the gateway's receiveProgress, which    *)
(* releases the job's reservation once the job is settled and then records *)
(* the acknowledged version.                                               *)
(*                                                                         *)
(* What happens to the job itself is JobLifecycle, which JobQueue is shown *)
(* to implement.  A notification names the attempt and the version; as an  *)
(* attempt identifier only changes together with the version, comparing    *)
(* versions is comparing both.  A date of the delivery record is kept as   *)
(* held: whether it still lies in the future.  A job whose cleanup is over *)
(* ("deleted" in the code) stays in "deleting": no query here tells them   *)
(* apart, but for a repeated delete, which then does nothing.              *)
(***************************************************************************)
EXTENDS Integers, FiniteSets

CONSTANTS
    Jobs, MaxAttempts, LastStage,   \* those of JobLifecycle
    Relays,         \* relay threads, one per worker process
    Handlers,       \* requests the gateway serves at a time
    NoRelay, NoHandler,
    MaxDeliveries,  \* MAX_DELIVERIES (8 in the code)
    MaxVersion,     \* bound: versions of a job in a behaviour
    MaxFaults       \* bound: crashes, errors and timeouts in a behaviour

ASSUME DeliveryAssumption ==
    /\ Jobs \subseteq Nat
    /\ MaxAttempts \in Nat \ {0}
    /\ LastStage \in Nat \ {0, 1}
    /\ NoRelay \notin Relays /\ NoHandler \notin Handlers
    /\ MaxDeliveries \in Nat \ {0}
    /\ MaxVersion \in Nat /\ MaxFaults \in Nat

VARIABLES
    status, percent, attempts, version,  \* the job, as in JobLifecycle
    delivery,      \* the delivery subdocument
    callbackAck,   \* the last version the gateway acknowledged
    reserved,      \* whether the job's usage reservation is held
    relay,         \* what each relay is doing
    call,          \* the requests the gateway is serving
    closing,       \* jobs a cancel or delete request is about to release
    faults         \* of what MaxFaults bounds, how much so far

jobVars == <<status, percent, attempts, version>>
outboxVars == <<delivery, relay>>
gatewayVars == <<callbackAck, reserved, call, closing>>
vars == <<jobVars, outboxVars, gatewayVars, faults>>

Job == INSTANCE JobLifecycle

----------------------------------------------------------------------------
(* Types *)

None    == [state |-> "none", attempts |-> 0, held |-> FALSE, token |-> NoRelay]
Pending == [state |-> "pending", attempts |-> 0, held |-> FALSE, token |-> NoRelay]

\* The attempts that matter: above the maximum all counts are treated alike.
Tries == 0 .. MaxDeliveries + 1

Delivery ==
    [state    : {"none", "pending", "sending", "delivered", "blocked"},
     attempts : Tries,
     held     : BOOLEAN,
     token    : Relays \cup {NoRelay}]

IdleRelay == [step |-> "idle"]
BusyRelay ==
    [step  : {"send", "wait", "acked", "retry", "fatal"},
     job   : Jobs, version : 0 .. MaxVersion, tries : Tries,
     on    : Handlers \cup {NoHandler}]

FreeCall == [step |-> "free"]
Call ==
    [step : {"read", "refund", "store", "ack", "error"},
     job  : Jobs, version : 0 .. MaxVersion]

TypeOK ==
    /\ status \in [Jobs -> Job!Statuses]
    /\ percent \in [Jobs -> 0 .. LastStage]
    /\ attempts \in [Jobs -> 0 .. MaxAttempts]
    /\ version \in [Jobs -> 0 .. MaxVersion]
    /\ delivery \in [Jobs -> Delivery]
    /\ \A j \in Jobs : delivery[j].token # NoRelay <=> delivery[j].state = "sending"
    /\ callbackAck \in [Jobs -> 0 .. MaxVersion]
    /\ reserved \in [Jobs -> BOOLEAN]
    /\ relay \in [Relays -> BusyRelay \cup {IdleRelay}]
    /\ call \in [Handlers -> Call \cup {FreeCall}]
    /\ closing \subseteq Jobs
    /\ faults \in 0 .. MaxFaults

----------------------------------------------------------------------------

\* The jobs were accepted: each holds its reservation.
Init ==
    /\ Job!Init
    /\ delivery = [j \in Jobs |-> None]
    /\ callbackAck = [j \in Jobs |-> 0]
    /\ reserved = [j \in Jobs |-> TRUE]
    /\ relay = [r \in Relays |-> IdleRelay]
    /\ call = [h \in Handlers |-> FreeCall]
    /\ closing = {}
    /\ faults = 0

Fault ==
    /\ faults < MaxFaults
    /\ faults' = faults + 1

----------------------------------------------------------------------------
(* The writers of the job *)

\* A published change replaces the notification of an earlier version, also
\* one that is being sent.
Announce(j) ==
    /\ version[j] < MaxVersion
    /\ delivery' = [delivery EXCEPT ![j] = Pending]

WorkerWrites(j) ==
    /\ \/ Job!Start(j)
       \/ Job!Advance(j)
       \/ Job!Complete(j)
       \/ Job!Requeue(j)
       \/ Job!Fail(j)
    /\ Announce(j)
    /\ UNCHANGED <<relay, gatewayVars, faults>>

\* cancelJob stores the status and the notification, then calls finishJob.
CancelJob(j) ==
    /\ Job!Cancel(j)
    /\ Announce(j)
    /\ closing' = closing \cup {j}
    /\ UNCHANGED <<relay, callbackAck, reserved, call, faults>>

Withdraw(j) ==
    /\ version[j] < MaxVersion
    /\ Job!Delete(j)
    /\ delivery' = [delivery EXCEPT ![j] = None]

\* deleteJob removes the notification and calls finishJob itself ...
DeleteJob(j) ==
    /\ Withdraw(j)
    /\ closing' = closing \cup {j}
    /\ UNCHANGED <<relay, callbackAck, reserved, call, faults>>

\* ... the retention scan does not.
ExpireJob(j) ==
    /\ Withdraw(j)
    /\ UNCHANGED <<relay, gatewayVars, faults>>

\* A cancel or delete request is repeated, or a retry asked of a failed or
\* cancelled job: each begins with finishJob.
RepeatRequest(j) ==
    /\ status[j] \in {"failed", "cancelled", "deleting"}
    /\ j \notin closing
    /\ closing' = closing \cup {j}
    /\ UNCHANGED <<jobVars, outboxVars, callbackAck, reserved, call, faults>>

\* The finishJob of such a request.
FinishJob(j) ==
    /\ j \in closing
    /\ reserved' = [reserved EXCEPT ![j] = FALSE]
    /\ closing' = closing \ {j}
    /\ UNCHANGED <<jobVars, outboxVars, callbackAck, call, faults>>

----------------------------------------------------------------------------
(* The relay *)

\* Mutant: an interrupted delivery is never taken up again.
DuePendingOnly(d) == d.state = "pending" /\ ~d.held

\* What the query of deliver_one matches, for a job that is not deleted.
Due(d) == d.state \in {"pending", "sending"} /\ ~d.held

TakeUp(r, j) ==
    LET d     == delivery[j]
        tries == IF d.attempts > MaxDeliveries THEN d.attempts ELSE d.attempts + 1
    IN  /\ relay[r] = IdleRelay
        /\ status[j] # "deleting"
        /\ Due(d)
        /\ delivery' = [delivery EXCEPT ![j] =
                [state |-> "sending", attempts |-> tries, held |-> TRUE, token |-> r]]
        /\ relay' = [relay EXCEPT ![r] =
                [step |-> IF tries <= MaxDeliveries THEN "send" ELSE "retry",
                 job |-> j, version |-> version[j], tries |-> tries, on |-> NoHandler]]
        /\ UNCHANGED <<jobVars, gatewayVars, faults>>

Send(r) ==
    /\ relay[r].step = "send"
    /\ \E h \in Handlers :
        /\ call[h] = FreeCall
        /\ call' = [call EXCEPT ![h] =
                [step |-> "read", job |-> relay[r].job, version |-> relay[r].version]]
        /\ relay' = [relay EXCEPT ![r].step = "wait", ![r].on = h]
    /\ UNCHANGED <<jobVars, delivery, callbackAck, reserved, closing, faults>>

\* The call times out or the connection breaks, before or while the gateway
\* serves it, or it is answered by something that is no acknowledgement.
CallFails(r) ==
    /\ relay[r].step \in {"send", "wait"}
    /\ Fault
    /\ \E outcome \in {"retry", "fatal"} :
        relay' = [relay EXCEPT ![r].step = outcome, ![r].on = NoHandler]
    /\ UNCHANGED <<jobVars, delivery, gatewayVars>>

\* The filter of the two updates that end a delivery.
OwnsDelivery(r) ==
    /\ delivery[relay[r].job].token = r
    /\ version[relay[r].job] = relay[r].version

\* A delivery that ended: its token and its lease are removed, a retry waits.
Ended(d, state) == [d EXCEPT !.state = state, !.held = (state = "pending"), !.token = NoRelay]

Settle(r) ==
    /\ relay[r].step \in {"acked", "retry", "fatal"}
    /\ LET j == relay[r].job
           blocked == relay[r].step = "fatal" \/ relay[r].tries >= MaxDeliveries
       IN  IF OwnsDelivery(r)
           THEN delivery' = [delivery EXCEPT ![j] =
                    Ended(@, IF relay[r].step = "acked" THEN "delivered"
                             ELSE IF blocked THEN "blocked" ELSE "pending")]
           ELSE UNCHANGED delivery
    /\ relay' = [relay EXCEPT ![r] = IdleRelay]
    /\ UNCHANGED <<jobVars, gatewayVars, faults>>

\* The relay's process dies or its database call fails: the loop starts over.
RelayCrash(r) ==
    /\ relay[r] # IdleRelay
    /\ Fault
    /\ relay' = [relay EXCEPT ![r] = IdleRelay]
    /\ UNCHANGED <<jobVars, delivery, gatewayVars>>

\* The operator repaired the cause and runs --retry-callbacks.
RetryBlocked ==
    /\ \E j \in Jobs : delivery[j].state = "blocked"
    /\ delivery' = [j \in Jobs |-> IF delivery[j].state = "blocked" THEN Pending ELSE delivery[j]]
    /\ UNCHANGED <<jobVars, relay, gatewayVars, faults>>

\* A relay is at work on the delivery it took up.
InProgress(j) ==
    \E r \in Relays : delivery[j].token = r /\ relay[r] # IdleRelay /\ relay[r].job = j

Release(j) ==
    /\ delivery[j].held
    /\ delivery' = [delivery EXCEPT ![j].held = FALSE]
    /\ UNCHANGED <<jobVars, relay, gatewayVars>>

\* The date a retry waits for, or the end of the lease of a relay that is gone.
Elapse(j) == Release(j) /\ ~InProgress(j) /\ UNCHANGED faults

\* The lease is longer than the HTTP timeout, which does not bound the relay's
\* own pauses.
LeaseEnds(j) == Release(j) /\ InProgress(j) /\ Fault

----------------------------------------------------------------------------
(* The gateway: receiveProgress *)

\* Mutants: a version is taken for acknowledged one too early; a cancelled job
\* is not settled.
AcknowledgedEarly(ack, v) == ack >= v - 1
ReleasesUncancelled(s) == s \in {"completed", "failed"}

Acknowledged(ack, v) == ack >= v

\* The statuses whose reservation is released before the acknowledgement.
Releases(s) == s \in Job!Settled

Continue(h, step) == call' = [call EXCEPT ![h].step = step]

ReadJob(h) ==
    LET j == call[h].job
        v == call[h].version
    IN  /\ call[h].step = "read"
        /\ Continue(h, CASE version[j] # v \/ Acknowledged(callbackAck[j], v) -> "ack"
                         [] OTHER -> IF Releases(status[j]) THEN "refund" ELSE "store")
        /\ UNCHANGED <<jobVars, outboxVars, callbackAck, reserved, closing, faults>>

Refund(h) ==
    /\ call[h].step = "refund"
    /\ reserved' = [reserved EXCEPT ![call[h].job] = FALSE]
    /\ Continue(h, "store")
    /\ UNCHANGED <<jobVars, outboxVars, callbackAck, closing, faults>>

\* The filter of the update that stores the acknowledgement.
Stores(j, v) == version[j] = v /\ callbackAck[j] < v

StoreAck(h) ==
    LET j == call[h].job
        v == call[h].version
    IN  /\ call[h].step = "store"
        /\ callbackAck' = IF Stores(j, v) THEN [callbackAck EXCEPT ![j] = v] ELSE callbackAck
        /\ Continue(h, "ack")
        /\ UNCHANGED <<jobVars, outboxVars, reserved, closing, faults>>

\* A database error becomes a 500.
HandlerFails(h) ==
    /\ call[h].step \in {"read", "refund", "store"}
    /\ Fault
    /\ Continue(h, "error")
    /\ UNCHANGED <<jobVars, outboxVars, callbackAck, reserved, closing>>

\* The answer reaches the relay that still waits for it.
Answer(h) ==
    /\ call[h].step \in {"ack", "error"}
    /\ relay' = [r \in Relays |->
            IF relay[r].step = "wait" /\ relay[r].on = h
            THEN [relay[r] EXCEPT !.step = IF call[h].step = "ack" THEN "acked" ELSE "retry",
                                  !.on = NoHandler]
            ELSE relay[r]]
    /\ call' = [call EXCEPT ![h] = FreeCall]
    /\ UNCHANGED <<jobVars, delivery, callbackAck, reserved, closing, faults>>

\* The gateway stops: its requests are lost and their connections break.
GatewayCrash ==
    /\ Fault
    /\ call' = [h \in Handlers |-> FreeCall]
    /\ closing' = {}
    /\ relay' = [r \in Relays |->
            IF relay[r].step = "wait"
            THEN [relay[r] EXCEPT !.step = "retry", !.on = NoHandler] ELSE relay[r]]
    /\ UNCHANGED <<jobVars, delivery, callbackAck, reserved>>

----------------------------------------------------------------------------

JobStep(j) ==
    \/ WorkerWrites(j)
    \/ CancelJob(j)
    \/ DeleteJob(j)
    \/ ExpireJob(j)
    \/ RepeatRequest(j)
    \/ FinishJob(j)

RelayStep(r) == (\E j \in Jobs : TakeUp(r, j)) \/ Send(r) \/ Settle(r)

HandlerStep(h) == ReadJob(h) \/ Refund(h) \/ StoreAck(h) \/ Answer(h)

FaultStep ==
    \/ \E r \in Relays : CallFails(r) \/ RelayCrash(r)
    \/ \E h \in Handlers : HandlerFails(h)
    \/ \E j \in Jobs : LeaseEnds(j)
    \/ GatewayCrash

Next ==
    \/ \E j \in Jobs : JobStep(j) \/ Elapse(j)
    \/ \E r \in Relays : RelayStep(r)
    \/ \E h \in Handlers : HandlerStep(h)
    \/ RetryBlocked
    \/ FaultStep

Spec == Init /\ [][Next]_vars

\* The relays and the gateway run (a crashed one is started again) and dates
\* pass.  Of what is due the oldest is taken up first, and a request waits its
\* turn at the gateway.  Nothing is assumed of the worker, the owner and the
\* operator.
Fairness ==
    /\ \A r \in Relays : SF_vars(Send(r)) /\ WF_vars(Settle(r))
    /\ \A h \in Handlers : WF_vars(HandlerStep(h))
    /\ \A j \in Jobs : SF_vars(\E r \in Relays : TakeUp(r, j)) /\ WF_vars(Elapse(j))

FairSpec == Spec /\ Fairness

----------------------------------------------------------------------------
(* Properties *)

\* A settled job whose reservation is still held has a notification that is
\* to come, on its way or blocked for the operator: no crash, lost answer or
\* late answer of an earlier notification ends the delivery before the refund.
\* And none releases the reservation of a job that waits or runs.
RefundOwed ==
    \A j \in Jobs :
        /\ status[j] \in Job!Settled /\ reserved[j]
             => delivery[j].state \in {"pending", "sending", "blocked"}
        /\ status[j] \in {"queued", "processing"} => reserved[j]

\* A delivery is marked as delivered only for the version the gateway
\* acknowledged, never because of the answer to an older one.
DeliveredIsAcked ==
    \A j \in Jobs : delivery[j].state = "delivered" => callbackAck[j] = version[j]

\* Every settled job is refunded in the end, unless its delivery is blocked or
\* its owner deletes it.
EventuallyRefunded ==
    \A j \in Jobs :
        (status[j] \in Job!Settled /\ reserved[j])
            ~> (~reserved[j] \/ delivery[j].state = "blocked" \/ status[j] = "deleting")

=============================================================================
