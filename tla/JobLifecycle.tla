---------------------------- MODULE JobLifecycle ----------------------------
(***************************************************************************)
(* What the owner of a job may observe of it through GET /jobs: a status,  *)
(* a percentage, the number of executions started so far and a version     *)
(* that grows by one with every published change.  This is the abstract    *)
(* contract of the job document; JobQueue, the model of the worker and of  *)
(* the gateway's handlers, is shown to implement it.                       *)
(*                                                                         *)
(* Percentages are stage numbers: stage n stands for the n-th of the ten   *)
(* percentages of the worker's table (5, 20, 45, ..., 95, 100), which is   *)
(* strictly increasing, so comparing numbers is comparing percentages.     *)
(***************************************************************************)
EXTENDS Integers

CONSTANTS
    Jobs,          \* the jobs, by creation date
    MaxAttempts,   \* executions a job may consume (execution.maxAttempts)
    LastStage      \* the number of the "completed" stage

VARIABLES status, percent, attempts, version

vars == <<status, percent, attempts, version>>

Settled  == {"completed", "failed", "cancelled"}
Statuses == {"queued", "processing", "deleting"} \cup Settled

----------------------------------------------------------------------------

Init ==
    /\ status   = [j \in Jobs |-> "queued"]
    /\ percent  = [j \in Jobs |-> 0]
    /\ attempts = [j \in Jobs |-> 0]
    /\ version  = [j \in Jobs |-> 0]

\* Every published change carries the next version.
Publish(j, s) ==
    /\ status'  = [status EXCEPT ![j] = s]
    /\ version' = [version EXCEPT ![j] = @ + 1]

\* An execution starts: it consumes one attempt and its progress restarts.
Start(j) ==
    /\ status[j] = "queued"
    /\ attempts[j] < MaxAttempts
    /\ Publish(j, "processing")
    /\ attempts' = [attempts EXCEPT ![j] = @ + 1]
    /\ percent'  = [percent EXCEPT ![j] = 0]

\* Progress of one execution never goes back.
Advance(j) ==
    /\ status[j] = "processing"
    /\ Publish(j, "processing")
    /\ \E p \in percent[j] .. (LastStage - 1) : percent' = [percent EXCEPT ![j] = p]
    /\ UNCHANGED attempts

Complete(j) ==
    /\ status[j] = "processing"
    /\ Publish(j, "completed")
    /\ percent' = [percent EXCEPT ![j] = LastStage]
    /\ UNCHANGED attempts

\* A failed execution is retried while attempts are left, and only then.
Requeue(j) ==
    /\ status[j] = "processing"
    /\ attempts[j] < MaxAttempts
    /\ Publish(j, "queued")
    /\ UNCHANGED <<percent, attempts>>

Fail(j) ==
    /\ status[j] = "processing"
    /\ attempts[j] = MaxAttempts
    /\ Publish(j, "failed")
    /\ UNCHANGED <<percent, attempts>>

Cancel(j) ==
    /\ status[j] \in {"queued", "processing"}
    /\ Publish(j, "cancelled")
    /\ UNCHANGED <<percent, attempts>>

\* The owner or the retention policy marks the job: no way back.
Delete(j) ==
    /\ status[j] # "deleting"
    /\ Publish(j, "deleting")
    /\ UNCHANGED <<percent, attempts>>

Next ==
    \E j \in Jobs :
        \/ Start(j)
        \/ Advance(j)
        \/ Complete(j)
        \/ Requeue(j)
        \/ Fail(j)
        \/ Cancel(j)
        \/ Delete(j)

Spec == Init /\ [][Next]_vars

=============================================================================
