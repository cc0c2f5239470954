------------------------------ MODULE LiveView ------------------------------
(***************************************************************************)
(* What the list of jobs and the page of one job share: requests under     *)
(* way, whose answers come in any order, and job:update events on the      *)
(* socket there was when the view was opened (client/src/lib/socket.js and *)
(* emitJobUpdate of the gateway).                                          *)
(***************************************************************************)
EXTENDS Integers, FiniteSets, Sequences, SequencesExt

CONSTANTS
    MaxCalls,      \* requests under way at a time
    MaxPushes,     \* bound: events on their way
    MaxFaults      \* bound: failed requests, failed cleanups, and deletions asked
                   \* for again while they are under way

ASSUME ViewAssumption ==
    MaxCalls \in Nat \ {0} /\ MaxPushes \in Nat /\ MaxFaults \in Nat

VARIABLES
    doc,        \* the job document, or one for each job
    pushes,     \* events on their way to the live socket
    listening,  \* the live socket is the one the view listens to
    view,       \* the state of the list or of the page
    calls,      \* its requests under way, the oldest first
    faults      \* of what MaxFaults bounds, how much so far

vars == <<doc, pushes, listening, view, calls, faults>>

Cleanups == {"none", "pending", "failed"}     \* deletion.state of a job that is kept

MayCall == Len(calls) < MaxCalls

Fault == faults < MaxFaults /\ faults' = faults + 1

\* emitJobUpdate, for a client that is connected or not.
Emit(e) ==
    \/ UNCHANGED pushes
    \/ Cardinality(pushes) < MaxPushes /\ pushes' = pushes \cup {e}

\* A token refresh opens another socket; the view listens to the old one.
TokenRefreshed ==
    /\ listening
    /\ listening' = FALSE /\ pushes' = {}
    /\ UNCHANGED <<doc, view, calls, faults>>

\* The n-th smallest of some numbers.
Nth(S, n) == CHOOSE i \in S : Cardinality({h \in S : h < i}) = n - 1
=============================================================================
