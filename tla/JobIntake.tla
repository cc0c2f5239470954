------------------------------ MODULE JobIntake ------------------------------
(***************************************************************************)
(* What submitting under a key promises: the abstract contract of          *)
(* server/src/services/jobSubmission.js, usageService.js and jobMedia.js   *)
(* together.  It has no requests, leases, tokens, lost answers or scans.   *)
(* From "running" on a job goes through JobLifecycle, of which only its    *)
(* end matters here.  Submission is shown to implement it.                 *)
(***************************************************************************)
EXTENDS Integers, FiniteSets

CONSTANTS
    Keys,
    Inputs, NoInput,   \* what is submitted
    FileInputs,        \* the inputs that come with a file
    Limit              \* reservations of the user that count at a time

VARIABLES
    phase,             \* of the job of each key
    input,             \* what it was made from
    reservation,       \* its place in the user's budget
    originals          \* the keys whose file is stored

vars == <<phase, input, reservation, originals>>

Phases == {"none", "open", "running", "settled", "deleting", "deleted"}
Places == {"none", "held", "expired"}

\* Who counts against the limit.
Held == {k \in Keys : reservation[k] = "held"}

Init ==
    /\ phase = [k \in Keys |-> "none"]
    /\ input = [k \in Keys |-> NoInput]
    /\ reservation = [k \in Keys |-> "none"]
    /\ originals = {}

Moves(k, from, to) == phase[k] \in from /\ phase' = [phase EXCEPT ![k] = to]

\* The first submission of a key decides what its job is made from.
Open(k) ==
    /\ Moves(k, {"none"}, "open")
    /\ \E i \in Inputs : input' = [input EXCEPT ![k] = i]
    /\ UNCHANGED <<reservation, originals>>

\* Reserved while there is room, for a job that exists.
Reserve(k) ==
    /\ phase[k] # "none"
    /\ Cardinality(Held) < Limit
    /\ reservation' = [reservation EXCEPT ![k] = "held"]
    /\ UNCHANGED <<phase, input, originals>>

\* One change makes the job runnable, with its reservation and its file.
Run(k) ==
    /\ Moves(k, {"open"}, "running")
    /\ reservation[k] # "none"
    /\ originals' = IF input[k] \in FileInputs THEN originals \cup {k} ELSE originals
    /\ UNCHANGED <<input, reservation>>

Settle(k) ==
    /\ Moves(k, {"running"}, "settled")
    /\ UNCHANGED <<input, reservation, originals>>

Delete(k) ==
    /\ Moves(k, {"open", "running", "settled"}, "deleting")
    /\ UNCHANGED <<input, reservation, originals>>

\* Nothing is given back while the job may still run, but what expires.
Release(k) ==
    /\ phase[k] \in {"settled", "deleting", "deleted"}
    /\ reservation[k] = "held"
    /\ reservation' = [reservation EXCEPT ![k] = "none"]
    /\ UNCHANGED <<phase, input, originals>>

Expire(k) ==
    /\ reservation[k] = "held"
    /\ reservation' = [reservation EXCEPT ![k] = "expired"]
    /\ UNCHANGED <<phase, input, originals>>

\* Only the erasure of its own job removes an original.
Erase(k) ==
    /\ Moves(k, {"deleting"}, "deleted")
    /\ input' = [input EXCEPT ![k] = NoInput]
    /\ originals' = originals \ {k}
    /\ UNCHANGED reservation

Next ==
    \E k \in Keys :
        \/ Open(k) \/ Reserve(k) \/ Run(k) \/ Settle(k)
        \/ Delete(k) \/ Release(k) \/ Expire(k) \/ Erase(k)

Spec == Init /\ [][Next]_vars

=============================================================================
