----------------------------- MODULE UserBudget -----------------------------
(***************************************************************************)
(* What usageService.js promises of a user's active jobs: a job takes a    *)
(* place while there is one, and places are only taken that way.  There is *)
(* no document, no clock, no lease and no request that read its clock      *)
(* before.  Admission and Submission are shown to implement it.            *)
(***************************************************************************)
EXTENDS Integers, FiniteSets

CONSTANTS
    Users,
    Jobs,    \* the jobs of a user
    Limit    \* places of a user

VARIABLE
    live     \* the jobs of each user that have a place

Init == live = [u \in Users |-> {}]

Reserve(u, j) ==
    /\ Cardinality(live[u]) < Limit
    /\ live' = [live EXCEPT ![u] = @ \cup {j}]

\* Released, or their time is over, which may be that of several at once.
Lose ==
    /\ live' \in [Users -> SUBSET Jobs]
    /\ \A u \in Users : live'[u] \subseteq live[u]

Next == Lose \/ \E u \in Users, j \in Jobs : Reserve(u, j)

Spec == Init /\ [][Next]_live

=============================================================================
