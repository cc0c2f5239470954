----------------------------- MODULE MCDeletion -----------------------------
(* Small instances of Deletion for TLC. *)
EXTENDS Deletion

MCOneJob == {1}
MCTwoJobs == {1, 2}

\* All jobs have the same upload, as successors made by an older deployment do.
MCOneFile == [j \in Jobs |-> CHOOSE f \in Files : TRUE]

\* Where the run begins: a job that is executed, beside the tombstone of the other;
\* or two completed jobs, whose cleanups meet at their original.
MCInit ==
    /\ Init
    /\ status[2] # "deleted" => \A j \in Jobs : status[j] = "settled"

MCSpec == MCInit /\ [][Next]_vars /\ Fairness

=============================================================================
