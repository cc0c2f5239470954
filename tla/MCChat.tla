------------------------------- MODULE MCChat -------------------------------
(* A small instance of Chat for TLC. *)
EXTENDS Chat, TLC

MCOneJob == {1}
MCNoFile == [j \in Jobs |-> NoFile]

MCSymmetry == Permutations(Workers) \cup Permutations(Requests)

=============================================================================
