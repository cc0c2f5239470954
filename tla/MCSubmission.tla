---------------------------- MODULE MCSubmission ----------------------------
(* Small instances of Submission for TLC. *)
EXTENDS Submission, TLC

\* Keys and requests are interchangeable: no definition tells two apart.
MCSymmetry == Permutations(Keys) \cup Permutations(Requests)

=============================================================================
