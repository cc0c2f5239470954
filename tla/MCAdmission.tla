---------------------------- MODULE MCAdmission ----------------------------
(* Two users with two jobs and two requests at a time; two days of two       *)
(* ticks, a lease of one day, a budget of one question and of one job, or of *)
(* two when the first is measured shorter than it was charged.               *)
EXTENDS Admission, TLC

MCDurations == {1, 3}
MCWindow == [job |-> 2, question |-> 1]
MCWindowMax == [job |-> 1, question |-> 1]
MCSymmetry ==
    Permutations(Users) \cup Permutations(Jobs) \cup Permutations(Requests)
=============================================================================
