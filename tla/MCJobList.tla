------------------------------ MODULE MCJobList ------------------------------
(* Two jobs in pages of one, two requests at a time and two events under way. *)
EXTENDS JobList
=============================================================================
