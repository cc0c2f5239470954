------------------------------ MODULE MCJobPage ------------------------------
(* Two requests and an event under way. *)
EXTENDS JobPage
=============================================================================
