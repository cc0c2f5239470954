----------------------------- MODULE MCJobQueue -----------------------------
(* Small instances of JobQueue for TLC. *)
EXTENDS JobQueue

MCOneJob == {1}
MCDelays == <<1, 2>>

=============================================================================
