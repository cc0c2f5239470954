-------------------------- MODULE MCClientSession --------------------------
(* Two accounts and three calls at a time: one that waits, its refresh and   *)
(* one more.                                                                 *)
EXTENDS ClientSession
=============================================================================
