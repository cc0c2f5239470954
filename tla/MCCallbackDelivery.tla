------------------------- MODULE MCCallbackDelivery -------------------------
(* A small instance of CallbackDelivery for TLC. *)
EXTENDS CallbackDelivery

MCOneJob == {1}


=============================================================================
