------------------------------ MODULE MCStream ------------------------------
(***************************************************************************)
(* An instance of Stream for TLC: one ordered stream with two deliveries,  *)
(* so that one can block the other.  The state of the backend is kept per  *)
(* stream, so a second one would only multiply the states.                 *)
(***************************************************************************)
EXTENDS Stream, TLC

CONSTANTS k1, d1, d2

KeyOfDeliveries == (d1 :> k1) @@ (d2 :> k1)
=============================================================================
