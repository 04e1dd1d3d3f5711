-------------------------- MODULE MCRequestLedger --------------------------
(* Hosts and requests are interchangeable.                                 *)
EXTENDS RequestLedger, TLC
Interchangeable == Permutations(Hosts) \cup Permutations(Requests)
=============================================================================
