--------------------------- MODULE MCRuntimeStream ---------------------------
(***************************************************************************)
(* One stream with two deliveries under writers that replace each other.   *)
(***************************************************************************)
EXTENDS RuntimeStream, TLC

CONSTANTS k1, d1, d2

KeyOfDeliveries == (d1 :> k1) @@ (d2 :> k1)

(* The owner identities are interchangeable.                               *)
OwnerSymmetry == Permutations(Owners)
=============================================================================
