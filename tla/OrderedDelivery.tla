--------------------------- MODULE OrderedDelivery ---------------------------
(***************************************************************************)
(* What ordered delivery promises, free of leases, fences, claims and      *)
(* failure records: every stream has at most one delivery being worked on  *)
(* and at most one delivery that blocks it, work is granted only for the   *)
(* blocking delivery while there is one, and the stream moves forward only *)
(* by settling the delivery that is being worked on or by a reset of a     *)
(* stream that has neither.  Stream and RuntimeStream both implement it.   *)
(***************************************************************************)
EXTENDS Naturals

CONSTANTS Keys, Deliveries, None

VARIABLES
  version,  \* [Keys -> Nat]: how often the stream moved
  holder,   \* [Keys -> the delivery being worked on, or None]
  blocker   \* [Keys -> the delivery that must be settled first, or None]

vars == <<version, holder, blocker>>

Grant(k, d) ==
  /\ holder[k] = None
  /\ blocker[k] \in {None, d}
  /\ holder' = [holder EXCEPT ![k] = d]
  /\ UNCHANGED <<version, blocker>>

Settle(k) ==
  /\ holder[k] # None
  /\ blocker[k] \in {None, holder[k]}
  /\ version' = [version EXCEPT ![k] = @ + 1]
  /\ holder' = [holder EXCEPT ![k] = None]
  /\ blocker' = [blocker EXCEPT ![k] = None]

Block(k) ==
  /\ holder[k] # None
  /\ holder' = [holder EXCEPT ![k] = None]
  /\ blocker' = [blocker EXCEPT ![k] = holder[k]]
  /\ UNCHANGED version

(* Work is given up without an outcome, on several streams at once when a  *)
(* writer is replaced.                                                     *)
Release(K) ==
  /\ holder' = [k \in Keys |-> IF k \in K THEN None ELSE holder[k]]
  /\ UNCHANGED <<version, blocker>>

Reset(k) ==
  /\ holder[k] = None
  /\ blocker[k] = None
  /\ version' = [version EXCEPT ![k] = @ + 1]
  /\ UNCHANGED <<holder, blocker>>

Init ==
  /\ version = [k \in Keys |-> 0]
  /\ holder = [k \in Keys |-> None]
  /\ blocker = [k \in Keys |-> None]

Next ==
  \/ \E k \in Keys :
       \/ \E d \in Deliveries : Grant(k, d)
       \/ Settle(k)
       \/ Block(k)
       \/ Reset(k)
  \/ \E K \in SUBSET Keys : Release(K)

Spec == Init /\ [][Next]_vars
=============================================================================
