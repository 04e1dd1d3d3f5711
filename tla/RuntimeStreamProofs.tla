------------------------ MODULE RuntimeStreamProofs ------------------------
(***************************************************************************)
(* The durable stream backend and its takeover, for all keys, deliveries,  *)
(* owners and bounds.                                                      *)
(*                                                                         *)
(* RuntimeInv is the inductive invariant.  Its core is how the four tables *)
(* agree: a lease row and the failure row of its delivery (LeaseRows), a   *)
(* scheduled retry and the lease nobody was given yet (RetryClaims), a     *)
(* retry in progress and the lease that is its evidence (RetriesAreHeld).  *)
(*                                                                         *)
(* Two things follow from it: every step is one of ordered delivery        *)
(* (OrderedDelivery), and every intent of the current writer is answered   *)
(* and applied as the in-memory backend (Stream) does it, but for a        *)
(* ReplayFail without a claim (AnswersAsInMemory, AppliesAsInMemory).      *)
(***************************************************************************)
EXTENDS RuntimeStream, TLAPS

USE RuntimeConstants

TypeOK ==
  /\ writer \in Token \cup {NoWriter}
  /\ tokens \in SUBSET Token
  /\ checkpoint \in [Keys -> Checkpoint]
  /\ control \in [Keys -> {"Running", "Paused"}]
  /\ failure \in [Deliveries -> Failure]
  /\ lease \in [Keys -> Lease \cup {NoLease}]
  /\ pausePending \in SUBSET Keys
  /\ retryClaim \in [Keys -> Deliveries \cup {NoDelivery}]
  /\ replayClaim \in [Deliveries -> ReplayClaim \cup {NoClaim}]
  /\ issued \in SUBSET Lease

(* At most one unresolved delivery per stream. *)
OneBlocker ==
  \A d, e \in Deliveries :
    (KeyOf[d] = KeyOf[e] /\ Blocking(d) /\ Blocking(e)) => d = e

(* A lease row, the failure rows of its stream and the fence of its key. *)
LeaseRows ==
  \A k \in Keys : Leased(k) =>
    LET d == lease[k].delivery IN
    /\ KeyOf[d] = k
    /\ lease[k].fence <= checkpoint[k].fence
    /\ lease[k].purpose = "Deliver" =>
         failure[d].status \in {"Missing", "Succeeded", "Resolved", "Retrying"}
    /\ lease[k].purpose = "Skip" => failure[d].status = "Failed"
    /\ \A e \in Deliveries : KeyOf[e] = k /\ Blocking(e) => e = d

(* A scheduled retry has a lease that no caller was given. *)
RetryClaims ==
  \A k \in Keys : retryClaim[k] # NoDelivery =>
    /\ Leased(k) /\ lease[k].delivery = retryClaim[k]
    /\ failure[retryClaim[k]].status = "Retrying"
    /\ lease[k].successor = failure[retryClaim[k]].successor
    /\ \A l \in issued : KeyOf[l.delivery] = k => l.fence # lease[k].fence

(* A retry in progress is evidenced by the lease of its delivery. *)
RetriesAreHeld ==
  \A d \in Deliveries : failure[d].status = "Retrying" =>
    LET k == KeyOf[d] IN
    /\ Leased(k) /\ lease[k].delivery = d
    /\ retryClaim[k] = NoDelivery => lease[k] \in issued

RuntimeInv ==
  /\ TypeOK
  /\ OneBlocker /\ LeaseRows /\ RetryClaims /\ RetriesAreHeld
  /\ FencesSurviveTakeover /\ ReplayClaimIsCurrent

-----------------------------------------------------------------------------
(* The invariant, action by action.                                        *)

(* An empty database has no writer, lease, claim or failure. *)
LEMMA InitRuntimeInv == Init => RuntimeInv
  BY DEF Init, RuntimeInv, TypeOK, OneBlocker, LeaseRows, RetryClaims,
     RetriesAreHeld, FencesSurviveTakeover, ReplayClaimIsCurrent, Blocking,
     Leased, Checkpoint, Failure, Statuses

(* A failure row after a takeover: no retry and no replay is open. *)
LEMMA ClosedAttempt ==
  ASSUME NEW f \in Failure
  PROVE  /\ CloseAttempt(f) \in Failure
         /\ CloseAttempt(f).status = "Failed" <=> f.status \in {"Failed", "Retrying"}
         /\ CloseAttempt(f).status \notin {"Retrying", "Replaying"}
<1>1. CASE f.status = "Retrying"
  <2>1. CloseAttempt(f) = [f EXCEPT !.version = @ + 1, !.status = "Failed"]
    BY <1>1 DEF CloseAttempt
  <2>2. f.version + 1 \in Nat /\ "Failed" \in Statuses
    BY DEF Failure, Statuses
  <2>3. CloseAttempt(f) \in Failure
    BY <2>1, <2>2 DEF Failure
  <2>4. CloseAttempt(f).status = "Failed"
    BY <2>1 DEF Failure
  <2> QED
    BY <1>1, <2>3, <2>4
<1>2. CASE f.status = "Replaying"
  <2>1. CloseAttempt(f) = [f EXCEPT !.version = @ + 1, !.status = "Skipped"]
    BY <1>2 DEF CloseAttempt
  <2>2. f.version + 1 \in Nat /\ "Skipped" \in Statuses
    BY DEF Failure, Statuses
  <2>3. CloseAttempt(f) \in Failure
    BY <2>1, <2>2 DEF Failure
  <2>4. CloseAttempt(f).status = "Skipped"
    BY <2>1 DEF Failure
  <2> QED
    BY <1>2, <2>3, <2>4
<1>3. CASE f.status \notin {"Retrying", "Replaying"}
  BY <1>3 DEF CloseAttempt
<1> QED
  BY <1>1, <1>2, <1>3

(* A pause waits for the lease or is published at once. *)
LEMMA PausePreserves ==
  ASSUME RuntimeInv, NEW k \in Keys,
         Pause(k), UNCHANGED writerVars
  PROVE  RuntimeInv'
<1> USE DEF RuntimeInv, TypeOK, Pause, CanPause, Blocking, Leased, writerVars, claimVars
<1>f. failure' \in [Deliveries -> Failure]
  BY DEF Failure, Statuses, Lease
<1>1. TypeOK'
  BY <1>f DEF Checkpoint, Lease, Token, ReplayClaim
<1>2. OneBlocker'
  BY <1>f DEF OneBlocker, LeaseRows, Failure
<1>3. LeaseRows'
  BY <1>f DEF LeaseRows, OneBlocker, Failure, Checkpoint, Lease
<1>4. RetryClaims'
  BY <1>f DEF RetryClaims, LeaseRows, FencesSurviveTakeover, Failure, Lease, Checkpoint
<1>5. RetriesAreHeld'
  BY <1>f DEF RetriesAreHeld, RetryClaims, LeaseRows, Failure, Lease
<1>6. FencesSurviveTakeover'
  BY <1>f DEF FencesSurviveTakeover, RetryClaims, LeaseRows, Checkpoint, Lease
<1>7. ReplayClaimIsCurrent'
  BY <1>f DEF ReplayClaimIsCurrent, Grant, LeaseRows, Failure, Lease, ReplayClaim
<1> QED
  BY <1>1, <1>2, <1>3, <1>4, <1>5, <1>6, <1>7

(* Resume changes the control row of an idle stream. *)
LEMMA ResumePreserves ==
  ASSUME RuntimeInv, NEW k \in Keys,
         Resume(k), UNCHANGED writerVars
  PROVE  RuntimeInv'
<1> USE DEF RuntimeInv, TypeOK, Resume, CanResume, Blocking, Leased, writerVars, claimVars
<1>f. failure' \in [Deliveries -> Failure]
  BY DEF Failure, Statuses, Lease
<1>1. TypeOK'
  BY <1>f DEF Checkpoint, Lease, Token, ReplayClaim
<1>2. OneBlocker'
  BY <1>f DEF OneBlocker, LeaseRows, Failure
<1>3. LeaseRows'
  BY <1>f DEF LeaseRows, OneBlocker, Failure, Checkpoint, Lease
<1>4. RetryClaims'
  BY <1>f DEF RetryClaims, LeaseRows, FencesSurviveTakeover, Failure, Lease, Checkpoint
<1>5. RetriesAreHeld'
  BY <1>f DEF RetriesAreHeld, RetryClaims, LeaseRows, Failure, Lease
<1>6. FencesSurviveTakeover'
  BY <1>f DEF FencesSurviveTakeover, RetryClaims, LeaseRows, Checkpoint, Lease
<1>7. ReplayClaimIsCurrent'
  BY <1>f DEF ReplayClaimIsCurrent, Grant, LeaseRows, Failure, Lease, ReplayClaim
<1> QED
  BY <1>1, <1>2, <1>3, <1>4, <1>5, <1>6, <1>7

(* A reset moves an idle checkpoint and keeps its fence. *)
LEMMA ResetPreserves ==
  ASSUME RuntimeInv, NEW k \in Keys, NEW expected, NEW to \in Positions,
         Reset(k, expected, to), UNCHANGED writerVars
  PROVE  RuntimeInv'
<1> USE DEF RuntimeInv, TypeOK, Reset, CanReset, CanResume, MoveCheckpoint, Blocking, Leased,
         writerVars, claimVars
<1>f. failure' \in [Deliveries -> Failure]
  BY DEF Failure, Statuses, Lease
<1>1. TypeOK'
  BY <1>f DEF Checkpoint, Lease, Token, ReplayClaim
<1>2. OneBlocker'
  BY <1>f DEF OneBlocker, LeaseRows, Failure
<1>3. LeaseRows'
  BY <1>f DEF LeaseRows, OneBlocker, Failure, Checkpoint, Lease
<1>4. RetryClaims'
  BY <1>f DEF RetryClaims, LeaseRows, FencesSurviveTakeover, Failure, Lease, Checkpoint
<1>5. RetriesAreHeld'
  BY <1>f DEF RetriesAreHeld, RetryClaims, LeaseRows, Failure, Lease
<1>6. FencesSurviveTakeover'
  BY <1>f DEF FencesSurviveTakeover, RetryClaims, LeaseRows, Checkpoint, Lease
<1>7. ReplayClaimIsCurrent'
  BY <1>f DEF ReplayClaimIsCurrent, Grant, LeaseRows, Failure, Lease, ReplayClaim
<1> QED
  BY <1>1, <1>2, <1>3, <1>4, <1>5, <1>6, <1>7

(* A new lease is for the only blocker, or for a stream without one. *)
LEMMA AcquireNewPreserves ==
  ASSUME RuntimeInv, NEW d \in Deliveries, NEW successor \in Positions, NEW expected,
         NEW purpose \in Purposes,
         AcquireNew(d, successor, expected, purpose), UNCHANGED writerVars
  PROVE  RuntimeInv'
<1> USE DEF RuntimeInv, TypeOK, AcquireNew, CanAcquireNew, GrantLease, NextLease,
         HasBlockingFailure, Admissible, Authorised, Purposes, Blocking, Leased, writerVars,
         claimVars
<1>f. failure' \in [Deliveries -> Failure]
  BY DEF Failure, Statuses, Lease
<1>1. TypeOK'
  <2>k. KeyOf[d] \in Keys /\ checkpoint[KeyOf[d]].fence + 1 \in Nat
    BY DEF Checkpoint
  <2>1. checkpoint' \in [Keys -> Checkpoint]
    BY <2>k DEF Checkpoint
  <2>2. NextLease(d, successor, purpose) \in Lease
    BY <2>k DEF Lease
  <2> HIDE DEF NextLease
  <2>3. lease' \in [Keys -> Lease \cup {NoLease}] /\ issued' \in SUBSET Lease
    BY <2>k, <2>2
  <2> QED
    BY <1>f, <2>1, <2>3
<1>2. OneBlocker'
  BY <1>f DEF OneBlocker, LeaseRows, Failure
<1>3. LeaseRows'
  BY <1>f DEF LeaseRows, OneBlocker, Failure, Checkpoint, Lease
<1>4. RetryClaims'
  BY <1>f DEF RetryClaims, LeaseRows, FencesSurviveTakeover, Failure, Lease, Checkpoint
<1>5. RetriesAreHeld'
  BY <1>f DEF RetriesAreHeld, RetryClaims, LeaseRows, Failure, Lease
<1>6. FencesSurviveTakeover'
  BY <1>f DEF FencesSurviveTakeover, RetryClaims, LeaseRows, Checkpoint, Lease
<1>7. ReplayClaimIsCurrent'
  BY <1>f DEF ReplayClaimIsCurrent, Grant, LeaseRows, Failure, Lease, ReplayClaim
<1> QED
  BY <1>1, <1>2, <1>3, <1>4, <1>5, <1>6, <1>7

(* Taking a scheduled retry hands its fence out, once. *)
LEMMA AcquireRetryPreserves ==
  ASSUME RuntimeInv, NEW d \in Deliveries, NEW successor \in Positions, NEW expected,
         AcquireRetry(d, successor, expected), UNCHANGED writerVars
  PROVE  RuntimeInv'
<1> USE DEF RuntimeInv, TypeOK, AcquireRetry, CanAcquireRetry, Blocking, Leased, writerVars,
         claimVars
<1>f. failure' \in [Deliveries -> Failure]
  BY DEF Failure
<1> DEFINE k == KeyOf[d]
           new == [lease[k] EXCEPT !.delivery = d, !.successor = successor]
<1>k. k \in Keys /\ lease[k] \in Lease /\ lease[k].delivery = d
  BY DEF RetryClaims
<1>n. /\ new \in Lease /\ new.delivery = d /\ new.successor = successor
      /\ new.fence = lease[k].fence /\ new.purpose = lease[k].purpose
      /\ new = [lease[k] EXCEPT !.successor = successor]
  <2> HIDE DEF AcquireRetry, RuntimeInv, k
  <2> DEFINE old == lease[k]
  <2>1. old \in Lease /\ old.delivery = d
    BY <1>k
  <2> HIDE DEF old
  <2>2. /\ [old EXCEPT !.delivery = d, !.successor = successor] \in Lease
        /\ [old EXCEPT !.delivery = d, !.successor = successor].delivery = d
        /\ [old EXCEPT !.delivery = d, !.successor = successor].successor = successor
        /\ [old EXCEPT !.delivery = d, !.successor = successor].fence = old.fence
        /\ [old EXCEPT !.delivery = d, !.successor = successor].purpose = old.purpose
        /\ [old EXCEPT !.delivery = d, !.successor = successor] = [old EXCEPT !.successor = successor]
    BY <2>1 DEF Lease
  <2> QED
    BY <2>2 DEF old
<1>i. /\ lease' = [lease EXCEPT ![k] = new] /\ issued' = issued \cup {new}
      /\ retryClaim' = [retryClaim EXCEPT ![k] = NoDelivery]
      /\ retryClaim[k] = d
  BY <1>n
<1> HIDE DEF AcquireRetry, k, new
<1>1. TypeOK'
  BY <1>f, <1>k, <1>n, <1>i DEF AcquireRetry
<1>2. OneBlocker'
  BY DEF OneBlocker, AcquireRetry
<1>3. LeaseRows'
  BY <1>k, <1>n, <1>i DEF LeaseRows, AcquireRetry, k
<1>4. RetryClaims'
  <2> SUFFICES ASSUME NEW j \in Keys, retryClaim'[j] # NoDelivery
               PROVE  RetryClaims!(j)!2'
    BY DEF RetryClaims
  <2>1. j # k /\ lease'[j] = lease[j] /\ retryClaim'[j] = retryClaim[j]
    BY <1>k, <1>i
  <2>2. RetryClaims!(j)!2
    BY <2>1 DEF RetryClaims
  <2>3. \A l \in issued' : KeyOf[l.delivery] = j => l \in issued
    BY <2>1, <1>n, <1>i DEF k
  <2> QED
    BY <2>1, <2>2, <2>3 DEF AcquireRetry
<1>5. RetriesAreHeld'
  <2> SUFFICES ASSUME NEW e \in Deliveries, failure'[e].status = "Retrying"
               PROVE  RetriesAreHeld!(e)!2'
    BY DEF RetriesAreHeld
  <2>1. Leased(KeyOf[e]) /\ lease[KeyOf[e]].delivery = e /\ KeyOf[e] \in Keys
    BY DEF RetriesAreHeld, AcquireRetry
  <2>2. CASE KeyOf[e] = k
    BY <2>1, <2>2, <1>k, <1>n, <1>i
  <2>3. CASE KeyOf[e] # k
    BY <2>1, <2>3, <1>k, <1>i DEF RetriesAreHeld, AcquireRetry
  <2> QED
    BY <2>2, <2>3
<1>6. FencesSurviveTakeover'
  <2>1. \A m \in issued : KeyOf[m.delivery] = k => m.fence # new.fence
    BY <1>k, <1>n, <1>i DEF RetryClaims
  <2>2. new.fence <= checkpoint[k].fence
    BY <1>k, <1>n DEF LeaseRows
  <2> QED
    BY <2>1, <2>2, <1>n, <1>i DEF FencesSurviveTakeover, AcquireRetry, k
<1>7. ReplayClaimIsCurrent'
  BY DEF ReplayClaimIsCurrent, AcquireRetry, Grant
<1> QED
  BY <1>1, <1>2, <1>3, <1>4, <1>5, <1>6, <1>7

(* A scheduled retry takes the next fence for the only blocker. *)
LEMMA RetryPreserves ==
  ASSUME RuntimeInv, NEW d \in Deliveries, NEW successor \in Positions,
         NEW expectedVersion, NEW expected,
         Retry(d, successor, expectedVersion, expected), UNCHANGED writerVars
  PROVE  RuntimeInv'
<1> USE DEF RuntimeInv, TypeOK, Retry, CanRetry, GrantLease, NextLease, SetRow, Purposes,
         Blocking, Leased, writerVars, claimVars
<1>f. failure' \in [Deliveries -> Failure]
  BY DEF Failure, Statuses, Lease
<1>n. NextLease(d, successor, "Deliver") \in Lease
  BY DEF Lease, Checkpoint
<1>1. TypeOK'
  <2>k. KeyOf[d] \in Keys /\ checkpoint[KeyOf[d]].fence + 1 \in Nat
    BY DEF Checkpoint
  <2>1. checkpoint' \in [Keys -> Checkpoint]
    BY <2>k DEF Checkpoint
  <2> HIDE DEF NextLease
  <2>3. lease' \in [Keys -> Lease \cup {NoLease}]
    BY <2>k, <1>n
  <2> QED
    BY <1>f, <2>1, <2>3
<1>2. OneBlocker'
  BY <1>f DEF OneBlocker, LeaseRows, Failure
<1>3. LeaseRows'
  BY <1>f DEF LeaseRows, OneBlocker, Failure, Checkpoint, Lease
<1>4. RetryClaims'
  BY <1>f DEF RetryClaims, LeaseRows, FencesSurviveTakeover, Failure, Lease, Checkpoint
<1>5. RetriesAreHeld'
  <2> SUFFICES ASSUME NEW e \in Deliveries, failure'[e].status = "Retrying"
               PROVE  RetriesAreHeld!(e)!2'
    BY DEF RetriesAreHeld
  <2>k. KeyOf[d] \in Keys /\ KeyOf[e] \in Keys
    OBVIOUS
  <2>1. CASE e = d
    <3>1. lease'[KeyOf[d]].delivery = d /\ lease'[KeyOf[d]] \in Lease
      BY <2>k, <1>n
    <3>2. retryClaim'[KeyOf[d]] = d
      BY <2>k
    <3> QED
      BY <3>1, <3>2, <2>1
  <2>2. CASE e # d
    <3>1. failure[e].status = "Retrying"
      BY <2>2
    <3>2. KeyOf[e] # KeyOf[d]
      BY <3>1, <2>k DEF RetriesAreHeld
    <3>3. lease'[KeyOf[e]] = lease[KeyOf[e]] /\ retryClaim'[KeyOf[e]] = retryClaim[KeyOf[e]]
      BY <3>2, <2>k
    <3> QED
      BY <3>1, <3>3 DEF RetriesAreHeld
  <2> QED
    BY <2>1, <2>2
<1>6. FencesSurviveTakeover'
  BY <1>f DEF FencesSurviveTakeover, RetryClaims, LeaseRows, Checkpoint, Lease
<1>7. ReplayClaimIsCurrent'
  BY <1>f DEF ReplayClaimIsCurrent, Grant, LeaseRows, Failure, Lease, ReplayClaim
<1> QED
  BY <1>1, <1>2, <1>3, <1>4, <1>5, <1>6, <1>7

(* Only the lease holder records a failure. *)
LEMMA FailPreserves ==
  ASSUME RuntimeInv, NEW l \in Lease,
         Fail(l), UNCHANGED writerVars
  PROVE  RuntimeInv'
<1> USE DEF RuntimeInv, TypeOK, Fail, CanFail, Holds, EndLease, Blocking, Leased, writerVars,
         claimVars
<1>f. failure' \in [Deliveries -> Failure]
  BY DEF Failure, Statuses, Lease
<1>1. TypeOK'
  BY <1>f DEF Checkpoint, Lease, Token, ReplayClaim
<1>2. OneBlocker'
  BY <1>f DEF OneBlocker, LeaseRows, Failure
<1>3. LeaseRows'
  BY <1>f DEF LeaseRows, OneBlocker, Failure, Checkpoint, Lease
<1>4. RetryClaims'
  BY <1>f DEF RetryClaims, LeaseRows, FencesSurviveTakeover, Failure, Lease, Checkpoint
<1>5. RetriesAreHeld'
  BY <1>f DEF RetriesAreHeld, RetryClaims, LeaseRows, Failure, Lease
<1>6. FencesSurviveTakeover'
  BY <1>f DEF FencesSurviveTakeover, RetryClaims, LeaseRows, Checkpoint, Lease
<1>7. ReplayClaimIsCurrent'
  BY <1>f DEF ReplayClaimIsCurrent, Grant, LeaseRows, Failure, Lease, ReplayClaim
<1> QED
  BY <1>1, <1>2, <1>3, <1>4, <1>5, <1>6, <1>7

(* Completing settles the only blocker. *)
LEMMA CompletePreserves ==
  ASSUME RuntimeInv, NEW l \in Lease, NEW expected,
         Complete(l, expected), UNCHANGED writerVars
  PROVE  RuntimeInv'
<1> USE DEF RuntimeInv, TypeOK, Complete, CanComplete, CanFail, Holds, EndLease, MoveCheckpoint,
         SetStatus, SetRow, Blocking, Leased, writerVars, claimVars
<1>f. failure' \in [Deliveries -> Failure]
  BY DEF Failure, Statuses, Lease
<1>1. TypeOK'
  BY <1>f DEF Checkpoint, Lease, Token, ReplayClaim
<1>2. OneBlocker'
  BY <1>f DEF OneBlocker, LeaseRows, Failure
<1>3. LeaseRows'
  BY <1>f DEF LeaseRows, OneBlocker, Failure, Checkpoint, Lease
<1>4. RetryClaims'
  BY <1>f DEF RetryClaims, LeaseRows, FencesSurviveTakeover, Failure, Lease, Checkpoint
<1>5. RetriesAreHeld'
  BY <1>f DEF RetriesAreHeld, RetryClaims, LeaseRows, Failure, Lease
<1>6. FencesSurviveTakeover'
  BY <1>f DEF FencesSurviveTakeover, RetryClaims, LeaseRows, Checkpoint, Lease
<1>7. ReplayClaimIsCurrent'
  BY <1>f DEF ReplayClaimIsCurrent, Grant, LeaseRows, Failure, Lease, ReplayClaim
<1> QED
  BY <1>1, <1>2, <1>3, <1>4, <1>5, <1>6, <1>7

(* Skipping settles the only blocker. *)
LEMMA SkipPreserves ==
  ASSUME RuntimeInv, NEW l \in Lease, NEW expected, NEW expectedVersion,
         Skip(l, expected, expectedVersion), UNCHANGED writerVars
  PROVE  RuntimeInv'
<1> USE DEF RuntimeInv, TypeOK, Skip, CanSkip, Holds, EndLease, MoveCheckpoint, SetStatus, SetRow,
         Blocking, Leased, writerVars, claimVars
<1>f. failure' \in [Deliveries -> Failure]
  BY DEF Failure, Statuses, Lease
<1>1. TypeOK'
  BY <1>f DEF Checkpoint, Lease, Token, ReplayClaim
<1>2. OneBlocker'
  BY <1>f DEF OneBlocker, LeaseRows, Failure
<1>3. LeaseRows'
  BY <1>f DEF LeaseRows, OneBlocker, Failure, Checkpoint, Lease
<1>4. RetryClaims'
  BY <1>f DEF RetryClaims, LeaseRows, FencesSurviveTakeover, Failure, Lease, Checkpoint
<1>5. RetriesAreHeld'
  BY <1>f DEF RetriesAreHeld, RetryClaims, LeaseRows, Failure, Lease
<1>6. FencesSurviveTakeover'
  BY <1>f DEF FencesSurviveTakeover, RetryClaims, LeaseRows, Checkpoint, Lease
<1>7. ReplayClaimIsCurrent'
  BY <1>f DEF ReplayClaimIsCurrent, Grant, LeaseRows, Failure, Lease, ReplayClaim
<1> QED
  BY <1>1, <1>2, <1>3, <1>4, <1>5, <1>6, <1>7

(* A cancelled retry is Failed again. *)
LEMMA CancelPreserves ==
  ASSUME RuntimeInv, NEW l \in Lease,
         Cancel(l), UNCHANGED writerVars
  PROVE  RuntimeInv'
<1> USE DEF RuntimeInv, TypeOK, Cancel, Holds, EndLease, SetStatus, SetRow, Blocking, Leased,
         writerVars, claimVars
<1>f. failure' \in [Deliveries -> Failure]
  BY DEF Failure, Statuses, Lease
<1>1. TypeOK'
  BY <1>f DEF Checkpoint, Lease, Token, ReplayClaim
<1>2. OneBlocker'
  <2>1. \A e \in Deliveries : Blocking(e)' => Blocking(e)
    BY <1>f DEF Failure, Lease
  <2> QED
    BY <2>1 DEF OneBlocker
<1>3. LeaseRows'
  <2> SUFFICES ASSUME NEW j \in Keys, Leased(j)'
               PROVE  LeaseRows!(j)!2'
    BY DEF LeaseRows
  <2>1. j # KeyOf[l.delivery] /\ lease'[j] = lease[j] /\ Leased(j)
    BY DEF Lease
  <2>2. KeyOf[l.delivery] \in Keys /\ LeaseRows!(j)!2
    BY <2>1 DEF LeaseRows, Lease
  <2>3. \A e \in Deliveries : KeyOf[e] = j => failure'[e] = failure[e]
    BY <2>1 DEF Lease
  <2>4. lease[j] \in Lease /\ lease[j].delivery \in Deliveries
    BY <2>1 DEF Lease
  <2> QED
    BY <2>1, <2>2, <2>3, <2>4
<1>4. RetryClaims'
  BY <1>f DEF RetryClaims, LeaseRows, FencesSurviveTakeover, Failure, Lease, Checkpoint
<1>5. RetriesAreHeld'
  BY <1>f DEF RetriesAreHeld, RetryClaims, LeaseRows, Failure, Lease
<1>6. FencesSurviveTakeover'
  BY <1>f DEF FencesSurviveTakeover, RetryClaims, LeaseRows, Checkpoint, Lease
<1>7. ReplayClaimIsCurrent'
  BY <1>f DEF ReplayClaimIsCurrent, Grant, LeaseRows, Failure, Lease, ReplayClaim
<1> QED
  BY <1>1, <1>2, <1>3, <1>4, <1>5, <1>6, <1>7

(* Only a skipped delivery is replayed. *)
LEMMA ReplayPreserves ==
  ASSUME RuntimeInv, NEW d \in Deliveries, NEW version,
         Replay(d, version), UNCHANGED writerVars
  PROVE  RuntimeInv'
<1> USE DEF RuntimeInv, TypeOK, Replay, CanReplay, Grant, SetRow, Blocking, Leased, writerVars,
         claimVars
<1>f. failure' \in [Deliveries -> Failure]
  BY DEF Failure, Statuses, Lease
<1>1. TypeOK'
  BY <1>f DEF Checkpoint, Lease, Token, ReplayClaim
<1>2. OneBlocker'
  BY <1>f DEF OneBlocker, LeaseRows, Failure
<1>3. LeaseRows'
  BY <1>f DEF LeaseRows, OneBlocker, Failure, Checkpoint, Lease
<1>4. RetryClaims'
  BY <1>f DEF RetryClaims, LeaseRows, FencesSurviveTakeover, Failure, Lease, Checkpoint
<1>5. RetriesAreHeld'
  BY <1>f DEF RetriesAreHeld, RetryClaims, LeaseRows, Failure, Lease
<1>6. FencesSurviveTakeover'
  BY <1>f DEF FencesSurviveTakeover, RetryClaims, LeaseRows, Checkpoint, Lease
<1>7. ReplayClaimIsCurrent'
  BY <1>f DEF ReplayClaimIsCurrent, Grant, LeaseRows, Failure, Lease, ReplayClaim
<1> QED
  BY <1>1, <1>2, <1>3, <1>4, <1>5, <1>6, <1>7

(* A replay is claimed by the writer, at its current version. *)
LEMMA ClaimReplayPreserves ==
  ASSUME RuntimeInv, NEW t, NEW d \in Deliveries,
         NEW version \in ExpectedVersion(d), RequireOwner(t), t \in tokens,
         ClaimReplay(t, d, version), UNCHANGED writerVars
  PROVE  RuntimeInv'
<1> USE DEF RuntimeInv, TypeOK, ClaimReplay, CanClaimReplay, Grant, RequireOwner, ExpectedVersion,
         Blocking, Leased, writerVars, claimVars
<1>f. failure' \in [Deliveries -> Failure]
  BY DEF Failure, Statuses, Lease
<1>1. TypeOK'
  BY <1>f DEF Checkpoint, Lease, Token, ReplayClaim
<1>2. OneBlocker'
  BY <1>f DEF OneBlocker, LeaseRows, Failure
<1>3. LeaseRows'
  BY <1>f DEF LeaseRows, OneBlocker, Failure, Checkpoint, Lease
<1>4. RetryClaims'
  BY <1>f DEF RetryClaims, LeaseRows, FencesSurviveTakeover, Failure, Lease, Checkpoint
<1>5. RetriesAreHeld'
  BY <1>f DEF RetriesAreHeld, RetryClaims, LeaseRows, Failure, Lease
<1>6. FencesSurviveTakeover'
  BY <1>f DEF FencesSurviveTakeover, RetryClaims, LeaseRows, Checkpoint, Lease
<1>7. ReplayClaimIsCurrent'
  BY <1>f DEF ReplayClaimIsCurrent, Grant, LeaseRows, Failure, Lease, ReplayClaim
<1> QED
  BY <1>1, <1>2, <1>3, <1>4, <1>5, <1>6, <1>7

(* A replay and its claim end together. *)
LEMMA EndOwnReplayPreserves ==
  ASSUME RuntimeInv, NEW t, NEW d \in Deliveries, NEW version,
         NEW status \in {"Replayed", "Skipped"},
         EndOwnReplay(t, d, version, status), UNCHANGED writerVars
  PROVE  RuntimeInv'
<1> USE DEF RuntimeInv, TypeOK, EndOwnReplay, CanEndOwnReplay, Grant, DropReplayClaim, SetStatus,
         SetRow, Blocking, Leased, writerVars, claimVars
<1>f. failure' \in [Deliveries -> Failure]
  BY DEF Failure, Statuses, Lease
<1>1. TypeOK'
  BY <1>f DEF Checkpoint, Lease, Token, ReplayClaim
<1>2. OneBlocker'
  BY <1>f DEF OneBlocker, LeaseRows, Failure
<1>3. LeaseRows'
  BY <1>f DEF LeaseRows, OneBlocker, Failure, Checkpoint, Lease
<1>4. RetryClaims'
  BY <1>f DEF RetryClaims, LeaseRows, FencesSurviveTakeover, Failure, Lease, Checkpoint
<1>5. RetriesAreHeld'
  BY <1>f DEF RetriesAreHeld, RetryClaims, LeaseRows, Failure, Lease
<1>6. FencesSurviveTakeover'
  BY <1>f DEF FencesSurviveTakeover, RetryClaims, LeaseRows, Checkpoint, Lease
<1>7. ReplayClaimIsCurrent'
  BY <1>f DEF ReplayClaimIsCurrent, Grant, LeaseRows, Failure, Lease, ReplayClaim
<1> QED
  BY <1>1, <1>2, <1>3, <1>4, <1>5, <1>6, <1>7

(* A failed replay leaves no claim. *)
LEMMA ReplayFailPreserves ==
  ASSUME RuntimeInv, NEW d \in Deliveries, NEW version,
         ReplayFail(d, version), UNCHANGED writerVars
  PROVE  RuntimeInv'
<1> USE DEF RuntimeInv, TypeOK, ReplayFail, CanReplayFail, Grant, DropReplayClaim, SetStatus,
         SetRow, Blocking, Leased, writerVars, claimVars
<1>f. failure' \in [Deliveries -> Failure]
  BY DEF Failure, Statuses, Lease
<1>1. TypeOK'
  BY <1>f DEF Checkpoint, Lease, Token, ReplayClaim
<1>2. OneBlocker'
  BY <1>f DEF OneBlocker, LeaseRows, Failure
<1>3. LeaseRows'
  BY <1>f DEF LeaseRows, OneBlocker, Failure, Checkpoint, Lease
<1>4. RetryClaims'
  BY <1>f DEF RetryClaims, LeaseRows, FencesSurviveTakeover, Failure, Lease, Checkpoint
<1>5. RetriesAreHeld'
  BY <1>f DEF RetriesAreHeld, RetryClaims, LeaseRows, Failure, Lease
<1>6. FencesSurviveTakeover'
  BY <1>f DEF FencesSurviveTakeover, RetryClaims, LeaseRows, Checkpoint, Lease
<1>7. ReplayClaimIsCurrent'
  BY <1>f DEF ReplayClaimIsCurrent, Grant, LeaseRows, Failure, Lease, ReplayClaim
<1> QED
  BY <1>1, <1>2, <1>3, <1>4, <1>5, <1>6, <1>7

(* Only an unclaimed replay is cancelled. *)
LEMMA ReplayCancelPreserves ==
  ASSUME RuntimeInv, NEW d \in Deliveries, NEW version,
         ReplayCancel(d, version), UNCHANGED writerVars
  PROVE  RuntimeInv'
<1> USE DEF RuntimeInv, TypeOK, ReplayCancel, CanReplayCancel, CanClaimReplay, Grant, SetStatus,
         SetRow, Blocking, Leased, writerVars, claimVars
<1>f. failure' \in [Deliveries -> Failure]
  BY DEF Failure, Statuses, Lease
<1>1. TypeOK'
  BY <1>f DEF Checkpoint, Lease, Token, ReplayClaim
<1>2. OneBlocker'
  BY <1>f DEF OneBlocker, LeaseRows, Failure
<1>3. LeaseRows'
  BY <1>f DEF LeaseRows, OneBlocker, Failure, Checkpoint, Lease
<1>4. RetryClaims'
  BY <1>f DEF RetryClaims, LeaseRows, FencesSurviveTakeover, Failure, Lease, Checkpoint
<1>5. RetriesAreHeld'
  BY <1>f DEF RetriesAreHeld, RetryClaims, LeaseRows, Failure, Lease
<1>6. FencesSurviveTakeover'
  BY <1>f DEF FencesSurviveTakeover, RetryClaims, LeaseRows, Checkpoint, Lease
<1>7. ReplayClaimIsCurrent'
  BY <1>f DEF ReplayClaimIsCurrent, Grant, LeaseRows, Failure, Lease, ReplayClaim
<1> QED
  BY <1>1, <1>2, <1>3, <1>4, <1>5, <1>6, <1>7

(* Resolving touches no blocker, retry or replay. *)
LEMMA ResolvePreserves ==
  ASSUME RuntimeInv, NEW d \in Deliveries, NEW version,
         Resolve(d, version), UNCHANGED writerVars
  PROVE  RuntimeInv'
<1> USE DEF RuntimeInv, TypeOK, Resolve, CanResolve, Grant, SetStatus, SetRow, Blocking, Leased,
         writerVars, claimVars
<1>f. failure' \in [Deliveries -> Failure]
  BY DEF Failure, Statuses, Lease
<1>1. TypeOK'
  BY <1>f DEF Checkpoint, Lease, Token, ReplayClaim
<1>2. OneBlocker'
  BY <1>f DEF OneBlocker, LeaseRows, Failure
<1>3. LeaseRows'
  BY <1>f DEF LeaseRows, OneBlocker, Failure, Checkpoint, Lease
<1>4. RetryClaims'
  BY <1>f DEF RetryClaims, LeaseRows, FencesSurviveTakeover, Failure, Lease, Checkpoint
<1>5. RetriesAreHeld'
  BY <1>f DEF RetriesAreHeld, RetryClaims, LeaseRows, Failure, Lease
<1>6. FencesSurviveTakeover'
  BY <1>f DEF FencesSurviveTakeover, RetryClaims, LeaseRows, Checkpoint, Lease
<1>7. ReplayClaimIsCurrent'
  BY <1>f DEF ReplayClaimIsCurrent, Grant, LeaseRows, Failure, Lease, ReplayClaim
<1> QED
  BY <1>1, <1>2, <1>3, <1>4, <1>5, <1>6, <1>7

(* The first writer meets no claim. *)
LEMMA AcquireWriterPreserves ==
  ASSUME RuntimeInv, NEW w \in Owners,
         AcquireWriter(w)
  PROVE  RuntimeInv'
<1> USE DEF RuntimeInv, TypeOK, AcquireWriter, Blocking, Leased, claimVars
<1>f. failure' \in [Deliveries -> Failure]
  BY DEF Failure, Statuses, Lease
<1>1. TypeOK'
  BY <1>f DEF Checkpoint, Lease, Token, ReplayClaim
<1>2. OneBlocker'
  BY <1>f DEF OneBlocker, LeaseRows, Failure
<1>3. LeaseRows'
  BY <1>f DEF LeaseRows, OneBlocker, Failure, Checkpoint, Lease
<1>4. RetryClaims'
  BY <1>f DEF RetryClaims, LeaseRows, FencesSurviveTakeover, Failure, Lease, Checkpoint
<1>5. RetriesAreHeld'
  BY <1>f DEF RetriesAreHeld, RetryClaims, LeaseRows, Failure, Lease
<1>6. FencesSurviveTakeover'
  BY <1>f DEF FencesSurviveTakeover, RetryClaims, LeaseRows, Checkpoint, Lease
<1>7. ReplayClaimIsCurrent'
  BY <1>f DEF ReplayClaimIsCurrent, Grant, LeaseRows, Failure, Lease, ReplayClaim
<1> QED
  BY <1>1, <1>2, <1>3, <1>4, <1>5, <1>6, <1>7

(* A takeover closes every lease, retry and claim and keeps the fences. *)
LEMMA TakeoverPreserves ==
  ASSUME RuntimeInv, NEW w \in Owners, NEW t \in tokens,
         Takeover(w, t)
  PROVE  RuntimeInv'
<1> USE DEF RuntimeInv, TypeOK, Takeover, CloseOpenWork, Blocking, Leased, claimVars
<1>f. failure' \in [Deliveries -> Failure]
  BY ClosedAttempt
<1>d. ASSUME NEW d \in Deliveries
      PROVE  /\ failure'[d].status = "Failed"
                  => failure[d].status \in {"Failed", "Retrying"}
             /\ failure'[d].status \notin {"Retrying", "Replaying"}
  BY ClosedAttempt
<1>t. t \in Token /\ t = writer /\ writer' \in Token
  <2>1. t \in Token /\ t = writer /\ writer' = [owner |-> w, epoch |-> t.epoch + 1]
    OBVIOUS
  <2> HIDE DEF Takeover, RuntimeInv
  <2> QED
    BY <2>1 DEF Token
<1>1. TypeOK'
  BY <1>f, <1>t
<1>2. OneBlocker'
  BY <1>f, <1>d DEF OneBlocker
<1>3. LeaseRows'
  BY <1>f DEF LeaseRows, OneBlocker, Failure, Checkpoint, Lease
<1>4. RetryClaims'
  BY <1>f DEF RetryClaims, LeaseRows, FencesSurviveTakeover, Failure, Lease, Checkpoint
<1>5. RetriesAreHeld'
  BY <1>d DEF RetriesAreHeld
<1>6. FencesSurviveTakeover'
  BY <1>f DEF FencesSurviveTakeover, RetryClaims, LeaseRows, Checkpoint, Lease
<1>7. ReplayClaimIsCurrent'
  BY <1>f DEF ReplayClaimIsCurrent, Grant, LeaseRows, Failure, Lease, ReplayClaim
<1> QED
  BY <1>1, <1>2, <1>3, <1>4, <1>5, <1>6, <1>7

(* A presented lease was issued, or is the lease of a scheduled retry. *)
LEMMA PresentableAreLeases == RuntimeInv => Presentable \subseteq Lease
  BY DEF RuntimeInv, TypeOK, Presentable, RetryClaims, Leased

(* Every intent of the current writer preserves the invariant. *)
LEMMA IntentPreserves ==
  ASSUME RuntimeInv, NEW t \in tokens, Intent(t)
  PROVE  RuntimeInv'
<1>w. RequireOwner(t) /\ UNCHANGED writerVars
  BY DEF Intent
<1>1. ASSUME NEW k \in Keys, Administer(k)
      PROVE  RuntimeInv'
  BY <1>1, <1>w, PausePreserves, ResumePreserves, ResetPreserves DEF Administer
<1>2. ASSUME NEW d \in Deliveries, Take(d)
      PROVE  RuntimeInv'
  BY <1>2, <1>w, AcquireNewPreserves, AcquireRetryPreserves, RetryPreserves DEF Take
<1>3. ASSUME NEW d \in Deliveries, Close(t, d)
      PROVE  RuntimeInv'
  BY <1>3, <1>w, ReplayPreserves, ClaimReplayPreserves, EndOwnReplayPreserves,
     ReplayFailPreserves, ReplayCancelPreserves, ResolvePreserves
  DEF Close, ReplayComplete, CancelAdmittedReplay
<1>4. ASSUME NEW l \in Lease, Settle(l)
      PROVE  RuntimeInv'
  BY <1>4, <1>w, FailPreserves, CancelPreserves, CompletePreserves, SkipPreserves
  DEF Settle
<1> QED
  BY <1>1, <1>2, <1>3, <1>4, PresentableAreLeases DEF Intent

(* Every transaction preserves the invariant. *)
LEMMA NextPreserves == RuntimeInv /\ [Next]_vars => RuntimeInv'
<1>1. CASE UNCHANGED vars
  BY <1>1 DEF vars, RuntimeInv, TypeOK, OneBlocker, LeaseRows, RetryClaims,
     RetriesAreHeld, FencesSurviveTakeover, ReplayClaimIsCurrent, Blocking,
     Leased, Grant
<1> QED
  BY <1>1, AcquireWriterPreserves, TakeoverPreserves, IntentPreserves DEF Next

(* The tables agree in every state of the database, whatever writers died. *)
THEOREM RuntimeInvariant == Spec => []RuntimeInv
<1>1. Init => RuntimeInv
  BY InitRuntimeInv
<1>2. RuntimeInv /\ [Next]_vars => RuntimeInv'
  BY NextPreserves
<1> QED
  BY <1>1, <1>2, PTL DEF Spec

(* A lease that a fenced writer was given is never mistaken for a lease of *)
(* the writer that replaced it.                                            *)
THEOREM FencesSurvive == Spec => []FencesSurviveTakeover
<1>1. RuntimeInv => FencesSurviveTakeover
  BY DEF RuntimeInv
<1> QED
  BY <1>1, RuntimeInvariant, PTL

(* A replay claim belongs to the current writer and the current version.   *)
THEOREM ReplayClaimsAreCurrent == Spec => []ReplayClaimIsCurrent
<1>1. RuntimeInv => ReplayClaimIsCurrent
  BY DEF RuntimeInv
<1> QED
  BY <1>1, RuntimeInvariant, PTL

(* validate_recoverable_stream_attempts refuses a takeover only when a     *)
(* retry was acquired with another successor than its failure row records. *)
THEOREM TakeoverBlocked == Spec => []TakeoverBlockedOnlyByRevision
<1>1. ASSUME RuntimeInv
      PROVE  TakeoverBlockedOnlyByRevision
  <2> SUFFICES ASSUME \A d \in Deliveries :
                        (failure[d].status = "Retrying"
                           /\ retryClaim[KeyOf[d]] = NoDelivery)
                        => lease[KeyOf[d]].successor = failure[d].successor
               PROVE  Recoverable
    BY <1>1 DEF TakeoverBlockedOnlyByRevision, RuntimeInv, RetriesAreHeld
  <2>1. ASSUME NEW d \in Deliveries, failure[d].status = "Retrying"
        PROVE  RetryEvidence(d)
    <3>k. KeyOf[d] \in Keys
      OBVIOUS
    <3>1. /\ Leased(KeyOf[d]) /\ lease[KeyOf[d]].delivery = d
          /\ lease[KeyOf[d]] \in Lease
      BY <1>1, <2>1, <3>k DEF RuntimeInv, TypeOK, RetriesAreHeld, Leased
    <3>2. lease[KeyOf[d]].purpose = "Deliver"
      BY <1>1, <2>1, <3>k, <3>1 DEF RuntimeInv, LeaseRows, Lease, Purposes
    <3>3. /\ retryClaim[KeyOf[d]] \in {NoDelivery, d}
          /\ lease[KeyOf[d]].successor = failure[d].successor
      BY <1>1, <2>1, <3>k, <3>1 DEF RuntimeInv, RetryClaims
    <3> QED
      BY <3>1, <3>2, <3>3 DEF RetryEvidence
  <2>2. ASSUME NEW d \in Deliveries, failure[d].status = "Replaying"
        PROVE  retryClaim[KeyOf[d]] # d
    BY <1>1, <2>2 DEF RuntimeInv, RetryClaims
  <2>3. ASSUME NEW d \in Deliveries, replayClaim[d] # NoClaim
        PROVE  Grant(d, replayClaim[d].version, "Replaying")
    BY <1>1, <2>3 DEF RuntimeInv, ReplayClaimIsCurrent
  <2> QED
    BY <2>1, <2>2, <2>3 DEF Recoverable
<1> QED
  BY <1>1, RuntimeInvariant, PTL

(* A pause that was admitted stays pending or is published, in every step, *)
(* takeovers included.                                                     *)
THEOREM PausesAreKept == Spec => PauseIsNotLost
<1>1. ASSUME RuntimeInv, [Next]_vars
      PROVE  [\A k \in pausePending :
                k \in pausePending' \/ control'[k] = "Paused"]_vars
  <2> SUFFICES ASSUME Next, NEW k \in pausePending
               PROVE  k \in pausePending' \/ control'[k] = "Paused"
    BY <1>1
  <2>k. k \in Keys /\ control \in [Keys -> {"Running", "Paused"}]
    BY <1>1 DEF RuntimeInv, TypeOK
  <2>1. CASE \E w \in Owners : AcquireWriter(w)
    BY <2>1 DEF AcquireWriter
  <2>2. CASE \E w \in Owners, t \in tokens : Takeover(w, t)
    BY <2>2, <2>k DEF Takeover, CloseOpenWork
  <2>3. ASSUME NEW t \in tokens, Intent(t)
        PROVE  k \in pausePending' \/ control'[k] = "Paused"
    <3>1. CASE \E j \in Keys : Administer(j)
      BY <3>1 DEF Administer, Pause, Resume, Reset
    <3>2. CASE \E d \in Deliveries : Take(d)
      BY <3>2 DEF Take, AcquireNew, AcquireRetry, Retry
    <3>3. CASE \E d \in Deliveries : Close(t, d)
      BY <3>3 DEF Close, Replay, ClaimReplay, ReplayComplete, CancelAdmittedReplay,
         EndOwnReplay, ReplayFail, ReplayCancel, Resolve
    <3>4. CASE \E l \in Presentable : Settle(l)
      <4>1. PICK l \in Presentable : Settle(l)
        BY <3>4
      <4>2. EndLease(l)
        BY <4>1 DEF Settle, Fail, Cancel, Complete, Skip
      <4> QED
        BY <4>2, <2>k DEF EndLease
    <3> QED
      BY <2>3, <3>1, <3>2, <3>3, <3>4 DEF Intent
  <2> QED
    BY <2>1, <2>2, <2>3 DEF Next
<1> QED
  BY <1>1, RuntimeInvariant, PTL DEF Spec, PauseIsNotLost

-----------------------------------------------------------------------------
(* Ordered delivery.  The abstract state is a function of the checkpoint, *)
(* the lease and the failure records; BlockerOf and HolderOf are Blocker  *)
(* and Holder with the table as a parameter, so that one lemma serves the  *)
(* states before and after a step.                                         *)

BlocksIn(f, d) == f[d].status \in {"Failed", "Retrying"}

BlockerOf(f, k) ==
  IF \E d \in Deliveries : KeyOf[d] = k /\ BlocksIn(f, d)
  THEN CHOOSE d \in Deliveries : KeyOf[d] = k /\ BlocksIn(f, d)
  ELSE NoDelivery

HolderOf(m, k) == IF m[k] # NoLease THEN m[k].delivery ELSE NoDelivery

(* The only blocking delivery of a stream is its blocker. *)
LEMMA OnlyBlocker ==
  ASSUME NEW f, NEW d \in Deliveries, BlocksIn(f, d),
         \A e \in Deliveries : KeyOf[e] = KeyOf[d] /\ BlocksIn(f, e) => e = d
  PROVE  BlockerOf(f, KeyOf[d]) = d
  BY DEF BlockerOf

(* A stream without a blocking delivery has no blocker. *)
LEMMA WithoutBlocker ==
  ASSUME NEW f, NEW k,
         \A e \in Deliveries : KeyOf[e] = k => ~ BlocksIn(f, e)
  PROVE  BlockerOf(f, k) = NoDelivery
  BY DEF BlockerOf

(* The blocker depends on nothing but which deliveries block. *)
LEMMA SameBlocker ==
  ASSUME NEW f, NEW g, NEW k,
         \A d, e \in Deliveries :
           (KeyOf[d] = k /\ KeyOf[e] = k /\ BlocksIn(f, d) /\ BlocksIn(f, e)) => d = e,
         \A e \in Deliveries : KeyOf[e] = k => (BlocksIn(f, e) <=> BlocksIn(g, e))
  PROVE  BlockerOf(f, k) = BlockerOf(g, k)
<1>1. CASE \E d \in Deliveries : KeyOf[d] = k /\ BlocksIn(f, d)
  <2> PICK d \in Deliveries : KeyOf[d] = k /\ BlocksIn(f, d)
    BY <1>1
  <2>1. BlockerOf(f, k) = d
    BY OnlyBlocker
  <2>2. BlockerOf(g, k) = d
    BY OnlyBlocker
  <2> QED
    BY <2>1, <2>2
<1>2. CASE \A d \in Deliveries : KeyOf[d] = k => ~ BlocksIn(f, d)
  BY <1>2, WithoutBlocker
<1> QED
  BY <1>1, <1>2

(* What the abstract specification sees of a state and of the next one. *)
LEMMA AbstractState ==
  ASSUME NEW k \in Keys
  PROVE  /\ Mem!Blocker(k) = BlockerOf(failure, k)
         /\ Mem!Blocker(k)' = BlockerOf(failure', k)
         /\ Mem!Holder(k) = HolderOf(lease, k)
         /\ Mem!Holder(k)' = HolderOf(lease', k)
         /\ Mem!HasBlockingFailure(k) <=>
              \E d \in Deliveries : KeyOf[d] = k /\ BlocksIn(failure, d)
  BY DEF Mem!Blocker, BlockerOf, Mem!Holder, HolderOf, Mem!HasBlockingFailure,
     Mem!Blocking, BlocksIn, Mem!Leased

(* What a step leaves of a stream as it was, component by component.       *)
SameVersion(j) == checkpoint'[j].version = checkpoint[j].version

SameHolder(j) == HolderOf(lease', j) = HolderOf(lease, j)

SameBlockerAt(j) == BlockerOf(failure', j) = BlockerOf(failure, j)

SameStream(j) == SameVersion(j) /\ SameHolder(j) /\ SameBlockerAt(j)

(* Streams that all look the same make an invisible step. *)
LEMMA AbstractStutter ==
  ASSUME \A j \in Keys : SameStream(j)
  PROVE  UNCHANGED Mem!Promise!vars
  BY AbstractState DEF Mem!Promise!vars, SameStream, SameVersion, SameHolder, SameBlockerAt

(* One free stream gets a holder, its blocker if it has one: a grant. *)
LEMMA AbstractGrant ==
  ASSUME NEW k \in Keys, NEW d \in Deliveries,
         \A j \in Keys : SameVersion(j) /\ SameBlockerAt(j),
         \A j \in Keys \ {k} : SameHolder(j),
         HolderOf(lease, k) = NoDelivery, HolderOf(lease', k) = d,
         BlockerOf(failure, k) \in {NoDelivery, d}
  PROVE  Mem!Promise!Next
<1>1. \A j \in Keys : Mem!Holder(j)' = IF j = k THEN d ELSE Mem!Holder(j)
  BY AbstractState DEF SameStream, SameHolder
<1>2. \A j \in Keys : Mem!Blocker(j)' = Mem!Blocker(j)
  BY AbstractState DEF SameStream, SameBlockerAt
<1>3. \A j \in Keys : checkpoint'[j].version =
         checkpoint[j].version
  BY DEF SameStream, SameVersion
<1>4. Mem!Promise!Grant(k, d)
  BY <1>1, <1>2, <1>3, AbstractState DEF Mem!Promise!Grant
<1> QED
  BY <1>4 DEF Mem!Promise!Next

(* A holder leaves, its stream moves on and is not blocked: a settlement. *)
LEMMA AbstractSettle ==
  ASSUME NEW k \in Keys,
         \A j \in Keys \ {k} : SameStream(j),
         HolderOf(lease, k) # NoDelivery, HolderOf(lease', k) = NoDelivery,
         BlockerOf(failure, k) \in {NoDelivery, HolderOf(lease, k)},
         BlockerOf(failure', k) = NoDelivery,
         checkpoint'[k].version = checkpoint[k].version + 1
  PROVE  Mem!Promise!Next
<1>1. \A j \in Keys : Mem!Holder(j)' = IF j = k THEN NoDelivery ELSE Mem!Holder(j)
  BY AbstractState DEF SameStream, SameHolder
<1>2. \A j \in Keys : Mem!Blocker(j)' = IF j = k THEN NoDelivery ELSE Mem!Blocker(j)
  BY AbstractState DEF SameStream, SameBlockerAt
<1>3. \A j \in Keys : checkpoint'[j].version =
         IF j = k THEN checkpoint[j].version + 1 ELSE checkpoint[j].version
  BY DEF SameStream, SameVersion
<1>4. Mem!Promise!Settle(k)
  BY <1>1, <1>2, <1>3, AbstractState DEF Mem!Promise!Settle
<1> QED
  BY <1>4 DEF Mem!Promise!Next

(* A holder leaves its stream blocked: a block. *)
LEMMA AbstractBlock ==
  ASSUME NEW k \in Keys,
         \A j \in Keys \ {k} : SameStream(j), SameVersion(k),
         HolderOf(lease, k) # NoDelivery, HolderOf(lease', k) = NoDelivery,
         BlockerOf(failure', k) = HolderOf(lease, k)
  PROVE  Mem!Promise!Next
<1>1. \A j \in Keys : Mem!Holder(j)' = IF j = k THEN NoDelivery ELSE Mem!Holder(j)
  BY AbstractState DEF SameStream, SameHolder
<1>2. \A j \in Keys : Mem!Blocker(j)' = IF j = k THEN Mem!Holder(k) ELSE Mem!Blocker(j)
  BY AbstractState DEF SameStream, SameBlockerAt
<1>3. \A j \in Keys : checkpoint'[j].version =
         checkpoint[j].version
  BY DEF SameStream, SameVersion
<1>4. Mem!Promise!Block(k)
  BY <1>1, <1>2, <1>3, AbstractState DEF Mem!Promise!Block
<1> QED
  BY <1>4 DEF Mem!Promise!Next

(* Holders leave, versions and blockers stay: a release. *)
LEMMA AbstractRelease ==
  ASSUME NEW K \in SUBSET Keys,
         \A j \in Keys : SameVersion(j) /\ SameBlockerAt(j),
         \A j \in Keys \ K : SameHolder(j),
         \A j \in K : HolderOf(lease', j) = NoDelivery
  PROVE  Mem!Promise!Next
<1>1. Mem!Promise!Release(K)
  BY AbstractState DEF Mem!Promise!Release, SameVersion, SameHolder, SameBlockerAt
<1> QED
  BY <1>1 DEF Mem!Promise!Next

(* A stream with neither holder nor blocker moves: a reset. *)
LEMMA AbstractReset ==
  ASSUME NEW k \in Keys,
         \A j \in Keys \ {k} : SameStream(j), SameHolder(k), SameBlockerAt(k),
         HolderOf(lease, k) = NoDelivery, BlockerOf(failure, k) = NoDelivery,
         checkpoint'[k].version = checkpoint[k].version + 1
  PROVE  Mem!Promise!Next
<1>1. \A j \in Keys : Mem!Holder(j)' = Mem!Holder(j)
  BY AbstractState DEF SameStream, SameHolder
<1>2. \A j \in Keys : Mem!Blocker(j)' = Mem!Blocker(j)
  BY AbstractState DEF SameStream, SameBlockerAt
<1>3. \A j \in Keys : checkpoint'[j].version =
         IF j = k THEN checkpoint[j].version + 1 ELSE checkpoint[j].version
  BY DEF SameStream, SameVersion
<1>4. Mem!Promise!Reset(k)
  BY <1>1, <1>2, <1>3, AbstractState DEF Mem!Promise!Reset
<1> QED
  BY <1>4 DEF Mem!Promise!Next

(* The same deliveries block before and after: the blockers are the same. *)
LEMMA KeptBlockers ==
  ASSUME RuntimeInv, NEW k,
         \A e \in Deliveries : KeyOf[e] = k =>
           (BlocksIn(failure, e) <=> BlocksIn(failure', e))
  PROVE  SameBlockerAt(k)
<1>1. \A d, e \in Deliveries :
        (KeyOf[d] = k /\ KeyOf[e] = k /\ BlocksIn(failure, d) /\ BlocksIn(failure, e))
          => d = e
  BY DEF RuntimeInv, OneBlocker, Blocking, BlocksIn
<1> QED
  BY <1>1, SameBlocker DEF SameBlockerAt

(* Pausing, resuming, replaying and resolving are invisible. *)
LEMMA InvisibleSteps ==
  ASSUME RuntimeInv, UNCHANGED <<checkpoint, lease>>,
         \A e \in Deliveries : BlocksIn(failure, e) <=> BlocksIn(failure', e)
  PROVE  UNCHANGED Mem!Promise!vars
<1>1. \A j \in Keys : SameBlockerAt(j)
  BY KeptBlockers
<1> QED
  BY <1>1, AbstractStutter DEF SameStream, SameVersion, SameHolder

(* Of the administrative intents only a reset is visible. *)
LEMMA AdministerImplements ==
  ASSUME RuntimeInv, NEW k \in Keys, Administer(k)
  PROVE  Mem!Promise!Next \/ UNCHANGED Mem!Promise!vars
<1>1. CASE Pause(k) \/ Resume(k)
  BY <1>1, InvisibleSteps DEF Pause, Resume, BlocksIn
<1>2. ASSUME NEW expected, NEW to \in Positions, Reset(k, expected, to)
      PROVE  Mem!Promise!Next
  <2>1. \A j \in Keys : SameBlockerAt(j) /\ SameHolder(j)
    BY <1>2 DEF Reset, SameBlockerAt, SameHolder
  <2>2. /\ checkpoint'[k].version = checkpoint[k].version + 1
        /\ \A j \in Keys \ {k} : SameVersion(j)
    BY <1>2 DEF Reset, MoveCheckpoint, SameVersion, RuntimeInv, TypeOK
  <2>3. BlockerOf(failure, k) = NoDelivery
    BY <1>2, WithoutBlocker DEF Reset, CanReset, CanResume, HasBlockingFailure, Blocking, BlocksIn
  <2>4. HolderOf(lease, k) = NoDelivery
    BY <1>2 DEF Reset, CanReset, CanResume, Leased, HolderOf
  <2> QED
    BY <2>1, <2>2, <2>3, <2>4, AbstractReset DEF SameStream
<1> QED
  BY <1>1, <1>2 DEF Administer

(* A new lease and a scheduled retry are grants; acquiring the retry is not
   seen, since its lease is for the same delivery. *)
LEMMA TakeImplements ==
  ASSUME RuntimeInv, NEW d \in Deliveries, Take(d)
  PROVE  Mem!Promise!Next \/ UNCHANGED Mem!Promise!vars
<1> DEFINE k == KeyOf[d]
<1>k. k \in Keys
  OBVIOUS
<1>v. \A j \in Keys : SameVersion(j)
  BY DEF Take, AcquireNew, CanAcquireNew, AcquireRetry, CanAcquireRetry, Retry, CanRetry,
     GrantLease, SameVersion, RuntimeInv, TypeOK, Checkpoint
<1>1. ASSUME NEW successor \in Positions, NEW expected, NEW purpose \in Purposes,
             AcquireNew(d, successor, expected, purpose)
      PROVE  Mem!Promise!Next
  <2>1. \A j \in Keys : SameBlockerAt(j)
    BY <1>1 DEF AcquireNew, SameBlockerAt
  <2>2. /\ lease[k] = NoLease /\ lease'[k] # NoLease /\ lease'[k].delivery = d
        /\ \A j \in Keys \ {k} : lease'[j] = lease[j]
    BY <1>1 DEF AcquireNew, CanAcquireNew, GrantLease, NextLease, Checkpoint, Leased, RuntimeInv,
       TypeOK, Lease
  <2>3. BlockerOf(failure, k) \in {NoDelivery, d}
    <3>1. CASE HasBlockingFailure(k)
      <4>1. Blocking(d)
        BY <1>1, <3>1 DEF AcquireNew, CanAcquireNew, Authorised, Blocking
      <4> QED
        BY <4>1, OnlyBlocker DEF RuntimeInv, OneBlocker, Blocking, BlocksIn
    <3>2. CASE ~ HasBlockingFailure(k)
      BY <3>2, WithoutBlocker DEF HasBlockingFailure, Blocking, BlocksIn
    <3> QED
      BY <3>1, <3>2
  <2> QED
    BY <1>k, <1>v, <2>1, <2>2, <2>3, AbstractGrant DEF HolderOf, SameHolder
<1>2. ASSUME NEW successor \in Positions, NEW expected,
             AcquireRetry(d, successor, expected)
      PROVE  UNCHANGED Mem!Promise!vars
  <2>1. \A j \in Keys : SameBlockerAt(j)
    BY <1>2 DEF AcquireRetry, SameBlockerAt
  <2>2. /\ lease[k] # NoLease /\ lease[k].delivery = d
        /\ lease[k].fence \in Nat /\ lease[k].purpose \in Purposes
    BY <1>2 DEF AcquireRetry, CanAcquireRetry, Leased, RuntimeInv, TypeOK, RetriesAreHeld, Lease
  <2>3. /\ lease'[k] # NoLease /\ lease'[k].delivery = d
        /\ \A j \in Keys \ {k} : lease'[j] = lease[j]
    BY <1>2, <2>2 DEF AcquireRetry, RuntimeInv, TypeOK, Lease
  <2>4. \A j \in Keys : SameHolder(j)
    BY <2>2, <2>3 DEF HolderOf, SameHolder
  <2> QED
    BY <1>v, <2>1, <2>4, AbstractStutter DEF SameStream
<1>3. ASSUME NEW successor \in Positions, NEW v, NEW expected,
             Retry(d, successor, v, expected)
      PROVE  Mem!Promise!Next
  <2>1. \A e \in Deliveries : BlocksIn(failure, e) <=> BlocksIn(failure', e)
    BY <1>3 DEF Retry, CanRetry, SetRow, BlocksIn, RuntimeInv, TypeOK
  <2>2. \A j \in Keys : SameBlockerAt(j)
    BY <2>1, KeptBlockers
  <2>3. /\ lease[k] = NoLease /\ lease'[k] # NoLease /\ lease'[k].delivery = d
        /\ \A j \in Keys \ {k} : lease'[j] = lease[j]
    BY <1>3 DEF Retry, CanRetry, GrantLease, NextLease, Checkpoint, Leased, RuntimeInv, TypeOK,
       Lease, Purposes
  <2>4. BlocksIn(failure, d)
    BY <1>3 DEF Retry, CanRetry, BlocksIn
  <2>5. BlockerOf(failure, k) = d
    BY <2>4, OnlyBlocker DEF RuntimeInv, OneBlocker, Blocking, BlocksIn
  <2> QED
    BY <1>k, <1>v, <2>2, <2>3, <2>5, AbstractGrant DEF HolderOf, SameHolder
<1> QED
  BY <1>1, <1>2, <1>3 DEF Take

(* Replays and resolutions change no blocker. *)
LEMMA CloseImplements ==
  ASSUME RuntimeInv, NEW t, NEW d \in Deliveries, Close(t, d)
  PROVE  UNCHANGED Mem!Promise!vars
<1>1. UNCHANGED <<checkpoint, lease>>
  BY DEF Close, Replay, ClaimReplay, ReplayComplete, CancelAdmittedReplay,
     EndOwnReplay, ReplayFail, ReplayCancel, Resolve
<1>2. \A e \in Deliveries : BlocksIn(failure, e) <=> BlocksIn(failure', e)
  BY DEF Close, Replay, CanReplay, ClaimReplay, CanClaimReplay, ReplayComplete,
     CancelAdmittedReplay, EndOwnReplay, CanEndOwnReplay, ReplayFail, CanReplayFail, ReplayCancel,
     CanReplayCancel, Resolve, CanResolve, SetStatus, SetRow, Grant, BlocksIn, RuntimeInv, TypeOK
<1> QED
  BY <1>1, <1>2, InvisibleSteps

(* The end of a lease blocks, releases or settles: the holder is the only
   delivery of the stream that may block it. *)
LEMMA SettleImplements ==
  ASSUME RuntimeInv, NEW l \in Lease, Settle(l)
  PROVE  Mem!Promise!Next
<1> DEFINE d == l.delivery
           k == KeyOf[d]
<1>k. d \in Deliveries /\ k \in Keys
  BY DEF Lease
<1>l. /\ lease[k] = l /\ lease'[k] = NoLease
      /\ \A j \in Keys \ {k} : lease'[j] = lease[j]
  BY <1>k DEF Settle, Fail, CanFail, Holds, Cancel, Complete, CanComplete, Skip, CanSkip,
     EndLease, RuntimeInv, TypeOK
<1>h. /\ HolderOf(lease, k) = d /\ d # NoDelivery /\ HolderOf(lease', k) = NoDelivery
      /\ \A j \in Keys \ {k} : SameHolder(j)
  BY <1>k, <1>l DEF HolderOf, SameHolder
<1>b. \A e \in Deliveries : KeyOf[e] = k /\ BlocksIn(failure, e) => e = d
  BY <1>k, <1>l DEF RuntimeInv, LeaseRows, Leased, Blocking, BlocksIn
<1>o. /\ \A e \in Deliveries \ {d} : failure'[e] = failure[e]
      /\ \A j \in Keys \ {k} : SameVersion(j) /\ SameBlockerAt(j)
  <2>1. \A e \in Deliveries \ {d} : failure'[e] = failure[e]
    BY <1>k DEF Settle, Fail, Cancel, Complete, Skip, SetStatus, SetRow, RuntimeInv, TypeOK
  <2>2. \A j \in Keys \ {k} : SameVersion(j)
    BY <1>k DEF Settle, Fail, Cancel, Complete, Skip, MoveCheckpoint,
       SameVersion, RuntimeInv, TypeOK
  <2>3. \A j \in Keys \ {k}, e \in Deliveries : KeyOf[e] = j =>
          (BlocksIn(failure, e) <=> BlocksIn(failure', e))
    BY <2>1 DEF BlocksIn
  <2>4. \A j \in Keys \ {k} : SameBlockerAt(j)
    BY <2>3, KeptBlockers
  <2> QED
    BY <2>1, <2>2, <2>4
<1>p. BlockerOf(failure, k) \in {NoDelivery, d}
  <2>1. CASE BlocksIn(failure, d)
    BY <2>1, <1>b, <1>k, OnlyBlocker
  <2>2. CASE ~ BlocksIn(failure, d)
    BY <2>2, <1>b, WithoutBlocker
  <2> QED
    BY <2>1, <2>2
<1>1. CASE Fail(l)
  <2>1. SameVersion(k)
    BY <1>1 DEF Fail, SameVersion
  <2>2. BlocksIn(failure', d)
    BY <1>1, <1>k DEF Fail, BlocksIn, RuntimeInv, TypeOK
  <2>3. BlockerOf(failure', k) = d
    BY <2>2, <1>b, <1>o, <1>k, OnlyBlocker DEF BlocksIn
  <2> QED
    BY <1>k, <1>h, <1>o, <2>1, <2>3, AbstractBlock DEF SameStream
<1>2. CASE Cancel(l)
  <2>1. SameVersion(k)
    BY <1>2 DEF Cancel, SameVersion
  <2>2. \A e \in Deliveries : BlocksIn(failure, e) <=> BlocksIn(failure', e)
    BY <1>2, <1>k DEF Cancel, SetStatus, SetRow, BlocksIn, RuntimeInv, TypeOK
  <2>3. SameBlockerAt(k)
    BY <2>2, KeptBlockers
  <2> QED
    <3>1. \A j \in Keys : SameVersion(j) /\ SameBlockerAt(j)
      BY <1>o, <2>1, <2>3
    <3>2. {k} \in SUBSET Keys /\ \A j \in {k} : HolderOf(lease', j) = NoDelivery
      BY <1>k, <1>h
    <3>3. \A j \in Keys \ {k} : SameHolder(j)
      BY <1>h
    <3> QED
      BY <3>1, <3>2, <3>3, AbstractRelease
<1>3. ASSUME NEW expected, NEW v, Complete(l, expected) \/ Skip(l, expected, v)
      PROVE  Mem!Promise!Next
  <2>1. checkpoint'[k].version = checkpoint[k].version + 1
    BY <1>3, <1>k DEF Complete, Skip, MoveCheckpoint, RuntimeInv, TypeOK
  <2>2. ~ BlocksIn(failure', d)
    BY <1>3, <1>k DEF Complete, Skip, SetStatus, SetRow, BlocksIn, RuntimeInv, TypeOK
  <2>3. BlockerOf(failure', k) = NoDelivery
    BY <2>2, <1>b, <1>o, WithoutBlocker DEF BlocksIn
  <2> QED
    BY <1>k, <1>h, <1>o, <1>p, <2>1, <2>3, AbstractSettle DEF SameStream
<1> QED
  BY <1>1, <1>2, <1>3 DEF Settle

(* A takeover gives up the work of every stream and settles none. *)
LEMMA TakeoverImplements ==
  ASSUME RuntimeInv, NEW w, NEW t \in tokens, Takeover(w, t)
  PROVE  Mem!Promise!Next
<1>1. \A e \in Deliveries : BlocksIn(failure, e) <=> BlocksIn(failure', e)
  <2> SUFFICES ASSUME NEW e \in Deliveries
               PROVE  BlocksIn(failure, e) <=> BlocksIn(failure', e)
    OBVIOUS
  <2>1. failure[e] \in Failure /\ failure'[e] = CloseAttempt(failure[e])
    BY DEF RuntimeInv, TypeOK, Takeover, CloseOpenWork
  <2> QED
    BY <2>1, ClosedAttempt DEF BlocksIn
<1>2. \A j \in Keys : SameVersion(j) /\ SameBlockerAt(j)
  BY <1>1, KeptBlockers DEF Takeover, CloseOpenWork, SameVersion
<1>3. \A j \in Keys : HolderOf(lease', j) = NoDelivery
  BY DEF Takeover, CloseOpenWork, HolderOf
<1> QED
  BY <1>2, <1>3, AbstractRelease

(* Every step is a step of ordered delivery or is invisible to it. *)
LEMMA StepImplements ==
  RuntimeInv /\ [Next]_vars => [Mem!Promise!Next]_(Mem!Promise!vars)
<1> SUFFICES ASSUME RuntimeInv, [Next]_vars
             PROVE  Mem!Promise!Next \/ UNCHANGED Mem!Promise!vars
  OBVIOUS
<1>1. CASE UNCHANGED vars
  BY <1>1, InvisibleSteps DEF vars, BlocksIn
<1>2. ASSUME NEW w \in Owners, AcquireWriter(w)
      PROVE  UNCHANGED Mem!Promise!vars
  BY <1>2, InvisibleSteps DEF AcquireWriter, BlocksIn
<1>3. ASSUME NEW k \in Keys, Administer(k)
      PROVE  Mem!Promise!Next \/ UNCHANGED Mem!Promise!vars
  BY <1>3, AdministerImplements
<1>4. ASSUME NEW t, NEW d \in Deliveries, Take(d) \/ Close(t, d)
      PROVE  Mem!Promise!Next \/ UNCHANGED Mem!Promise!vars
  BY <1>4, TakeImplements, CloseImplements
<1>5. ASSUME NEW l \in Presentable, Settle(l)
      PROVE  Mem!Promise!Next \/ UNCHANGED Mem!Promise!vars
  <2>1. l \in Lease
    BY PresentableAreLeases
  <2> QED
    BY <1>5, <2>1, SettleImplements
<1> QED
  BY <1>1, <1>2, <1>3, <1>4, <1>5, TakeoverImplements DEF Next, Intent

(* At first no stream has a holder, a blocker or a version. *)
LEMMA InitImplements == Init => Mem!Promise!Init
<1> SUFFICES ASSUME Init
             PROVE  Mem!Promise!Init
  OBVIOUS
<1>1. \A k \in Keys : Mem!Holder(k) = NoDelivery /\ checkpoint[k].version = 0
  BY DEF Init, Mem!Holder, Mem!Leased
<1>2. \A k \in Keys : Mem!Blocker(k) = NoDelivery
  BY DEF Init, Mem!Blocker, Mem!HasBlockingFailure, Mem!Blocking
<1> QED
  BY <1>1, <1>2 DEF Mem!Promise!Init

(* The durable backend implements ordered delivery, across crashes of its  *)
(* writer: a takeover only releases what the dead writer worked on.        *)
THEOREM RuntimeRefinement == Spec => ImplementsOrderedDelivery
<1>1. Init => Mem!Promise!Init
  BY InitImplements
<1>2. RuntimeInv /\ [Next]_vars => [Mem!Promise!Next]_(Mem!Promise!vars)
  BY StepImplements
<1> QED
  BY <1>1, <1>2, RuntimeInvariant, PTL
  DEF Spec, ImplementsOrderedDelivery, Mem!Promise!Spec

-----------------------------------------------------------------------------
(* The in-memory backend as the reference of the durable one.              *)

(* A pause that is pending waits for a lease. *)
PendingPauses == \A k \in pausePending : Leased(k)

(* Every step that ends a lease publishes the pause that waited for it. *)
LEMMA PendingPausesPreserved ==
  ASSUME RuntimeInv, PendingPauses, [Next]_vars
  PROVE  PendingPauses'
<1> USE DEF RuntimeInv, TypeOK, PendingPauses, Leased
<1>1. CASE UNCHANGED vars
  BY <1>1 DEF vars
<1>2. ASSUME NEW w \in Owners, AcquireWriter(w) \/ \E t \in tokens : Takeover(w, t)
      PROVE  PendingPauses'
  BY <1>2 DEF AcquireWriter, Takeover, CloseOpenWork
<1>3. ASSUME NEW k \in Keys, Administer(k)
      PROVE  PendingPauses'
  BY <1>3 DEF Administer, Pause, Resume, Reset
<1>4. ASSUME NEW d \in Deliveries, Take(d)
      PROVE  PendingPauses'
  <2>1. /\ NoLease \notin Lease
        /\ \A successor \in Positions, purpose \in Purposes :
             NextLease(d, successor, purpose) \in Lease
    BY DEF NextLease, Lease, Checkpoint
  <2>2. \A successor \in Positions, purpose \in Purposes :
          GrantLease(d, successor, purpose) => \A k \in Keys : Leased(k) => Leased(k)'
    BY <2>1 DEF GrantLease
  <2>3. \A successor \in Positions :
          [lease[KeyOf[d]] EXCEPT !.successor = successor] # NoLease
            \/ ~ Leased(KeyOf[d])
    BY <2>1 DEF Lease
  <2> QED
    BY <1>4, <2>2, <2>3 DEF Take, AcquireNew, AcquireRetry, Retry, Purposes
<1>5. ASSUME NEW l \in Presentable, Settle(l)
      PROVE  PendingPauses'
  BY <1>5 DEF Settle, Fail, Cancel, Complete, Skip, EndLease
<1>6. ASSUME NEW t, NEW d \in Deliveries, Close(t, d)
      PROVE  PendingPauses'
  BY <1>6 DEF Close, Replay, ClaimReplay, ReplayComplete, CancelAdmittedReplay,
     EndOwnReplay, ReplayFail, ReplayCancel, Resolve, claimVars
<1> QED
  BY <1>1, <1>2, <1>3, <1>4, <1>5, <1>6 DEF Next, Intent

(* The caller's idea of a checkpoint is the same for both backends. *)
LEMMA MemExpected ==
  ASSUME TypeOK, NEW k \in Keys, NEW expected \in Expected(k)
  PROVE  CheckpointMatches(k, expected) <=> Mem!CheckpointMatches(k, expected)
<1>1. expected = [version |-> expected.version, committed |-> expected.committed]
  BY DEF Expected
<1>2. expected.version = checkpoint[k].version /\ expected.committed = checkpoint[k].committed
        => expected = [version |-> checkpoint[k].version, committed |-> checkpoint[k].committed]
  BY <1>1
<1> QED
  BY <1>2 DEF CheckpointMatches, Mem!CheckpointMatches

(* What an intent asks of the tables it asks of the memory. *)
LEMMA AnswersAlike ==
  ASSUME RuntimeInv, PendingPauses
  PROVE  AnswersAsInMemory
<1> USE DEF RuntimeInv
<1>b. /\ \A k \in Keys : Leased(k) <=> Mem!Leased(k)
      /\ \A k \in Keys : HasBlockingFailure(k) <=> Mem!HasBlockingFailure(k)
  BY DEF Leased, Mem!Leased, HasBlockingFailure, Mem!HasBlockingFailure, Blocking, Mem!Blocking
<1>1. ASSUME NEW k \in Keys
      PROVE  /\ CanPause(k) <=> Mem!CanPause(k)
             /\ CanResume(k) <=> Mem!CanResume(k)
             /\ \A expected \in Expected(k) : CanReset(k, expected) <=> Mem!CanReset(k, expected)
  BY <1>b, MemExpected DEF CanPause, Mem!CanPause, CanResume, Mem!CanResume, CanReset, Mem!CanReset
<1>2. ASSUME NEW d \in Deliveries, NEW expected \in Expected(KeyOf[d])
      PROVE  /\ \A purpose \in Purposes :
                  CanAcquireNew(d, expected, purpose) <=> Mem!CanAcquireNew(d, expected, purpose)
             /\ CanAcquireRetry(d, expected) <=> Mem!CanAcquireRetry(d, expected)
             /\ \A successor \in Positions, v \in ExpectedVersion(d) :
                  CanRetry(d, successor, v, expected) <=> Mem!CanRetry(d, successor, v, expected)
  <2> DEFINE k == KeyOf[d]
  <2>k. k \in Keys
    OBVIOUS
  <2>c. CheckpointMatches(k, expected) <=> Mem!CheckpointMatches(k, expected)
    BY <2>k, MemExpected
  <2>1. ASSUME NEW purpose \in Purposes
        PROVE  CanAcquireNew(d, expected, purpose) <=> Mem!CanAcquireNew(d, expected, purpose)
    <3>1. ~ Leased(k) => k \notin pausePending
      BY <2>k DEF PendingPauses, Leased
    <3> QED
      BY <1>b, <2>k, <2>c, <3>1 DEF CanAcquireNew, Mem!CanAcquireNew, Authorised,
         Mem!Authorised, Admissible, Mem!Admissible
  <2>2. CanAcquireRetry(d, expected) <=> Mem!CanAcquireRetry(d, expected)
    <3>1. failure[d].status = "Retrying" /\ retryClaim[k] # NoDelivery => retryClaim[k] = d
      BY <2>k DEF RetryClaims, RetriesAreHeld
    <3>2. failure[d].status = "Retrying" => lease[k].delivery = d /\ Leased(k)
      BY DEF RetriesAreHeld
    <3>3. failure[d].status = "Retrying" => lease[k].purpose = "Deliver"
      <4>1. Leased(k) => lease[k].purpose \in {"Deliver", "Skip"}
        BY <2>k DEF TypeOK, Leased, Lease, Purposes
      <4> QED
        BY <2>k, <3>2, <4>1 DEF LeaseRows
    <3> QED
      BY <1>b, <2>k, <2>c, <3>1, <3>3 DEF CanAcquireRetry, Mem!CanAcquireRetry
  <2>3. ASSUME NEW successor \in Positions, NEW v \in ExpectedVersion(d)
        PROVE  CanRetry(d, successor, v, expected) <=> Mem!CanRetry(d, successor, v, expected)
    BY <1>b, <2>k, <2>c DEF CanRetry, Mem!CanRetry
  <2> QED
    BY <2>1, <2>2, <2>3
<1>3. ASSUME NEW l \in Presentable
      PROVE  /\ Holds(l) <=> Mem!Holds(l)
             /\ CanFail(l) <=> Mem!CanFail(l)
             /\ \A expected \in Expected(KeyOf[l.delivery]) :
                  /\ CanComplete(l, expected) <=> Mem!CanComplete(l, expected)
                  /\ \A v \in ExpectedVersion(l.delivery) :
                       CanSkip(l, expected, v) <=> Mem!CanSkip(l, expected, v)
  <2>1. KeyOf[l.delivery] \in Keys
    BY PresentableAreLeases DEF Lease
  <2> QED
    BY <2>1, MemExpected DEF Holds, Mem!Holds, CanFail, Mem!CanFail, CanComplete,
       Mem!CanComplete, CanSkip, Mem!CanSkip
<1>4. ASSUME NEW d \in Deliveries, NEW v \in ExpectedVersion(d)
      PROVE  /\ CanReplay(d, v) <=> Mem!CanReplay(d, v)
             /\ CanClaimReplay(d, v) <=> Mem!CanClaimReplay(d, v)
             /\ CanReplayCancel(d, v) <=> Mem!CanReplayCancel(d, v)
             /\ \A t \in tokens :
                  RequireOwner(t) => (CanEndOwnReplay(t, d, v) <=> Mem!CanEndReplay(d, v))
             /\ CanReplayFail(d, v) <=> Mem!CanEndReplay(d, v) \/ Mem!CanReplayCancel(d, v)
             /\ CanResolve(d, v) <=> Mem!CanResolve(d, v)
  <2>1. ASSUME replayClaim[d] # NoClaim
        PROVE  /\ failure[d].version = v =>
                    replayClaim[d] = [version |-> v, owner |-> writer]
               /\ replayClaim[d].version = failure[d].version
    <3>1. replayClaim[d] \in ReplayClaim
      BY <2>1 DEF TypeOK
    <3>2. replayClaim[d] = [version |-> replayClaim[d].version, owner |-> replayClaim[d].owner]
      BY <3>1 DEF ReplayClaim
    <3>3. replayClaim[d].owner = writer /\ replayClaim[d].version = failure[d].version
      BY <2>1 DEF ReplayClaimIsCurrent, Grant
    <3> QED
      BY <3>2, <3>3
  <2>2. \A t \in tokens : [version |-> v, owner |-> t] # NoClaim
    <3>1. v \in Nat /\ tokens \subseteq Token
      BY DEF ExpectedVersion, TypeOK, Failure
    <3> QED
      BY <3>1 DEF ReplayClaim
  <2> QED
    BY <2>1, <2>2 DEF CanReplay, Mem!CanReplay, CanClaimReplay, Mem!CanClaimReplay,
       CanReplayCancel, Mem!CanReplayCancel, RequireOwner, CanEndOwnReplay, OwnReplayClaim,
       Mem!CanEndReplay, CanReplayFail, CanResolve, Mem!CanResolve, Grant, Mem!At
<1> QED
  BY <1>1, <1>2, <1>3, <1>4 DEF AnswersAsInMemory

(* A moved checkpoint is moved alike and its fence counter stays. *)
LEMMA MemMoveCheckpoint ==
  ASSUME TypeOK, NEW k \in Keys, NEW position, MoveCheckpoint(k, position)
  PROVE  /\ Mem!MoveCheckpoint(k, position)
         /\ [j \in Keys |-> checkpoint[j].fence]' = [j \in Keys |-> checkpoint[j].fence]
<1>1. /\ checkpoint'[k] = [version |-> checkpoint[k].version + 1,
                            committed |-> position, fence |-> checkpoint[k].fence]
      /\ \A j \in Keys \ {k} : checkpoint'[j] = checkpoint[j]
  BY DEF TypeOK, MoveCheckpoint
<1>2. \A j \in Keys :
        /\ [version |-> checkpoint'[j].version, committed |-> checkpoint'[j].committed] =
             IF j = k THEN [version |-> checkpoint[j].version + 1, committed |-> position]
             ELSE [version |-> checkpoint[j].version, committed |-> checkpoint[j].committed]
        /\ checkpoint'[j].fence = checkpoint[j].fence
  <2> TAKE j \in Keys
  <2>1. CASE j = k
    <3>1. /\ checkpoint'[j].version = checkpoint[j].version + 1
          /\ checkpoint'[j].committed = position
          /\ checkpoint'[j].fence = checkpoint[j].fence
      BY <1>1, <2>1
    <3> QED
      BY <2>1, <3>1
  <2>2. CASE j # k
    BY <1>1, <2>2
  <2> QED
    BY <2>1, <2>2
<1> QED
  BY <1>2 DEF Mem!MoveCheckpoint

(* The next fence and the lease row that carries it. *)
LEMMA MemGrantLease ==
  ASSUME TypeOK, NEW d \in Deliveries, NEW successor, NEW purpose,
         GrantLease(d, successor, purpose)
  PROVE  LET k == KeyOf[d] IN
         /\ [j \in Keys |-> checkpoint[j].fence][k] < MaxFence
         /\ [j \in Keys |-> checkpoint[j].fence]' =
              [[j \in Keys |-> checkpoint[j].fence] EXCEPT ![k] = @ + 1]
         /\ [j \in Keys |-> [version |-> checkpoint[j].version,
                             committed |-> checkpoint[j].committed]]' =
              [j \in Keys |-> [version |-> checkpoint[j].version,
                               committed |-> checkpoint[j].committed]]
         /\ lease' = [lease EXCEPT ![k] =
              [delivery |-> d, successor |-> successor,
               fence |-> [j \in Keys |-> checkpoint[j].fence][k] + 1, purpose |-> purpose]]
<1>k. KeyOf[d] \in Keys
  OBVIOUS
<1>1. \A j \in Keys : /\ checkpoint'[j].version = checkpoint[j].version
                      /\ checkpoint'[j].committed = checkpoint[j].committed
                      /\ checkpoint'[j].fence = IF j = KeyOf[d] THEN checkpoint[j].fence + 1
                                                ELSE checkpoint[j].fence
  BY DEF TypeOK, GrantLease, Checkpoint
<1> QED
  BY <1>k, <1>1 DEF GrantLease, NextLease, Leased, Mem!Leased

(* The end of a lease, its retry claim and its pending pause. *)
LEMMA MemEndLease ==
  ASSUME TypeOK, NEW l \in Lease, EndLease(l)
  PROVE  Mem!ConsumeLease(l)
<1>k. KeyOf[l.delivery] \in Keys
  BY DEF Lease
<1>1. {k \in Keys : retryClaim[k] # NoDelivery}' =
        {k \in Keys : retryClaim[k] # NoDelivery} \ {KeyOf[l.delivery]}
  BY <1>k DEF TypeOK, EndLease
<1> QED
  BY <1>1 DEF EndLease, Mem!ConsumeLease

(* Pause, Resume and Reset change the memory as they change the tables. *)
LEMMA AdministerAlike ==
  ASSUME RuntimeInv, AnswersAsInMemory, NEW k \in Keys
  PROVE  /\ Pause(k) => Mem!Pause(k)
         /\ Resume(k) => Mem!Resume(k)
         /\ \A expected \in Expected(k), to \in Positions :
              Reset(k, expected, to) => Mem!Reset(k, expected, to)
<1>1. Pause(k) => Mem!Pause(k)
  BY DEF AnswersAsInMemory, Pause, Mem!Pause, Leased, Mem!Leased, claimVars
<1>2. Resume(k) => Mem!Resume(k)
  BY DEF AnswersAsInMemory, Resume, Mem!Resume, claimVars
<1>3. ASSUME NEW expected \in Expected(k), NEW to \in Positions, Reset(k, expected, to)
      PROVE  Mem!Reset(k, expected, to)
  <2>1. /\ Mem!MoveCheckpoint(k, to)
        /\ [j \in Keys |-> checkpoint[j].fence]' = [j \in Keys |-> checkpoint[j].fence]
    BY <1>3, MemMoveCheckpoint DEF Reset, RuntimeInv
  <2>2. Mem!CanReset(k, expected)
    BY <1>3 DEF AnswersAsInMemory, Reset
  <2> QED
    BY <1>3, <2>1, <2>2 DEF Reset, Mem!Reset, claimVars
<1> QED
  BY <1>1, <1>2, <1>3

(* A grant and the acquisition of a scheduled retry are the same: a retry  *)
(* claim names the delivery of the lease, which keeps its fence.           *)
LEMMA TakeAlike ==
  ASSUME RuntimeInv, AnswersAsInMemory, NEW d \in Deliveries, NEW successor \in Positions,
         NEW expected \in Expected(KeyOf[d])
  PROVE  /\ \A purpose \in Purposes :
              AcquireNew(d, successor, expected, purpose)
                => Mem!AcquireNew(d, successor, expected, purpose)
         /\ AcquireRetry(d, successor, expected) => Mem!AcquireRetry(d, successor, expected)
         /\ \A v \in ExpectedVersion(d) :
              Retry(d, successor, v, expected) => Mem!Retry(d, successor, v, expected)
<1> USE DEF RuntimeInv
<1> DEFINE k == KeyOf[d]
<1>k. k \in Keys
  OBVIOUS
<1>1. ASSUME NEW purpose \in Purposes, AcquireNew(d, successor, expected, purpose)
      PROVE  Mem!AcquireNew(d, successor, expected, purpose)
  <2>1. GrantLease(d, successor, purpose)
    BY <1>1 DEF AcquireNew
  <2>2. NextLease(d, successor, purpose) =
          [delivery |-> d, successor |-> successor,
           fence |-> [j \in Keys |-> checkpoint[j].fence][k] + 1, purpose |-> purpose]
    BY <1>k DEF NextLease
  <2>3. Mem!CanAcquireNew(d, expected, purpose)
    BY <1>1 DEF AnswersAsInMemory, AcquireNew
  <2> QED
    BY <1>1, <2>1, <2>2, <2>3, MemGrantLease DEF AcquireNew, Mem!AcquireNew, claimVars
<1>2. ASSUME AcquireRetry(d, successor, expected)
      PROVE  Mem!AcquireRetry(d, successor, expected)
  <2>0. CanAcquireRetry(d, expected) /\ Mem!CanAcquireRetry(d, expected)
    BY <1>2 DEF AnswersAsInMemory, AcquireRetry
  <2>1. lease[k] \in Lease /\ lease[k].delivery = d
    BY <2>0, <1>k DEF CanAcquireRetry, RetryClaims, TypeOK, Leased
  <2> DEFINE old == lease[k]
             new == [delivery |-> d, successor |-> successor, fence |-> old.fence,
                     purpose |-> old.purpose]
  <2>2. /\ [old EXCEPT !.delivery = d, !.successor = successor] = new
        /\ [old EXCEPT !.successor = successor] = new
    <3>1. old \in Lease /\ old.delivery = d
      BY <2>1
    <3> HIDE DEF old
    <3>3. [old EXCEPT !.successor = successor] = new
      BY <3>1 DEF Lease
    <3>4. [old EXCEPT !.delivery = d, !.successor = successor]
            = [old EXCEPT !.successor = successor]
      BY <3>1 DEF Lease
    <3> QED
      BY <3>3, <3>4
  <2>3. lease' = [lease EXCEPT ![k] = new] /\ issued' = issued \cup {new}
    BY <1>2, <1>k, <2>2 DEF AcquireRetry
  <2>4. {j \in Keys : retryClaim[j] # NoDelivery}' =
          {j \in Keys : retryClaim[j] # NoDelivery} \ {k}
    BY <1>2, <1>k DEF AcquireRetry, TypeOK
  <2> QED
    BY <1>2, <2>0, <2>3, <2>4 DEF AcquireRetry, Mem!AcquireRetry
<1>3. ASSUME NEW v \in ExpectedVersion(d), Retry(d, successor, v, expected)
      PROVE  Mem!Retry(d, successor, v, expected)
  <2>1. GrantLease(d, successor, "Deliver")
    BY <1>3 DEF Retry
  <2>2. {j \in Keys : retryClaim[j] # NoDelivery}' =
          {j \in Keys : retryClaim[j] # NoDelivery} \cup {k}
    BY <1>3, <1>k DEF Retry, TypeOK
  <2>3. Mem!CanRetry(d, successor, v, expected)
    BY <1>3 DEF AnswersAsInMemory, Retry
  <2> QED
    BY <1>3, <2>1, <2>2, <2>3, MemGrantLease
    DEF Retry, Mem!Retry, SetRow, Mem!NextAttempt, TypeOK
<1> QED
  BY <1>1, <1>2, <1>3

(* A lease ends alike, with its retry claim, its pause and its outcome. *)
LEMMA SettleAlike ==
  ASSUME RuntimeInv, AnswersAsInMemory, NEW l \in Presentable
  PROVE  /\ Fail(l) => Mem!Fail(l)
         /\ Cancel(l) => Mem!Cancel(l)
         /\ \A expected \in Expected(KeyOf[l.delivery]) :
              /\ Complete(l, expected) => Mem!Complete(l, expected)
              /\ \A v \in ExpectedVersion(l.delivery) :
                   Skip(l, expected, v) => Mem!Skip(l, expected, v)
<1> USE DEF RuntimeInv
<1> DEFINE d == l.delivery
           k == KeyOf[d]
<1>k. l \in Lease /\ d \in Deliveries /\ k \in Keys
  BY PresentableAreLeases DEF Lease
<1>e. EndLease(l) => Mem!ConsumeLease(l)
  BY <1>k, MemEndLease
<1>r. \A status : SetStatus(d, status) => Mem!SetStatus(d, status)
  BY <1>k DEF SetStatus, SetRow, Mem!SetStatus, TypeOK
<1>c. UNCHANGED replayClaim =>
        UNCHANGED {e \in Deliveries : replayClaim[e] # NoClaim}
  OBVIOUS
<1>m. MoveCheckpoint(k, l.successor) =>
        Mem!Advance(l) /\ UNCHANGED [j \in Keys |-> checkpoint[j].fence]
  BY <1>k, MemMoveCheckpoint DEF Mem!Advance
<1>1. Fail(l) => Mem!Fail(l)
  BY <1>e, <1>c DEF AnswersAsInMemory, Fail, Mem!Fail
<1>2. Cancel(l) => Mem!Cancel(l)
  BY <1>e, <1>c, <1>r DEF AnswersAsInMemory, Cancel, Mem!Cancel
<1>3. ASSUME NEW expected \in Expected(k), Complete(l, expected)
      PROVE  Mem!Complete(l, expected)
  <2>1. Mem!CanComplete(l, expected)
    BY <1>3 DEF AnswersAsInMemory, Complete
  <2> QED
    BY <1>3, <2>1, <1>m, <1>e, <1>c, <1>r DEF Complete, Mem!Complete
<1>4. ASSUME NEW expected \in Expected(k), NEW v \in ExpectedVersion(d),
             Skip(l, expected, v)
      PROVE  Mem!Skip(l, expected, v)
  <2>1. Mem!CanSkip(l, expected, v)
    BY <1>4 DEF AnswersAsInMemory, Skip
  <2> QED
    BY <1>4, <2>1, <1>m, <1>e, <1>c, <1>r DEF Skip, Mem!Skip
<1> QED
  BY <1>1, <1>2, <1>3, <1>4

(* A replay ends alike; one failed without a claim changes the tables as a *)
(* cancellation changes the memory.                                        *)
LEMMA CloseAlike ==
  ASSUME RuntimeInv, AnswersAsInMemory, NEW d \in Deliveries, NEW v \in ExpectedVersion(d)
  PROVE  /\ Replay(d, v) => Mem!Replay(d, v)
         /\ \A t \in tokens : RequireOwner(t) =>
              /\ ClaimReplay(t, d, v) => Mem!ClaimReplay(d, v)
              /\ ReplayComplete(t, d, v) => Mem!ReplayComplete(d, v)
              /\ CancelAdmittedReplay(t, d, v) => Mem!ReplayFail(d, v)
         /\ ReplayFail(d, v) => Mem!ReplayFail(d, v) \/ Mem!ReplayCancel(d, v)
         /\ ReplayCancel(d, v) => Mem!ReplayCancel(d, v)
         /\ Resolve(d, v) => Mem!Resolve(d, v)
<1> USE DEF RuntimeInv
<1> DEFINE claimed == {e \in Deliveries : replayClaim[e] # NoClaim}
<1>v. v \in Nat
  BY DEF ExpectedVersion, TypeOK, Failure
<1>s. \A status : SetStatus(d, status) => Mem!SetStatus(d, status)
  BY DEF SetStatus, SetRow, Mem!SetStatus, TypeOK
<1>d. DropReplayClaim(d) => claimed' = claimed \ {d}
  BY DEF DropReplayClaim, TypeOK
<1>1. Replay(d, v) => Mem!Replay(d, v)
  BY DEF AnswersAsInMemory, Replay, Mem!Replay, SetRow, Mem!NextAttempt, TypeOK, claimVars
<1>2. ASSUME NEW t \in tokens, ClaimReplay(t, d, v)
      PROVE  Mem!ClaimReplay(d, v)
  <2>1. [version |-> v, owner |-> t] # NoClaim
    BY <1>v DEF ReplayClaim, TypeOK
  <2>2. claimed' = claimed \cup {d}
    BY <1>2, <2>1 DEF ClaimReplay, TypeOK
  <2>3. Mem!CanClaimReplay(d, v)
    BY <1>2 DEF AnswersAsInMemory, ClaimReplay
  <2> QED
    BY <1>2, <2>2, <2>3 DEF ClaimReplay, Mem!ClaimReplay
<1>3. ASSUME NEW t \in tokens, RequireOwner(t), NEW status, EndOwnReplay(t, d, v, status)
      PROVE  Mem!EndReplay(d, v, status)
  <2>1. Mem!CanEndReplay(d, v)
    BY <1>3 DEF AnswersAsInMemory, EndOwnReplay
  <2> QED
    BY <1>3, <1>d, <1>s, <2>1 DEF EndOwnReplay, Mem!EndReplay
<1>5. ASSUME ReplayFail(d, v)
      PROVE  Mem!ReplayFail(d, v) \/ Mem!ReplayCancel(d, v)
  <2>0. Mem!CanEndReplay(d, v) \/ Mem!CanReplayCancel(d, v)
    BY <1>5 DEF AnswersAsInMemory, ReplayFail
  <2>1. CASE Mem!CanEndReplay(d, v)
    BY <1>5, <1>d, <1>s, <2>1 DEF ReplayFail, Mem!ReplayFail, Mem!EndReplay
  <2>2. CASE Mem!CanReplayCancel(d, v)
    <3>1. claimed' = claimed
      BY <1>5, <1>d, <2>2 DEF ReplayFail, Mem!CanReplayCancel, Mem!CanClaimReplay
    <3> QED
      BY <1>5, <1>s, <2>2, <3>1 DEF ReplayFail, Mem!ReplayCancel
  <2> QED
    BY <2>0, <2>1, <2>2
<1>6. ReplayCancel(d, v) => Mem!ReplayCancel(d, v)
  BY <1>s DEF AnswersAsInMemory, ReplayCancel, Mem!ReplayCancel, claimVars
<1>7. Resolve(d, v) => Mem!Resolve(d, v)
  BY <1>s DEF AnswersAsInMemory, Resolve, Mem!Resolve, claimVars
<1> QED
  BY <1>1, <1>2, <1>3, <1>5, <1>6, <1>7 DEF ReplayComplete, CancelAdmittedReplay,
     Mem!ReplayComplete, Mem!ReplayFail

(* In every state the tables can reach, those a takeover leaves included,  *)
(* both backends accept the same intents of the current writer; the only   *)
(* one they answer differently is a ReplayFail without a claim.            *)
THEOREM AcceptsLikeMemory == Spec => []AnswersAsInMemory
<1>1. Init => PendingPauses
  BY DEF Init, PendingPauses
<1>2. RuntimeInv /\ PendingPauses /\ [Next]_vars => PendingPauses'
  BY PendingPausesPreserved
<1>3. RuntimeInv /\ PendingPauses => AnswersAsInMemory
  BY AnswersAlike
<1> QED
  BY <1>1, <1>2, <1>3, RuntimeInvariant, PTL DEF Spec

(* And an accepted intent changes the tables as it changes the memory, a   *)
(* ReplayFail without a claim as a cancellation.                           *)
THEOREM AppliesLikeMemory == Spec => AppliesAsInMemory
<1>1. RuntimeInv /\ AnswersAsInMemory => SameEffects
  BY AdministerAlike, TakeAlike, SettleAlike, CloseAlike DEF SameEffects
<1>2. RuntimeInv /\ AnswersAsInMemory => [SameEffects]_vars
  BY <1>1
<1> QED
  BY <1>2, AcceptsLikeMemory, RuntimeInvariant, PTL DEF AppliesAsInMemory
=============================================================================
