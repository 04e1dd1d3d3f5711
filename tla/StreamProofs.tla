---------------------------- MODULE StreamProofs ----------------------------
(***************************************************************************)
(* The invariants of Stream hold for every set of keys, deliveries and     *)
(* positions and for every bound.  StreamInv is the inductive invariant:   *)
(* each of the named safety invariants needs some of the others.  One      *)
(* blocker per key, for example, holds because only the lease holder can   *)
(* record a failure and because a lease is granted on a blocked stream     *)
(* only for the blocker, which is what LeaseAgreesWithFailures records.    *)
(***************************************************************************)
EXTENDS Stream, TLAPS

USE KeyAssumption, NoPositionAssumption, NoLeaseAssumption, BoundAssumption

(* A fresh backend has no failure, lease, claim or pause request. *)
LEMMA InitStreamInv == Init => StreamInv
  BY DEF Init, StreamInv, TypeOK, OneBlockerPerKey, LeaseAgreesWithFailures,
     RetryingHoldsLease, RetryClaimAwaitsAcquire, PauseWaitsForLease,
     ReplayClaimIsLive, FencesAreCounted, FencesAreUnique, Blocking, Leased,
     MissingFailure, Checkpoint, Failure, Statuses

(* Pause only adds a request for a key that holds a lease, or pauses an idle key. *)
LEMMA PausePreserves ==
  ASSUME StreamInv, NEW k \in Keys,
         Pause(k)
  PROVE  StreamInv'
<1> USE DEF StreamInv, TypeOK, Pause, CanPause, Blocking, Leased
<1>f. failures' \in [Deliveries -> Failure]
  BY DEF Failure, Statuses
<1>1. TypeOK'
  BY <1>f DEF Checkpoint, Lease
<1>2. OneBlockerPerKey'
  BY <1>f DEF OneBlockerPerKey, LeaseAgreesWithFailures, Failure
<1>3. LeaseAgreesWithFailures'
  BY <1>f DEF LeaseAgreesWithFailures, OneBlockerPerKey, Failure, Lease
<1>4. RetryingHoldsLease'
  BY <1>f DEF RetryingHoldsLease, LeaseAgreesWithFailures, Failure, Lease
<1>5. RetryClaimAwaitsAcquire'
  BY <1>f DEF RetryClaimAwaitsAcquire, LeaseAgreesWithFailures, Failure, Lease
<1>6. PauseWaitsForLease'
  BY <1>f DEF PauseWaitsForLease, Lease
<1>7. ReplayClaimIsLive'
  BY <1>f DEF ReplayClaimIsLive, LeaseAgreesWithFailures, Failure, Lease
<1>8. FencesAreCounted'
  BY <1>f DEF FencesAreCounted, RetryClaimAwaitsAcquire, Lease
<1>9. FencesAreUnique'
  BY <1>f DEF FencesAreUnique, FencesAreCounted, Lease
<1> QED
  BY <1>1, <1>2, <1>3, <1>4, <1>5, <1>6, <1>7, <1>8, <1>9

(* Resume runs only without a lease, so no pause request is outstanding. *)
LEMMA ResumePreserves ==
  ASSUME StreamInv, NEW k \in Keys,
         Resume(k)
  PROVE  StreamInv'
<1> USE DEF StreamInv, TypeOK, Resume, CanResume, HasBlockingFailure, Blocking, Leased
<1>f. failures' \in [Deliveries -> Failure]
  BY DEF Failure, Statuses
<1>1. TypeOK'
  BY <1>f DEF Checkpoint, Lease
<1>2. OneBlockerPerKey'
  BY <1>f DEF OneBlockerPerKey, LeaseAgreesWithFailures, Failure
<1>3. LeaseAgreesWithFailures'
  BY <1>f DEF LeaseAgreesWithFailures, OneBlockerPerKey, Failure, Lease
<1>4. RetryingHoldsLease'
  BY <1>f DEF RetryingHoldsLease, LeaseAgreesWithFailures, Failure, Lease
<1>5. RetryClaimAwaitsAcquire'
  BY <1>f DEF RetryClaimAwaitsAcquire, LeaseAgreesWithFailures, Failure, Lease
<1>6. PauseWaitsForLease'
  BY <1>f DEF PauseWaitsForLease, Lease
<1>7. ReplayClaimIsLive'
  BY <1>f DEF ReplayClaimIsLive, LeaseAgreesWithFailures, Failure, Lease
<1>8. FencesAreCounted'
  BY <1>f DEF FencesAreCounted, RetryClaimAwaitsAcquire, Lease
<1>9. FencesAreUnique'
  BY <1>f DEF FencesAreUnique, FencesAreCounted, Lease
<1> QED
  BY <1>1, <1>2, <1>3, <1>4, <1>5, <1>6, <1>7, <1>8, <1>9

(* Reset moves an idle checkpoint and nothing else. *)
LEMMA ResetPreserves ==
  ASSUME StreamInv, NEW k \in Keys, NEW expected, NEW to \in Positions,
         Reset(k, expected, to)
  PROVE  StreamInv'
<1> USE DEF StreamInv, TypeOK, Reset, CanReset, MoveCheckpoint, Blocking, Leased
<1>f. failures' \in [Deliveries -> Failure]
  BY DEF Failure, Statuses
<1>1. TypeOK'
  BY <1>f DEF Checkpoint, Lease
<1>2. OneBlockerPerKey'
  BY <1>f DEF OneBlockerPerKey, LeaseAgreesWithFailures, Failure
<1>3. LeaseAgreesWithFailures'
  BY <1>f DEF LeaseAgreesWithFailures, OneBlockerPerKey, Failure, Lease
<1>4. RetryingHoldsLease'
  BY <1>f DEF RetryingHoldsLease, LeaseAgreesWithFailures, Failure, Lease
<1>5. RetryClaimAwaitsAcquire'
  BY <1>f DEF RetryClaimAwaitsAcquire, LeaseAgreesWithFailures, Failure, Lease
<1>6. PauseWaitsForLease'
  BY <1>f DEF PauseWaitsForLease, Lease
<1>7. ReplayClaimIsLive'
  BY <1>f DEF ReplayClaimIsLive, LeaseAgreesWithFailures, Failure, Lease
<1>8. FencesAreCounted'
  BY <1>f DEF FencesAreCounted, RetryClaimAwaitsAcquire, Lease
<1>9. FencesAreUnique'
  BY <1>f DEF FencesAreUnique, FencesAreCounted, Lease
<1> QED
  BY <1>1, <1>2, <1>3, <1>4, <1>5, <1>6, <1>7, <1>8, <1>9

(* A new lease is for the only blocker, or for a stream without one. *)
LEMMA AcquireNewPreserves ==
  ASSUME StreamInv, NEW d \in Deliveries, NEW successor \in Positions,
         NEW expected, NEW purpose \in Purposes,
         AcquireNew(d, successor, expected, purpose)
  PROVE  StreamInv'
<1> USE DEF StreamInv, TypeOK, AcquireNew, CanAcquireNew, HasBlockingFailure, Admissible,
         Authorised, Purposes, Blocking, Leased
<1>f. failures' \in [Deliveries -> Failure]
  BY DEF Failure, Statuses
<1>1. TypeOK'
  BY <1>f DEF Checkpoint, Lease
<1>2. OneBlockerPerKey'
  BY <1>f DEF OneBlockerPerKey, LeaseAgreesWithFailures, Failure
<1>3. LeaseAgreesWithFailures'
  BY <1>f DEF LeaseAgreesWithFailures, OneBlockerPerKey, Failure, Lease
<1>4. RetryingHoldsLease'
  BY <1>f DEF RetryingHoldsLease, LeaseAgreesWithFailures, Failure, Lease
<1>5. RetryClaimAwaitsAcquire'
  BY <1>f DEF RetryClaimAwaitsAcquire, LeaseAgreesWithFailures, Failure, Lease
<1>6. PauseWaitsForLease'
  BY <1>f DEF PauseWaitsForLease, Lease
<1>7. ReplayClaimIsLive'
  BY <1>f DEF ReplayClaimIsLive, LeaseAgreesWithFailures, Failure, Lease
<1>8. FencesAreCounted'
  BY <1>f DEF FencesAreCounted, RetryClaimAwaitsAcquire, Lease
<1>9. FencesAreUnique'
  BY <1>f DEF FencesAreUnique, FencesAreCounted, Lease
<1> QED
  BY <1>1, <1>2, <1>3, <1>4, <1>5, <1>6, <1>7, <1>8, <1>9

(* Taking a scheduled retry keeps its fence and hands it out once. *)
LEMMA AcquireRetryPreserves ==
  ASSUME StreamInv, NEW d \in Deliveries, NEW successor \in Positions,
         NEW expected,
         AcquireRetry(d, successor, expected)
  PROVE  StreamInv'
<1> USE DEF StreamInv, TypeOK, AcquireRetry, CanAcquireRetry, Blocking, Leased
<1>f. failures' \in [Deliveries -> Failure]
  BY DEF Failure, Statuses
<1>1. TypeOK'
  BY <1>f DEF Checkpoint, Lease
<1>2. OneBlockerPerKey'
  BY <1>f DEF OneBlockerPerKey, LeaseAgreesWithFailures, Failure
<1>3. LeaseAgreesWithFailures'
  BY <1>f DEF LeaseAgreesWithFailures, OneBlockerPerKey, Failure, Lease
<1>4. RetryingHoldsLease'
  BY <1>f DEF RetryingHoldsLease, LeaseAgreesWithFailures, Failure, Lease
<1>5. RetryClaimAwaitsAcquire'
  BY <1>f DEF RetryClaimAwaitsAcquire, LeaseAgreesWithFailures, Failure, Lease
<1>6. PauseWaitsForLease'
  BY <1>f DEF PauseWaitsForLease, Lease
<1>7. ReplayClaimIsLive'
  BY <1>f DEF ReplayClaimIsLive, LeaseAgreesWithFailures, Failure, Lease
<1>8. FencesAreCounted'
  BY <1>f DEF FencesAreCounted, RetryClaimAwaitsAcquire, Lease
<1>9. FencesAreUnique'
  BY <1>f DEF FencesAreUnique, FencesAreCounted, Lease
<1> QED
  BY <1>1, <1>2, <1>3, <1>4, <1>5, <1>6, <1>7, <1>8, <1>9

(* Retry turns the only blocker into a leased attempt. *)
LEMMA RetryPreserves ==
  ASSUME StreamInv, NEW d \in Deliveries, NEW successor \in Positions,
         NEW expectedVersion, NEW expected,
         Retry(d, successor, expectedVersion, expected)
  PROVE  StreamInv'
<1> USE DEF StreamInv, TypeOK, Retry, CanRetry, NextAttempt, Blocking, Leased
<1>f. failures' \in [Deliveries -> Failure]
  BY DEF Failure, Statuses
<1>1. TypeOK'
  BY <1>f DEF Lease, Purposes
<1>2. OneBlockerPerKey'
  BY <1>f DEF OneBlockerPerKey, LeaseAgreesWithFailures, Failure
<1>3. LeaseAgreesWithFailures'
  BY <1>f DEF LeaseAgreesWithFailures, OneBlockerPerKey, Failure, Lease
<1>4. RetryingHoldsLease'
  <2> SUFFICES ASSUME NEW e \in Deliveries, failures'[e].status = "Retrying"
               PROVE  RetryingHoldsLease!(e)!2'
    BY DEF RetryingHoldsLease
  <2>1. CASE e = d
    BY <2>1 DEF Lease, Purposes
  <2>2. CASE e # d
    <3>1. failures'[e] = failures[e]
      BY <2>2
    <3>2. KeyOf[e] # KeyOf[d]
      BY <3>1, <2>2 DEF OneBlockerPerKey
    <3> QED
      BY <3>1, <3>2 DEF RetryingHoldsLease
  <2> QED
    BY <2>1, <2>2
<1>5. RetryClaimAwaitsAcquire'
  <2> SUFFICES ASSUME NEW k \in Keys
               PROVE  RetryClaimAwaitsAcquire!(k)'
    BY DEF RetryClaimAwaitsAcquire
  <2>1. CASE k = KeyOf[d]
    <3>1. leases'[k] \in Lease /\ leases'[k].delivery = d
      BY <2>1 DEF Lease, Purposes
    <3>2. failures'[d].status = "Retrying" /\ k \in retryClaims'
      BY <2>1
    <3> QED
      BY <3>1, <3>2
  <2>2. CASE k # KeyOf[d]
    <3>1. leases'[k] = leases[k] /\ (k \in retryClaims' <=> k \in retryClaims)
      BY <2>2
    <3>2. Leased(k) => leases[k].delivery \in Deliveries \ {d}
      BY <2>2 DEF LeaseAgreesWithFailures, Lease
    <3> QED
      BY <3>1, <3>2 DEF RetryClaimAwaitsAcquire
  <2> QED
    BY <2>1, <2>2
<1>6. PauseWaitsForLease'
  BY <1>f DEF PauseWaitsForLease, Lease
<1>7. ReplayClaimIsLive'
  BY <1>f DEF ReplayClaimIsLive, LeaseAgreesWithFailures, Failure, Lease
<1>8. FencesAreCounted'
  BY <1>f DEF FencesAreCounted, RetryClaimAwaitsAcquire, Lease
<1>9. FencesAreUnique'
  BY <1>f DEF FencesAreUnique, FencesAreCounted, Lease
<1> QED
  BY <1>1, <1>2, <1>3, <1>4, <1>5, <1>6, <1>7, <1>8, <1>9

(* A failure can only be recorded by the current lease holder, so the
   delivery becomes the only blocker of its stream. *)
LEMMA FailPreserves ==
  ASSUME StreamInv, NEW lease \in Lease,
         Fail(lease)
  PROVE  StreamInv'
<1> USE DEF StreamInv, TypeOK, Fail, CanFail, Holds, ConsumeLease, Blocking, Leased
<1>l. lease.delivery \in Deliveries /\ KeyOf[lease.delivery] \in Keys /\ lease.successor \in Positions
  BY DEF Lease
<1>f. failures' \in [Deliveries -> Failure]
  BY <1>l DEF Failure, Statuses
<1>1. TypeOK'
  BY <1>l, <1>f DEF Checkpoint, Lease
<1>2. OneBlockerPerKey'
  BY <1>l, <1>f DEF OneBlockerPerKey, LeaseAgreesWithFailures, Failure
<1>3. LeaseAgreesWithFailures'
  BY <1>l, <1>f DEF LeaseAgreesWithFailures, OneBlockerPerKey, Failure, Lease
<1>4. RetryingHoldsLease'
  BY <1>l, <1>f DEF RetryingHoldsLease, LeaseAgreesWithFailures, Failure, Lease
<1>5. RetryClaimAwaitsAcquire'
  BY <1>l, <1>f DEF RetryClaimAwaitsAcquire, LeaseAgreesWithFailures, Failure, Lease
<1>6. PauseWaitsForLease'
  BY <1>l, <1>f DEF PauseWaitsForLease, Lease
<1>7. ReplayClaimIsLive'
  BY <1>l, <1>f DEF ReplayClaimIsLive, LeaseAgreesWithFailures, Failure, Lease
<1>8. FencesAreCounted'
  BY <1>l, <1>f DEF FencesAreCounted, RetryClaimAwaitsAcquire, Lease
<1>9. FencesAreUnique'
  BY <1>l, <1>f DEF FencesAreUnique, FencesAreCounted, Lease
<1> QED
  BY <1>1, <1>2, <1>3, <1>4, <1>5, <1>6, <1>7, <1>8, <1>9

(* Completing ends the lease and with it the only blocker. *)
LEMMA CompletePreserves ==
  ASSUME StreamInv, NEW lease \in Lease, NEW expected,
         Complete(lease, expected)
  PROVE  StreamInv'
<1> USE DEF StreamInv, TypeOK, Complete, CanComplete, Holds, ConsumeLease, Advance,
         MoveCheckpoint, SetStatus, Blocking, Leased
<1>l. lease.delivery \in Deliveries /\ KeyOf[lease.delivery] \in Keys /\ lease.successor \in Positions
  BY DEF Lease
<1>f. failures' \in [Deliveries -> Failure]
  BY <1>l DEF Failure, Statuses
<1>1. TypeOK'
  BY <1>l, <1>f DEF Checkpoint, Lease
<1>2. OneBlockerPerKey'
  BY <1>l, <1>f DEF OneBlockerPerKey, LeaseAgreesWithFailures, Failure
<1>3. LeaseAgreesWithFailures'
  <2> SUFFICES ASSUME NEW k \in Keys, Leased(k)'
               PROVE  LeaseAgreesWithFailures!(k)!2'
    BY DEF LeaseAgreesWithFailures
  <2>1. k # KeyOf[lease.delivery] /\ leases'[k] = leases[k] /\ Leased(k)
    BY <1>l
  <2>2. \A e \in Deliveries : KeyOf[e] = k => failures'[e] = failures[e]
    BY <1>l, <2>1
  <2> QED
    BY <2>1, <2>2 DEF LeaseAgreesWithFailures, Lease
<1>4. RetryingHoldsLease'
  BY <1>l, <1>f DEF RetryingHoldsLease, LeaseAgreesWithFailures, Failure, Lease
<1>5. RetryClaimAwaitsAcquire'
  BY <1>l, <1>f DEF RetryClaimAwaitsAcquire, LeaseAgreesWithFailures, Failure, Lease
<1>6. PauseWaitsForLease'
  BY <1>l, <1>f DEF PauseWaitsForLease, Lease
<1>7. ReplayClaimIsLive'
  BY <1>l, <1>f DEF ReplayClaimIsLive, LeaseAgreesWithFailures, Failure, Lease
<1>8. FencesAreCounted'
  BY <1>l, <1>f DEF FencesAreCounted, RetryClaimAwaitsAcquire, Lease
<1>9. FencesAreUnique'
  BY <1>l, <1>f DEF FencesAreUnique, FencesAreCounted, Lease
<1> QED
  BY <1>1, <1>2, <1>3, <1>4, <1>5, <1>6, <1>7, <1>8, <1>9

(* Skipping ends the lease and with it the only blocker. *)
LEMMA SkipPreserves ==
  ASSUME StreamInv, NEW lease \in Lease, NEW expected, NEW expectedVersion,
         Skip(lease, expected, expectedVersion)
  PROVE  StreamInv'
<1> USE DEF StreamInv, TypeOK, Skip, CanSkip, Holds, ConsumeLease, Advance, MoveCheckpoint,
         SetStatus, Blocking, Leased
<1>l. lease.delivery \in Deliveries /\ KeyOf[lease.delivery] \in Keys /\ lease.successor \in Positions
  BY DEF Lease
<1>f. failures' \in [Deliveries -> Failure]
  BY <1>l DEF Failure, Statuses
<1>1. TypeOK'
  BY <1>l, <1>f DEF Checkpoint, Lease
<1>2. OneBlockerPerKey'
  BY <1>l, <1>f DEF OneBlockerPerKey, LeaseAgreesWithFailures, Failure
<1>3. LeaseAgreesWithFailures'
  BY <1>l, <1>f DEF LeaseAgreesWithFailures, OneBlockerPerKey, Failure, Lease
<1>4. RetryingHoldsLease'
  BY <1>l, <1>f DEF RetryingHoldsLease, LeaseAgreesWithFailures, Failure, Lease
<1>5. RetryClaimAwaitsAcquire'
  BY <1>l, <1>f DEF RetryClaimAwaitsAcquire, LeaseAgreesWithFailures, Failure, Lease
<1>6. PauseWaitsForLease'
  BY <1>l, <1>f DEF PauseWaitsForLease, Lease
<1>7. ReplayClaimIsLive'
  BY <1>l, <1>f DEF ReplayClaimIsLive, LeaseAgreesWithFailures, Failure, Lease
<1>8. FencesAreCounted'
  BY <1>l, <1>f DEF FencesAreCounted, RetryClaimAwaitsAcquire, Lease
<1>9. FencesAreUnique'
  BY <1>l, <1>f DEF FencesAreUnique, FencesAreCounted, Lease
<1> QED
  BY <1>1, <1>2, <1>3, <1>4, <1>5, <1>6, <1>7, <1>8, <1>9

(* Cancelling a retry puts the delivery back to Failed. *)
LEMMA CancelPreserves ==
  ASSUME StreamInv, NEW lease \in Lease,
         Cancel(lease)
  PROVE  StreamInv'
<1> USE DEF StreamInv, TypeOK, Cancel, Holds, ConsumeLease, SetStatus, Blocking, Leased
<1>l. lease.delivery \in Deliveries /\ KeyOf[lease.delivery] \in Keys /\ lease.successor \in Positions
  BY DEF Lease
<1>f. failures' \in [Deliveries -> Failure]
  BY <1>l DEF Failure, Statuses
<1>1. TypeOK'
  BY <1>l, <1>f DEF Checkpoint, Lease
<1>2. OneBlockerPerKey'
  BY <1>l, <1>f DEF OneBlockerPerKey, LeaseAgreesWithFailures, Failure
<1>3. LeaseAgreesWithFailures'
  BY <1>l, <1>f DEF LeaseAgreesWithFailures, OneBlockerPerKey, Failure, Lease
<1>4. RetryingHoldsLease'
  BY <1>l, <1>f DEF RetryingHoldsLease, LeaseAgreesWithFailures, Failure, Lease
<1>5. RetryClaimAwaitsAcquire'
  <2> SUFFICES ASSUME NEW k \in Keys
               PROVE  RetryClaimAwaitsAcquire!(k)'
    BY DEF RetryClaimAwaitsAcquire
  <2>1. CASE k = KeyOf[lease.delivery]
    BY <1>l, <2>1
  <2>2. CASE k # KeyOf[lease.delivery]
    <3>1. leases'[k] = leases[k] /\ (k \in retryClaims' <=> k \in retryClaims)
      BY <1>l, <2>2
    <3>2. Leased(k) => leases[k].delivery \in Deliveries \ {lease.delivery}
      BY <2>2 DEF LeaseAgreesWithFailures, Lease
    <3> QED
      BY <1>l, <3>1, <3>2 DEF RetryClaimAwaitsAcquire
  <2> QED
    BY <2>1, <2>2
<1>6. PauseWaitsForLease'
  BY <1>l, <1>f DEF PauseWaitsForLease, Lease
<1>7. ReplayClaimIsLive'
  BY <1>l, <1>f DEF ReplayClaimIsLive, LeaseAgreesWithFailures, Failure, Lease
<1>8. FencesAreCounted'
  BY <1>l, <1>f DEF FencesAreCounted, RetryClaimAwaitsAcquire, Lease
<1>9. FencesAreUnique'
  BY <1>l, <1>f DEF FencesAreUnique, FencesAreCounted, Lease
<1> QED
  BY <1>1, <1>2, <1>3, <1>4, <1>5, <1>6, <1>7, <1>8, <1>9

(* A replay starts on a skipped delivery, which no lease is for. *)
LEMMA ReplayPreserves ==
  ASSUME StreamInv, NEW d \in Deliveries, NEW expectedVersion,
         Replay(d, expectedVersion)
  PROVE  StreamInv'
<1> USE DEF StreamInv, TypeOK, Replay, CanReplay, At, NextAttempt, Blocking, Leased
<1>f. failures' \in [Deliveries -> Failure]
  BY DEF Failure, Statuses
<1>1. TypeOK'
  BY <1>f DEF Checkpoint, Lease
<1>2. OneBlockerPerKey'
  BY <1>f DEF OneBlockerPerKey, LeaseAgreesWithFailures, Failure
<1>3. LeaseAgreesWithFailures'
  BY <1>f DEF LeaseAgreesWithFailures, OneBlockerPerKey, Failure, Lease
<1>4. RetryingHoldsLease'
  BY <1>f DEF RetryingHoldsLease, LeaseAgreesWithFailures, Failure, Lease
<1>5. RetryClaimAwaitsAcquire'
  BY <1>f DEF RetryClaimAwaitsAcquire, LeaseAgreesWithFailures, Failure, Lease
<1>6. PauseWaitsForLease'
  BY <1>f DEF PauseWaitsForLease, Lease
<1>7. ReplayClaimIsLive'
  BY <1>f DEF ReplayClaimIsLive, LeaseAgreesWithFailures, Failure, Lease
<1>8. FencesAreCounted'
  BY <1>f DEF FencesAreCounted, RetryClaimAwaitsAcquire, Lease
<1>9. FencesAreUnique'
  BY <1>f DEF FencesAreUnique, FencesAreCounted, Lease
<1> QED
  BY <1>1, <1>2, <1>3, <1>4, <1>5, <1>6, <1>7, <1>8, <1>9

(* A claim is taken on a delivery that is Replaying. *)
LEMMA ClaimReplayPreserves ==
  ASSUME StreamInv, NEW d \in Deliveries, NEW version,
         ClaimReplay(d, version)
  PROVE  StreamInv'
<1> USE DEF StreamInv, TypeOK, ClaimReplay, CanClaimReplay, At, Blocking, Leased
<1>f. failures' \in [Deliveries -> Failure]
  BY DEF Failure, Statuses
<1>1. TypeOK'
  BY <1>f DEF Checkpoint, Lease
<1>2. OneBlockerPerKey'
  BY <1>f DEF OneBlockerPerKey, LeaseAgreesWithFailures, Failure
<1>3. LeaseAgreesWithFailures'
  BY <1>f DEF LeaseAgreesWithFailures, OneBlockerPerKey, Failure, Lease
<1>4. RetryingHoldsLease'
  BY <1>f DEF RetryingHoldsLease, LeaseAgreesWithFailures, Failure, Lease
<1>5. RetryClaimAwaitsAcquire'
  BY <1>f DEF RetryClaimAwaitsAcquire, LeaseAgreesWithFailures, Failure, Lease
<1>6. PauseWaitsForLease'
  BY <1>f DEF PauseWaitsForLease, Lease
<1>7. ReplayClaimIsLive'
  BY <1>f DEF ReplayClaimIsLive, LeaseAgreesWithFailures, Failure, Lease
<1>8. FencesAreCounted'
  BY <1>f DEF FencesAreCounted, RetryClaimAwaitsAcquire, Lease
<1>9. FencesAreUnique'
  BY <1>f DEF FencesAreUnique, FencesAreCounted, Lease
<1> QED
  BY <1>1, <1>2, <1>3, <1>4, <1>5, <1>6, <1>7, <1>8, <1>9

(* ReplayComplete and ReplayFail release the claim they end. *)
LEMMA EndReplayPreserves ==
  ASSUME StreamInv, NEW d \in Deliveries, NEW expectedVersion,
         NEW status \in {"Replayed", "Skipped"},
         EndReplay(d, expectedVersion, status)
  PROVE  StreamInv'
<1> USE DEF StreamInv, TypeOK, EndReplay, CanEndReplay, At, SetStatus, Blocking, Leased
<1>f. failures' \in [Deliveries -> Failure]
  BY DEF Failure, Statuses
<1>1. TypeOK'
  BY <1>f DEF Checkpoint, Lease
<1>2. OneBlockerPerKey'
  BY <1>f DEF OneBlockerPerKey, LeaseAgreesWithFailures, Failure
<1>3. LeaseAgreesWithFailures'
  BY <1>f DEF LeaseAgreesWithFailures, OneBlockerPerKey, Failure, Lease
<1>4. RetryingHoldsLease'
  BY <1>f DEF RetryingHoldsLease, LeaseAgreesWithFailures, Failure, Lease
<1>5. RetryClaimAwaitsAcquire'
  BY <1>f DEF RetryClaimAwaitsAcquire, LeaseAgreesWithFailures, Failure, Lease
<1>6. PauseWaitsForLease'
  BY <1>f DEF PauseWaitsForLease, Lease
<1>7. ReplayClaimIsLive'
  BY <1>f DEF ReplayClaimIsLive, LeaseAgreesWithFailures, Failure, Lease
<1>8. FencesAreCounted'
  BY <1>f DEF FencesAreCounted, RetryClaimAwaitsAcquire, Lease
<1>9. FencesAreUnique'
  BY <1>f DEF FencesAreUnique, FencesAreCounted, Lease
<1> QED
  BY <1>1, <1>2, <1>3, <1>4, <1>5, <1>6, <1>7, <1>8, <1>9

(* Only an unclaimed replay is cancelled. *)
LEMMA ReplayCancelPreserves ==
  ASSUME StreamInv, NEW d \in Deliveries, NEW expectedVersion,
         ReplayCancel(d, expectedVersion)
  PROVE  StreamInv'
<1> USE DEF StreamInv, TypeOK, ReplayCancel, CanReplayCancel, CanClaimReplay, At, SetStatus,
         Blocking, Leased
<1>f. failures' \in [Deliveries -> Failure]
  BY DEF Failure, Statuses
<1>1. TypeOK'
  BY <1>f DEF Checkpoint, Lease
<1>2. OneBlockerPerKey'
  BY <1>f DEF OneBlockerPerKey, LeaseAgreesWithFailures, Failure
<1>3. LeaseAgreesWithFailures'
  BY <1>f DEF LeaseAgreesWithFailures, OneBlockerPerKey, Failure, Lease
<1>4. RetryingHoldsLease'
  BY <1>f DEF RetryingHoldsLease, LeaseAgreesWithFailures, Failure, Lease
<1>5. RetryClaimAwaitsAcquire'
  BY <1>f DEF RetryClaimAwaitsAcquire, LeaseAgreesWithFailures, Failure, Lease
<1>6. PauseWaitsForLease'
  BY <1>f DEF PauseWaitsForLease, Lease
<1>7. ReplayClaimIsLive'
  BY <1>f DEF ReplayClaimIsLive, LeaseAgreesWithFailures, Failure, Lease
<1>8. FencesAreCounted'
  BY <1>f DEF FencesAreCounted, RetryClaimAwaitsAcquire, Lease
<1>9. FencesAreUnique'
  BY <1>f DEF FencesAreUnique, FencesAreCounted, Lease
<1> QED
  BY <1>1, <1>2, <1>3, <1>4, <1>5, <1>6, <1>7, <1>8, <1>9

(* Resolving may touch the delivery a lease is for (Succeeded to
   Resolved), which stays deliverable. *)
LEMMA ResolvePreserves ==
  ASSUME StreamInv, NEW d \in Deliveries, NEW expectedVersion,
         Resolve(d, expectedVersion)
  PROVE  StreamInv'
<1> USE DEF StreamInv, TypeOK, Resolve, CanResolve, At, SetStatus, Blocking, Leased
<1>f. failures' \in [Deliveries -> Failure]
  BY DEF Failure, Statuses
<1>1. TypeOK'
  BY <1>f DEF Checkpoint, Lease
<1>2. OneBlockerPerKey'
  BY <1>f DEF OneBlockerPerKey, LeaseAgreesWithFailures, Failure
<1>3. LeaseAgreesWithFailures'
  BY <1>f DEF LeaseAgreesWithFailures, OneBlockerPerKey, Failure, Lease
<1>4. RetryingHoldsLease'
  BY <1>f DEF RetryingHoldsLease, LeaseAgreesWithFailures, Failure, Lease
<1>5. RetryClaimAwaitsAcquire'
  BY <1>f DEF RetryClaimAwaitsAcquire, LeaseAgreesWithFailures, Failure, Lease
<1>6. PauseWaitsForLease'
  BY <1>f DEF PauseWaitsForLease, Lease
<1>7. ReplayClaimIsLive'
  BY <1>f DEF ReplayClaimIsLive, LeaseAgreesWithFailures, Failure, Lease
<1>8. FencesAreCounted'
  BY <1>f DEF FencesAreCounted, RetryClaimAwaitsAcquire, Lease
<1>9. FencesAreUnique'
  BY <1>f DEF FencesAreUnique, FencesAreCounted, Lease
<1> QED
  BY <1>1, <1>2, <1>3, <1>4, <1>5, <1>6, <1>7, <1>8, <1>9

(* Whatever a caller can present is a lease. *)
LEMMA PresentableAreLeases ==
  ASSUME TypeOK, RetryClaimAwaitsAcquire
  PROVE  Presentable \subseteq Lease
  BY DEF TypeOK, RetryClaimAwaitsAcquire, Presentable, Leased

(* Every step of the backend preserves the invariant. *)
LEMMA NextPreserves == StreamInv /\ [Next]_vars => StreamInv'
<1> SUFFICES ASSUME StreamInv, [Next]_vars
             PROVE  StreamInv'
  OBVIOUS
<1>1. ASSUME NEW k \in Keys, Administer(k)
      PROVE  StreamInv'
  BY <1>1, PausePreserves, ResumePreserves, ResetPreserves DEF Administer
<1>2. ASSUME NEW d \in Deliveries, Take(d)
      PROVE  StreamInv'
  BY <1>2, AcquireNewPreserves, AcquireRetryPreserves, RetryPreserves DEF Take
<1>3. ASSUME NEW d \in Deliveries, Close(d)
      PROVE  StreamInv'
  BY <1>3, ReplayPreserves, ClaimReplayPreserves, EndReplayPreserves,
     ReplayCancelPreserves, ResolvePreserves DEF Close, ReplayComplete, ReplayFail
<1>4. ASSUME NEW lease \in Lease, Settle(lease)
      PROVE  StreamInv'
  BY <1>4, FailPreserves, CancelPreserves, CompletePreserves, SkipPreserves
  DEF Settle
<1>5. CASE UNCHANGED vars
  BY <1>5 DEF vars, StreamInv, TypeOK, OneBlockerPerKey,
     LeaseAgreesWithFailures, RetryingHoldsLease, RetryClaimAwaitsAcquire,
     PauseWaitsForLease, ReplayClaimIsLive, FencesAreCounted, FencesAreUnique,
     Blocking, Leased
<1> QED
  BY <1>1, <1>2, <1>3, <1>4, <1>5, PresentableAreLeases DEF Next, StreamInv

(* The inductive invariant holds in every reachable state. *)
THEOREM StreamSafety == Spec => []StreamInv
<1>1. Init => StreamInv
  BY InitStreamInv
<1>2. StreamInv /\ [Next]_vars => StreamInv'
  BY NextPreserves
<1> QED
  BY <1>1, <1>2, PTL DEF Spec

(* At most one unresolved delivery blocks an ordered stream.               *)
THEOREM StreamOneBlocker == Spec => []OneBlockerPerKey
<1>1. StreamInv => OneBlockerPerKey
  BY DEF StreamInv
<1> QED
  BY <1>1, StreamSafety, PTL

(* The step condition of both action properties below: a checkpoint stands *)
(* still in every step but a reset, a completion or a skip, and the latter *)
(* two are made by the lease holder, who holds the only blocker.           *)
LEMMA CheckpointSteps ==
  ASSUME StreamInv, Next
  PROVE  /\ \A k \in Keys : OwnerMovesCheckpoint(k)
         /\ \A d \in Deliveries : PassedOnlyBySettling(d)
<1> USE DEF StreamInv, TypeOK, Leased, OwnerMovesCheckpoint, PassedOnlyBySettling
<1>1. ASSUME NEW k \in Keys, Administer(k)
      PROVE  /\ \A j \in Keys : OwnerMovesCheckpoint(j)
             /\ \A d \in Deliveries : PassedOnlyBySettling(d)
  <2>1. CASE \E expected \in Expected(k), to \in Positions : Reset(k, expected, to)
    BY <2>1 DEF Reset, CanReset, MoveCheckpoint, HasBlockingFailure, Checkpoint
  <2>2. CASE Pause(k) \/ Resume(k)
    BY <2>2 DEF Pause, Resume
  <2> QED
    BY <1>1, <2>1, <2>2 DEF Administer
<1>2. ASSUME NEW d \in Deliveries, Take(d) \/ Close(d)
      PROVE  checkpoints' = checkpoints
  BY <1>2 DEF Take, AcquireNew, AcquireRetry, Retry, Close, Replay, ClaimReplay,
     ReplayComplete, ReplayFail, EndReplay, ReplayCancel, Resolve
<1>3. ASSUME NEW lease \in Lease, Settle(lease)
      PROVE  /\ \A k \in Keys : OwnerMovesCheckpoint(k)
             /\ \A d \in Deliveries : PassedOnlyBySettling(d)
  <2>l. lease.delivery \in Deliveries /\ KeyOf[lease.delivery] \in Keys
    BY DEF Lease
  <2>0. Leased(KeyOf[lease.delivery])
    BY <1>3, <2>l DEF Settle, Fail, CanFail, Holds, Cancel, Complete, CanComplete, Skip, CanSkip,
       ConsumeLease, Lease
  <2>1. CASE Fail(lease) \/ Cancel(lease)
    BY <2>1 DEF Fail, Cancel
  <2>2. ASSUME NEW expected, Complete(lease, expected)
        PROVE  /\ \A k \in Keys : OwnerMovesCheckpoint(k)
               /\ \A d \in Deliveries : PassedOnlyBySettling(d)
    <3>1. \A k \in Keys : OwnerMovesCheckpoint(k)
      BY <2>2, <2>0, <2>l DEF Complete, CanComplete, Holds, ConsumeLease, Advance, MoveCheckpoint,
         Checkpoint
    <3>2. \A d \in Deliveries : PassedOnlyBySettling(d)
      BY <2>2, <2>0, <2>l
      DEF Complete, CanComplete, Holds, ConsumeLease, Advance, MoveCheckpoint, SetStatus,
         LeaseAgreesWithFailures, Blocking
    <3> QED
      BY <3>1, <3>2
  <2>3. ASSUME NEW expected, NEW v, Skip(lease, expected, v)
        PROVE  /\ \A k \in Keys : OwnerMovesCheckpoint(k)
               /\ \A d \in Deliveries : PassedOnlyBySettling(d)
    <3>1. \A k \in Keys : OwnerMovesCheckpoint(k)
      BY <2>3, <2>0, <2>l DEF Skip, CanSkip, Holds, ConsumeLease, Advance, MoveCheckpoint,
         Checkpoint
    <3>2. \A d \in Deliveries : PassedOnlyBySettling(d)
      BY <2>3, <2>0, <2>l
      DEF Skip, CanSkip, Holds, ConsumeLease, Advance, MoveCheckpoint, SetStatus,
         LeaseAgreesWithFailures, Blocking
    <3> QED
      BY <3>1, <3>2
  <2> QED
    BY <1>3, <2>1, <2>2, <2>3 DEF Settle
<1> QED
  BY <1>1, <1>2, <1>3, PresentableAreLeases DEF Next

(* A checkpoint moves only with the lease of its stream, or by a reset of  *)
(* an idle paused stream.                                                  *)
THEOREM StreamCheckpointOwner == Spec => CheckpointMovesOnlyByOwner
<1>1. StreamInv /\ [Next]_vars => [\A k \in Keys : OwnerMovesCheckpoint(k)]_vars
  BY CheckpointSteps
<1> QED
  BY <1>1, StreamSafety, PTL DEF Spec, CheckpointMovesOnlyByOwner

(* The checkpoint never passes a blocking delivery that was not settled.   *)
THEOREM StreamNoOvertaking == Spec => NoOvertaking
<1>1. StreamInv /\ [Next]_vars => [\A d \in Deliveries : PassedOnlyBySettling(d)]_vars
  BY CheckpointSteps
<1> QED
  BY <1>1, StreamSafety, PTL DEF Spec, NoOvertaking

(* Every intent leaves the failure records alone or replaces one by a      *)
(* record of the next version.                                             *)
LEMMA FailureSteps ==
  ASSUME StreamInv, Next
  PROVE  \A d \in Deliveries : failures'[d] # failures[d] =>
           failures'[d].version = failures[d].version + 1
<1> DEFINE Bumped == \A d \in Deliveries : failures'[d] # failures[d] =>
                       failures'[d].version = failures[d].version + 1
<1>1. failures \in [Deliveries -> Failure]
  BY DEF StreamInv, TypeOK
<1>2. ASSUME NEW d \in Deliveries, NEW status, SetStatus(d, status) \/ NextAttempt(d, status)
      PROVE  Bumped
  BY <1>1, <1>2 DEF SetStatus, NextAttempt
<1>3. ASSUME NEW k \in Keys, Administer(k) PROVE Bumped
  BY <1>3 DEF Administer, Pause, Resume, Reset
<1>4. ASSUME NEW d \in Deliveries, Take(d) PROVE Bumped
  <2>1. failures' = failures \/ \E status : SetStatus(d, status) \/ NextAttempt(d, status)
    BY <1>4 DEF Take, AcquireNew, AcquireRetry, Retry
  <2> QED BY <1>2, <2>1
<1>5. ASSUME NEW d \in Deliveries, Close(d) PROVE Bumped
  <2>1. failures' = failures \/ \E status : SetStatus(d, status) \/ NextAttempt(d, status)
    BY <1>5 DEF Close, Replay, ClaimReplay, ReplayComplete, ReplayFail, EndReplay, ReplayCancel, Resolve
  <2> QED BY <1>2, <2>1
<1>6. ASSUME NEW lease \in Lease, Settle(lease) PROVE Bumped
  <2>1. lease.delivery \in Deliveries
    BY DEF Lease
  <2>2. CASE Fail(lease)
    BY <1>1, <2>1, <2>2 DEF Fail
  <2>3. CASE ~Fail(lease)
    <3>1. failures' = failures \/ \E status : SetStatus(lease.delivery, status)
      BY <1>6, <2>3 DEF Settle, Cancel, Complete, Skip
    <3> QED BY <1>2, <2>1, <3>1
  <2> QED BY <2>2, <2>3
<1> QED BY <1>3, <1>4, <1>5, <1>6, PresentableAreLeases DEF Next, StreamInv

(* The version of a failure record is a sound compare-and-swap token, for  *)
(* every set of streams and deliveries.                                    *)
THEOREM StreamFailureVersions == Spec => FailureVersionGuardsRecord
<1>1. StreamInv /\ [Next]_vars =>
        [\A d \in Deliveries : failures'[d] # failures[d] =>
           failures'[d].version = failures[d].version + 1]_vars
  BY FailureSteps
<1> QED
  BY <1>1, StreamSafety, PTL DEF Spec, FailureVersionGuardsRecord

-----------------------------------------------------------------------------
(* Ordered delivery.  The abstract state is a function of the checkpoints, *)
(* the leases and the failure records; BlockerOf and HolderOf are Blocker  *)
(* and Holder with the table as a parameter, so that one lemma serves the  *)
(* states before and after a step.                                         *)

BlocksIn(f, d) == f[d].status \in {"Failed", "Retrying"}

BlockerOf(f, k) ==
  IF \E d \in Deliveries : KeyOf[d] = k /\ BlocksIn(f, d)
  THEN CHOOSE d \in Deliveries : KeyOf[d] = k /\ BlocksIn(f, d)
  ELSE NoDelivery

HolderOf(m, k) == IF m[k] # NoLease THEN m[k].delivery ELSE NoDelivery

(* The only blocking delivery of a stream is its blocker. *)
LEMMA OnlyBlocker ==
  ASSUME NEW f, NEW d \in Deliveries, BlocksIn(f, d),
         \A e \in Deliveries : KeyOf[e] = KeyOf[d] /\ BlocksIn(f, e) => e = d
  PROVE  BlockerOf(f, KeyOf[d]) = d
  BY DEF BlockerOf

(* A stream without a blocking delivery has no blocker. *)
LEMMA WithoutBlocker ==
  ASSUME NEW f, NEW k,
         \A e \in Deliveries : KeyOf[e] = k => ~ BlocksIn(f, e)
  PROVE  BlockerOf(f, k) = NoDelivery
  BY DEF BlockerOf

(* The blocker depends on nothing but which deliveries block. *)
LEMMA SameBlocker ==
  ASSUME NEW f, NEW g, NEW k,
         \A d, e \in Deliveries :
           (KeyOf[d] = k /\ KeyOf[e] = k /\ BlocksIn(f, d) /\ BlocksIn(f, e)) => d = e,
         \A e \in Deliveries : KeyOf[e] = k => (BlocksIn(f, e) <=> BlocksIn(g, e))
  PROVE  BlockerOf(f, k) = BlockerOf(g, k)
<1>1. CASE \E d \in Deliveries : KeyOf[d] = k /\ BlocksIn(f, d)
  <2> PICK d \in Deliveries : KeyOf[d] = k /\ BlocksIn(f, d)
    BY <1>1
  <2>1. BlockerOf(f, k) = d
    BY OnlyBlocker
  <2>2. BlockerOf(g, k) = d
    BY OnlyBlocker
  <2> QED
    BY <2>1, <2>2
<1>2. CASE \A d \in Deliveries : KeyOf[d] = k => ~ BlocksIn(f, d)
  BY <1>2, WithoutBlocker
<1> QED
  BY <1>1, <1>2

(* What the abstract specification sees of a state and of the next one. *)
LEMMA AbstractState ==
  ASSUME NEW k \in Keys
  PROVE  /\ Blocker(k) = BlockerOf(failures, k)
         /\ Blocker(k)' = BlockerOf(failures', k)
         /\ Holder(k) = HolderOf(leases, k)
         /\ Holder(k)' = HolderOf(leases', k)
         /\ HasBlockingFailure(k) <=>
              \E d \in Deliveries : KeyOf[d] = k /\ BlocksIn(failures, d)
  BY DEF Blocker, BlockerOf, Holder, HolderOf, HasBlockingFailure, Blocking,
     BlocksIn, Leased

(* What a step leaves of a stream as it was, component by component.       *)
SameVersion(j) == checkpoints'[j].version = checkpoints[j].version

SameHolder(j) == HolderOf(leases', j) = HolderOf(leases, j)

SameBlockerAt(j) == BlockerOf(failures', j) = BlockerOf(failures, j)

SameStream(j) == SameVersion(j) /\ SameHolder(j) /\ SameBlockerAt(j)

(* Streams that all look the same make an invisible step. *)
LEMMA AbstractStutter ==
  ASSUME \A j \in Keys : SameStream(j)
  PROVE  UNCHANGED Promise!vars
  BY AbstractState DEF Promise!vars, SameStream, SameVersion, SameHolder, SameBlockerAt

(* One free stream gets a holder, its blocker if it has one: a grant. *)
LEMMA AbstractGrant ==
  ASSUME NEW k \in Keys, NEW d \in Deliveries,
         \A j \in Keys : SameVersion(j) /\ SameBlockerAt(j),
         \A j \in Keys \ {k} : SameHolder(j),
         HolderOf(leases, k) = NoDelivery, HolderOf(leases', k) = d,
         BlockerOf(failures, k) \in {NoDelivery, d}
  PROVE  Promise!Next
<1>1. \A j \in Keys : Holder(j)' = IF j = k THEN d ELSE Holder(j)
  BY AbstractState DEF SameStream, SameHolder
<1>2. \A j \in Keys : Blocker(j)' = Blocker(j)
  BY AbstractState DEF SameStream, SameBlockerAt
<1>3. \A j \in Keys : checkpoints'[j].version =
         checkpoints[j].version
  BY DEF SameStream, SameVersion
<1>4. Promise!Grant(k, d)
  BY <1>1, <1>2, <1>3, AbstractState DEF Promise!Grant
<1> QED
  BY <1>4 DEF Promise!Next

(* A holder leaves, its stream moves on and is not blocked: a settlement. *)
LEMMA AbstractSettle ==
  ASSUME NEW k \in Keys,
         \A j \in Keys \ {k} : SameStream(j),
         HolderOf(leases, k) # NoDelivery, HolderOf(leases', k) = NoDelivery,
         BlockerOf(failures, k) \in {NoDelivery, HolderOf(leases, k)},
         BlockerOf(failures', k) = NoDelivery,
         checkpoints'[k].version = checkpoints[k].version + 1
  PROVE  Promise!Next
<1>1. \A j \in Keys : Holder(j)' = IF j = k THEN NoDelivery ELSE Holder(j)
  BY AbstractState DEF SameStream, SameHolder
<1>2. \A j \in Keys : Blocker(j)' = IF j = k THEN NoDelivery ELSE Blocker(j)
  BY AbstractState DEF SameStream, SameBlockerAt
<1>3. \A j \in Keys : checkpoints'[j].version =
         IF j = k THEN checkpoints[j].version + 1 ELSE checkpoints[j].version
  BY DEF SameStream, SameVersion
<1>4. Promise!Settle(k)
  BY <1>1, <1>2, <1>3, AbstractState DEF Promise!Settle
<1> QED
  BY <1>4 DEF Promise!Next

(* A holder leaves its stream blocked: a block. *)
LEMMA AbstractBlock ==
  ASSUME NEW k \in Keys,
         \A j \in Keys \ {k} : SameStream(j), SameVersion(k),
         HolderOf(leases, k) # NoDelivery, HolderOf(leases', k) = NoDelivery,
         BlockerOf(failures', k) = HolderOf(leases, k)
  PROVE  Promise!Next
<1>1. \A j \in Keys : Holder(j)' = IF j = k THEN NoDelivery ELSE Holder(j)
  BY AbstractState DEF SameStream, SameHolder
<1>2. \A j \in Keys : Blocker(j)' = IF j = k THEN Holder(k) ELSE Blocker(j)
  BY AbstractState DEF SameStream, SameBlockerAt
<1>3. \A j \in Keys : checkpoints'[j].version =
         checkpoints[j].version
  BY DEF SameStream, SameVersion
<1>4. Promise!Block(k)
  BY <1>1, <1>2, <1>3, AbstractState DEF Promise!Block
<1> QED
  BY <1>4 DEF Promise!Next

(* Holders leave, versions and blockers stay: a release. *)
LEMMA AbstractRelease ==
  ASSUME NEW k \in Keys,
         \A j \in Keys \ {k} : SameStream(j),
         SameVersion(k), SameBlockerAt(k), HolderOf(leases', k) = NoDelivery
  PROVE  Promise!Next
<1>1. Promise!Release({k})
  BY AbstractState DEF Promise!Release, SameStream, SameVersion, SameHolder, SameBlockerAt
<1> QED
  BY <1>1 DEF Promise!Next

(* A stream with neither holder nor blocker moves: a reset. *)
LEMMA AbstractReset ==
  ASSUME NEW k \in Keys,
         \A j \in Keys \ {k} : SameStream(j), SameHolder(k), SameBlockerAt(k),
         HolderOf(leases, k) = NoDelivery, BlockerOf(failures, k) = NoDelivery,
         checkpoints'[k].version = checkpoints[k].version + 1
  PROVE  Promise!Next
<1>1. \A j \in Keys : Holder(j)' = Holder(j)
  BY AbstractState DEF SameStream, SameHolder
<1>2. \A j \in Keys : Blocker(j)' = Blocker(j)
  BY AbstractState DEF SameStream, SameBlockerAt
<1>3. \A j \in Keys : checkpoints'[j].version =
         IF j = k THEN checkpoints[j].version + 1 ELSE checkpoints[j].version
  BY DEF SameStream, SameVersion
<1>4. Promise!Reset(k)
  BY <1>1, <1>2, <1>3, AbstractState DEF Promise!Reset
<1> QED
  BY <1>4 DEF Promise!Next

(* The same deliveries block before and after: the blockers are the same. *)
LEMMA KeptBlockers ==
  ASSUME StreamInv, NEW k,
         \A e \in Deliveries : KeyOf[e] = k =>
           (BlocksIn(failures, e) <=> BlocksIn(failures', e))
  PROVE  SameBlockerAt(k)
<1>1. \A d, e \in Deliveries :
        (KeyOf[d] = k /\ KeyOf[e] = k /\ BlocksIn(failures, d) /\ BlocksIn(failures, e))
          => d = e
  BY DEF StreamInv, OneBlockerPerKey, Blocking, BlocksIn
<1> QED
  BY <1>1, SameBlocker DEF SameBlockerAt

(* Pausing, resuming, replaying and resolving are invisible. *)
LEMMA InvisibleSteps ==
  ASSUME StreamInv, UNCHANGED <<checkpoints, leases>>,
         \A e \in Deliveries : BlocksIn(failures, e) <=> BlocksIn(failures', e)
  PROVE  UNCHANGED Promise!vars
<1>1. \A j \in Keys : SameBlockerAt(j)
  BY KeptBlockers
<1> QED
  BY <1>1, AbstractStutter DEF SameStream, SameVersion, SameHolder

(* Of the administrative intents only a reset is visible. *)
LEMMA AdministerImplements ==
  ASSUME StreamInv, NEW k \in Keys, Administer(k)
  PROVE  Promise!Next \/ UNCHANGED Promise!vars
<1>1. CASE Pause(k) \/ Resume(k)
  BY <1>1, InvisibleSteps DEF Pause, Resume, BlocksIn
<1>2. ASSUME NEW expected, NEW to \in Positions, Reset(k, expected, to)
      PROVE  Promise!Next
  <2>1. \A j \in Keys : SameBlockerAt(j) /\ SameHolder(j)
    BY <1>2 DEF Reset, SameBlockerAt, SameHolder
  <2>2. /\ checkpoints'[k].version = checkpoints[k].version + 1
        /\ \A j \in Keys \ {k} : SameVersion(j)
    BY <1>2 DEF Reset, MoveCheckpoint, SameVersion, StreamInv, TypeOK
  <2>3. BlockerOf(failures, k) = NoDelivery
    BY <1>2, WithoutBlocker DEF Reset, CanReset, HasBlockingFailure, Blocking, BlocksIn
  <2>4. HolderOf(leases, k) = NoDelivery
    BY <1>2 DEF Reset, CanReset, Leased, HolderOf
  <2> QED
    BY <2>1, <2>2, <2>3, <2>4, AbstractReset DEF SameStream
<1> QED
  BY <1>1, <1>2 DEF Administer

(* A new lease and a scheduled retry are grants; acquiring the retry is not
   seen, since its lease is for the same delivery. *)
LEMMA TakeImplements ==
  ASSUME StreamInv, NEW d \in Deliveries, Take(d)
  PROVE  Promise!Next \/ UNCHANGED Promise!vars
<1> DEFINE k == KeyOf[d]
<1>k. k \in Keys
  OBVIOUS
<1>v. \A j \in Keys : SameVersion(j)
  BY DEF Take, AcquireNew, AcquireRetry, Retry, SameVersion
<1>1. ASSUME NEW successor \in Positions, NEW expected, NEW purpose \in Purposes,
             AcquireNew(d, successor, expected, purpose)
      PROVE  Promise!Next
  <2>1. \A j \in Keys : SameBlockerAt(j)
    BY <1>1 DEF AcquireNew, SameBlockerAt
  <2>2. /\ leases[k] = NoLease /\ leases'[k] # NoLease /\ leases'[k].delivery = d
        /\ \A j \in Keys \ {k} : leases'[j] = leases[j]
    BY <1>1 DEF AcquireNew, CanAcquireNew, Leased, StreamInv, TypeOK, Lease
  <2>3. BlockerOf(failures, k) \in {NoDelivery, d}
    <3>1. CASE HasBlockingFailure(k)
      <4>1. Blocking(d)
        BY <1>1, <3>1 DEF AcquireNew, CanAcquireNew, Authorised, Blocking
      <4> QED
        BY <4>1, OnlyBlocker DEF StreamInv, OneBlockerPerKey, Blocking, BlocksIn
    <3>2. CASE ~ HasBlockingFailure(k)
      BY <3>2, WithoutBlocker DEF HasBlockingFailure, Blocking, BlocksIn
    <3> QED
      BY <3>1, <3>2
  <2> QED
    BY <1>k, <1>v, <2>1, <2>2, <2>3, AbstractGrant DEF HolderOf, SameHolder
<1>2. ASSUME NEW successor \in Positions, NEW expected,
             AcquireRetry(d, successor, expected)
      PROVE  UNCHANGED Promise!vars
  <2>1. \A j \in Keys : SameBlockerAt(j)
    BY <1>2 DEF AcquireRetry, SameBlockerAt
  <2>2. /\ leases[k] # NoLease /\ leases[k].delivery = d
        /\ leases[k].fence \in Nat /\ leases[k].purpose \in Purposes
    BY <1>2 DEF AcquireRetry, CanAcquireRetry, Leased, StreamInv, TypeOK, RetryingHoldsLease,
       Lease
  <2>3. /\ leases'[k] # NoLease /\ leases'[k].delivery = d
        /\ \A j \in Keys \ {k} : leases'[j] = leases[j]
    BY <1>2, <2>2 DEF AcquireRetry, StreamInv, TypeOK, Lease
  <2>4. \A j \in Keys : SameHolder(j)
    BY <2>2, <2>3 DEF HolderOf, SameHolder
  <2> QED
    BY <1>v, <2>1, <2>4, AbstractStutter DEF SameStream
<1>3. ASSUME NEW successor \in Positions, NEW v, NEW expected,
             Retry(d, successor, v, expected)
      PROVE  Promise!Next
  <2>1. \A e \in Deliveries : BlocksIn(failures, e) <=> BlocksIn(failures', e)
    BY <1>3 DEF Retry, CanRetry, NextAttempt, BlocksIn, StreamInv, TypeOK
  <2>2. \A j \in Keys : SameBlockerAt(j)
    BY <2>1, KeptBlockers
  <2>3. /\ leases[k] = NoLease /\ leases'[k] # NoLease /\ leases'[k].delivery = d
        /\ \A j \in Keys \ {k} : leases'[j] = leases[j]
    BY <1>3 DEF Retry, CanRetry, Leased, StreamInv, TypeOK, Lease, Purposes
  <2>4. BlocksIn(failures, d)
    BY <1>3 DEF Retry, CanRetry, BlocksIn
  <2>5. BlockerOf(failures, k) = d
    BY <2>4, OnlyBlocker DEF StreamInv, OneBlockerPerKey, Blocking, BlocksIn
  <2> QED
    BY <1>k, <1>v, <2>2, <2>3, <2>5, AbstractGrant DEF HolderOf, SameHolder
<1> QED
  BY <1>1, <1>2, <1>3 DEF Take

(* Replays and resolutions change no blocker. *)
LEMMA CloseImplements ==
  ASSUME StreamInv, NEW d \in Deliveries, Close(d)
  PROVE  UNCHANGED Promise!vars
<1>1. UNCHANGED <<checkpoints, leases>>
  BY DEF Close, Replay, ClaimReplay, ReplayComplete, ReplayFail, EndReplay,
     ReplayCancel, Resolve
<1>2. \A e \in Deliveries : BlocksIn(failures, e) <=> BlocksIn(failures', e)
  BY DEF Close, Replay, CanReplay, At, ClaimReplay, CanClaimReplay, ReplayComplete, ReplayFail,
     EndReplay, CanEndReplay, ReplayCancel, CanReplayCancel, Resolve, CanResolve, NextAttempt,
     SetStatus, BlocksIn, StreamInv, TypeOK
<1> QED
  BY <1>1, <1>2, InvisibleSteps

(* The end of a lease blocks, releases or settles: the holder is the only
   delivery of the stream that may block it. *)
LEMMA SettleImplements ==
  ASSUME StreamInv, NEW lease \in Lease, Settle(lease)
  PROVE  Promise!Next
<1> DEFINE d == lease.delivery
           k == KeyOf[d]
<1>k. d \in Deliveries /\ k \in Keys
  BY DEF Lease
<1>l. /\ leases[k] = lease /\ leases'[k] = NoLease
      /\ \A j \in Keys \ {k} : leases'[j] = leases[j]
  BY <1>k DEF Settle, Fail, CanFail, Holds, Cancel, Complete, CanComplete, Skip, CanSkip,
     ConsumeLease, StreamInv, TypeOK
<1>h. /\ HolderOf(leases, k) = d /\ d # NoDelivery /\ HolderOf(leases', k) = NoDelivery
      /\ \A j \in Keys \ {k} : SameHolder(j)
  BY <1>k, <1>l, NoDeliveryAssumption DEF HolderOf, SameHolder
<1>b. \A e \in Deliveries : KeyOf[e] = k /\ BlocksIn(failures, e) => e = d
  BY <1>k, <1>l DEF StreamInv, LeaseAgreesWithFailures, Leased, Blocking, BlocksIn
<1>o. /\ \A e \in Deliveries \ {d} : failures'[e] = failures[e]
      /\ \A j \in Keys \ {k} : SameVersion(j) /\ SameBlockerAt(j)
  <2>1. \A e \in Deliveries \ {d} : failures'[e] = failures[e]
    BY <1>k DEF Settle, Fail, Cancel, Complete, Skip, SetStatus, StreamInv, TypeOK
  <2>2. \A j \in Keys \ {k} : SameVersion(j)
    BY <1>k DEF Settle, Fail, Cancel, Complete, Skip, Advance, MoveCheckpoint,
       SameVersion, StreamInv, TypeOK
  <2>3. \A j \in Keys \ {k}, e \in Deliveries : KeyOf[e] = j =>
          (BlocksIn(failures, e) <=> BlocksIn(failures', e))
    BY <2>1 DEF BlocksIn
  <2>4. \A j \in Keys \ {k} : SameBlockerAt(j)
    BY <2>3, KeptBlockers
  <2> QED
    BY <2>1, <2>2, <2>4
<1>p. BlockerOf(failures, k) \in {NoDelivery, d}
  <2>1. CASE BlocksIn(failures, d)
    BY <2>1, <1>b, <1>k, OnlyBlocker
  <2>2. CASE ~ BlocksIn(failures, d)
    BY <2>2, <1>b, WithoutBlocker
  <2> QED
    BY <2>1, <2>2
<1>1. CASE Fail(lease)
  <2>1. SameVersion(k)
    BY <1>1 DEF Fail, SameVersion
  <2>2. BlocksIn(failures', d)
    BY <1>1, <1>k DEF Fail, BlocksIn, StreamInv, TypeOK
  <2>3. BlockerOf(failures', k) = d
    BY <2>2, <1>b, <1>o, <1>k, OnlyBlocker DEF BlocksIn
  <2> QED
    BY <1>k, <1>h, <1>o, <2>1, <2>3, AbstractBlock DEF SameStream
<1>2. CASE Cancel(lease)
  <2>1. SameVersion(k)
    BY <1>2 DEF Cancel, SameVersion
  <2>2. \A e \in Deliveries : BlocksIn(failures, e) <=> BlocksIn(failures', e)
    BY <1>2, <1>k DEF Cancel, SetStatus, BlocksIn, StreamInv, TypeOK
  <2>3. SameBlockerAt(k)
    BY <2>2, KeptBlockers
  <2> QED
    BY <1>k, <1>h, <1>o, <2>1, <2>3, AbstractRelease DEF SameStream
<1>3. ASSUME NEW expected, NEW v, Complete(lease, expected) \/ Skip(lease, expected, v)
      PROVE  Promise!Next
  <2>1. checkpoints'[k].version = checkpoints[k].version + 1
    BY <1>3, <1>k DEF Complete, Skip, Advance, MoveCheckpoint, StreamInv, TypeOK
  <2>2. ~ BlocksIn(failures', d)
    BY <1>3, <1>k DEF Complete, Skip, SetStatus, BlocksIn, StreamInv, TypeOK
  <2>3. BlockerOf(failures', k) = NoDelivery
    BY <2>2, <1>b, <1>o, WithoutBlocker DEF BlocksIn
  <2> QED
    BY <1>k, <1>h, <1>o, <1>p, <2>1, <2>3, AbstractSettle DEF SameStream
<1> QED
  BY <1>1, <1>2, <1>3 DEF Settle

(* Every step is a step of ordered delivery or is invisible to it. *)
LEMMA StepImplements ==
  StreamInv /\ [Next]_vars => [Promise!Next]_(Promise!vars)
<1> SUFFICES ASSUME StreamInv, [Next]_vars
             PROVE  Promise!Next \/ UNCHANGED Promise!vars
  OBVIOUS
<1>1. CASE UNCHANGED vars
  BY <1>1, InvisibleSteps DEF vars, BlocksIn
<1>2. ASSUME NEW k \in Keys, Administer(k)
      PROVE  Promise!Next \/ UNCHANGED Promise!vars
  BY <1>2, AdministerImplements
<1>3. ASSUME NEW d \in Deliveries, Take(d) \/ Close(d)
      PROVE  Promise!Next \/ UNCHANGED Promise!vars
  BY <1>3, TakeImplements, CloseImplements
<1>4. ASSUME NEW lease \in Presentable, Settle(lease)
      PROVE  Promise!Next \/ UNCHANGED Promise!vars
  <2>1. lease \in Lease
    BY PresentableAreLeases DEF StreamInv
  <2> QED
    BY <1>4, <2>1, SettleImplements
<1> QED
  BY <1>1, <1>2, <1>3, <1>4 DEF Next

(* At first no stream has a holder, a blocker or a version. *)
LEMMA InitImplements == Init => Promise!Init
<1> SUFFICES ASSUME Init
             PROVE  Promise!Init
  OBVIOUS
<1>1. \A k \in Keys : Holder(k) = NoDelivery /\ checkpoints[k].version = 0
  BY DEF Init, Holder, Leased
<1>2. \A k \in Keys : Blocker(k) = NoDelivery
  BY DEF Init, Blocker, HasBlockingFailure, Blocking, MissingFailure
<1> QED
  BY <1>1, <1>2 DEF Promise!Init

(* The in-memory backend implements ordered delivery: every intent grants, *)
(* settles, blocks, releases or resets one stream, or cannot be seen.      *)
THEOREM StreamRefinement == Spec => ImplementsOrderedDelivery
<1>1. Init => Promise!Init
  BY InitImplements
<1>2. StreamInv /\ [Next]_vars => [Promise!Next]_(Promise!vars)
  BY StepImplements
<1> QED
  BY <1>1, <1>2, StreamSafety, PTL DEF Spec, ImplementsOrderedDelivery, Promise!Spec
=============================================================================
