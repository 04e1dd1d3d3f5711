------------------------------- MODULE Stream -------------------------------
(***************************************************************************)
(* The ordered-delivery backend of crates/orna-stream: checkpoints, failed *)
(* deliveries, fenced delivery leases, pause and replay, as implemented by *)
(* InMemoryCheckpointBackend.  Each CommitIntent is one atomic action (the *)
(* backend is called with &mut self).  An intent that the code rejects     *)
(* changes nothing, so a rejection is a stuttering step and the conditions *)
(* the code tests one after another are the conjuncts of the action, under *)
(* a name of their own, Can..., where another backend is compared with     *)
(* this one.                                                               *)
(*                                                                         *)
(* Workers and administrators act on what they read earlier, so every      *)
(* intent carries the precondition its caller holds: a checkpoint and a    *)
(* failure version at most as new as the current ones, a lease it was      *)
(* handed at some time.  Diagnostics, assertion details and the other text *)
(* of a failure record are not modelled.                                   *)
(***************************************************************************)
EXTENDS Integers, FiniteSets

CONSTANTS
  Keys,          \* CheckpointKey: one ordered stream each
  Deliveries,    \* natural delivery identities (successor excluded)
  KeyOf,         \* DeliveryIdentity::checkpoint_key
  Positions,     \* opaque provider positions
  NoPosition,    \* Option::None for a committed position
  NoLease,       \* no lease is held for a key
  NoDelivery,    \* no delivery (what a stream waits for, works on)
  MaxFence,      \* bound: leases granted per key
  MaxAttempts,   \* bound: attempts after which no replay is requested
  MaxVersion     \* bound: checkpoint version from which no reset is requested

Purposes == {"Deliver", "Skip"}

Lease == [delivery : Deliveries, successor : Positions,
          fence : Nat, purpose : Purposes]

ASSUME KeyAssumption == KeyOf \in [Deliveries -> Keys]
ASSUME NoPositionAssumption == NoPosition \notin Positions
ASSUME NoLeaseAssumption == NoLease \notin Lease
ASSUME NoDeliveryAssumption == NoDelivery \notin Deliveries
ASSUME BoundAssumption ==
  MaxFence \in Nat /\ MaxAttempts \in Nat /\ MaxVersion \in Nat

VARIABLES
  checkpoints,    \* [Keys -> [version, committed]]
  streams,        \* [Keys -> {"Running", "Paused"}]
  failures,       \* [Deliveries -> failure record], "Missing" when there is none
  leases,         \* [Keys -> Lease or NoLease]
  pauseRequested, \* keys whose pause waits for the lease to end
  nextFence,      \* [Keys -> Nat]
  retryClaims,    \* keys whose lease was made by Retry and not yet acquired
  replayClaims,   \* deliveries whose replay has begun
  issued          \* the leases ever handed to a worker (workers keep copies)

vars == <<checkpoints, streams, failures, leases, pauseRequested, nextFence,
          retryClaims, replayClaims, issued>>

Statuses == {"Missing", "Failed", "Retrying", "Succeeded", "Skipped",
             "Replaying", "Replayed", "Resolved"}

Checkpoint == [version : Nat, committed : Positions \cup {NoPosition}]

Failure == [successor : Positions \cup {NoPosition}, version : Nat,
            attempts : Nat, status : Statuses]

MissingFailure ==
  [successor |-> NoPosition, version |-> 0, attempts |-> 0,
   status |-> "Missing"]

-----------------------------------------------------------------------------
(* Reading the state.                                                      *)

(* A delivery that must be settled before the stream may go on.            *)
Blocking(d) == failures[d].status \in {"Failed", "Retrying"}

HasBlockingFailure(k) == \E d \in Deliveries : KeyOf[d] = k /\ Blocking(d)

Leased(k) == leases[k] # NoLease

CheckpointMatches(k, expected) == checkpoints[k] = expected

(* What a caller can expect a checkpoint or a failure version to be: a     *)
(* value read now or earlier.                                              *)
Expected(k) ==
  [version : 0 .. checkpoints[k].version,
   committed : Positions \cup {NoPosition}]

ExpectedVersion(d) == 0 .. failures[d].version

(* consume_lease: the presented lease must be the current one, successor   *)
(* included.                                                               *)
Holds(lease) == leases[KeyOf[lease.delivery]] = lease

-----------------------------------------------------------------------------
(* Shared steps of the intents.                                            *)

(* Fault: the request is dropped without pausing the stream.               *)
ConsumeLeaseForgetsPause(lease) ==
  LET k == KeyOf[lease.delivery] IN
  /\ leases' = [leases EXCEPT ![k] = NoLease]
  /\ retryClaims' = retryClaims \ {k}
  /\ pauseRequested' = pauseRequested \ {k}
  /\ UNCHANGED streams

(* Ending the lease publishes a pause that was waiting for it.             *)
ConsumeLease(lease) ==
  LET k == KeyOf[lease.delivery] IN
  /\ leases' = [leases EXCEPT ![k] = NoLease]
  /\ retryClaims' = retryClaims \ {k}
  /\ pauseRequested' = pauseRequested \ {k}
  /\ streams' = [streams EXCEPT
                   ![k] = IF k \in pauseRequested THEN "Paused" ELSE @]

MoveCheckpoint(k, position) ==
  checkpoints' = [checkpoints EXCEPT
                    ![k] = [version |-> @.version + 1, committed |-> position]]

Advance(lease) == MoveCheckpoint(KeyOf[lease.delivery], lease.successor)

(* Every change of a failure record bumps its version.                     *)
SetStatus(d, status) ==
  failures' = [failures EXCEPT
                 ![d] = [successor |-> @.successor, version |-> @.version + 1,
                         attempts |-> @.attempts, status |-> status]]

(* Fault: a new attempt does not move the version.                         *)
NextAttemptUnversioned(d, status) ==
  failures' = [failures EXCEPT ![d].attempts = @ + 1, ![d].status = status]

NextAttempt(d, status) ==
  failures' = [failures EXCEPT
                 ![d] = [successor |-> @.successor, version |-> @.version + 1,
                         attempts |-> @.attempts + 1, status |-> status]]

-----------------------------------------------------------------------------
(* Administrative intents on a stream.                                     *)

CanPause(k) == streams[k] = "Running"

Pause(k) ==
  /\ CanPause(k)
  /\ \/ /\ Leased(k)
        /\ pauseRequested' = pauseRequested \cup {k}
        /\ UNCHANGED streams
     \/ /\ ~ Leased(k)
        /\ streams' = [streams EXCEPT ![k] = "Paused"]
        /\ UNCHANGED pauseRequested
  /\ UNCHANGED <<checkpoints, failures, leases, nextFence, retryClaims,
                 replayClaims, issued>>

CanResume(k) == streams[k] = "Paused" /\ ~ Leased(k) /\ ~ HasBlockingFailure(k)

Resume(k) ==
  /\ CanResume(k)
  /\ streams' = [streams EXCEPT ![k] = "Running"]
  /\ UNCHANGED <<checkpoints, failures, leases, pauseRequested, nextFence,
                 retryClaims, replayClaims, issued>>

(* Fault: a reset under a delivery in flight.                              *)
CanResetWhileBusy(k, expected) == streams[k] = "Paused" /\ CheckpointMatches(k, expected)

CanReset(k, expected) ==
  /\ streams[k] = "Paused"
  /\ ~ Leased(k)
  /\ ~ HasBlockingFailure(k)
  /\ CheckpointMatches(k, expected)

Reset(k, expected, to) ==
  /\ CanReset(k, expected)
  /\ checkpoints[k].version < MaxVersion
  /\ MoveCheckpoint(k, to)
  /\ UNCHANGED <<streams, failures, leases, pauseRequested, nextFence,
                 retryClaims, replayClaims, issued>>

-----------------------------------------------------------------------------
(* Taking a delivery.                                                      *)

(* The failure states that admit a delivery lease or a skip lease.         *)
Authorised(d, purpose) ==
  \/ purpose = "Deliver" /\ failures[d].status = "Retrying"
  \/ purpose = "Skip" /\ failures[d].status = "Failed"

(* Fault: a skipped delivery may be delivered again, replay or not.        *)
AdmissibleSkipped(d, purpose) ==
  \/ Authorised(d, purpose)
  \/ purpose = "Deliver" /\ failures[d].status \notin {"Failed", "Replaying"}

Admissible(d, purpose) ==
  \/ Authorised(d, purpose)
  \/ purpose = "Deliver" /\ failures[d].status \in {"Missing", "Succeeded", "Resolved"}

(* Fault: the blocking failure of the stream is not looked at.             *)
CanAcquireNewOvertaking(d, expected, purpose) ==
  LET k == KeyOf[d] IN
  /\ CheckpointMatches(k, expected)
  /\ ~ Leased(k)
  /\ Admissible(d, purpose)
  /\ purpose = "Deliver" => streams[k] = "Running"

CanAcquireNew(d, expected, purpose) ==
  LET k == KeyOf[d] IN
  /\ CheckpointMatches(k, expected)
  /\ HasBlockingFailure(k) => Authorised(d, purpose)
  /\ ~ Leased(k)
  /\ Admissible(d, purpose)
  /\ ~ (/\ purpose = "Deliver"
        /\ streams[k] = "Paused"
        /\ failures[d].status # "Retrying")

(* Acquire when no lease is held: a new fence.                             *)
AcquireNew(d, successor, expected, purpose) ==
  LET k == KeyOf[d]
      lease == [delivery |-> d, successor |-> successor,
                fence |-> nextFence[k] + 1, purpose |-> purpose]
  IN
  /\ CanAcquireNew(d, expected, purpose)
  /\ nextFence[k] < MaxFence
  /\ nextFence' = [nextFence EXCEPT ![k] = @ + 1]
  /\ leases' = [leases EXCEPT ![k] = lease]
  /\ issued' = issued \cup {lease}
  /\ UNCHANGED <<checkpoints, streams, failures, pauseRequested, retryClaims,
                 replayClaims>>

CanAcquireRetry(d, expected) ==
  /\ CheckpointMatches(KeyOf[d], expected)
  /\ Leased(KeyOf[d])
  /\ failures[d].status = "Retrying"
  /\ KeyOf[d] \in retryClaims

(* Acquire of a scheduled retry: the lease Retry left is taken over, with  *)
(* the successor the provider selects this time and under the same fence.  *)
AcquireRetry(d, successor, expected) ==
  LET k == KeyOf[d]
      lease == [delivery |-> d, successor |-> successor,
                fence |-> leases[k].fence, purpose |-> leases[k].purpose]
  IN
  /\ CanAcquireRetry(d, expected)
  /\ retryClaims' = retryClaims \ {k}
  /\ leases' = [leases EXCEPT ![k] = lease]
  /\ issued' = issued \cup {lease}
  /\ UNCHANGED <<checkpoints, streams, failures, pauseRequested, nextFence,
                 replayClaims>>

CanRetry(d, successor, expectedVersion, expected) ==
  /\ CheckpointMatches(KeyOf[d], expected)
  /\ failures[d].version = expectedVersion
  /\ failures[d].successor = successor
  /\ failures[d].status = "Failed"
  /\ ~ Leased(KeyOf[d])

(* Retry: the lease is made here but handed to nobody until AcquireRetry.  *)
Retry(d, successor, expectedVersion, expected) ==
  LET k == KeyOf[d]
      lease == [delivery |-> d, successor |-> successor,
                fence |-> nextFence[k] + 1, purpose |-> "Deliver"]
  IN
  /\ CanRetry(d, successor, expectedVersion, expected)
  /\ nextFence[k] < MaxFence
  /\ nextFence' = [nextFence EXCEPT ![k] = @ + 1]
  /\ leases' = [leases EXCEPT ![k] = lease]
  /\ retryClaims' = retryClaims \cup {k}
  /\ NextAttempt(d, "Retrying")
  /\ UNCHANGED <<checkpoints, streams, pauseRequested, replayClaims, issued>>

-----------------------------------------------------------------------------
(* Ending a delivery.                                                      *)

CanFail(lease) == lease.purpose = "Deliver" /\ Holds(lease)

(* Fail and FailWithAssertion: the record is created on the first failure, *)
(* takes the successor of this attempt, and counts the attempt unless      *)
(* Retry already did.                                                      *)
Fail(lease) ==
  LET d == lease.delivery IN
  /\ CanFail(lease)
  /\ ConsumeLease(lease)
  /\ failures' = [failures EXCEPT
        ![d] = [successor |-> lease.successor,
                version |-> @.version + 1,
                attempts |-> IF @.status = "Retrying" THEN @.attempts
                                                      ELSE @.attempts + 1,
                status |-> "Failed"]]
  /\ UNCHANGED <<checkpoints, nextFence, replayClaims, issued>>

CanComplete(lease, expected) ==
  /\ lease.purpose = "Deliver"
  /\ Holds(lease)
  /\ CheckpointMatches(KeyOf[lease.delivery], expected)

Complete(lease, expected) ==
  LET d == lease.delivery IN
  /\ CanComplete(lease, expected)
  /\ ConsumeLease(lease)
  /\ Advance(lease)
  /\ \/ failures[d].status # "Missing" /\ SetStatus(d, "Succeeded")
     \/ failures[d].status = "Missing" /\ UNCHANGED failures
  /\ UNCHANGED <<nextFence, replayClaims, issued>>

CanSkip(lease, expected, expectedVersion) ==
  LET d == lease.delivery IN
  /\ lease.purpose = "Skip"
  /\ failures[d].version = expectedVersion
  /\ failures[d].status = "Failed"
  /\ failures[d].successor = lease.successor
  /\ Holds(lease)
  /\ CheckpointMatches(KeyOf[d], expected)

Skip(lease, expected, expectedVersion) ==
  /\ CanSkip(lease, expected, expectedVersion)
  /\ ConsumeLease(lease)
  /\ Advance(lease)
  /\ SetStatus(lease.delivery, "Skipped")
  /\ UNCHANGED <<nextFence, replayClaims, issued>>

(* Fault: a cancelled retry stays Retrying.                                *)
CancelKeepsRetrying(lease) ==
  /\ Holds(lease) /\ ConsumeLease(lease)
  /\ UNCHANGED <<checkpoints, failures, nextFence, replayClaims, issued>>

Cancel(lease) ==
  LET d == lease.delivery IN
  /\ Holds(lease) /\ ConsumeLease(lease)
  /\ \/ failures[d].status = "Retrying" /\ SetStatus(d, "Failed")
     \/ failures[d].status # "Retrying" /\ UNCHANGED failures
  /\ UNCHANGED <<checkpoints, nextFence, replayClaims, issued>>

-----------------------------------------------------------------------------
(* Replaying a skipped delivery, and closing a failure.                    *)

(* What Replay, the replay intents and Resolve ask of the failure record.  *)
At(d, expectedVersion, statuses) ==
  failures[d].version = expectedVersion /\ failures[d].status \in statuses

CanReplay(d, expectedVersion) == At(d, expectedVersion, {"Skipped"})

Replay(d, expectedVersion) ==
  /\ CanReplay(d, expectedVersion)
  /\ failures[d].attempts < MaxAttempts
  /\ NextAttempt(d, "Replaying")
  /\ UNCHANGED <<checkpoints, streams, leases, pauseRequested, nextFence,
                 retryClaims, replayClaims, issued>>

(* A replay that nobody has claimed may be claimed or cancelled.           *)
CanClaimReplay(d, version) == At(d, version, {"Replaying"}) /\ d \notin replayClaims

CanReplayCancel(d, version) == CanClaimReplay(d, version)

ClaimReplay(d, version) ==
  /\ CanClaimReplay(d, version)
  /\ replayClaims' = replayClaims \cup {d}
  /\ UNCHANGED <<checkpoints, streams, failures, leases, pauseRequested,
                 nextFence, retryClaims, issued>>

CanEndReplay(d, expectedVersion) == At(d, expectedVersion, {"Replaying"}) /\ d \in replayClaims

(* ReplayComplete ("Replayed") and ReplayFail, ReplayFailWithAssertion     *)
(* ("Skipped"): only a claimed replay can end.                             *)
EndReplay(d, expectedVersion, status) ==
  /\ CanEndReplay(d, expectedVersion)
  /\ replayClaims' = replayClaims \ {d}
  /\ SetStatus(d, status)
  /\ UNCHANGED <<checkpoints, streams, leases, pauseRequested, nextFence,
                 retryClaims, issued>>

ReplayComplete(d, expectedVersion) == EndReplay(d, expectedVersion, "Replayed")

ReplayFail(d, expectedVersion) == EndReplay(d, expectedVersion, "Skipped")

ReplayCancel(d, expectedVersion) ==
  /\ CanReplayCancel(d, expectedVersion)
  /\ SetStatus(d, "Skipped")
  /\ UNCHANGED <<checkpoints, streams, leases, pauseRequested, nextFence,
                 retryClaims, replayClaims, issued>>

CanResolve(d, expectedVersion) == At(d, expectedVersion, {"Succeeded", "Skipped", "Replayed"})

Resolve(d, expectedVersion) ==
  /\ CanResolve(d, expectedVersion)
  /\ SetStatus(d, "Resolved")
  /\ UNCHANGED <<checkpoints, streams, leases, pauseRequested, nextFence,
                 retryClaims, replayClaims, issued>>

-----------------------------------------------------------------------------
Init ==
  /\ checkpoints = [k \in Keys |-> [version |-> 0, committed |-> NoPosition]]
  /\ streams = [k \in Keys |-> "Running"]
  /\ failures = [d \in Deliveries |-> MissingFailure]
  /\ leases = [k \in Keys |-> NoLease]
  /\ pauseRequested = {}
  /\ nextFence = [k \in Keys |-> 0]
  /\ retryClaims = {}
  /\ replayClaims = {}
  /\ issued = {}

Administer(k) ==
  \/ Pause(k)
  \/ Resume(k)
  \/ \E expected \in Expected(k), to \in Positions : Reset(k, expected, to)

Take(d) ==
  \E successor \in Positions, expected \in Expected(KeyOf[d]) :
    \/ \E purpose \in Purposes : AcquireNew(d, successor, expected, purpose)
    \/ AcquireRetry(d, successor, expected)
    \/ \E v \in ExpectedVersion(d) : Retry(d, successor, v, expected)

(* The leases a caller can present: those ever handed to a worker, current *)
(* or not, and the lease of a retry that its scheduler ends by itself.     *)
Presentable == issued \cup {leases[k] : k \in retryClaims}

Settle(lease) ==
  \/ Fail(lease)
  \/ Cancel(lease)
  \/ \E expected \in Expected(KeyOf[lease.delivery]) :
       \/ Complete(lease, expected)
       \/ \E v \in ExpectedVersion(lease.delivery) : Skip(lease, expected, v)

Close(d) ==
  \E v \in ExpectedVersion(d) :
    \/ Replay(d, v)
    \/ ClaimReplay(d, v)
    \/ ReplayComplete(d, v)
    \/ ReplayFail(d, v)
    \/ ReplayCancel(d, v)
    \/ Resolve(d, v)

Next ==
  \/ \E k \in Keys : Administer(k)
  \/ \E d \in Deliveries : Take(d) \/ Close(d)
  \/ \E lease \in Presentable : Settle(lease)

Spec == Init /\ [][Next]_vars

(* A worker that holds a lease ends it, one way or another: run_stream_once *)
(* and the replay driver reach Complete, Fail, Skip or Cancel on every path *)
(* out of the handler.  A scheduled retry is taken when the provider        *)
(* presents the delivery again, which run_stream_once asks for only while   *)
(* the stream is Running.                                                   *)
SettleCurrent(k) == \E lease \in issued : leases[k] = lease /\ Settle(lease)

TakeScheduledRetry(k) ==
  /\ streams[k] = "Running"
  /\ \E d \in Deliveries, successor \in Positions :
       KeyOf[d] = k /\ AcquireRetry(d, successor, checkpoints[k])

Fairness ==
  \A k \in Keys : WF_vars(SettleCurrent(k)) /\ WF_vars(TakeScheduledRetry(k))

FairSpec == Spec /\ Fairness

-----------------------------------------------------------------------------
(* Properties.                                                             *)

(* Every variable of the backend keeps the type its Rust declaration gives *)
(* it.                                                                     *)
TypeOK ==
  /\ checkpoints \in [Keys -> Checkpoint]
  /\ streams \in [Keys -> {"Running", "Paused"}]
  /\ failures \in [Deliveries -> Failure]
  /\ leases \in [Keys -> Lease \cup {NoLease}]
  /\ pauseRequested \in SUBSET Keys
  /\ nextFence \in [Keys -> Nat]
  /\ retryClaims \in SUBSET Keys
  /\ replayClaims \in SUBSET Deliveries
  /\ issued \in SUBSET Lease

(* has_ordered_blocking_failure guards only Acquire; the backend relies on *)
(* it and on the single lease to keep at most one unresolved delivery per  *)
(* ordered stream.                                                         *)
OneBlockerPerKey ==
  \A d, e \in Deliveries :
    (KeyOf[d] = KeyOf[e] /\ Blocking(d) /\ Blocking(e)) => d = e

(* The lease of a key and the failure records of the key tell the same     *)
(* story: a delivery lease is for the only blocker if there is one, and    *)
(* never for a delivery that was skipped or is being replayed; a skip      *)
(* lease is for a blocker that is still Failed.                            *)
LeaseAgreesWithFailures ==
  \A k \in Keys : Leased(k) =>
    LET d == leases[k].delivery IN
    /\ KeyOf[d] = k
    /\ leases[k].purpose = "Deliver" =>
         failures[d].status \in {"Missing", "Retrying", "Succeeded", "Resolved"}
    /\ leases[k].purpose = "Skip" => failures[d].status = "Failed"
    /\ \A e \in Deliveries : KeyOf[e] = k /\ Blocking(e) => e = d

(* A delivery is Retrying exactly while a delivery lease is held for it:   *)
(* no retry is left without a lease that can end it.                       *)
RetryingHoldsLease ==
  \A d \in Deliveries : failures[d].status = "Retrying" =>
    /\ Leased(KeyOf[d])
    /\ leases[KeyOf[d]].delivery = d
    /\ leases[KeyOf[d]].purpose = "Deliver"

(* A retry claim survives only with the retry lease nobody acquired yet,   *)
(* and a lease without a claim has been handed to a worker.                *)
RetryClaimAwaitsAcquire ==
  \A k \in Keys :
    /\ k \in retryClaims => /\ Leased(k)
                            /\ failures[leases[k].delivery].status = "Retrying"
    /\ Leased(k) /\ k \notin retryClaims => leases[k] \in issued

(* A pause waits only for a lease: once no lease is held the pause that    *)
(* was requested has been published.                                       *)
PauseWaitsForLease ==
  \A k \in pauseRequested : Leased(k) /\ streams[k] = "Running"

(* A replay that a worker has claimed is still the replay the record is    *)
(* in: nothing else moved the record in the meantime.                      *)
ReplayClaimIsLive ==
  \A d \in replayClaims : failures[d].status = "Replaying"

(* Two leases handed out for one key under one fence are the same lease,   *)
(* although AcquireRetry hands out a fence that Retry created: a stale     *)
(* worker cannot pass for the current one.                                 *)
FencesAreUnique ==
  \A l, m \in issued :
    (KeyOf[l.delivery] = KeyOf[m.delivery] /\ l.fence = m.fence) => l = m

(* The fences handed out stay below the counter, and the fence of a retry  *)
(* nobody acquired yet is in no worker's hands.  With this the uniqueness  *)
(* of fences is inductive.                                                 *)
FencesAreCounted ==
  /\ \A l \in issued : l.fence <= nextFence[KeyOf[l.delivery]]
  /\ \A k \in Keys : Leased(k) => leases[k].fence <= nextFence[k]
  /\ \A k \in retryClaims, l \in issued :
       KeyOf[l.delivery] = k => l.fence # leases[k].fence

(* What leases, failures, claims, pauses and fences of the backend have in *)
(* common between any two intents; the invariant every other property      *)
(* rests on, and inductive.                                                *)
StreamInv ==
  /\ TypeOK
  /\ OneBlockerPerKey
  /\ LeaseAgreesWithFailures
  /\ RetryingHoldsLease
  /\ RetryClaimAwaitsAcquire
  /\ PauseWaitsForLease
  /\ ReplayClaimIsLive
  /\ FencesAreCounted
  /\ FencesAreUnique

(* A checkpoint moves by one version at a time, to the successor of the    *)
(* lease that the same step ends, or by an administrator's reset of a      *)
(* paused stream that nobody works on.                                     *)
OwnerMovesCheckpoint(k) ==
  checkpoints'[k] # checkpoints[k] =>
    /\ checkpoints'[k].version = checkpoints[k].version + 1
    /\ leases'[k] = NoLease
    /\ \/ Leased(k) /\ checkpoints'[k].committed = leases[k].successor
       \/ ~ Leased(k) /\ streams[k] = "Paused" /\ ~ HasBlockingFailure(k)

CheckpointMovesOnlyByOwner == [][\A k \in Keys : OwnerMovesCheckpoint(k)]_vars

(* Ordered delivery: while a delivery blocks its stream, the checkpoint    *)
(* can only move past it by completing or skipping that very delivery.     *)
PassedOnlyBySettling(d) ==
  (Blocking(d) /\ checkpoints'[KeyOf[d]] # checkpoints[KeyOf[d]]) =>
    failures'[d].status \in {"Succeeded", "Skipped"}

NoOvertaking == [][\A d \in Deliveries : PassedOnlyBySettling(d)]_vars

(* The version of a failure record is a sound compare-and-swap token: no   *)
(* intent changes a record without moving its version by exactly one.      *)
FailureVersionGuardsRecord ==
  [][\A d \in Deliveries : failures'[d] # failures[d] =>
       failures'[d].version = failures[d].version + 1]_vars

(* What a stream waits for and works on, as the abstract specification     *)
(* sees it.                                                                *)
Blocker(k) ==
  IF HasBlockingFailure(k)
  THEN CHOOSE d \in Deliveries : KeyOf[d] = k /\ Blocking(d)
  ELSE NoDelivery

Holder(k) == IF Leased(k) THEN leases[k].delivery ELSE NoDelivery

Promise ==
  INSTANCE OrderedDelivery WITH
    None <- NoDelivery,
    version <- [k \in Keys |-> checkpoints[k].version],
    holder <- [k \in Keys |-> Holder(k)],
    blocker <- [k \in Keys |-> Blocker(k)]

(* The backend implements ordered delivery: each of its intents is a grant, *)
(* a settlement, a block, a release or a reset of one stream, or is        *)
(* invisible to it.                                                        *)
ImplementsOrderedDelivery == Promise!Spec

(* A pause that was answered "pending" takes effect once the delivery in   *)
(* flight ends.                                                            *)
PauseTakesEffect ==
  \A k \in Keys : (k \in pauseRequested) ~> (streams[k] = "Paused")

(* An admitted retry does not stay Retrying for ever on a stream that is   *)
(* not Paused.                                                             *)
RetryEnds ==
  \A d \in Deliveries :
    (failures[d].status = "Retrying")
      ~> (failures[d].status # "Retrying" \/ streams[KeyOf[d]] = "Paused")
=============================================================================
