---------------------------- MODULE RuntimeStream ----------------------------
(***************************************************************************)
(* The durable ordered-delivery backend of crates/orna-runtime: the stream *)
(* tables of the runtime database, changed by one immediate transaction    *)
(* per intent under the single writer lease, and the takeover that         *)
(* replaces a dead writer and closes what it left open.                    *)
(*                                                                         *)
(* A crash is a writer that takes no further step: everything here is on   *)
(* disk, a transaction is atomic, and the tokens, delivery leases and      *)
(* replay grants a process held may still be presented later.              *)
(* Payloads, diagnostics, reset audits and observation rows are not        *)
(* modelled; neither is the recovery barrier, which only delays intents    *)
(* after a takeover.                                                       *)
(***************************************************************************)
EXTENDS Integers, FiniteSets

CONSTANTS
  Keys, Deliveries, KeyOf, Positions, NoPosition, NoLease, NoDelivery,
  Owners,        \* runtime owner identities
  NoWriter,      \* no row in writer_lease yet
  NoClaim,       \* no row in stream_replay_claim
  MaxFence, MaxAttempts, MaxVersion,
  MaxEpoch       \* bound: writer epochs

Purposes == {"Deliver", "Skip"}

Statuses == {"Missing", "Failed", "Retrying", "Succeeded", "Skipped",
             "Replaying", "Replayed", "Resolved"}

Token == [owner : Owners, epoch : Nat]

Lease == [delivery : Deliveries, successor : Positions,
          fence : Nat, purpose : Purposes]

ReplayClaim == [version : Nat, owner : Token]

ASSUME RuntimeConstants ==
  /\ KeyOf \in [Deliveries -> Keys]
  /\ NoPosition \notin Positions
  /\ NoLease \notin Lease
  /\ NoDelivery \notin Deliveries
  /\ NoWriter \notin Token
  /\ NoClaim \notin ReplayClaim
  /\ {MaxFence, MaxAttempts, MaxVersion, MaxEpoch} \subseteq Nat

VARIABLES
  writer,        \* writer_lease: the current token, or NoWriter
  tokens,        \* every token ever granted (a fenced process keeps its own)
  checkpoint,    \* stream_checkpoint: [Keys -> [version, committed, fence]]
  control,       \* stream_control: [Keys -> {"Running", "Paused"}]
  failure,       \* stream_failure: [Deliveries -> row], status "Missing" for none
  lease,         \* stream_lease: [Keys -> Lease or NoLease]
  pausePending,  \* stream_pause_pending: set of keys
  retryClaim,    \* stream_retry_claim: [Keys -> delivery or NoDelivery]
  replayClaim,   \* stream_replay_claim: [Deliveries -> ReplayClaim or NoClaim]
  issued         \* the delivery leases ever returned to a caller

writerVars == <<writer, tokens>>

claimVars == <<retryClaim, replayClaim>>

vars == <<writer, tokens, checkpoint, control, failure, lease, pausePending,
          retryClaim, replayClaim, issued>>

Checkpoint ==
  [version : Nat, committed : Positions \cup {NoPosition}, fence : Nat]

Failure == [successor : Positions \cup {NoPosition}, version : Nat,
            attempts : Nat, status : Statuses]

-----------------------------------------------------------------------------
Blocking(d) == failure[d].status \in {"Failed", "Retrying"}

HasBlockingFailure(k) == \E d \in Deliveries : KeyOf[d] = k /\ Blocking(d)

Leased(k) == lease[k] # NoLease

(* A caller's idea of a checkpoint, read now or earlier.                   *)
Expected(k) == [version : 0 .. checkpoint[k].version,
                committed : Positions \cup {NoPosition}]

CheckpointMatches(k, expected) ==
  /\ checkpoint[k].version = expected.version
  /\ checkpoint[k].committed = expected.committed

ExpectedVersion(d) == 0 .. failure[d].version

(* The lease row is the lease that is presented.                           *)
Holds(l) == lease[KeyOf[l.delivery]] = l

(* Fault: any token that was ever granted is good enough.                  *)
AnyToken(t) == TRUE

(* require_owner: the presented token is the row in writer_lease.          *)
RequireOwner(t) == t = writer

-----------------------------------------------------------------------------
(* Shared updates.                                                         *)

SetRow(d, attempts, status) ==
  failure' = [failure EXCEPT
                ![d] = [successor |-> @.successor, version |-> @.version + 1,
                        attempts |-> attempts, status |-> status]]

SetStatus(d, status) == SetRow(d, failure[d].attempts, status)

MoveCheckpoint(k, position) ==
  checkpoint' = [checkpoint EXCEPT
                   ![k] = [version |-> @.version + 1, committed |-> position,
                           fence |-> @.fence]]

(* Deleting the lease row, its retry claim and a pause that waited for it. *)
EndLease(l) ==
  LET k == KeyOf[l.delivery] IN
  /\ lease' = [lease EXCEPT ![k] = NoLease]
  /\ retryClaim' = [retryClaim EXCEPT ![k] = NoDelivery]
  /\ pausePending' = pausePending \ {k}
  /\ control' = [control EXCEPT
                   ![k] = IF k \in pausePending THEN "Paused" ELSE @]

(* The next fence of a key, and the lease row that carries it.             *)
NextLease(d, successor, purpose) ==
  [delivery |-> d, successor |-> successor,
   fence |-> checkpoint[KeyOf[d]].fence + 1, purpose |-> purpose]

GrantLease(d, successor, purpose) ==
  LET k == KeyOf[d] IN
  /\ checkpoint[k].fence < MaxFence
  /\ checkpoint' = [checkpoint EXCEPT ![k].fence = @ + 1]
  /\ lease' = [lease EXCEPT ![k] = NextLease(d, successor, purpose)]

-----------------------------------------------------------------------------
(* Administration.  As in Stream, what an intent asks of the tables is     *)
(* named Can... .                                                          *)

CanPause(k) == control[k] = "Running"

Pause(k) ==
  /\ CanPause(k)
  /\ \/ Leased(k) /\ pausePending' = pausePending \cup {k} /\ UNCHANGED control
     \/ /\ ~ Leased(k)
        /\ control' = [control EXCEPT ![k] = "Paused"]
        /\ UNCHANGED pausePending
  /\ UNCHANGED <<checkpoint, failure, lease, claimVars, issued>>

CanResume(k) == control[k] = "Paused" /\ ~ Leased(k) /\ ~ HasBlockingFailure(k)

Resume(k) ==
  /\ CanResume(k)
  /\ control' = [control EXCEPT ![k] = "Running"]
  /\ UNCHANGED <<checkpoint, failure, lease, pausePending, claimVars, issued>>

CanReset(k, expected) == CanResume(k) /\ CheckpointMatches(k, expected)

Reset(k, expected, to) ==
  /\ CanReset(k, expected)
  /\ checkpoint[k].version < MaxVersion
  /\ MoveCheckpoint(k, to)
  /\ UNCHANGED <<control, failure, lease, pausePending, claimVars, issued>>

-----------------------------------------------------------------------------
(* Taking a delivery.                                                      *)

Authorised(d, purpose) ==
  \/ purpose = "Deliver" /\ failure[d].status = "Retrying"
  \/ purpose = "Skip" /\ failure[d].status = "Failed"

Admissible(d, purpose) ==
  \/ Authorised(d, purpose)
  \/ purpose = "Deliver" /\ failure[d].status \in {"Missing", "Succeeded", "Resolved"}

(* Fault: a paused stream refuses the lease of a skip as well.             *)
CanAcquireNewOnlyRunning(d, expected, purpose) ==
  LET k == KeyOf[d] IN
  /\ CheckpointMatches(k, expected)
  /\ HasBlockingFailure(k) => Authorised(d, purpose)
  /\ ~ Leased(k)
  /\ Admissible(d, purpose)
  /\ control[k] = "Paused" => failure[d].status = "Retrying"

CanAcquireNew(d, expected, purpose) ==
  LET k == KeyOf[d] IN
  /\ CheckpointMatches(k, expected)
  /\ HasBlockingFailure(k) => Authorised(d, purpose)
  /\ ~ Leased(k)
  /\ Admissible(d, purpose)
  /\ ~ (/\ purpose = "Deliver"
        /\ control[k] = "Paused" \/ k \in pausePending
        /\ failure[d].status # "Retrying")

AcquireNew(d, successor, expected, purpose) ==
  /\ CanAcquireNew(d, expected, purpose)
  /\ GrantLease(d, successor, purpose)
  /\ issued' = issued \cup {NextLease(d, successor, purpose)}
  /\ UNCHANGED <<control, failure, pausePending, claimVars>>

CanAcquireRetry(d, expected) ==
  LET k == KeyOf[d] IN
  /\ CheckpointMatches(k, expected)
  /\ Leased(k)
  /\ failure[d].status = "Retrying"
  /\ lease[k].purpose = "Deliver"
  /\ retryClaim[k] = d

(* Acquire of a scheduled retry: the claim row is deleted and the lease    *)
(* row, not the failure row, takes the successor of the presented delivery. *)
AcquireRetry(d, successor, expected) ==
  LET k == KeyOf[d]
      l == [lease[k] EXCEPT !.delivery = d, !.successor = successor]
  IN
  /\ CanAcquireRetry(d, expected)
  /\ retryClaim' = [retryClaim EXCEPT ![k] = NoDelivery]
  /\ lease' = [lease EXCEPT ![k].successor = successor]
  /\ issued' = issued \cup {l}
  /\ UNCHANGED <<checkpoint, control, failure, pausePending, replayClaim>>

CanRetry(d, successor, expectedVersion, expected) ==
  /\ CheckpointMatches(KeyOf[d], expected)
  /\ failure[d].version = expectedVersion
  /\ failure[d].successor = successor
  /\ failure[d].status = "Failed"
  /\ ~ Leased(KeyOf[d])

Retry(d, successor, expectedVersion, expected) ==
  /\ CanRetry(d, successor, expectedVersion, expected)
  /\ GrantLease(d, successor, "Deliver")
  /\ retryClaim' = [retryClaim EXCEPT ![KeyOf[d]] = d]
  /\ SetRow(d, failure[d].attempts + 1, "Retrying")
  /\ UNCHANGED <<control, pausePending, replayClaim, issued>>

-----------------------------------------------------------------------------
(* Ending a delivery.                                                      *)

CanFail(l) == l.purpose = "Deliver" /\ Holds(l)

(* Fault: the attempt that a retry has counted is counted again.           *)
FailCountsTwice(l) ==
  LET d == l.delivery IN
  /\ CanFail(l)
  /\ EndLease(l)
  /\ failure' = [failure EXCEPT
        ![d] = [successor |-> l.successor, version |-> @.version + 1,
                attempts |-> @.attempts + 1, status |-> "Failed"]]
  /\ UNCHANGED <<checkpoint, replayClaim, issued>>

Fail(l) ==
  LET d == l.delivery IN
  /\ CanFail(l)
  /\ EndLease(l)
  /\ failure' = [failure EXCEPT
        ![d] = [successor |-> l.successor, version |-> @.version + 1,
                attempts |-> IF @.status = "Retrying" THEN @.attempts
                                                      ELSE @.attempts + 1,
                status |-> "Failed"]]
  /\ UNCHANGED <<checkpoint, replayClaim, issued>>

CanComplete(l, expected) == CanFail(l) /\ CheckpointMatches(KeyOf[l.delivery], expected)

(* commit_stream_delivery applies it together with the mutations of the    *)
(* handler; the row of the delivery, if there is one, becomes Succeeded.   *)
Complete(l, expected) ==
  LET d == l.delivery IN
  /\ CanComplete(l, expected)
  /\ EndLease(l)
  /\ MoveCheckpoint(KeyOf[d], l.successor)
  /\ \/ failure[d].status # "Missing" /\ SetStatus(d, "Succeeded")
     \/ failure[d].status = "Missing" /\ UNCHANGED failure
  /\ UNCHANGED <<replayClaim, issued>>

CanSkip(l, expected, expectedVersion) ==
  LET d == l.delivery IN
  /\ failure[d].version = expectedVersion
  /\ failure[d].status = "Failed"
  /\ failure[d].successor = l.successor
  /\ CheckpointMatches(KeyOf[d], expected)
  /\ l.purpose = "Skip"
  /\ Holds(l)

Skip(l, expected, expectedVersion) ==
  /\ CanSkip(l, expected, expectedVersion)
  /\ EndLease(l)
  /\ MoveCheckpoint(KeyOf[l.delivery], l.successor)
  /\ SetStatus(l.delivery, "Skipped")
  /\ UNCHANGED <<replayClaim, issued>>

Cancel(l) ==
  LET d == l.delivery IN
  /\ Holds(l) /\ EndLease(l)
  /\ \/ failure[d].status = "Retrying" /\ SetStatus(d, "Failed")
     \/ failure[d].status # "Retrying" /\ UNCHANGED failure
  /\ UNCHANGED <<checkpoint, replayClaim, issued>>

-----------------------------------------------------------------------------
(* Replay and resolution.                                                  *)

Grant(d, expectedVersion, status) ==
  failure[d].version = expectedVersion /\ failure[d].status = status

DropReplayClaim(d) == replayClaim' = [replayClaim EXCEPT ![d] = NoClaim]

CanReplay(d, version) == Grant(d, version, "Skipped")

Replay(d, version) ==
  /\ CanReplay(d, version)
  /\ failure[d].attempts < MaxAttempts
  /\ SetRow(d, failure[d].attempts + 1, "Replaying")
  /\ UNCHANGED <<checkpoint, control, lease, pausePending, claimVars, issued>>

(* A replay that nobody has claimed may be claimed or cancelled.           *)
CanClaimReplay(d, version) == Grant(d, version, "Replaying") /\ replayClaim[d] = NoClaim

CanReplayCancel(d, version) == CanClaimReplay(d, version)

ClaimReplay(t, d, version) ==
  /\ CanClaimReplay(d, version)
  /\ replayClaim' =
       [replayClaim EXCEPT ![d] = [version |-> version, owner |-> t]]
  /\ UNCHANGED <<checkpoint, control, failure, lease, pausePending,
                 retryClaim, issued>>

OwnReplayClaim(t, d, version) ==
  replayClaim[d] = [version |-> version, owner |-> t]

CanEndOwnReplay(t, d, version) == Grant(d, version, "Replaying") /\ OwnReplayClaim(t, d, version)

(* ReplayComplete and cancel_admitted_stream_replay: only under the claim. *)
EndOwnReplay(t, d, version, status) ==
  /\ CanEndOwnReplay(t, d, version)
  /\ SetStatus(d, status)
  /\ DropReplayClaim(d)
  /\ UNCHANGED <<checkpoint, control, lease, pausePending, retryClaim, issued>>

ReplayComplete(t, d, version) == EndOwnReplay(t, d, version, "Replayed")

CancelAdmittedReplay(t, d, version) == EndOwnReplay(t, d, version, "Skipped")

(* Fault: the claim outlives the replay.                                   *)
ReplayFailKeepsClaim(d, version) ==
  /\ Grant(d, version, "Replaying")
  /\ SetStatus(d, "Skipped")
  /\ UNCHANGED <<checkpoint, control, lease, pausePending, claimVars, issued>>

(* ReplayFail asks for no claim; a claim, if there is one, must be of this *)
(* version and is deleted.                                                 *)
CanReplayFail(d, version) ==
  /\ Grant(d, version, "Replaying")
  /\ replayClaim[d] # NoClaim => replayClaim[d].version = version

ReplayFail(d, version) ==
  /\ CanReplayFail(d, version)
  /\ SetStatus(d, "Skipped")
  /\ DropReplayClaim(d)
  /\ UNCHANGED <<checkpoint, control, lease, pausePending, retryClaim, issued>>

ReplayCancel(d, version) ==
  /\ CanReplayCancel(d, version)
  /\ SetStatus(d, "Skipped")
  /\ UNCHANGED <<checkpoint, control, lease, pausePending, claimVars, issued>>

CanResolve(d, version) ==
  \E status \in {"Succeeded", "Skipped", "Replayed"} : Grant(d, version, status)

Resolve(d, version) ==
  /\ CanResolve(d, version)
  /\ SetStatus(d, "Resolved")
  /\ UNCHANGED <<checkpoint, control, lease, pausePending, claimVars, issued>>

-----------------------------------------------------------------------------
(* Writer lease and takeover.                                              *)

(* validate_recoverable_stream_attempts: what must hold of the open        *)
(* attempts or the takeover is refused.                                    *)
RetryEvidence(d) ==
  LET k == KeyOf[d] IN
  /\ Leased(k)
  /\ lease[k].delivery = d
  /\ lease[k].successor = failure[d].successor
  /\ lease[k].purpose = "Deliver"
  /\ retryClaim[k] \in {NoDelivery, d}

Recoverable ==
  /\ \A d \in Deliveries :
       /\ failure[d].status = "Retrying" => RetryEvidence(d)
       /\ failure[d].status = "Replaying" => retryClaim[KeyOf[d]] # d
  /\ \A d \in Deliveries : replayClaim[d] # NoClaim =>
       Grant(d, replayClaim[d].version, "Replaying")

(* Fault: an interrupted retry is taken for a skipped delivery.            *)
CloseAttemptSkips(f) ==
  IF f.status \in {"Retrying", "Replaying"}
  THEN [f EXCEPT !.version = @ + 1, !.status = "Skipped"]
  ELSE f

CloseAttempt(f) ==
  LET to(status) == [f EXCEPT !.version = @ + 1, !.status = status] IN
  CASE f.status = "Retrying" -> to("Failed")
    [] f.status = "Replaying" -> to("Skipped")
    [] OTHER -> f

(* Fault: pauses that waited for a lease go with the lease.                *)
CloseOpenWorkForgetsPause ==
  /\ lease' = [k \in Keys |-> NoLease]
  /\ pausePending' = {}
  /\ retryClaim' = [k \in Keys |-> NoDelivery]
  /\ replayClaim' = [d \in Deliveries |-> NoClaim]
  /\ failure' = [d \in Deliveries |-> CloseAttempt(failure[d])]
  /\ UNCHANGED <<checkpoint, control, issued>>

(* Fault: the fence counters start again with the new writer.              *)
CloseOpenWorkResetsFences ==
  /\ lease' = [k \in Keys |-> NoLease]
  /\ control' = [k \in Keys |-> IF k \in pausePending THEN "Paused"
                                                      ELSE control[k]]
  /\ pausePending' = {}
  /\ retryClaim' = [k \in Keys |-> NoDelivery]
  /\ replayClaim' = [d \in Deliveries |-> NoClaim]
  /\ failure' = [d \in Deliveries |-> CloseAttempt(failure[d])]
  /\ checkpoint' = [k \in Keys |-> [checkpoint[k] EXCEPT !.fence = 0]]
  /\ UNCHANGED issued

(* What the fenced writer left open is closed in the takeover transaction. *)
CloseOpenWork ==
  /\ lease' = [k \in Keys |-> NoLease]
  /\ control' = [k \in Keys |-> IF k \in pausePending THEN "Paused"
                                                      ELSE control[k]]
  /\ pausePending' = {}
  /\ retryClaim' = [k \in Keys |-> NoDelivery]
  /\ replayClaim' = [d \in Deliveries |-> NoClaim]
  /\ failure' = [d \in Deliveries |-> CloseAttempt(failure[d])]
  /\ UNCHANGED <<checkpoint, issued>>

(* acquire_lease when the database has no writer yet.                      *)
AcquireWriter(w) ==
  /\ writer = NoWriter
  /\ writer' = [owner |-> w, epoch |-> 1]
  /\ tokens' = {writer'}
  /\ UNCHANGED <<checkpoint, control, failure, lease, pausePending, claimVars,
                 issued>>

(* takeover_lease of exactly the token the caller read, and acquire_lease  *)
(* under another runtime lock than the one the current writer is bound to. *)
Takeover(w, abandoned) ==
  /\ writer = abandoned
  /\ abandoned.epoch < MaxEpoch
  /\ Recoverable
  /\ writer' = [owner |-> w, epoch |-> abandoned.epoch + 1]
  /\ tokens' = tokens \cup {writer'}
  /\ CloseOpenWork

-----------------------------------------------------------------------------
Init ==
  /\ writer = NoWriter
  /\ tokens = {}
  /\ checkpoint =
       [k \in Keys |-> [version |-> 0, committed |-> NoPosition, fence |-> 0]]
  /\ control = [k \in Keys |-> "Running"]
  /\ failure = [d \in Deliveries |-> [successor |-> NoPosition, version |-> 0,
                                      attempts |-> 0, status |-> "Missing"]]
  /\ lease = [k \in Keys |-> NoLease]
  /\ pausePending = {}
  /\ retryClaim = [k \in Keys |-> NoDelivery]
  /\ replayClaim = [d \in Deliveries |-> NoClaim]
  /\ issued = {}

Administer(k) ==
  \/ Pause(k)
  \/ Resume(k)
  \/ \E expected \in Expected(k), to \in Positions : Reset(k, expected, to)

Take(d) ==
  \E successor \in Positions, expected \in Expected(KeyOf[d]) :
    \/ \E purpose \in Purposes : AcquireNew(d, successor, expected, purpose)
    \/ AcquireRetry(d, successor, expected)
    \/ \E v \in ExpectedVersion(d) : Retry(d, successor, v, expected)

(* A lease returned to a caller, or the one fail_stream_retry_delivery     *)
(* reads back for a retry it scheduled.                                    *)
Presentable == issued \cup {lease[k] : k \in {j \in Keys : retryClaim[j] # NoDelivery}}

Settle(l) ==
  \/ Fail(l)
  \/ Cancel(l)
  \/ \E expected \in Expected(KeyOf[l.delivery]) :
       \/ Complete(l, expected)
       \/ \E v \in ExpectedVersion(l.delivery) : Skip(l, expected, v)

Close(t, d) ==
  \E v \in ExpectedVersion(d) :
    \/ Replay(d, v)
    \/ ClaimReplay(t, d, v)
    \/ ReplayComplete(t, d, v)
    \/ CancelAdmittedReplay(t, d, v)
    \/ ReplayFail(d, v)
    \/ ReplayCancel(d, v)
    \/ Resolve(d, v)

(* One intent, in one transaction that first checks the writer token.      *)
Intent(t) ==
  /\ RequireOwner(t)
  /\ \/ \E k \in Keys : Administer(k)
     \/ \E d \in Deliveries : Take(d) \/ Close(t, d)
     \/ \E l \in Presentable : Settle(l)
  /\ UNCHANGED writerVars

Next ==
  \/ \E w \in Owners : AcquireWriter(w)
  \/ \E w \in Owners, t \in tokens : Takeover(w, t)
  \/ \E t \in tokens : Intent(t)

Spec == Init /\ [][Next]_vars

-----------------------------------------------------------------------------
(* Properties.                                                             *)

(* A replay claim in the database is always the work of the current writer *)
(* on the current version of a Replaying record: claims do not outlive the *)
(* replay or the writer that made them, so that ReplayComplete, which      *)
(* answers a claim of somebody else with RecoveryInvalid, never meets one. *)
ReplayClaimIsCurrent ==
  \A d \in Deliveries : replayClaim[d] # NoClaim =>
    /\ replayClaim[d].owner = writer
    /\ Grant(d, replayClaim[d].version, "Replaying")

(* The delivery leases returned for a key under one fence are one lease,   *)
(* across takeovers too: a lease of a fenced writer can never settle a     *)
(* delivery that the next writer took.                                     *)
FencesSurviveTakeover ==
  /\ \A l, m \in issued :
       (KeyOf[l.delivery] = KeyOf[m.delivery] /\ l.fence = m.fence) => l = m
  /\ \A l \in issued : l.fence <= checkpoint[KeyOf[l.delivery]].fence

(* The only thing that can make a takeover impossible is a retry acquired  *)
(* with another successor than the one its failure row records.            *)
TakeoverBlockedOnlyByRevision ==
  Recoverable \/ \E d \in Deliveries :
    LET k == KeyOf[d] IN
    /\ failure[d].status = "Retrying"
    /\ Leased(k) /\ lease[k].delivery = d /\ lease[k] \in issued
    /\ retryClaim[k] = NoDelivery
    /\ lease[k].successor # failure[d].successor

(* The comment on validate_recoverable_stream_attempts: the delivery lease *)
(* is the evidence, an acquired retry has consumed its claim and retains   *)
(* the lease; such an attempt can be reopened.                             *)
AbandonedRetryIsRecoverable ==
  \A d \in Deliveries :
    (/\ failure[d].status = "Retrying"
     /\ Leased(KeyOf[d]) /\ lease[KeyOf[d]].delivery = d
     /\ lease[KeyOf[d]].purpose = "Deliver"
     /\ retryClaim[KeyOf[d]] = NoDelivery) => Recoverable

(* An admitted pause is never lost: until it is published it stays pending, *)
(* also when the writer that admitted it is replaced.                      *)
PauseIsNotLost ==
  [][\A k \in pausePending : k \in pausePending' \/ control'[k] = "Paused"]_vars

(* The in-memory backend of orna-stream, on the state of the tables.       *)
Mem ==
  INSTANCE Stream WITH
    checkpoints <- [k \in Keys |-> [version |-> checkpoint[k].version,
                                    committed |-> checkpoint[k].committed]],
    streams <- control,
    failures <- failure,
    leases <- lease,
    pauseRequested <- pausePending,
    nextFence <- [k \in Keys |-> checkpoint[k].fence],
    retryClaims <- {k \in Keys : retryClaim[k] # NoDelivery},
    replayClaims <- {d \in Deliveries : replayClaim[d] # NoClaim}

(* The two backends have not drifted apart in what they accept: in every   *)
(* state of the tables, those a takeover leaves included, an intent of the *)
(* current writer is accepted exactly when it is in memory, with one       *)
(* exception: a replay nobody has claimed may be failed here, and only be  *)
(* cancelled there.  (A replay of this writer may also be cancelled after  *)
(* its claim, for which the in-memory backend has no intent but            *)
(* ReplayFail.)  The reason given for a rejection is not compared.         *)
AnswersAsInMemory ==
  /\ \A k \in Keys :
       /\ CanPause(k) <=> Mem!CanPause(k)
       /\ CanResume(k) <=> Mem!CanResume(k)
       /\ \A expected \in Expected(k) : CanReset(k, expected) <=> Mem!CanReset(k, expected)
  /\ \A d \in Deliveries : \A expected \in Expected(KeyOf[d]) :
       /\ \A purpose \in Purposes :
            CanAcquireNew(d, expected, purpose) <=> Mem!CanAcquireNew(d, expected, purpose)
       /\ CanAcquireRetry(d, expected) <=> Mem!CanAcquireRetry(d, expected)
       /\ \A successor \in Positions, v \in ExpectedVersion(d) :
            CanRetry(d, successor, v, expected) <=> Mem!CanRetry(d, successor, v, expected)
  /\ \A l \in Presentable :
       /\ Holds(l) <=> Mem!Holds(l)
       /\ CanFail(l) <=> Mem!CanFail(l)
       /\ \A expected \in Expected(KeyOf[l.delivery]) :
            /\ CanComplete(l, expected) <=> Mem!CanComplete(l, expected)
            /\ \A v \in ExpectedVersion(l.delivery) :
                 CanSkip(l, expected, v) <=> Mem!CanSkip(l, expected, v)
  /\ \A d \in Deliveries : \A v \in ExpectedVersion(d) :
       /\ CanReplay(d, v) <=> Mem!CanReplay(d, v)
       /\ CanClaimReplay(d, v) <=> Mem!CanClaimReplay(d, v)
       /\ CanReplayCancel(d, v) <=> Mem!CanReplayCancel(d, v)
       /\ \A t \in tokens :
            RequireOwner(t) => (CanEndOwnReplay(t, d, v) <=> Mem!CanEndReplay(d, v))
       /\ CanReplayFail(d, v) <=> Mem!CanEndReplay(d, v) \/ Mem!CanReplayCancel(d, v)
       /\ CanResolve(d, v) <=> Mem!CanResolve(d, v)

(* What an intent does to the tables is what it does in memory.            *)
SameEffects ==
  /\ \A k \in Keys :
       /\ Pause(k) => Mem!Pause(k)
       /\ Resume(k) => Mem!Resume(k)
       /\ \A expected \in Expected(k), to \in Positions :
            Reset(k, expected, to) => Mem!Reset(k, expected, to)
  /\ \A d \in Deliveries, successor \in Positions : \A expected \in Expected(KeyOf[d]) :
       /\ \A purpose \in Purposes :
            AcquireNew(d, successor, expected, purpose)
              => Mem!AcquireNew(d, successor, expected, purpose)
       /\ AcquireRetry(d, successor, expected) => Mem!AcquireRetry(d, successor, expected)
       /\ \A v \in ExpectedVersion(d) :
            Retry(d, successor, v, expected) => Mem!Retry(d, successor, v, expected)
  /\ \A l \in Presentable :
       /\ Fail(l) => Mem!Fail(l)
       /\ Cancel(l) => Mem!Cancel(l)
       /\ \A expected \in Expected(KeyOf[l.delivery]) :
            /\ Complete(l, expected) => Mem!Complete(l, expected)
            /\ \A v \in ExpectedVersion(l.delivery) :
                 Skip(l, expected, v) => Mem!Skip(l, expected, v)
  /\ \A d \in Deliveries : \A v \in ExpectedVersion(d) :
       /\ Replay(d, v) => Mem!Replay(d, v)
       /\ \A t \in tokens : RequireOwner(t) =>
            /\ ClaimReplay(t, d, v) => Mem!ClaimReplay(d, v)
            /\ ReplayComplete(t, d, v) => Mem!ReplayComplete(d, v)
            /\ CancelAdmittedReplay(t, d, v) => Mem!ReplayFail(d, v)
       /\ ReplayFail(d, v) => Mem!ReplayFail(d, v) \/ Mem!ReplayCancel(d, v)
       /\ ReplayCancel(d, v) => Mem!ReplayCancel(d, v)
       /\ Resolve(d, v) => Mem!Resolve(d, v)

(* Nor have they in what they write: the transaction of an accepted intent *)
(* changes checkpoint, control, failures, leases, fences and claims as the *)
(* same intent does in memory; a ReplayFail without a claim as ReplayCancel. *)
AppliesAsInMemory == [][SameEffects]_vars

(* The durable backend implements ordered delivery, takeovers included:    *)
(* replacing the writer only releases what it worked on.                   *)
ImplementsOrderedDelivery == Mem!Promise!Spec
=============================================================================
