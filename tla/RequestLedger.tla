--------------------------- MODULE RequestLedger ---------------------------
(***************************************************************************)
(* The durable request ledger of crates/orna-runtime and the live host of  *)
(* crates/orna-live that drives it (Algorithm REQUEST-1), for the requests *)
(* of one session.  A host is one owner identity: it takes the writer lease *)
(* at most once and keeps it in memory.  A crash ends a process and all    *)
(* its hosts; takeover_lease replaces a host that may still be running.    *)
(*                                                                         *)
(* One action is one ledger transaction, so crashes, takeovers and other   *)
(* hosts come between any two of them.  A host works on one frame or       *)
(* completion at a time (the sessions mutex of orna serve), while the      *)
(* application callback of a ticket runs without it.                       *)
(***************************************************************************)
EXTENDS Naturals, FiniteSets

CONSTANTS
  Hosts,          \* owner identities
  Requests,       \* request identities of the session, one fingerprint each
  None,
  WorkLimit,      \* leases the work supervisor of a host hands out
  MaxBoot,        \* bound: processes
  MaxGeneration   \* bound: table generations

ASSUME NoneIsNoHost == None \notin Hosts
ASSUME BoundAssumption == MaxBoot \in Nat \ {0} /\ MaxGeneration \in Nat

VARIABLES
  boot,        \* the process that holds the worktree lock
  home,        \* host -> its process, 0 before it is constructed
  lost,        \* host -> the owner it took over from (recovered_owner)
  recovered,   \* host -> takeover_recovery_complete
  writer,      \* writer_lease: the owner
  lock,        \* writer_lease: the process it is bound to
  fence,       \* takeover_recovery_pending: its owner
  row,         \* request_ledger
  admission,   \* request_admission: the lease and generation it is bound to
  deletion,    \* session_deletion: state and owner
  generation,  \* generation of the tables
  pc,          \* host -> request -> where the host is with its ticket
  plan,        \* host -> request -> what the callback returned
  context,     \* host -> request -> the generation its activation captured
  executed,    \* history: callback invocations of a request
  external,    \* history: requests whose callback had an external effect
  applied      \* history: requests whose mutations are in the tables

hostVars == <<boot, home, lost, recovered>>
ticketVars == <<pc, plan, context>>
history == <<executed, external, applied>>
vars == <<hostVars, writer, lock, fence, row, admission, deletion, generation,
          ticketVars, history>>

Terminal == {"Completed", "Cancelled", "Orphaned"}
States == {"Absent", "Reserved", "Running"} \cup Terminal
Plans == {"value", "failure", "controlled", "external"}
\* Between two transactions of one frame or completion.
Busy == {"reserved", "begun", "reported", "rolledBack", "refused", "failed"}
Steps == {"idle", "admitted", "executed", "done"} \cup Busy

Row == [state: States, owner: Hosts \cup {None},
        effects: {"none", "controlled", "external"}, proof: BOOLEAN,
        outcome: {"none", "value", "failure", "uncertain", "rollback", "cancelled"}]

\* A row in the given state without owner or execution evidence.
Plain(state, outcome) ==
  [state |-> state, owner |-> None, effects |-> "none", proof |-> FALSE,
   outcome |-> outcome]

\* A request started under the lease of h.
Started(h) ==
  [state |-> "Running", owner |-> h, effects |-> "none", proof |-> FALSE, outcome |-> "none"]

\* The same request with other execution evidence.
WithEvidence(entry, effects, proof) ==
  [state |-> entry.state, owner |-> entry.owner, effects |-> effects, proof |-> proof,
   outcome |-> entry.outcome]

TypeOK ==
  /\ boot \in 1..MaxBoot
  /\ home \in [Hosts -> 0..MaxBoot]
  /\ lost \in [Hosts -> Hosts \cup {None}]
  /\ recovered \in [Hosts -> BOOLEAN]
  /\ writer \in Hosts \cup {None} /\ fence \in Hosts \cup {None}
  /\ lock \in 0..MaxBoot
  /\ row \in [Requests -> Row]
  /\ admission \in [Requests -> {None} \cup (Hosts \X (0..MaxGeneration))]
  /\ deletion \in [state: {"open", "closing", "closed"}, owner: Hosts \cup {None}]
  /\ generation \in 0..MaxGeneration
  /\ pc \in [Hosts -> [Requests -> Steps]]
  /\ plan \in [Hosts -> [Requests -> Plans]]
  /\ context \in [Hosts -> [Requests -> 0..MaxGeneration]]
  /\ executed \in [Requests -> Nat]
  /\ external \in [Requests -> BOOLEAN]
  /\ applied \in [Requests -> BOOLEAN]

Init ==
  /\ boot = 1
  /\ home = [h \in Hosts |-> 0]
  /\ lost = [h \in Hosts |-> None]
  /\ recovered = [h \in Hosts |-> FALSE]
  /\ writer = None /\ lock = 0 /\ fence = None
  /\ row = [r \in Requests |-> Plain("Absent", "none")]
  /\ admission = [r \in Requests |-> None]
  /\ deletion = [state |-> "open", owner |-> None]
  /\ generation = 0
  /\ pc = [h \in Hosts |-> [r \in Requests |-> "idle"]]
  /\ plan = [h \in Hosts |-> [r \in Requests |-> "value"]]
  /\ context = [h \in Hosts |-> [r \in Requests |-> 0]]
  /\ executed = [r \in Requests |-> 0]
  /\ external = [r \in Requests |-> FALSE]
  /\ applied = [r \in Requests |-> FALSE]

-----------------------------------------------------------------------------
Alive(h) == home[h] = boot

\* The host is between two frames.
Idle(h) == Alive(h) /\ \A r \in Requests : pc[h][r] \notin Busy

Running == {r \in Requests : row[r].state = "Running"}

BarrierClear == fence = None

\* The current lease, and a fence of its own only when nothing is Running;
\* a transaction that commits under RequireOwner removes that fence.
RequireOwner(h) ==
  /\ Alive(h) /\ writer = h
  /\ BarrierClear \/ (fence = h /\ Running = {})

RequireRecoveryOwner(h) == Alive(h) /\ writer = h /\ fence \in {None, h}

SessionOpen == deletion.state = "open"

RunningAs(r, h) == row[r].state = "Running" /\ row[r].owner = h

Goto(h, r, step) == pc' = [pc EXCEPT ![h][r] = step]

\* The ticket is dropped with its result.
Finish(h, r) ==
  /\ Goto(h, r, "done")
  /\ plan' = [plan EXCEPT ![h][r] = "value"]
  /\ context' = [context EXCEPT ![h][r] = 0]

\* Faulty: a request without evidence of external effects had none.
RollbackAssumed(entry) == entry.effects # "external"

\* Rollback is proven only by the controlled marker with its receipt.
RollbackProven(entry) == entry.effects = "controlled" /\ entry.proof

OrphanedRow(entry) ==
  [state |-> "Orphaned", owner |-> None,
   effects |-> IF RollbackProven(entry) THEN "controlled" ELSE "none",
   proof |-> RollbackProven(entry),
   outcome |-> IF RollbackProven(entry) THEN "rollback" ELSE "uncertain"]

-----------------------------------------------------------------------------
(* The writer lease.                                                       *)

\* The lease is free, or bound to a process that no longer holds the lock:
\* every Running request is orphaned in the same transaction.
AcquireLease(h) ==
  /\ home[h] = 0
  /\ writer = None \/ lock # boot
  /\ home' = [home EXCEPT ![h] = boot]
  /\ writer' = h /\ lock' = boot /\ fence' = None
  /\ row' = [r \in Requests |-> IF r \in Running THEN OrphanedRow(row[r]) ELSE row[r]]
  /\ UNCHANGED <<boot, lost, recovered, admission, deletion, generation, ticketVars, history>>

\* An explicit takeover leaves Running requests to the caller, behind a
\* fence; the caller vouches that the old owner is gone.
TakeoverLease(h) ==
  /\ home[h] = 0 /\ writer # None
  /\ home' = [home EXCEPT ![h] = boot]
  /\ lost' = [lost EXCEPT ![h] = writer]
  /\ writer' = h /\ lock' = boot
  /\ fence' = IF Running = {} THEN None ELSE h
  /\ UNCHANGED <<boot, recovered, row, admission, deletion, generation, ticketVars, history>>

\* The process dies; its lock is released and what its hosts knew is gone.
Crash ==
  /\ boot < MaxBoot
  /\ boot' = boot + 1
  /\ lost' = [h \in Hosts |-> None]
  /\ recovered' = [h \in Hosts |-> FALSE]
  /\ pc' = [h \in Hosts |-> [r \in Requests |-> "idle"]]
  /\ plan' = [h \in Hosts |-> [r \in Requests |-> "value"]]
  /\ context' = [h \in Hosts |-> [r \in Requests |-> 0]]
  /\ UNCHANGED <<home, writer, lock, fence, row, admission, deletion, generation, history>>

\* Faulty: the first recovered request takes the fence with it.
RecoverRequestUnfences(h, r) ==
  /\ Idle(h) /\ RequireRecoveryOwner(h)
  /\ lost[h] # None /\ RunningAs(r, lost[h])
  /\ row' = [row EXCEPT ![r] = OrphanedRow(row[r])]
  /\ fence' = None
  /\ UNCHANGED <<hostVars, writer, lock, admission, deletion, generation, ticketVars, history>>

\* Recovery of one request of the owner that was taken over; the last one
\* takes the fence with it.
RecoverRequest(h, r) ==
  /\ Idle(h) /\ RequireRecoveryOwner(h)
  /\ lost[h] # None /\ RunningAs(r, lost[h])
  /\ row' = [row EXCEPT ![r] = OrphanedRow(row[r])]
  /\ fence' = IF Running = {r} THEN None ELSE fence
  /\ UNCHANGED <<hostVars, writer, lock, admission, deletion, generation, ticketVars, history>>

\* ensure_takeover_recovery ends: no Running row is left.
CompleteTakeoverRecovery(h) ==
  /\ Idle(h) /\ RequireRecoveryOwner(h)
  /\ lost[h] # None /\ ~recovered[h]
  /\ BarrierClear \/ Running = {}
  /\ fence' = None
  /\ recovered' = [recovered EXCEPT ![h] = TRUE]
  /\ UNCHANGED <<boot, home, lost, writer, lock, row, admission, deletion, generation,
                 ticketVars, history>>

-----------------------------------------------------------------------------
(* Admission of a request: reserve, begin, admit the work.                 *)

\* Faulty: an orphaned request may be tried again under its identity.
ReserveRequestAgain(h, r) ==
  /\ Idle(h) /\ (lost[h] # None => recovered[h])
  /\ BarrierClear /\ SessionOpen
  /\ row[r].state \in {"Absent", "Orphaned"}
  /\ row' = [row EXCEPT ![r] = Plain("Reserved", "none")]
  /\ admission' = [admission EXCEPT ![r] = <<writer, generation>>]
  /\ Goto(h, r, "reserved")
  /\ UNCHANGED <<hostVars, writer, lock, fence, deletion, generation, plan, context, history>>

\* Only an unknown identity is reserved; any other is replayed or answered
\* as active.  The admission is bound to the lease in the ledger.
ReserveRequest(h, r) ==
  /\ Idle(h) /\ (lost[h] # None => recovered[h])
  /\ BarrierClear /\ SessionOpen
  /\ row[r].state = "Absent"
  /\ row' = [row EXCEPT ![r] = Plain("Reserved", "none")]
  /\ admission' = [admission EXCEPT ![r] = <<writer, generation>>]
  /\ Goto(h, r, "reserved")
  /\ UNCHANGED <<hostVars, writer, lock, fence, deletion, generation, plan, context, history>>

\* The capability starts the request only for the lease and the generation
\* it was issued for; a refusal leaves the reservation behind.
BeginRequest(h, r) ==
  /\ Alive(h) /\ pc[h][r] = "reserved"
  /\ IF /\ SessionOpen /\ RequireOwner(h)
        /\ row[r].state = "Reserved" /\ admission[r] = <<h, generation>>
     THEN /\ row' = [row EXCEPT ![r] = Started(h)]
          /\ admission' = [admission EXCEPT ![r] = None]
          /\ fence' = None
          /\ Goto(h, r, "begun")
     ELSE /\ Goto(h, r, "idle")
          /\ UNCHANGED <<row, admission, fence>>
  /\ UNCHANGED <<hostVars, writer, lock, deletion, generation, plan, context, history>>

\* The work supervisor admits the started request and its activation
\* captures the tables, or refuses it with Limit, which is not retained.
AdmitWork(h, r) ==
  /\ Alive(h) /\ pc[h][r] = "begun"
  /\ IF Cardinality({q \in Requests : pc[h][q] = "admitted"}) < WorkLimit
     THEN /\ Goto(h, r, "admitted")
          /\ context' = [context EXCEPT ![h][r] = generation]
     ELSE Goto(h, r, "idle") /\ UNCHANGED context
  /\ UNCHANGED <<hostVars, writer, lock, fence, row, admission, deletion, generation,
                 plan, history>>

-----------------------------------------------------------------------------
(* The activation.                                                         *)

\* The callback runs outside the host.  It may reach the outside world
\* before it fails; a transaction that did reports it.
Execute(h, r, p) ==
  /\ Alive(h) /\ pc[h][r] = "admitted"
  /\ executed' = [executed EXCEPT ![r] = @ + 1]
  /\ plan' = [plan EXCEPT ![h][r] = p]
  /\ \E reached \in BOOLEAN :
       /\ reached => p \in {"failure", "external"}
       /\ external' = [external EXCEPT ![r] = @ \/ reached]
  /\ Goto(h, r, "executed")
  /\ UNCHANGED <<hostVars, writer, lock, fence, row, admission, deletion, generation,
                 context, applied>>

\* The ticket is cancelled, or the scheduler is full, before the callback.
RejectTicket(h, r) ==
  /\ Alive(h) /\ pc[h][r] = "admitted"
  /\ plan' = [plan EXCEPT ![h][r] = "failure"]
  /\ Goto(h, r, "executed")
  /\ UNCHANGED <<hostVars, writer, lock, fence, row, admission, deletion, generation,
                 context, history>>

\* Faulty: the lease is checked, the state of the request is not.
SettleAnyRow(h, r, state, outcome) ==
  IF RequireOwner(h)
  THEN row' = [row EXCEPT ![r] = Plain(state, outcome)] /\ fence' = None
  ELSE UNCHANGED <<row, fence>>

\* The terminal transition of a request that this lease started; without
\* that right nothing changes.
Settle(h, r, state, outcome) ==
  IF RequireOwner(h) /\ RunningAs(r, h)
  THEN row' = [row EXCEPT ![r] = Plain(state, outcome)] /\ fence' = None
  ELSE UNCHANGED <<row, fence>>

\* A result or a failure without a transaction.
Complete(h, r) ==
  /\ Idle(h) /\ pc[h][r] = "executed" /\ plan[h][r] \in {"value", "failure"}
  /\ Settle(h, r, "Completed", plan[h][r])
  /\ Finish(h, r)
  /\ UNCHANGED <<hostVars, writer, lock, admission, deletion, generation, history>>

\* The effect report is a transaction of its own.  The controlled marker is
\* skipped where it does not apply; a report of external effects that
\* cannot be recorded ends the commit.
ReportEffects(h, r) ==
  /\ Idle(h) /\ pc[h][r] = "executed" /\ plan[h][r] \in {"controlled", "external"}
  /\ LET recordable == /\ RequireOwner(h) /\ RunningAs(r, h)
                       /\ plan[h][r] = "controlled" => row[r].effects = "none"
     IN /\ IF recordable
           THEN /\ row' = [row EXCEPT ![r] = WithEvidence(@, plan[h][r], FALSE)]
                /\ fence' = None
           ELSE UNCHANGED <<row, fence>>
        /\ IF row[r].state \in Terminal THEN Finish(h, r)
           ELSE /\ Goto(h, r, IF recordable \/ plan[h][r] = "controlled"
                              THEN "reported" ELSE "failed")
                /\ UNCHANGED <<plan, context>>
  /\ UNCHANGED <<hostVars, writer, lock, admission, deletion, generation, history>>

\* Only the lease that started the request may commit it, on the capture it
\* was evaluated against.
MayCommit(h, r) ==
  RequireOwner(h) /\ RunningAs(r, h) /\ context[h][r] = generation

\* Rows, generation, terminal claim and outcome become durable together; an
\* error of the commit itself says nothing about whether they did.
CommitActivation(h, r) ==
  /\ Alive(h) /\ pc[h][r] = "reported"
  /\ MayCommit(h, r) /\ generation < MaxGeneration
  /\ row' = [row EXCEPT ![r] = Plain("Completed", "value")]
  /\ generation' = generation + 1
  /\ applied' = [applied EXCEPT ![r] = TRUE]
  /\ fence' = None
  /\ \/ Finish(h, r)
     \/ Goto(h, r, "failed") /\ UNCHANGED <<plan, context>>
  /\ UNCHANGED <<hostVars, writer, lock, admission, deletion, executed, external>>

\* A terminal row is replayed.  A fault or a refused candidate rolls back,
\* which leaves a receipt of a controlled activation and a verdict on any
\* other; a stale capture, a lost lease or a failed commit does so unobserved.
AbandonCommit(h, r) ==
  /\ Alive(h) /\ pc[h][r] = "reported"
  /\ IF row[r].state \in Terminal THEN Finish(h, r)
     ELSE /\ \/ MayCommit(h, r) /\ Goto(h, r, "rolledBack")
             \/ MayCommit(h, r) /\ plan[h][r] = "external" /\ Goto(h, r, "refused")
             \/ Goto(h, r, "failed")
          /\ UNCHANGED <<plan, context>>
  /\ UNCHANGED <<hostVars, writer, lock, fence, row, admission, deletion, generation, history>>

\* The receipt of an observed rollback, for a controlled activation only.
RecordRollbackProof(h, r) ==
  /\ Alive(h) /\ pc[h][r] = "rolledBack"
  /\ IF /\ plan[h][r] = "controlled" /\ RequireOwner(h) /\ RunningAs(r, h)
        /\ row[r].effects = "controlled" /\ ~row[r].proof
     THEN row' = [row EXCEPT ![r] = WithEvidence(@, "controlled", TRUE)] /\ fence' = None
     ELSE UNCHANGED <<row, fence>>
  /\ Goto(h, r, "failed")
  /\ UNCHANGED <<hostVars, writer, lock, admission, deletion, generation, plan, context,
                 history>>

\* A false table assertion is retained as its correlated diagnostic, also
\* when the activation had external effects.
RetainRefusal(h, r) ==
  /\ Alive(h) /\ pc[h][r] = "refused"
  /\ Settle(h, r, "Completed", "failure")
  /\ Finish(h, r)
  /\ UNCHANGED <<hostVars, writer, lock, admission, deletion, generation, history>>

\* Any other failed commit is a failure only for a controlled plan.
RetainFailedCommit(h, r) ==
  /\ Alive(h) /\ pc[h][r] = "failed"
  /\ Settle(h, r, "Completed", IF plan[h][r] = "controlled" THEN "failure" ELSE "uncertain")
  /\ Finish(h, r)
  /\ UNCHANGED <<hostVars, writer, lock, admission, deletion, generation, history>>

\* A Cancel frame joins the work of its target and then claims the row; the
\* claim needs the run observation that only a started request has.
CancelTarget(h, r) ==
  /\ Idle(h) /\ pc[h][r] # "admitted"
  /\ RequireOwner(h) /\ RunningAs(r, h)
  /\ Settle(h, r, "Cancelled", "cancelled")
  /\ UNCHANGED <<hostVars, writer, lock, admission, deletion, generation, ticketVars, history>>

-----------------------------------------------------------------------------
(* Session deletion.  An attempt that fails is repeated later, so its      *)
(* transactions are separate actions.                                      *)

BeginSessionDeletion(h) ==
  /\ Idle(h) /\ RequireOwner(h) /\ SessionOpen
  /\ deletion' = [state |-> "closing", owner |-> h]
  /\ fence' = None
  /\ UNCHANGED <<hostVars, writer, lock, row, admission, generation, ticketVars, history>>

\* The claim comes before the callbacks are joined.
CancelForDeletion(h, r) ==
  /\ Idle(h) /\ RequireOwner(h)
  /\ deletion = [state |-> "closing", owner |-> h]
  /\ row[r].state = "Reserved" \/ RunningAs(r, h)
  /\ row' = [row EXCEPT ![r] = Plain("Cancelled", "cancelled")]
  /\ fence' = None
  /\ UNCHANGED <<hostVars, writer, lock, admission, deletion, generation, ticketVars, history>>

\* Faulty: only started requests are looked for.
FinishIgnoringReserved(h) ==
  /\ Idle(h) /\ RequireOwner(h)
  /\ deletion = [state |-> "closing", owner |-> h]
  /\ \A r \in Requests : row[r].state # "Running"
  /\ deletion' = [state |-> "closed", owner |-> h]
  /\ fence' = None
  /\ UNCHANGED <<hostVars, writer, lock, row, admission, generation, ticketVars, history>>

FinishSessionDeletion(h) ==
  /\ Idle(h) /\ RequireOwner(h)
  /\ deletion = [state |-> "closing", owner |-> h]
  /\ \A r \in Requests : row[r].state \notin {"Reserved", "Running"}
  /\ deletion' = [state |-> "closed", owner |-> h]
  /\ fence' = None
  /\ UNCHANGED <<hostVars, writer, lock, row, admission, generation, ticketVars, history>>

\* Another activation of the writer (a stream batch, a REPL submission).
OtherCommit(h) ==
  /\ RequireOwner(h) /\ generation < MaxGeneration
  /\ generation' = generation + 1
  /\ fence' = None
  /\ UNCHANGED <<hostVars, writer, lock, row, admission, deletion, ticketVars, history>>

RequestStep(h, r) ==
  \/ RecoverRequest(h, r)
  \/ ReserveRequest(h, r) \/ BeginRequest(h, r) \/ AdmitWork(h, r)
  \/ \E p \in Plans : Execute(h, r, p)
  \/ RejectTicket(h, r) \/ Complete(h, r)
  \/ ReportEffects(h, r) \/ CommitActivation(h, r) \/ AbandonCommit(h, r)
  \/ RecordRollbackProof(h, r) \/ RetainRefusal(h, r) \/ RetainFailedCommit(h, r)
  \/ CancelTarget(h, r) \/ CancelForDeletion(h, r)

HostStep(h) ==
  \/ AcquireLease(h) \/ TakeoverLease(h) \/ CompleteTakeoverRecovery(h)
  \/ BeginSessionDeletion(h) \/ FinishSessionDeletion(h) \/ OtherCommit(h)

Next ==
  \/ Crash
  \/ \E h \in Hosts : HostStep(h) \/ \E r \in Requests : RequestStep(h, r)

Spec == Init /\ [][Next]_vars

-----------------------------------------------------------------------------
\* A request of a fenced writer is never left behind an open ledger: as long
\* as a Running row belongs to another lease than the current one, the fence
\* of the current lease stands (clear_takeover_recovery_if_resolved,
\* replace_writer_lease_tx), and every ordinary transaction is refused.
FenceStands ==
  \A r \in Running : row[r].owner # writer => fence = writer

\* A reservation is permission for one execution (ORNA-PROTO-004): whatever
\* crashes, takeovers, retries and cancellations come, the callback of a
\* request identity is invoked at most once.
ExecutedAtMostOnce == \A r \in Requests : executed[r] <= 1

\* What the ledger retains is true: the mutations of a request are durable
\* exactly with its successful claim, so a retained failure, cancellation
\* or orphan left nothing behind, also after an unknown commit outcome; and
\* a rollback is called proven only if nothing left the transaction.
OutcomeIsTrue ==
  \A r \in Requests :
    /\ applied[r] => row[r].state = "Completed" /\ row[r].outcome = "value"
    /\ row[r].outcome = "rollback" => ~external[r]

\* One retained terminal (REQUEST-1 step 5): completion, cancellation,
\* deletion and recovery race for a row and the first claim is never changed.
TerminalIsFinal ==
  [][\A r \in Requests : row[r].state \in Terminal => row'[r] = row[r]]_vars

\* A finished deletion is final: no request of the session is reserved,
\* started or committed afterwards, also not by a ticket admitted before.
ClosedSessionIsQuiet ==
  [][deletion.state = "closed" =>
       UNCHANGED <<deletion, row, applied>>
       /\ \A r \in Requests : row[r].state \notin {"Reserved", "Running"}]_vars
=============================================================================
