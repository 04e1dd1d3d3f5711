----------------------------- MODULE LiveServe -----------------------------
(***************************************************************************)
(* One session of `orna serve` (crates/orna-cli cli_serve.rs): the socket  *)
(* workers that attach to it, replace each other, run application work and *)
(* exit; POST resume, DELETE and the expiry sweep; the transport of        *)
(* crates/orna-live with its upgrade reservation, retirement fence and     *)
(* work supervisor; and the reconnection lease of crates/orna-security.    *)
(*                                                                         *)
(* Every step of the transport holds the sessions mutex.  A step that      *)
(* joins application work keeps it while it waits: such a step is split    *)
(* and `holder` names who has the mutex.  The callback itself runs without *)
(* it.  A worker is a thread, its socket and its attachment identity, and  *)
(* evaluates one frame at a time.  The steps of the application and of the *)
(* durable ledger inside a drain are in RequestLedger; here a drain may    *)
(* fail on their behalf.  Clients present the current credential.          *)
(***************************************************************************)
EXTENDS Naturals, FiniteSets

CONSTANTS
  Workers,      \* socket workers
  Deleters,     \* DELETE requests
  None,
  Sweeper,      \* the thread of sweep_sessions
  Lease,        \* lease_ms, in ticks
  MaxTime,      \* bound: ticks
  MaxResumes    \* bound: POST resume requests

ASSUME ActorAssumption ==
  /\ {None, Sweeper} \cap (Workers \cup Deleters) = {} /\ Workers \cap Deleters = {}
  /\ None # Sweeper /\ Lease \in Nat \ {0}
ASSUME BoundAssumption == MaxTime \in Nat /\ MaxResumes \in Nat

VARIABLES
  now,
  phase,        \* the session: open, revoked (its record stays) or gone
  attached,     \* the worker whose attachment is active
  everAttached, \* the security session has had an attachment
  leaseUntil,   \* Disconnected(lease) of the security session
  expiresAt,    \* metadata.expires_at of the transport record
  pending,      \* the worker whose upgrade is being delivered
  deadline,     \* of that upgrade
  retiring,     \* retiring_attachments, delivered to their workers
  draining,     \* the supervisor admits no work for the session
  held,         \* workers with a live LiveApplicationWorkLease
  failed,       \* a lease was dropped without being completed
  holder,       \* who keeps the sessions mutex while it joins
  joined,       \* the leases it waits for
  parked,       \* its waker is registered and it waits to be woken
  pc,           \* worker -> where it is
  seen,         \* worker -> the time it read before the mutex
  cancelled,    \* workers whose registration was cancelled and retired
  resumes,
  answer,       \* deleter -> progress and answer of its request
  waits         \* deleter -> the socket worker it cancelled

sessionVars == <<phase, attached, everAttached, leaseUntil, expiresAt, pending, deadline>>
workVars == <<draining, held, failed>>
mutexVars == <<holder, joined, parked>>
workerVars == <<pc, seen, cancelled, retiring>>
deleteVars == <<answer, waits>>
vars == <<now, sessionVars, workVars, mutexVars, workerVars, resumes, deleteVars>>

Init ==
  /\ now = 0
  /\ phase = "open" /\ attached = None /\ everAttached = FALSE
  /\ leaseUntil = 0 /\ expiresAt = Lease
  /\ pending = None /\ deadline = 0
  /\ draining = FALSE /\ held = {} /\ failed = FALSE
  /\ holder = None /\ joined = {} /\ parked = FALSE
  /\ pc = [w \in Workers |-> "new"] /\ seen = [w \in Workers |-> 0]
  /\ cancelled = {} /\ retiring = {}
  /\ resumes = 0
  /\ answer = [d \in Deleters |-> "new"] /\ waits = [d \in Deleters |-> None]

TypeOK ==
  /\ now \in 0..MaxTime
  /\ phase \in {"open", "revoked", "gone"}
  /\ {attached, pending} \subseteq Workers \cup {None}
  /\ everAttached \in BOOLEAN /\ draining \in BOOLEAN /\ failed \in BOOLEAN
  /\ {leaseUntil, expiresAt, deadline, resumes} \subseteq Nat
  /\ retiring \subseteq Workers /\ held \subseteq Workers
  /\ joined \subseteq Workers /\ cancelled \subseteq Workers
  /\ holder \in Workers \cup Deleters \cup {Sweeper, None} /\ parked \in BOOLEAN
  /\ pc \in [Workers -> {"new", "connecting", "delivering", "serving", "joining",
                         "working", "executed", "closing", "leaving", "exited"}]
  /\ seen \in [Workers -> Nat]
  /\ answer \in [Deleters -> {"new", "draining", "waiting", "204", "503", "error"}]
  /\ waits \in [Deleters -> Workers \cup {None}]

-----------------------------------------------------------------------------
LockFree == holder = None

\* The worker is in the registry of socket workers.
Registered(w) == pc[w] \notin {"new", "leaving", "exited"}

\* The worker reads frames for an attachment it committed.
Served(w) == pc[w] \in {"serving", "joining", "working", "executed"}

Goto(w, step) == pc' = [pc EXCEPT ![w] = step]

\* with_sessions: a retired attachment is fenced and its worker cancelled; one
\* whose worker has exited is acknowledged at once.
Retire(ws) ==
  LET running == {w \in ws : Registered(w)}
  IN retiring' = retiring \cup running /\ cancelled' = cancelled \cup running

\* The creation deadline counts until a socket has attached.
Unattended(time) == ~everAttached /\ time >= Lease

Admissible(time) == phase = "open" /\ ~Unattended(time)

\* The active attachment ends and the reconnection lease starts.
Detach ==
  /\ attached' = None
  /\ leaseUntil' = now + Lease /\ expiresAt' = now + Lease
  /\ UNCHANGED <<phase, everAttached, pending, deadline>>

Earliest(a, b) == IF a <= b THEN a ELSE b

Tick ==
  /\ now < MaxTime
  /\ now' = now + 1
  /\ UNCHANGED <<sessionVars, workVars, mutexVars, workerVars, resumes, deleteVars>>

-----------------------------------------------------------------------------
(* A worker attaches.                                                      *)

\* The worker registers and reads the clock before it has the mutex.
Register(w) ==
  /\ pc[w] = "new"
  /\ Goto(w, "connecting")
  /\ seen' = [seen EXCEPT ![w] = now]
  /\ UNCHANGED <<now, sessionVars, workVars, mutexVars, cancelled, retiring, resumes, deleteVars>>

\* One upgrade of a session is in delivery at a time; the reservation never
\* outlives the record.
AttachBegin(w) ==
  LET until == Earliest(seen[w] + Lease, expiresAt) IN
  /\ LockFree /\ pc[w] = "connecting"
  /\ IF Admissible(seen[w]) /\ pending = None /\ until > seen[w]
     THEN pending' = w /\ deadline' = until /\ Goto(w, "delivering")
     ELSE UNCHANGED <<pending, deadline>> /\ Goto(w, "closing")
  /\ UNCHANGED <<now, phase, attached, everAttached, leaseUntil, expiresAt, workVars, mutexVars,
                 seen, cancelled, retiring, resumes, deleteVars>>

\* The 101 could not be written, or the commit comes late or is refused.
AbortAttach(w) ==
  /\ pending' = None
  /\ Retire({w}) /\ Goto(w, "closing")
  /\ UNCHANGED <<phase, attached, everAttached, leaseUntil, expiresAt, deadline>>

DeliveryFails(w) ==
  /\ LockFree /\ pc[w] = "delivering"
  /\ AbortAttach(w)
  /\ UNCHANGED <<now, workVars, mutexVars, seen, resumes, deleteVars>>

\* Faulty: the replaced worker is not handed over for retirement.
CommitAttachKeepsOld(w) ==
  /\ pending' = None /\ attached' = w /\ everAttached' = TRUE
  /\ Goto(w, "serving")
  /\ UNCHANGED <<phase, leaseUntil, expiresAt, deadline, retiring, cancelled>>

\* An active attachment is replaced and its worker retired.
CommitAttach(w) ==
  /\ pending' = None /\ attached' = w /\ everAttached' = TRUE
  /\ Retire({attached} \ {None}) /\ Goto(w, "serving")
  /\ UNCHANGED <<phase, leaseUntil, expiresAt, deadline>>

AttachCommit(w) ==
  /\ LockFree /\ pc[w] = "delivering"
  /\ IF /\ now < deadline /\ Admissible(now)
        /\ attached = None /\ everAttached => now < leaseUntil
     THEN CommitAttach(w)
     ELSE AbortAttach(w)
  /\ UNCHANGED <<now, workVars, mutexVars, seen, resumes, deleteVars>>

-----------------------------------------------------------------------------
(* A worker serves frames.                                                 *)

\* The attachment was retired: the frame is refused and the socket closed.
FrameRefused(w) ==
  /\ LockFree /\ pc[w] = "serving" /\ attached # w
  /\ Goto(w, "closing")
  /\ UNCHANGED <<now, sessionVars, workVars, mutexVars, seen, cancelled, retiring, resumes,
                 deleteVars>>

\* A frame gets a lease and a ticket.
FrameAdmitted(w) ==
  /\ LockFree /\ pc[w] = "serving" /\ attached = w /\ ~draining
  /\ held' = held \cup {w} /\ Goto(w, "working")
  /\ UNCHANGED <<now, sessionVars, draining, failed, mutexVars, seen, cancelled, retiring,
                 resumes, deleteVars>>

\* An error between the lease and the ticket drops the lease.
FrameFails(w) ==
  /\ LockFree /\ pc[w] = "serving" /\ attached = w /\ ~draining
  /\ failed' = TRUE
  /\ \E step \in {"serving", "closing"} : Goto(w, step)
  /\ UNCHANGED <<now, sessionVars, draining, held, mutexVars, seen, cancelled, retiring,
                 resumes, deleteVars>>

\* Faulty: a Cancel frame may name its own request.
AnyTarget(w, t) == t \in held \cup {w}

\* Message::validate refuses a Cancel that targets its own request.
ValidTarget(w, t) == t \in held /\ t # w

\* A Cancel frame holds its own lease, and the mutex, until the lease of its
\* target (left by a worker it replaced) is gone.
CancelFrame(w, t) ==
  /\ LockFree /\ pc[w] = "serving" /\ attached = w /\ ~draining
  /\ ValidTarget(w, t)
  /\ held' = held \cup {w} /\ Goto(w, "joining")
  /\ holder' = w /\ joined' = {t} /\ parked' = FALSE
  /\ UNCHANGED <<now, sessionVars, draining, failed, seen, cancelled, retiring, resumes,
                 deleteVars>>

\* cancel_and_join polls and leaves its waker.
Park ==
  /\ holder # None /\ ~parked /\ joined \cap held # {}
  /\ parked' = TRUE
  /\ UNCHANGED <<now, sessionVars, workVars, holder, joined, workerVars, resumes, deleteVars>>

\* Faulty: a join is over before the callbacks are.
JoinReturnsEarly == ~parked

JoinDone == ~parked /\ joined \cap held = {}

Unlock == holder' = None /\ joined' = {} /\ parked' = FALSE

\* The lease goes, every waiter is woken.
Release(w) == held' = held \ {w} /\ parked' = FALSE /\ UNCHANGED <<holder, joined>>

CancelJoined(w) ==
  /\ holder = w /\ JoinDone /\ Unlock
  /\ \/ Goto(w, "working") /\ UNCHANGED held
     \/ \E step \in {"serving", "closing"} : Goto(w, step) /\ held' = held \ {w}
  /\ UNCHANGED <<now, sessionVars, draining, failed, seen, cancelled, retiring, resumes,
                 deleteVars>>

\* The callback returned; its lease ends before the mutex is asked for.
Execute(w) ==
  /\ pc[w] = "working"
  /\ Release(w) /\ Goto(w, "executed")
  /\ UNCHANGED <<now, sessionVars, draining, failed, seen, cancelled, retiring, resumes,
                 deleteVars>>

\* The callback panicked and unwinds the worker.
ExecutePanics(w) ==
  /\ pc[w] = "working"
  /\ Release(w) /\ failed' = TRUE /\ Goto(w, "closing")
  /\ UNCHANGED <<now, sessionVars, draining, seen, cancelled, retiring, resumes, deleteVars>>

CompleteApplication(w) ==
  /\ LockFree /\ pc[w] = "executed"
  /\ \E step \in {"serving", "closing"} : Goto(w, step)
  /\ UNCHANGED <<now, sessionVars, workVars, mutexVars, seen, cancelled, retiring, resumes,
                 deleteVars>>

\* The peer sent Close.
CloseFrame(w) ==
  /\ LockFree /\ pc[w] = "serving" /\ attached = w
  /\ Detach /\ Retire({w}) /\ Goto(w, "closing")
  /\ UNCHANGED <<now, workVars, mutexVars, seen, resumes, deleteVars>>

\* The peer is gone or silent, or the cancelled worker stops reading.
StopServing(w) ==
  /\ pc[w] = "serving"
  /\ Goto(w, "closing")
  /\ UNCHANGED <<now, sessionVars, workVars, mutexVars, seen, cancelled, retiring, resumes,
                 deleteVars>>

\* Drop: unregister first, then close the attachment under the mutex and
\* acknowledge a retirement that arrived while it was registered.
Unregister(w) ==
  /\ pc[w] = "closing"
  /\ Goto(w, "leaving")
  /\ UNCHANGED <<now, sessionVars, workVars, mutexVars, seen, cancelled, retiring, resumes,
                 deleteVars>>

CloseAttachment(w) ==
  /\ LockFree /\ pc[w] = "leaving"
  /\ IF attached = w THEN Detach ELSE UNCHANGED sessionVars
  /\ retiring' = IF w \in cancelled THEN retiring \ {w} ELSE retiring
  /\ Goto(w, "exited")
  /\ UNCHANGED <<now, workVars, mutexVars, seen, cancelled, resumes, deleteVars>>

-----------------------------------------------------------------------------
(* Session requests and expiry.                                            *)

\* POST resume rotates the credential and retires the active attachment.
Resume ==
  /\ LockFree /\ resumes < MaxResumes
  /\ phase # "gone" /\ pending = None
  /\ resumes' = resumes + 1
  /\ IF Admissible(now)
     THEN /\ attached' = None
          /\ leaseUntil' = IF attached = None THEN leaseUntil ELSE now + Lease
          /\ Retire({attached} \ {None})
          /\ UNCHANGED phase
     ELSE phase' = "revoked" /\ UNCHANGED <<attached, leaseUntil, retiring, cancelled>>
  /\ UNCHANGED <<now, everAttached, expiresAt, pending, deadline, workVars, mutexVars, pc, seen,
                 deleteVars>>

\* The credential is revoked, the attachment removed, and the work joined
\* with the mutex held.
Drain(actor) ==
  /\ phase' = "revoked" /\ attached' = None
  /\ draining' = TRUE
  /\ holder' = actor /\ joined' = held /\ parked' = FALSE

\* Refused while an upgrade is delivered or a retired worker still runs.
DeleteBegin(d) ==
  /\ LockFree /\ answer[d] = "new" /\ phase = "open"
  /\ IF ~Unattended(now) /\ pending = None /\ retiring = {}
     THEN /\ Drain(d)
          /\ waits' = [waits EXCEPT ![d] = attached]
          /\ answer' = [answer EXCEPT ![d] = "draining"]
     ELSE /\ answer' = [answer EXCEPT ![d] = IF Unattended(now) THEN "error" ELSE "503"]
          /\ UNCHANGED <<phase, attached, draining, mutexVars, waits>>
  /\ UNCHANGED <<now, everAttached, leaseUntil, expiresAt, pending, deadline, held, failed,
                 workerVars, resumes>>

\* The record of a deletion that failed refuses the credential; a session
\* that is gone answers at once.
DeleteAgain(d) ==
  /\ LockFree /\ answer[d] = "new" /\ phase # "open"
  /\ answer' = [answer EXCEPT ![d] = IF phase = "gone" THEN "204" ELSE "error"]
  /\ UNCHANGED <<now, sessionVars, workVars, mutexVars, workerVars, resumes, waits>>

\* Work that was dropped and an error of the ledger end a drain in failure.
Drained == JoinDone /\ ~failed

DeleteEnds(d) ==
  /\ holder = d
  /\ \/ Drained /\ phase' = "gone" /\ answer' = [answer EXCEPT ![d] = "waiting"]
     \/ ~parked /\ answer' = [answer EXCEPT ![d] = "error"] /\ UNCHANGED phase
  /\ Retire({waits[d]} \ {None})
  /\ Unlock
  /\ UNCHANGED <<now, attached, everAttached, leaseUntil, expiresAt, pending, deadline, workVars,
                 pc, seen, resumes, waits>>

\* Without the mutex, DELETE waits for the worker it cancelled, for a while.
DeleteAnswers(d) ==
  /\ answer[d] = "waiting"
  /\ \/ /\ waits[d] # None => ~Registered(waits[d])
        /\ answer' = [answer EXCEPT ![d] = "204"]
     \/ /\ waits[d] # None /\ Registered(waits[d])
        /\ answer' = [answer EXCEPT ![d] = "503"]
  /\ UNCHANGED <<now, sessionVars, workVars, mutexVars, workerVars, resumes, waits>>

\* The sweep ends a session without socket whose record has expired, also
\* one that an earlier deletion left revoked.
SweepBegin ==
  /\ LockFree /\ phase # "gone"
  /\ pending = None /\ attached = None /\ expiresAt <= now
  /\ Drain(Sweeper)
  /\ UNCHANGED <<now, everAttached, leaseUntil, expiresAt, pending, deadline, held, failed,
                 workerVars, resumes, deleteVars>>

SweepEnds ==
  /\ holder = Sweeper
  /\ \/ Drained /\ phase' = "gone"
     \/ ~parked /\ UNCHANGED phase
  /\ Unlock
  /\ UNCHANGED <<now, attached, everAttached, leaseUntil, expiresAt, pending, deadline, workVars,
                 workerVars, resumes, deleteVars>>

WorkerStep(w) ==
  \/ Register(w) \/ AttachBegin(w) \/ DeliveryFails(w) \/ AttachCommit(w)
  \/ FrameRefused(w) \/ FrameAdmitted(w) \/ FrameFails(w)
  \/ \E t \in Workers : CancelFrame(w, t)
  \/ CancelJoined(w) \/ Execute(w) \/ ExecutePanics(w) \/ CompleteApplication(w)
  \/ CloseFrame(w) \/ StopServing(w) \/ Unregister(w) \/ CloseAttachment(w)

DeleteStep(d) == DeleteBegin(d) \/ DeleteAgain(d) \/ DeleteEnds(d) \/ DeleteAnswers(d)

Next ==
  \/ Tick \/ Resume \/ Park \/ SweepBegin \/ SweepEnds
  \/ \E w \in Workers : WorkerStep(w)
  \/ \E d \in Deleters : DeleteStep(d)

Spec == Init /\ [][Next]_vars

\* A callback ends (the evaluator bounds its steps), a woken join is polled
\* and a step that has joined goes on.  Nothing is assumed of the peers.
Fairness ==
  /\ \A w \in Workers : WF_vars(Execute(w) \/ ExecutePanics(w)) /\ WF_vars(CancelJoined(w))
  /\ \A d \in Deleters : WF_vars(DeleteEnds(d))
  /\ WF_vars(SweepEnds)

FairSpec == Spec /\ Fairness

-----------------------------------------------------------------------------
\* Only one active WebSocket is attached to a session (30-protocol): between
\* steps of the transport, a worker that can still act for the session is
\* the attached one or has been cancelled, and stays fenced until it has
\* exited; a fence never outlives its worker, or DELETE would be refused for
\* ever (with_sessions_retiring, WebSocketWorkers::cancel and finish).
OneSocket ==
  LockFree =>
    /\ \A w \in Workers : Served(w) /\ w # attached => w \in cancelled \cap retiring
    /\ \A w \in retiring : pc[w] # "exited"
    /\ attached # None => Served(attached) \/ pc[attached] \in {"closing", "leaving"}

\* "Termination" of a session leaves nothing of it behind (delete, expire):
\* when it is gone no callback runs, no attachment or upgrade is left, and a
\* worker that connected before cannot start work in its name.
EndedSessionIsQuiet ==
  phase = "gone" => held = {} /\ attached = None /\ pending = None

\* A join never keeps the sessions mutex for ever: whatever worker, DELETE or
\* sweep waits for application work with the mutex held, the work it waits
\* for ends without the mutex and wakes it (cancel_and_join, release).
SessionLockReleased == [](holder # None => <>(holder = None))

\* DELETE "returns HTTP 204 after orderly termination" (30-protocol.md:19);
\* "a socket worker of it is still running, so termination is not yet
\* orderly" (cli_serve.rs:1146).
OrderlyTermination ==
  [][\A d \in Deleters : answer[d] # "204" /\ answer'[d] = "204" =>
       \A w \in Workers : ~Served(w)]_vars
=============================================================================
