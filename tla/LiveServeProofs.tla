-------------------------- MODULE LiveServeProofs --------------------------
(***************************************************************************)
(* One session of `orna serve`, for any number of socket workers and       *)
(* deletions, any lease and any times.                                     *)
(*                                                                         *)
(* LiveInv is the inductive invariant.  OneSocket speaks of the moments    *)
(* when the sessions mutex is free; while a deletion holds it, the worker  *)
(* it took the attachment from is not fenced yet, and is the one it will   *)
(* retire (Fenced).  A session is quiet when it is gone because whoever    *)
(* drains it keeps the mutex, so that nothing is admitted meanwhile: what  *)
(* is still held was held when the drain began (DrainIsClosed).            *)
(***************************************************************************)
EXTENDS LiveServe, TLAPS

USE ActorAssumption, BoundAssumption

Steps == {"new", "connecting", "delivering", "serving", "joining",
          "working", "executed", "closing", "leaving", "exited"}

(* A worker that may act is attached, fenced, or about to be fenced. *)
Fenced ==
  \A w \in Workers : Served(w) /\ w # attached =>
    w \in cancelled \cap retiring \/ (holder \in Deleters /\ waits[holder] = w)

(* A fence goes with the worker it fences. *)
FencesEnd == retiring \subseteq cancelled /\ \A w \in retiring : pc[w] # "exited"

(* An attachment is that of a worker which has not closed it. *)
AttachmentRuns == attached # None => Served(attached) \/ pc[attached] \in {"closing", "leaving"}

(* A worker that holds the mutex joins. *)
HolderJoins == holder \in Workers => pc[holder] = "joining"

(* Nothing is admitted while a session is drained. *)
DrainIsClosed ==
  holder \in Deleters \cup {Sweeper} =>
    held \subseteq joined /\ attached = None /\ pending = None

LiveInv ==
  /\ TypeOK
  /\ Fenced /\ FencesEnd /\ AttachmentRuns /\ HolderJoins
  /\ DrainIsClosed /\ EndedSessionIsQuiet

-----------------------------------------------------------------------------
(* Where a worker goes. *)
LEMMA GotoStep ==
  ASSUME TypeOK, NEW w \in Workers, NEW step \in Steps, Goto(w, step)
  PROVE  /\ pc' \in [Workers -> Steps] /\ pc'[w] = step
         /\ \A v \in Workers : v # w => pc'[v] = pc[v]
  BY DEF TypeOK, Goto, Steps

(* Retiring a worker keeps cancellations and fences sets of workers. *)
LEMMA RetireTypes ==
  ASSUME TypeOK, NEW ws \in SUBSET Workers, Retire(ws)
  PROVE  /\ retiring' \in SUBSET Workers /\ cancelled' \in SUBSET Workers
         /\ retiring' = retiring \cup {w \in ws : Registered(w)}
         /\ cancelled' = cancelled \cup {w \in ws : Registered(w)}
  BY DEF TypeOK, Retire

(* A session nobody is attached to. *)
LEMMA InitLiveInv == Init => LiveInv
<1> SUFFICES ASSUME Init PROVE LiveInv
  OBVIOUS
<1>1. TypeOK
  <2>1. 0 \in 0..MaxTime /\ {leaseUntil, expiresAt, deadline, resumes} \subseteq Nat
    BY DEF Init
  <2> QED BY <2>1 DEF Init, TypeOK
<1> QED BY <1>1 DEF Init, LiveInv, Fenced, FencesEnd, AttachmentRuns, HolderJoins, DrainIsClosed,
     EndedSessionIsQuiet, Served

-----------------------------------------------------------------------------
(* Every hold of the mutex keeps the types. *)
LEMMA NextTypeOK == TypeOK /\ [Next]_vars => TypeOK'
<1> SUFFICES ASSUME TypeOK, [Next]_vars PROVE TypeOK'
  OBVIOUS
<1> USE DEF sessionVars, workVars, mutexVars, workerVars, deleteVars
<1>1. ASSUME NEW w \in Workers, Register(w) PROVE TypeOK'
  BY <1>1 DEF Register, Goto, TypeOK
<1>2. ASSUME NEW w \in Workers, AttachBegin(w) PROVE TypeOK'
  BY <1>2 DEF AttachBegin, Earliest, Goto, TypeOK
<1>3. ASSUME NEW w \in Workers, DeliveryFails(w) PROVE TypeOK'
  BY <1>3 DEF DeliveryFails, AbortAttach, Goto, Retire, TypeOK
<1>4. ASSUME NEW w \in Workers, AttachCommit(w) PROVE TypeOK'
  <2>1. CASE CommitAttach(w)
    BY <1>4, <2>1, GotoStep, RetireTypes DEF AttachCommit, CommitAttach, TypeOK, Steps
  <2>2. CASE AbortAttach(w)
    BY <1>4, <2>2, GotoStep, RetireTypes DEF AttachCommit, AbortAttach, TypeOK, Steps
  <2> QED BY <1>4, <2>1, <2>2 DEF AttachCommit
<1>5. ASSUME NEW w \in Workers, FrameRefused(w) PROVE TypeOK'
  BY <1>5 DEF FrameRefused, Goto, TypeOK
<1>6. ASSUME NEW w \in Workers, FrameAdmitted(w) PROVE TypeOK'
  BY <1>6 DEF FrameAdmitted, Goto, TypeOK
<1>7. ASSUME NEW w \in Workers, FrameFails(w) PROVE TypeOK'
  BY <1>7 DEF FrameFails, Goto, TypeOK
<1>8. ASSUME NEW w \in Workers, NEW t \in Workers, CancelFrame(w, t) PROVE TypeOK'
  BY <1>8 DEF CancelFrame, Goto, TypeOK
<1>9. ASSUME NEW w \in Workers, CancelJoined(w) PROVE TypeOK'
  BY <1>9 DEF CancelJoined, JoinDone, Unlock, Goto, TypeOK
<1>10. ASSUME NEW w \in Workers, Execute(w) PROVE TypeOK'
  BY <1>10 DEF Execute, Release, Goto, TypeOK
<1>11. ASSUME NEW w \in Workers, ExecutePanics(w) PROVE TypeOK'
  BY <1>11 DEF ExecutePanics, Release, Goto, TypeOK
<1>12. ASSUME NEW w \in Workers, CompleteApplication(w) PROVE TypeOK'
  BY <1>12 DEF CompleteApplication, Goto, TypeOK
<1>13. ASSUME NEW w \in Workers, CloseFrame(w) PROVE TypeOK'
  BY <1>13 DEF CloseFrame, Detach, Goto, Retire, TypeOK
<1>14. ASSUME NEW w \in Workers, StopServing(w) PROVE TypeOK'
  BY <1>14 DEF StopServing, Goto, TypeOK
<1>15. ASSUME NEW w \in Workers, Unregister(w) PROVE TypeOK'
  BY <1>15 DEF Unregister, Goto, TypeOK
<1>16. ASSUME NEW w \in Workers, CloseAttachment(w) PROVE TypeOK'
  BY <1>16 DEF CloseAttachment, Detach, Goto, TypeOK
<1>17. ASSUME NEW d \in Deleters, DeleteBegin(d) PROVE TypeOK'
  BY <1>17 DEF DeleteBegin, Drain, Unattended, TypeOK
<1>18. ASSUME NEW d \in Deleters, DeleteAgain(d) PROVE TypeOK'
  BY <1>18 DEF DeleteAgain, TypeOK
<1>19. ASSUME NEW d \in Deleters, DeleteEnds(d) PROVE TypeOK'
  BY <1>19 DEF DeleteEnds, Drained, JoinDone, Unlock, Retire, TypeOK
<1>20. ASSUME NEW d \in Deleters, DeleteAnswers(d) PROVE TypeOK'
  BY <1>20 DEF DeleteAnswers, TypeOK
<1>21. CASE Tick
  BY <1>21 DEF Tick, TypeOK
<1>22. CASE Resume
  BY <1>22 DEF Resume, Admissible, Retire, TypeOK
<1>23. CASE Park
  BY <1>23 DEF Park, TypeOK
<1>24. CASE SweepBegin
  BY <1>24 DEF SweepBegin, Drain, TypeOK
<1>25. CASE SweepEnds
  BY <1>25 DEF SweepEnds, Drained, JoinDone, Unlock, TypeOK
<1>26. CASE UNCHANGED vars
  BY <1>26 DEF vars, TypeOK
<1> QED BY <1>1, <1>2, <1>3, <1>4, <1>5, <1>6, <1>7, <1>8, <1>9, <1>10, <1>11, <1>12, <1>13,
     <1>14, <1>15, <1>16, <1>17, <1>18, <1>19, <1>20, <1>21, <1>22, <1>23, <1>24, <1>25, <1>26
     DEF Next, WorkerStep, DeleteStep

(* A worker is fenced in the step that takes its attachment, or when the    *)
(* deletion that took it lets the mutex go.                                *)
LEMMA NextFenced == LiveInv /\ [Next]_vars => Fenced'
<1> SUFFICES ASSUME LiveInv, [Next]_vars PROVE Fenced'
  OBVIOUS
<1> USE DEF sessionVars, workVars, mutexVars, workerVars, deleteVars
<1>1. ASSUME NEW w \in Workers, Register(w) PROVE Fenced'
  BY <1>1 DEF Register, Goto, LiveInv, TypeOK, Fenced, AttachmentRuns, HolderJoins, Served,
     Registered
<1>2. ASSUME NEW w \in Workers, AttachBegin(w) PROVE Fenced'
  BY <1>2 DEF AttachBegin, Earliest, Goto, LockFree, LiveInv, TypeOK, Fenced, AttachmentRuns,
     HolderJoins, Served, Registered
<1>3. ASSUME NEW w \in Workers, DeliveryFails(w) PROVE Fenced'
  BY <1>3 DEF DeliveryFails, AbortAttach, Goto, Retire, LockFree, LiveInv, TypeOK, Fenced,
     AttachmentRuns, HolderJoins, Served, Registered
<1>4. ASSUME NEW w \in Workers, AttachCommit(w) PROVE Fenced'
  BY <1>4 DEF AttachCommit, AbortAttach, CommitAttach, Admissible, Goto, Retire, LockFree,
     LiveInv, TypeOK, Fenced, AttachmentRuns, HolderJoins, Served, Registered
<1>5. ASSUME NEW w \in Workers, FrameRefused(w) PROVE Fenced'
  BY <1>5 DEF FrameRefused, Goto, LockFree, LiveInv, TypeOK, Fenced, AttachmentRuns,
     HolderJoins, Served, Registered
<1>6. ASSUME NEW w \in Workers, FrameAdmitted(w) PROVE Fenced'
  BY <1>6 DEF FrameAdmitted, Goto, LockFree, LiveInv, TypeOK, Fenced, AttachmentRuns,
     HolderJoins, Served, Registered
<1>7. ASSUME NEW w \in Workers, FrameFails(w) PROVE Fenced'
  BY <1>7 DEF FrameFails, Goto, LockFree, LiveInv, TypeOK, Fenced, AttachmentRuns,
     HolderJoins, Served, Registered
<1>8. ASSUME NEW w \in Workers, NEW t \in Workers, CancelFrame(w, t) PROVE Fenced'
  BY <1>8 DEF CancelFrame, Goto, LockFree, LiveInv, TypeOK, Fenced, AttachmentRuns,
     HolderJoins, Served, Registered
<1>9. ASSUME NEW w \in Workers, CancelJoined(w) PROVE Fenced'
  BY <1>9 DEF CancelJoined, JoinDone, Unlock, Goto, LiveInv, TypeOK, Fenced, AttachmentRuns,
     HolderJoins, Served, Registered
<1>10. ASSUME NEW w \in Workers, Execute(w) PROVE Fenced'
  BY <1>10 DEF Execute, Release, Goto, LiveInv, TypeOK, Fenced, AttachmentRuns, HolderJoins,
     Served, Registered
<1>11. ASSUME NEW w \in Workers, ExecutePanics(w) PROVE Fenced'
  BY <1>11 DEF ExecutePanics, Release, Goto, LiveInv, TypeOK, Fenced, AttachmentRuns,
     HolderJoins, Served, Registered
<1>12. ASSUME NEW w \in Workers, CompleteApplication(w) PROVE Fenced'
  BY <1>12 DEF CompleteApplication, Goto, LockFree, LiveInv, TypeOK, Fenced, AttachmentRuns,
     HolderJoins, Served, Registered
<1>13. ASSUME NEW w \in Workers, CloseFrame(w) PROVE Fenced'
  BY <1>13 DEF CloseFrame, Detach, Goto, Retire, LockFree, LiveInv, TypeOK, Fenced,
     AttachmentRuns, HolderJoins, Served, Registered
<1>14. ASSUME NEW w \in Workers, StopServing(w) PROVE Fenced'
  BY <1>14 DEF StopServing, Goto, LiveInv, TypeOK, Fenced, AttachmentRuns, HolderJoins,
     Served, Registered
<1>15. ASSUME NEW w \in Workers, Unregister(w) PROVE Fenced'
  BY <1>15 DEF Unregister, Goto, LiveInv, TypeOK, Fenced, AttachmentRuns, HolderJoins, Served,
     Registered
<1>16. ASSUME NEW w \in Workers, CloseAttachment(w) PROVE Fenced'
  BY <1>16 DEF CloseAttachment, Detach, Goto, LockFree, LiveInv, TypeOK, Fenced,
     AttachmentRuns, HolderJoins, Served, Registered
<1>17. ASSUME NEW d \in Deleters, DeleteBegin(d) PROVE Fenced'
  BY <1>17 DEF DeleteBegin, Drain, Unattended, LockFree, LiveInv, TypeOK, Fenced,
     AttachmentRuns, HolderJoins, Served, Registered
<1>18. ASSUME NEW d \in Deleters, DeleteAgain(d) PROVE Fenced'
  BY <1>18 DEF DeleteAgain, LockFree, LiveInv, TypeOK, Fenced, AttachmentRuns, HolderJoins,
     Served, Registered
<1>19. ASSUME NEW d \in Deleters, DeleteEnds(d) PROVE Fenced'
  BY <1>19 DEF DeleteEnds, Drained, JoinDone, Unlock, Retire, LiveInv, TypeOK, Fenced,
     AttachmentRuns, HolderJoins, Served, Registered
<1>20. ASSUME NEW d \in Deleters, DeleteAnswers(d) PROVE Fenced'
  BY <1>20 DEF DeleteAnswers, LiveInv, TypeOK, Fenced, AttachmentRuns, HolderJoins, Served,
     Registered
<1>21. CASE Tick
  BY <1>21 DEF Tick, LiveInv, TypeOK, Fenced, AttachmentRuns, HolderJoins, Served, Registered
<1>22. CASE Resume
  BY <1>22 DEF Resume, Admissible, Retire, LockFree, LiveInv, TypeOK, Fenced, AttachmentRuns,
     HolderJoins, Served, Registered
<1>23. CASE Park
  BY <1>23 DEF Park, LiveInv, TypeOK, Fenced, AttachmentRuns, HolderJoins, Served, Registered
<1>24. CASE SweepBegin
  BY <1>24 DEF SweepBegin, Drain, LockFree, LiveInv, TypeOK, Fenced, AttachmentRuns,
     HolderJoins, Served, Registered
<1>25. CASE SweepEnds
  BY <1>25 DEF SweepEnds, Drained, JoinDone, Unlock, LiveInv, TypeOK, Fenced, AttachmentRuns,
     HolderJoins, Served, Registered
<1>26. CASE UNCHANGED vars
  BY <1>26 DEF vars, LiveInv, TypeOK, Fenced, AttachmentRuns, HolderJoins, Served, Registered
<1> QED BY <1>1, <1>2, <1>3, <1>4, <1>5, <1>6, <1>7, <1>8, <1>9, <1>10, <1>11, <1>12, <1>13,
     <1>14, <1>15, <1>16, <1>17, <1>18, <1>19, <1>20, <1>21, <1>22, <1>23, <1>24, <1>25, <1>26
     DEF Next, WorkerStep, DeleteStep

(* Retirement, attachment and join follow the life of a worker. *)
LEMMA NextRuns == LiveInv /\ [Next]_vars => FencesEnd' /\ AttachmentRuns' /\ HolderJoins'
<1> SUFFICES ASSUME LiveInv, [Next]_vars PROVE FencesEnd' /\ AttachmentRuns' /\ HolderJoins'
  OBVIOUS
<1> USE DEF sessionVars, workVars, mutexVars, workerVars, deleteVars
<1>1. ASSUME NEW w \in Workers, Register(w) PROVE FencesEnd' /\ AttachmentRuns' /\ HolderJoins'
  BY <1>1 DEF Register, Goto, LiveInv, TypeOK, FencesEnd, AttachmentRuns, HolderJoins, Served,
     Registered
<1>2. ASSUME NEW w \in Workers, AttachBegin(w) PROVE FencesEnd' /\ AttachmentRuns' /\ HolderJoins'
  BY <1>2 DEF AttachBegin, Earliest, Goto, LockFree, LiveInv, TypeOK, FencesEnd,
     AttachmentRuns, HolderJoins, Served, Registered
<1>3. ASSUME NEW w \in Workers, DeliveryFails(w)
      PROVE  FencesEnd' /\ AttachmentRuns' /\ HolderJoins'
  BY <1>3 DEF DeliveryFails, AbortAttach, Goto, Retire, LockFree, LiveInv, TypeOK, FencesEnd,
     AttachmentRuns, HolderJoins, Served, Registered
<1>4. ASSUME NEW w \in Workers, AttachCommit(w)
      PROVE  FencesEnd' /\ AttachmentRuns' /\ HolderJoins'
  BY <1>4 DEF AttachCommit, AbortAttach, CommitAttach, Admissible, Goto, Retire, LockFree,
     LiveInv, TypeOK, FencesEnd, AttachmentRuns, HolderJoins, Served, Registered
<1>5. ASSUME NEW w \in Workers, FrameRefused(w)
      PROVE  FencesEnd' /\ AttachmentRuns' /\ HolderJoins'
  BY <1>5 DEF FrameRefused, Goto, LockFree, LiveInv, TypeOK, FencesEnd, AttachmentRuns,
     HolderJoins, Served, Registered
<1>6. ASSUME NEW w \in Workers, FrameAdmitted(w)
      PROVE  FencesEnd' /\ AttachmentRuns' /\ HolderJoins'
  BY <1>6 DEF FrameAdmitted, Goto, LockFree, LiveInv, TypeOK, FencesEnd, AttachmentRuns,
     HolderJoins, Served, Registered
<1>7. ASSUME NEW w \in Workers, FrameFails(w) PROVE FencesEnd' /\ AttachmentRuns' /\ HolderJoins'
  BY <1>7 DEF FrameFails, Goto, LockFree, LiveInv, TypeOK, FencesEnd, AttachmentRuns,
     HolderJoins, Served, Registered
<1>8. ASSUME NEW w \in Workers, NEW t \in Workers, CancelFrame(w, t)
      PROVE  FencesEnd' /\ AttachmentRuns' /\ HolderJoins'
  BY <1>8 DEF CancelFrame, Goto, LockFree, LiveInv, TypeOK, FencesEnd, AttachmentRuns,
     HolderJoins, Served, Registered
<1>9. ASSUME NEW w \in Workers, CancelJoined(w)
      PROVE  FencesEnd' /\ AttachmentRuns' /\ HolderJoins'
  BY <1>9 DEF CancelJoined, JoinDone, Unlock, Goto, LiveInv, TypeOK, FencesEnd,
     AttachmentRuns, HolderJoins, Served, Registered
<1>10. ASSUME NEW w \in Workers, Execute(w) PROVE FencesEnd' /\ AttachmentRuns' /\ HolderJoins'
  BY <1>10 DEF Execute, Release, Goto, LiveInv, TypeOK, FencesEnd, AttachmentRuns,
     HolderJoins, Served, Registered
<1>11. ASSUME NEW w \in Workers, ExecutePanics(w)
       PROVE  FencesEnd' /\ AttachmentRuns' /\ HolderJoins'
  BY <1>11 DEF ExecutePanics, Release, Goto, LiveInv, TypeOK, FencesEnd, AttachmentRuns,
     HolderJoins, Served, Registered
<1>12. ASSUME NEW w \in Workers, CompleteApplication(w)
       PROVE  FencesEnd' /\ AttachmentRuns' /\ HolderJoins'
  BY <1>12 DEF CompleteApplication, Goto, LockFree, LiveInv, TypeOK, FencesEnd,
     AttachmentRuns, HolderJoins, Served, Registered
<1>13. ASSUME NEW w \in Workers, CloseFrame(w) PROVE FencesEnd' /\ AttachmentRuns' /\ HolderJoins'
  BY <1>13 DEF CloseFrame, Detach, Goto, Retire, LockFree, LiveInv, TypeOK, FencesEnd,
     AttachmentRuns, HolderJoins, Served, Registered
<1>14. ASSUME NEW w \in Workers, StopServing(w)
       PROVE  FencesEnd' /\ AttachmentRuns' /\ HolderJoins'
  BY <1>14 DEF StopServing, Goto, LiveInv, TypeOK, FencesEnd, AttachmentRuns, HolderJoins,
     Served, Registered
<1>15. ASSUME NEW w \in Workers, Unregister(w) PROVE FencesEnd' /\ AttachmentRuns' /\ HolderJoins'
  BY <1>15 DEF Unregister, Goto, LiveInv, TypeOK, FencesEnd, AttachmentRuns, HolderJoins,
     Served, Registered
<1>16. ASSUME NEW w \in Workers, CloseAttachment(w)
       PROVE  FencesEnd' /\ AttachmentRuns' /\ HolderJoins'
  BY <1>16 DEF CloseAttachment, Detach, Goto, LockFree, LiveInv, TypeOK, FencesEnd,
     AttachmentRuns, HolderJoins, Served, Registered
<1>17. ASSUME NEW d \in Deleters, DeleteBegin(d)
       PROVE  FencesEnd' /\ AttachmentRuns' /\ HolderJoins'
  BY <1>17 DEF DeleteBegin, Drain, Unattended, LockFree, LiveInv, TypeOK, FencesEnd,
     AttachmentRuns, HolderJoins, Served, Registered
<1>18. ASSUME NEW d \in Deleters, DeleteAgain(d)
       PROVE  FencesEnd' /\ AttachmentRuns' /\ HolderJoins'
  BY <1>18 DEF DeleteAgain, LockFree, LiveInv, TypeOK, FencesEnd, AttachmentRuns, HolderJoins,
     Served, Registered
<1>19. ASSUME NEW d \in Deleters, DeleteEnds(d)
       PROVE  FencesEnd' /\ AttachmentRuns' /\ HolderJoins'
  BY <1>19 DEF DeleteEnds, Drained, JoinDone, Unlock, Retire, LiveInv, TypeOK, FencesEnd,
     AttachmentRuns, HolderJoins, Served, Registered
<1>20. ASSUME NEW d \in Deleters, DeleteAnswers(d)
       PROVE  FencesEnd' /\ AttachmentRuns' /\ HolderJoins'
  BY <1>20 DEF DeleteAnswers, LiveInv, TypeOK, FencesEnd, AttachmentRuns, HolderJoins, Served,
     Registered
<1>21. CASE Tick
  BY <1>21 DEF Tick, LiveInv, TypeOK, FencesEnd, AttachmentRuns, HolderJoins, Served, Registered
<1>22. CASE Resume
  BY <1>22 DEF Resume, Admissible, Retire, LockFree, LiveInv, TypeOK, FencesEnd,
     AttachmentRuns, HolderJoins, Served, Registered
<1>23. CASE Park
  BY <1>23 DEF Park, LiveInv, TypeOK, FencesEnd, AttachmentRuns, HolderJoins, Served, Registered
<1>24. CASE SweepBegin
  BY <1>24 DEF SweepBegin, Drain, LockFree, LiveInv, TypeOK, FencesEnd, AttachmentRuns,
     HolderJoins, Served, Registered
<1>25. CASE SweepEnds
  BY <1>25 DEF SweepEnds, Drained, JoinDone, Unlock, LiveInv, TypeOK, FencesEnd,
     AttachmentRuns, HolderJoins, Served, Registered
<1>26. CASE UNCHANGED vars
  BY <1>26 DEF vars, LiveInv, TypeOK, FencesEnd, AttachmentRuns, HolderJoins, Served, Registered
<1> QED BY <1>1, <1>2, <1>3, <1>4, <1>5, <1>6, <1>7, <1>8, <1>9, <1>10, <1>11, <1>12, <1>13,
     <1>14, <1>15, <1>16, <1>17, <1>18, <1>19, <1>20, <1>21, <1>22, <1>23, <1>24, <1>25, <1>26
     DEF Next, WorkerStep, DeleteStep

(* The mutex is kept from the start of a drain to its end. *)
LEMMA NextQuiet == LiveInv /\ [Next]_vars => DrainIsClosed' /\ EndedSessionIsQuiet'
<1> SUFFICES ASSUME LiveInv, [Next]_vars PROVE DrainIsClosed' /\ EndedSessionIsQuiet'
  OBVIOUS
<1> USE DEF sessionVars, workVars, mutexVars, workerVars, deleteVars
<1>1. ASSUME NEW w \in Workers, Register(w) PROVE DrainIsClosed' /\ EndedSessionIsQuiet'
  BY <1>1 DEF Register, Goto, LiveInv, TypeOK, DrainIsClosed, EndedSessionIsQuiet
<1>2. ASSUME NEW w \in Workers, AttachBegin(w) PROVE DrainIsClosed' /\ EndedSessionIsQuiet'
  BY <1>2 DEF AttachBegin, Admissible, LockFree, LiveInv, TypeOK, DrainIsClosed,
     EndedSessionIsQuiet
<1>3. ASSUME NEW w \in Workers, DeliveryFails(w) PROVE DrainIsClosed' /\ EndedSessionIsQuiet'
  BY <1>3 DEF DeliveryFails, AbortAttach, Goto, Retire, LockFree, LiveInv, TypeOK,
     DrainIsClosed, EndedSessionIsQuiet
<1>4. ASSUME NEW w \in Workers, AttachCommit(w) PROVE DrainIsClosed' /\ EndedSessionIsQuiet'
  BY <1>4 DEF AttachCommit, AbortAttach, CommitAttach, Admissible, Goto, Retire, LockFree,
     LiveInv, TypeOK, DrainIsClosed, EndedSessionIsQuiet
<1>5. ASSUME NEW w \in Workers, FrameRefused(w) PROVE DrainIsClosed' /\ EndedSessionIsQuiet'
  BY <1>5 DEF FrameRefused, Goto, LockFree, LiveInv, TypeOK, DrainIsClosed, EndedSessionIsQuiet
<1>6. ASSUME NEW w \in Workers, FrameAdmitted(w) PROVE DrainIsClosed' /\ EndedSessionIsQuiet'
  BY <1>6 DEF FrameAdmitted, Goto, LockFree, LiveInv, TypeOK, DrainIsClosed, EndedSessionIsQuiet
<1>7. ASSUME NEW w \in Workers, FrameFails(w) PROVE DrainIsClosed' /\ EndedSessionIsQuiet'
  BY <1>7 DEF FrameFails, Goto, LockFree, LiveInv, TypeOK, DrainIsClosed, EndedSessionIsQuiet
<1>8. ASSUME NEW w \in Workers, NEW t \in Workers, CancelFrame(w, t)
      PROVE  DrainIsClosed' /\ EndedSessionIsQuiet'
  BY <1>8 DEF CancelFrame, Goto, LockFree, LiveInv, TypeOK, DrainIsClosed, EndedSessionIsQuiet
<1>9. ASSUME NEW w \in Workers, CancelJoined(w) PROVE DrainIsClosed' /\ EndedSessionIsQuiet'
  BY <1>9 DEF CancelJoined, JoinDone, Unlock, Goto, LiveInv, TypeOK, DrainIsClosed,
     EndedSessionIsQuiet
<1>10. ASSUME NEW w \in Workers, Execute(w) PROVE DrainIsClosed' /\ EndedSessionIsQuiet'
  BY <1>10 DEF Execute, Release, Goto, LiveInv, TypeOK, DrainIsClosed, EndedSessionIsQuiet
<1>11. ASSUME NEW w \in Workers, ExecutePanics(w) PROVE DrainIsClosed' /\ EndedSessionIsQuiet'
  BY <1>11 DEF ExecutePanics, Release, Goto, LiveInv, TypeOK, DrainIsClosed, EndedSessionIsQuiet
<1>12. ASSUME NEW w \in Workers, CompleteApplication(w)
       PROVE  DrainIsClosed' /\ EndedSessionIsQuiet'
  BY <1>12 DEF CompleteApplication, Goto, LockFree, LiveInv, TypeOK, DrainIsClosed,
     EndedSessionIsQuiet
<1>13. ASSUME NEW w \in Workers, CloseFrame(w) PROVE DrainIsClosed' /\ EndedSessionIsQuiet'
  BY <1>13 DEF CloseFrame, Detach, Goto, Retire, LockFree, LiveInv, TypeOK, DrainIsClosed,
     EndedSessionIsQuiet
<1>14. ASSUME NEW w \in Workers, StopServing(w) PROVE DrainIsClosed' /\ EndedSessionIsQuiet'
  BY <1>14 DEF StopServing, Goto, LiveInv, TypeOK, DrainIsClosed, EndedSessionIsQuiet
<1>15. ASSUME NEW w \in Workers, Unregister(w) PROVE DrainIsClosed' /\ EndedSessionIsQuiet'
  BY <1>15 DEF Unregister, Goto, LiveInv, TypeOK, DrainIsClosed, EndedSessionIsQuiet
<1>16. ASSUME NEW w \in Workers, CloseAttachment(w) PROVE DrainIsClosed' /\ EndedSessionIsQuiet'
  BY <1>16 DEF CloseAttachment, Detach, Goto, LockFree, LiveInv, TypeOK, DrainIsClosed,
     EndedSessionIsQuiet
<1>17. ASSUME NEW d \in Deleters, DeleteBegin(d) PROVE DrainIsClosed' /\ EndedSessionIsQuiet'
  BY <1>17 DEF DeleteBegin, Drain, Unattended, LockFree, LiveInv, TypeOK, DrainIsClosed,
     EndedSessionIsQuiet
<1>18. ASSUME NEW d \in Deleters, DeleteAgain(d) PROVE DrainIsClosed' /\ EndedSessionIsQuiet'
  BY <1>18 DEF DeleteAgain, LockFree, LiveInv, TypeOK, DrainIsClosed, EndedSessionIsQuiet
<1>19. ASSUME NEW d \in Deleters, DeleteEnds(d) PROVE DrainIsClosed' /\ EndedSessionIsQuiet'
  BY <1>19 DEF DeleteEnds, Drained, JoinDone, Unlock, Retire, LiveInv, TypeOK, DrainIsClosed,
     EndedSessionIsQuiet
<1>20. ASSUME NEW d \in Deleters, DeleteAnswers(d) PROVE DrainIsClosed' /\ EndedSessionIsQuiet'
  BY <1>20 DEF DeleteAnswers, LiveInv, TypeOK, DrainIsClosed, EndedSessionIsQuiet
<1>21. CASE Tick
  BY <1>21 DEF Tick, LiveInv, TypeOK, DrainIsClosed, EndedSessionIsQuiet
<1>22. CASE Resume
  BY <1>22 DEF Resume, Admissible, Retire, LockFree, LiveInv, TypeOK, DrainIsClosed,
     EndedSessionIsQuiet
<1>23. CASE Park
  BY <1>23 DEF Park, LiveInv, TypeOK, DrainIsClosed, EndedSessionIsQuiet
<1>24. CASE SweepBegin
  BY <1>24 DEF SweepBegin, Drain, LockFree, LiveInv, TypeOK, DrainIsClosed, EndedSessionIsQuiet
<1>25. CASE SweepEnds
  BY <1>25 DEF SweepEnds, Drained, JoinDone, Unlock, LiveInv, TypeOK, DrainIsClosed,
     EndedSessionIsQuiet
<1>26. CASE UNCHANGED vars
  BY <1>26 DEF vars, LiveInv, TypeOK, DrainIsClosed, EndedSessionIsQuiet
<1> QED BY <1>1, <1>2, <1>3, <1>4, <1>5, <1>6, <1>7, <1>8, <1>9, <1>10, <1>11, <1>12, <1>13,
     <1>14, <1>15, <1>16, <1>17, <1>18, <1>19, <1>20, <1>21, <1>22, <1>23, <1>24, <1>25, <1>26
     DEF Next, WorkerStep, DeleteStep

-----------------------------------------------------------------------------
(* The theorems.                                                           *)

(* Every step of the workers, the transport and the sweep keeps LiveInv. *)
THEOREM LiveInvariant == Spec => []LiveInv
<1>1. Init => LiveInv
  BY InitLiveInv
<1>2. LiveInv /\ [Next]_vars => LiveInv'
  BY NextTypeOK, NextFenced, NextRuns, NextQuiet DEF LiveInv
<1> QED BY <1>1, <1>2, PTL DEF Spec

(* 30-protocol, with_sessions_retiring: at most one socket acts for a      *)
(* session and is not fenced, and a fence never outlives its worker.       *)
THEOREM AtMostOneSocket == Spec => []OneSocket
<1>1. LiveInv => OneSocket
  BY DEF LiveInv, OneSocket, LockFree, Fenced, FencesEnd, AttachmentRuns
<1> QED BY <1>1, LiveInvariant, PTL

(* delete and expire: nothing of a session is left when it is gone. *)
THEOREM GoneIsQuiet == Spec => []EndedSessionIsQuiet
<1>1. LiveInv => EndedSessionIsQuiet
  BY DEF LiveInv
<1> QED BY <1>1, LiveInvariant, PTL
=============================================================================
