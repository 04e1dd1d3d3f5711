------------------------ MODULE RequestLedgerProofs ------------------------
(***************************************************************************)
(* The promises of the request ledger, for all owners, requests and bounds. *)
(*                                                                         *)
(* LedgerInv is the inductive invariant.  The fence is inductive with the  *)
(* types alone.  At most one execution needs the path of a request: it has *)
(* at most one ticket (OneTicket), no ticket before its row exists (Fresh), *)
(* and until the callback is invoked it has neither executed nor left any  *)
(* evidence (Unexecuted); the truth of what is retained needs that the     *)
(* controlled marker is never set for a request that reached outside.      *)
(***************************************************************************)
EXTENDS RequestLedger, TLAPS

USE NoneIsNoHost, BoundAssumption

(* A host that has taken the lease was followed by an owner. *)
LeaseIsOwned == \A h \in Hosts : home[h] # 0 => writer # None

(* Only one host ever gets a ticket for a request. *)
OneTicket ==
  \A h \in Hosts, g \in Hosts, r \in Requests :
    pc[h][r] # "idle" /\ pc[g][r] # "idle" => h = g

(* A request without a row has no ticket and no history. *)
Fresh ==
  \A r \in Requests : row[r].state = "Absent" =>
    /\ executed[r] = 0 /\ ~external[r] /\ row[r].effects = "none"
    /\ row[r].outcome # "rollback"
    /\ \A h \in Hosts : pc[h][r] = "idle"

(* Before its callback, a ticket has left no trace. *)
Unexecuted ==
  \A h \in Hosts, r \in Requests : pc[h][r] \in {"reserved", "begun", "admitted"} =>
    /\ executed[r] = 0 /\ ~external[r] /\ row[r].effects = "none"
    /\ row[r].outcome # "rollback"

(* A callback that reported a controlled transaction reached nothing else. *)
ControlledPlan ==
  \A h \in Hosts, r \in Requests :
    pc[h][r] = "executed" /\ plan[h][r] = "controlled" => ~external[r]

ControlledRow == \A r \in Requests : row[r].effects = "controlled" => ~external[r]

ClosedIsSettled ==
  deletion.state = "closed" => \A r \in Requests : row[r].state \notin {"Reserved", "Running"}

LedgerInv ==
  /\ TypeOK /\ LeaseIsOwned
  /\ FenceStands
  /\ OneTicket /\ Fresh /\ Unexecuted /\ ExecutedAtMostOnce
  /\ ControlledPlan /\ ControlledRow /\ OutcomeIsTrue
  /\ ClosedIsSettled

-----------------------------------------------------------------------------
(* What a step does to one ticket. *)
LEMMA GotoTicket ==
  ASSUME TypeOK, NEW h \in Hosts, NEW r \in Requests, NEW step \in Steps, Goto(h, r, step)
  PROVE  /\ pc' \in [Hosts -> [Requests -> Steps]]
         /\ \A g \in Hosts, q \in Requests :
              pc'[g][q] = IF g = h /\ q = r THEN step ELSE pc[g][q]
  BY DEF TypeOK, Goto

(* A finished ticket is dropped with its result; the others keep theirs. *)
LEMMA FinishTicket ==
  ASSUME TypeOK, NEW h \in Hosts, NEW r \in Requests, Finish(h, r)
  PROVE  /\ pc' \in [Hosts -> [Requests -> Steps]]
         /\ plan' \in [Hosts -> [Requests -> Plans]]
         /\ context' \in [Hosts -> [Requests -> 0..MaxGeneration]]
         /\ \A g \in Hosts, q \in Requests :
              /\ pc'[g][q] = IF g = h /\ q = r THEN "done" ELSE pc[g][q]
              /\ plan'[g][q] = plan[g][q] \/ pc'[g][q] = "done"
<1>1. "done" \in Steps /\ "value" \in Plans
  BY DEF Steps, Busy, Plans
<1>2. /\ pc' \in [Hosts -> [Requests -> Steps]]
      /\ \A g \in Hosts, q \in Requests :
           pc'[g][q] = IF g = h /\ q = r THEN "done" ELSE pc[g][q]
  BY <1>1, GotoTicket DEF Finish
<1>3. /\ plan' \in [Hosts -> [Requests -> Plans]]
      /\ \A g \in Hosts, q \in Requests :
           plan'[g][q] = IF g = h /\ q = r THEN "value" ELSE plan[g][q]
  BY <1>1 DEF Finish, TypeOK
<1>4. context' \in [Hosts -> [Requests -> 0..MaxGeneration]]
  BY BoundAssumption DEF Finish, TypeOK
<1> QED BY <1>2, <1>3, <1>4

(* A step that moves a ticket and keeps its result, or finishes it. *)
LEMMA MovedTypes ==
  ASSUME TypeOK, NEW h \in Hosts, NEW r \in Requests, NEW S \in SUBSET Steps,
         \/ Finish(h, r)
         \/ (\E step \in S : Goto(h, r, step)) /\ UNCHANGED <<plan, context>>
  PROVE  /\ pc' \in [Hosts -> [Requests -> Steps]]
         /\ plan' \in [Hosts -> [Requests -> Plans]]
         /\ context' \in [Hosts -> [Requests -> 0..MaxGeneration]]
<1>1. CASE Finish(h, r)
  BY <1>1, FinishTicket
<1>2. ASSUME NEW step \in S, Goto(h, r, step), UNCHANGED <<plan, context>>
      PROVE  /\ pc' \in [Hosts -> [Requests -> Steps]]
             /\ plan' \in [Hosts -> [Requests -> Plans]]
             /\ context' \in [Hosts -> [Requests -> 0..MaxGeneration]]
  BY <1>2, GotoTicket DEF TypeOK
<1> QED BY <1>1, <1>2

(* Every row a transaction writes is a row. *)
LEMMA RowTypes ==
  /\ \A s \in States, o \in {"none", "value", "failure", "uncertain", "rollback", "cancelled"} :
       Plain(s, o) \in Row
  /\ \A e \in Row : OrphanedRow(e) \in Row
  /\ \A h \in Hosts : Started(h) \in Row
  /\ \A e \in Row, x \in {"none", "controlled", "external"}, p \in BOOLEAN :
       WithEvidence(e, x, p) \in Row
  BY DEF Plain, Started, WithEvidence, OrphanedRow, RollbackProven, Row, States, Terminal

(* A terminal transition writes a row of its state and outcome, or nothing. *)
LEMMA SettleTypes ==
  ASSUME TypeOK, NEW h \in Hosts, NEW r \in Requests, NEW s \in Terminal,
         NEW o \in {"value", "failure", "uncertain", "cancelled"}, Settle(h, r, s, o)
  PROVE  row' \in [Requests -> Row] /\ fence' \in Hosts \cup {None}
<1>1. Plain(s, o) \in Row
  BY RowTypes DEF States
<1> QED BY <1>1 DEF TypeOK, Settle

-----------------------------------------------------------------------------
(* Type correctness.                                                       *)

(* An empty ledger. *)
LEMMA InitLedgerInv == Init => LedgerInv
<1> SUFFICES ASSUME Init PROVE LedgerInv
  OBVIOUS
<1>1. TypeOK
  <2>1. Plain("Absent", "none") \in Row
    BY RowTypes DEF States
  <2> QED BY <2>1 DEF Init, TypeOK, Steps, Plans
<1>2. LeaseIsOwned /\ FenceStands /\ OneTicket /\ Fresh /\ Unexecuted /\ ExecutedAtMostOnce
  BY DEF Init, LeaseIsOwned, FenceStands, Running, OneTicket, Fresh, Unexecuted,
     ExecutedAtMostOnce, Plain
<1>3. ControlledPlan /\ ControlledRow /\ OutcomeIsTrue /\ ClosedIsSettled
  BY DEF Init, ControlledPlan, ControlledRow, OutcomeIsTrue, ClosedIsSettled, Plain
<1> QED BY <1>1, <1>2, <1>3 DEF LedgerInv

(* Every transaction keeps the types. *)
LEMMA NextTypeOK == TypeOK /\ LeaseIsOwned /\ [Next]_vars => TypeOK'
<1> SUFFICES ASSUME TypeOK, LeaseIsOwned, [Next]_vars PROVE TypeOK'
  OBVIOUS
<1> USE DEF hostVars, ticketVars, history
<1>s. {"idle", "reserved", "begun", "admitted", "executed", "reported", "rolledBack",
       "refused", "failed", "done"} \subseteq Steps
  BY DEF Steps, Busy
<1>r. row \in [Requests -> Row]
  BY DEF TypeOK
<1>1. CASE Crash
  BY <1>1 DEF Crash, TypeOK, Steps, Plans
<1>2. ASSUME NEW h \in Hosts, AcquireLease(h) PROVE TypeOK'
  <2>1. \A r \in Requests : OrphanedRow(row[r]) \in Row
    BY <1>r, RowTypes
  <2> QED BY <1>2, <2>1 DEF AcquireLease, TypeOK
<1>3. ASSUME NEW h \in Hosts, TakeoverLease(h) PROVE TypeOK'
  BY <1>3 DEF TakeoverLease, TypeOK
<1>4. ASSUME NEW h \in Hosts, CompleteTakeoverRecovery(h) PROVE TypeOK'
  BY <1>4 DEF CompleteTakeoverRecovery, TypeOK
<1>5. ASSUME NEW h \in Hosts, BeginSessionDeletion(h) \/ FinishSessionDeletion(h) PROVE TypeOK'
  BY <1>5 DEF BeginSessionDeletion, FinishSessionDeletion, TypeOK
<1>6. ASSUME NEW h \in Hosts, OtherCommit(h) PROVE TypeOK'
  BY <1>6 DEF OtherCommit, TypeOK
<1>7. ASSUME NEW h \in Hosts, NEW r \in Requests, RecoverRequest(h, r) PROVE TypeOK'
  <2>1. OrphanedRow(row[r]) \in Row
    BY <1>r, RowTypes
  <2> QED BY <1>7, <2>1 DEF RecoverRequest, TypeOK
<1>8. ASSUME NEW h \in Hosts, NEW r \in Requests, ReserveRequest(h, r) PROVE TypeOK'
  <2>1. Plain("Reserved", "none") \in Row
    BY RowTypes DEF States
  <2>2. pc' \in [Hosts -> [Requests -> Steps]]
    BY <1>8, <1>s, GotoTicket DEF ReserveRequest
  <2>3. <<writer, generation>> \in Hosts \X (0..MaxGeneration)
    BY <1>8 DEF ReserveRequest, Idle, Alive, LeaseIsOwned, TypeOK
  <2> QED BY <1>8, <2>1, <2>2, <2>3 DEF ReserveRequest, TypeOK
<1>9. ASSUME NEW h \in Hosts, NEW r \in Requests, BeginRequest(h, r) PROVE TypeOK'
  <2>1. Started(h) \in Row
    BY RowTypes
  <2>2. pc' \in [Hosts -> [Requests -> Steps]]
    BY <1>9, <1>s, GotoTicket DEF BeginRequest
  <2>3. row' \in [Requests -> Row]
    BY <1>9, <2>1, <1>r DEF BeginRequest
  <2>4. /\ admission' \in [Requests -> {None} \cup (Hosts \X (0..MaxGeneration))]
        /\ fence' \in Hosts \cup {None}
    BY <1>9 DEF BeginRequest, TypeOK
  <2> QED BY <1>9, <2>2, <2>3, <2>4 DEF BeginRequest, TypeOK
<1>10. ASSUME NEW h \in Hosts, NEW r \in Requests, AdmitWork(h, r) PROVE TypeOK'
  <2>1. pc' \in [Hosts -> [Requests -> Steps]]
    BY <1>10, <1>s, GotoTicket DEF AdmitWork
  <2>2. context' \in [Hosts -> [Requests -> 0..MaxGeneration]]
    <3>1. CASE context' = context
      BY <3>1 DEF TypeOK
    <3>2. CASE context' = [context EXCEPT ![h][r] = generation]
      BY <3>2 DEF TypeOK
    <3> QED BY <1>10, <3>1, <3>2 DEF AdmitWork
  <2> QED BY <1>10, <2>1, <2>2 DEF AdmitWork, TypeOK
<1>11. ASSUME NEW h \in Hosts, NEW r \in Requests, NEW p \in Plans, Execute(h, r, p) PROVE TypeOK'
  <2>1. pc' \in [Hosts -> [Requests -> Steps]]
    BY <1>11, <1>s, GotoTicket DEF Execute
  <2>2. external' \in [Requests -> BOOLEAN]
    BY <1>11 DEF Execute, TypeOK
  <2>3. executed' \in [Requests -> Nat] /\ plan' \in [Hosts -> [Requests -> Plans]]
    BY <1>11 DEF Execute, TypeOK
  <2> QED BY <1>11, <2>1, <2>2, <2>3 DEF Execute, TypeOK
<1>12. ASSUME NEW h \in Hosts, NEW r \in Requests, RejectTicket(h, r) PROVE TypeOK'
  <2>1. pc' \in [Hosts -> [Requests -> Steps]]
    BY <1>12, <1>s, GotoTicket DEF RejectTicket
  <2> QED BY <1>12, <2>1 DEF RejectTicket, TypeOK, Plans
<1>13. ASSUME NEW h \in Hosts, NEW r \in Requests, Complete(h, r) PROVE TypeOK'
  <2>1. /\ pc' \in [Hosts -> [Requests -> Steps]] /\ plan' \in [Hosts -> [Requests -> Plans]]
        /\ context' \in [Hosts -> [Requests -> 0..MaxGeneration]]
    BY <1>13, FinishTicket DEF Complete
  <2>2. row' \in [Requests -> Row] /\ fence' \in Hosts \cup {None}
    BY <1>13, SettleTypes DEF Complete, Terminal
  <2> QED BY <1>13, <2>1, <2>2 DEF Complete, TypeOK
<1>14. ASSUME NEW h \in Hosts, NEW r \in Requests, ReportEffects(h, r) PROVE TypeOK'
  <2>1. /\ pc' \in [Hosts -> [Requests -> Steps]] /\ plan' \in [Hosts -> [Requests -> Plans]]
        /\ context' \in [Hosts -> [Requests -> 0..MaxGeneration]]
    <3>1. \/ Finish(h, r)
          \/ (\E step \in {"reported", "failed"} : Goto(h, r, step)) /\ UNCHANGED <<plan, context>>
      BY <1>14 DEF ReportEffects
    <3> QED BY <3>1, <1>s, MovedTypes
  <2>2. WithEvidence(row[r], plan[h][r], FALSE) \in Row
    BY <1>14, <1>r, RowTypes DEF ReportEffects
  <2>3. row' \in [Requests -> Row]
    BY <1>14, <2>2, <1>r DEF ReportEffects
  <2>4. fence' \in Hosts \cup {None}
    BY <1>14 DEF ReportEffects, TypeOK
  <2> QED BY <1>14, <2>1, <2>3, <2>4 DEF ReportEffects, TypeOK
<1>15. ASSUME NEW h \in Hosts, NEW r \in Requests, CommitActivation(h, r) PROVE TypeOK'
  <2>1. /\ pc' \in [Hosts -> [Requests -> Steps]] /\ plan' \in [Hosts -> [Requests -> Plans]]
        /\ context' \in [Hosts -> [Requests -> 0..MaxGeneration]]
    <3>1. \/ Finish(h, r)
          \/ (\E step \in {"failed", "refused", "rolledBack"} : Goto(h, r, step)) /\ UNCHANGED <<plan, context>>
      BY <1>15 DEF CommitActivation
    <3> QED BY <3>1, <1>s, MovedTypes
  <2>2. Plain("Completed", "value") \in Row
    BY RowTypes DEF States, Terminal
  <2> QED BY <1>15, <2>1, <2>2 DEF CommitActivation, TypeOK
<1>16. ASSUME NEW h \in Hosts, NEW r \in Requests, AbandonCommit(h, r) PROVE TypeOK'
  <2>1. /\ pc' \in [Hosts -> [Requests -> Steps]] /\ plan' \in [Hosts -> [Requests -> Plans]]
        /\ context' \in [Hosts -> [Requests -> 0..MaxGeneration]]
    <3>1. \/ Finish(h, r)
          \/ (\E step \in {"failed", "refused", "rolledBack"} : Goto(h, r, step)) /\ UNCHANGED <<plan, context>>
      BY <1>16 DEF AbandonCommit
    <3> QED BY <3>1, <1>s, MovedTypes
  <2> QED BY <1>16, <2>1 DEF AbandonCommit, TypeOK
<1>17. ASSUME NEW h \in Hosts, NEW r \in Requests, RecordRollbackProof(h, r) PROVE TypeOK'
  <2>1. pc' \in [Hosts -> [Requests -> Steps]]
    BY <1>17, <1>s, GotoTicket DEF RecordRollbackProof
  <2>2. WithEvidence(row[r], "controlled", TRUE) \in Row
    BY <1>r, RowTypes
  <2>3. row' \in [Requests -> Row]
    BY <1>17, <2>2, <1>r DEF RecordRollbackProof
  <2>4. fence' \in Hosts \cup {None}
    BY <1>17 DEF RecordRollbackProof, TypeOK
  <2> QED BY <1>17, <2>1, <2>3, <2>4 DEF RecordRollbackProof, TypeOK
<1>18. ASSUME NEW h \in Hosts, NEW r \in Requests, RetainRefusal(h, r) \/ RetainFailedCommit(h, r)
      PROVE  TypeOK'
  <2>1. /\ pc' \in [Hosts -> [Requests -> Steps]] /\ plan' \in [Hosts -> [Requests -> Plans]]
        /\ context' \in [Hosts -> [Requests -> 0..MaxGeneration]]
    BY <1>18, FinishTicket DEF RetainRefusal, RetainFailedCommit
  <2>2. row' \in [Requests -> Row] /\ fence' \in Hosts \cup {None}
    BY <1>18, SettleTypes DEF RetainRefusal, RetainFailedCommit, Terminal
  <2> QED BY <1>18, <2>1, <2>2 DEF RetainRefusal, RetainFailedCommit, TypeOK
<1>19. ASSUME NEW h \in Hosts, NEW r \in Requests, CancelTarget(h, r) PROVE TypeOK'
  <2>1. row' \in [Requests -> Row] /\ fence' \in Hosts \cup {None}
    BY <1>19, SettleTypes DEF CancelTarget, Terminal
  <2> QED BY <1>19, <2>1 DEF CancelTarget, TypeOK
<1>20. ASSUME NEW h \in Hosts, NEW r \in Requests, CancelForDeletion(h, r) PROVE TypeOK'
  <2>1. Plain("Cancelled", "cancelled") \in Row
    BY RowTypes DEF States, Terminal
  <2> QED BY <1>20, <2>1 DEF CancelForDeletion, TypeOK
<1>21. CASE UNCHANGED vars
  BY <1>21 DEF vars, TypeOK
<1> QED
  BY <1>1, <1>2, <1>3, <1>4, <1>5, <1>6, <1>7, <1>8, <1>9, <1>10, <1>11, <1>12, <1>13, <1>14,
     <1>15, <1>16, <1>17, <1>18, <1>19, <1>20, <1>21 DEF Next, HostStep, RequestStep

-----------------------------------------------------------------------------
(* The fence.                                                              *)

(* Whoever passes RequireOwner owns every Running request. *)
LEMMA OwnerOwnsRunning ==
  ASSUME TypeOK, FenceStands, NEW h \in Hosts, RequireOwner(h)
  PROVE  \A r \in Running : row[r].owner = writer
  BY DEF TypeOK, FenceStands, RequireOwner, BarrierClear, Running

(* Such a transaction may remove the fence as long as it starts nothing for *)
(* another owner.                                                          *)
LEMMA OwnerMayUnfence ==
  ASSUME TypeOK, FenceStands, NEW h \in Hosts, RequireOwner(h), writer' = writer,
         \A r \in Requests : row'[r].state = "Running" =>
            \/ row[r].state = "Running" /\ row'[r].owner = row[r].owner
            \/ row'[r].owner = h
  PROVE  FenceStands'
<1>1. writer = h
  BY DEF RequireOwner
<1>2. \A r \in Requests : row[r].state = "Running" => row[r].owner = writer
  BY OwnerOwnsRunning DEF Running
<1> QED BY <1>1, <1>2 DEF FenceStands, Running

(* Settling a row leaves the fence standing over the rows that need it. *)
LEMMA SettleFence ==
  ASSUME TypeOK, FenceStands, NEW h \in Hosts, NEW r \in Requests, NEW s \in Terminal, NEW o,
         Settle(h, r, s, o), writer' = writer
  PROVE  FenceStands'
<1>1. CASE RequireOwner(h) /\ RunningAs(r, h)
  <2>1. \A q \in Requests : row'[q] = IF q = r THEN Plain(s, o) ELSE row[q]
    BY <1>1 DEF Settle, TypeOK
  <2>2. Plain(s, o).state # "Running"
    BY DEF Plain, Terminal
  <2> QED BY <1>1, <2>1, <2>2, OwnerMayUnfence
<1>2. CASE ~(RequireOwner(h) /\ RunningAs(r, h))
  BY <1>2 DEF Settle, FenceStands, Running
<1> QED BY <1>1, <1>2

(* No transaction drops the fence over a Running row of an earlier lease. *)
LEMMA NextFence == TypeOK /\ FenceStands /\ [Next]_vars => FenceStands'
<1> SUFFICES ASSUME TypeOK, FenceStands, [Next]_vars PROVE FenceStands'
  OBVIOUS
<1> USE DEF hostVars, ticketVars, history
<1>1. CASE Crash
  BY <1>1 DEF Crash, FenceStands, Running
<1>2. ASSUME NEW h \in Hosts, AcquireLease(h) PROVE FenceStands'
  <2>1. \A r \in Requests : row'[r].state # "Running"
    BY <1>2 DEF AcquireLease, Running, OrphanedRow
  <2> QED BY <2>1 DEF FenceStands, Running
<1>3. ASSUME NEW h \in Hosts, TakeoverLease(h) PROVE FenceStands'
  BY <1>3 DEF TakeoverLease, FenceStands, Running
<1>4. ASSUME NEW h \in Hosts, CompleteTakeoverRecovery(h) PROVE FenceStands'
  BY <1>4 DEF CompleteTakeoverRecovery, BarrierClear, FenceStands, Running
<1>5. ASSUME NEW h \in Hosts,
             BeginSessionDeletion(h) \/ FinishSessionDeletion(h) \/ OtherCommit(h)
      PROVE FenceStands'
  <2>1. RequireOwner(h) /\ writer' = writer /\ row' = row
    BY <1>5 DEF BeginSessionDeletion, FinishSessionDeletion, OtherCommit
  <2> QED BY <2>1, OwnerMayUnfence
<1>6. ASSUME NEW h \in Hosts, NEW r \in Requests, RecoverRequest(h, r) PROVE FenceStands'
  <2>1. \A q \in Requests : row'[q] = IF q = r THEN OrphanedRow(row[r]) ELSE row[q]
    BY <1>6 DEF RecoverRequest, TypeOK
  <2>2. OrphanedRow(row[r]).state # "Running"
    BY DEF OrphanedRow
  <2> QED BY <1>6, <2>1, <2>2 DEF RecoverRequest, FenceStands, Running
<1>7. ASSUME NEW h \in Hosts, NEW r \in Requests, ReserveRequest(h, r) PROVE FenceStands'
  <2>1. \A q \in Requests : row'[q] = IF q = r THEN Plain("Reserved", "none") ELSE row[q]
    BY <1>7 DEF ReserveRequest, TypeOK
  <2> QED BY <1>7, <2>1 DEF ReserveRequest, FenceStands, Running, Plain
<1>8. ASSUME NEW h \in Hosts, NEW r \in Requests, BeginRequest(h, r) PROVE FenceStands'
  <2>1. CASE row' = row /\ fence' = fence
    BY <1>8, <2>1 DEF BeginRequest, FenceStands, Running
  <2>2. CASE RequireOwner(h) /\ row' = [row EXCEPT ![r] = Started(h)]
    <3>1. \A q \in Requests : row'[q] = IF q = r THEN Started(h) ELSE row[q]
      BY <2>2 DEF TypeOK
    <3>2. Started(h).owner = h
      BY DEF Started
    <3> QED BY <1>8, <2>2, <3>1, <3>2, OwnerMayUnfence DEF BeginRequest
  <2> QED BY <1>8, <2>1, <2>2 DEF BeginRequest
<1>9. ASSUME NEW h \in Hosts, NEW r \in Requests,
             \/ AdmitWork(h, r) \/ \E p \in Plans : Execute(h, r, p)
             \/ RejectTicket(h, r) \/ AbandonCommit(h, r)
      PROVE FenceStands'
  <2>1. row' = row /\ fence' = fence /\ writer' = writer
    BY <1>9 DEF AdmitWork, Execute, RejectTicket, AbandonCommit
  <2> QED BY <2>1 DEF FenceStands, Running
<1>10. ASSUME NEW h \in Hosts, NEW r \in Requests, Complete(h, r) PROVE FenceStands'
  BY <1>10, SettleFence DEF Complete, Terminal
<1>11. ASSUME NEW h \in Hosts, NEW r \in Requests, ReportEffects(h, r) PROVE FenceStands'
  <2>1. CASE row' = row /\ fence' = fence
    BY <1>11, <2>1 DEF ReportEffects, FenceStands, Running
  <2>2. CASE RequireOwner(h) /\ RunningAs(r, h)
             /\ row' = [row EXCEPT ![r] = WithEvidence(@, plan[h][r], FALSE)]
    <3>1. \A q \in Requests :
            row'[q] = IF q = r THEN WithEvidence(row[r], plan[h][r], FALSE) ELSE row[q]
      BY <2>2 DEF TypeOK
    <3>2. WithEvidence(row[r], plan[h][r], FALSE).owner = h
      BY <2>2 DEF WithEvidence, RunningAs
    <3> QED BY <1>11, <2>2, <3>1, <3>2, OwnerMayUnfence DEF ReportEffects
  <2> QED BY <1>11, <2>1, <2>2 DEF ReportEffects
<1>12. ASSUME NEW h \in Hosts, NEW r \in Requests, CommitActivation(h, r) PROVE FenceStands'
  <2>1. \A q \in Requests : row'[q] = IF q = r THEN Plain("Completed", "value") ELSE row[q]
    BY <1>12 DEF CommitActivation, TypeOK
  <2>2. Plain("Completed", "value").state # "Running"
    BY DEF Plain
  <2> QED BY <1>12, <2>1, <2>2, OwnerMayUnfence DEF CommitActivation, MayCommit
<1>13. ASSUME NEW h \in Hosts, NEW r \in Requests, RecordRollbackProof(h, r) PROVE FenceStands'
  <2>1. CASE row' = row /\ fence' = fence
    BY <1>13, <2>1 DEF RecordRollbackProof, FenceStands, Running
  <2>2. CASE RequireOwner(h) /\ RunningAs(r, h)
             /\ row' = [row EXCEPT ![r] = WithEvidence(@, "controlled", TRUE)]
    <3>1. \A q \in Requests :
            row'[q] = IF q = r THEN WithEvidence(row[r], "controlled", TRUE) ELSE row[q]
      BY <2>2 DEF TypeOK
    <3>2. WithEvidence(row[r], "controlled", TRUE).owner = h
      BY <2>2 DEF WithEvidence, RunningAs
    <3>3. writer' = writer
      BY <1>13 DEF RecordRollbackProof
    <3>4. RequireOwner(h)
      BY <2>2
    <3>5. \A q \in Requests : row'[q].state = "Running" =>
            \/ row[q].state = "Running" /\ row'[q].owner = row[q].owner
            \/ row'[q].owner = h
      BY <3>1, <3>2
    <3> QED BY <3>3, <3>4, <3>5, OwnerMayUnfence
  <2> QED BY <1>13, <2>1, <2>2 DEF RecordRollbackProof
<1>14. ASSUME NEW h \in Hosts, NEW r \in Requests, RetainRefusal(h, r) \/ RetainFailedCommit(h, r)
      PROVE  FenceStands'
  BY <1>14, SettleFence DEF RetainRefusal, RetainFailedCommit, Terminal
<1>15. ASSUME NEW h \in Hosts, NEW r \in Requests, CancelTarget(h, r) PROVE FenceStands'
  BY <1>15, SettleFence DEF CancelTarget, Terminal
<1>16. ASSUME NEW h \in Hosts, NEW r \in Requests, CancelForDeletion(h, r) PROVE FenceStands'
  <2>1. \A q \in Requests : row'[q] = IF q = r THEN Plain("Cancelled", "cancelled") ELSE row[q]
    BY <1>16 DEF CancelForDeletion, TypeOK
  <2>2. Plain("Cancelled", "cancelled").state # "Running"
    BY DEF Plain
  <2> QED BY <1>16, <2>1, <2>2, OwnerMayUnfence DEF CancelForDeletion
<1>17. CASE UNCHANGED vars
  BY <1>17 DEF vars, FenceStands, Running
<1> QED
  BY <1>1, <1>2, <1>3, <1>4, <1>5, <1>6, <1>7, <1>8, <1>9, <1>10, <1>11, <1>12, <1>13, <1>14,
     <1>15, <1>16, <1>17 DEF Next, HostStep, RequestStep

(* The lease never becomes free again. *)
LEMMA NextLease == TypeOK /\ LeaseIsOwned /\ [Next]_vars => LeaseIsOwned'
<1> SUFFICES ASSUME TypeOK, LeaseIsOwned, [Next]_vars PROVE LeaseIsOwned'
  OBVIOUS
<1> USE DEF hostVars
<1>1. ASSUME NEW h \in Hosts, AcquireLease(h) \/ TakeoverLease(h) PROVE LeaseIsOwned'
  BY <1>1 DEF AcquireLease, TakeoverLease, LeaseIsOwned, TypeOK
<1>2. CASE home' = home /\ writer' = writer
  BY <1>2 DEF LeaseIsOwned
<1>3. CASE Crash
  BY <1>2, <1>3 DEF Crash
<1>4. ASSUME NEW h \in Hosts, HostStep(h) PROVE LeaseIsOwned'
  BY <1>1, <1>2, <1>4
     DEF HostStep, CompleteTakeoverRecovery, BeginSessionDeletion, FinishSessionDeletion,
         OtherCommit
<1>5. ASSUME NEW h \in Hosts, NEW r \in Requests, RequestStep(h, r) PROVE LeaseIsOwned'
  <2>1. home' = home /\ writer' = writer
    BY <1>5
       DEF RequestStep, RecoverRequest, ReserveRequest, BeginRequest, AdmitWork, Execute,
           RejectTicket, Complete, ReportEffects, CommitActivation, AbandonCommit,
           RecordRollbackProof, RetainRefusal, RetainFailedCommit, CancelTarget, CancelForDeletion
  <2> QED BY <2>1, <1>2
<1>6. CASE UNCHANGED vars
  BY <1>2, <1>6 DEF vars
<1> QED BY <1>3, <1>4, <1>5, <1>6 DEF Next

-----------------------------------------------------------------------------
(* What a step does to the row of a request.                               *)

RowStep(q) ==
  \/ row'[q] = row[q]
  \/ /\ row[q].state = "Absent" /\ SessionOpen
     /\ row'[q] = Plain("Reserved", "none")
  \/ /\ row[q].state = "Reserved" /\ SessionOpen
     /\ \E h \in Hosts : row'[q] = Started(h)
  \/ /\ row[q].state = "Running"
     /\ \E h \in Hosts, x \in {"controlled", "external"}, p \in BOOLEAN :
          /\ row'[q] = WithEvidence(row[q], x, p)
          /\ \/ pc[h][q] = "executed" /\ plan[h][q] = x
             \/ pc[h][q] = "rolledBack" /\ row[q].effects = x
  \/ row[q].state = "Running" /\ row'[q] = OrphanedRow(row[q])
  \/ /\ row[q].state \in {"Reserved", "Running"}
     /\ \E s \in {"Completed", "Cancelled"}, o \in {"value", "failure", "uncertain", "cancelled"} :
          row'[q] = Plain(s, o)

(* Settling a row is one of the changes a row may undergo. *)
LEMMA SettleRow ==
  ASSUME TypeOK, NEW h \in Hosts, NEW r \in Requests, NEW s \in {"Completed", "Cancelled"},
         NEW o \in {"value", "failure", "uncertain", "cancelled"}, Settle(h, r, s, o)
  PROVE  \A q \in Requests : RowStep(q)
<1>1. CASE RequireOwner(h) /\ RunningAs(r, h)
  <2>1. \A q \in Requests : row'[q] = IF q = r THEN Plain(s, o) ELSE row[q]
    BY <1>1 DEF Settle, TypeOK
  <2> QED BY <1>1, <2>1 DEF RunningAs, RowStep
<1>2. CASE ~(RequireOwner(h) /\ RunningAs(r, h))
  BY <1>2 DEF Settle, RowStep
<1> QED BY <1>1, <1>2

(* What one transaction can do to a row, whichever it is. *)
LEMMA NextRow == TypeOK /\ [Next]_vars => \A q \in Requests : RowStep(q)
<1> SUFFICES ASSUME TypeOK, [Next]_vars PROVE \A q \in Requests : RowStep(q)
  OBVIOUS
<1> USE DEF hostVars, ticketVars, history
<1>1. CASE row' = row
  BY <1>1 DEF RowStep
<1>2. ASSUME NEW h \in Hosts, HostStep(h) PROVE \A q \in Requests : RowStep(q)
  <2>1. CASE AcquireLease(h)
    <3>1. \A q \in Requests : row'[q] = IF q \in Running THEN OrphanedRow(row[q]) ELSE row[q]
      BY <2>1 DEF AcquireLease
    <3> QED BY <3>1 DEF RowStep, Running
  <2> QED
    BY <1>1, <1>2, <2>1
       DEF HostStep, TakeoverLease, CompleteTakeoverRecovery, BeginSessionDeletion,
           FinishSessionDeletion, OtherCommit
<1>3. ASSUME NEW h \in Hosts, NEW r \in Requests, RequestStep(h, r)
      PROVE \A q \in Requests : RowStep(q)
  <2>1. CASE RecoverRequest(h, r)
    <3>1. \A q \in Requests : row'[q] = IF q = r THEN OrphanedRow(row[r]) ELSE row[q]
      BY <2>1 DEF RecoverRequest, TypeOK
    <3> QED BY <2>1, <3>1 DEF RecoverRequest, RunningAs, RowStep
  <2>2. CASE ReserveRequest(h, r)
    <3>1. \A q \in Requests : row'[q] = IF q = r THEN Plain("Reserved", "none") ELSE row[q]
      BY <2>2 DEF ReserveRequest, TypeOK
    <3> QED BY <2>2, <3>1 DEF ReserveRequest, RowStep
  <2>3. CASE BeginRequest(h, r)
    <3>1. CASE /\ row[r].state = "Reserved" /\ SessionOpen
               /\ row' = [row EXCEPT ![r] = Started(h)]
      <4>1. \A q \in Requests : row'[q] = IF q = r THEN Started(h) ELSE row[q]
        BY <3>1 DEF TypeOK
      <4> QED BY <3>1, <4>1 DEF RowStep
    <3> QED BY <1>1, <2>3, <3>1 DEF BeginRequest
  <2>4. CASE Complete(h, r)
    BY <2>4, SettleRow DEF Complete
  <2>5. CASE ReportEffects(h, r)
    <3>1. CASE RunningAs(r, h) /\ row' = [row EXCEPT ![r] = WithEvidence(@, plan[h][r], FALSE)]
      <4>1. \A q \in Requests :
              row'[q] = IF q = r THEN WithEvidence(row[r], plan[h][r], FALSE) ELSE row[q]
        BY <3>1 DEF TypeOK
      <4>2. plan[h][r] \in {"controlled", "external"} /\ FALSE \in BOOLEAN
        BY <2>5 DEF ReportEffects
      <4>3. pc[h][r] = "executed"
        BY <2>5 DEF ReportEffects
      <4> QED BY <3>1, <4>1, <4>2, <4>3 DEF RowStep, RunningAs
    <3> QED BY <1>1, <2>5, <3>1 DEF ReportEffects
  <2>6. CASE CommitActivation(h, r)
    <3>1. \A q \in Requests : row'[q] = IF q = r THEN Plain("Completed", "value") ELSE row[q]
      BY <2>6 DEF CommitActivation, TypeOK
    <3> QED BY <2>6, <3>1 DEF CommitActivation, MayCommit, RunningAs, RowStep
  <2>7. CASE RecordRollbackProof(h, r)
    <3>1. CASE /\ RunningAs(r, h) /\ row[r].effects = "controlled" /\ pc[h][r] = "rolledBack"
               /\ row' = [row EXCEPT ![r] = WithEvidence(@, "controlled", TRUE)]
      <4>1. \A q \in Requests :
              row'[q] = IF q = r THEN WithEvidence(row[r], "controlled", TRUE) ELSE row[q]
        BY <3>1 DEF TypeOK
      <4> QED BY <3>1, <4>1 DEF RowStep, RunningAs
    <3> QED BY <1>1, <2>7, <3>1 DEF RecordRollbackProof
  <2>8. CASE RetainRefusal(h, r) \/ RetainFailedCommit(h, r)
    BY <2>8, SettleRow DEF RetainRefusal, RetainFailedCommit
  <2>9. CASE CancelTarget(h, r)
    BY <2>9, SettleRow DEF CancelTarget
  <2>10. CASE CancelForDeletion(h, r)
    <3>1. \A q \in Requests :
            row'[q] = IF q = r THEN Plain("Cancelled", "cancelled") ELSE row[q]
      BY <2>10 DEF CancelForDeletion, TypeOK
    <3> QED BY <2>10, <3>1 DEF CancelForDeletion, RunningAs, RowStep
  <2> QED
    BY <1>1, <1>3, <2>1, <2>2, <2>3, <2>4, <2>5, <2>6, <2>7, <2>8, <2>9, <2>10
       DEF RequestStep, AdmitWork, Execute, RejectTicket, AbandonCommit
<1>4. CASE Crash
  BY <1>1, <1>4 DEF Crash
<1>5. CASE UNCHANGED vars
  BY <1>1, <1>5 DEF vars
<1> QED BY <1>2, <1>3, <1>4, <1>5 DEF Next

(* Only a session deletion moves the deletion marker, and only commits apply *)
(* mutations.                                                              *)
LEMMA MarkerSteps ==
  ASSUME [Next]_vars
  PROVE  /\ \/ deletion' = deletion
            \/ \E h \in Hosts : BeginSessionDeletion(h) \/ FinishSessionDeletion(h)
         /\ \/ applied' = applied
            \/ \E h \in Hosts, r \in Requests : CommitActivation(h, r)
<1> USE DEF history
<1>1. ASSUME NEW h \in Hosts, HostStep(h)
      PROVE  /\ \/ deletion' = deletion \/ BeginSessionDeletion(h) \/ FinishSessionDeletion(h)
             /\ applied' = applied
  BY <1>1
     DEF HostStep, AcquireLease, TakeoverLease, CompleteTakeoverRecovery, BeginSessionDeletion,
         FinishSessionDeletion, OtherCommit
<1>2. ASSUME NEW h \in Hosts, NEW r \in Requests, RequestStep(h, r)
      PROVE  deletion' = deletion /\ (applied' = applied \/ CommitActivation(h, r))
  <2>1. CASE CommitActivation(h, r)
    BY <2>1 DEF CommitActivation
  <2> QED
    BY <1>2, <2>1
       DEF RequestStep, RecoverRequest, ReserveRequest, BeginRequest, AdmitWork, Execute,
           RejectTicket, Complete, ReportEffects, AbandonCommit, RecordRollbackProof,
           RetainRefusal, RetainFailedCommit, CancelTarget, CancelForDeletion
<1>3. Crash \/ UNCHANGED vars => deletion' = deletion /\ applied' = applied
  BY DEF Crash, vars
<1> QED BY <1>1, <1>2, <1>3 DEF Next

(* Rows of a closed session stay settled, and closing looks at all of them. *)
LEMMA NextClosed == TypeOK /\ ClosedIsSettled /\ [Next]_vars => ClosedIsSettled'
<1> SUFFICES ASSUME TypeOK, ClosedIsSettled, [Next]_vars, deletion'.state = "closed"
             PROVE  \A q \in Requests : row'[q].state \notin {"Reserved", "Running"}
  BY DEF ClosedIsSettled
<1>1. deletion.state = "closed" \/ \E h \in Hosts : FinishSessionDeletion(h)
  BY MarkerSteps DEF BeginSessionDeletion
<1>2. CASE deletion.state = "closed"
  BY <1>2, NextRow DEF RowStep, SessionOpen, ClosedIsSettled
<1>3. ASSUME NEW h \in Hosts, FinishSessionDeletion(h)
      PROVE  \A q \in Requests : row'[q].state \notin {"Reserved", "Running"}
  BY <1>3 DEF FinishSessionDeletion
<1> QED BY <1>1, <1>2, <1>3

-----------------------------------------------------------------------------
(* What a step does to the tickets and to the history of a request.        *)

Unstarted == {"reserved", "begun", "admitted"}

MovesTo(h, r, step) ==
  \A g \in Hosts, q \in Requests : pc'[g][q] = IF g = h /\ q = r THEN step ELSE pc[g][q]

(* A ticket comes from a fresh identity, moves on, or its callback returns. *)
NewTicket(h, r) ==
  /\ row[r].state = "Absent" /\ row'[r] = Plain("Reserved", "none")
  /\ MovesTo(h, r, "reserved")
  /\ UNCHANGED <<plan, executed, external>>

TicketMoves(h, r) ==
  /\ pc[h][r] # "idle"
  /\ \E step \in Steps \ {"executed"} :
       MovesTo(h, r, step) /\ (step \in Unstarted => pc[h][r] \in Unstarted)
  /\ \A g \in Hosts, q \in Requests : plan'[g][q] = plan[g][q] \/ pc'[g][q] = "done"
  /\ UNCHANGED <<executed, external>>

CallbackReturns(h, r) ==
  /\ pc[h][r] = "admitted" /\ MovesTo(h, r, "executed")
  /\ executed'[r] \in {executed[r], executed[r] + 1}
  /\ ~external[r] /\ plan'[h][r] = "controlled" => ~external'[r]
  /\ \A q \in Requests \ {r} :
       /\ executed'[q] = executed[q] /\ external'[q] = external[q]
       /\ \A g \in Hosts : plan'[g][q] = plan[g][q]

TicketStep ==
  \/ UNCHANGED <<pc, plan, executed, external>>
  \/ /\ \A h \in Hosts, r \in Requests : pc'[h][r] = "idle"
     /\ UNCHANGED <<executed, external>>
  \/ \E h \in Hosts, r \in Requests :
       NewTicket(h, r) \/ TicketMoves(h, r) \/ CallbackReturns(h, r)

(* What one step can do to the tickets and the history, whichever it is. *)
LEMMA NextTicket == TypeOK /\ [Next]_vars => TicketStep
<1> SUFFICES ASSUME TypeOK, [Next]_vars PROVE TicketStep
  OBVIOUS
<1> USE DEF ticketVars, history
<1>1. CASE UNCHANGED <<pc, plan, executed, external>>
  BY <1>1 DEF TicketStep
<1>2. CASE Crash
  BY <1>2 DEF Crash, TicketStep
<1>3. ASSUME NEW h \in Hosts, HostStep(h) PROVE TicketStep
  BY <1>1, <1>3
     DEF HostStep, AcquireLease, TakeoverLease, CompleteTakeoverRecovery, BeginSessionDeletion,
         FinishSessionDeletion, OtherCommit
<1>4. ASSUME NEW h \in Hosts, NEW r \in Requests, RequestStep(h, r) PROVE TicketStep
  <2>g. ASSUME NEW step \in Steps, Goto(h, r, step) PROVE MovesTo(h, r, step)
    BY <2>g, GotoTicket DEF MovesTo
  <2>m. ASSUME NEW step \in Steps \ {"executed"}, Goto(h, r, step), pc[h][r] # "idle",
               step \in Unstarted => pc[h][r] \in Unstarted,
               UNCHANGED <<plan, executed, external>>
        PROVE  TicketStep
    BY <2>m, <2>g DEF TicketStep, TicketMoves
  <2>f. ASSUME Finish(h, r), pc[h][r] # "idle", UNCHANGED <<executed, external>>
        PROVE  TicketStep
    <3>1. /\ MovesTo(h, r, "done")
          /\ \A g \in Hosts, q \in Requests : plan'[g][q] = plan[g][q] \/ pc'[g][q] = "done"
      BY <2>f, FinishTicket DEF MovesTo
    <3>2. "done" \in Steps \ {"executed"} /\ "done" \notin Unstarted
      BY DEF Steps, Busy, Unstarted
    <3> QED BY <2>f, <3>1, <3>2 DEF TicketStep, TicketMoves
  <2>s. {"idle", "begun", "admitted", "reported", "rolledBack", "refused", "failed", "done"}
          \subseteq Steps \ {"executed"} /\ {"reserved", "executed"} \subseteq Steps
    BY DEF Steps, Busy
  <2>1. CASE RecoverRequest(h, r) \/ CancelTarget(h, r) \/ CancelForDeletion(h, r)
    BY <1>1, <2>1 DEF RecoverRequest, CancelTarget, CancelForDeletion
  <2>2. CASE ReserveRequest(h, r)
    <3>1. row'[r] = Plain("Reserved", "none")
      BY <2>2 DEF ReserveRequest, TypeOK
    <3>2. MovesTo(h, r, "reserved")
      BY <2>2, <2>g, <2>s DEF ReserveRequest
    <3> QED BY <2>2, <3>1, <3>2 DEF ReserveRequest, NewTicket, TicketStep
  <2>3. CASE BeginRequest(h, r)
    BY <2>3, <2>m, <2>s DEF BeginRequest, Unstarted
  <2>4. CASE AdmitWork(h, r)
    BY <2>4, <2>m, <2>s DEF AdmitWork, Unstarted
  <2>5. ASSUME NEW p \in Plans, Execute(h, r, p) PROVE TicketStep
    <3>1. pc[h][r] = "admitted" /\ MovesTo(h, r, "executed")
      BY <2>5, <2>g, <2>s DEF Execute
    <3>2. /\ executed'[r] = executed[r] + 1
          /\ \A q \in Requests \ {r} : executed'[q] = executed[q]
      BY <2>5 DEF Execute, TypeOK
    <3>3. /\ plan'[h][r] = p
          /\ \A q \in Requests \ {r}, g \in Hosts : plan'[g][q] = plan[g][q]
      BY <2>5 DEF Execute, TypeOK
    <3>4. /\ ~external[r] /\ p = "controlled" => ~external'[r]
          /\ \A q \in Requests \ {r} : external'[q] = external[q]
      <4>1. PICK reached \in BOOLEAN :
              /\ reached => p \in {"failure", "external"}
              /\ external' = [external EXCEPT ![r] = @ \/ reached]
        BY <2>5 DEF Execute
      <4> QED BY <4>1 DEF TypeOK
    <3> QED BY <3>1, <3>2, <3>3, <3>4 DEF CallbackReturns, TicketStep
  <2>6. CASE RejectTicket(h, r)
    <3>1. pc[h][r] = "admitted" /\ MovesTo(h, r, "executed")
      BY <2>6, <2>g, <2>s DEF RejectTicket
    <3>2. /\ plan'[h][r] = "failure" /\ UNCHANGED <<executed, external>>
          /\ \A q \in Requests \ {r}, g \in Hosts : plan'[g][q] = plan[g][q]
      BY <2>6 DEF RejectTicket, TypeOK
    <3> QED BY <3>1, <3>2 DEF CallbackReturns, TicketStep
  <2>7. CASE Complete(h, r)
    BY <2>7, <2>f DEF Complete
  <2>8. CASE ReportEffects(h, r)
    <3>1. /\ pc[h][r] = "executed" /\ UNCHANGED <<executed, external>>
          /\ \/ Finish(h, r)
             \/ /\ \E step \in {"reported", "failed"} : Goto(h, r, step)
                /\ plan' = plan
      BY <2>8 DEF ReportEffects
    <3> QED BY <3>1, <2>f, <2>m, <2>s DEF Unstarted
  <2>9. CASE CommitActivation(h, r)
    <3>1. /\ pc[h][r] = "reported" /\ UNCHANGED <<executed, external>>
          /\ \/ Finish(h, r)
             \/ /\ \E step \in {"rolledBack", "refused", "failed"} : Goto(h, r, step)
                /\ plan' = plan
      BY <2>9 DEF CommitActivation
    <3> QED BY <3>1, <2>f, <2>m, <2>s DEF Unstarted
  <2>10. CASE AbandonCommit(h, r)
    <3>1. /\ pc[h][r] = "reported" /\ UNCHANGED <<executed, external>>
          /\ \/ Finish(h, r)
             \/ /\ \E step \in {"rolledBack", "refused", "failed"} : Goto(h, r, step)
                /\ plan' = plan
      BY <2>10 DEF AbandonCommit
    <3> QED BY <3>1, <2>f, <2>m, <2>s DEF Unstarted
  <2>11. CASE RecordRollbackProof(h, r)
    BY <2>11, <2>m, <2>s DEF RecordRollbackProof, Unstarted
  <2>12. CASE RetainRefusal(h, r) \/ RetainFailedCommit(h, r)
    BY <2>12, <2>f DEF RetainRefusal, RetainFailedCommit
  <2> QED BY <1>4, <2>1, <2>2, <2>3, <2>4, <2>5, <2>6, <2>7, <2>8, <2>9, <2>10, <2>11, <2>12
        DEF RequestStep
<1>5. CASE UNCHANGED vars
  BY <1>1, <1>5 DEF vars
<1> QED BY <1>2, <1>3, <1>4, <1>5 DEF Next

-----------------------------------------------------------------------------
(* One ticket, one execution.                                              *)

(* A second host never gets a ticket for a request. *)
LEMMA NextOneTicket ==
  ASSUME OneTicket, Fresh, TicketStep
  PROVE  OneTicket'
<1>1. ASSUME NEW h \in Hosts, NEW r \in Requests, NewTicket(h, r) PROVE OneTicket'
  BY <1>1 DEF NewTicket, MovesTo, OneTicket, Fresh
<1>2. ASSUME NEW h \in Hosts, NEW r \in Requests, TicketMoves(h, r) PROVE OneTicket'
  BY <1>2 DEF TicketMoves, MovesTo, OneTicket
<1>3. ASSUME NEW h \in Hosts, NEW r \in Requests, CallbackReturns(h, r) PROVE OneTicket'
  BY <1>3 DEF CallbackReturns, MovesTo, OneTicket
<1>4. CASE UNCHANGED <<pc, plan, executed, external>>
  BY <1>4 DEF OneTicket
<1>5. CASE \A h \in Hosts, r \in Requests : pc'[h][r] = "idle"
  BY <1>5 DEF OneTicket
<1> QED BY <1>1, <1>2, <1>3, <1>4, <1>5 DEF TicketStep

(* The histories of a request change only when the callback of its ticket  *)
(* returns.                                                                *)
LEMMA HistoryStep ==
  ASSUME TicketStep, NEW q \in Requests
  PROVE  \/ executed'[q] = executed[q] /\ external'[q] = external[q]
         \/ \E h \in Hosts : CallbackReturns(h, q)
  BY DEF TicketStep, NewTicket, TicketMoves, CallbackReturns

(* A request without a row stays without ticket and history. *)
LEMMA NextFresh ==
  ASSUME Fresh, TicketStep, \A q \in Requests : RowStep(q)
  PROVE  Fresh'
<1> SUFFICES ASSUME NEW q \in Requests, row'[q].state = "Absent"
             PROVE  /\ executed'[q] = 0 /\ ~external'[q] /\ row'[q].effects = "none"
                    /\ row'[q].outcome # "rollback"
                    /\ \A h \in Hosts : pc'[h][q] = "idle"
  BY DEF Fresh
<1>1. row'[q] = row[q]
  <2>1. \A s, o : Plain(s, o).state = s
    BY DEF Plain
  <2>2. \A h : Started(h).state = "Running"
    BY DEF Started
  <2>3. \A x, p : WithEvidence(row[q], x, p).state = row[q].state
    BY DEF WithEvidence
  <2>4. OrphanedRow(row[q]).state = "Orphaned"
    BY DEF OrphanedRow
  <2> QED BY <2>1, <2>2, <2>3, <2>4 DEF RowStep
<1>2. /\ executed[q] = 0 /\ ~external[q] /\ row[q].effects = "none"
      /\ row[q].outcome # "rollback" /\ \A h \in Hosts : pc[h][q] = "idle"
  BY <1>1 DEF Fresh
<1>3. executed'[q] = executed[q] /\ external'[q] = external[q]
  BY <1>2, HistoryStep DEF CallbackReturns
<1>4. \A h \in Hosts : pc'[h][q] = "idle"
  <2>1. ASSUME NEW h \in Hosts, NEW r \in Requests, NewTicket(h, r)
        PROVE  \A g \in Hosts : pc'[g][q] = "idle"
    BY <2>1, <1>1, <1>2 DEF NewTicket, MovesTo, Plain
  <2>2. ASSUME NEW h \in Hosts, NEW r \in Requests, TicketMoves(h, r) \/ CallbackReturns(h, r)
        PROVE  \A g \in Hosts : pc'[g][q] = "idle"
    BY <2>2, <1>2 DEF TicketMoves, CallbackReturns, MovesTo
  <2> QED BY <1>2, <2>1, <2>2 DEF TicketStep
<1> QED BY <1>1, <1>2, <1>3, <1>4

(* A row whose request has left no trace gets none without its callback. *)
LEMMA TracelessRow ==
  ASSUME NEW q \in Requests, RowStep(q), row[q].effects = "none", row[q].outcome # "rollback",
         \A h \in Hosts : pc[h][q] \notin {"executed", "rolledBack"}
  PROVE  row'[q].effects = "none" /\ row'[q].outcome # "rollback"
<1>1. \A s, o : Plain(s, o).effects = "none" /\ Plain(s, o).outcome = o
  BY DEF Plain
<1>2. \A h : Started(h).effects = "none" /\ Started(h).outcome = "none"
  BY DEF Started
<1>3. OrphanedRow(row[q]).effects = "none" /\ OrphanedRow(row[q]).outcome = "uncertain"
  BY DEF OrphanedRow, RollbackProven
<1> QED BY <1>1, <1>2, <1>3 DEF RowStep

(* A ticket before its callback has left no trace. *)
LEMMA NextUnexecuted ==
  ASSUME OneTicket, Fresh, Unexecuted, TicketStep, \A q \in Requests : RowStep(q)
  PROVE  Unexecuted'
<1> SUFFICES ASSUME NEW g \in Hosts, NEW q \in Requests, pc'[g][q] \in Unstarted
             PROVE  /\ executed'[q] = 0 /\ ~external'[q] /\ row'[q].effects = "none"
                    /\ row'[q].outcome # "rollback"
  BY DEF Unexecuted, Unstarted
<1>1. CASE pc[g][q] \in Unstarted
  <2>1. /\ executed[q] = 0 /\ ~external[q] /\ row[q].effects = "none"
        /\ row[q].outcome # "rollback"
    BY <1>1 DEF Unexecuted, Unstarted
  <2>2. \A h \in Hosts : pc[h][q] # "idle" => h = g
    BY <1>1 DEF OneTicket, Unstarted
  <2>3. row'[q].effects = "none" /\ row'[q].outcome # "rollback"
    BY <1>1, <2>1, <2>2, TracelessRow DEF Unstarted
  <2>4. \A h \in Hosts : ~CallbackReturns(h, q)
    BY <2>2 DEF CallbackReturns, MovesTo, Unstarted
  <2> QED BY <2>1, <2>3, <2>4, HistoryStep
<1>2. CASE pc[g][q] \notin Unstarted
  <2>1. NewTicket(g, q)
    BY <1>2 DEF TicketStep, NewTicket, TicketMoves, CallbackReturns, MovesTo, Unstarted
  <2> QED BY <2>1 DEF NewTicket, Fresh, Plain
<1> QED BY <1>1, <1>2

(* Only a ticket that has left no trace runs its callback. *)
LEMMA NextAtMostOnce ==
  ASSUME TypeOK, Unexecuted, ExecutedAtMostOnce, TicketStep
  PROVE  ExecutedAtMostOnce'
<1> SUFFICES ASSUME NEW q \in Requests PROVE executed'[q] <= 1
  BY DEF ExecutedAtMostOnce
<1>1. ASSUME NEW h \in Hosts, CallbackReturns(h, q) PROVE executed'[q] <= 1
  <2>1. executed[q] = 0
    BY <1>1 DEF CallbackReturns, Unexecuted
  <2> QED BY <1>1, <2>1 DEF CallbackReturns
<1> QED BY <1>1, HistoryStep DEF ExecutedAtMostOnce

-----------------------------------------------------------------------------
(* The truth of what is retained.                                          *)

(* Evidence and outcome of a row are settled before an external effect can  *)
(* come, since that needs a ticket that has left no trace.                 *)
LEMMA TraceIsLate ==
  ASSUME Unexecuted, TicketStep, NEW q \in Requests,
         row[q].effects # "none" \/ row[q].outcome = "rollback"
  PROVE  external'[q] = external[q]
  BY HistoryStep DEF CallbackReturns, Unexecuted

(* A plan with an external effect is never controlled. *)
LEMMA NextControlledPlan ==
  ASSUME OneTicket, Unexecuted, ControlledPlan, TicketStep
  PROVE  ControlledPlan'
<1> SUFFICES ASSUME NEW g \in Hosts, NEW q \in Requests,
                    pc'[g][q] = "executed", plan'[g][q] = "controlled"
             PROVE  ~external'[q]
  BY DEF ControlledPlan
<1>1. ASSUME NEW h \in Hosts, CallbackReturns(h, q) PROVE ~external'[q]
  <2>1. g = h
    BY <1>1 DEF CallbackReturns, MovesTo, OneTicket
  <2> QED BY <1>1, <2>1 DEF CallbackReturns, Unexecuted
<1>2. CASE \A h \in Hosts : ~CallbackReturns(h, q)
  <2>1. external'[q] = external[q]
    BY <1>2, HistoryStep
  <2>2. pc[g][q] = "executed" /\ plan[g][q] = "controlled"
    <3>1. ASSUME NEW h \in Hosts, NEW r \in Requests, CallbackReturns(h, r)
          PROVE  pc[g][q] = "executed" /\ plan[g][q] = "controlled"
      <4>1. r # q
        BY <1>2, <3>1
      <4> QED BY <3>1, <4>1 DEF CallbackReturns, MovesTo
    <3>2. ASSUME NEW h \in Hosts, NEW r \in Requests, NewTicket(h, r) \/ TicketMoves(h, r)
          PROVE  pc[g][q] = "executed" /\ plan[g][q] = "controlled"
      BY <3>2 DEF NewTicket, TicketMoves, MovesTo
    <3> QED BY <3>1, <3>2 DEF TicketStep
  <2> QED BY <2>1, <2>2 DEF ControlledPlan
<1> QED BY <1>1, <1>2

(* The controlled marker of a row follows the plan. *)
LEMMA NextControlledRow ==
  ASSUME TypeOK, OneTicket, Unexecuted, ControlledPlan, ControlledRow, TicketStep,
         \A q \in Requests : RowStep(q)
  PROVE  ControlledRow'
<1> SUFFICES ASSUME NEW q \in Requests, row'[q].effects = "controlled" PROVE ~external'[q]
  BY DEF ControlledRow
<1>1. CASE row[q].effects = "controlled"
  BY <1>1, TraceIsLate DEF ControlledRow
<1>2. CASE row[q].effects # "controlled"
  <2>1. \A s, o : Plain(s, o).effects = "none"
    BY DEF Plain
  <2>2. \A h : Started(h).effects = "none"
    BY DEF Started
  <2>3. OrphanedRow(row[q]).effects = "none"
    BY <1>2 DEF OrphanedRow, RollbackProven
  <2>4. \A x, p : WithEvidence(row[q], x, p).effects = x
    BY DEF WithEvidence
  <2>5. PICK h \in Hosts : pc[h][q] = "executed" /\ plan[h][q] = "controlled"
    BY <1>2, <2>1, <2>2, <2>3, <2>4 DEF RowStep
  <2>6. \A g \in Hosts : ~CallbackReturns(g, q)
    BY <2>5 DEF CallbackReturns, OneTicket
  <2> QED BY <2>5, <2>6, HistoryStep DEF ControlledPlan
<1> QED BY <1>1, <1>2

(* Mutations become durable only with the successful claim. *)
LEMMA NextApplied ==
  ASSUME TypeOK, [Next]_vars, NEW q \in Requests
  PROVE  applied'[q] = applied[q] \/ row'[q] = Plain("Completed", "value")
<1>1. CASE applied' = applied
  BY <1>1
<1>2. ASSUME NEW h \in Hosts, NEW r \in Requests, CommitActivation(h, r)
      PROVE  applied'[q] = applied[q] \/ row'[q] = Plain("Completed", "value")
  BY <1>2 DEF CommitActivation, TypeOK
<1> QED BY <1>1, <1>2, MarkerSteps

(* Every transaction that settles a row tells the truth. *)
LEMMA NextOutcome ==
  ASSUME TypeOK, Unexecuted, ControlledRow, OutcomeIsTrue, TicketStep,
         [Next]_vars, \A q \in Requests : RowStep(q)
  PROVE  OutcomeIsTrue'
<1> SUFFICES ASSUME NEW q \in Requests
             PROVE  /\ applied'[q] => row'[q].state = "Completed" /\ row'[q].outcome = "value"
                    /\ row'[q].outcome = "rollback" => ~external'[q]
  BY DEF OutcomeIsTrue
<1>1. ASSUME applied'[q] PROVE row'[q].state = "Completed" /\ row'[q].outcome = "value"
  <2>1. CASE applied[q]
    <3>1. row[q].state = "Completed" /\ row[q].outcome = "value"
      BY <2>1 DEF OutcomeIsTrue
    <3>2. row'[q] = row[q]
      BY <3>1 DEF RowStep
    <3> QED BY <3>1, <3>2
  <2>2. CASE row'[q] = Plain("Completed", "value")
    BY <2>2 DEF Plain
  <2> QED BY <1>1, <2>1, <2>2, NextApplied
<1>2. ASSUME row'[q].outcome = "rollback" PROVE ~external'[q]
  <2>1. CASE row[q].outcome = "rollback"
    BY <2>1, TraceIsLate DEF OutcomeIsTrue
  <2>2. CASE row[q].outcome # "rollback"
    <3>1. \A s, o : Plain(s, o).outcome = o
      BY DEF Plain
    <3>2. \A h : Started(h).outcome = "none"
      BY DEF Started
    <3>3. \A x, p : WithEvidence(row[q], x, p).outcome = row[q].outcome
      BY DEF WithEvidence
    <3>4. OrphanedRow(row[q]).outcome = "rollback" => row[q].effects = "controlled"
      BY DEF OrphanedRow, RollbackProven
    <3>5. row[q].effects = "controlled"
      BY <1>2, <2>2, <3>1, <3>2, <3>3, <3>4 DEF RowStep
    <3> QED BY <3>5, TraceIsLate DEF ControlledRow
  <2> QED BY <2>1, <2>2
<1> QED BY <1>1, <1>2

-----------------------------------------------------------------------------
(* The theorems.                                                           *)

(* The parts of the invariant, together. *)
LEMMA NextLedgerInv == LedgerInv /\ [Next]_vars => LedgerInv'
<1> SUFFICES ASSUME LedgerInv, [Next]_vars PROVE LedgerInv'
  OBVIOUS
<1>1. (\A q \in Requests : RowStep(q)) /\ TicketStep
  BY NextRow, NextTicket DEF LedgerInv
<1>2. TypeOK' /\ LeaseIsOwned' /\ FenceStands' /\ ClosedIsSettled'
  BY NextTypeOK, NextLease, NextFence, NextClosed DEF LedgerInv
<1>3. OneTicket' /\ Fresh' /\ Unexecuted' /\ ExecutedAtMostOnce'
  BY <1>1, NextOneTicket, NextFresh, NextUnexecuted, NextAtMostOnce DEF LedgerInv
<1>4. ControlledPlan' /\ ControlledRow' /\ OutcomeIsTrue'
  BY <1>1, NextControlledPlan, NextControlledRow, NextOutcome DEF LedgerInv
<1> QED BY <1>2, <1>3, <1>4 DEF LedgerInv

(* The invariant holds throughout. *)
LEMMA LedgerInvHolds == Spec => []LedgerInv
<1>1. Init => LedgerInv
  BY InitLedgerInv
<1>2. LedgerInv /\ [Next]_vars => LedgerInv'
  BY NextLedgerInv
<1> QED BY <1>1, <1>2, PTL DEF Spec

(* Every transaction writes rows, leases and admissions of their types: in  *)
(* particular an admission is always bound to an existing lease.           *)
THEOREM LedgerTypes == Spec => []TypeOK
<1>1. LedgerInv => TypeOK
  BY DEF LedgerInv
<1> QED BY <1>1, LedgerInvHolds, PTL

(* The fence of the current lease stands while a request of a replaced     *)
(* writer is Running (clear_takeover_recovery_if_resolved).                *)
THEOREM FenceTheorem == Spec => []FenceStands
<1>1. LedgerInv => FenceStands
  BY DEF LedgerInv
<1> QED BY <1>1, LedgerInvHolds, PTL

(* The callback of a request identity is invoked at most once, whatever    *)
(* crashes, takeovers and retries come (reserve_request_inner,             *)
(* begin_observed_request_with_admission).                                 *)
THEOREM AtMostOnceTheorem == Spec => []ExecutedAtMostOnce
<1>1. LedgerInv => ExecutedAtMostOnce
  BY DEF LedgerInv
<1> QED BY <1>1, LedgerInvHolds, PTL

(* Mutations are durable exactly with the successful claim, and a rollback *)
(* is called proven only for a request that reached nothing outside        *)
(* (commit_table_request_activation_tx, orphan_running_request_tx).        *)
THEOREM OutcomeTheorem == Spec => []OutcomeIsTrue
<1>1. LedgerInv => OutcomeIsTrue
  BY DEF LedgerInv
<1> QED BY <1>1, LedgerInvHolds, PTL

(* A terminal row is never written again                                   *)
(* (transition_request_with_owner_and_run_status).                         *)
THEOREM TerminalTheorem == Spec => TerminalIsFinal
<1>1. LedgerInv /\ [Next]_vars =>
        [\A r \in Requests : row[r].state \in Terminal => row'[r] = row[r]]_vars
  BY NextRow DEF LedgerInv, RowStep, Terminal
<1> QED BY <1>1, LedgerInvHolds, PTL DEF Spec, TerminalIsFinal

(* Nothing of a closed session is reserved, started or committed           *)
(* (finish_session_deletion, ensure_session_admission_open).               *)
THEOREM ClosedTheorem == Spec => ClosedSessionIsQuiet
<1> DEFINE Quiet == deletion.state = "closed" =>
                      UNCHANGED <<deletion, row, applied>>
                      /\ \A r \in Requests : row[r].state \notin {"Reserved", "Running"}
<1>1. LedgerInv /\ LedgerInv' /\ [Next]_vars => [Quiet]_vars
  <2> SUFFICES ASSUME LedgerInv, LedgerInv', [Next]_vars, deletion.state = "closed"
               PROVE  UNCHANGED <<deletion, row, applied>>
                      /\ \A r \in Requests : row[r].state \notin {"Reserved", "Running"}
    OBVIOUS
  <2>1. \A r \in Requests : row[r].state \notin {"Reserved", "Running"}
    BY DEF LedgerInv, ClosedIsSettled
  <2>2. row' = row
    <3>1. \A q \in Requests : row'[q] = row[q]
      BY <2>1, NextRow DEF LedgerInv, RowStep, SessionOpen
    <3> QED BY <3>1 DEF LedgerInv, TypeOK
  <2>3. deletion' = deletion
    BY MarkerSteps DEF BeginSessionDeletion, FinishSessionDeletion, SessionOpen
  <2>4. applied' = applied
    <3>1. ASSUME NEW h \in Hosts, NEW r \in Requests PROVE ~CommitActivation(h, r)
      BY <2>1 DEF CommitActivation, MayCommit, RunningAs
    <3> QED BY <3>1, MarkerSteps
  <2> QED BY <2>1, <2>2, <2>3, <2>4
<1> QED BY <1>1, LedgerInvHolds, PTL DEF Spec, ClosedSessionIsQuiet
=============================================================================
