---------------------------- MODULE Transaction ----------------------------
(***************************************************************************)
(* What a database activation of crates/orna-table promises its caller: a  *)
(* private copy of the whole database that every call reads and changes in *)
(* place, that a savepoint copies and a rollback restores, and that        *)
(* replaces the database at once, or not at all.  There is no overlay in   *)
(* this specification; Table is the implementation with one.               *)
(***************************************************************************)
EXTENDS Naturals, Sequences

CONSTANTS Tables, Keys, Rows, TargetSets, None, Foreign

VARIABLES
  db, dbRefs,        \* the published rows and their required targets
  view, viewRefs,    \* the caller's copy of both
  log,               \* the key changes made by the caller
  phase,             \* "None", "Open", "Committed" or "RolledBack"
  managed, depth,    \* run by activate; nested calls
  kept,              \* savepoints in the caller's hands
  result             \* what the last call returned

txVars == <<db, dbRefs, view, viewRefs, log, phase, managed, depth, kept, result>>

Cells == Tables \X Keys

Init ==
  /\ db = [c \in Cells |-> None]
  /\ dbRefs = [c \in Cells |-> {}]
  /\ view = db /\ viewRefs = dbRefs
  /\ log = <<>> /\ phase = "None" /\ managed = FALSE /\ depth = 0
  /\ kept = {} /\ result = "ok"

Return(r) == result' = r

\* A call that returns an error changes nothing.
Refuse(error) ==
  /\ Return(error)
  /\ UNCHANGED <<db, dbRefs, view, viewRefs, log, phase, managed, depth, kept>>

\* The caller's copy becomes rows and refs, with the key changes entries.
Work(rows, refs, entries) ==
  /\ phase = "Open"
  /\ view' = rows /\ viewRefs' = refs /\ log' = entries
  /\ Return("ok")
  /\ UNCHANGED <<db, dbRefs, phase, managed, depth, kept>>

Insert(c, row, targets) ==
  /\ view[c] = None
  /\ Work([view EXCEPT ![c] = row], [viewRefs EXCEPT ![c] = targets], log)

Update(c, row) ==
  /\ view[c] # None
  /\ Work([view EXCEPT ![c] = row], viewRefs, log)

SetReferences(c, targets) ==
  /\ view[c] # None
  /\ Work(view, [viewRefs EXCEPT ![c] = targets], log)

Delete(c) ==
  /\ view[c] # None
  /\ Work([view EXCEPT ![c] = None], [viewRefs EXCEPT ![c] = {}], log)

\* The row and its targets move; rows that name the old key are left alone.
Rekey(old, new) ==
  /\ view[old] # None /\ view[new] = None
  /\ Work([view EXCEPT ![old] = None, ![new] = view[old]],
          [viewRefs EXCEPT ![old] = {}, ![new] = viewRefs[old]],
          Append(log, <<old, new>>))

RollbackTo(s) ==
  /\ s # Foreign
  /\ Work(s.view, s.refs, s.log)

\* The errors a call that changes rows may return.
Reject ==
  \/ phase = "Open" /\ \E c \in Cells : view[c] # None /\ Refuse("DuplicateKey")
  \/ phase = "Open" /\ \E c \in Cells : view[c] = None /\ Refuse("MissingRow")
  \/ phase = "Open" /\ Foreign \in kept /\ Refuse("ForeignSavepoint")
  \/ phase \in {"Committed", "RolledBack"} /\ Refuse("UseAfterClose")

\* What a savepoint of a finished activation is worth.
Void(S) == {Foreign : s \in S}

Open ==
  /\ phase = "None"
  /\ phase' = "Open" /\ managed' \in BOOLEAN
  /\ depth' = 0 /\ log' = <<>> /\ kept' = Void(kept)
  /\ Return("ok")
  /\ UNCHANGED <<db, dbRefs, view, viewRefs>>

Nest ==
  /\ phase = "Open"
  /\ depth' = depth + 1 /\ Return("ok")
  /\ UNCHANGED <<db, dbRefs, view, viewRefs, log, phase, managed, kept>>

Unnest ==
  /\ depth > 0
  /\ depth' = depth - 1 /\ Return("ok")
  /\ UNCHANGED <<db, dbRefs, view, viewRefs, log, phase, managed, kept>>

Savepoint ==
  /\ phase = "Open"
  /\ kept' = kept \cup {[view |-> view, refs |-> viewRefs, log |-> log]}
  /\ Return("ok")
  /\ UNCHANGED <<db, dbRefs, view, viewRefs, log, phase, managed, depth>>

Dangling == \E c \in Cells : \E t \in viewRefs[c] : view[t] = None

\* The copy replaces the database ...
Install ==
  /\ phase = "Open" /\ ~Dangling
  /\ db' = view /\ dbRefs' = viewRefs
  /\ UNCHANGED <<view, viewRefs>>

\* ... or is thrown away.
Discard ==
  /\ view' = db /\ viewRefs' = dbRefs
  /\ UNCHANGED <<db, dbRefs>>

Commit ==
  /\ phase # "None"
  /\ \/ depth > 0 /\ Refuse("ChildCannotCommit")
     \/ depth = 0 /\ managed /\ Refuse("HelperManagedCommit")
     \/ /\ depth = 0 /\ ~managed
        /\ \/ /\ Install
              /\ phase' = "Committed" /\ kept' = Void(kept) /\ Return("ok")
              /\ UNCHANGED <<log, managed, depth>>
           \/ phase = "Open" /\ Dangling /\ Refuse("ReferencedRow")
           \/ phase = "Committed" /\ Refuse("DoubleCommit")
           \/ phase = "RolledBack" /\ Refuse("UseAfterClose")

Rollback ==
  /\ phase # "None" /\ depth = 0
  /\ \/ phase # "Open" /\ Refuse("ok")
     \/ /\ phase = "Open"
        /\ Discard
        /\ phase' = "RolledBack" /\ log' = <<>> /\ kept' = Void(kept) /\ Return("ok")
        /\ UNCHANGED <<managed, depth>>

\* The activation is gone, and with it its copy and its savepoints.
End(r) ==
  /\ phase' = "None" /\ managed' = FALSE /\ depth' = 0 /\ log' = <<>>
  /\ kept' = Void(kept) /\ Return(r)

\* activate returns: success publishes, an error never does.
Finish ==
  /\ phase # "None" /\ managed /\ depth = 0
  /\ \/ Install /\ End("ok")
     \/ phase = "Open" /\ Dangling /\ Discard /\ End("ReferencedRow")
     \/ phase = "RolledBack" /\ Discard /\ End("UseAfterClose")

\* The activation goes out of scope, by a return, an error or a panic.
Drop == phase # "None" /\ Discard /\ End("ok")

Next ==
  \/ Open \/ Nest \/ Unnest \/ Savepoint \/ Commit \/ Rollback \/ Finish \/ Drop
  \/ Reject
  \/ \E c \in Cells :
       \/ Delete(c)
       \/ \E row \in Rows : Update(c, row)
       \/ \E targets \in TargetSets :
            \/ SetReferences(c, targets)
            \/ \E row \in Rows :
                 \/ Insert(c, row, targets)
                 \/ view[c] # None
                    /\ Work([view EXCEPT ![c] = row], [viewRefs EXCEPT ![c] = targets], log)
       \/ \E k \in Keys : Rekey(c, <<c[1], k>>)
  \/ \E s \in kept : RollbackTo(s)

Spec == Init /\ [][Next]_txVars
=============================================================================
