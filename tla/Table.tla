------------------------------- MODULE Table -------------------------------
(***************************************************************************)
(* The transactional tables of crates/orna-table: committed relations, a   *)
(* root activation with a private overlay of rows and of required          *)
(* references, nested calls that share it, savepoints, and publication.    *)
(*                                                                         *)
(* A cell is a table and a key.  A map of the code from some cells to      *)
(* values is a function on all cells: None stands for a row that is not    *)
(* there (a deletion, in the overlay), Untouched for a cell the overlay    *)
(* has no entry for, and no required target for a cell without an entry.   *)
(* DatabaseActivation holds its runtime by &mut, so at most one activation *)
(* exists; TableRuntime and Activation are the case of a single table.     *)
(***************************************************************************)
EXTENDS Naturals, Sequences, FiniteSets

CONSTANTS
  Tables,          \* names of relations
  Keys,            \* primary keys, ordered
  Rows,            \* row contents
  TargetSets,      \* the sets of required targets a caller may register
  None,            \* no row
  Untouched,       \* no overlay entry
  Foreign,         \* how the caller of another activation sees a savepoint
  MaxActivations,  \* bound: activations begun
  MaxCalls,        \* bound: successful changes of the overlay per activation
  MaxSavepoints    \* bound: savepoints held at a time

Cells == Tables \X Keys

ASSUME TargetAssumption == TargetSets \subseteq SUBSET Cells
ASSUME NoneAssumption == None \notin Rows
ASSUME UntouchedAssumption ==
  /\ Untouched \notin Rows \cup {None}
  /\ \A T \in SUBSET Cells : Untouched # T
ASSUME ForeignAssumption ==
  Foreign \notin [view : [Cells -> Rows \cup {None}], refs : [Cells -> SUBSET Cells],
                  log : Seq(Cells \X Cells)]
ASSUME BoundAssumption == {MaxActivations, MaxCalls, MaxSavepoints} \subseteq Nat

VARIABLES
  committed,                   \* DatabaseRuntime
  required_references,
  overlay,                     \* DatabaseActivation
  rekey_changes,
  required_reference_overlay,
  state,                       \* ActivationState, "None" without an activation
  activation_id,
  helper_managed,
  depth,                       \* child scopes between the caller and the root
  savepoints,                  \* savepoints in the caller's hands
  calls,
  result                       \* what the last call returned

runtimeVars == <<committed, required_references>>
overlayVars == <<overlay, rekey_changes, required_reference_overlay>>
rootVars == <<state, activation_id, helper_managed>>
vars == <<runtimeVars, overlayVars, rootVars, depth, savepoints, calls, result>>

States == {"None", "Open", "Committed", "RolledBack"}

Results == {"ok", "DuplicateKey", "MissingRow", "ChildCannotCommit",
            "HelperManagedCommit", "DoubleCommit", "UseAfterClose",
            "ForeignSavepoint", "ReferencedRow"}

SavepointOf(o, changes, refs, id) ==
  [overlay |-> o, rekey_changes |-> changes,
   required_reference_overlay |-> refs, activation_id |-> id]

NoOverlay == [c \in Cells |-> Untouched]

Init ==
  /\ committed = [c \in Cells |-> None]
  /\ required_references = [c \in Cells |-> {}]
  /\ overlay = NoOverlay
  /\ rekey_changes = <<>>
  /\ required_reference_overlay = NoOverlay
  /\ state = "None"
  /\ activation_id = 0
  /\ helper_managed = FALSE
  /\ depth = 0
  /\ savepoints = {}
  /\ calls = 0
  /\ result = "ok"

-----------------------------------------------------------------------------
(* Reading through the overlay.                                            *)

Merge(base, staged) == [c \in Cells |-> IF staged[c] = Untouched THEN base[c] ELSE staged[c]]

candidate == Merge(committed, overlay)

required_references_candidate == Merge(required_references, required_reference_overlay)

-----------------------------------------------------------------------------
(* Calls on an activation.  A call that fails changes only what it returns. *)

Refuse(error) ==
  /\ result' = error
  /\ UNCHANGED <<runtimeVars, overlayVars, rootVars, depth, savepoints, calls>>

\* require_open, then the overlay becomes o, changes, refs.
Stage(o, changes, refs) ==
  /\ calls < MaxCalls
  /\ calls' = calls + 1
  /\ overlay' = o
  /\ rekey_changes' = changes
  /\ required_reference_overlay' = refs
  /\ result' = "ok"
  /\ UNCHANGED <<runtimeVars, rootVars, depth, savepoints>>

Mutation(call) == state # "None" /\ (IF state = "Open" THEN call ELSE Refuse("UseAfterClose"))

\* insert registers no target, insert_with_required_references the given ones.
Insert(c, row, targets) == Mutation(
  \/ candidate[c] # None /\ Refuse("DuplicateKey")
  \/ /\ candidate[c] = None
     /\ Stage([overlay EXCEPT ![c] = row], rekey_changes,
              [required_reference_overlay EXCEPT ![c] = targets]))

Update(c, row) == Mutation(
  \/ candidate[c] = None /\ Refuse("MissingRow")
  \/ /\ candidate[c] # None
     /\ Stage([overlay EXCEPT ![c] = row], rekey_changes, required_reference_overlay))

UpdateWithReferences(c, row, targets) == Mutation(
  \/ candidate[c] = None /\ Refuse("MissingRow")
  \/ /\ candidate[c] # None
     /\ Stage([overlay EXCEPT ![c] = row], rekey_changes,
              [required_reference_overlay EXCEPT ![c] = targets]))

SetRequiredReferences(c, targets) == Mutation(
  \/ candidate[c] = None /\ Refuse("MissingRow")
  \/ /\ candidate[c] # None
     /\ Stage(overlay, rekey_changes, [required_reference_overlay EXCEPT ![c] = targets]))

\* Faulty: the targets of the deleted row stay registered.
DeleteKeepsReferences(c) == Mutation(
  \/ candidate[c] = None /\ Refuse("MissingRow")
  \/ /\ candidate[c] # None
     /\ Stage([overlay EXCEPT ![c] = None], rekey_changes, required_reference_overlay))

Delete(c) == Mutation(
  \/ candidate[c] = None /\ Refuse("MissingRow")
  \/ /\ candidate[c] # None
     /\ Stage([overlay EXCEPT ![c] = None], rekey_changes,
              [required_reference_overlay EXCEPT ![c] = {}]))

\* The row and its targets move to a free key of the same table.
Rekey(c, key) == LET new == <<c[1], key>> IN Mutation(
  \/ candidate[c] = None /\ Refuse("MissingRow")
  \/ candidate[c] # None /\ candidate[new] # None /\ Refuse("DuplicateKey")
  \/ /\ candidate[c] # None /\ candidate[new] = None
     /\ Stage([overlay EXCEPT ![c] = None, ![new] = candidate[c]],
              Append(rekey_changes, <<c, new>>),
              [required_reference_overlay EXCEPT ![c] = {},
                                                 ![new] = required_references_candidate[c]]))

Savepoint == Mutation(
  /\ Cardinality(savepoints) < MaxSavepoints
  /\ savepoints' = savepoints \cup
       {SavepointOf(overlay, rekey_changes, required_reference_overlay, activation_id)}
  /\ result' = "ok"
  /\ UNCHANGED <<runtimeVars, overlayVars, rootVars, depth, calls>>)

\* Faulty: restores the rows and leaves the registered targets.
RollbackToRowsOnly(s) == Mutation(
  \/ s.activation_id # activation_id /\ Refuse("ForeignSavepoint")
  \/ /\ s.activation_id = activation_id
     /\ Stage(s.overlay, s.rekey_changes, required_reference_overlay))

RollbackTo(s) == Mutation(
  \/ s.activation_id # activation_id /\ Refuse("ForeignSavepoint")
  \/ /\ s.activation_id = activation_id
     /\ Stage(s.overlay, s.rekey_changes, s.required_reference_overlay))

-----------------------------------------------------------------------------
(* The life of an activation.                                              *)

\* begin, and the first statement of activate.
Begin(helper) ==
  /\ state = "None" /\ activation_id < MaxActivations
  /\ state' = "Open"
  /\ activation_id' = activation_id + 1
  /\ helper_managed' = helper
  /\ overlay' = NoOverlay /\ rekey_changes' = <<>> /\ required_reference_overlay' = NoOverlay
  /\ depth' = 0 /\ calls' = 0 /\ result' = "ok"
  /\ UNCHANGED <<runtimeVars, savepoints>>

\* A nested call gets a scope on the same activation and later returns.
Child == Mutation(
  /\ depth = 0
  /\ depth' = depth + 1 /\ result' = "ok"
  /\ UNCHANGED <<runtimeVars, overlayVars, rootVars, savepoints, calls>>)

ChildReturns ==
  /\ depth > 0
  /\ depth' = depth - 1 /\ result' = "ok"
  /\ UNCHANGED <<runtimeVars, overlayVars, rootVars, savepoints, calls>>

ClearOverlay ==
  /\ overlay' = NoOverlay /\ rekey_changes' = <<>> /\ required_reference_overlay' = NoOverlay

\* The activation goes out of scope; what it staged is gone.
Destroyed(r) ==
  /\ state' = "None" /\ helper_managed' = FALSE /\ depth' = 0 /\ calls' = 0
  /\ ClearOverlay
  /\ result' = r
  /\ UNCHANGED <<activation_id, savepoints>>

\* The rows and the references that publication would install: entries of
\* the overlay replace committed ones, then entries without a row go.
Installed == [c \in Cells |-> IF candidate[c] = None THEN {}
                              ELSE required_references_candidate[c]]

\* Faulty: checks only the targets registered by this activation.
DanglingStaged == \E c \in Cells :
  /\ candidate[c] # None
  /\ required_reference_overlay[c] # Untouched
  /\ \E t \in required_reference_overlay[c] : candidate[t] = None

Dangling == \E c \in Cells : \E t \in Installed[c] : candidate[t] = None

Publishable == state = "Open" /\ ~Dangling

Install ==
  /\ Publishable
  /\ committed' = candidate
  /\ required_references' = Installed

\* Why publish refuses.
PublishError == CASE state = "Committed" -> "DoubleCommit"
                  [] state = "RolledBack" -> "UseAfterClose"
                  [] OTHER -> "ReferencedRow"

\* publish on a root that stays in scope.
PublishOpen ==
  \/ /\ Install
     /\ state' = "Committed" /\ result' = "ok"
     /\ UNCHANGED <<overlayVars, activation_id, helper_managed, depth, savepoints, calls>>
  \/ ~Publishable /\ Refuse(PublishError)

Commit ==
  /\ state # "None"
  /\ \/ depth > 0 /\ Refuse("ChildCannotCommit")
     \/ depth = 0 /\ helper_managed /\ Refuse("HelperManagedCommit")
     \/ depth = 0 /\ ~helper_managed /\ PublishOpen

\* A second rollback is harmless.
Rollback ==
  /\ state # "None" /\ depth = 0
  /\ \/ state # "Open" /\ Refuse("ok")
     \/ /\ state = "Open"
        /\ ClearOverlay
        /\ state' = "RolledBack" /\ result' = "ok"
        /\ UNCHANGED <<runtimeVars, activation_id, helper_managed, depth, savepoints, calls>>

\* The operation of activate failed, a panic unwinds, or the owner of begin
\* lets the activation go.
Drop ==
  /\ state # "None"
  /\ Destroyed("ok")
  /\ UNCHANGED runtimeVars

\* activate publishes after its operation returned.
OperationReturns ==
  /\ state # "None" /\ helper_managed /\ depth = 0
  /\ \/ Install /\ Destroyed("ok")
     \/ ~Publishable /\ Destroyed(PublishError) /\ UNCHANGED runtimeVars

Next ==
  \/ \E helper \in BOOLEAN : Begin(helper)
  \/ Child \/ ChildReturns \/ Savepoint
  \/ Commit \/ Rollback \/ Drop \/ OperationReturns
  \/ \E c \in Cells :
       \/ Delete(c)
       \/ \E row \in Rows : Update(c, row)
       \/ \E targets \in TargetSets :
            \/ SetRequiredReferences(c, targets)
            \/ \E row \in Rows : Insert(c, row, targets) \/ UpdateWithReferences(c, row, targets)
       \/ \E key \in Keys : Rekey(c, key)
  \/ \E s \in savepoints : RollbackTo(s)

Spec == Init /\ [][Next]_vars

-----------------------------------------------------------------------------
(* Properties.                                                             *)

Overlays == [Cells -> Rows \cup {None, Untouched}]
ReferenceOverlays == [Cells -> {Untouched} \cup SUBSET Cells]
SavepointType == [overlay : Overlays, rekey_changes : Seq(Cells \X Cells),
                  required_reference_overlay : ReferenceOverlays, activation_id : Nat]

TypeOK ==
  /\ committed \in [Cells -> Rows \cup {None}]
  /\ required_references \in [Cells -> SUBSET Cells]
  /\ overlay \in Overlays
  /\ rekey_changes \in Seq(Cells \X Cells)
  /\ required_reference_overlay \in ReferenceOverlays
  /\ state \in States
  /\ activation_id \in Nat
  /\ helper_managed \in BOOLEAN
  /\ depth \in Nat
  /\ savepoints \subseteq SavepointType
  /\ calls \in Nat
  /\ result \in Results

\* DatabaseActivation::publish: in the committed database every required
\* target of every row is a row, and no reference is kept for a row that is
\* gone, whatever activations inserted, deleted, re-keyed and rolled back.
RequiredReferencesHold ==
  \A c \in Cells :
    /\ required_references[c] # {} => committed[c] # None
    /\ \A t \in required_references[c] : committed[t] # None

\* DatabaseActivation::{insert, delete, rekey, rollback_to}: row overlay and
\* reference overlay move together, so a row that the candidate does not
\* have carries no target, in the activation and in each of its savepoints.
ReferencesFollowRows ==
  \A c \in Cells :
    /\ state = "Open" /\ candidate[c] = None => required_references_candidate[c] = {}
    /\ \A s \in savepoints :
         state = "Open" /\ s.activation_id = activation_id
           /\ Merge(committed, s.overlay)[c] = None
         => Merge(required_references, s.required_reference_overlay)[c] = {}

\* The candidate is what the caller sees while the activation is open.
Shown(base, merged) == IF state = "Open" THEN merged ELSE base

SavepointView(s) ==
  IF state = "Open" /\ s.activation_id = activation_id
  THEN [view |-> Merge(committed, s.overlay),
        refs |-> Merge(required_references, s.required_reference_overlay),
        log |-> s.rekey_changes]
  ELSE Foreign

Tx == INSTANCE Transaction WITH
  db <- committed, dbRefs <- required_references,
  view <- Shown(committed, candidate),
  viewRefs <- Shown(required_references, required_references_candidate),
  log <- rekey_changes, phase <- state, managed <- helper_managed,
  kept <- {SavepointView(s) : s \in savepoints}

\* The overlay, its savepoints and publish (crates/orna-table lib.rs
\* 1203-1565) are indistinguishable, results included, from working on a
\* private copy of the database that replaces it at once or not at all.
ImplementsTransaction == Tx!Spec
=============================================================================
