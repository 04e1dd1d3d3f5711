----------------------------- MODULE Allocator -----------------------------
(***************************************************************************)
(* The automatic-key allocator of one table: crates/orna-repository/src/   *)
(* allocator.rs and its caller, evaluate_staged_repl_transaction of        *)
(* crates/orna-application.  The high-water mark lives in a hidden ref that *)
(* all linked worktrees of a repository share, while each worktree has its *)
(* own checked-out rows and its own writer lock, so activations of two     *)
(* worktrees run at the same time.  An activation reads the mark, hands    *)
(* out IDs above it and must advance the ref, by compare-and-swap, before  *)
(* it can commit.  A ref update survives a power loss only after the sync. *)
(***************************************************************************)
EXTENDS Integers, FiniteSets, FiniteSetsExt

CONSTANTS
  Worktrees,  \* linked worktrees; at most one activation runs in each
  MaxId       \* bound on the IDs handed out

Ids == 1..MaxId

VARIABLES
  ref,     \* the watermark the allocator ref names; 0 when there is no ref
  synced,  \* the watermark a power loss falls back to
  rows,    \* per worktree: the IDs of the checked-out rows
  pc,      \* per worktree: where its activation is
  seen,    \* the watermark the activation allocated above
  next,    \* next_automatic_ids of the activation
  ids,     \* the IDs it allocated
  staged,  \* the IDs of the rows it inserts
  grants   \* history: how many activations got each ID

vars == <<ref, synced, rows, pc, seen, next, ids, staged, grants>>

Steps == {"idle", "running", "checked", "refused", "unsynced", "reserved"}

TypeOK ==
  /\ ref \in 0..MaxId /\ synced \in 0..MaxId
  /\ rows \in [Worktrees -> SUBSET Ids]
  /\ pc \in [Worktrees -> Steps]
  /\ seen \in [Worktrees -> 0..MaxId]
  /\ next \in [Worktrees -> 1..MaxId + 1]
  /\ ids \in [Worktrees -> SUBSET Ids] /\ staged \in [Worktrees -> SUBSET Ids]
  /\ grants \in [Ids -> Nat]

Init ==
  /\ ref = 0 /\ synced = 0
  /\ rows = [w \in Worktrees |-> {}]
  /\ pc = [w \in Worktrees |-> "idle"]
  /\ seen = [w \in Worktrees |-> 0]
  /\ next = [w \in Worktrees |-> 1]
  /\ ids = [w \in Worktrees |-> {}] /\ staged = [w \in Worktrees |-> {}]
  /\ grants = [i \in Ids |-> 0]

Step(w, from, to) == pc[w] = from /\ pc' = [pc EXCEPT ![w] = to]

\* The captured rows and then the watermark raise the next ID.
Capture(w) ==
  /\ Step(w, "idle", "running")
  /\ seen' = [seen EXCEPT ![w] = ref]
  /\ next' = [next EXCEPT ![w] = 1 + Max(rows[w] \cup {ref})]
  /\ ids' = [ids EXCEPT ![w] = {}] /\ staged' = [staged EXCEPT ![w] = {}]
  /\ UNCHANGED <<ref, synced, rows, grants>>

\* An insert without an id takes the next one.
Allocate(w) ==
  /\ pc[w] = "running" /\ next[w] \in Ids
  /\ ids' = [ids EXCEPT ![w] = @ \cup {next[w]}]
  /\ staged' = [staged EXCEPT ![w] = @ \cup {next[w]}]
  /\ next' = [next EXCEPT ![w] = @ + 1]
  /\ UNCHANGED <<ref, synced, rows, pc, seen, grants>>

\* An insert with an explicit id moves the next one past it.
Observe(w, i) ==
  /\ pc[w] = "running"
  /\ staged' = [staged EXCEPT ![w] = @ \cup {i}]
  /\ next' = [next EXCEPT ![w] = Max({@, i + 1})]
  /\ UNCHANGED <<ref, synced, rows, pc, seen, ids, grants>>

HighWater(w) == next[w] - 1

\* The IDs of w are handed out: its activation may commit them or fail.
Grant(w) == grants' = [i \in Ids |-> grants[i] + IF i \in ids[w] THEN 1 ELSE 0]

\* Nothing above the watermark was allocated: there is nothing to reserve.
ReserveNothing(w) ==
  /\ HighWater(w) <= seen[w]
  /\ Step(w, "running", "reserved")
  /\ Grant(w)
  /\ UNCHANGED <<ref, synced, rows, seen, next, ids, staged>>

\* The allocator is read again before the update; Moved ends the activation.
CheckRef(w) ==
  /\ HighWater(w) > seen[w]
  /\ Step(w, "running", IF ref = seen[w] THEN "checked" ELSE "idle")
  /\ UNCHANGED <<ref, synced, rows, seen, next, ids, staged, grants>>

\* git update-ref with the old value.
UpdateRef(w) ==
  /\ Step(w, "checked", IF ref = seen[w] THEN "unsynced" ELSE "refused")
  /\ ref' = IF ref = seen[w] THEN HighWater(w) ELSE ref
  /\ UNCHANGED <<synced, rows, seen, next, ids, staged, grants>>

\* A refused update is taken for done when the ref names the same blob.
AfterRefusal(w) ==
  /\ Step(w, "refused", IF ref = HighWater(w) THEN "reserved" ELSE "idle")
  /\ IF ref = HighWater(w) THEN Grant(w) ELSE UNCHANGED grants
  /\ UNCHANGED <<ref, synced, rows, seen, next, ids, staged>>

SyncRef(w) ==
  /\ Step(w, "unsynced", "reserved")
  /\ synced' = ref
  /\ Grant(w)
  /\ UNCHANGED <<ref, rows, seen, next, ids, staged>>

\* The activation commits its rows, or fails and leaves a gap.
Finish(w) ==
  /\ Step(w, "reserved", "idle")
  /\ rows' \in {rows, [rows EXCEPT ![w] = @ \cup staged[w]]}
  /\ UNCHANGED <<ref, synced, seen, next, ids, staged, grants>>

\* git reset, checkout or a branch switch; no activation is running in w.
Checkout(w) ==
  /\ pc[w] = "idle"
  /\ rows' \in {[rows EXCEPT ![w] = s] : s \in {rows[v] : v \in Worktrees} \cup {{}}}
  /\ UNCHANGED <<ref, synced, pc, seen, next, ids, staged, grants>>

\* The process of w dies before it has handed out its IDs.
Crash(w) ==
  /\ pc[w] \notin {"idle", "reserved"}
  /\ pc' = [pc EXCEPT ![w] = "idle"]
  /\ UNCHANGED <<ref, synced, rows, seen, next, ids, staged, grants>>

\* Every process dies and the ref falls back to what was synced.
PowerLoss ==
  /\ ref' = synced
  /\ pc' = [w \in Worktrees |-> "idle"]
  /\ UNCHANGED <<synced, rows, seen, next, ids, staged, grants>>

Next ==
  \/ PowerLoss
  \/ \E w \in Worktrees :
       \/ Capture(w) \/ Allocate(w) \/ \E i \in Ids : Observe(w, i)
       \/ ReserveNothing(w) \/ CheckRef(w) \/ UpdateRef(w)
       \/ AfterRefusal(w) \/ SyncRef(w) \/ Finish(w)
       \/ Checkout(w) \/ Crash(w)

Spec == Init /\ [][Next]_vars

-----------------------------------------------------------------------------
\* "Writers only advance it, with compare-and-swap, and make it durable
\* before the rows that use the reserved IDs can commit, so a failed commit
\* leaves a gap and never a reused ID" (allocator.rs:9-12): no ID is handed
\* out by two activations.
NoIdReused == \A i \in Ids : grants[i] <= 1
=============================================================================
