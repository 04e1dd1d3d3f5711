---------------------------- MODULE Publication ----------------------------
(***************************************************************************)
(* PUB-3: how `orna publish` moves a frozen prefix of the durable mutation *)
(* tail into a Git commit, and how an interrupted publication is recovered *)
(* (orna-cli/src/cli_publish.rs, RuntimePublicationCoordinator in          *)
(* orna-storage/src/lib.rs, Repository in orna-repository/src/lib.rs,      *)
(* RuntimeState in orna-runtime/src/lib.rs).                               *)
(*                                                                         *)
(* Three stores that no transaction spans are involved: the runtime        *)
(* database, Git (branch, ordinary index, worktree, index.lock) and the    *)
(* repository journal.  Publishers are processes that can be killed        *)
(* between any two durable steps, may run at the same time, and share the  *)
(* repository with a person who uses plain Git.                            *)
(*                                                                         *)
(* The content of `.orna/store` is one value, the set of rows it holds:    *)
(* the store is a Merkle tree whose root leaf changes with every row, so   *)
(* the per-file comparisons of the code agree with comparing that set.     *)
(* A commit is the sequence of the versions on its first-parent chain, so  *)
(* "is an ancestor of" is "is a prefix of".                                *)
(*                                                                         *)
(* Definitions marked "Faulty" are variants the properties must refute.    *)
(***************************************************************************)
EXTENDS Naturals, Sequences, SequencesExt, FiniteSets

CONSTANTS
    Publishers,  \* `orna publish` processes
    Rows,        \* rows the runtime's mutations write
    Human,       \* a person's own edit under .orna/store
    User,        \* author of a commit made with plain Git
    None,        \* no value: no holder, no branch, no journal, no intent
    MaxIntent,   \* bound: publication intents frozen
    Scopes       \* situations a behaviour starts in: who takes part, and bounds

GitCommands == {"edit", "add", "commit", "revert", "reset", "branch", "switch"}

ASSUME PublicationAssumption ==
    /\ Human \notin Rows
    /\ {None, User} \cap Publishers = {} /\ None # User
    /\ MaxIntent \in Nat
    /\ Scopes \subseteq
         [publishers : SUBSET Publishers,  \* the processes that run
          rows : SUBSET Rows,              \* what the mutations write
          unsound : SUBSET SUBSET Rows,    \* contents the project's assertions refuse
          ops : SUBSET GitCommands,        \* what the person does
          muts : Nat,                      \* bound: mutations admitted
          users : Nat,                     \* bound: steps of the person (a commit is two)
          crashes : Nat]                   \* bound: publishers killed

VARIABLES
    head,     \* commit the current branch names (HEAD is attached)
    side,     \* commit of the other local branch, or None
    idx,      \* .orna/store in the ordinary Git index
    wt,       \* .orna/store in the worktree
    ilock,    \* .git/index.lock: None or [owner, bind]; owner None: a dead publisher
    coord,    \* holder of the coordination file lock, or None
    journal,  \* durable publication journal, or None
    pending,  \* runtime table pending_mutation: records [seq, row]
    lastSeq,  \* mutation sequence of the newest checkpoint
    admitted, \* runtime table admitted_mutation: every mutation ever accepted
    freezes,  \* runtime table publication_freeze: intent -> upper sequence
    done,     \* runtime table publication_commit: intent -> commit or None
    loc,      \* [p] control point and memory of a publisher
    scope,    \* the situation chosen in Init
    users, crashes,
    spoiled   \* history: a step that a finding is about has been taken

gitVars == <<head, side, idx, wt>>
lockVars == <<ilock, coord>>
runtimeVars == <<pending, lastSeq, admitted, freezes, done>>
boundVars == <<scope, users, crashes, spoiled>>
vars == <<gitVars, lockVars, journal, runtimeVars, loc, boundVars>>

Content == SUBSET (Rows \cup {Human})
Tip(c) == c[Len(c)].rows
\* head_contains_commit: the commit or a descendant of it
HasCommit(h, c) == IsPrefix(c, h)
RowsOf(ms) == {m.row : m \in ms}

\* PublicationJournalStage.
Stages == {"Prepared", "RefAdvanced", "IndexReconciled", "WorktreeReconciled",
           "RuntimeCompleted", "Complete"}

\* What a publisher remembers: its intent (None: it has read no journal and
\* frozen nothing), the captured base commit and index, and its candidate.
Idle == [pc |-> "idle", mode |-> "publish", intent |-> None,
         base |-> <<>>, index |-> {}, cand |-> <<>>]

Version == [rows : Content, by : Nat \cup {User}]
Commits == Seq(Version) \ {<<>>}
Journals == [old : Commits, new : Commits, intent : Nat, index : Content, stage : Stages]
Locks == [owner : Publishers \cup {User, None}, bind : Nat \cup {None}]
Mutations == [seq : Nat, row : Rows]

ASSUME AbsenceAssumption ==
    None \notin Nat \cup Commits \cup Journals \cup Locks /\ User \notin Nat

Goto(p, pc) == loc' = [loc EXCEPT ![p].pc = pc]

JournalOf(l, stage) ==
    [old |-> l.base, new |-> l.cand, intent |-> l.intent,
     index |-> l.index, stage |-> stage]

-----------------------------------------------------------------------------
(* Ends of a command.  Returning drops the guards the process holds; a     *)
(* killed process loses its file lock, but its index.lock file stays.      *)

Released(p) ==
    /\ coord' = IF coord = p THEN None ELSE coord
    /\ ilock' = IF ilock # None /\ ilock.owner = p THEN None ELSE ilock

Exit(p) == Released(p) /\ loc' = [loc EXCEPT ![p] = Idle]

\* Refused: the step found a conflict and the command returns an error.
Refused(p) == Exit(p) /\ UNCHANGED <<gitVars, journal, runtimeVars, boundVars>>

Crash(p) ==
    /\ loc[p].pc # "idle"
    /\ crashes < scope.crashes
    /\ crashes' = crashes + 1
    /\ coord' = IF coord = p THEN None ELSE coord
    /\ ilock' = IF ilock # None /\ ilock.owner = p
                THEN [ilock EXCEPT !.owner = None] ELSE ilock
    /\ loc' = [loc EXCEPT ![p] = Idle]
    /\ UNCHANGED <<gitVars, journal, runtimeVars, scope, users, spoiled>>

-----------------------------------------------------------------------------
(* Runtime tail.                                                           *)

\* Faulty: a sequence freed by a publication is given out again.
AppendMutationReusesSequence(row) ==
    /\ Cardinality(admitted) < scope.muts
    /\ lastSeq' = IF pending = {} THEN 1 ELSE lastSeq + 1
    /\ LET m == [seq |-> lastSeq', row |-> row]
       IN pending' = pending \cup {m} /\ admitted' = admitted \cup {m}
    /\ UNCHANGED <<gitVars, lockVars, journal, freezes, done, loc, boundVars>>

\* append_mutations_tx: the AUTOINCREMENT sequence is never reused.
AppendMutation(row) ==
    /\ lastSeq < scope.muts
    /\ lastSeq' = lastSeq + 1
    /\ LET m == [seq |-> lastSeq + 1, row |-> row]
       IN pending' = pending \cup {m} /\ admitted' = admitted \cup {m}
    /\ UNCHANGED <<gitVars, lockVars, journal, freezes, done, loc, boundVars>>

\* Faulty: one mutation past the frozen checkpoint.
PendingThroughNext(intent) == {m \in pending : m.seq <= freezes[intent] + 1}

\* pending_table_mutations_through
PendingThrough(intent) == {m \in pending : m.seq <= freezes[intent]}

\* complete_publication: one transaction, which may be repeated for the same
\* commit.  An intent belongs to one candidate, so the refusal of a second
\* commit is never met; it would stop the publisher here.
CompletePublication(intent, commit) ==
    /\ done[intent] \in {None, commit}
    /\ done' = [done EXCEPT ![intent] = commit]
    /\ pending' = pending \ PendingThrough(intent)
    /\ UNCHANGED <<lastSeq, admitted, freezes>>

-----------------------------------------------------------------------------
(* Tests and writes of the repository.                                     *)

\* GitIndexLock::reclaim_bound: removes the lock of a dead publisher whose
\* binding is `bind`; None is the orphan form, which accepts any binding.
Reclaimable(bind) == ilock # None /\ ilock.owner = None /\ bind \in {None, ilock.bind}

AfterReclaim(bind) == IF Reclaimable(bind) THEN None ELSE ilock

\* Faulty: looks at the current branch only.
HeadContains(c) == HasCommit(head, c)

BranchContains(c) == \E b \in {head, side} \ {None} : HasCommit(b, c)

\* reconcile_store_worktree_transition: each store file must hold the bytes
\* of the captured index or of the candidate.
StoreReconcilable(old, new) == wt \in {old, Tip(new)}

\* verify_index_matches_candidate takes index.lock for the comparison.
IndexVerified(c) == ilock = None /\ idx = Tip(c)

\* head_contains_commit and verify_reconciled_index
PublicationVerified(c) == HasCommit(head, c) /\ IndexVerified(c)

\* Commit c contains the candidate of a journal whose index may not have
\* followed yet.
Unreconciled(c) ==
    journal # None /\ journal.stage \in {"Prepared", "RefAdvanced"} /\ HasCommit(c, journal.new)

-----------------------------------------------------------------------------
(* RuntimePublicationCoordinator::recover.                                 *)

\* recover reads the journal under a short hold of the coordination lock and
\* loads the frozen intent.
RecoverRead(p) ==
    /\ loc[p].pc = "idle"
    /\ coord = None
    /\ loc' = [loc EXCEPT ![p] =
         IF journal = None THEN [Idle EXCEPT !.pc = "recover", !.mode = "recover"]
         ELSE [pc |-> IF journal.stage \in {"RuntimeCompleted", "Complete"}
                      THEN "recoverRuntime" ELSE "recover",
               mode |-> "recover", intent |-> journal.intent,
               base |-> journal.old, index |-> journal.index, cand |-> journal.new]]
    /\ UNCHANGED <<gitVars, lockVars, journal, runtimeVars, boundVars>>

\* A journal past RuntimeCompleted: finish the runtime step first.
RecoverRuntime(p) ==
    /\ loc[p].pc = "recoverRuntime"
    /\ CompletePublication(loc[p].intent, loc[p].cand)
    /\ Goto(p, "recover")
    /\ UNCHANGED <<gitVars, lockVars, journal, boundVars>>

\* Faulty: an orphan lock is left in place.
RecoverNothingKeepsLock(p) ==
    /\ Goto(p, "select")
    /\ UNCHANGED <<gitVars, lockVars, journal, runtimeVars, boundVars>>

\* recover_publication without a journal: an orphan lock of a publisher that
\* died before it wrote Prepared is reclaimed.
RecoverNothing(p) ==
    /\ ilock' = AfterReclaim(None)
    /\ Goto(p, "select")
    /\ UNCHANGED <<gitVars, coord, journal, runtimeVars, boundVars>>

\* A Prepared journal whose candidate no branch holds published nothing: it
\* is dropped and the batch stays pending.
RecoverDiscard(p) ==
    /\ ilock' = AfterReclaim(journal.intent)
    /\ journal' = None
    /\ Goto(p, "select")
    /\ UNCHANGED <<gitVars, coord, runtimeVars, boundVars>>

\* Faulty: a branch that names the candidate is taken for a finished publication.
RecoverResumeSkips(p) ==
    /\ coord' = p
    /\ ilock' = AfterReclaim(journal.intent)
    /\ Goto(p, "clear")
    /\ UNCHANGED <<gitVars, journal, runtimeVars, boundVars>>

\* The abandoned lock is removed, then the reconciliation takes a new one.
RecoverResume(p) ==
    /\ coord' = p
    /\ ilock' = AfterReclaim(journal.intent)
    /\ Goto(p, "reacquire")
    /\ UNCHANGED <<gitVars, journal, runtimeVars, boundVars>>

\* The abandoned lock is removed, then the publication is refused.
RecoverConflict(p) ==
    /\ ilock' = AfterReclaim(journal.intent)
    /\ loc' = [loc EXCEPT ![p] = Idle]
    /\ UNCHANGED <<gitVars, coord, journal, runtimeVars, boundVars>>

\* RuntimeCompletionRequired: only a recovery that read this journal goes on.
RecoverRuntimeRequired(p) ==
    /\ coord' = None
    /\ IF loc[p].intent = None
       THEN loc' = [loc EXCEPT ![p] = Idle]
       ELSE Goto(p, "complete")

RecoverVerified(p) ==
    /\ ilock' = AfterReclaim(journal.intent)
    /\ RecoverRuntimeRequired(p)
    /\ UNCHANGED <<gitVars, journal, runtimeVars, boundVars>>

\* RuntimeCompleted advances to Complete, Complete is cleared.
RecoverFinish(p) ==
    /\ coord' = p
    /\ ilock' = AfterReclaim(journal.intent)
    /\ Goto(p, IF journal.stage = "RuntimeCompleted" THEN "final" ELSE "clear")
    /\ UNCHANGED <<gitVars, journal, runtimeVars, boundVars>>

\* recover_publication re-reads the journal under the coordination lock.
RecoverRepository(p) ==
    /\ loc[p].pc = "recover"
    /\ LET free == AfterReclaim(journal.intent) = None
           published == HasCommit(head, journal.new)
           indexed == idx = Tip(journal.new)
       IN \/ coord # None /\ Refused(p)
          \/ /\ coord = None
             /\ \/ journal = None /\ RecoverNothing(p)
                \/ /\ journal # None
                   /\ \/ ~free /\ Refused(p)
                      \/ /\ free
                         /\ \/ /\ journal.stage = "Prepared"
                               /\ ~published
                               /\ ~BranchContains(journal.new)
                               /\ RecoverDiscard(p)
                            \/ /\ journal.stage \in {"Prepared", "RefAdvanced", "IndexReconciled"}
                               /\ head = journal.new
                               /\ RecoverResume(p)
                            \/ /\ journal.stage \in {"Prepared", "RefAdvanced", "IndexReconciled"}
                               /\ head # journal.new
                               /\ journal.stage = "Prepared" => BranchContains(journal.new)
                               /\ RecoverConflict(p)
                            \/ /\ journal.stage = "WorktreeReconciled"
                               /\ published /\ indexed
                               /\ RecoverVerified(p)
                            \/ /\ journal.stage \in {"RuntimeCompleted", "Complete"}
                               /\ published /\ indexed
                               /\ RecoverFinish(p)
                            \/ /\ journal.stage \in {"WorktreeReconciled", "RuntimeCompleted", "Complete"}
                               /\ ~(published /\ indexed)
                               /\ RecoverConflict(p)

\* GitIndexLock::acquire_owned in recover_publication.
Reacquire(p) ==
    /\ loc[p].pc = "reacquire"
    /\ \/ /\ ilock = None
          /\ ilock' = [owner |-> p, bind |-> journal.intent]
          /\ Goto(p, CASE journal.stage = "Prepared" -> "advance"
                       [] journal.stage = "RefAdvanced" -> "store"
                       [] OTHER -> "verifyStore")
          /\ UNCHANGED <<gitVars, coord, journal, runtimeVars, boundVars>>
       \/ ilock # None /\ Refused(p)

\* An IndexReconciled journal: an edited store file is a conflict.
VerifyStore(p) ==
    /\ loc[p].pc = "verifyStore"
    /\ \/ /\ StoreReconcilable(journal.index, journal.new)
          /\ Goto(p, "worktree")
          /\ UNCHANGED <<gitVars, lockVars, journal, runtimeVars, boundVars>>
       \/ ~StoreReconcilable(journal.index, journal.new) /\ Refused(p)

-----------------------------------------------------------------------------
(* The command: select and freeze a prefix, capture the base, build.       *)

\* No new range is selected while a journal is present.  The bound on
\* intents stops the command here.
Select(p) ==
    /\ loc[p].pc = "select"
    /\ LET selects == coord = None /\ journal = None /\ pending # {} /\ Len(freezes) < MaxIntent
       IN \/ /\ selects
             /\ Goto(p, "freeze")
             /\ UNCHANGED <<gitVars, lockVars, journal, runtimeVars, boundVars>>
          \/ ~selects /\ Refused(p)

\* RuntimeState::freeze: a fresh intent at the newest checkpoint.
Freeze(p) ==
    /\ loc[p].pc = "freeze"
    /\ freezes' = Append(freezes, lastSeq)
    /\ done' = Append(done, None)
    /\ loc' = [loc EXCEPT ![p] = [Idle EXCEPT !.pc = "capture", !.intent = Len(freezes) + 1]]
    /\ UNCHANGED <<gitVars, lockVars, journal, pending, lastSeq, admitted, boundVars>>

\* head() and index_generation(); the latter refuses while index.lock exists.
Capture(p) ==
    /\ loc[p].pc = "capture"
    /\ \/ /\ ilock = None
          /\ loc' = [loc EXCEPT ![p] =
                       [@ EXCEPT !.pc = "readTail", !.base = head, !.index = idx]]
          /\ UNCHANGED <<gitVars, lockVars, journal, runtimeVars, boundVars>>
       \/ ilock # None /\ Refused(p)

\* prepare_allow_noop: the candidate is the base plus the frozen prefix.
ReadTail(p) ==
    /\ loc[p].pc = "readTail"
    /\ LET l == loc[p]
           frozen == PendingThrough(l.intent)
           rows == Tip(l.base) \cup RowsOf(frozen)
       IN \/ frozen = {} /\ Refused(p)
          \/ /\ frozen # {}
             /\ loc' = [loc EXCEPT ![p] =
                   IF rows = Tip(l.base) THEN [l EXCEPT !.pc = "noop"]
                   ELSE [l EXCEPT !.pc = "build",
                          !.cand = Append(l.base, [rows |-> rows, by |-> l.intent])]]
             /\ UNCHANGED <<gitVars, lockVars, journal, runtimeVars, boundVars>>

\* A prefix that changes no row is consumed without a commit.
NoVisibleChange(p) ==
    /\ loc[p].pc = "noop"
    /\ CompletePublication(loc[p].intent, loc[p].base)
    /\ Exit(p)
    /\ spoiled' = (spoiled \/ Unreconciled(loc[p].base))
    /\ UNCHANGED <<gitVars, journal, scope, users, crashes>>

\* capture_managed_publication_state, then the assertion gate on the candidate.
Build(p) ==
    /\ loc[p].pc = "build"
    /\ LET valid == /\ coord = None /\ ilock = None
                    /\ head = loc[p].base /\ idx = loc[p].index
                    /\ Tip(loc[p].cand) \notin scope.unsound
       IN \/ /\ valid
             /\ Goto(p, "publish")
             /\ UNCHANGED <<gitVars, lockVars, journal, runtimeVars, boundVars>>
          \/ ~valid /\ Refused(p)

-----------------------------------------------------------------------------
(* publish_candidate_body, under the coordination lock.                    *)

\* Faulty: replaces a retained journal.
PublishEnterReplaces(p) ==
    /\ loc[p].pc = "publish"
    /\ LET admissible == ilock = None /\ idx = loc[p].index
       IN \/ /\ coord = None /\ admissible
             /\ coord' = p
             /\ Goto(p, "lock")
             /\ UNCHANGED <<gitVars, ilock, journal, runtimeVars, boundVars>>
          \/ ~(coord = None /\ admissible) /\ Refused(p)

\* A retained journal is never replaced; the index must hold the captured tree.
PublishEnter(p) ==
    /\ loc[p].pc = "publish"
    /\ LET admissible == journal = None /\ ilock = None /\ idx = loc[p].index
       IN \/ /\ coord = None /\ admissible
             /\ coord' = p
             /\ Goto(p, "lock")
             /\ UNCHANGED <<gitVars, ilock, journal, runtimeVars, boundVars>>
          \/ ~(coord = None /\ admissible) /\ Refused(p)

\* Git's own writer lock is taken before any intent is persisted.
LockIndex(p) ==
    /\ loc[p].pc = "lock"
    /\ \/ /\ AfterReclaim(loc[p].intent) = None
          /\ ilock' = [owner |-> p, bind |-> loc[p].intent]
          /\ Goto(p, "prepare")
          /\ UNCHANGED <<gitVars, coord, journal, runtimeVars, boundVars>>
       \/ AfterReclaim(loc[p].intent) # None /\ Refused(p)

\* The ref and the store files are revalidated, then Prepared is written.
Prepare(p) ==
    /\ loc[p].pc = "prepare"
    /\ LET valid == head = loc[p].base /\ StoreReconcilable(loc[p].index, loc[p].cand)
       IN \/ /\ valid
             /\ journal' = JournalOf(loc[p], "Prepared")
             /\ Goto(p, "cas")
             /\ UNCHANGED <<gitVars, lockVars, runtimeVars, boundVars>>
          \/ ~valid /\ Refused(p)

\* A refused compare-and-set drops the journal if no branch has the candidate.
AbandonPrepared(p) ==
    /\ journal' = IF BranchContains(loc[p].cand) THEN journal ELSE None
    /\ Exit(p)
    /\ UNCHANGED <<gitVars, runtimeVars, boundVars>>

\* Faulty: moves the branch without an expected value.
AdvanceRefForced(p) ==
    /\ loc[p].pc = "cas"
    /\ head' = loc[p].cand
    /\ Goto(p, "confirm")
    /\ UNCHANGED <<side, idx, wt, lockVars, journal, runtimeVars, boundVars>>

\* require_index_unchanged, then the ref transaction of advance_current_ref_bound.
AdvanceRef(p) ==
    /\ loc[p].pc = "cas"
    /\ LET valid == idx = loc[p].index /\ head = loc[p].base
       IN \/ /\ valid
             /\ head' = loc[p].cand
             /\ Goto(p, "confirm")
             /\ UNCHANGED <<side, idx, wt, lockVars, journal, runtimeVars, boundVars>>
          \/ ~valid /\ AbandonPrepared(p)

\* The ref is read back before anything relies on it.
ConfirmRef(p) ==
    /\ loc[p].pc = "confirm"
    /\ \/ /\ head = loc[p].cand
          /\ Goto(p, "advance")
          /\ UNCHANGED <<gitVars, lockVars, journal, runtimeVars, boundVars>>
       \/ head # loc[p].cand /\ AbandonPrepared(p)

-----------------------------------------------------------------------------
(* Reconciliation, shared by the publisher and by recovery: the holder of  *)
(* the coordination lock works on the journal it wrote or read.            *)

WriteStage(p, stage, pc) ==
    /\ journal' = [journal EXCEPT !.stage = stage]
    /\ Goto(p, pc)

RefAdvanced(p) ==
    /\ loc[p].pc = "advance"
    /\ WriteStage(p, "RefAdvanced", "store")
    /\ UNCHANGED <<gitVars, lockVars, runtimeVars, boundVars>>

\* Faulty: relies on the check made before Prepared was written.
InstallStoreUnchecked(p) ==
    /\ loc[p].pc = "store"
    /\ wt' = Tip(journal.new)
    /\ Goto(p, "index")
    /\ UNCHANGED <<head, side, idx, lockVars, journal, runtimeVars, boundVars>>

\* reconcile_published_index_locked rewrites the store files ...
InstallStore(p) ==
    /\ loc[p].pc = "store"
    /\ LET valid == /\ head = journal.new
                    /\ StoreReconcilable(journal.index, journal.new)
                    /\ loc[p].mode = "recover" => idx \in {journal.index, Tip(journal.new)}
       IN \/ /\ valid
             /\ wt' = Tip(journal.new)
             /\ Goto(p, "index")
             /\ UNCHANGED <<head, side, idx, lockVars, journal, runtimeVars, boundVars>>
          \/ ~valid /\ Refused(p)

\* ... then replaces the ordinary index if it is still the captured one.
InstallIndex(p) ==
    /\ loc[p].pc = "index"
    /\ LET valid == /\ head = journal.new
                    /\ \/ idx = journal.index
                       \/ loc[p].mode = "recover" /\ idx = Tip(journal.new)
       IN \/ /\ valid
             /\ idx' = Tip(journal.new)
             /\ Goto(p, "indexed")
             /\ UNCHANGED <<head, side, wt, lockVars, journal, runtimeVars, boundVars>>
          \/ ~valid /\ Refused(p)

IndexReconciled(p) ==
    /\ loc[p].pc = "indexed"
    /\ WriteStage(p, "IndexReconciled", "worktree")
    /\ UNCHANGED <<gitVars, lockVars, runtimeVars, boundVars>>

\* The last stage of the repository; both locks are released.
WorktreeReconciled(p) ==
    /\ loc[p].pc = "worktree"
    /\ journal' = [journal EXCEPT !.stage = "WorktreeReconciled"]
    /\ ilock' = None
    /\ RecoverRuntimeRequired(p)
    /\ UNCHANGED <<gitVars, runtimeVars, boundVars>>

-----------------------------------------------------------------------------
(* RuntimePublicationCoordinator::complete and the end of recover.         *)

\* Ref and index are verified before the tail is consumed; recovery also
\* re-reads the journal.
VerifyPublished(p) ==
    /\ loc[p].pc = "complete"
    /\ LET l == loc[p]
           valid == /\ PublicationVerified(l.cand)
                    /\ l.mode = "recover" =>
                          coord = None /\ journal = JournalOf(l, "WorktreeReconciled")
       IN \/ /\ valid
             /\ Goto(p, "consume")
             /\ UNCHANGED <<gitVars, lockVars, journal, runtimeVars, boundVars>>
          \/ ~valid /\ Refused(p)

ConsumeTail(p) ==
    /\ loc[p].pc = "consume"
    /\ CompletePublication(loc[p].intent, loc[p].cand)
    /\ Goto(p, "mark")
    /\ UNCHANGED <<gitVars, lockVars, journal, boundVars>>

\* mark_runtime_complete writes the caller's copy of the journal.
MarkRuntimeComplete(p) ==
    /\ loc[p].pc = "mark"
    /\ \/ /\ coord = None /\ PublicationVerified(loc[p].cand)
          /\ coord' = p
          /\ journal' = JournalOf(loc[p], "RuntimeCompleted")
          /\ Goto(p, "final")
          /\ spoiled' = (spoiled \/ (journal # None /\ journal.intent # loc[p].intent))
          /\ UNCHANGED <<gitVars, ilock, runtimeVars, scope, users, crashes>>
       \/ ~(coord = None /\ PublicationVerified(loc[p].cand)) /\ Refused(p)

MarkComplete(p) ==
    /\ loc[p].pc = "final"
    /\ WriteStage(p, "Complete", "clear")
    /\ UNCHANGED <<gitVars, lockVars, runtimeVars, boundVars>>

\* clear_publication_journal_locked; recovery goes on to select a new range.
ClearJournal(p) ==
    /\ loc[p].pc = "clear"
    /\ journal' = None
    /\ coord' = None
    /\ loc' = [loc EXCEPT ![p] =
                 IF loc[p].mode = "recover" THEN [Idle EXCEPT !.pc = "select"] ELSE Idle]
    /\ UNCHANGED <<gitVars, ilock, runtimeVars, boundVars>>

-----------------------------------------------------------------------------
(* A person using plain Git, one command at a time.  Git honours           *)
(* index.lock and nothing of Orna's.                                       *)

GitLocked == ilock # None /\ ilock.owner = User

UserStep(op) ==
    /\ op \in scope.ops
    /\ users < scope.users
    /\ ~GitLocked
    /\ users' = users + 1
    /\ UNCHANGED <<coord, journal, runtimeVars, loc, scope, crashes, spoiled>>

\* An editor changes a store file.
EditWorktree ==
    /\ UserStep("edit")
    /\ wt' = IF Human \in wt THEN wt \ {Human} ELSE wt \cup {Human}
    /\ UNCHANGED <<head, side, idx, ilock>>

\* git add
GitAdd ==
    /\ UserStep("add")
    /\ ilock = None /\ idx # wt
    /\ idx' = wt
    /\ UNCHANGED <<head, side, wt, ilock>>

\* git commit holds index.lock while the message is edited; unrelated paths
\* may be what it is about.
GitCommitStart ==
    /\ UserStep("commit")
    /\ ilock = None
    /\ ilock' = [owner |-> User, bind |-> None]
    /\ UNCHANGED gitVars

GitCommitEnd ==
    /\ GitLocked
    /\ ilock' = None
    /\ head' = Append(head, [rows |-> idx, by |-> User])
    /\ users' = users + 1
    /\ UNCHANGED <<side, idx, wt, coord, journal, runtimeVars, loc, scope, crashes, spoiled>>

\* git revert HEAD, with a clean store
GitRevert ==
    /\ UserStep("revert")
    /\ ilock = None
    /\ Len(head) > 1
    /\ idx = Tip(head) /\ wt = idx
    /\ LET before == Tip(Front(head))
       IN /\ head' = Append(head, [rows |-> before, by |-> User])
          /\ idx' = before /\ wt' = before
    /\ UNCHANGED <<side, ilock>>

\* git reset --soft HEAD~1 takes no index.lock.
GitResetSoft ==
    /\ UserStep("reset")
    /\ Len(head) > 1
    /\ head' = Front(head)
    /\ UNCHANGED <<side, idx, wt, ilock>>

\* git branch --force side
GitBranch ==
    /\ UserStep("branch")
    /\ side # head
    /\ side' = head
    /\ UNCHANGED <<head, idx, wt, ilock>>

\* git switch, with a clean store
GitSwitch ==
    /\ UserStep("switch")
    /\ ilock = None
    /\ side \notin {None, head}
    /\ idx = Tip(head) /\ wt = idx
    /\ head' = side /\ side' = head
    /\ idx' = Tip(side) /\ wt' = Tip(side)
    /\ UNCHANGED ilock

-----------------------------------------------------------------------------
Init ==
    /\ head = <<[rows |-> {}, by |-> User]>>
    /\ side = None
    /\ idx = {} /\ wt = {}
    /\ ilock = None /\ coord = None
    /\ journal = None
    /\ pending = {} /\ lastSeq = 0 /\ admitted = {}
    /\ freezes = <<>> /\ done = <<>>
    /\ loc = [p \in Publishers |-> Idle]
    /\ scope \in Scopes
    /\ users = 0 /\ crashes = 0 /\ spoiled = FALSE

Recovery(p) ==
    \/ RecoverRead(p) \/ RecoverRuntime(p) \/ RecoverRepository(p)
    \/ Reacquire(p) \/ VerifyStore(p)

Publish(p) ==
    \/ Select(p) \/ Freeze(p) \/ Capture(p) \/ ReadTail(p)
    \/ NoVisibleChange(p) \/ Build(p)
    \/ PublishEnter(p) \/ LockIndex(p) \/ Prepare(p)
    \/ AdvanceRef(p) \/ ConfirmRef(p)

Reconcile(p) ==
    \/ RefAdvanced(p) \/ InstallStore(p) \/ InstallIndex(p)
    \/ IndexReconciled(p) \/ WorktreeReconciled(p)

Complete(p) ==
    \/ VerifyPublished(p) \/ ConsumeTail(p)
    \/ MarkRuntimeComplete(p) \/ MarkComplete(p) \/ ClearJournal(p)

Run(p) == Recovery(p) \/ Publish(p) \/ Reconcile(p) \/ Complete(p)

UserNext ==
    \/ EditWorktree \/ GitAdd \/ GitCommitStart \/ GitCommitEnd \/ GitRevert
    \/ GitResetSoft \/ GitBranch \/ GitSwitch

Next ==
    \/ \E row \in scope.rows : AppendMutation(row)
    \/ \E p \in scope.publishers : Run(p) \/ Crash(p)
    \/ UserNext

Spec == Init /\ [][Next]_vars

\* `orna publish` is run again whenever it has returned or was killed, and a
\* running process keeps taking its next step.  Nothing is assumed of the
\* person, of new mutations or of crashes.
FairSpec == Spec /\ \A p \in Publishers : WF_vars(p \in scope.publishers /\ Run(p))

-----------------------------------------------------------------------------
Steps ==
    {"idle", "recover", "recoverRuntime", "reacquire", "verifyStore", "select", "freeze",
     "capture", "readTail", "noop", "build", "publish", "lock", "prepare", "cas", "confirm",
     "advance", "store", "index", "indexed", "worktree", "complete", "consume", "mark",
     "final", "clear"}

Memory ==
    [pc : Steps, mode : {"publish", "recover"}, intent : Nat \cup {None},
     base : Seq(Version), index : Content, cand : Seq(Version)]

TypeOK ==
    /\ head \in Commits /\ side \in Commits \cup {None}
    /\ idx \in Content /\ wt \in Content
    /\ ilock \in Locks \cup {None} /\ coord \in Publishers \cup {None}
    /\ journal \in Journals \cup {None}
    /\ pending \in SUBSET Mutations /\ admitted \in SUBSET Mutations /\ lastSeq \in Nat
    /\ freezes \in Seq(Nat) /\ done \in Seq(Commits \cup {None}) /\ Len(done) = Len(freezes)
    /\ loc \in [Publishers -> Memory]
    /\ scope \in Scopes /\ users \in Nat /\ crashes \in Nat /\ spoiled \in BOOLEAN

\* Steps that are not the person's.
OrnaStep == users' = users

\* The person never performs one of these Git commands.
Without(ops) == scope.ops \cap ops = {}

\* What a reader merges: the commit HEAD names and the pending tail.
RowsReadable == RowsOf(admitted) \subseteq Tip(head) \cup RowsOf(pending)

(* A reader never misses an admitted row (ORNA-PUB-008): whatever step a   *)
(* publisher stopped at, the row is in the commit HEAD names or still in   *)
(* the pending tail.  A commit the person makes at any time, even one that *)
(* reverses the batch because the index was not reconciled yet, must not   *)
(* be followed by consuming the tail.  (A person who reverts, resets or    *)
(* switches takes rows away on purpose.  The steps that spoil this are     *)
(* the subject of the two findings.)                                       *)
NoMissingRows ==
    Without({"revert", "reset", "switch"}) /\ ~spoiled => RowsReadable

(* "reconciles the ordinary index so the published batch is not staged as  *)
(* a reversal (ORNA-PUB-010, ORNA-PUB-011), and only then consumes that    *)
(* frozen range from the runtime tail (ORNA-PUB-008)" (cli_publish.rs:9):  *)
(* a commit made with plain Git takes no row away, whoever publishes.      *)
ReconciledBeforeConsumed ==
    Without({"revert", "reset", "switch"}) => RowsReadable

(* No accidental staged reversal (ORNA-PUB-011): when no publication is in *)
(* progress, a plain `git commit` would change no row, if the person has   *)
(* staged nothing and no journal was replaced.                             *)
NoStagedReversal ==
    Without({"add", "reset"}) /\ ~spoiled => (journal = None => idx = Tip(head))

(* A completed intent took exactly its frozen prefix out of the tail, and  *)
(* the recorded commit is part of HEAD's history, whoever recorded it and  *)
(* whatever became of the journal (complete_publication,                   *)
(* mark_runtime_complete, recover).                                        *)
CompletedIsPublished ==
    \A i \in DOMAIN done : done[i] # None =>
        /\ PendingThrough(i) = {}
        /\ Without({"reset", "switch"}) => HasCommit(head, done[i])

(* An unstaged edit of a store file survives every step of Orna's          *)
(* (ORNA-PUB-010, reconcile_store_worktree_transition).  (After a soft     *)
(* reset the index can hold the batch and a staged edit before the batch   *)
(* is published again: making that edit anew in the middle of the          *)
(* publication recreates the captured bytes, which are replaced.  So can   *)
(* the loss of a journal.)                                                 *)
WorktreeEditKept ==
    [][Without({"reset"}) /\ ~spoiled /\ OrnaStep /\ Human \in wt /\ Human \notin idx
         => Human \in wt']_vars

(* Whatever the person does to the branch meanwhile, Orna moves it only    *)
(* from the commit it names to a direct child: it drops no concurrent      *)
(* commit and undoes no reset (ORNA-PUB-009).                              *)
ConcurrentMoveKept == [][OrnaStep /\ head' # head => Front(head') = head]_vars

(* The journal is given up only when the runtime has recorded the          *)
(* publication, or when no branch holds the candidate, so that the batch   *)
(* that stays pending was published nowhere (ORNA-PUB-006, ORNA-PUB-012).  *)
JournalGivenUpSafely ==
    [][journal # None /\ journal' = None =>
          \/ done[journal.intent] = journal.new
          \/ \A b \in {head, side} \ {None} : ~HasCommit(b, journal.new)]_vars

\* The commits by which Orna added a row.
Adders(c, r) == {k \in 2..Len(c) : c[k].by # User /\ r \in c[k].rows \ c[k-1].rows}

(* A mutation is published once: along HEAD's history Orna adds a row at   *)
(* most as often as mutations of it were admitted, so a person's revert of *)
(* a published row is not undone by a publisher that started earlier       *)
(* ("concurrent commits must not be overwritten", ORNA-PUB-009), unless a  *)
(* journal was replaced.  (A person who resets or switches between the two *)
(* can show the earlier publisher the reverted commit again, after the     *)
(* mutation it has read was consumed for another commit.)                  *)
PublishedOnce ==
    Without({"reset", "switch"}) /\ ~spoiled => \A r \in Rows :
        Cardinality(Adders(head, r)) <= Cardinality({m \in admitted : m.row = r})

(* A retained journal is the sole recovery authority for its candidate and *)
(* is never replaced by the journal of another publication.                *)
JournalNeverReplaced ==
    [][journal # None /\ journal' # None => journal'.intent = journal.intent]_vars

(* Every admitted mutation is eventually published and no journal stays    *)
(* behind, if nobody else touches the store.                               *)
EventuallyPublished == <>[](pending = {} /\ journal = None)

=============================================================================
