------------------------- MODULE PublicationProofs -------------------------
(***************************************************************************)
(* Proofs about Publication for any number of publishers, rows, kills and  *)
(* steps of the person.                                                    *)
(***************************************************************************)
EXTENDS Publication, FiniteSetTheorems, SequenceTheorems, TLAPS

-----------------------------------------------------------------------------
(* Commits as sequences of versions.                                       *)

(* "Is an ancestor of", element by element.                                *)
LEMMA PrefixPointwise ==
  ASSUME NEW S, NEW s \in Seq(S), NEW t \in Seq(S)
  PROVE  IsPrefix(s, t) <=> Len(s) <= Len(t) /\ \A i \in 1..Len(s) : s[i] = t[i]
<1>1. CASE Len(s) <= Len(t)
  <2>1. SubSeq(s, 1, Len(s)) \in Seq(S) /\ Len(SubSeq(s, 1, Len(s))) = Len(s)
        /\ \A i \in 1..Len(s) : SubSeq(s, 1, Len(s))[i] = s[i]
    OBVIOUS
  <2>2. SubSeq(t, 1, Len(s)) \in Seq(S) /\ Len(SubSeq(t, 1, Len(s))) = Len(s)
        /\ \A i \in 1..Len(s) : SubSeq(t, 1, Len(s))[i] = t[i]
    BY <1>1
  <2>3. SubSeq(s, 1, Len(s)) = SubSeq(t, 1, Len(s))
          <=> \A i \in 1..Len(s) : SubSeq(s, 1, Len(s))[i] = SubSeq(t, 1, Len(s))[i]
    BY <2>1, <2>2, SeqEqual
  <2> QED BY <1>1, <2>1, <2>2, <2>3 DEF IsPrefix
<1>2. CASE ~(Len(s) <= Len(t))
  BY <1>2 DEF IsPrefix
<1> QED BY <1>1, <1>2

(* Containment of commits is an order that growing keeps.                  *)
LEMMA HasCommitOrder ==
  ASSUME NEW a \in Seq(Version), NEW b \in Seq(Version), NEW c \in Seq(Version)
  PROVE  /\ HasCommit(a, a)
         /\ HasCommit(a, b) /\ HasCommit(b, c) => HasCommit(a, c)
         /\ HasCommit(a, b) /\ HasCommit(b, a) => a = b
<1>1. HasCommit(a, a)
  BY PrefixPointwise DEF HasCommit
<1>2. ASSUME HasCommit(a, b), HasCommit(b, c) PROVE HasCommit(a, c)
  <2>1. Len(b) <= Len(a) /\ \A i \in 1..Len(b) : b[i] = a[i]
    BY <1>2, PrefixPointwise DEF HasCommit
  <2>2. Len(c) <= Len(b) /\ \A i \in 1..Len(c) : c[i] = b[i]
    BY <1>2, PrefixPointwise DEF HasCommit
  <2>3. Len(c) <= Len(a) /\ \A i \in 1..Len(c) : c[i] = a[i]
    BY <2>1, <2>2
  <2> QED BY <2>3, PrefixPointwise DEF HasCommit
<1>3. ASSUME HasCommit(a, b), HasCommit(b, a) PROVE a = b
  <2>1. Len(b) <= Len(a) /\ \A i \in 1..Len(b) : b[i] = a[i]
    BY <1>3, PrefixPointwise DEF HasCommit
  <2>2. Len(a) <= Len(b)
    BY <1>3, PrefixPointwise DEF HasCommit
  <2>3. Len(a) = Len(b) /\ \A i \in 1..Len(a) : a[i] = b[i]
    BY <2>1, <2>2
  <2> QED BY <2>3, SeqEqual
<1> QED BY <1>1, <1>2, <1>3

(* A child: what its tip is, that it is new, and that nothing is lost.     *)
LEMMA ChildCommit ==
  ASSUME NEW c \in Seq(Version), NEW v \in Version
  PROVE  /\ Append(c, v) \in Commits
         /\ Append(c, v)[Len(Append(c, v))] = v
         /\ Tip(Append(c, v)) = v.rows
         /\ Front(Append(c, v)) = c
         /\ HasCommit(Append(c, v), c)
         /\ ~HasCommit(c, Append(c, v))
         /\ \A a \in Seq(Version) : HasCommit(c, a) => HasCommit(Append(c, v), a)
<1> DEFINE d == Append(c, v)
<1>1. d \in Seq(Version) /\ Len(d) = Len(c) + 1 /\ d[Len(c) + 1] = v
      /\ \A i \in 1..Len(c) : d[i] = c[i]
  OBVIOUS
<1>2. d \in Commits /\ d[Len(d)] = v
  BY <1>1 DEF Commits
<1>3. Front(d) = c
  <2>1. Front(d) \in Seq(Version) /\ Len(Front(d)) = Len(c) /\ \A i \in 1..Len(c) : Front(d)[i] = d[i]
    BY <1>1 DEF Front
  <2> QED BY <1>1, <2>1, SeqEqual
<1> HIDE DEF d
<1>4. HasCommit(d, c)
  <2>1. Len(c) <= Len(d) /\ \A i \in 1..Len(c) : c[i] = d[i]
    BY <1>1
  <2> QED BY <1>1, <2>1, PrefixPointwise DEF HasCommit
<1>5. ~HasCommit(c, d)
  <2>1. ~(Len(d) <= Len(c))
    BY <1>1
  <2> QED BY <1>1, <2>1, PrefixPointwise DEF HasCommit
<1>6. ASSUME NEW a \in Seq(Version), HasCommit(c, a) PROVE HasCommit(d, a)
  BY <1>1, <1>4, <1>6, HasCommitOrder
<1> QED BY <1>1, <1>2, <1>3, <1>4, <1>5, <1>6 DEF Tip, d

(* The tip of a commit is a content.                                       *)
LEMMA TipContent ==
  ASSUME NEW c \in Commits
  PROVE  c \in Seq(Version) /\ c # <<>> /\ Len(c) \in 1..Len(c) /\ Tip(c) \in Content
<1>1. c \in Seq(Version) /\ c # <<>> /\ Len(c) \in 1..Len(c)
  BY EmptySeq DEF Commits
<1>2. c[Len(c)] \in Version
  BY <1>1
<1> QED BY <1>1, <1>2 DEF Tip, Version

-----------------------------------------------------------------------------
Pc(p) == loc[p].pc
Staged(stages) == journal # None /\ journal.stage \in stages
Early == {"Prepared", "RefAdvanced"}
Late == {"WorktreeReconciled", "RuntimeCompleted", "Complete"}
AtRuntime == {"RuntimeCompleted", "Complete"}

-----------------------------------------------------------------------------
(* Who may touch the journal, and what it says at each step.               *)

(* publish_candidate_body, recover_publication and mark_runtime_complete   *)
(* run under the coordination lock.                                        *)
Holding ==
    {"reacquire", "verifyStore", "lock", "prepare", "cas", "confirm", "advance",
     "store", "index", "indexed", "worktree", "final", "clear"}

Exclusive == \A p \in Publishers : Pc(p) \in Holding => coord = p

(* The journal that the holder of the lock finds at each of its steps.     *)
StageAt(p) ==
    /\ Pc(p) \in {"lock", "prepare"} => journal = None
    /\ Pc(p) \in {"cas", "confirm", "advance"} => Staged({"Prepared"})
    /\ Pc(p) = "reacquire" => Staged({"Prepared", "RefAdvanced", "IndexReconciled"})
    /\ Pc(p) \in {"store", "index", "indexed"} => Staged({"RefAdvanced"})
    /\ Pc(p) \in {"verifyStore", "worktree"} => Staged({"IndexReconciled"})
    /\ Pc(p) = "final" => Staged({"RuntimeCompleted"})
    /\ Pc(p) = "clear" => Staged({"Complete"})

(* The steps of a publisher that has an intent and no journal yet.         *)
Fresh == {"capture", "readTail", "noop", "build", "publish", "lock", "prepare"}

(* Recovery works on the journal it finds; a publisher that wrote the      *)
(* journal remembers what is in it.                                        *)
Own(p) ==
    /\ Pc(p) \in {"recover", "recoverRuntime", "reacquire", "verifyStore"} => loc[p].mode = "recover"
    /\ Pc(p) \in Fresh \cup {"cas", "confirm"} => loc[p].mode = "publish"
    /\ Pc(p) \in {"cas", "confirm", "advance", "store", "index", "indexed", "worktree"}
         /\ loc[p].mode = "publish" => journal = JournalOf(loc[p], journal.stage)

JournalFollows == \A p \in Publishers : StageAt(p) /\ Own(p)

-----------------------------------------------------------------------------
(* Intents: fresh until their journal is written, and recorded once.       *)

IntentOf(p) ==
    /\ loc[p].intent # None => loc[p].intent \in DOMAIN done
    /\ Pc(p) \in Fresh \cup {"cas", "confirm", "complete", "consume", "mark", "recoverRuntime"}
         => loc[p].intent # None
    /\ Pc(p) \in Fresh =>
         /\ journal # None => journal.intent # loc[p].intent
         /\ \A q \in Publishers \ {p} : loc[q].intent # loc[p].intent
    /\ Pc(p) \in {"complete", "consume", "mark"} /\ journal # None /\ journal.intent = loc[p].intent
         => journal.stage \in Late

Intents ==
    /\ journal # None => journal.intent \in DOMAIN done
    /\ \A p \in Publishers : IntentOf(p)

(* The candidate is a child of the captured base and keeps its rows.       *)
Child(base, cand) ==
    /\ base \in Commits /\ cand \in Commits
    /\ cand = Append(base, cand[Len(cand)]) /\ Tip(base) \subseteq Tip(cand)

Candidates ==
    \A p \in Publishers :
        /\ Pc(p) \in {"readTail", "noop"} => loc[p].base \in Commits
        /\ Pc(p) \in {"build", "publish", "lock", "prepare", "cas"} => Child(loc[p].base, loc[p].cand)
        /\ Pc(p) \in {"confirm", "complete", "consume", "mark", "recoverRuntime"}
             => loc[p].base \in Commits /\ loc[p].cand \in Commits
        /\ loc[p].mode = "recover" /\ loc[p].intent # None
             => loc[p].base \in Commits /\ loc[p].cand \in Commits

(* What the runtime has recorded: the journal and the memory agree with it. *)
Recorded ==
    /\ Staged({"RuntimeCompleted", "Complete"}) => done[journal.intent] = journal.new
    /\ \A p \in Publishers :
         Pc(p) \in {"mark", "recoverRuntime"} => done[loc[p].intent] = loc[p].cand

(* A frozen range never takes mutations admitted later, and is gone once   *)
(* its intent is completed.                                                *)
Ranges ==
    \A i \in DOMAIN done : freezes[i] <= lastSeq /\ (done[i] # None => PendingThrough(i) = {})

(* HEAD only grows, so what it contained it still contains.                *)
History ==
    Without({"reset", "switch"}) =>
        /\ \A i \in DOMAIN done : done[i] # None => HasCommit(head, done[i])
        /\ \A p \in Publishers :
             /\ Pc(p) \in {"readTail", "noop"} => HasCommit(head, loc[p].base)
             /\ Pc(p) \in {"consume", "mark"} => HasCommit(head, loc[p].cand)

-----------------------------------------------------------------------------
(* The index follows HEAD unless a journal says that it may not yet.       *)

Torn(c) == Unreconciled(c) /\ \A p \in Publishers : Pc(p) # "indexed"

IndexFollows ==
    Without({"add", "reset"}) /\ ~spoiled => idx = Tip(head) \/ Torn(head)

-----------------------------------------------------------------------------
(* Rows that neither a commit nor a `git add` can take away any more.      *)

Safe(rows) == \A r \in rows \cap Rows : r \in Tip(head) /\ r \in idx /\ r \in wt

Covered(i, c) == \A m \in PendingThrough(i) : m.row \in Tip(c)

(* A candidate, and a base found to need no candidate, holds its range.    *)
Coverage ==
    /\ journal # None => Covered(journal.intent, journal.new)
    /\ \A p \in Publishers :
         /\ loc[p].cand # <<>> => loc[p].intent # None /\ Covered(loc[p].intent, loc[p].cand)
         /\ Pc(p) = "noop" => Covered(loc[p].intent, loc[p].base)

Consumed == {m.row : m \in admitted \ pending}

Chained == \A r \in Rows : (r \in Tip(head) => r \in idx) /\ (r \in idx => r \in wt)

RowsKept ==
    Without({"revert", "reset", "switch"}) /\ ~spoiled =>
        /\ Safe(Consumed)
        /\ Chained \/ Torn(head)
        /\ journal # None /\ journal.stage \notin Early => Safe(Tip(journal.new))
        /\ \A p \in Publishers :
             /\ Pc(p) = "index" => \A r \in Rows \cap Tip(journal.new) : r \in wt
             /\ Pc(p) = "indexed" => Safe(Tip(journal.new))
             /\ \/ Pc(p) \in {"consume", "mark"}
                \/ Pc(p) = "complete" /\ loc[p].mode = "publish"
                => Safe(Tip(loc[p].cand))
             /\ Pc(p) \in {"readTail", "noop"} => Safe(Tip(loc[p].base)) \/ Torn(loc[p].base)

-----------------------------------------------------------------------------
(* The invariant of the protocol's control.                                *)

Control ==
    TypeOK /\ Exclusive /\ JournalFollows /\ Intents /\ Candidates /\ Recorded

-----------------------------------------------------------------------------
(* The shapes of a publisher's steps, without index.lock.                  *)

Still == UNCHANGED <<gitVars, runtimeVars, scope, users, spoiled>>

(* The command ends: a refusal, a conflict, a kill.                        *)
Leaves(p) ==
    /\ loc' = [loc EXCEPT ![p] = Idle]
    /\ coord' = IF coord = p THEN None ELSE coord
    /\ UNCHANGED journal /\ Still

Walk(p, pc) == Goto(p, pc) /\ UNCHANGED <<coord, journal>> /\ Still

Walks(p) ==
    \/ Pc(p) = "recover" /\ coord = None /\ journal = None /\ Walk(p, "select")
    \/ /\ Pc(p) = "recover" /\ coord = None /\ Staged({"WorktreeReconciled"})
       /\ loc[p].intent # None /\ Walk(p, "complete")
    \/ Pc(p) = "reacquire" /\ journal.stage = "Prepared" /\ Walk(p, "advance")
    \/ Pc(p) = "reacquire" /\ journal.stage = "RefAdvanced" /\ Walk(p, "store")
    \/ Pc(p) = "reacquire" /\ journal.stage \notin Early /\ Walk(p, "verifyStore")
    \/ Pc(p) = "verifyStore" /\ Walk(p, "worktree")
    \/ Pc(p) = "select" /\ Walk(p, "freeze")
    \/ Pc(p) = "build" /\ Walk(p, "publish")
    \/ Pc(p) = "lock" /\ Walk(p, "prepare")
    \/ Pc(p) = "confirm" /\ Walk(p, "advance")
    \/ /\ Pc(p) = "complete" /\ HasCommit(head, loc[p].cand)
       /\ loc[p].mode = "recover" => journal = JournalOf(loc[p], "WorktreeReconciled")
       /\ Walk(p, "consume")

Enter(p, pc) == coord = None /\ coord' = p /\ Goto(p, pc) /\ UNCHANGED journal /\ Still

Enters(p) ==
    \/ Pc(p) = "publish" /\ journal = None /\ Enter(p, "lock")
    \/ /\ Pc(p) = "recover" /\ Staged({"Prepared", "RefAdvanced", "IndexReconciled"})
       /\ Enter(p, "reacquire")
    \/ Pc(p) = "recover" /\ Staged({"RuntimeCompleted"}) /\ Enter(p, "final")
    \/ Pc(p) = "recover" /\ Staged({"Complete"}) /\ Enter(p, "clear")

Discards(p) ==
    /\ Pc(p) = "recover" /\ coord = None
    /\ Staged({"Prepared"}) /\ ~BranchContains(journal.new)
    /\ journal' = None /\ Goto(p, "select") /\ UNCHANGED coord /\ Still

Abandons(p) ==
    /\ Pc(p) \in {"cas", "confirm"} /\ ~BranchContains(loc[p].cand)
    /\ journal' = None
    /\ loc' = [loc EXCEPT ![p] = Idle]
    /\ coord' = IF coord = p THEN None ELSE coord
    /\ Still

Captures(p) ==
    /\ Pc(p) = "capture"
    /\ loc' = [loc EXCEPT ![p] = [loc[p] EXCEPT !.pc = "readTail", !.base = head, !.index = idx]]
    /\ UNCHANGED <<coord, journal>> /\ Still

FindsNothing(p) ==
    /\ Pc(p) = "readTail"
    /\ \A m \in PendingThrough(loc[p].intent) : m.row \in Tip(loc[p].base)
    /\ Walk(p, "noop")

Builds(p) ==
    /\ Pc(p) = "readTail"
    /\ \E m \in PendingThrough(loc[p].intent) : m.row \notin Tip(loc[p].base)
    /\ loc' = [loc EXCEPT ![p] = [loc[p] EXCEPT !.pc = "build",
                 !.cand = Append(loc[p].base,
                            [rows |-> Tip(loc[p].base) \cup RowsOf(PendingThrough(loc[p].intent)),
                             by |-> loc[p].intent])]]
    /\ UNCHANGED <<coord, journal>> /\ Still

Prepares(p) ==
    /\ Pc(p) = "prepare" /\ head = loc[p].base
    /\ journal' = JournalOf(loc[p], "Prepared")
    /\ Goto(p, "cas") /\ UNCHANGED coord /\ Still

Advances(p) ==
    /\ Pc(p) = "cas" /\ idx = loc[p].index /\ head = loc[p].base /\ head' = loc[p].cand
    /\ Goto(p, "confirm")
    /\ UNCHANGED <<side, idx, wt, coord, journal, runtimeVars, scope, users, spoiled>>

InstallsStore(p) ==
    /\ Pc(p) = "store" /\ head = journal.new /\ wt' = Tip(journal.new)
    /\ StoreReconcilable(journal.index, journal.new)
    /\ loc[p].mode = "recover" => idx \in {journal.index, Tip(journal.new)}
    /\ Goto(p, "index")
    /\ UNCHANGED <<head, side, idx, coord, journal, runtimeVars, scope, users, spoiled>>

InstallsIndex(p) ==
    /\ Pc(p) = "index" /\ head = journal.new /\ idx' = Tip(journal.new)
    /\ Goto(p, "indexed")
    /\ UNCHANGED <<head, side, wt, coord, journal, runtimeVars, scope, users, spoiled>>

Marks(p) ==
    /\ Pc(p) = "mark" /\ coord = None /\ coord' = p
    /\ PublicationVerified(loc[p].cand)
    /\ journal' = JournalOf(loc[p], "RuntimeCompleted")
    /\ Goto(p, "final")
    /\ spoiled' = (spoiled \/ (journal # None /\ journal.intent # loc[p].intent))
    /\ UNCHANGED <<gitVars, runtimeVars, scope, users>>

Shaped(p) ==
    \/ Leaves(p) \/ Walks(p) \/ Enters(p)
    \/ RecoverRead(p) \/ RecoverRuntime(p) \/ Discards(p)
    \/ Freeze(p) \/ Captures(p) \/ FindsNothing(p) \/ Builds(p) \/ NoVisibleChange(p)
    \/ Prepares(p) \/ Abandons(p) \/ Advances(p)
    \/ RefAdvanced(p) \/ InstallsStore(p) \/ InstallsIndex(p)
    \/ IndexReconciled(p) \/ WorktreeReconciled(p)
    \/ ConsumeTail(p) \/ Marks(p) \/ MarkComplete(p) \/ ClearJournal(p)

(* Refused, Exit and a kill look the same from outside.                    *)
LEMMA RefusedLeaves ==
  ASSUME NEW p \in Publishers, Refused(p) PROVE Leaves(p)
  BY DEF Refused, Exit, Released, Leaves, Still, boundVars

(* So does a refused compare-and-set, or it drops the journal.             *)
LEMMA AbandonShape ==
  ASSUME NEW p \in Publishers, Pc(p) \in {"cas", "confirm"}, AbandonPrepared(p)
  PROVE  Leaves(p) \/ Abandons(p)
  BY DEF AbandonPrepared, Exit, Released, Leaves, Abandons, Still, boundVars

(* Every branch of recover_publication has one of the shapes.              *)
LEMMA RecoverShape ==
  ASSUME TypeOK, NEW p \in Publishers, RecoverRepository(p)
  PROVE  Shaped(p)
<1> USE DEF Pc, Staged, Still, boundVars, Shaped
<1>0. journal # None => journal.stage \in Stages
  BY DEF TypeOK, Journals
<1>1. CASE Refused(p)
  BY <1>1, RefusedLeaves
<1>2. CASE ~Refused(p)
  <2>1. coord = None /\ Pc(p) = "recover"
    BY <1>2 DEF RecoverRepository
  <2>2. CASE journal = None
    BY <2>1, <2>2, <1>2 DEF RecoverRepository, RecoverNothing, Walks, Walk
  <2>3. CASE journal # None /\ RecoverDiscard(p) /\ journal.stage = "Prepared" /\ ~BranchContains(journal.new)
    BY <2>1, <2>3 DEF RecoverDiscard, Discards
  <2>4. CASE journal # None /\ RecoverResume(p) /\ journal.stage \in {"Prepared", "RefAdvanced", "IndexReconciled"}
    BY <2>1, <2>4 DEF RecoverResume, Enters, Enter
  <2>5. CASE RecoverConflict(p)
    BY <2>1, <2>5 DEF RecoverConflict, Leaves
  <2>6. CASE journal # None /\ RecoverVerified(p) /\ journal.stage = "WorktreeReconciled"
    BY <2>1, <2>6 DEF RecoverVerified, RecoverRuntimeRequired, Leaves, Walks, Walk
  <2>7. CASE journal # None /\ RecoverFinish(p) /\ journal.stage \in {"RuntimeCompleted", "Complete"}
    BY <2>1, <2>7 DEF RecoverFinish, Enters, Enter
  <2> QED BY <2>1, <2>2, <2>3, <2>4, <2>5, <2>6, <2>7, <1>2 DEF RecoverRepository
<1> QED BY <1>1, <1>2

(* The frozen prefix either changes nothing or makes a candidate.          *)
LEMMA ReadShape ==
  ASSUME TypeOK, NEW p \in Publishers, ReadTail(p), ~Refused(p)
  PROVE  FindsNothing(p) \/ Builds(p)
<1> USE DEF Pc, Still, boundVars
<1> DEFINE rows == Tip(loc[p].base) \cup RowsOf(PendingThrough(loc[p].intent))
<1>1. Pc(p) = "readTail" /\ UNCHANGED <<coord, journal>> /\ Still
      /\ loc' = [loc EXCEPT ![p] =
                   IF rows = Tip(loc[p].base) THEN [loc[p] EXCEPT !.pc = "noop"]
                   ELSE [loc[p] EXCEPT !.pc = "build",
                      !.cand = Append(loc[p].base, [rows |-> rows, by |-> loc[p].intent])]]
  BY DEF ReadTail, lockVars
<1>2. CASE rows = Tip(loc[p].base)
  <2>1. loc' = [loc EXCEPT ![p] = [loc[p] EXCEPT !.pc = "noop"]]
    BY <1>1, <1>2
  <2>2. Goto(p, "noop")
    BY <2>1 DEF Goto, TypeOK
  <2>3. \A m \in PendingThrough(loc[p].intent) : m.row \in Tip(loc[p].base)
    BY <1>2 DEF RowsOf
  <2> QED BY <1>1, <2>2, <2>3 DEF FindsNothing, Walk
<1>3. CASE rows # Tip(loc[p].base)
  <2>1. \E m \in PendingThrough(loc[p].intent) : m.row \notin Tip(loc[p].base)
    BY <1>3 DEF RowsOf
  <2> QED BY <1>1, <1>3, <2>1 DEF Builds
<1> QED BY <1>2, <1>3

(* So has every other step.                                                *)
LEMMA Shapes ==
  ASSUME TypeOK, NEW p \in Publishers, Run(p) \/ Crash(p)
  PROVE  Shaped(p)
<1> USE DEF Pc, Staged, Still, boundVars, Shaped
<1>1. CASE Crash(p)
  BY <1>1 DEF Crash, Leaves
<1>2. CASE RecoverRead(p) \/ RecoverRuntime(p) \/ Freeze(p) \/ NoVisibleChange(p) \/ RefAdvanced(p)
           \/ IndexReconciled(p) \/ WorktreeReconciled(p) \/ ConsumeTail(p) \/ MarkComplete(p)
           \/ ClearJournal(p)
  BY <1>2
<1>3. CASE RecoverRepository(p)
  BY <1>3, RecoverShape
<1>4. CASE Reacquire(p)
  BY <1>4, RefusedLeaves DEF Reacquire, Walks, Walk, Early
<1>5. CASE VerifyStore(p)
  BY <1>5, RefusedLeaves DEF VerifyStore, Walks, Walk, lockVars
<1>6. CASE Select(p)
  BY <1>6, RefusedLeaves DEF Select, Walks, Walk, lockVars
<1>7. CASE Capture(p)
  BY <1>7, RefusedLeaves DEF Capture, Captures, lockVars
<1>8. CASE ReadTail(p)
  BY <1>8, RefusedLeaves, ReadShape
<1>9. CASE Build(p)
  BY <1>9, RefusedLeaves DEF Build, Walks, Walk, lockVars
<1>10. CASE PublishEnter(p)
  BY <1>10, RefusedLeaves DEF PublishEnter, Enters, Enter
<1>11. CASE LockIndex(p)
  BY <1>11, RefusedLeaves DEF LockIndex, Walks, Walk
<1>12. CASE Prepare(p)
  BY <1>12, RefusedLeaves DEF Prepare, Prepares, lockVars
<1>13. CASE AdvanceRef(p)
  BY <1>13, AbandonShape DEF AdvanceRef, Advances, lockVars
<1>14. CASE ConfirmRef(p)
  BY <1>14, AbandonShape DEF ConfirmRef, Walks, Walk, lockVars
<1>15. CASE InstallStore(p)
  BY <1>15, RefusedLeaves DEF InstallStore, InstallsStore, lockVars
<1>16. CASE InstallIndex(p)
  BY <1>16, RefusedLeaves DEF InstallIndex, InstallsIndex, lockVars
<1>17. CASE VerifyPublished(p)
  BY <1>17, RefusedLeaves DEF VerifyPublished, PublicationVerified, Walks, Walk, lockVars
<1>18. CASE MarkRuntimeComplete(p)
  BY <1>18, RefusedLeaves DEF MarkRuntimeComplete, Marks, lockVars
<1> QED BY <1>1, <1>2, <1>3, <1>4, <1>5, <1>6, <1>7, <1>8, <1>9, <1>10, <1>11, <1>12, <1>13,
           <1>14, <1>15, <1>16, <1>17, <1>18 DEF Run, Recovery, Publish, Reconcile, Complete

-----------------------------------------------------------------------------
(* Types.                                                                  *)

(* Going on to another step changes nothing else of the memory.            *)
LEMMA GotoFacts ==
  ASSUME loc \in [Publishers -> Memory], NEW p \in Publishers, NEW pc \in Steps, Goto(p, pc)
  PROVE  /\ loc' \in [Publishers -> Memory]
         /\ \A q \in Publishers \ {p} : loc'[q] = loc[q]
         /\ loc'[p].pc = pc /\ loc'[p].mode = loc[p].mode /\ loc'[p].intent = loc[p].intent
         /\ loc'[p].base = loc[p].base /\ loc'[p].index = loc[p].index /\ loc'[p].cand = loc[p].cand
  BY DEF Goto, Memory

(* What a process that has just started remembers.                         *)
LEMMA IdleMemory ==
  /\ Idle \in Memory
  /\ Idle.pc = "idle" /\ Idle.mode = "publish" /\ Idle.intent = None
  /\ Idle.base = <<>> /\ Idle.index = {} /\ Idle.cand = <<>>
  BY EmptySeq DEF Idle, Memory, Steps, Content

(* Where a publisher's step puts one publisher, the others stay.           *)
LEMMA PutFacts ==
  ASSUME loc \in [Publishers -> Memory], NEW p \in Publishers, NEW l \in Memory,
         loc' = [loc EXCEPT ![p] = l]
  PROVE  /\ loc' \in [Publishers -> Memory] /\ loc'[p] = l
         /\ \A q \in Publishers \ {p} : loc'[q] = loc[q]
  OBVIOUS

(* A commit with a parent has one.                                         *)
LEMMA FrontCommit ==
  ASSUME NEW c \in Commits, Len(c) > 1
  PROVE  Front(c) \in Commits
<1>1. c \in Seq(Version)
  BY TipContent
<1>2. Front(c) \in Seq(Version) /\ Len(Front(c)) = Len(c) - 1
  BY <1>1 DEF Front
<1>3. Len(Front(c)) # 0
  BY <1>1, <1>2
<1> QED BY <1>2, <1>3, EmptySeq DEF Commits

(* Recording a completed publication.                                      *)
LEMMA CompleteFacts ==
  ASSUME TypeOK, NEW i \in DOMAIN done, NEW c \in Commits, CompletePublication(i, c)
  PROVE  /\ done' \in Seq(Commits \cup {None}) /\ Len(done') = Len(done)
         /\ DOMAIN done' = DOMAIN done
         /\ done'[i] = c
         /\ \A j \in DOMAIN done : j # i => done'[j] = done[j]
         /\ \A j \in DOMAIN done : done[j] # None => done'[j] = done[j]
         /\ pending' \in SUBSET Mutations /\ pending' = pending \ PendingThrough(i)
         /\ UNCHANGED <<lastSeq, admitted, freezes>>
<1>1. done \in Seq(Commits \cup {None})
  BY DEF TypeOK
<1>2. /\ done' = [done EXCEPT ![i] = c] /\ done[i] \in {None, c}
      /\ pending' = pending \ PendingThrough(i) /\ UNCHANGED <<lastSeq, admitted, freezes>>
  BY DEF CompletePublication
<1>3. done' \in Seq(Commits \cup {None}) /\ Len(done') = Len(done) /\ DOMAIN done' = DOMAIN done
  BY <1>1, <1>2
<1>4. done'[i] = c /\ \A j \in DOMAIN done : j # i => done'[j] = done[j]
  BY <1>1, <1>2
<1>5. pending' \in SUBSET Mutations
  BY <1>2 DEF TypeOK
<1> QED BY <1>2, <1>3, <1>4, <1>5

(* What freeze appends.                                                    *)
LEMMA FreezeFacts ==
  ASSUME TypeOK, NEW p \in Publishers, Freeze(p)
  PROVE  /\ done' \in Seq(Commits \cup {None}) /\ freezes' \in Seq(Nat)
         /\ Len(done') = Len(freezes') /\ Len(freezes) + 1 \in Nat
         /\ DOMAIN done' = DOMAIN done \cup {Len(freezes) + 1}
         /\ Len(freezes) + 1 \notin DOMAIN done
         /\ done'[Len(freezes) + 1] = None /\ freezes'[Len(freezes) + 1] = lastSeq
         /\ \A i \in DOMAIN done : done'[i] = done[i] /\ freezes'[i] = freezes[i]
         /\ loc' \in [Publishers -> Memory]
         /\ \A q \in Publishers \ {p} : loc'[q] = loc[q]
         /\ loc'[p].pc = "capture" /\ loc'[p].mode = "publish" /\ loc'[p].intent = Len(freezes) + 1
         /\ loc'[p].base = <<>> /\ loc'[p].index = {} /\ loc'[p].cand = <<>>
<1>1. /\ done \in Seq(Commits \cup {None}) /\ freezes \in Seq(Nat) /\ Len(done) = Len(freezes)
      /\ lastSeq \in Nat /\ loc \in [Publishers -> Memory]
  BY DEF TypeOK
<1>2. done' = Append(done, None) /\ freezes' = Append(freezes, lastSeq)
  BY DEF Freeze
<1>3. /\ done' \in Seq(Commits \cup {None}) /\ freezes' \in Seq(Nat)
      /\ Len(done') = Len(freezes') /\ Len(freezes) + 1 \in Nat
      /\ DOMAIN done' = DOMAIN done \cup {Len(freezes) + 1}
      /\ Len(freezes) + 1 \notin DOMAIN done
  BY <1>1, <1>2
<1>4. done'[Len(freezes) + 1] = None /\ freezes'[Len(freezes) + 1] = lastSeq
  BY <1>1, <1>2
<1>5. \A i \in DOMAIN done : done'[i] = done[i] /\ freezes'[i] = freezes[i]
  BY <1>1, <1>2
<1> DEFINE l == [Idle EXCEPT !.pc = "capture", !.intent = Len(freezes) + 1]
<1>6. /\ l \in Memory /\ l.pc = "capture" /\ l.mode = "publish" /\ l.intent = Len(freezes) + 1
      /\ l.base = <<>> /\ l.index = {} /\ l.cand = <<>>
  BY <1>3, EmptySeq DEF Idle, Memory, Steps, Content
<1>7. loc' = [loc EXCEPT ![p] = l]
  BY DEF Freeze
<1> QED BY <1>1, <1>3, <1>4, <1>5, <1>6, <1>7, PutFacts

(* What recover remembers of the journal it read.                          *)
LEMMA ReadFacts ==
  ASSUME TypeOK, NEW p \in Publishers, RecoverRead(p)
  PROVE  /\ loc' \in [Publishers -> Memory]
         /\ \A q \in Publishers \ {p} : loc'[q] = loc[q]
         /\ loc'[p].mode = "recover" /\ loc'[p].pc \in {"recover", "recoverRuntime"}
         /\ journal = None => /\ loc'[p].pc = "recover" /\ loc'[p].intent = None
                              /\ loc'[p].cand = <<>>
         /\ journal # None => /\ loc'[p].intent = journal.intent /\ loc'[p].base = journal.old
                              /\ loc'[p].cand = journal.new
                              /\ loc'[p].pc = "recoverRuntime" <=>
                                   journal.stage \in {"RuntimeCompleted", "Complete"}
<1>1. CASE journal = None
  <2> DEFINE l == [Idle EXCEPT !.pc = "recover", !.mode = "recover"]
  <2>1. l \in Memory /\ l.pc = "recover" /\ l.mode = "recover" /\ l.intent = None /\ l.cand = <<>>
    BY IdleMemory DEF Idle, Memory, Steps
  <2>2. loc' = [loc EXCEPT ![p] = l]
    BY <1>1 DEF RecoverRead
  <2> QED BY <1>1, <2>1, <2>2, PutFacts DEF TypeOK
<1>2. CASE journal # None
  <2> DEFINE l == [pc |-> IF journal.stage \in {"RuntimeCompleted", "Complete"}
                          THEN "recoverRuntime" ELSE "recover",
                   mode |-> "recover", intent |-> journal.intent,
                   base |-> journal.old, index |-> journal.index, cand |-> journal.new]
  <2>1. journal \in Journals
    BY <1>2 DEF TypeOK
  <2>2. /\ journal.old \in Seq(Version) /\ journal.new \in Seq(Version)
        /\ journal.intent \in Nat /\ journal.index \in Content
    BY <2>1 DEF Journals, Commits
  <2>3. l \in Memory
    BY <2>2 DEF Memory, Steps
  <2>4. loc' = [loc EXCEPT ![p] = l]
    BY <1>2 DEF RecoverRead
  <2>5. loc'[p] = l /\ loc' \in [Publishers -> Memory] /\ \A q \in Publishers \ {p} : loc'[q] = loc[q]
    BY <2>3, <2>4, PutFacts DEF TypeOK
  <2> QED BY <1>2, <2>5
<1> QED BY <1>1, <1>2

(* index.lock names a publisher, the person or a dead publisher.           *)
LEMMA LockTypes ==
  ASSUME TypeOK, JournalFollows, [Next]_vars
  PROVE  ilock' \in Locks \cup {None}
<1>1. ilock \in Locks \cup {None} /\ scope.publishers \subseteq Publishers
  BY PublicationAssumption DEF TypeOK
<1>2. \A bind : AfterReclaim(bind) \in Locks \cup {None}
  BY <1>1 DEF AfterReclaim
<1>3. ASSUME NEW p \in Publishers, Run(p) \/ Crash(p) PROVE ilock' \in Locks \cup {None}
  <2>1. \/ ilock' \in {ilock, None} \/ \E bind : ilock' = AfterReclaim(bind)
        \/ ilock # None /\ ilock' = [ilock EXCEPT !.owner = None]
        \/ ilock' = [owner |-> p, bind |-> loc[p].intent]
        \/ Pc(p) = "reacquire" /\ ilock' = [owner |-> p, bind |-> journal.intent]
    BY <1>3 DEF Run, Recovery, Publish, Reconcile, Complete, Crash, Refused, Exit, Released,
         AbandonPrepared, RecoverRead, RecoverRuntime, RecoverRepository, RecoverNothing,
         RecoverDiscard, RecoverResume, RecoverConflict, RecoverVerified, RecoverFinish, Reacquire,
         VerifyStore, Select, Freeze, Capture, ReadTail, NoVisibleChange, Build, PublishEnter,
         LockIndex, Prepare, AdvanceRef, ConfirmRef, RefAdvanced, InstallStore, InstallIndex,
         IndexReconciled, WorktreeReconciled, VerifyPublished, ConsumeTail, MarkRuntimeComplete,
         MarkComplete, ClearJournal, lockVars, Pc
  <2>2. ASSUME ilock # None, ilock' = [ilock EXCEPT !.owner = None] PROVE ilock' \in Locks
    BY <1>1, <2>2 DEF Locks
  <2>3. loc[p].intent \in Nat \cup {None}
    BY DEF TypeOK, Memory
  <2>4. Pc(p) = "reacquire" => journal.intent \in Nat
    BY DEF TypeOK, JournalFollows, StageAt, Staged, Journals
  <2>5. \A bind \in Nat \cup {None} : [owner |-> p, bind |-> bind] \in Locks
    BY DEF Locks
  <2> QED BY <1>1, <1>2, <2>1, <2>2, <2>3, <2>4, <2>5
<1>4. CASE UserNext
  <2>1. ilock' \in {ilock, None} \/ ilock' = [owner |-> User, bind |-> None]
    BY <1>4 DEF UserNext, EditWorktree, GitAdd, GitCommitStart, GitCommitEnd, GitRevert,
         GitResetSoft, GitBranch, GitSwitch
  <2> QED BY <1>1, <2>1 DEF Locks
<1>5. CASE (\E row \in scope.rows : AppendMutation(row)) \/ UNCHANGED vars
  BY <1>1, <1>5 DEF AppendMutation, lockVars, vars
<1> QED BY <1>1, <1>3, <1>4, <1>5 DEF Next

(* A stage is written over the journal that is there.                      *)
LEMMA StageFacts ==
  ASSUME Control, NEW p \in Publishers, NEW stage \in Stages,
         Pc(p) \in {"advance", "indexed", "worktree", "final"},
         journal' = [journal EXCEPT !.stage = stage]
  PROVE  /\ journal' \in Journals /\ journal' # None /\ journal # None /\ journal'.stage = stage
         /\ journal'.intent = journal.intent /\ journal'.old = journal.old
         /\ journal'.new = journal.new /\ journal'.index = journal.index
<1>1. journal # None /\ journal \in Journals
  BY DEF Control, JournalFollows, StageAt, Staged, TypeOK
<1>2. journal' \in Journals
  BY <1>1 DEF Journals
<1> QED BY <1>1, <1>2, AbsenceAssumption DEF Journals

(* A publisher writes a journal of its own.                                *)
LEMMA WroteFacts ==
  ASSUME Control, NEW p \in Publishers, NEW stage \in Stages,
         Pc(p) \in {"prepare", "mark"}, journal' = JournalOf(loc[p], stage)
  PROVE  /\ journal' \in Journals /\ journal' # None /\ journal'.stage = stage
         /\ journal'.intent = loc[p].intent /\ journal'.old = loc[p].base
         /\ journal'.new = loc[p].cand /\ journal'.index = loc[p].index
<1>1. /\ loc[p].base \in Commits /\ loc[p].cand \in Commits /\ loc[p].intent \in Nat
      /\ loc[p].index \in Content
  BY DEF Control, Candidates, Child, Intents, IntentOf, Fresh, Memory, TypeOK, Pc
<1>2. journal' \in Journals
  BY <1>1 DEF JournalOf, Journals
<1> QED BY <1>2, AbsenceAssumption DEF JournalOf

-----------------------------------------------------------------------------
(* The control invariant, shape by shape.                                  *)

(* What a step's shape leaves open.                                         *)
Outer == ilock' \in Locks \cup {None} /\ crashes' \in Nat

(* A command that ends.                                                    *)
LEMMA LeavesControl ==
  ASSUME Control, NEW p \in Publishers, Leaves(p), Outer
  PROVE  Control'
<1> USE DEF Pc, Staged
<1>o. ilock' \in Locks \cup {None} /\ crashes' \in Nat
  BY DEF Outer
<1>t. loc \in [Publishers -> Memory] /\ TypeOK
  BY DEF Control, TypeOK
<1>f. /\ loc' \in [Publishers -> Memory] /\ \A q \in Publishers \ {p} : loc'[q] = loc[q]
      /\ loc'[p].pc = "idle" /\ loc'[p].mode = "publish" /\ loc'[p].intent = None
  BY <1>t, PutFacts, IdleMemory DEF Leaves
<1>u. /\ UNCHANGED <<head, side, idx, wt, pending, lastSeq, admitted, freezes, done, scope,
                     users, spoiled>>
      /\ UNCHANGED journal
      /\ coord' = IF coord = p THEN None ELSE coord
  BY DEF Leaves, Still, gitVars, runtimeVars
<1>1. TypeOK'
  BY <1>t, <1>f, <1>u, <1>o DEF Control, TypeOK
<1>2. Exclusive'
  BY <1>t, <1>f, <1>u DEF Control, Exclusive, Holding
<1>3. JournalFollows'
  BY <1>t, <1>f, <1>u DEF Control, JournalFollows, StageAt, Own, JournalOf, Fresh
<1>4. Intents'
  BY <1>t, <1>f, <1>u DEF Control, Intents, IntentOf, Fresh
<1>5. Candidates'
  BY <1>t, <1>f, <1>u DEF Control, Candidates
<1>6. Recorded'
  BY <1>t, <1>f, <1>u DEF Control, Recorded
<1> QED BY <1>1, <1>2, <1>3, <1>4, <1>5, <1>6 DEF Control

(* A step that only moves on.                                              *)
LEMMA WalksControl ==
  ASSUME Control, NEW p \in Publishers, Walks(p), Outer
  PROVE  Control'
<1> USE DEF Pc, Staged
<1>o. ilock' \in Locks \cup {None} /\ crashes' \in Nat
  BY DEF Outer
<1>t. loc \in [Publishers -> Memory] /\ TypeOK
  BY DEF Control, TypeOK
<1>f. /\ loc' \in [Publishers -> Memory] /\ \A q \in Publishers \ {p} : loc'[q] = loc[q]
      /\ loc'[p].mode = loc[p].mode /\ loc'[p].intent = loc[p].intent
      /\ loc'[p].base = loc[p].base /\ loc'[p].index = loc[p].index /\ loc'[p].cand = loc[p].cand
  <2>1. \E pc \in Steps : Goto(p, pc)
    BY DEF Walks, Walk, Steps
  <2> QED BY <1>t, <2>1, GotoFacts
<1>u. /\ UNCHANGED <<head, side, idx, wt, pending, lastSeq, admitted, freezes, done, scope,
                     users, spoiled>>
      /\ UNCHANGED <<coord, journal>>
  BY DEF Walks, Walk, Still, gitVars, runtimeVars
<1>w. \/ Pc(p) = "recover" /\ journal = None /\ loc'[p].pc = "select"
      \/ /\ Pc(p) = "recover" /\ Staged({"WorktreeReconciled"})
         /\ loc[p].intent # None /\ loc'[p].pc = "complete"
      \/ Pc(p) = "reacquire" /\ journal.stage = "Prepared" /\ loc'[p].pc = "advance"
      \/ Pc(p) = "reacquire" /\ journal.stage = "RefAdvanced" /\ loc'[p].pc = "store"
      \/ Pc(p) = "reacquire" /\ journal.stage \notin Early /\ loc'[p].pc = "verifyStore"
      \/ Pc(p) = "verifyStore" /\ loc'[p].pc = "worktree"
      \/ Pc(p) = "select" /\ loc'[p].pc = "freeze"
      \/ Pc(p) = "build" /\ loc'[p].pc = "publish"
      \/ Pc(p) = "lock" /\ loc'[p].pc = "prepare"
      \/ Pc(p) = "confirm" /\ loc'[p].pc = "advance"
      \/ Pc(p) = "complete" /\ loc'[p].pc = "consume"
  BY <1>t, GotoFacts DEF Walks, Walk, Steps
<1>1. TypeOK'
  BY <1>t, <1>f, <1>u, <1>o DEF Control, TypeOK
<1>2. Exclusive'
  BY <1>t, <1>f, <1>u, <1>w DEF Control, Exclusive, Holding
<1>3. JournalFollows'
  BY <1>t, <1>f, <1>u, <1>w DEF Control, JournalFollows, StageAt, Own, JournalOf, Fresh, Early
<1>4. Intents'
  BY <1>t, <1>f, <1>u, <1>w DEF Control, Intents, IntentOf, Fresh, Late
<1>5. Candidates'
  BY <1>t, <1>f, <1>u, <1>w DEF Control, Candidates, JournalFollows, Own
<1>6. Recorded'
  BY <1>t, <1>f, <1>u, <1>w DEF Control, Recorded
<1> QED BY <1>1, <1>2, <1>3, <1>4, <1>5, <1>6 DEF Control

(* Taking the coordination lock.                                           *)
LEMMA EntersControl ==
  ASSUME Control, NEW p \in Publishers, Enters(p), Outer
  PROVE  Control'
<1> USE DEF Pc, Staged
<1>o. ilock' \in Locks \cup {None} /\ crashes' \in Nat
  BY DEF Outer
<1>t. loc \in [Publishers -> Memory] /\ TypeOK
  BY DEF Control, TypeOK
<1>f. /\ loc' \in [Publishers -> Memory] /\ \A q \in Publishers \ {p} : loc'[q] = loc[q]
      /\ loc'[p].mode = loc[p].mode /\ loc'[p].intent = loc[p].intent
      /\ loc'[p].base = loc[p].base /\ loc'[p].index = loc[p].index /\ loc'[p].cand = loc[p].cand
  <2>1. \E pc \in Steps : Goto(p, pc)
    BY DEF Enters, Enter, Steps
  <2> QED BY <1>t, <2>1, GotoFacts
<1>u. /\ UNCHANGED <<head, side, idx, wt, pending, lastSeq, admitted, freezes, done, scope,
                     users, spoiled>>
      /\ UNCHANGED journal
      /\ coord = None /\ coord' = p
  BY DEF Enters, Enter, Still, gitVars, runtimeVars
<1>w. \/ Pc(p) = "publish" /\ journal = None /\ loc'[p].pc = "lock"
      \/ /\ Pc(p) = "recover" /\ Staged({"Prepared", "RefAdvanced", "IndexReconciled"})
         /\ loc'[p].pc = "reacquire"
      \/ Pc(p) = "recover" /\ Staged({"RuntimeCompleted"}) /\ loc'[p].pc = "final"
      \/ Pc(p) = "recover" /\ Staged({"Complete"}) /\ loc'[p].pc = "clear"
  BY <1>t, GotoFacts DEF Enters, Enter, Steps
<1>n. None \notin Publishers
  BY PublicationAssumption
<1>1. TypeOK'
  BY <1>t, <1>f, <1>u, <1>o DEF Control, TypeOK
<1>2. Exclusive'
  BY <1>t, <1>f, <1>u, <1>w, <1>n DEF Control, Exclusive, Holding
<1>3. JournalFollows'
  BY <1>t, <1>f, <1>u, <1>w DEF Control, JournalFollows, StageAt, Own, JournalOf, Fresh, Early
<1>4. Intents'
  BY <1>t, <1>f, <1>u, <1>w DEF Control, Intents, IntentOf, Fresh, Late
<1>5. Candidates'
  BY <1>t, <1>f, <1>u, <1>w DEF Control, Candidates
<1>6. Recorded'
  BY <1>t, <1>f, <1>u, <1>w DEF Control, Recorded
<1> QED BY <1>1, <1>2, <1>3, <1>4, <1>5, <1>6 DEF Control

(* recover reads the journal.                                              *)
LEMMA ReadControl ==
  ASSUME Control, NEW p \in Publishers, RecoverRead(p), Outer
  PROVE  Control'
<1> USE DEF Pc, Staged
<1>o. ilock' \in Locks \cup {None} /\ crashes' \in Nat
  BY DEF Outer
<1>t. loc \in [Publishers -> Memory] /\ TypeOK
  BY DEF Control, TypeOK
<1>f. /\ loc' \in [Publishers -> Memory] /\ \A q \in Publishers \ {p} : loc'[q] = loc[q]
      /\ loc'[p].mode = "recover" /\ loc'[p].pc \in {"recover", "recoverRuntime"}
      /\ journal = None => /\ loc'[p].pc = "recover" /\ loc'[p].intent = None
      /\ journal # None => /\ loc'[p].intent = journal.intent /\ loc'[p].base = journal.old
                           /\ loc'[p].cand = journal.new
                           /\ loc'[p].pc = "recoverRuntime" <=>
                                journal.stage \in {"RuntimeCompleted", "Complete"}
  BY <1>t, ReadFacts
<1>u. /\ UNCHANGED <<head, side, idx, wt, pending, lastSeq, admitted, freezes, done, scope,
                     users, spoiled>>
      /\ UNCHANGED <<coord, journal>>
  BY DEF RecoverRead, gitVars, runtimeVars, lockVars, boundVars
<1>j. journal # None => journal \in Journals
  BY <1>t DEF TypeOK
<1>1. TypeOK'
  BY <1>t, <1>f, <1>u, <1>o DEF Control, TypeOK
<1>2. Exclusive'
  BY <1>t, <1>f, <1>u DEF Control, Exclusive, Holding
<1>3. JournalFollows'
  BY <1>t, <1>f, <1>u DEF Control, JournalFollows, StageAt, Own, JournalOf, Fresh
<1>4. Intents'
  BY <1>t, <1>f, <1>u, <1>j, AbsenceAssumption DEF Control, Intents, IntentOf, Fresh, Journals
<1>5. Candidates'
  BY <1>t, <1>f, <1>u, <1>j DEF Control, Candidates, Journals
<1>6. Recorded'
  BY <1>t, <1>f, <1>u, <1>j DEF Control, Recorded, Journals
<1> QED BY <1>1, <1>2, <1>3, <1>4, <1>5, <1>6 DEF Control

(* recover repeats the runtime step of a journal that records it.          *)
LEMMA RuntimeControl ==
  ASSUME Control, NEW p \in Publishers, RecoverRuntime(p), Outer
  PROVE  Control'
<1> USE DEF Pc, Staged
<1>o. ilock' \in Locks \cup {None} /\ crashes' \in Nat
  BY DEF Outer
<1>t. loc \in [Publishers -> Memory] /\ TypeOK
  BY DEF Control, TypeOK
<1>f. /\ loc' \in [Publishers -> Memory] /\ \A q \in Publishers \ {p} : loc'[q] = loc[q]
      /\ loc'[p].pc = "recover" /\ loc'[p].mode = loc[p].mode /\ loc'[p].intent = loc[p].intent
      /\ loc'[p].base = loc[p].base /\ loc'[p].index = loc[p].index /\ loc'[p].cand = loc[p].cand
  <2>1. Goto(p, "recover") /\ "recover" \in Steps
    BY DEF RecoverRuntime, Steps
  <2> QED BY <1>t, <2>1, GotoFacts
<1>u. /\ UNCHANGED <<head, side, idx, wt, lastSeq, admitted, freezes, scope, users, spoiled,
                     coord, journal>>
  BY DEF RecoverRuntime, CompletePublication, gitVars, runtimeVars, lockVars, boundVars
<1>c. /\ done' \in Seq(Commits \cup {None}) /\ Len(done') = Len(done) /\ DOMAIN done' = DOMAIN done
      /\ done'[loc[p].intent] = loc[p].cand
      /\ \A j \in DOMAIN done : done[j] # None => done'[j] = done[j]
      /\ pending' \in SUBSET Mutations
  <2>1. loc[p].intent \in DOMAIN done /\ loc[p].cand \in Commits
    BY DEF Control, Intents, IntentOf, Candidates, RecoverRuntime, Fresh
  <2> QED BY <1>t, <2>1, CompleteFacts DEF RecoverRuntime
<1>n. None \notin Commits
  BY AbsenceAssumption
<1>j. journal # None => journal \in Journals /\ journal.new # None
  BY <1>t, AbsenceAssumption DEF TypeOK, Journals
<1>p. Pc(p) = "recoverRuntime"
  BY DEF RecoverRuntime
<1>1. TypeOK'
  BY <1>t, <1>f, <1>u, <1>o, <1>c DEF Control, TypeOK
<1>2. Exclusive'
  BY <1>t, <1>f, <1>u, <1>p DEF Control, Exclusive, Holding
<1>3. JournalFollows'
  BY <1>t, <1>f, <1>u, <1>p DEF Control, JournalFollows, StageAt, Own, JournalOf, Fresh
<1>4. Intents'
  BY <1>t, <1>f, <1>u, <1>c, <1>p DEF Control, Intents, IntentOf, Fresh, Late
<1>5. Candidates'
  BY <1>t, <1>f, <1>u, <1>p DEF Control, Candidates
<1>6. Recorded'
  BY <1>t, <1>f, <1>u, <1>c, <1>n, <1>j, <1>p DEF Control, Recorded, Candidates, Intents, IntentOf
<1> QED BY <1>1, <1>2, <1>3, <1>4, <1>5, <1>6 DEF Control

(* recover drops a journal that published nothing.                         *)
LEMMA DiscardsControl ==
  ASSUME Control, NEW p \in Publishers, Discards(p), Outer
  PROVE  Control'
<1> USE DEF Pc, Staged
<1>o. ilock' \in Locks \cup {None} /\ crashes' \in Nat
  BY DEF Outer
<1>t. loc \in [Publishers -> Memory] /\ TypeOK
  BY DEF Control, TypeOK
<1>f. /\ loc' \in [Publishers -> Memory] /\ \A q \in Publishers \ {p} : loc'[q] = loc[q]
      /\ loc'[p].pc = "select" /\ loc'[p].mode = loc[p].mode /\ loc'[p].intent = loc[p].intent
      /\ loc'[p].base = loc[p].base /\ loc'[p].index = loc[p].index /\ loc'[p].cand = loc[p].cand
  <2>1. Goto(p, "select") /\ "select" \in Steps
    BY DEF Discards, Steps
  <2> QED BY <1>t, <2>1, GotoFacts
<1>u. /\ UNCHANGED <<head, side, idx, wt, pending, lastSeq, admitted, freezes, done, scope,
                     users, spoiled>>
      /\ UNCHANGED coord /\ coord = None /\ journal' = None /\ Pc(p) = "recover"
  BY DEF Discards, Still, gitVars, runtimeVars
<1>n. None \notin Publishers
  BY PublicationAssumption
<1>1. TypeOK'
  BY <1>t, <1>f, <1>u, <1>o DEF Control, TypeOK
<1>2. Exclusive'
  BY <1>t, <1>f, <1>u DEF Control, Exclusive, Holding
<1>3. JournalFollows'
  BY <1>t, <1>f, <1>u, <1>n DEF Control, JournalFollows, StageAt, Own, JournalOf, Fresh, Exclusive, Holding
<1>4. Intents'
  BY <1>t, <1>f, <1>u DEF Control, Intents, IntentOf, Fresh
<1>5. Candidates'
  BY <1>t, <1>f, <1>u DEF Control, Candidates
<1>6. Recorded'
  BY <1>t, <1>f, <1>u DEF Control, Recorded
<1> QED BY <1>1, <1>2, <1>3, <1>4, <1>5, <1>6 DEF Control

(* A refused compare-and-set drops the journal.                            *)
LEMMA AbandonsControl ==
  ASSUME Control, NEW p \in Publishers, Abandons(p), Outer
  PROVE  Control'
<1> USE DEF Pc, Staged
<1>o. ilock' \in Locks \cup {None} /\ crashes' \in Nat
  BY DEF Outer
<1>t. loc \in [Publishers -> Memory] /\ TypeOK
  BY DEF Control, TypeOK
<1>f. /\ loc' \in [Publishers -> Memory] /\ \A q \in Publishers \ {p} : loc'[q] = loc[q]
      /\ loc'[p].pc = "idle" /\ loc'[p].mode = "publish" /\ loc'[p].intent = None
  BY <1>t, PutFacts, IdleMemory DEF Abandons
<1>u. /\ UNCHANGED <<head, side, idx, wt, pending, lastSeq, admitted, freezes, done, scope,
                     users, spoiled>>
      /\ coord = p /\ coord' = None /\ journal' = None
  BY DEF Abandons, Still, gitVars, runtimeVars, Control, Exclusive, Holding
<1>n. None \notin Publishers
  BY PublicationAssumption
<1>1. TypeOK'
  BY <1>t, <1>f, <1>u, <1>o DEF Control, TypeOK
<1>2. Exclusive'
  BY <1>t, <1>f, <1>u DEF Control, Exclusive, Holding
<1>3. JournalFollows'
  BY <1>t, <1>f, <1>u, <1>n DEF Control, JournalFollows, StageAt, Own, JournalOf, Fresh, Exclusive, Holding
<1>4. Intents'
  BY <1>t, <1>f, <1>u DEF Control, Intents, IntentOf, Fresh
<1>5. Candidates'
  BY <1>t, <1>f, <1>u DEF Control, Candidates
<1>6. Recorded'
  BY <1>t, <1>f, <1>u DEF Control, Recorded
<1> QED BY <1>1, <1>2, <1>3, <1>4, <1>5, <1>6 DEF Control

(* freeze takes a new intent.                                              *)
LEMMA FreezeControl ==
  ASSUME Control, NEW p \in Publishers, Freeze(p), Outer
  PROVE  Control'
<1> USE DEF Pc, Staged
<1>o. ilock' \in Locks \cup {None} /\ crashes' \in Nat
  BY DEF Outer
<1>t. loc \in [Publishers -> Memory] /\ TypeOK
  BY DEF Control, TypeOK
<1>f. /\ loc' \in [Publishers -> Memory] /\ \A q \in Publishers \ {p} : loc'[q] = loc[q]
      /\ loc'[p].pc = "capture" /\ loc'[p].mode = "publish" /\ loc'[p].intent = Len(freezes) + 1
  BY <1>t, FreezeFacts
<1>u. /\ UNCHANGED <<head, side, idx, wt, pending, lastSeq, admitted, scope, users, spoiled,
                     coord, journal>>
  BY DEF Freeze, gitVars, runtimeVars, lockVars, boundVars
<1>c. /\ done' \in Seq(Commits \cup {None}) /\ freezes' \in Seq(Nat) /\ Len(done') = Len(freezes')
      /\ DOMAIN done' = DOMAIN done \cup {Len(freezes) + 1} /\ Len(freezes) + 1 \notin DOMAIN done
      /\ \A i \in DOMAIN done : done'[i] = done[i]
      /\ Len(freezes) + 1 # None
  BY <1>t, FreezeFacts, AbsenceAssumption
<1>1. TypeOK'
  BY <1>t, <1>f, <1>u, <1>o, <1>c DEF Control, TypeOK
<1>2. Exclusive'
  BY <1>t, <1>f, <1>u DEF Control, Exclusive, Holding
<1>3. JournalFollows'
  BY <1>t, <1>f, <1>u DEF Control, JournalFollows, StageAt, Own, JournalOf, Fresh
<1>4. Intents'
  BY <1>t, <1>f, <1>u, <1>c DEF Control, Intents, IntentOf, Fresh, Late
<1>5. Candidates'
  BY <1>t, <1>f, <1>u DEF Control, Candidates
<1>6. Recorded'
  BY <1>t, <1>f, <1>u, <1>c DEF Control, Recorded, Intents, IntentOf
<1> QED BY <1>1, <1>2, <1>3, <1>4, <1>5, <1>6 DEF Control

(* The base and the index are captured.                                    *)
LEMMA CapturesControl ==
  ASSUME Control, NEW p \in Publishers, Captures(p), Outer
  PROVE  Control'
<1> USE DEF Pc, Staged
<1>o. ilock' \in Locks \cup {None} /\ crashes' \in Nat
  BY DEF Outer
<1>t. loc \in [Publishers -> Memory] /\ TypeOK
  BY DEF Control, TypeOK
<1>h. head \in Commits /\ head \in Seq(Version) /\ idx \in Content
  BY <1>t, TipContent DEF TypeOK
<1>f. /\ loc' \in [Publishers -> Memory] /\ \A q \in Publishers \ {p} : loc'[q] = loc[q]
      /\ loc'[p].pc = "readTail" /\ loc'[p].mode = loc[p].mode /\ loc'[p].intent = loc[p].intent
      /\ loc'[p].base = head /\ loc'[p].cand = loc[p].cand
  <2> DEFINE l == [loc[p] EXCEPT !.pc = "readTail", !.base = head, !.index = idx]
  <2>1. /\ l \in Memory /\ l.pc = "readTail" /\ l.mode = loc[p].mode /\ l.intent = loc[p].intent
        /\ l.base = head /\ l.cand = loc[p].cand
    BY <1>t, <1>h DEF Memory, Steps
  <2>2. loc' = [loc EXCEPT ![p] = l]
    BY DEF Captures
  <2> QED BY <1>t, <2>1, <2>2, PutFacts
<1>u. /\ UNCHANGED <<head, side, idx, wt, pending, lastSeq, admitted, freezes, done, scope,
                     users, spoiled>>
      /\ UNCHANGED <<coord, journal>> /\ Pc(p) = "capture"
  BY DEF Captures, Still, gitVars, runtimeVars
<1>1. TypeOK'
  BY <1>t, <1>f, <1>u, <1>o DEF Control, TypeOK
<1>2. Exclusive'
  BY <1>t, <1>f, <1>u DEF Control, Exclusive, Holding
<1>3. JournalFollows'
  BY <1>t, <1>f, <1>u DEF Control, JournalFollows, StageAt, Own, JournalOf, Fresh
<1>4. Intents'
  BY <1>t, <1>f, <1>u DEF Control, Intents, IntentOf, Fresh, Late
<1>5. Candidates'
  BY <1>t, <1>f, <1>u, <1>h DEF Control, Candidates
<1>6. Recorded'
  BY <1>t, <1>f, <1>u DEF Control, Recorded
<1> QED BY <1>1, <1>2, <1>3, <1>4, <1>5, <1>6 DEF Control

(* The range changes no row of the base.                                   *)
LEMMA FindsNothingControl ==
  ASSUME Control, NEW p \in Publishers, FindsNothing(p), Outer
  PROVE  Control'
<1> USE DEF Pc, Staged
<1>o. ilock' \in Locks \cup {None} /\ crashes' \in Nat
  BY DEF Outer
<1>t. loc \in [Publishers -> Memory] /\ TypeOK
  BY DEF Control, TypeOK
<1>f. /\ loc' \in [Publishers -> Memory] /\ \A q \in Publishers \ {p} : loc'[q] = loc[q]
      /\ loc'[p].pc = "noop" /\ loc'[p].mode = loc[p].mode /\ loc'[p].intent = loc[p].intent
      /\ loc'[p].base = loc[p].base /\ loc'[p].index = loc[p].index /\ loc'[p].cand = loc[p].cand
  <2>1. Goto(p, "noop") /\ "noop" \in Steps
    BY DEF FindsNothing, Walk, Steps
  <2> QED BY <1>t, <2>1, GotoFacts
<1>u. /\ UNCHANGED <<head, side, idx, wt, pending, lastSeq, admitted, freezes, done, scope,
                     users, spoiled>>
      /\ UNCHANGED <<coord, journal>> /\ Pc(p) = "readTail"
  BY DEF FindsNothing, Walk, Still, gitVars, runtimeVars
<1>1. TypeOK'
  BY <1>t, <1>f, <1>u, <1>o DEF Control, TypeOK
<1>2. Exclusive'
  BY <1>t, <1>f, <1>u DEF Control, Exclusive, Holding
<1>3. JournalFollows'
  BY <1>t, <1>f, <1>u DEF Control, JournalFollows, StageAt, Own, JournalOf, Fresh
<1>4. Intents'
  BY <1>t, <1>f, <1>u DEF Control, Intents, IntentOf, Fresh, Late
<1>5. Candidates'
  BY <1>t, <1>f, <1>u DEF Control, Candidates
<1>6. Recorded'
  BY <1>t, <1>f, <1>u DEF Control, Recorded
<1> QED BY <1>1, <1>2, <1>3, <1>4, <1>5, <1>6 DEF Control

(* The candidate is the base with the frozen range.                        *)
LEMMA BuildsControl ==
  ASSUME Control, NEW p \in Publishers, Builds(p), Outer
  PROVE  Control'
<1> USE DEF Pc, Staged
<1>o. ilock' \in Locks \cup {None} /\ crashes' \in Nat
  BY DEF Outer
<1>t. loc \in [Publishers -> Memory] /\ TypeOK
  BY DEF Control, TypeOK
<1> DEFINE rows == Tip(loc[p].base) \cup RowsOf(PendingThrough(loc[p].intent))
           v == [rows |-> rows, by |-> loc[p].intent]
           c == Append(loc[p].base, v)
<1>h. /\ loc[p].base \in Commits /\ loc[p].intent \in Nat /\ v \in Version /\ c \in Commits
      /\ Child(loc[p].base, c)
  <2>1. loc[p].base \in Commits /\ loc[p].intent \in Nat
    BY <1>t DEF Control, Builds, Candidates, Intents, IntentOf, Fresh, Memory
  <2>2. RowsOf(PendingThrough(loc[p].intent)) \subseteq Rows
    BY <1>t DEF RowsOf, PendingThrough, TypeOK, Mutations
  <2>3. v \in Version /\ v.rows = rows /\ Tip(loc[p].base) \subseteq rows
    BY <2>1, <2>2, TipContent DEF Version, Content
  <2> HIDE DEF v, rows
  <2>4. c \in Commits /\ c[Len(c)] = v /\ Tip(c) = rows
    BY <2>1, <2>3, ChildCommit, TipContent
  <2> QED BY <2>1, <2>3, <2>4 DEF Child
<1> HIDE DEF rows, v, c
<1>f. /\ loc' \in [Publishers -> Memory] /\ \A q \in Publishers \ {p} : loc'[q] = loc[q]
      /\ loc'[p].pc = "build" /\ loc'[p].mode = loc[p].mode /\ loc'[p].intent = loc[p].intent
      /\ loc'[p].base = loc[p].base /\ loc'[p].cand = c
  <2> DEFINE l == [loc[p] EXCEPT !.pc = "build", !.cand = c]
  <2>1. /\ l \in Memory /\ l.pc = "build" /\ l.mode = loc[p].mode /\ l.intent = loc[p].intent
        /\ l.base = loc[p].base /\ l.cand = c
    BY <1>t, <1>h DEF Memory, Steps, Commits
  <2>2. loc' = [loc EXCEPT ![p] = l]
    BY DEF Builds, c, v, rows
  <2> QED BY <1>t, <2>1, <2>2, PutFacts
<1>u. /\ UNCHANGED <<head, side, idx, wt, pending, lastSeq, admitted, freezes, done, scope,
                     users, spoiled>>
      /\ UNCHANGED <<coord, journal>> /\ Pc(p) = "readTail"
  BY DEF Builds, Still, gitVars, runtimeVars
<1>1. TypeOK'
  BY <1>t, <1>f, <1>u, <1>o DEF Control, TypeOK
<1>2. Exclusive'
  BY <1>t, <1>f, <1>u DEF Control, Exclusive, Holding
<1>3. JournalFollows'
  BY <1>t, <1>f, <1>u DEF Control, JournalFollows, StageAt, Own, JournalOf, Fresh
<1>4. Intents'
  BY <1>t, <1>f, <1>u DEF Control, Intents, IntentOf, Fresh, Late
<1>5. Candidates'
  BY <1>t, <1>f, <1>u, <1>h DEF Control, Candidates
<1>6. Recorded'
  BY <1>t, <1>f, <1>u DEF Control, Recorded
<1> QED BY <1>1, <1>2, <1>3, <1>4, <1>5, <1>6 DEF Control

(* A range that changes nothing is recorded at its base.                   *)
LEMMA NoChangeControl ==
  ASSUME Control, NEW p \in Publishers, NoVisibleChange(p), Outer
  PROVE  Control'
<1> USE DEF Pc, Staged
<1>o. ilock' \in Locks \cup {None} /\ crashes' \in Nat
  BY DEF Outer
<1>t. loc \in [Publishers -> Memory] /\ TypeOK
  BY DEF Control, TypeOK
<1>f. /\ loc' \in [Publishers -> Memory] /\ \A q \in Publishers \ {p} : loc'[q] = loc[q]
      /\ loc'[p].pc = "idle" /\ loc'[p].mode = "publish" /\ loc'[p].intent = None
  BY <1>t, PutFacts, IdleMemory DEF NoVisibleChange, Exit
<1>u. /\ UNCHANGED <<head, side, idx, wt, lastSeq, admitted, freezes, scope, users, journal>>
      /\ spoiled' \in BOOLEAN
      /\ coord' = (IF coord = p THEN None ELSE coord) /\ Pc(p) = "noop"
  BY <1>t DEF NoVisibleChange, CompletePublication, Exit, Released, gitVars, runtimeVars, lockVars, boundVars, TypeOK, Unreconciled
<1>c. /\ done' \in Seq(Commits \cup {None}) /\ Len(done') = Len(done) /\ DOMAIN done' = DOMAIN done
      /\ done'[loc[p].intent] = loc[p].base
      /\ \A j \in DOMAIN done : done[j] # None => done'[j] = done[j]
      /\ pending' \in SUBSET Mutations
  <2>1. loc[p].intent \in DOMAIN done /\ loc[p].base \in Commits
    BY DEF Control, Intents, IntentOf, Candidates, NoVisibleChange, Fresh
  <2> QED BY <1>t, <2>1, CompleteFacts DEF NoVisibleChange
<1>n. None \notin Commits
  BY AbsenceAssumption
<1>j. journal # None => journal \in Journals /\ journal.new # None
  BY <1>t, AbsenceAssumption DEF TypeOK, Journals
<1>1. TypeOK'
  BY <1>t, <1>f, <1>u, <1>o, <1>c DEF Control, TypeOK
<1>2. Exclusive'
  BY <1>t, <1>f, <1>u DEF Control, Exclusive, Holding
<1>3. JournalFollows'
  BY <1>t, <1>f, <1>u DEF Control, JournalFollows, StageAt, Own, JournalOf, Fresh
<1>4. Intents'
  BY <1>t, <1>f, <1>u, <1>c DEF Control, Intents, IntentOf, Fresh, Late
<1>5. Candidates'
  BY <1>t, <1>f, <1>u DEF Control, Candidates
<1>6. Recorded'
  BY <1>t, <1>f, <1>u, <1>c, <1>n, <1>j DEF Control, Recorded, Candidates, Intents, IntentOf
<1> QED BY <1>1, <1>2, <1>3, <1>4, <1>5, <1>6 DEF Control

(* The journal is written.                                                 *)
LEMMA PreparesControl ==
  ASSUME Control, NEW p \in Publishers, Prepares(p), Outer
  PROVE  Control'
<1> USE DEF Pc, Staged
<1>o. ilock' \in Locks \cup {None} /\ crashes' \in Nat
  BY DEF Outer
<1>t. loc \in [Publishers -> Memory] /\ TypeOK
  BY DEF Control, TypeOK
<1>f. /\ loc' \in [Publishers -> Memory] /\ \A q \in Publishers \ {p} : loc'[q] = loc[q]
      /\ loc'[p].pc = "cas" /\ loc'[p].mode = loc[p].mode /\ loc'[p].intent = loc[p].intent
      /\ loc'[p].base = loc[p].base /\ loc'[p].index = loc[p].index /\ loc'[p].cand = loc[p].cand
  <2>1. Goto(p, "cas") /\ "cas" \in Steps
    BY DEF Prepares, Steps
  <2> QED BY <1>t, <2>1, GotoFacts
<1>u. /\ UNCHANGED <<head, side, idx, wt, pending, lastSeq, admitted, freezes, done, scope,
                     users, spoiled>>
      /\ UNCHANGED coord /\ coord = p /\ Pc(p) = "prepare" /\ loc[p].mode = "publish"
  BY DEF Prepares, Still, gitVars, runtimeVars, Control, Exclusive, Holding, JournalFollows, Own, Fresh
<1>j. /\ journal' \in Journals /\ journal' # None /\ journal'.intent = loc[p].intent /\ journal'.stage = "Prepared"
      /\ journal'.old = loc[p].base /\ journal'.new = loc[p].cand /\ journal'.index = loc[p].index
  <2>1. Pc(p) \in {"prepare", "mark"} /\ "Prepared" \in Stages /\ journal' = JournalOf(loc[p], "Prepared")
    BY DEF Prepares, Stages
  <2> QED BY <2>1, WroteFacts
<1>n. None \notin Publishers
  BY PublicationAssumption
<1>k. journal' = JournalOf(loc'[p], journal'.stage)
  BY <1>f, <1>j DEF Prepares, JournalOf
<1>1. TypeOK'
  BY <1>t, <1>f, <1>u, <1>o, <1>j DEF Control, TypeOK
<1>2. Exclusive'
  BY <1>t, <1>f, <1>u DEF Control, Exclusive, Holding
<1>3. JournalFollows'
  <2>1. StageAt(p)' /\ Own(p)'
    BY <1>f, <1>u, <1>j, <1>k DEF StageAt, Own, Fresh
  <2>2. ASSUME NEW q \in Publishers \ {p} PROVE StageAt(q)' /\ Own(q)'
    BY <1>f, <1>u DEF Control, Exclusive, Holding, JournalFollows, StageAt, Own, Fresh
  <2> QED BY <2>1, <2>2 DEF JournalFollows
<1>4. Intents'
  BY <1>t, <1>f, <1>u, <1>j DEF Control, Intents, IntentOf, Fresh, Late
<1>5. Candidates'
  BY <1>t, <1>f, <1>u DEF Control, Candidates
<1>6. Recorded'
  BY <1>t, <1>f, <1>u, <1>j DEF Control, Recorded
<1> QED BY <1>1, <1>2, <1>3, <1>4, <1>5, <1>6 DEF Control

(* The branch moves.                                                       *)
LEMMA AdvancesControl ==
  ASSUME Control, NEW p \in Publishers, Advances(p), Outer
  PROVE  Control'
<1> USE DEF Pc, Staged
<1>o. ilock' \in Locks \cup {None} /\ crashes' \in Nat
  BY DEF Outer
<1>t. loc \in [Publishers -> Memory] /\ TypeOK
  BY DEF Control, TypeOK
<1>f. /\ loc' \in [Publishers -> Memory] /\ \A q \in Publishers \ {p} : loc'[q] = loc[q]
      /\ loc'[p].pc = "confirm" /\ loc'[p].mode = loc[p].mode /\ loc'[p].intent = loc[p].intent
      /\ loc'[p].base = loc[p].base /\ loc'[p].index = loc[p].index /\ loc'[p].cand = loc[p].cand
  <2>1. Goto(p, "confirm") /\ "confirm" \in Steps
    BY DEF Advances, Steps
  <2> QED BY <1>t, <2>1, GotoFacts
<1>u. /\ UNCHANGED <<side, idx, wt, pending, lastSeq, admitted, freezes, done, scope, users,
                     spoiled, coord, journal>>
      /\ Pc(p) = "cas"
      /\ head' = loc[p].cand /\ loc[p].cand \in Commits
  BY DEF Advances, Still, gitVars, runtimeVars, Control, Candidates, Child
<1>1. TypeOK'
  BY <1>t, <1>f, <1>u, <1>o DEF Control, TypeOK
<1>2. Exclusive'
  BY <1>t, <1>f, <1>u DEF Control, Exclusive, Holding
<1>3. JournalFollows'
  BY <1>t, <1>f, <1>u DEF Control, JournalFollows, StageAt, Own, JournalOf, Fresh
<1>4. Intents'
  BY <1>t, <1>f, <1>u DEF Control, Intents, IntentOf, Fresh, Late
<1>5. Candidates'
  BY <1>t, <1>f, <1>u DEF Control, Candidates, Child
<1>6. Recorded'
  BY <1>t, <1>f, <1>u DEF Control, Recorded
<1> QED BY <1>1, <1>2, <1>3, <1>4, <1>5, <1>6 DEF Control

(* The store files are rewritten.                                          *)
LEMMA InstallsStoreControl ==
  ASSUME Control, NEW p \in Publishers, InstallsStore(p), Outer
  PROVE  Control'
<1> USE DEF Pc, Staged
<1>o. ilock' \in Locks \cup {None} /\ crashes' \in Nat
  BY DEF Outer
<1>t. loc \in [Publishers -> Memory] /\ TypeOK
  BY DEF Control, TypeOK
<1>f. /\ loc' \in [Publishers -> Memory] /\ \A q \in Publishers \ {p} : loc'[q] = loc[q]
      /\ loc'[p].pc = "index" /\ loc'[p].mode = loc[p].mode /\ loc'[p].intent = loc[p].intent
      /\ loc'[p].base = loc[p].base /\ loc'[p].index = loc[p].index /\ loc'[p].cand = loc[p].cand
  <2>1. Goto(p, "index") /\ "index" \in Steps
    BY DEF InstallsStore, Steps
  <2> QED BY <1>t, <2>1, GotoFacts
<1>u. /\ UNCHANGED <<head, side, idx, pending, lastSeq, admitted, freezes, done, scope, users,
                     spoiled, coord, journal>>
      /\ Pc(p) = "store"
      /\ wt' \in Content
  BY <1>t, TipContent DEF InstallsStore, Still, gitVars, runtimeVars, TypeOK
<1>1. TypeOK'
  BY <1>t, <1>f, <1>u, <1>o DEF Control, TypeOK
<1>2. Exclusive'
  BY <1>t, <1>f, <1>u DEF Control, Exclusive, Holding
<1>3. JournalFollows'
  BY <1>t, <1>f, <1>u DEF Control, JournalFollows, StageAt, Own, JournalOf, Fresh
<1>4. Intents'
  BY <1>t, <1>f, <1>u DEF Control, Intents, IntentOf, Fresh, Late
<1>5. Candidates'
  BY <1>t, <1>f, <1>u DEF Control, Candidates
<1>6. Recorded'
  BY <1>t, <1>f, <1>u DEF Control, Recorded
<1> QED BY <1>1, <1>2, <1>3, <1>4, <1>5, <1>6 DEF Control

(* The ordinary index is replaced.                                         *)
LEMMA InstallsIndexControl ==
  ASSUME Control, NEW p \in Publishers, InstallsIndex(p), Outer
  PROVE  Control'
<1> USE DEF Pc, Staged
<1>o. ilock' \in Locks \cup {None} /\ crashes' \in Nat
  BY DEF Outer
<1>t. loc \in [Publishers -> Memory] /\ TypeOK
  BY DEF Control, TypeOK
<1>f. /\ loc' \in [Publishers -> Memory] /\ \A q \in Publishers \ {p} : loc'[q] = loc[q]
      /\ loc'[p].pc = "indexed" /\ loc'[p].mode = loc[p].mode /\ loc'[p].intent = loc[p].intent
      /\ loc'[p].base = loc[p].base /\ loc'[p].index = loc[p].index /\ loc'[p].cand = loc[p].cand
  <2>1. Goto(p, "indexed") /\ "indexed" \in Steps
    BY DEF InstallsIndex, Steps
  <2> QED BY <1>t, <2>1, GotoFacts
<1>u. /\ UNCHANGED <<head, side, wt, pending, lastSeq, admitted, freezes, done, scope, users,
                     spoiled, coord, journal>>
      /\ Pc(p) = "index"
      /\ idx' \in Content
  BY <1>t, TipContent DEF InstallsIndex, Still, gitVars, runtimeVars, TypeOK
<1>1. TypeOK'
  BY <1>t, <1>f, <1>u, <1>o DEF Control, TypeOK
<1>2. Exclusive'
  BY <1>t, <1>f, <1>u DEF Control, Exclusive, Holding
<1>3. JournalFollows'
  BY <1>t, <1>f, <1>u DEF Control, JournalFollows, StageAt, Own, JournalOf, Fresh
<1>4. Intents'
  BY <1>t, <1>f, <1>u DEF Control, Intents, IntentOf, Fresh, Late
<1>5. Candidates'
  BY <1>t, <1>f, <1>u DEF Control, Candidates
<1>6. Recorded'
  BY <1>t, <1>f, <1>u DEF Control, Recorded
<1> QED BY <1>1, <1>2, <1>3, <1>4, <1>5, <1>6 DEF Control

(* The move is recorded.                                                   *)
LEMMA RefAdvancedControl ==
  ASSUME Control, NEW p \in Publishers, RefAdvanced(p), Outer
  PROVE  Control'
<1> USE DEF Pc, Staged
<1>o. ilock' \in Locks \cup {None} /\ crashes' \in Nat
  BY DEF Outer
<1>t. loc \in [Publishers -> Memory] /\ TypeOK
  BY DEF Control, TypeOK
<1>f. /\ loc' \in [Publishers -> Memory] /\ \A q \in Publishers \ {p} : loc'[q] = loc[q]
      /\ loc'[p].pc = "store" /\ loc'[p].mode = loc[p].mode /\ loc'[p].intent = loc[p].intent
      /\ loc'[p].base = loc[p].base /\ loc'[p].index = loc[p].index /\ loc'[p].cand = loc[p].cand
  <2>1. Goto(p, "store") /\ "store" \in Steps
    BY DEF RefAdvanced, WriteStage, Steps
  <2> QED BY <1>t, <2>1, GotoFacts
<1>u. /\ UNCHANGED <<head, side, idx, wt, pending, lastSeq, admitted, freezes, done, scope,
                     users, spoiled>>
      /\ UNCHANGED coord /\ coord = p /\ Pc(p) = "advance"
  BY DEF RefAdvanced, gitVars, runtimeVars, lockVars, boundVars, Control, Exclusive, Holding
<1>j. /\ journal' \in Journals /\ journal' # None /\ journal # None /\ journal'.stage = "RefAdvanced"
      /\ journal'.intent = journal.intent /\ journal'.old = journal.old
      /\ journal'.new = journal.new /\ journal'.index = journal.index
  <2>1. /\ Pc(p) \in {"advance", "indexed", "worktree", "final"} /\ "RefAdvanced" \in Stages
        /\ journal' = [journal EXCEPT !.stage = "RefAdvanced"]
    BY DEF RefAdvanced, WriteStage, Stages
  <2> QED BY <2>1, StageFacts
<1>n. None \notin Publishers
  BY PublicationAssumption
<1>k. loc'[p].mode = "publish" /\ loc'[p].pc \in {"store", "worktree"}
        => journal' = JournalOf(loc'[p], journal'.stage)
  <2>1. SUFFICES ASSUME loc[p].mode = "publish", Pc(p) # "final"
        PROVE  journal' = JournalOf(loc'[p], journal'.stage)
    BY <1>f, <1>u
  <2>2. /\ journal.old = loc[p].base /\ journal.new = loc[p].cand /\ journal.intent = loc[p].intent
        /\ journal.index = loc[p].index
    BY <1>u, <2>1 DEF Control, JournalFollows, Own, JournalOf
  <2>3. journal' = [old |-> journal'.old, new |-> journal'.new, intent |-> journal'.intent,
                    index |-> journal'.index, stage |-> journal'.stage]
    BY <1>j DEF Journals
  <2> QED BY <1>f, <1>j, <2>2, <2>3 DEF JournalOf
<1>s. journal'.stage \notin {"RuntimeCompleted", "Complete"} \/ journal.stage = "RuntimeCompleted"
  BY <1>j, <1>u DEF Control, JournalFollows, StageAt
<1>1. TypeOK'
  BY <1>t, <1>f, <1>u, <1>o, <1>j DEF Control, TypeOK
<1>2. Exclusive'
  BY <1>t, <1>f, <1>u DEF Control, Exclusive, Holding
<1>3. JournalFollows'
  <2>1. StageAt(p)' /\ Own(p)'
    BY <1>f, <1>u, <1>j, <1>k DEF StageAt, Own, Fresh
  <2>2. ASSUME NEW q \in Publishers \ {p} PROVE StageAt(q)' /\ Own(q)'
    BY <1>f, <1>u DEF Control, Exclusive, Holding, JournalFollows, StageAt, Own, Fresh
  <2> QED BY <2>1, <2>2 DEF JournalFollows
<1>4. Intents'
  BY <1>t, <1>f, <1>u, <1>j DEF Control, Intents, IntentOf, Fresh, Late, JournalFollows, StageAt
<1>5. Candidates'
  BY <1>t, <1>f, <1>u DEF Control, Candidates
<1>6. Recorded'
  BY <1>t, <1>f, <1>u, <1>j, <1>s DEF Control, Recorded, JournalFollows, StageAt
<1> QED BY <1>1, <1>2, <1>3, <1>4, <1>5, <1>6 DEF Control

(* The reconciliation is recorded.                                         *)
LEMMA IndexReconciledControl ==
  ASSUME Control, NEW p \in Publishers, IndexReconciled(p), Outer
  PROVE  Control'
<1> USE DEF Pc, Staged
<1>o. ilock' \in Locks \cup {None} /\ crashes' \in Nat
  BY DEF Outer
<1>t. loc \in [Publishers -> Memory] /\ TypeOK
  BY DEF Control, TypeOK
<1>f. /\ loc' \in [Publishers -> Memory] /\ \A q \in Publishers \ {p} : loc'[q] = loc[q]
      /\ loc'[p].pc = "worktree" /\ loc'[p].mode = loc[p].mode /\ loc'[p].intent = loc[p].intent
      /\ loc'[p].base = loc[p].base /\ loc'[p].index = loc[p].index /\ loc'[p].cand = loc[p].cand
  <2>1. Goto(p, "worktree") /\ "worktree" \in Steps
    BY DEF IndexReconciled, WriteStage, Steps
  <2> QED BY <1>t, <2>1, GotoFacts
<1>u. /\ UNCHANGED <<head, side, idx, wt, pending, lastSeq, admitted, freezes, done, scope,
                     users, spoiled>>
      /\ UNCHANGED coord /\ coord = p /\ Pc(p) = "indexed"
  BY DEF IndexReconciled, gitVars, runtimeVars, lockVars, boundVars, Control, Exclusive, Holding
<1>j. /\ journal' \in Journals /\ journal' # None /\ journal # None /\ journal'.stage = "IndexReconciled"
      /\ journal'.intent = journal.intent /\ journal'.old = journal.old
      /\ journal'.new = journal.new /\ journal'.index = journal.index
  <2>1. /\ Pc(p) \in {"advance", "indexed", "worktree", "final"} /\ "IndexReconciled" \in Stages
        /\ journal' = [journal EXCEPT !.stage = "IndexReconciled"]
    BY DEF IndexReconciled, WriteStage, Stages
  <2> QED BY <2>1, StageFacts
<1>n. None \notin Publishers
  BY PublicationAssumption
<1>k. loc'[p].mode = "publish" /\ loc'[p].pc \in {"store", "worktree"}
        => journal' = JournalOf(loc'[p], journal'.stage)
  <2>1. SUFFICES ASSUME loc[p].mode = "publish", Pc(p) # "final"
        PROVE  journal' = JournalOf(loc'[p], journal'.stage)
    BY <1>f, <1>u
  <2>2. /\ journal.old = loc[p].base /\ journal.new = loc[p].cand /\ journal.intent = loc[p].intent
        /\ journal.index = loc[p].index
    BY <1>u, <2>1 DEF Control, JournalFollows, Own, JournalOf
  <2>3. journal' = [old |-> journal'.old, new |-> journal'.new, intent |-> journal'.intent,
                    index |-> journal'.index, stage |-> journal'.stage]
    BY <1>j DEF Journals
  <2> QED BY <1>f, <1>j, <2>2, <2>3 DEF JournalOf
<1>s. journal'.stage \notin {"RuntimeCompleted", "Complete"} \/ journal.stage = "RuntimeCompleted"
  BY <1>j, <1>u DEF Control, JournalFollows, StageAt
<1>1. TypeOK'
  BY <1>t, <1>f, <1>u, <1>o, <1>j DEF Control, TypeOK
<1>2. Exclusive'
  BY <1>t, <1>f, <1>u DEF Control, Exclusive, Holding
<1>3. JournalFollows'
  <2>1. StageAt(p)' /\ Own(p)'
    BY <1>f, <1>u, <1>j, <1>k DEF StageAt, Own, Fresh
  <2>2. ASSUME NEW q \in Publishers \ {p} PROVE StageAt(q)' /\ Own(q)'
    BY <1>f, <1>u DEF Control, Exclusive, Holding, JournalFollows, StageAt, Own, Fresh
  <2> QED BY <2>1, <2>2 DEF JournalFollows
<1>4. Intents'
  BY <1>t, <1>f, <1>u, <1>j DEF Control, Intents, IntentOf, Fresh, Late, JournalFollows, StageAt
<1>5. Candidates'
  BY <1>t, <1>f, <1>u DEF Control, Candidates
<1>6. Recorded'
  BY <1>t, <1>f, <1>u, <1>j, <1>s DEF Control, Recorded, JournalFollows, StageAt
<1> QED BY <1>1, <1>2, <1>3, <1>4, <1>5, <1>6 DEF Control

(* The journal is complete.                                                *)
LEMMA MarkCompleteControl ==
  ASSUME Control, NEW p \in Publishers, MarkComplete(p), Outer
  PROVE  Control'
<1> USE DEF Pc, Staged
<1>o. ilock' \in Locks \cup {None} /\ crashes' \in Nat
  BY DEF Outer
<1>t. loc \in [Publishers -> Memory] /\ TypeOK
  BY DEF Control, TypeOK
<1>f. /\ loc' \in [Publishers -> Memory] /\ \A q \in Publishers \ {p} : loc'[q] = loc[q]
      /\ loc'[p].pc = "clear" /\ loc'[p].mode = loc[p].mode /\ loc'[p].intent = loc[p].intent
      /\ loc'[p].base = loc[p].base /\ loc'[p].index = loc[p].index /\ loc'[p].cand = loc[p].cand
  <2>1. Goto(p, "clear") /\ "clear" \in Steps
    BY DEF MarkComplete, WriteStage, Steps
  <2> QED BY <1>t, <2>1, GotoFacts
<1>u. /\ UNCHANGED <<head, side, idx, wt, pending, lastSeq, admitted, freezes, done, scope,
                     users, spoiled>>
      /\ UNCHANGED coord /\ coord = p /\ Pc(p) = "final"
  BY DEF MarkComplete, gitVars, runtimeVars, lockVars, boundVars, Control, Exclusive, Holding
<1>j. /\ journal' \in Journals /\ journal' # None /\ journal # None /\ journal'.stage = "Complete"
      /\ journal'.intent = journal.intent /\ journal'.old = journal.old
      /\ journal'.new = journal.new /\ journal'.index = journal.index
  <2>1. /\ Pc(p) \in {"advance", "indexed", "worktree", "final"} /\ "Complete" \in Stages
        /\ journal' = [journal EXCEPT !.stage = "Complete"]
    BY DEF MarkComplete, WriteStage, Stages
  <2> QED BY <2>1, StageFacts
<1>n. None \notin Publishers
  BY PublicationAssumption
<1>k. loc'[p].mode = "publish" /\ loc'[p].pc \in {"store", "worktree"}
        => journal' = JournalOf(loc'[p], journal'.stage)
  <2>1. SUFFICES ASSUME loc[p].mode = "publish", Pc(p) # "final"
        PROVE  journal' = JournalOf(loc'[p], journal'.stage)
    BY <1>f, <1>u
  <2>2. /\ journal.old = loc[p].base /\ journal.new = loc[p].cand /\ journal.intent = loc[p].intent
        /\ journal.index = loc[p].index
    BY <1>u, <2>1 DEF Control, JournalFollows, Own, JournalOf
  <2>3. journal' = [old |-> journal'.old, new |-> journal'.new, intent |-> journal'.intent,
                    index |-> journal'.index, stage |-> journal'.stage]
    BY <1>j DEF Journals
  <2> QED BY <1>f, <1>j, <2>2, <2>3 DEF JournalOf
<1>s. journal'.stage \notin {"RuntimeCompleted", "Complete"} \/ journal.stage = "RuntimeCompleted"
  BY <1>j, <1>u DEF Control, JournalFollows, StageAt
<1>1. TypeOK'
  BY <1>t, <1>f, <1>u, <1>o, <1>j DEF Control, TypeOK
<1>2. Exclusive'
  BY <1>t, <1>f, <1>u DEF Control, Exclusive, Holding
<1>3. JournalFollows'
  <2>1. StageAt(p)' /\ Own(p)'
    BY <1>f, <1>u, <1>j, <1>k DEF StageAt, Own, Fresh
  <2>2. ASSUME NEW q \in Publishers \ {p} PROVE StageAt(q)' /\ Own(q)'
    BY <1>f, <1>u DEF Control, Exclusive, Holding, JournalFollows, StageAt, Own, Fresh
  <2> QED BY <2>1, <2>2 DEF JournalFollows
<1>4. Intents'
  BY <1>t, <1>f, <1>u, <1>j DEF Control, Intents, IntentOf, Fresh, Late, JournalFollows, StageAt
<1>5. Candidates'
  BY <1>t, <1>f, <1>u DEF Control, Candidates
<1>6. Recorded'
  BY <1>t, <1>f, <1>u, <1>j, <1>s DEF Control, Recorded, JournalFollows, StageAt
<1> QED BY <1>1, <1>2, <1>3, <1>4, <1>5, <1>6 DEF Control

(* The runtime step is recorded in the journal.                            *)
LEMMA MarksControl ==
  ASSUME Control, NEW p \in Publishers, Marks(p), Outer
  PROVE  Control'
<1> USE DEF Pc, Staged
<1>o. ilock' \in Locks \cup {None} /\ crashes' \in Nat
  BY DEF Outer
<1>t. loc \in [Publishers -> Memory] /\ TypeOK
  BY DEF Control, TypeOK
<1>f. /\ loc' \in [Publishers -> Memory] /\ \A q \in Publishers \ {p} : loc'[q] = loc[q]
      /\ loc'[p].pc = "final" /\ loc'[p].mode = loc[p].mode /\ loc'[p].intent = loc[p].intent
      /\ loc'[p].base = loc[p].base /\ loc'[p].index = loc[p].index /\ loc'[p].cand = loc[p].cand
  <2>1. Goto(p, "final") /\ "final" \in Steps
    BY DEF Marks, Steps
  <2> QED BY <1>t, <2>1, GotoFacts
<1>u. /\ UNCHANGED <<head, side, idx, wt, pending, lastSeq, admitted, freezes, done, scope, users>>
      /\ spoiled' \in BOOLEAN /\ coord = None /\ coord' = p /\ Pc(p) = "mark"
  BY <1>t DEF Marks, gitVars, runtimeVars, lockVars, boundVars, TypeOK
<1>j. /\ journal' \in Journals /\ journal' # None /\ journal'.intent = loc[p].intent /\ journal'.stage = "RuntimeCompleted"
      /\ journal'.old = loc[p].base /\ journal'.new = loc[p].cand /\ journal'.index = loc[p].index
  <2>1. Pc(p) \in {"prepare", "mark"} /\ "RuntimeCompleted" \in Stages /\ journal' = JournalOf(loc[p], "RuntimeCompleted")
    BY DEF Marks, Stages
  <2> QED BY <2>1, WroteFacts
<1>n. None \notin Publishers
  BY PublicationAssumption
<1>1. TypeOK'
  BY <1>t, <1>f, <1>u, <1>o, <1>j DEF Control, TypeOK
<1>2. Exclusive'
  BY <1>t, <1>f, <1>u, <1>n DEF Control, Exclusive, Holding
<1>3. JournalFollows'
  BY <1>t, <1>f, <1>u, <1>j, <1>n DEF Control, JournalFollows, StageAt, Own, JournalOf, Fresh, Exclusive, Holding
<1>4. Intents'
  BY <1>t, <1>f, <1>u, <1>j DEF Control, Intents, IntentOf, Fresh, Late
<1>5. Candidates'
  BY <1>t, <1>f, <1>u DEF Control, Candidates
<1>6. Recorded'
  BY <1>t, <1>f, <1>u, <1>j DEF Control, Recorded
<1> QED BY <1>1, <1>2, <1>3, <1>4, <1>5, <1>6 DEF Control

(* The tail is consumed.                                                   *)
LEMMA ConsumeControl ==
  ASSUME Control, NEW p \in Publishers, ConsumeTail(p), Outer
  PROVE  Control'
<1> USE DEF Pc, Staged
<1>o. ilock' \in Locks \cup {None} /\ crashes' \in Nat
  BY DEF Outer
<1>t. loc \in [Publishers -> Memory] /\ TypeOK
  BY DEF Control, TypeOK
<1>f. /\ loc' \in [Publishers -> Memory] /\ \A q \in Publishers \ {p} : loc'[q] = loc[q]
      /\ loc'[p].pc = "mark" /\ loc'[p].mode = loc[p].mode /\ loc'[p].intent = loc[p].intent
      /\ loc'[p].base = loc[p].base /\ loc'[p].index = loc[p].index /\ loc'[p].cand = loc[p].cand
  <2>1. Goto(p, "mark") /\ "mark" \in Steps
    BY DEF ConsumeTail, Steps
  <2> QED BY <1>t, <2>1, GotoFacts
<1>u. /\ UNCHANGED <<head, side, idx, wt, lastSeq, admitted, freezes, scope, users, spoiled,
                     coord, journal>>
      /\ Pc(p) = "consume"
  BY DEF ConsumeTail, CompletePublication, gitVars, runtimeVars, lockVars, boundVars
<1>c. /\ done' \in Seq(Commits \cup {None}) /\ Len(done') = Len(done) /\ DOMAIN done' = DOMAIN done
      /\ done'[loc[p].intent] = loc[p].cand
      /\ \A j \in DOMAIN done : done[j] # None => done'[j] = done[j]
      /\ pending' \in SUBSET Mutations
  <2>1. loc[p].intent \in DOMAIN done /\ loc[p].cand \in Commits
    BY DEF Control, Intents, IntentOf, Candidates, ConsumeTail, Fresh
  <2> QED BY <1>t, <2>1, CompleteFacts DEF ConsumeTail
<1>n. None \notin Commits
  BY AbsenceAssumption
<1>j. journal # None => journal \in Journals /\ journal.new # None
  BY <1>t, AbsenceAssumption DEF TypeOK, Journals
<1>1. TypeOK'
  BY <1>t, <1>f, <1>u, <1>o, <1>c DEF Control, TypeOK
<1>2. Exclusive'
  BY <1>t, <1>f, <1>u DEF Control, Exclusive, Holding
<1>3. JournalFollows'
  BY <1>t, <1>f, <1>u DEF Control, JournalFollows, StageAt, Own, JournalOf, Fresh
<1>4. Intents'
  BY <1>t, <1>f, <1>u, <1>c DEF Control, Intents, IntentOf, Fresh, Late
<1>5. Candidates'
  BY <1>t, <1>f, <1>u DEF Control, Candidates
<1>6. Recorded'
  BY <1>t, <1>f, <1>u, <1>c, <1>n, <1>j DEF Control, Recorded, Candidates, Intents, IntentOf
<1> QED BY <1>1, <1>2, <1>3, <1>4, <1>5, <1>6 DEF Control

(* The journal is cleared.                                                 *)
LEMMA ClearControl ==
  ASSUME Control, NEW p \in Publishers, ClearJournal(p), Outer
  PROVE  Control'
<1> USE DEF Pc, Staged
<1>o. ilock' \in Locks \cup {None} /\ crashes' \in Nat
  BY DEF Outer
<1>t. loc \in [Publishers -> Memory] /\ TypeOK
  BY DEF Control, TypeOK
<1>f. /\ loc' \in [Publishers -> Memory] /\ \A q \in Publishers \ {p} : loc'[q] = loc[q]
      /\ loc'[p].pc \in {"select", "idle"} /\ loc'[p].mode = "publish" /\ loc'[p].intent = None
  <2> DEFINE l == IF loc[p].mode = "recover" THEN [Idle EXCEPT !.pc = "select"] ELSE Idle
  <2>1. l \in Memory /\ l.pc \in {"select", "idle"} /\ l.mode = "publish" /\ l.intent = None
    BY IdleMemory DEF Idle, Memory, Steps
  <2>2. loc' = [loc EXCEPT ![p] = l]
    BY DEF ClearJournal
  <2> QED BY <1>t, <2>1, <2>2, PutFacts
<1>u. /\ UNCHANGED <<head, side, idx, wt, pending, lastSeq, admitted, freezes, done, scope,
                     users, spoiled>>
      /\ coord = p /\ coord' = None /\ journal' = None
  BY DEF ClearJournal, gitVars, runtimeVars, lockVars, boundVars, Control, Exclusive, Holding
<1>n. None \notin Publishers
  BY PublicationAssumption
<1>1. TypeOK'
  BY <1>t, <1>f, <1>u, <1>o DEF Control, TypeOK
<1>2. Exclusive'
  BY <1>t, <1>f, <1>u DEF Control, Exclusive, Holding
<1>3. JournalFollows'
  BY <1>t, <1>f, <1>u, <1>n DEF Control, JournalFollows, StageAt, Own, JournalOf, Fresh, Exclusive, Holding
<1>4. Intents'
  BY <1>t, <1>f, <1>u DEF Control, Intents, IntentOf, Fresh
<1>5. Candidates'
  BY <1>t, <1>f, <1>u DEF Control, Candidates
<1>6. Recorded'
  BY <1>t, <1>f, <1>u DEF Control, Recorded
<1> QED BY <1>1, <1>2, <1>3, <1>4, <1>5, <1>6 DEF Control

(* The last stage of the repository.                                       *)
LEMMA WorktreeControl ==
  ASSUME Control, NEW p \in Publishers, WorktreeReconciled(p), Outer
  PROVE  Control'
<1> USE DEF Pc, Staged
<1>o. ilock' \in Locks \cup {None} /\ crashes' \in Nat
  BY DEF Outer
<1>t. loc \in [Publishers -> Memory] /\ TypeOK
  BY DEF Control, TypeOK
<1>f. /\ loc' \in [Publishers -> Memory] /\ \A q \in Publishers \ {p} : loc'[q] = loc[q]
      /\ \/ loc'[p].pc = "idle" /\ loc'[p].mode = "publish" /\ loc'[p].intent = None
         \/ /\ loc'[p].pc = "complete" /\ loc'[p].mode = loc[p].mode /\ loc'[p].intent = loc[p].intent
            /\ loc'[p].base = loc[p].base /\ loc'[p].cand = loc[p].cand /\ loc[p].intent # None
  <2>1. \/ loc' = [loc EXCEPT ![p] = Idle]
        \/ loc[p].intent # None /\ Goto(p, "complete")
    BY DEF WorktreeReconciled, RecoverRuntimeRequired
  <2> QED BY <1>t, <2>1, PutFacts, IdleMemory, GotoFacts DEF Steps
<1>u. /\ UNCHANGED <<head, side, idx, wt, pending, lastSeq, admitted, freezes, done, scope,
                     users, spoiled>>
      /\ coord = p /\ coord' = None /\ Pc(p) = "worktree"
  BY DEF WorktreeReconciled, RecoverRuntimeRequired, gitVars, runtimeVars, lockVars, boundVars, Control, Exclusive, Holding
<1>j. /\ journal' \in Journals /\ journal' # None /\ journal # None /\ journal'.stage = "WorktreeReconciled"
      /\ journal'.intent = journal.intent /\ journal'.old = journal.old
      /\ journal'.new = journal.new /\ journal'.index = journal.index
  <2>1. /\ Pc(p) \in {"advance", "indexed", "worktree", "final"} /\ "WorktreeReconciled" \in Stages
        /\ journal' = [journal EXCEPT !.stage = "WorktreeReconciled"]
    BY DEF WorktreeReconciled, WriteStage, Stages
  <2> QED BY <2>1, StageFacts
<1>n. None \notin Publishers
  BY PublicationAssumption
<1>k. loc[p].mode = "publish" => loc[p].base \in Commits /\ loc[p].cand \in Commits
  BY <1>t, <1>u, <1>j DEF Control, JournalFollows, Own, JournalOf, Journals, TypeOK
<1>m. loc[p].mode \in {"publish", "recover"}
  BY <1>t DEF Memory
<1>1. TypeOK'
  BY <1>t, <1>f, <1>u, <1>o, <1>j DEF Control, TypeOK
<1>2. Exclusive'
  BY <1>t, <1>f, <1>u DEF Control, Exclusive, Holding
<1>3. JournalFollows'
  BY <1>t, <1>f, <1>u, <1>j, <1>n DEF Control, JournalFollows, StageAt, Own, JournalOf, Fresh, Exclusive, Holding
<1>4. Intents'
  BY <1>t, <1>f, <1>u, <1>j DEF Control, Intents, IntentOf, Fresh, Late
<1>5. Candidates'
  BY <1>t, <1>f, <1>u, <1>j, <1>k, <1>m DEF Control, Candidates
<1>6. Recorded'
  BY <1>t, <1>f, <1>u, <1>j DEF Control, Recorded
<1> QED BY <1>1, <1>2, <1>3, <1>4, <1>5, <1>6 DEF Control
-----------------------------------------------------------------------------
(* Steps of the person and of the runtime.                                 *)

(* What the person leaves alone.                                           *)
Mine == UNCHANGED <<coord, journal, pending, lastSeq, admitted, freezes, done, loc, scope, crashes, spoiled>>

(* A step of the person's leaves Orna's files alone.                       *)
LEMMA UserTypes ==
  ASSUME TypeOK, UserNext
  PROVE  /\ Mine /\ users' = users + 1 /\ head' \in Commits /\ side' \in Commits \cup {None}
         /\ idx' \in Content /\ wt' \in Content
<1>0. /\ head \in Commits /\ side \in Commits \cup {None} /\ idx \in Content /\ wt \in Content
      /\ head \in Seq(Version)
  BY TipContent DEF TypeOK
<1>1. Mine /\ users' = users + 1
  BY DEF UserNext, EditWorktree, GitAdd, GitCommitStart, GitCommitEnd, GitRevert, GitResetSoft,
       GitBranch, GitSwitch, UserStep, Mine, runtimeVars
<1>2. \A rows \in Content : Append(head, [rows |-> rows, by |-> User]) \in Commits
  BY <1>0, ChildCommit DEF Version
<1>3. CASE EditWorktree
  BY <1>0, <1>1, <1>3 DEF EditWorktree, Content
<1>4. CASE GitAdd \/ GitCommitStart \/ GitBranch
  BY <1>0, <1>1, <1>4 DEF GitAdd, GitCommitStart, GitBranch, gitVars
<1>5. CASE GitCommitEnd
  BY <1>0, <1>1, <1>2, <1>5 DEF GitCommitEnd
<1>6. CASE GitRevert
  <2>1. Tip(Front(head)) \in Content
    BY <1>0, <1>6, FrontCommit, TipContent DEF GitRevert
  <2>2. /\ head' = Append(head, [rows |-> Tip(Front(head)), by |-> User]) /\ side' = side
        /\ idx' = Tip(Front(head)) /\ wt' = Tip(Front(head))
    BY <1>6 DEF GitRevert
  <2> QED BY <1>0, <1>1, <1>2, <2>1, <2>2
<1>7. CASE GitResetSoft
  BY <1>0, <1>1, <1>7, FrontCommit DEF GitResetSoft
<1>8. CASE GitSwitch
  <2>1. side \in Commits /\ head' = side /\ side' = head /\ idx' = Tip(side) /\ wt' = Tip(side)
    BY <1>0, <1>8 DEF GitSwitch
  <2> QED BY <1>0, <1>1, <2>1, TipContent
<1> QED BY <1>3, <1>4, <1>5, <1>6, <1>7, <1>8 DEF UserNext

(* The person cannot disturb the control of the publishers.                *)
LEMMA UserControl ==
  ASSUME Control, UserNext, ilock' \in Locks \cup {None}
  PROVE  Control'
<1> USE DEF Pc, Staged
<1>1. TypeOK
  BY DEF Control
<1>2. /\ Mine /\ users' = users + 1 /\ head' \in Commits /\ side' \in Commits \cup {None}
      /\ idx' \in Content /\ wt' \in Content
  BY <1>1, UserTypes
<1>3. TypeOK'
  BY <1>1, <1>2 DEF TypeOK, Mine
<1>4. Exclusive' /\ JournalFollows'
  BY <1>2 DEF Control, Exclusive, JournalFollows, StageAt, Own, Mine
<1>5. Intents' /\ Candidates' /\ Recorded'
  BY <1>2 DEF Control, Intents, IntentOf, Candidates, Recorded, Mine
<1> QED BY <1>3, <1>4, <1>5 DEF Control

(* What the runtime appends.                                               *)
LEMMA AppendFacts ==
  ASSUME TypeOK, NEW row \in scope.rows, AppendMutation(row)
  PROVE  /\ [seq |-> lastSeq + 1, row |-> row] \in Mutations
         /\ pending' = pending \cup {[seq |-> lastSeq + 1, row |-> row]}
         /\ admitted' = admitted \cup {[seq |-> lastSeq + 1, row |-> row]}
         /\ lastSeq' = lastSeq + 1
         /\ UNCHANGED <<head, side, idx, wt, ilock, coord, journal, freezes, done, loc, scope,
                        users, crashes, spoiled>>
<1>1. scope \in Scopes /\ lastSeq \in Nat
  BY DEF TypeOK
<1>2. row \in Rows
  BY <1>1, PublicationAssumption
<1> QED BY <1>1, <1>2 DEF AppendMutation, Mutations, gitVars, lockVars, boundVars

(* Neither can a new mutation.                                             *)
LEMMA AppendControl ==
  ASSUME Control, NEW row \in scope.rows, AppendMutation(row)
  PROVE  Control'
<1> USE DEF Pc, Staged
<1>1. TypeOK
  BY DEF Control
<1>2. /\ [seq |-> lastSeq + 1, row |-> row] \in Mutations
      /\ pending' = pending \cup {[seq |-> lastSeq + 1, row |-> row]}
      /\ admitted' = admitted \cup {[seq |-> lastSeq + 1, row |-> row]}
      /\ lastSeq' = lastSeq + 1
      /\ UNCHANGED <<head, side, idx, wt, ilock, coord, journal, freezes, done, loc, scope,
                     users, crashes, spoiled>>
  BY <1>1, AppendFacts
<1>3. TypeOK'
  BY <1>1, <1>2 DEF TypeOK
<1>4. Exclusive' /\ JournalFollows'
  BY <1>2 DEF Control, Exclusive, JournalFollows, StageAt, Own
<1>5. Intents' /\ Candidates' /\ Recorded'
  BY <1>2 DEF Control, Intents, IntentOf, Candidates, Recorded
<1> QED BY <1>3, <1>4, <1>5 DEF Control

(* Nor a step that changes nothing.                                        *)
LEMMA StutterControl ==
  ASSUME Control, UNCHANGED vars PROVE Control'
<1> USE DEF Pc, Staged, vars, gitVars, lockVars, runtimeVars, boundVars
<1>1. TypeOK'
  BY DEF Control, TypeOK
<1>2. Exclusive' /\ JournalFollows'
  BY DEF Control, Exclusive, JournalFollows, StageAt, Own
<1>3. Intents' /\ Candidates' /\ Recorded'
  BY DEF Control, Intents, IntentOf, Candidates, Recorded
<1> QED BY <1>1, <1>2, <1>3 DEF Control

(* The invariant holds initially.                                          *)
LEMMA InitControl ==
  ASSUME Init PROVE Control
<1> USE DEF Pc, Staged
<1>1. head \in Commits
  <2>1. [rows |-> {}, by |-> User] \in Version
    BY DEF Version, Content
  <2> QED BY <2>1, EmptySeq DEF Init, Commits
<1>2. \A p \in Publishers : loc[p] = Idle
  BY DEF Init
<1>3. TypeOK
  <2>1. freezes = <<>> /\ done = <<>>
    BY DEF Init
  <2>2. freezes \in Seq(Nat) /\ done \in Seq(Commits \cup {None}) /\ Len(done) = Len(freezes)
    BY <2>1, EmptySeq
  <2> QED BY <1>1, <2>2, IdleMemory DEF Init, TypeOK, Content
<1>4. Exclusive /\ JournalFollows /\ Candidates
  BY <1>2, IdleMemory DEF Exclusive, Holding, JournalFollows, StageAt, Own, Fresh, Candidates
<1>5. Intents /\ Recorded
  BY <1>2, IdleMemory DEF Init, Intents, IntentOf, Fresh, Recorded
<1> QED BY <1>3, <1>4, <1>5 DEF Control

(* The open parts of the shapes have their types.                          *)
LEMMA OuterHolds ==
  ASSUME TypeOK, JournalFollows, [Next]_vars PROVE Outer
<1>1. ilock' \in Locks \cup {None}
  BY LockTypes
<1>2. crashes' = crashes \/ crashes' = crashes + 1
  <2>1. ASSUME NEW p, Run(p) \/ Crash(p) PROVE crashes' = crashes \/ crashes' = crashes + 1
    BY <2>1 DEF Run, Recovery, Publish, Reconcile, Complete, Crash, Refused, Exit, Released,
         AbandonPrepared, RecoverRead, RecoverRuntime, RecoverRepository, RecoverNothing,
         RecoverDiscard, RecoverResume, RecoverConflict, RecoverVerified, RecoverFinish, Reacquire,
         VerifyStore, Select, Freeze, Capture, ReadTail, NoVisibleChange, Build, PublishEnter,
         LockIndex, Prepare, AdvanceRef, ConfirmRef, RefAdvanced, InstallStore, InstallIndex,
         IndexReconciled, WorktreeReconciled, VerifyPublished, ConsumeTail, MarkRuntimeComplete,
         MarkComplete, ClearJournal, boundVars
  <2>2. CASE UserNext
    BY <2>2, UserTypes DEF Mine
  <2>3. CASE (\E row \in scope.rows : AppendMutation(row)) \/ UNCHANGED vars
    BY <2>3 DEF AppendMutation, boundVars, vars
  <2> QED BY <2>1, <2>2, <2>3 DEF Next
<1>3. crashes \in Nat
  BY DEF TypeOK
<1> QED BY <1>1, <1>2, <1>3 DEF Outer

(* All shapes together.                                                    *)
LEMMA ShapeControl ==
  ASSUME Control, NEW p \in Publishers, Shaped(p), Outer PROVE Control'
  BY LeavesControl, WalksControl, EntersControl, ReadControl, RuntimeControl, DiscardsControl,
     AbandonsControl, FreezeControl, CapturesControl, FindsNothingControl, BuildsControl,
     NoChangeControl, PreparesControl, AdvancesControl, InstallsStoreControl, InstallsIndexControl,
     RefAdvancedControl, IndexReconciledControl, MarkCompleteControl, MarksControl, ConsumeControl,
     ClearControl, WorktreeControl DEF Shaped

(* Every step is a publisher's with one of the shapes, the person's, the   *)
(* runtime's, or none.                                                     *)
LEMMA StepKinds ==
  ASSUME TypeOK, [Next]_vars
  PROVE  \/ \E p \in Publishers : Shaped(p)
         \/ UserNext
         \/ \E row \in scope.rows : AppendMutation(row)
         \/ UNCHANGED vars
<1>1. scope.publishers \subseteq Publishers
  BY PublicationAssumption DEF TypeOK
<1> QED BY <1>1, Shapes DEF Next

(* Every step keeps the control invariant.                                 *)
LEMMA NextControl ==
  ASSUME Control, [Next]_vars PROVE Control'
<1>1. TypeOK /\ JournalFollows /\ Outer /\ ilock' \in Locks \cup {None}
  BY OuterHolds DEF Control, Outer
<1> QED BY <1>1, StepKinds, ShapeControl, UserControl, AppendControl, StutterControl

(* Only the holder of the coordination lock works on the journal, at each  *)
(* step the journal has the stage that step expects, an intent is fresh    *)
(* until its journal is written, and a journal past the runtime's stage    *)
(* names the commit the runtime has recorded.                              *)
THEOREM JournalProtocol == Spec => []Control
<1>1. Init => Control
  BY InitControl
<1>2. Control /\ [Next]_vars => Control'
  BY NextControl
<1> QED BY <1>1, <1>2, PTL DEF Spec

-----------------------------------------------------------------------------
(* What a step of a publisher may do to its memory, to the journal and to  *)
(* the branch.                                                             *)

Same(p) ==
    /\ loc'[p].mode = loc[p].mode /\ loc'[p].intent = loc[p].intent
    /\ loc'[p].base = loc[p].base /\ loc'[p].cand = loc[p].cand

(* How the steps that the safety properties depend on are reached.         *)
Moved(p) ==
    /\ \A q \in Publishers \ {p} : loc'[q] = loc[q]
    /\ loc'[p].pc = "readTail" => Captures(p) /\ loc'[p].base = head
    /\ loc'[p].pc = "noop" => FindsNothing(p) /\ Same(p)
    /\ loc'[p].pc = "index" => InstallsStore(p)
    /\ loc'[p].pc = "indexed" => InstallsIndex(p)
    /\ loc'[p].pc = "complete" =>
         /\ Same(p)
         /\ WorktreeReconciled(p) \/ (Pc(p) = "recover" /\ UNCHANGED journal)
    /\ loc'[p].pc = "consume" =>
         /\ Same(p) /\ Pc(p) = "complete" /\ HasCommit(head, loc[p].cand) /\ UNCHANGED <<head, journal>>
         /\ loc[p].mode = "recover" => journal = JournalOf(loc[p], "WorktreeReconciled")
    /\ loc'[p].pc = "mark" => ConsumeTail(p) /\ Same(p)
    /\ \/ loc'[p].cand = <<>>
       \/ loc'[p].cand = loc[p].cand /\ loc'[p].intent = loc[p].intent
       \/ Builds(p) \/ RecoverRead(p)

(* Going on keeps what is remembered.                                      *)
LEMMA GotoMoves ==
  ASSUME TypeOK, NEW p \in Publishers, NEW pc \in Steps, Goto(p, pc)
  PROVE  Same(p) /\ loc'[p].pc = pc /\ \A q \in Publishers \ {p} : loc'[q] = loc[q]
  BY GotoFacts DEF TypeOK, Same

(* A process that ends reaches none of the steps in question.              *)
LEMMA IdleMoves ==
  ASSUME TypeOK, NEW p \in Publishers, loc' = [loc EXCEPT ![p] = Idle]
  PROVE  Moved(p)
<1>1. loc'[p] = Idle /\ \A q \in Publishers \ {p} : loc'[q] = loc[q]
  BY PutFacts, IdleMemory DEF TypeOK
<1>2. loc'[p].pc = "idle" /\ loc'[p].cand = <<>>
  BY <1>1, IdleMemory
<1> QED BY <1>1, <1>2 DEF Moved

(* Every shape is such a move.                                             *)
LEMMA Moves ==
  ASSUME TypeOK, NEW p \in Publishers, Shaped(p)
  PROVE  Moved(p)
<1> USE DEF Pc, Staged
<1>1. CASE Leaves(p) \/ Abandons(p) \/ NoVisibleChange(p)
  BY <1>1, IdleMoves DEF Leaves, Abandons, NoVisibleChange, Exit
<1>2. CASE Walks(p)
  BY <1>2, GotoMoves DEF Walks, Walk, Steps, Moved, Same, Still, gitVars
<1>3. CASE Enters(p)
  BY <1>3, GotoMoves DEF Enters, Enter, Steps, Moved, Same
<1>4. CASE RecoverRead(p)
  BY <1>4, ReadFacts DEF Moved
<1>5. CASE RecoverRuntime(p)
  BY <1>5, GotoMoves DEF RecoverRuntime, Steps, Moved, Same
<1>6. CASE Discards(p)
  BY <1>6, GotoMoves DEF Discards, Steps, Moved, Same
<1>7. CASE Freeze(p)
  BY <1>7, FreezeFacts DEF Moved
<1>8. CASE Captures(p)
  <2>1. loc \in [Publishers -> Memory]
    BY DEF TypeOK
  <2>2. /\ loc'[p] = [loc[p] EXCEPT !.pc = "readTail", !.base = head, !.index = idx]
        /\ \A q \in Publishers \ {p} : loc'[q] = loc[q]
    BY <1>8, <2>1 DEF Captures
  <2>3. loc'[p].pc = "readTail" /\ loc'[p].base = head /\ loc'[p].cand = loc[p].cand
        /\ loc'[p].intent = loc[p].intent
    BY <2>1, <2>2 DEF Memory
  <2> QED BY <1>8, <2>2, <2>3 DEF Moved
<1>9. CASE FindsNothing(p)
  BY <1>9, GotoMoves DEF FindsNothing, Walk, Steps, Moved, Same
<1>10. CASE Builds(p)
  <2>1. loc \in [Publishers -> Memory]
    BY DEF TypeOK
  <2>2. loc'[p].pc = "build" /\ \A q \in Publishers \ {p} : loc'[q] = loc[q]
    BY <1>10, <2>1 DEF Builds, Memory
  <2> QED BY <1>10, <2>2 DEF Moved
<1>11. CASE Prepares(p)
  BY <1>11, GotoMoves DEF Prepares, Steps, Moved, Same
<1>12. CASE Advances(p)
  BY <1>12, GotoMoves DEF Advances, Steps, Moved, Same
<1>13. CASE RefAdvanced(p) \/ IndexReconciled(p) \/ MarkComplete(p)
  BY <1>13, GotoMoves DEF RefAdvanced, IndexReconciled, MarkComplete, WriteStage, Steps, Moved, Same
<1>14. CASE InstallsStore(p)
  BY <1>14, GotoMoves DEF InstallsStore, Steps, Moved, Same
<1>15. CASE InstallsIndex(p)
  BY <1>15, GotoMoves DEF InstallsIndex, Steps, Moved, Same
<1>16. CASE WorktreeReconciled(p)
  <2>1. CASE loc' = [loc EXCEPT ![p] = Idle]
    BY <2>1, IdleMoves
  <2>2. CASE Goto(p, "complete")
    BY <1>16, <2>2, GotoMoves DEF Steps, Moved, Same
  <2> QED BY <1>16, <2>1, <2>2 DEF WorktreeReconciled, RecoverRuntimeRequired
<1>17. CASE ConsumeTail(p)
  BY <1>17, GotoMoves DEF ConsumeTail, Steps, Moved, Same
<1>18. CASE Marks(p)
  BY <1>18, GotoMoves DEF Marks, Steps, Moved, Same
<1>19. CASE ClearJournal(p)
  <2> DEFINE l == IF loc[p].mode = "recover" THEN [Idle EXCEPT !.pc = "select"] ELSE Idle
  <2>1. l \in Memory /\ l.pc \in {"select", "idle"} /\ l.cand = <<>>
    BY IdleMemory DEF Idle, Memory, Steps
  <2>2. loc' = [loc EXCEPT ![p] = l]
    BY <1>19 DEF ClearJournal
  <2> HIDE DEF l
  <2>3. loc'[p] = l /\ \A q \in Publishers \ {p} : loc'[q] = loc[q]
    BY <2>1, <2>2, PutFacts DEF TypeOK
  <2> QED BY <2>1, <2>3 DEF Moved
<1> QED BY <1>1, <1>2, <1>3, <1>4, <1>5, <1>6, <1>7, <1>8, <1>9, <1>10, <1>11, <1>12, <1>13,
           <1>14, <1>15, <1>16, <1>17, <1>18, <1>19 DEF Shaped

(* Who changes the journal, and what remains of it.                        *)
JournalMoved(p) ==
    \/ UNCHANGED journal
    \/ /\ coord = p /\ journal # None /\ journal' # None /\ journal'.intent = journal.intent
       /\ journal'.new = journal.new /\ UNCHANGED <<gitVars, spoiled>>
       /\ journal'.old = journal.old /\ journal'.index = journal.index
       /\ journal'.stage \in AtRuntime => journal.stage \in AtRuntime
       /\ \/ journal.stage = "Prepared" /\ journal'.stage = "RefAdvanced"
          \/ Pc(p) = "indexed" /\ journal'.stage \notin Early
          \/ journal.stage \notin Early /\ journal'.stage \notin Early
    \/ Discards(p) \/ Abandons(p) \/ ClearJournal(p)
    \/ /\ Prepares(p) /\ journal = None /\ journal' # None /\ journal'.stage = "Prepared"
       /\ journal'.intent = loc[p].intent /\ journal'.new = loc[p].cand
       /\ journal'.old = loc[p].base /\ journal'.index = loc[p].index
    \/ /\ Marks(p) /\ journal' # None /\ journal'.stage = "RuntimeCompleted"
       /\ journal'.intent = loc[p].intent /\ journal'.new = loc[p].cand

(* Every shape is such a change of the journal.                            *)
LEMMA JournalMoves ==
  ASSUME Control, NEW p \in Publishers, Shaped(p)
  PROVE  JournalMoved(p)
<1> USE DEF Pc, Staged
<1>1. CASE Prepares(p)
  BY <1>1, WroteFacts DEF Prepares, JournalMoved, Control, JournalFollows, StageAt, Stages
<1>2. CASE Marks(p)
  BY <1>2, WroteFacts DEF Marks, JournalMoved, Stages
<1>3. CASE RefAdvanced(p)
  <2>1. journal.stage = "Prepared" /\ coord = p
    BY <1>3 DEF RefAdvanced, Control, JournalFollows, StageAt, Exclusive, Holding
  <2> QED BY <1>3, <2>1, StageFacts DEF RefAdvanced, WriteStage, JournalMoved, Stages, AtRuntime, boundVars
<1>4. CASE IndexReconciled(p)
  <2>1. coord = p
    BY <1>4 DEF IndexReconciled, Control, Exclusive, Holding
  <2> QED BY <1>4, <2>1, StageFacts
          DEF IndexReconciled, WriteStage, JournalMoved, Stages, Early, AtRuntime, boundVars
<1>5. CASE WorktreeReconciled(p) \/ MarkComplete(p)
  <2>1. journal.stage \notin Early /\ coord = p /\ (MarkComplete(p) => journal.stage \in AtRuntime)
    BY <1>5 DEF WorktreeReconciled, MarkComplete, Control, JournalFollows, StageAt, Exclusive, Holding,
         Early, AtRuntime
  <2> QED BY <1>5, <2>1, StageFacts
          DEF WorktreeReconciled, MarkComplete, WriteStage, JournalMoved, Stages, Early, AtRuntime, boundVars
<1>6. CASE Discards(p) \/ Abandons(p) \/ ClearJournal(p)
  BY <1>6 DEF JournalMoved
<1>7. CASE Leaves(p) \/ Walks(p) \/ Enters(p) \/ RecoverRead(p) \/ RecoverRuntime(p) \/ Freeze(p)
           \/ Captures(p) \/ FindsNothing(p) \/ Builds(p) \/ NoVisibleChange(p) \/ Advances(p)
           \/ InstallsStore(p) \/ InstallsIndex(p) \/ ConsumeTail(p)
  BY <1>7 DEF JournalMoved, Leaves, Walks, Walk, Enters, Enter, RecoverRead, RecoverRuntime, Freeze,
       Captures, FindsNothing, Builds, NoVisibleChange, Advances, InstallsStore, InstallsIndex, ConsumeTail
<1> QED BY <1>1, <1>2, <1>3, <1>4, <1>5, <1>6, <1>7 DEF Shaped

(* Who changes the branch, the index and the worktree.                     *)
LEMMA GitMoves ==
  ASSUME Control, NEW p \in Publishers, Shaped(p)
  PROVE  /\ \/ UNCHANGED gitVars
            \/ Advances(p) \/ InstallsStore(p) \/ InstallsIndex(p)
         /\ UNCHANGED gitVars \/ (coord = p /\ UNCHANGED journal)
         /\ UNCHANGED <<scope, users>>
<1> USE DEF Pc, Still, boundVars
<1>1. CASE Advances(p) \/ InstallsStore(p) \/ InstallsIndex(p)
  BY <1>1 DEF Advances, InstallsStore, InstallsIndex, Control, Exclusive, Holding
<1>2. CASE ~(Advances(p) \/ InstallsStore(p) \/ InstallsIndex(p))
  BY <1>2 DEF Shaped, Leaves, Walks, Walk, Enters, Enter, RecoverRead, RecoverRuntime, Discards, Freeze,
       Captures, FindsNothing, Builds, NoVisibleChange, Prepares, Abandons, RefAdvanced,
       IndexReconciled, WorktreeReconciled, ConsumeTail, Marks, MarkComplete, ClearJournal
<1> QED BY <1>1, <1>2

(* A branch that Orna moves goes to a direct child.                        *)
LEMMA AdvanceFacts ==
  ASSUME Control, NEW p \in Publishers, Advances(p)
  PROVE  /\ head' \in Commits /\ head \in Commits /\ Front(head') = head /\ HasCommit(head', head)
         /\ \A c \in Commits : HasCommit(head, c) => HasCommit(head', c)
         /\ Tip(head) \subseteq Tip(head')
         /\ journal # None /\ journal.stage = "Prepared" /\ journal.new = head' /\ UNCHANGED journal
<1>1. Child(head, head')
  BY DEF Advances, Control, Candidates, Pc
<1>2. head \in Seq(Version) /\ head' \in Seq(Version) /\ head'[Len(head')] \in Version
  BY <1>1, TipContent DEF Child
<1>3. head' = Append(head, head'[Len(head')]) /\ Tip(head) \subseteq Tip(head')
  BY <1>1 DEF Child
<1>4. /\ Front(head') = head /\ HasCommit(head', head)
      /\ \A a \in Seq(Version) : HasCommit(head, a) => HasCommit(head', a)
  <2>1. PICK v \in Version : head' = Append(head, v)
    BY <1>2, <1>3
  <2> QED BY <1>2, <2>1, ChildCommit
<1>5. journal # None /\ journal.stage = "Prepared" /\ journal.new = loc[p].cand
  BY DEF Advances, Control, JournalFollows, StageAt, Own, Staged, JournalOf, Pc
<1> QED BY <1>1, <1>3, <1>4, <1>5, TipContent DEF Child, Advances

(* ConcurrentMoveKept, step by step.                                       *)
LEMMA MoveKept ==
  ASSUME Control, [Next]_vars
  PROVE  OrnaStep /\ head' # head => Front(head') = head
<1>1. TypeOK /\ users \in Nat
  BY DEF Control, TypeOK
<1>2. ASSUME NEW p \in Publishers, Shaped(p) PROVE head' # head => Front(head') = head
  BY <1>2, GitMoves, AdvanceFacts DEF gitVars, InstallsStore, InstallsIndex
<1>3. CASE UserNext
  BY <1>1, <1>3, UserTypes DEF OrnaStep
<1>4. CASE (\E row \in scope.rows : AppendMutation(row)) \/ UNCHANGED vars
  BY <1>4 DEF AppendMutation, vars, gitVars
<1> QED BY <1>1, <1>2, <1>3, <1>4, StepKinds

(* JournalGivenUpSafely, step by step.                                     *)
LEMMA JournalKept ==
  ASSUME Control, [Next]_vars, journal # None, journal' = None
  PROVE  \/ done[journal.intent] = journal.new
         \/ \A b \in {head, side} \ {None} : ~HasCommit(b, journal.new)
<1>1. TypeOK
  BY DEF Control
<1>2. ASSUME NEW p \in Publishers, Shaped(p)
      PROVE  \/ done[journal.intent] = journal.new
             \/ \A b \in {head, side} \ {None} : ~HasCommit(b, journal.new)
  <2>1. Discards(p) \/ Abandons(p) \/ ClearJournal(p)
    BY <1>2, JournalMoves DEF JournalMoved
  <2>2. CASE Discards(p)
    BY <2>2 DEF Discards, BranchContains
  <2>3. CASE Abandons(p)
    <3>1. journal.new = loc[p].cand
      BY <2>3 DEF Abandons, Control, JournalFollows, Own, JournalOf
    <3> QED BY <2>3, <3>1 DEF Abandons, BranchContains
  <2>4. CASE ClearJournal(p)
    <3>1. Staged({"Complete"})
      BY <2>4 DEF ClearJournal, Control, JournalFollows, StageAt, Pc
    <3> QED BY <3>1 DEF Control, Recorded, Staged
  <2> QED BY <2>1, <2>2, <2>3, <2>4
<1>3. CASE UserNext
  BY <1>1, <1>3, UserTypes DEF Mine
<1>4. CASE (\E row \in scope.rows : AppendMutation(row)) \/ UNCHANGED vars
  BY <1>4 DEF AppendMutation, vars
<1> QED BY <1>1, <1>2, <1>3, <1>4, StepKinds

(* Whatever runs at the same time, a step of Orna's moves the branch only  *)
(* from the commit it names to a direct child (advance_current_ref_bound). *)
THEOREM BranchMovesAreKept == Spec => ConcurrentMoveKept
<1>1. Control /\ [Next]_vars => [OrnaStep /\ head' # head => Front(head') = head]_vars
  BY MoveKept
<1> QED BY <1>1, JournalProtocol, PTL DEF Spec, ConcurrentMoveKept

(* The journal is dropped only for a batch the runtime has recorded or     *)
(* that no branch holds (recover_publication, clear_publication_journal).  *)
THEOREM JournalsAreKept == Spec => JournalGivenUpSafely
<1>1. Control /\ [Next]_vars =>
        [journal # None /\ journal' = None =>
          \/ done[journal.intent] = journal.new
          \/ \A b \in {head, side} \ {None} : ~HasCommit(b, journal.new)]_vars
  BY JournalKept
<1> QED BY <1>1, JournalProtocol, PTL DEF Spec, JournalGivenUpSafely

-----------------------------------------------------------------------------
(* Ranges and history.                                                     *)

(* A runtime step of a publisher completes an intent or freezes one.       *)
LEMMA RuntimeMoves ==
  ASSUME Control, NEW p \in Publishers, Shaped(p)
  PROVE  \/ UNCHANGED <<pending, lastSeq, admitted, freezes, done>>
         \/ Freeze(p)
         \/ RecoverRuntime(p) /\ done[loc[p].intent] = loc[p].cand /\ loc[p].cand # None
         \/ ConsumeTail(p) \/ NoVisibleChange(p)
<1>1. CASE RecoverRuntime(p)
  BY <1>1, AbsenceAssumption DEF RecoverRuntime, Control, Recorded, Candidates, Pc
<1>2. CASE ~(Freeze(p) \/ RecoverRuntime(p) \/ ConsumeTail(p) \/ NoVisibleChange(p))
  BY <1>2 DEF Shaped, Leaves, Walks, Walk, Enters, Enter, RecoverRead, Discards, Captures,
       FindsNothing, Builds, Prepares, Abandons, Advances, RefAdvanced, InstallsStore,
       InstallsIndex, IndexReconciled, WorktreeReconciled, Marks, MarkComplete, ClearJournal,
       Still, runtimeVars
<1> QED BY <1>1, <1>2

(* The three ways a range is recorded.                                     *)
LEMMA RecordMoves ==
  ASSUME Control, NEW p \in Publishers, RecoverRuntime(p) \/ ConsumeTail(p) \/ NoVisibleChange(p)
  PROVE  \E c \in Commits :
           /\ c = IF NoVisibleChange(p) THEN loc[p].base ELSE loc[p].cand
           /\ loc[p].intent \in DOMAIN done /\ CompletePublication(loc[p].intent, c)
<1>1. Pc(p) \in {"recoverRuntime", "consume", "noop"}
  BY DEF RecoverRuntime, ConsumeTail, NoVisibleChange, Pc
<1>2. loc[p].intent \in DOMAIN done
  BY <1>1 DEF Control, Intents, IntentOf, Fresh
<1>3. CASE NoVisibleChange(p)
  BY <1>2, <1>3 DEF NoVisibleChange, Control, Candidates, Pc
<1>4. CASE ~NoVisibleChange(p)
  BY <1>2, <1>4 DEF RecoverRuntime, ConsumeTail, Control, Candidates, Pc
<1> QED BY <1>3, <1>4

(* Ranges is inductive.                                                    *)
LEMMA NextRanges ==
  ASSUME Control, Ranges, [Next]_vars PROVE Ranges'
<1>0. /\ TypeOK /\ DOMAIN done = DOMAIN freezes /\ DOMAIN done = 1..Len(done)
      /\ \A i \in DOMAIN done : freezes[i] \in Nat
  BY DEF Control, TypeOK
<1>1. ASSUME UNCHANGED <<pending, lastSeq, admitted, freezes, done>> PROVE Ranges'
  BY <1>1 DEF Ranges, PendingThrough
<1>2. ASSUME NEW p \in Publishers, RecoverRuntime(p) \/ ConsumeTail(p) \/ NoVisibleChange(p)
      PROVE  Ranges'
  <2>1. PICK c \in Commits : loc[p].intent \in DOMAIN done /\ CompletePublication(loc[p].intent, c)
    BY <1>2, RecordMoves
  <2> DEFINE i == loc[p].intent
  <2>2. /\ DOMAIN done' = DOMAIN done /\ \A j \in DOMAIN done : j # i => done'[j] = done[j]
        /\ pending' = pending \ PendingThrough(i) /\ UNCHANGED <<lastSeq, admitted, freezes>>
    BY <1>0, <2>1, CompleteFacts
  <2> QED BY <2>2 DEF Ranges, PendingThrough
<1>3. ASSUME NEW p \in Publishers, Freeze(p) PROVE Ranges'
  <2> DEFINE n == Len(freezes) + 1
  <2>1. /\ DOMAIN done' = DOMAIN done \cup {n} /\ done'[n] = None /\ freezes'[n] = lastSeq
        /\ \A i \in DOMAIN done : done'[i] = done[i] /\ freezes'[i] = freezes[i]
    BY <1>0, <1>3, FreezeFacts
  <2>2. UNCHANGED <<pending, lastSeq>> /\ lastSeq \in Nat
    BY <1>0, <1>3 DEF Freeze, TypeOK
  <2> HIDE DEF n
  <2> QED BY <2>1, <2>2 DEF Ranges, PendingThrough
<1>4. ASSUME NEW row \in scope.rows, AppendMutation(row) PROVE Ranges'
  <2>1. /\ pending' = pending \cup {[seq |-> lastSeq + 1, row |-> row]} /\ lastSeq' = lastSeq + 1
        /\ UNCHANGED <<freezes, done>> /\ lastSeq \in Nat
    BY <1>0, <1>4, AppendFacts DEF TypeOK
  <2> QED BY <1>0, <2>1 DEF Ranges, PendingThrough
<1>5. CASE UserNext
  BY <1>0, <1>1, <1>5, UserTypes DEF Mine
<1>6. CASE UNCHANGED vars
  BY <1>1, <1>6 DEF vars, runtimeVars
<1> QED BY <1>0, <1>1, <1>2, <1>3, <1>4, <1>5, <1>6, StepKinds, RuntimeMoves

(* Without a reset or a switch, the branch only grows.                     *)
LEMMA HeadGrows ==
  ASSUME Control, [Next]_vars, Without({"reset", "switch"})
  PROVE  \A c \in Commits : HasCommit(head, c) => HasCommit(head', c)
<1>1. TypeOK /\ head \in Commits /\ head \in Seq(Version) /\ idx \in Content
  BY TipContent DEF Control, TypeOK
<1>2. ASSUME NEW p \in Publishers, Shaped(p)
      PROVE  \A c \in Commits : HasCommit(head, c) => HasCommit(head', c)
  BY <1>2, GitMoves, AdvanceFacts DEF gitVars, InstallsStore, InstallsIndex
<1>3. ASSUME NEW rows \in Content, head' = Append(head, [rows |-> rows, by |-> User])
      PROVE  \A c \in Commits : HasCommit(head, c) => HasCommit(head', c)
  <2>1. [rows |-> rows, by |-> User] \in Version
    BY DEF Version
  <2> QED BY <1>1, <1>3, <2>1, ChildCommit, TipContent
<1>4. CASE UserNext
  <2>1. CASE EditWorktree \/ GitAdd \/ GitCommitStart \/ GitBranch
    BY <2>1 DEF EditWorktree, GitAdd, GitCommitStart, GitBranch, gitVars
  <2>2. CASE GitCommitEnd
    BY <1>1, <1>3, <2>2 DEF GitCommitEnd
  <2>3. CASE GitRevert
    <3>1. Tip(Front(head)) \in Content
      BY <1>1, <2>3, FrontCommit, TipContent DEF GitRevert
    <3> QED BY <1>3, <2>3, <3>1 DEF GitRevert
  <2>4. CASE GitResetSoft \/ GitSwitch
    BY <2>4 DEF GitResetSoft, GitSwitch, UserStep, Without
  <2> QED BY <1>4, <2>1, <2>2, <2>3, <2>4 DEF UserNext
<1>5. CASE (\E row \in scope.rows : AppendMutation(row)) \/ UNCHANGED vars
  BY <1>5 DEF AppendMutation, vars, gitVars
<1> QED BY <1>1, <1>2, <1>4, <1>5, StepKinds

(* The situation of a behaviour is chosen once.                            *)
LEMMA ScopeFixed ==
  ASSUME Control, [Next]_vars PROVE scope' = scope
<1>1. TypeOK
  BY DEF Control
<1>2. CASE UserNext
  BY <1>1, <1>2, UserTypes DEF Mine
<1>3. CASE (\E row \in scope.rows : AppendMutation(row)) \/ UNCHANGED vars
  BY <1>3 DEF AppendMutation, vars, boundVars
<1> QED BY <1>1, <1>2, <1>3, StepKinds, GitMoves

(* History is inductive.                                                   *)
LEMMA NextHistory ==
  ASSUME Control, Control', History, [Next]_vars PROVE History'
<1>1. SUFFICES ASSUME Without({"reset", "switch"})
      PROVE  /\ \A i \in DOMAIN done' : done'[i] # None => HasCommit(head', done'[i])
             /\ \A q \in Publishers :
                  /\ loc'[q].pc \in {"readTail", "noop"} => HasCommit(head', loc'[q].base)
                  /\ loc'[q].pc \in {"consume", "mark"} => HasCommit(head', loc'[q].cand)
  BY ScopeFixed DEF History, Without, Pc
<1>2. TypeOK /\ head \in Commits /\ head' \in Commits /\ head \in Seq(Version)
  BY TipContent DEF Control, TypeOK
<1>3. \A c \in Commits : HasCommit(head, c) => HasCommit(head', c)
  BY <1>1, HeadGrows
<1>4. \A i \in DOMAIN done : done[i] # None => done[i] \in Commits
  BY <1>2 DEF TypeOK
<1>5. \A q \in Publishers : /\ Pc(q) \in {"readTail", "noop"} => loc[q].base \in Commits
                            /\ Pc(q) \in {"complete", "consume", "mark"} => loc[q].cand \in Commits
  BY DEF Control, Candidates
<1>6. ASSUME UNCHANGED <<done, loc>>
      PROVE  /\ \A i \in DOMAIN done' : done'[i] # None => HasCommit(head', done'[i])
             /\ \A q \in Publishers :
                  /\ loc'[q].pc \in {"readTail", "noop"} => HasCommit(head', loc'[q].base)
                  /\ loc'[q].pc \in {"consume", "mark"} => HasCommit(head', loc'[q].cand)
  BY <1>1, <1>3, <1>4, <1>5, <1>6 DEF History, Pc
<1>7. ASSUME NEW p \in Publishers, Shaped(p)
      PROVE  /\ \A i \in DOMAIN done' : done'[i] # None => HasCommit(head', done'[i])
             /\ \A q \in Publishers :
                  /\ loc'[q].pc \in {"readTail", "noop"} => HasCommit(head', loc'[q].base)
                  /\ loc'[q].pc \in {"consume", "mark"} => HasCommit(head', loc'[q].cand)
  <2>1. Moved(p)
    BY <1>2, <1>7, Moves
  <2>2. \A i \in DOMAIN done' : done'[i] # None => HasCommit(head', done'[i])
    <3>1. CASE UNCHANGED done
      BY <1>1, <1>3, <1>4, <3>1 DEF History
    <3>2. CASE Freeze(p)
      BY <1>1, <1>2, <1>3, <1>4, <3>2, FreezeFacts DEF History
    <3>3. CASE ConsumeTail(p) \/ NoVisibleChange(p)
      <4>1. PICK c \in Commits :
              /\ c = IF NoVisibleChange(p) THEN loc[p].base ELSE loc[p].cand
              /\ loc[p].intent \in DOMAIN done /\ CompletePublication(loc[p].intent, c)
        BY <3>3, RecordMoves
      <4>2. HasCommit(head, c)
        BY <1>1, <3>3, <4>1 DEF History, ConsumeTail, NoVisibleChange, Pc
      <4> QED BY <1>1, <1>2, <1>3, <1>4, <4>1, <4>2, CompleteFacts DEF History
    <3>4. CASE RecoverRuntime(p) /\ done[loc[p].intent] = loc[p].cand /\ loc[p].cand # None
      <4>1. PICK c \in Commits :
              /\ c = IF NoVisibleChange(p) THEN loc[p].base ELSE loc[p].cand
              /\ loc[p].intent \in DOMAIN done /\ CompletePublication(loc[p].intent, c)
        BY <3>4, RecordMoves
      <4>2. \A i \in DOMAIN done : done'[i] = done[i]
        BY <1>2, <3>4, <4>1, CompleteFacts
      <4> QED BY <1>1, <1>2, <1>3, <1>4, <4>1, <4>2, CompleteFacts DEF History
    <3> QED BY <1>7, <3>1, <3>2, <3>3, <3>4, RuntimeMoves
  <2>3. ASSUME NEW q \in Publishers
        PROVE  /\ loc'[q].pc \in {"readTail", "noop"} => HasCommit(head', loc'[q].base)
               /\ loc'[q].pc \in {"consume", "mark"} => HasCommit(head', loc'[q].cand)
    <3>1. CASE q # p
      BY <1>1, <1>3, <1>5, <2>1, <3>1 DEF History, Moved, Pc
    <3>2. CASE q = p /\ loc'[p].pc = "readTail"
      BY <1>2, <1>3, <2>1, <3>2, HasCommitOrder DEF Moved
    <3>3. CASE q = p /\ loc'[p].pc = "noop"
      BY <1>1, <1>3, <1>5, <2>1, <3>3 DEF History, Moved, Same, FindsNothing, Pc
    <3>4. CASE q = p /\ loc'[p].pc = "consume"
      BY <1>3, <1>5, <2>1, <3>4 DEF Moved, Same, Pc
    <3>5. CASE q = p /\ loc'[p].pc = "mark"
      BY <1>1, <1>3, <1>5, <2>1, <3>5 DEF History, Moved, Same, ConsumeTail, Pc
    <3> QED BY <3>1, <3>2, <3>3, <3>4, <3>5
  <2> QED BY <2>2, <2>3
<1>8. CASE UserNext
  BY <1>2, <1>6, <1>8, UserTypes DEF Mine
<1>9. CASE (\E row \in scope.rows : AppendMutation(row)) \/ UNCHANGED vars
  BY <1>6, <1>9 DEF AppendMutation, vars, runtimeVars
<1> QED BY <1>2, <1>7, <1>8, <1>9, StepKinds

(* Nothing is recorded initially.                                          *)
LEMMA InitHistory ==
  ASSUME Init PROVE Ranges /\ History
<1>1. done = <<>> /\ \A p \in Publishers : Pc(p) = "idle"
  BY IdleMemory DEF Init, Pc
<1> QED BY <1>1 DEF Ranges, History

(* A completed intent has consumed exactly its frozen range, and HEAD      *)
(* contains the commit recorded for it (complete_publication, recover,     *)
(* mark_runtime_complete).                                                 *)
THEOREM CompletionsArePublished == Spec => []CompletedIsPublished
<1>1. Init => Control /\ Ranges /\ History
  BY InitControl, InitHistory
<1>2. Control /\ Ranges /\ History /\ [Next]_vars => (Control /\ Ranges /\ History)'
  BY NextControl, NextRanges, NextHistory
<1>3. Control /\ Ranges /\ History => CompletedIsPublished
  BY DEF Ranges, History, CompletedIsPublished
<1> QED BY <1>1, <1>2, <1>3, PTL DEF Spec

-----------------------------------------------------------------------------
(* The index.                                                              *)

(* A journal whose index has not followed stays until the index follows,   *)
(* as long as HEAD contains its candidate.                                 *)
LEMMA TornKept ==
  ASSUME Control, NEW p \in Publishers, Shaped(p), ~spoiled', ~InstallsIndex(p),
         journal # None, journal.stage \in Early, HasCommit(head, journal.new),
         \A q \in Publishers : Pc(q) # "indexed"
  PROVE  /\ journal' # None /\ journal'.stage \in Early /\ journal'.new = journal.new
         /\ \A q \in Publishers : loc'[q].pc # "indexed"
<1>1. TypeOK /\ head \in Commits /\ head # None
  BY AbsenceAssumption DEF Control, TypeOK
<1>2. \A q \in Publishers : loc'[q].pc # "indexed"
  BY <1>1, Moves DEF Moved, Pc
<1>3. ~Discards(p)
  BY <1>1 DEF Discards, BranchContains
<1>4. ~Abandons(p)
  <2>1. Abandons(p) => journal.new = loc[p].cand
    BY DEF Abandons, Control, JournalFollows, Own, JournalOf
  <2> QED BY <1>1, <2>1 DEF Abandons, BranchContains
<1>5. ~ClearJournal(p)
  BY DEF ClearJournal, Control, JournalFollows, StageAt, Staged, Early, Pc
<1>6. ~Marks(p)
  BY DEF Marks, Control, Intents, IntentOf, Early, Late
<1>7. JournalMoved(p)
  BY JournalMoves
<1> QED BY <1>2, <1>3, <1>4, <1>5, <1>6, <1>7 DEF JournalMoved, Early

(* While a publisher reconciles, nobody else is at its step.               *)
LEMMA OneReconciler ==
  ASSUME Control, NEW p \in Publishers, Pc(p) \in Holding
  PROVE  \A q \in Publishers : Pc(q) \in Holding => q = p
  BY DEF Control, Exclusive

(* What is spoiled stays spoiled.                                          *)
LEMMA Spoils ==
  ASSUME Control, [Next]_vars PROVE spoiled => spoiled'
<1>1. TypeOK
  BY DEF Control
<1>2. ASSUME NEW p \in Publishers, Shaped(p) PROVE spoiled => spoiled'
  BY <1>2 DEF Shaped, Leaves, Walks, Walk, Enters, Enter, RecoverRead, RecoverRuntime, Discards, Freeze,
       Captures, FindsNothing, Builds, NoVisibleChange, Prepares, Abandons, Advances, RefAdvanced,
       InstallsStore, InstallsIndex, IndexReconciled, WorktreeReconciled, ConsumeTail, Marks,
       MarkComplete, ClearJournal, Still, boundVars
<1>3. CASE UserNext
  BY <1>1, <1>3, UserTypes DEF Mine
<1>4. CASE (\E row \in scope.rows : AppendMutation(row)) \/ UNCHANGED vars
  BY <1>4 DEF AppendMutation, vars, boundVars
<1> QED BY <1>1, <1>2, <1>3, <1>4, StepKinds

(* What a move of the branch, of the store or of the index leaves.         *)
LEMMA GitTorn ==
  ASSUME Control, NEW p \in Publishers, Advances(p) \/ InstallsStore(p)
  PROVE  /\ journal' # None /\ journal'.stage \in Early /\ HasCommit(head', journal'.new)
         /\ \A q \in Publishers : loc'[q].pc # "indexed"
<1>1. TypeOK /\ head \in Seq(Version) /\ Shaped(p)
  BY TipContent DEF Control, TypeOK, Shaped
<1>2. \A q \in Publishers : Pc(q) # "indexed"
  <2>1. Pc(p) \in {"cas", "store"}
    BY DEF Advances, InstallsStore
  <2> QED BY <2>1, OneReconciler DEF Holding
<1>3. loc'[p].pc # "indexed" /\ \A q \in Publishers \ {p} : loc'[q] = loc[q]
  <2>1. Goto(p, "confirm") \/ Goto(p, "index")
    BY DEF Advances, InstallsStore
  <2> QED BY <1>1, <2>1, GotoMoves DEF Steps
<1>4. \A q \in Publishers : loc'[q].pc # "indexed"
  BY <1>2, <1>3 DEF Pc
<1>5. CASE Advances(p)
  BY <1>1, <1>4, <1>5, AdvanceFacts, HasCommitOrder, TipContent DEF Early
<1>6. CASE InstallsStore(p)
  BY <1>1, <1>4, <1>6, HasCommitOrder
     DEF InstallsStore, Control, JournalFollows, StageAt, Staged, Early
<1> QED BY <1>5, <1>6

(* IndexFollows is inductive.                                              *)
LEMMA NextIndexFollows ==
  ASSUME Control, IndexFollows, [Next]_vars PROVE IndexFollows'
<1>1. SUFFICES ASSUME Without({"add", "reset"}), ~spoiled'
      PROVE  idx' = Tip(head') \/ Torn(head)'
  BY ScopeFixed DEF IndexFollows, Without, Tip
<1>2. TypeOK /\ head \in Commits /\ head \in Seq(Version) /\ ~spoiled
  BY <1>1, TipContent, Spoils DEF Control, TypeOK
<1>3. idx = Tip(head) \/ Torn(head)
  BY <1>1, <1>2 DEF IndexFollows
<1>4. ASSUME UNCHANGED <<journal, loc>>, HasCommit(head', head), head' \in Seq(Version), Torn(head)
      PROVE  Torn(head)'
  <2>1. journal # None => journal.new \in Seq(Version)
    BY <1>2, TipContent DEF TypeOK, Journals
  <2> QED BY <1>2, <1>4, <2>1, HasCommitOrder DEF Torn, Unreconciled, Pc
<1>5. ASSUME NEW p \in Publishers, Shaped(p) PROVE idx' = Tip(head') \/ Torn(head)'
  <2>1. CASE InstallsIndex(p)
    BY <2>1 DEF InstallsIndex
  <2>2. CASE Advances(p) \/ InstallsStore(p)
    BY <2>2, GitTorn DEF Torn, Unreconciled, Early, Pc
  <2>3. CASE ~(InstallsIndex(p) \/ Advances(p) \/ InstallsStore(p))
    <3>1. UNCHANGED <<head, idx>>
      BY <1>5, <2>3, GitMoves DEF gitVars
    <3>2. CASE Torn(head)
      <4>1. /\ journal' # None /\ journal'.stage \in Early /\ journal'.new = journal.new
            /\ \A q \in Publishers : loc'[q].pc # "indexed"
        BY <1>1, <1>5, <2>3, <3>2, TornKept DEF Torn, Unreconciled, Early
      <4> QED BY <3>1, <3>2, <4>1 DEF Torn, Unreconciled, Early, Pc
    <3> QED BY <1>3, <3>1, <3>2
  <2> QED BY <2>1, <2>2, <2>3
<1>6. CASE UserNext
  <2>1. UNCHANGED <<journal, loc>> /\ head' \in Commits
    BY <1>2, <1>6, UserTypes DEF Mine
  <2>2. CASE EditWorktree \/ GitCommitStart \/ GitBranch
    BY <1>2, <1>3, <1>4, <2>1, <2>2, HasCommitOrder DEF EditWorktree, GitCommitStart, GitBranch, gitVars
  <2>3. CASE GitCommitEnd
    <3>1. Tip(head') = idx
      <4>1. [rows |-> idx, by |-> User] \in Version
        BY <1>2 DEF Version, TypeOK
      <4> QED BY <1>2, <2>3, <4>1, ChildCommit DEF GitCommitEnd
    <3> QED BY <2>3, <3>1 DEF GitCommitEnd
  <2>4. CASE GitRevert
    <3>1. [rows |-> Tip(Front(head)), by |-> User] \in Version
      BY <1>2, <2>4, FrontCommit, TipContent DEF GitRevert, Version
    <3> QED BY <1>2, <2>4, <3>1, ChildCommit DEF GitRevert
  <2>5. CASE GitSwitch
    BY <2>5 DEF GitSwitch
  <2>6. CASE GitAdd \/ GitResetSoft
    BY <1>1, <2>6 DEF GitAdd, GitResetSoft, UserStep, Without
  <2> QED BY <1>6, <2>2, <2>3, <2>4, <2>5, <2>6 DEF UserNext
<1>7. CASE (\E row \in scope.rows : AppendMutation(row)) \/ UNCHANGED vars
  BY <1>2, <1>3, <1>4, <1>7, HasCommitOrder DEF AppendMutation, vars, gitVars
<1> QED BY <1>2, <1>5, <1>6, <1>7, StepKinds

(* Whoever publishes and whoever dies, the ordinary index is left neither  *)
(* behind nor ahead of HEAD once no journal says that it may be            *)
(* (reconcile_published_index_locked, recover_publication).                *)
THEOREM NoReversalIsStaged == Spec => []NoStagedReversal
<1>1. Init => Control /\ IndexFollows
  <2>1. Init => idx = Tip(head)
    BY DEF Init, Tip
  <2> QED BY <2>1, InitControl DEF IndexFollows
<1>2. Control /\ IndexFollows /\ [Next]_vars => (Control /\ IndexFollows)'
  BY NextControl, NextIndexFollows
<1>3. Control /\ IndexFollows => NoStagedReversal
  BY DEF IndexFollows, NoStagedReversal, Torn, Unreconciled
<1> QED BY <1>1, <1>2, <1>3, PTL DEF Spec

-----------------------------------------------------------------------------
(* A candidate holds its range.                                            *)

(* What is left of a range only shrinks.                                   *)
LEMMA RangesShrink ==
  ASSUME Control, Ranges, [Next]_vars
  PROVE  \A i \in DOMAIN done : PendingThrough(i)' \subseteq PendingThrough(i)
<1>0. TypeOK /\ \A i \in DOMAIN done : freezes[i] \in Nat /\ i \in DOMAIN freezes
  BY DEF Control, TypeOK
<1>1. ASSUME NEW p \in Publishers, RecoverRuntime(p) \/ ConsumeTail(p) \/ NoVisibleChange(p)
      PROVE  \A i \in DOMAIN done : PendingThrough(i)' \subseteq PendingThrough(i)
  BY <1>0, <1>1, RecordMoves, CompleteFacts DEF PendingThrough
<1>2. ASSUME NEW p \in Publishers, Freeze(p)
      PROVE  \A i \in DOMAIN done : PendingThrough(i)' \subseteq PendingThrough(i)
  <2>1. \A i \in DOMAIN done : freezes'[i] = freezes[i]
    BY <1>0, <1>2, FreezeFacts
  <2>2. UNCHANGED pending
    BY <1>2 DEF Freeze
  <2> QED BY <2>1, <2>2 DEF PendingThrough
<1>3. ASSUME UNCHANGED <<pending, freezes>>
      PROVE  \A i \in DOMAIN done : PendingThrough(i)' \subseteq PendingThrough(i)
  BY <1>3 DEF PendingThrough
<1>4. ASSUME NEW row \in scope.rows, AppendMutation(row)
      PROVE  \A i \in DOMAIN done : PendingThrough(i)' \subseteq PendingThrough(i)
  <2>1. /\ pending' = pending \cup {[seq |-> lastSeq + 1, row |-> row]}
        /\ UNCHANGED freezes /\ lastSeq \in Nat
    BY <1>0, <1>4, AppendFacts DEF TypeOK
  <2> QED BY <1>0, <2>1 DEF Ranges, PendingThrough
<1>5. CASE UserNext
  BY <1>0, <1>3, <1>5, UserTypes DEF Mine
<1>6. CASE UNCHANGED vars
  BY <1>3, <1>6 DEF vars, runtimeVars
<1> QED BY <1>0, <1>1, <1>2, <1>3, <1>4, <1>5, <1>6, StepKinds, RuntimeMoves

(* Coverage is inductive.                                                  *)
LEMMA NextCoverage ==
  ASSUME Control, Ranges, Coverage, [Next]_vars PROVE Coverage'
<1> DEFINE Holds(i, c) == \A m \in pending' : m.seq <= freezes'[i] => m.row \in Tip(c)
<1>0. TypeOK
  BY DEF Control
<1>1. \A i \in DOMAIN done, c \in Seq(Version) : Covered(i, c) => Holds(i, c)
  BY RangesShrink DEF Covered, PendingThrough
<1>2. journal # None => /\ journal.intent \in DOMAIN done /\ journal.new \in Seq(Version)
                        /\ journal.new # <<>> /\ Covered(journal.intent, journal.new)
  BY <1>0, TipContent DEF Control, Intents, TypeOK, Journals, Coverage
<1>3. \A q \in Publishers :
        /\ loc[q].cand \in Seq(Version) /\ loc[q].base \in Seq(Version)
        /\ loc[q].cand # <<>> => /\ loc[q].intent # None /\ loc[q].intent \in DOMAIN done
                                 /\ Covered(loc[q].intent, loc[q].cand)
        /\ Pc(q) = "noop" => loc[q].intent \in DOMAIN done /\ Covered(loc[q].intent, loc[q].base)
        /\ Pc(q) = "readTail" => loc[q].intent \in DOMAIN done /\ loc[q].intent # None
  BY <1>0 DEF Control, Intents, IntentOf, Fresh, Coverage, TypeOK, Memory
<1>4. SUFFICES
        /\ journal' # None => Holds(journal'.intent, journal'.new)
        /\ \A q \in Publishers :
             /\ loc'[q].cand # <<>> => loc'[q].intent # None /\ Holds(loc'[q].intent, loc'[q].cand)
             /\ loc'[q].pc = "noop" => Holds(loc'[q].intent, loc'[q].base)
  BY DEF Coverage, Covered, Pc, PendingThrough, Tip
<1>5. ASSUME UNCHANGED <<journal, loc>>
      PROVE  /\ journal' # None => Holds(journal'.intent, journal'.new)
             /\ \A q \in Publishers :
                  /\ loc'[q].cand # <<>> => loc'[q].intent # None /\ Holds(loc'[q].intent, loc'[q].cand)
                  /\ loc'[q].pc = "noop" => Holds(loc'[q].intent, loc'[q].base)
  BY <1>1, <1>2, <1>3, <1>5 DEF Pc
<1>6. ASSUME NEW p \in Publishers, Shaped(p)
      PROVE  /\ journal' # None => Holds(journal'.intent, journal'.new)
             /\ \A q \in Publishers :
                  /\ loc'[q].cand # <<>> => loc'[q].intent # None /\ Holds(loc'[q].intent, loc'[q].cand)
                  /\ loc'[q].pc = "noop" => Holds(loc'[q].intent, loc'[q].base)
  <2>1. Moved(p) /\ JournalMoved(p)
    BY <1>0, <1>6, Moves, JournalMoves
  <2>2. journal' # None => Holds(journal'.intent, journal'.new)
    <3>1. \/ journal' = None
          \/ journal # None /\ journal' # None /\ journal'.intent = journal.intent /\ journal'.new = journal.new
          \/ /\ Pc(p) \in {"prepare", "mark"}
             /\ journal'.intent = loc[p].intent /\ journal'.new = loc[p].cand
      BY <2>1 DEF JournalMoved, Discards, Abandons, ClearJournal, Prepares, Marks
    <3>2. Pc(p) \in {"prepare", "mark"} => loc[p].cand # <<>>
      BY TipContent DEF Control, Candidates, Child
    <3> QED BY <1>1, <1>2, <1>3, <3>1, <3>2
  <2>3. ASSUME NEW q \in Publishers, q # p
        PROVE  /\ loc'[q].cand # <<>> => loc'[q].intent # None /\ Holds(loc'[q].intent, loc'[q].cand)
               /\ loc'[q].pc = "noop" => Holds(loc'[q].intent, loc'[q].base)
    BY <1>1, <1>3, <2>1, <2>3 DEF Moved, Pc
  <2>4. loc'[p].pc = "noop" => Holds(loc'[p].intent, loc'[p].base)
    BY <1>1, <1>3, <2>1 DEF Moved, FindsNothing, Same, Covered
  <2>5. loc'[p].cand # <<>> => loc'[p].intent # None /\ Holds(loc'[p].intent, loc'[p].cand)
    <3>1. CASE loc'[p].cand = loc[p].cand /\ loc'[p].intent = loc[p].intent
      BY <1>1, <1>3, <3>1
    <3>2. CASE RecoverRead(p)
      <4>1. journal # None => loc'[p].intent = journal.intent /\ loc'[p].cand = journal.new
        BY <1>0, <3>2, ReadFacts
      <4>2. journal = None => loc'[p].cand = <<>>
        BY <1>0, <3>2, ReadFacts
      <4>3. journal # None => journal.intent # None
        BY <1>0, AbsenceAssumption DEF TypeOK, Journals
      <4> QED BY <1>1, <1>2, <4>1, <4>2, <4>3
    <3>3. CASE Builds(p)
      <4> DEFINE rows == Tip(loc[p].base) \cup RowsOf(PendingThrough(loc[p].intent))
                 v == [rows |-> rows, by |-> loc[p].intent]
      <4>1. Pc(p) = "readTail" /\ loc[p].base \in Seq(Version)
        BY <1>3, <3>3 DEF Builds
      <4>2. loc[p].intent \in DOMAIN done /\ loc[p].intent # None /\ loc[p].intent \in Nat
        BY <1>0, <1>3, <4>1 DEF TypeOK, Memory
      <4>3. loc'[p].intent = loc[p].intent /\ loc'[p].cand = Append(loc[p].base, v)
        BY <1>0, <3>3 DEF Builds, TypeOK, Memory
      <4>4. v \in Version /\ v.rows = rows
        <5>1. RowsOf(PendingThrough(loc[p].intent)) \subseteq Rows
          BY <1>0 DEF RowsOf, PendingThrough, TypeOK, Mutations
        <5>2. Tip(loc[p].base) \in Content
          BY <4>1, TipContent DEF Control, Candidates
        <5> QED BY <4>2, <5>1, <5>2 DEF Version, Content
      <4> HIDE DEF v, rows
      <4>5. Tip(loc'[p].cand) = rows
        BY <4>1, <4>3, <4>4, ChildCommit
      <4>6. \A m \in PendingThrough(loc[p].intent) : m.row \in rows
        BY DEF rows, RowsOf
      <4>7. UNCHANGED <<pending, freezes>>
        BY <3>3 DEF Builds, Still, runtimeVars
      <4>8. Holds(loc'[p].intent, loc'[p].cand)
        BY <4>3, <4>5, <4>6, <4>7 DEF PendingThrough
      <4> QED BY <4>2, <4>3, <4>8
    <3> QED BY <2>1, <3>1, <3>2, <3>3 DEF Moved
  <2> QED BY <2>2, <2>3, <2>4, <2>5
<1>7. CASE UserNext
  BY <1>0, <1>5, <1>7, UserTypes DEF Mine
<1>8. CASE (\E row \in scope.rows : AppendMutation(row)) \/ UNCHANGED vars
  BY <1>5, <1>8 DEF AppendMutation, vars
<1> QED BY <1>0, <1>6, <1>7, <1>8, StepKinds

-----------------------------------------------------------------------------
(* Rows.                                                                   *)

KeepsRows == Without({"revert", "reset", "switch"})

(* A row that HEAD, the index and the worktree hold stays in all three.    *)
LEMMA RowsStay ==
  ASSUME Control, [Next]_vars, KeepsRows
  PROVE  \A r \in Rows : r \in Tip(head) /\ r \in idx /\ r \in wt
                           => r \in Tip(head') /\ r \in idx' /\ r \in wt'
<1>1. TypeOK /\ head \in Commits /\ head \in Seq(Version) /\ idx \in Content /\ Human \notin Rows
  BY TipContent, PublicationAssumption DEF Control, TypeOK
<1>2. ASSUME NEW p \in Publishers, Shaped(p)
      PROVE  \A r \in Rows : r \in Tip(head) /\ r \in idx /\ r \in wt
                               => r \in Tip(head') /\ r \in idx' /\ r \in wt'
  <2>1. CASE UNCHANGED gitVars
    BY <2>1 DEF gitVars
  <2>2. CASE Advances(p)
    BY <2>2, AdvanceFacts DEF Advances
  <2>3. CASE InstallsStore(p) \/ InstallsIndex(p)
    BY <2>3 DEF InstallsStore, InstallsIndex
  <2> QED BY <1>2, <2>1, <2>2, <2>3, GitMoves
<1>3. CASE UserNext
  <2>1. CASE EditWorktree
    BY <1>1, <2>1 DEF EditWorktree
  <2>2. CASE GitAdd \/ GitCommitStart \/ GitBranch
    BY <2>2 DEF GitAdd, GitCommitStart, GitBranch, gitVars
  <2>3. CASE GitCommitEnd
    <3>1. [rows |-> idx, by |-> User] \in Version
      BY <1>1 DEF Version
    <3> QED BY <1>1, <2>3, <3>1, ChildCommit DEF GitCommitEnd
  <2>4. CASE GitRevert \/ GitResetSoft \/ GitSwitch
    BY <2>4 DEF GitRevert, GitResetSoft, GitSwitch, UserStep, KeepsRows, Without
  <2> QED BY <1>3, <2>1, <2>2, <2>3, <2>4 DEF UserNext
<1>4. CASE (\E row \in scope.rows : AppendMutation(row)) \/ UNCHANGED vars
  BY <1>4 DEF AppendMutation, vars, gitVars
<1> QED BY <1>1, <1>2, <1>3, <1>4, StepKinds

(* What a step of a publisher adds to the consumed rows.                   *)
LEMMA ConsumedGrows ==
  ASSUME Control, Ranges, NEW p \in Publishers, Shaped(p)
  PROVE  \A m \in admitted' \ pending' :
           \/ m \in admitted \ pending
           \/ (ConsumeTail(p) \/ NoVisibleChange(p)) /\ m \in PendingThrough(loc[p].intent)
<1>0. TypeOK
  BY DEF Control
<1>1. CASE UNCHANGED <<pending, admitted>>
  BY <1>1
<1>2. CASE Freeze(p)
  BY <1>2 DEF Freeze
<1>3. CASE ConsumeTail(p) \/ NoVisibleChange(p) \/ RecoverRuntime(p)
  <2>1. PICK c \in Commits : loc[p].intent \in DOMAIN done /\ CompletePublication(loc[p].intent, c)
    BY <1>3, RecordMoves
  <2>2. pending' = pending \ PendingThrough(loc[p].intent) /\ UNCHANGED admitted
    BY <2>1 DEF CompletePublication
  <2>3. CASE ConsumeTail(p) \/ NoVisibleChange(p)
    BY <2>2, <2>3
  <2>4. CASE RecoverRuntime(p) /\ ~(ConsumeTail(p) \/ NoVisibleChange(p))
    <3>1. done[loc[p].intent] # None
      BY <2>4, AbsenceAssumption DEF RecoverRuntime, Control, Recorded, Candidates, Pc
    <3>2. PendingThrough(loc[p].intent) = {}
      BY <2>1, <3>1 DEF Ranges
    <3> QED BY <2>2, <3>2
  <2> QED BY <1>3, <2>3, <2>4
<1> QED BY <1>1, <1>2, <1>3, RuntimeMoves

(* After the index is replaced, HEAD, index and worktree hold the batch.   *)
LEMMA IndexInstalled ==
  ASSUME Control, RowsKept, KeepsRows, ~spoiled, NEW p \in Publishers, InstallsIndex(p)
  PROVE  /\ head' = journal'.new /\ idx' = Tip(head') /\ UNCHANGED <<head, journal>>
         /\ \A r \in Rows : r \in Tip(head') => r \in idx' /\ r \in wt'
<1>1. \A r \in Rows \cap Tip(journal.new) : r \in wt
  BY DEF RowsKept, KeepsRows, InstallsIndex
<1> QED BY <1>1 DEF InstallsIndex

(* A publisher that reconciles is alone with the journal and the index.    *)
LEMMA Undisturbed ==
  ASSUME Control, NEW p \in Publishers, Shaped(p), NEW q \in Publishers, q # p, Pc(q) \in Holding
  PROVE  UNCHANGED <<journal, head, idx, wt>>
<1>1. coord = q /\ coord # p /\ coord # None
  BY PublicationAssumption DEF Control, Exclusive
<1>2. UNCHANGED gitVars
  BY <1>1, GitMoves
<1>3. Pc(p) \notin Holding
  BY <1>1 DEF Control, Exclusive
<1>4. UNCHANGED journal
  BY <1>1, <1>3, JournalMoves
     DEF JournalMoved, Discards, Abandons, ClearJournal, Prepares, Marks, Holding, Pc
<1> QED BY <1>2, <1>4 DEF gitVars

(* RowsKept is inductive, given the parts before it.                       *)
LEMMA NextRowsKept ==
  ASSUME Control, Control', Ranges, History, Coverage, RowsKept, [Next]_vars
  PROVE  RowsKept'
<1> DEFINE Kept(r) == r \in Tip(head) /\ r \in idx /\ r \in wt
           Stays(r) == r \in Tip(head') /\ r \in idx' /\ r \in wt'
           TornNow(c) == /\ journal' # None /\ journal'.stage \in Early /\ HasCommit(c, journal'.new)
                         /\ \A q \in Publishers : loc'[q].pc # "indexed"
           TornThen(c) == /\ journal # None /\ journal.stage \in Early /\ HasCommit(c, journal.new)
                          /\ \A q \in Publishers : Pc(q) # "indexed"
           ChainedNow == \A r \in Rows : (r \in Tip(head') => r \in idx') /\ (r \in idx' => r \in wt')
           Local(q) ==
             /\ loc'[q].pc = "index" => \A r \in Rows \cap Tip(journal'.new) : r \in wt'
             /\ loc'[q].pc = "indexed" => \A r \in Rows \cap Tip(journal'.new) : Stays(r)
             /\ \/ loc'[q].pc \in {"consume", "mark"}
                \/ loc'[q].pc = "complete" /\ loc'[q].mode = "publish"
                => \A r \in Rows \cap Tip(loc'[q].cand) : Stays(r)
             /\ loc'[q].pc \in {"readTail", "noop"} =>
                  (\A r \in Rows \cap Tip(loc'[q].base) : Stays(r)) \/ TornNow(loc'[q].base)
<1>1. SUFFICES ASSUME KeepsRows, ~spoiled'
      PROVE  /\ \A m \in admitted' \ pending' : m.row \in Rows => Stays(m.row)
             /\ ChainedNow \/ TornNow(head')
             /\ journal' # None /\ journal'.stage \notin Early
                  => \A r \in Rows \cap Tip(journal'.new) : Stays(r)
             /\ \A q \in Publishers : Local(q)
  BY ScopeFixed DEF RowsKept, KeepsRows, Without, Safe, Consumed, Chained, Torn, Unreconciled, Early,
       Pc, Tip
<1>2. /\ TypeOK /\ head \in Commits /\ head' \in Commits /\ head \in Seq(Version) /\ ~spoiled
      /\ head' \in Seq(Version) /\ Human \notin Rows
  BY <1>1, TipContent, Spoils, PublicationAssumption DEF Control, TypeOK
<1>3. \A r \in Rows : Kept(r) => Stays(r)
  BY <1>1, RowsStay
<1>4. /\ \A m \in admitted \ pending : m.row \in Rows => Kept(m.row)
      /\ Chained \/ TornThen(head)
      /\ journal # None /\ journal.stage \notin Early => \A r \in Rows \cap Tip(journal.new) : Kept(r)
  BY <1>1, <1>2 DEF RowsKept, KeepsRows, Safe, Consumed, Torn, Unreconciled, Early
<1>5. \A q \in Publishers :
        /\ Pc(q) = "index" => \A r \in Rows \cap Tip(journal.new) : r \in wt
        /\ Pc(q) = "indexed" => \A r \in Rows \cap Tip(journal.new) : Kept(r)
        /\ Pc(q) \in {"consume", "mark"} \/ (Pc(q) = "complete" /\ loc[q].mode = "publish")
             => \A r \in Rows \cap Tip(loc[q].cand) : Kept(r)
        /\ Pc(q) \in {"readTail", "noop"} =>
             (\A r \in Rows \cap Tip(loc[q].base) : Kept(r)) \/ TornThen(loc[q].base)
  BY <1>1, <1>2 DEF RowsKept, KeepsRows, Safe, Torn, Unreconciled, Early
<1>6. \A c \in Commits : HasCommit(head, c) => HasCommit(head', c)
  BY <1>1, HeadGrows DEF KeepsRows, Without
<1>7. \A q \in Publishers : Pc(q) \in {"readTail", "noop"} =>
        loc[q].base \in Commits /\ loc[q].base \in Seq(Version) /\ HasCommit(head, loc[q].base)
  BY <1>1, TipContent DEF Control, Candidates, History, KeepsRows, Without
<1>8. journal # None => journal \in Journals /\ journal.new \in Commits /\ journal.new \in Seq(Version)
  BY <1>2, TipContent DEF TypeOK, Journals
<1> HIDE DEF Kept, Stays, TornNow, TornThen, ChainedNow, Local
(* Nothing of the publishers or the journal moves.                         *)
<1>9. ASSUME UNCHANGED <<journal, loc>>, \A r \in Rows : r \in wt => r \in wt'
      PROVE  /\ journal' # None /\ journal'.stage \notin Early
                  => \A r \in Rows \cap Tip(journal'.new) : Stays(r)
             /\ \A q \in Publishers : Local(q)
             /\ TornThen(head) => TornNow(head')
  <2>1. \A c : TornThen(c) => TornNow(c)
    BY <1>9 DEF TornThen, TornNow, Pc
  <2>2. ASSUME NEW q \in Publishers PROVE Local(q)
    BY <1>3, <1>5, <1>9, <2>1 DEF Local, Pc
  <2>3. TornThen(head) => TornNow(head')
    BY <1>6, <1>8, <1>9 DEF TornThen, TornNow, Pc
  <2> QED BY <1>3, <1>4, <1>9, <2>2, <2>3
<1>10. CASE UserNext
  <2>1. UNCHANGED <<journal, loc, admitted, pending>>
    BY <1>2, <1>10, UserTypes DEF Mine
  <2>2. \A r \in Rows : (r \in wt => r \in wt')
    BY <1>1, <1>2, <1>10 DEF UserNext, EditWorktree, GitAdd, GitCommitStart, GitCommitEnd, GitRevert,
         GitResetSoft, GitBranch, GitSwitch, UserStep, gitVars, KeepsRows, Without
  <2>3. Chained => ChainedNow
    <3>1. CASE EditWorktree
      BY <1>2, <3>1 DEF EditWorktree, Chained, ChainedNow
    <3>2. CASE GitAdd \/ GitCommitStart \/ GitBranch
      BY <3>2 DEF GitAdd, GitCommitStart, GitBranch, gitVars, Chained, ChainedNow
    <3>3. CASE GitCommitEnd
      <4>1. [rows |-> idx, by |-> User] \in Version
        BY <1>2 DEF Version, TypeOK
      <4>2. Tip(head') = idx
        BY <1>2, <3>3, <4>1, ChildCommit DEF GitCommitEnd
      <4> QED BY <3>3, <4>2 DEF GitCommitEnd, Chained, ChainedNow
    <3>4. CASE GitRevert \/ GitResetSoft \/ GitSwitch
      BY <1>1, <3>4 DEF GitRevert, GitResetSoft, GitSwitch, UserStep, KeepsRows, Without
    <3> QED BY <1>10, <3>1, <3>2, <3>3, <3>4 DEF UserNext
  <2> QED BY <1>3, <1>4, <1>9, <2>1, <2>2, <2>3
<1>11. ASSUME NEW row \in scope.rows, AppendMutation(row)
       PROVE  /\ \A m \in admitted' \ pending' : m.row \in Rows => Stays(m.row)
              /\ ChainedNow \/ TornNow(head')
              /\ journal' # None /\ journal'.stage \notin Early
                  => \A r \in Rows \cap Tip(journal'.new) : Stays(r)
              /\ \A q \in Publishers : Local(q)
  <2>1. /\ UNCHANGED <<journal, loc, head, idx, wt>>
        /\ pending' = pending \cup {[seq |-> lastSeq + 1, row |-> row]}
        /\ admitted' = admitted \cup {[seq |-> lastSeq + 1, row |-> row]}
    BY <1>2, <1>11, AppendFacts
  <2>2. \A m \in admitted' \ pending' : m \in admitted \ pending
    BY <2>1
  <2>3. Chained => ChainedNow
    BY <2>1 DEF Chained, ChainedNow
  <2> QED BY <1>3, <1>4, <1>9, <2>1, <2>2, <2>3
<1>12. CASE UNCHANGED vars
  <2>1. UNCHANGED <<journal, loc, head, idx, wt, pending, admitted>>
    BY <1>12 DEF vars, gitVars, runtimeVars
  <2>2. Chained => ChainedNow
    BY <2>1 DEF Chained, ChainedNow
  <2> QED BY <1>3, <1>4, <1>9, <2>1, <2>2
<1>13. ASSUME NEW p \in Publishers, Shaped(p)
       PROVE  /\ \A m \in admitted' \ pending' : m.row \in Rows => Stays(m.row)
              /\ ChainedNow \/ TornNow(head')
              /\ journal' # None /\ journal'.stage \notin Early
                  => \A r \in Rows \cap Tip(journal'.new) : Stays(r)
              /\ \A q \in Publishers : Local(q)
  <2>1. Moved(p) /\ JournalMoved(p)
    BY <1>2, <1>13, Moves, JournalMoves
  <2>2. InstallsIndex(p) => /\ head' = journal'.new /\ UNCHANGED <<head, journal>> /\ ChainedNow
                            /\ \A r \in Rows \cap Tip(head') : Stays(r)
    <3>1. SUFFICES ASSUME InstallsIndex(p)
          PROVE  /\ head' = journal'.new /\ UNCHANGED <<head, journal>> /\ ChainedNow
                 /\ \A r \in Rows \cap Tip(head') : Stays(r)
      OBVIOUS
    <3>2. /\ head' = journal'.new /\ idx' = Tip(head') /\ UNCHANGED <<head, journal>>
          /\ \A r \in Rows : r \in Tip(head') => r \in idx' /\ r \in wt'
      BY <1>1, <1>2, <3>1, IndexInstalled
    <3> QED BY <3>2 DEF ChainedNow, Stays
  (* A torn index stays announced until it is replaced.                    *)
  <2>3. ASSUME NEW c \in Commits, HasCommit(head, c), TornThen(c), ~InstallsIndex(p)
        PROVE  TornNow(c)
    <3>1. HasCommit(head, journal.new)
      BY <1>2, <1>8, <2>3, HasCommitOrder, TipContent DEF TornThen
    <3>2. /\ journal' # None /\ journal'.stage \in Early /\ journal'.new = journal.new
          /\ \A q \in Publishers : loc'[q].pc # "indexed"
      BY <1>1, <1>13, <2>3, <3>1, TornKept DEF TornThen
    <3> QED BY <2>3, <3>2 DEF TornThen, TornNow
  <2>4. \A m \in admitted' \ pending' : m.row \in Rows => Stays(m.row)
    <3>1. ASSUME ConsumeTail(p), NEW m \in PendingThrough(loc[p].intent), m.row \in Rows
          PROVE  Stays(m.row)
      <4>1. Pc(p) = "consume" /\ loc[p].cand # <<>>
        BY <3>1, TipContent DEF ConsumeTail, Control, Candidates, Pc
      <4>2. m.row \in Tip(loc[p].cand)
        BY <3>1, <4>1 DEF Coverage, Covered
      <4> QED BY <1>3, <1>5, <3>1, <4>1, <4>2
    <3>2. ASSUME NoVisibleChange(p), NEW m \in PendingThrough(loc[p].intent), m.row \in Rows
          PROVE  Stays(m.row)
      <4>1. Pc(p) = "noop" /\ ~Unreconciled(loc[p].base)
        BY <1>1, <3>2 DEF NoVisibleChange, Pc
      <4>2. m.row \in Tip(loc[p].base)
        BY <3>2, <4>1 DEF Coverage, Covered
      <4>3. ~TornThen(loc[p].base)
        BY <4>1 DEF TornThen, Unreconciled, Early
      <4> QED BY <1>3, <1>5, <3>2, <4>1, <4>2, <4>3
    <3> QED BY <1>3, <1>4, <1>13, <3>1, <3>2, ConsumedGrows
  <2>5. ChainedNow \/ TornNow(head')
    <3>1. CASE InstallsIndex(p)
      BY <2>2, <3>1
    <3>2. CASE Advances(p) \/ InstallsStore(p)
      BY <3>2, GitTorn DEF TornNow
    <3>3. CASE ~(InstallsIndex(p) \/ Advances(p) \/ InstallsStore(p))
      <4>1. UNCHANGED <<head, idx, wt>>
        BY <1>13, <3>3, GitMoves DEF gitVars
      <4>2. Chained => ChainedNow
        BY <4>1 DEF Chained, ChainedNow
      <4>3. TornThen(head) => TornNow(head)
        BY <1>2, <2>3, <3>3, HasCommitOrder
      <4> QED BY <1>4, <4>1, <4>2, <4>3
    <3> QED BY <3>1, <3>2, <3>3
  <2>6. ASSUME journal' # None, journal'.stage \notin Early
        PROVE  \A r \in Rows \cap Tip(journal'.new) : Stays(r)
    <3>1. \/ journal # None /\ journal.stage \notin Early /\ journal'.new = journal.new
          \/ Pc(p) = "indexed" /\ journal'.new = journal.new
          \/ Pc(p) = "mark" /\ journal'.new = loc[p].cand
      BY <2>1, <2>6 DEF JournalMoved, Discards, Abandons, ClearJournal, Marks, Early
    <3> QED BY <1>3, <1>4, <1>5, <3>1
  <2>7. ASSUME NEW q \in Publishers PROVE Local(q)
    <3>1. loc'[q].pc = "index" => \A r \in Rows \cap Tip(journal'.new) : r \in wt'
      <4>1. CASE q = p
        BY <2>1, <4>1 DEF Moved, InstallsStore
      <4>2. CASE q # p /\ loc'[q].pc = "index"
        <5>1. Pc(q) = "index"
          BY <2>1, <4>2 DEF Moved, Pc
        <5>2. UNCHANGED <<journal, wt>>
          BY <1>13, <4>2, <5>1, Undisturbed DEF Holding
        <5> QED BY <1>5, <5>1, <5>2
      <4> QED BY <4>1, <4>2
    <3>2. loc'[q].pc = "indexed" => \A r \in Rows \cap Tip(journal'.new) : Stays(r)
      <4>1. CASE q = p
        BY <2>1, <2>2, <4>1 DEF Moved
      <4>2. CASE q # p /\ loc'[q].pc = "indexed"
        <5>1. Pc(q) = "indexed"
          BY <2>1, <4>2 DEF Moved, Pc
        <5>2. UNCHANGED journal
          BY <1>13, <4>2, <5>1, Undisturbed DEF Holding
        <5> QED BY <1>3, <1>5, <5>1, <5>2
      <4> QED BY <4>1, <4>2
    <3>3. \/ loc'[q].pc \in {"consume", "mark"}
          \/ loc'[q].pc = "complete" /\ loc'[q].mode = "publish"
          => \A r \in Rows \cap Tip(loc'[q].cand) : Stays(r)
      <4>1. CASE q # p
        BY <1>3, <1>5, <2>1, <4>1 DEF Moved, Pc
      <4>2. CASE q = p /\ loc'[p].pc = "mark"
        BY <1>3, <1>5, <2>1, <4>2 DEF Moved, Same, ConsumeTail, Pc
      <4>3. CASE q = p /\ loc'[p].pc = "consume"
        <5>1. Same(p) /\ Pc(p) = "complete"
              /\ (loc[p].mode = "recover" => journal = JournalOf(loc[p], "WorktreeReconciled"))
          BY <2>1, <4>3 DEF Moved
        <5>2. CASE loc[p].mode = "publish"
          BY <1>3, <1>5, <4>3, <5>1, <5>2 DEF Same
        <5>3. CASE loc[p].mode = "recover"
          <6>1. loc[p].base \in Commits /\ loc[p].cand \in Commits /\ loc[p].intent \in Nat
                /\ loc[p].index \in Content
            BY <1>2, <5>1 DEF Control, Candidates, Intents, IntentOf, TypeOK, Memory
          <6>2. JournalOf(loc[p], "WorktreeReconciled") \in Journals
            BY <6>1 DEF JournalOf, Journals, Stages
          <6>3. journal # None /\ journal.stage \notin Early /\ journal.new = loc[p].cand
            BY <5>1, <5>3, <6>2, AbsenceAssumption DEF JournalOf, Early
          <6> QED BY <1>3, <1>4, <4>3, <5>1, <6>3 DEF Same
        <5>4. loc[p].mode \in {"publish", "recover"}
          BY <1>2 DEF TypeOK, Memory
        <5> QED BY <5>2, <5>3, <5>4
      <4>4. CASE q = p /\ loc'[p].pc = "complete" /\ loc'[p].mode = "publish"
        <5>1. Same(p) /\ loc[p].mode = "publish"
          BY <2>1, <4>4 DEF Moved, Same
        <5>2. WorktreeReconciled(p)
          BY <2>1, <4>4, <5>1 DEF Moved, Control, JournalFollows, Own
        <5>3. Pc(p) = "worktree"
          BY <5>2 DEF WorktreeReconciled, Pc
        <5>4. journal # None /\ journal.stage = "IndexReconciled"
          BY <5>3 DEF Control, JournalFollows, StageAt, Staged
        <5>5. journal.new = loc[p].cand
          BY <5>1, <5>3 DEF Control, JournalFollows, Own, JournalOf
        <5> QED BY <1>3, <1>4, <4>4, <5>1, <5>4, <5>5 DEF Same, Early
      <4> QED BY <4>1, <4>2, <4>3, <4>4
    <3>4. ASSUME NEW c \in Commits, HasCommit(head, c), TornThen(c)
          PROVE  TornNow(c) \/ \A r \in Rows \cap Tip(c) : Stays(r)
      <4>1. CASE ~InstallsIndex(p)
        BY <2>3, <3>4, <4>1
      <4>2. CASE InstallsIndex(p)
        <5>1. head = journal.new /\ head' = head
          BY <2>2, <4>2
        <5>2. c = head
          BY <1>2, <3>4, <5>1, HasCommitOrder, TipContent DEF TornThen
        <5> QED BY <2>2, <4>2, <5>1, <5>2
      <4> QED BY <4>1, <4>2
    <3>5. loc'[q].pc \in {"readTail", "noop"} =>
            (\A r \in Rows \cap Tip(loc'[q].base) : Stays(r)) \/ TornNow(loc'[q].base)
      <4>1. ASSUME Pc(q) \in {"readTail", "noop"}, loc'[q].base = loc[q].base
            PROVE  (\A r \in Rows \cap Tip(loc'[q].base) : Stays(r)) \/ TornNow(loc'[q].base)
        BY <1>3, <1>5, <1>7, <3>4, <4>1
      <4>2. CASE q # p
        BY <2>1, <4>1, <4>2 DEF Moved, Pc
      <4>3. CASE q = p /\ loc'[p].pc = "noop"
        BY <2>1, <4>1, <4>3 DEF Moved, FindsNothing, Same
      <4>4. CASE q = p /\ loc'[p].pc = "readTail"
        <5>1. loc'[p].base = head
          BY <2>1, <4>4 DEF Moved
        <5>2. Chained => \A r \in Rows \cap Tip(head) : Kept(r)
          BY DEF Chained, Kept
        <5>3. HasCommit(head, head)
          BY <1>2, HasCommitOrder
        <5> QED BY <1>2, <1>3, <1>4, <3>4, <4>4, <5>1, <5>2, <5>3
      <4> QED BY <4>2, <4>3, <4>4
    <3> QED BY <3>1, <3>2, <3>3, <3>5 DEF Local
  <2> QED BY <2>4, <2>5, <2>6, <2>7
<1> QED BY <1>2, <1>10, <1>11, <1>12, <1>13, StepKinds

(* There are no rows initially.                                            *)
LEMMA InitRows ==
  ASSUME Init PROVE Coverage /\ RowsKept
<1>1. \A p \in Publishers : Pc(p) = "idle" /\ loc[p].cand = <<>>
  BY IdleMemory DEF Init, Pc
<1>2. journal = None /\ admitted = {} /\ Tip(head) = {} /\ idx = {}
  BY DEF Init, Tip
<1> QED BY <1>1, <1>2 DEF Coverage, RowsKept, Safe, Consumed, Chained

(* Whatever step a publisher stopped at and whatever a person edits,       *)
(* stages or commits meanwhile, every admitted row is in the commit HEAD   *)
(* names or still in the pending tail, until one of the two steps the      *)
(* findings are about is taken.                                            *)
THEOREM RowsAreNeverMissing == Spec => []NoMissingRows
<1> DEFINE Inv == Control /\ Ranges /\ History /\ Coverage /\ RowsKept
<1>1. Init => Inv
  BY InitControl, InitHistory, InitRows
<1>2. Inv /\ [Next]_vars => Inv'
  BY NextControl, NextRanges, NextHistory, NextCoverage, NextRowsKept
<1>3. Inv => NoMissingRows
  <2>1. SUFFICES ASSUME Inv, Without({"revert", "reset", "switch"}), ~spoiled, NEW m \in admitted, m \notin pending
        PROVE  m.row \in Tip(head)
    BY DEF NoMissingRows, RowsReadable, RowsOf
  <2>2. m.row \in Rows /\ m.row \in Consumed
    BY <2>1 DEF Control, TypeOK, Mutations, Consumed
  <2> QED BY <2>1, <2>2 DEF RowsKept, Safe
<1> QED BY <1>1, <1>2, <1>3, PTL DEF Spec

-----------------------------------------------------------------------------
(* index.lock.                                                             *)

(* Between taking index.lock and releasing it a publisher's own lock file  *)
(* is there: no Git command that needs the lock can run.                   *)
Locking ==
    {"verifyStore", "prepare", "cas", "confirm", "advance", "store", "index", "indexed", "worktree"}

LockHeld == \A p \in Publishers : Pc(p) \in Locking => ilock # None /\ ilock.owner = p

LockMoved(p) ==
    /\ loc'[p].pc \in Locking =>
         \/ Pc(p) \in Locking /\ UNCHANGED ilock
         \/ ilock' # None /\ ilock'.owner = p
    /\ ilock # None /\ ilock.owner \notin {p, None} => UNCHANGED ilock \/ WorktreeReconciled(p)

(* A command that ends takes no lock, and releases only its own.           *)
LEMMA ExitLock ==
  ASSUME TypeOK, NEW p \in Publishers, loc' = [loc EXCEPT ![p] = Idle],
         ilock # None /\ ilock.owner \notin {p, None} => UNCHANGED ilock
  PROVE  LockMoved(p)
<1>1. loc'[p] = Idle
  BY PutFacts, IdleMemory DEF TypeOK
<1> QED BY <1>1, IdleMemory DEF LockMoved, Locking

(* Nor does a step that goes on to one that needs none.                    *)
LEMMA OpenLock ==
  ASSUME TypeOK, NEW p \in Publishers, NEW pc \in Steps \ Locking, Goto(p, pc),
         ilock # None /\ ilock.owner \notin {p, None} => UNCHANGED ilock
  PROVE  LockMoved(p)
  BY GotoMoves DEF LockMoved

(* A step under the lock keeps it.                                         *)
LEMMA KeptLock ==
  ASSUME TypeOK, NEW p \in Publishers, NEW pc \in Steps, Goto(p, pc),
         Pc(p) \in Locking, UNCHANGED ilock
  PROVE  LockMoved(p)
  BY DEF LockMoved

(* A lock with a living owner is never reclaimed.                          *)
LEMMA LivingLock ==
  ASSUME ilock # None, ilock.owner # None
  PROVE  \A bind : AfterReclaim(bind) = ilock
  BY DEF AfterReclaim, Reclaimable

(* recover_publication and index.lock.                                     *)
LEMMA RecoverLock ==
  ASSUME TypeOK, NEW p \in Publishers, RecoverRepository(p)
  PROVE  LockMoved(p)
<1>1. ilock # None /\ ilock.owner \notin {p, None} => \A bind : AfterReclaim(bind) = ilock
  BY LivingLock
<1>2. CASE Refused(p)
  BY <1>2, ExitLock DEF Refused, Exit, Released
<1>3. CASE RecoverNothing(p)
  BY <1>1, <1>3, OpenLock DEF RecoverNothing, Steps, Locking
<1>4. CASE RecoverDiscard(p)
  BY <1>1, <1>4, OpenLock DEF RecoverDiscard, Steps, Locking
<1>5. CASE RecoverResume(p)
  BY <1>1, <1>5, OpenLock DEF RecoverResume, Steps, Locking
<1>6. CASE RecoverConflict(p)
  BY <1>1, <1>6, ExitLock DEF RecoverConflict
<1>7. CASE RecoverVerified(p)
  BY <1>1, <1>7, ExitLock, OpenLock DEF RecoverVerified, RecoverRuntimeRequired, Steps, Locking
<1>8. CASE RecoverFinish(p)
  <2>1. PICK pc \in {"final", "clear"} : Goto(p, pc)
    BY <1>8 DEF RecoverFinish
  <2> QED BY <1>1, <1>8, <2>1, OpenLock DEF RecoverFinish, Steps, Locking
<1> QED BY <1>2, <1>3, <1>4, <1>5, <1>6, <1>7, <1>8 DEF RecoverRepository

(* Every step of a publisher and index.lock.                               *)
LEMMA LockMoves ==
  ASSUME Control, NEW p \in Publishers, Run(p) \/ Crash(p)
  PROVE  LockMoved(p)
<1> USE DEF Pc, Steps, Locking
<1>0. TypeOK
  BY DEF Control
<1>1. CASE Refused(p) \/ AbandonPrepared(p) \/ NoVisibleChange(p)
  BY <1>0, <1>1, ExitLock DEF Refused, AbandonPrepared, NoVisibleChange, Exit, Released
<1>2. CASE Crash(p)
  BY <1>0, <1>2, ExitLock DEF Crash
<1>3. CASE RecoverRead(p)
  BY <1>0, <1>3, ReadFacts DEF LockMoved, RecoverRead, lockVars
<1>4. CASE RecoverRepository(p)
  BY <1>0, <1>4, RecoverLock
<1>5. CASE Reacquire(p) /\ ~Refused(p)
  <2>1. ilock = None /\ ilock' = [owner |-> p, bind |-> journal.intent]
    BY <1>5 DEF Reacquire
  <2>2. journal # None /\ journal \in Journals
    BY <1>0, <1>5 DEF Reacquire, Control, JournalFollows, StageAt, Staged, TypeOK
  <2>3. ilock' \in Locks
    BY <2>1, <2>2 DEF Locks, Journals
  <2> QED BY <2>1, <2>3, AbsenceAssumption DEF LockMoved
<1>6. CASE LockIndex(p) /\ ~Refused(p)
  <2>1. ilock' = [owner |-> p, bind |-> loc[p].intent] /\ AfterReclaim(loc[p].intent) = None
    BY <1>6 DEF LockIndex
  <2>2. ilock' \in Locks
    BY <1>0, <2>1 DEF Locks, TypeOK, Memory
  <2> QED BY <2>1, <2>2, LivingLock, AbsenceAssumption DEF LockMoved
<1>7. CASE ~Refused(p) /\ (VerifyStore(p) \/ Prepare(p) \/ RefAdvanced(p) \/ IndexReconciled(p))
  BY <1>0, <1>7, KeptLock DEF VerifyStore, Prepare, RefAdvanced, IndexReconciled, WriteStage, lockVars
<1>8. CASE ~AbandonPrepared(p) /\ (AdvanceRef(p) \/ ConfirmRef(p))
  BY <1>0, <1>8, KeptLock DEF AdvanceRef, ConfirmRef, lockVars
<1>9. CASE ~Refused(p) /\ (InstallStore(p) \/ InstallIndex(p))
  BY <1>0, <1>9, KeptLock DEF InstallStore, InstallIndex, lockVars
<1>10. CASE WorktreeReconciled(p)
  <2>1. CASE loc' = [loc EXCEPT ![p] = Idle]
    <3>1. loc'[p] = Idle
      BY <1>0, <2>1, PutFacts, IdleMemory DEF TypeOK
    <3> QED BY <1>10, <3>1, IdleMemory DEF LockMoved
  <2>2. CASE Goto(p, "complete")
    BY <1>0, <1>10, <2>2, GotoMoves DEF LockMoved
  <2> QED BY <1>10, <2>1, <2>2 DEF WorktreeReconciled, RecoverRuntimeRequired
<1>11. CASE Freeze(p)
  BY <1>0, <1>11, FreezeFacts DEF LockMoved, Freeze, lockVars
<1>12. CASE ReadTail(p) /\ ~Refused(p)
  <2>1. FindsNothing(p) \/ Builds(p)
    BY <1>0, <1>12, ReadShape
  <2>2. UNCHANGED ilock
    BY <1>12 DEF ReadTail, lockVars
  <2>3. loc'[p].pc \in {"noop", "build"}
    BY <1>0, <2>1, GotoMoves DEF FindsNothing, Walk, Builds, TypeOK, Memory
  <2> QED BY <2>2, <2>3 DEF LockMoved
<1>13. CASE Capture(p) /\ ~Refused(p)
  <2>1. loc'[p].pc = "readTail" /\ UNCHANGED ilock
    BY <1>0, <1>13 DEF Capture, TypeOK, Memory, lockVars
  <2> QED BY <2>1 DEF LockMoved
<1>14. CASE ~Refused(p) /\ (RecoverRuntime(p) \/ Select(p) \/ Build(p) \/ PublishEnter(p))
  BY <1>0, <1>14, OpenLock DEF RecoverRuntime, Select, Build, PublishEnter, lockVars
<1>15. CASE /\ ~Refused(p)
            /\ VerifyPublished(p) \/ ConsumeTail(p) \/ MarkComplete(p) \/ MarkRuntimeComplete(p)
  BY <1>0, <1>15, OpenLock DEF VerifyPublished, ConsumeTail, MarkComplete, MarkRuntimeComplete,
       WriteStage, lockVars
<1>16. CASE ClearJournal(p)
  <2> DEFINE l == IF loc[p].mode = "recover" THEN [Idle EXCEPT !.pc = "select"] ELSE Idle
  <2>1. l \in Memory /\ l.pc \in {"select", "idle"}
    BY IdleMemory DEF Idle, Memory
  <2>2. loc' = [loc EXCEPT ![p] = l] /\ UNCHANGED ilock
    BY <1>16 DEF ClearJournal
  <2> HIDE DEF l
  <2>3. loc'[p] = l
    BY <1>0, <2>1, <2>2, PutFacts DEF TypeOK
  <2> QED BY <2>1, <2>2, <2>3 DEF LockMoved
<1> QED BY <1>1, <1>2, <1>3, <1>4, <1>5, <1>6, <1>7, <1>8, <1>9, <1>10, <1>11, <1>12, <1>13, <1>14,
           <1>15, <1>16 DEF Run, Recovery, Publish, Reconcile, Complete

(* While a publisher holds index.lock, the person can only edit files,     *)
(* make a branch or reset softly.                                          *)
LEMMA UserHindered ==
  ASSUME UserNext, ilock # None, ilock.owner \in Publishers
  PROVE  UNCHANGED ilock /\ (EditWorktree \/ GitBranch \/ GitResetSoft)
  BY PublicationAssumption DEF UserNext, EditWorktree, GitAdd, GitCommitStart, GitCommitEnd, GitRevert,
     GitResetSoft, GitBranch, GitSwitch, GitLocked

(* LockHeld is inductive.                                                  *)
LEMMA NextLockHeld ==
  ASSUME Control, LockHeld, [Next]_vars PROVE LockHeld'
<1>1. TypeOK /\ scope.publishers \subseteq Publishers /\ None \notin Publishers
  BY PublicationAssumption DEF Control, TypeOK
<1>2. ASSUME NEW p \in Publishers, Run(p) \/ Crash(p), NEW q \in Publishers, loc'[q].pc \in Locking
      PROVE  ilock' # None /\ ilock'.owner = q
  <2>1. LockMoved(p) /\ Moved(p)
    BY <1>1, <1>2, LockMoves, Shapes, Moves
  <2>2. CASE q = p
    BY <1>2, <2>1, <2>2 DEF LockMoved, LockHeld
  <2>3. CASE q # p
    <3>1. Pc(q) \in Locking /\ ilock # None /\ ilock.owner = q
      BY <1>2, <2>1, <2>3 DEF Moved, LockHeld, Pc
    <3>2. ~WorktreeReconciled(p)
      <4>1. Pc(q) \in Holding
        BY <3>1 DEF Locking, Holding
      <4>2. WorktreeReconciled(p) => Pc(p) \in Holding
        BY DEF WorktreeReconciled, Holding, Pc
      <4> QED BY <2>3, <4>1, <4>2, OneReconciler
    <3> QED BY <1>1, <2>1, <2>3, <3>1, <3>2 DEF LockMoved
  <2> QED BY <2>2, <2>3
<1>3. CASE UserNext
  <2>1. UNCHANGED loc
    BY <1>1, <1>3, UserTypes DEF Mine
  <2> QED BY <1>3, <2>1, UserHindered DEF LockHeld, Pc
<1>4. CASE (\E row \in scope.rows : AppendMutation(row)) \/ UNCHANGED vars
  BY <1>4 DEF AppendMutation, vars, lockVars, LockHeld, Pc
<1> QED BY <1>1, <1>2, <1>3, <1>4 DEF Next, LockHeld, Pc

(* From the moment a publisher has taken index.lock until it releases it,  *)
(* the lock file is its own: neither a Git command nor another publisher   *)
(* replaces or reclaims it (GitIndexLock::acquire_owned, reclaim_bound).   *)
THEOREM PublishersHoldTheIndex == Spec => []LockHeld
<1>1. Init => Control /\ LockHeld
  <2>1. Init => \A p \in Publishers : Pc(p) = "idle"
    BY IdleMemory DEF Init, Pc
  <2> QED BY <2>1, InitControl DEF LockHeld, Locking
<1>2. Control /\ LockHeld /\ [Next]_vars => (Control /\ LockHeld)'
  BY NextControl, NextLockHeld
<1> QED BY <1>1, <1>2, PTL DEF Spec

-----------------------------------------------------------------------------
(* Candidates and their authors.                                           *)

(* The steps between building a candidate and the journal that names it.   *)
Built == {"build", "publish", "lock", "prepare"}

(* How the steps with an intent, a candidate or a moved branch are reached. *)
Reached(p) ==
    /\ loc'[p].pc \in Fresh \cup {"cas"} =>
         Freeze(p) \/ (Pc(p) \in Fresh /\ loc'[p].intent = loc[p].intent)
    /\ loc'[p].pc \in Built \cup {"cas"} => Builds(p) \/ (Same(p) /\ Pc(p) \in Built)
    /\ loc'[p].pc = "confirm" => Advances(p)
    /\ loc'[p].pc \in {"advance", "store", "index"} /\ loc'[p].mode = "publish" =>
         /\ Pc(p) \in {"confirm", "advance", "store"} /\ loc[p].mode = "publish"
         /\ UNCHANGED idx /\ journal'.index = journal.index

(* A process that ends, or starts to recover or to select, is at none of   *)
(* these steps.                                                            *)
LEMMA ElsewhereReaches ==
  ASSUME NEW p \in Publishers,
         loc'[p].pc \notin Fresh \cup {"cas", "confirm", "advance", "store", "index"}
  PROVE  Reached(p)
  BY DEF Reached, Fresh, Built

(* Every shape reaches these steps so.                                     *)
LEMMA Reaches ==
  ASSUME Control, NEW p \in Publishers, Shaped(p)
  PROVE  Reached(p)
<1> USE DEF Pc, Staged
<1>0. TypeOK
  BY DEF Control
<1>1. CASE Leaves(p) \/ Abandons(p) \/ NoVisibleChange(p)
  <2>1. loc' = [loc EXCEPT ![p] = Idle]
    BY <1>1 DEF Leaves, Abandons, NoVisibleChange, Exit
  <2>2. loc'[p].pc = "idle"
    BY <1>0, <2>1, PutFacts, IdleMemory DEF TypeOK
  <2> QED BY <2>2, ElsewhereReaches DEF Fresh
<1>2. CASE Walks(p)
  <2>1. PICK pc \in Steps :
        /\ Walk(p, pc)
        /\ pc \in {"advance", "store"} => Pc(p) \in {"reacquire", "confirm"}
        /\ pc \in Fresh \cup {"cas"} => pc \in Built /\ Pc(p) \in Built
        /\ pc \notin {"confirm", "index"}
    BY <1>2 DEF Walks, Steps, Fresh, Built
  <2>2. loc'[p].pc = pc /\ Same(p) /\ UNCHANGED <<journal, idx>>
    BY <1>0, <2>1, GotoMoves DEF Walk, Still, gitVars
  <2>3. Pc(p) = "reacquire" => loc[p].mode = "recover"
    BY DEF Control, JournalFollows, Own
  <2> QED BY <2>1, <2>2, <2>3 DEF Reached, Same, Fresh, Built
<1>3. CASE Enters(p)
  BY <1>0, <1>3, GotoMoves DEF Enters, Enter, Steps, Reached, Same, Fresh, Built
<1>4. CASE RecoverRead(p)
  BY <1>0, <1>4, ReadFacts, ElsewhereReaches DEF Fresh
<1>5. CASE RecoverRuntime(p) \/ Discards(p) \/ ConsumeTail(p) \/ Marks(p)
  <2>1. PICK pc \in {"recover", "select", "mark", "final"} : Goto(p, pc)
    BY <1>5 DEF RecoverRuntime, Discards, ConsumeTail, Marks
  <2>2. loc'[p].pc \in {"recover", "select", "mark", "final"}
    BY <1>0, <2>1, GotoMoves DEF Steps
  <2> QED BY <2>2, ElsewhereReaches DEF Fresh
<1>6. CASE Freeze(p)
  BY <1>0, <1>6, FreezeFacts DEF Reached, Built
<1>7. CASE Captures(p)
  <2>1. loc'[p].pc = "readTail" /\ loc'[p].intent = loc[p].intent /\ Pc(p) = "capture"
    BY <1>0, <1>7 DEF Captures, TypeOK, Memory
  <2> QED BY <2>1 DEF Reached, Fresh, Built
<1>8. CASE FindsNothing(p)
  BY <1>0, <1>8, GotoMoves DEF FindsNothing, Walk, Steps, Reached, Same, Fresh, Built
<1>9. CASE Builds(p)
  <2>1. loc'[p].pc = "build" /\ loc'[p].intent = loc[p].intent /\ Pc(p) = "readTail"
    BY <1>0, <1>9 DEF Builds, TypeOK, Memory
  <2> QED BY <1>9, <2>1 DEF Reached, Fresh, Built
<1>10. CASE Prepares(p)
  BY <1>0, <1>10, GotoMoves DEF Prepares, Steps, Reached, Same, Fresh, Built
<1>11. CASE Advances(p)
  BY <1>0, <1>11, GotoMoves DEF Advances, Steps, Reached, Fresh, Built
<1>12. CASE RefAdvanced(p)
  <2>1. loc'[p].pc = "store" /\ Same(p) /\ UNCHANGED idx
    BY <1>0, <1>12, GotoMoves DEF RefAdvanced, WriteStage, Steps, gitVars
  <2>2. journal'.index = journal.index
    BY <1>12, StageFacts DEF RefAdvanced, WriteStage, Stages
  <2> QED BY <1>12, <2>1, <2>2 DEF RefAdvanced, Reached, Same, Fresh, Built
<1>13. CASE InstallsStore(p)
  BY <1>0, <1>13, GotoMoves DEF InstallsStore, Steps, Reached, Same, Fresh, Built
<1>14. CASE InstallsIndex(p) \/ IndexReconciled(p) \/ MarkComplete(p)
  <2>1. PICK pc \in {"indexed", "worktree", "clear"} : Goto(p, pc)
    BY <1>14 DEF InstallsIndex, IndexReconciled, MarkComplete, WriteStage
  <2>2. loc'[p].pc \in {"indexed", "worktree", "clear"}
    BY <1>0, <2>1, GotoMoves DEF Steps
  <2> QED BY <2>2, ElsewhereReaches DEF Fresh
<1>15. CASE WorktreeReconciled(p)
  <2>1. CASE loc' = [loc EXCEPT ![p] = Idle]
    <3>1. loc'[p].pc = "idle"
      BY <1>0, <2>1, PutFacts, IdleMemory DEF TypeOK
    <3> QED BY <3>1, ElsewhereReaches DEF Fresh
  <2>2. CASE Goto(p, "complete")
    <3>1. loc'[p].pc = "complete"
      BY <1>0, <2>2, GotoMoves DEF Steps
    <3> QED BY <3>1, ElsewhereReaches DEF Fresh
  <2> QED BY <1>15, <2>1, <2>2 DEF WorktreeReconciled, RecoverRuntimeRequired
<1>16. CASE ClearJournal(p)
  <2> DEFINE l == IF loc[p].mode = "recover" THEN [Idle EXCEPT !.pc = "select"] ELSE Idle
  <2>1. l \in Memory /\ l.pc \in {"select", "idle"}
    BY IdleMemory DEF Idle, Memory, Steps
  <2>2. loc' = [loc EXCEPT ![p] = l]
    BY <1>16 DEF ClearJournal
  <2> HIDE DEF l
  <2>3. loc'[p].pc \in {"select", "idle"}
    BY <1>0, <2>1, <2>2, PutFacts DEF TypeOK
  <2> QED BY <2>3, ElsewhereReaches DEF Fresh
<1> QED BY <1>1, <1>2, <1>3, <1>4, <1>5, <1>6, <1>7, <1>8, <1>9, <1>10, <1>11, <1>12, <1>13, <1>14,
           <1>15, <1>16 DEF Shaped

(* What a built candidate is.                                              *)
LEMMA BuiltFacts ==
  ASSUME Control, NEW p \in Publishers, Builds(p)
  PROVE  /\ loc'[p].intent = loc[p].intent /\ loc'[p].base = loc[p].base /\ loc[p].base \in Commits
         /\ loc'[p].cand \in Commits
         /\ loc'[p].cand[Len(loc'[p].cand)].by = loc[p].intent
         /\ Tip(loc'[p].cand) = Tip(loc[p].base) \cup RowsOf(PendingThrough(loc[p].intent))
<1> DEFINE rows == Tip(loc[p].base) \cup RowsOf(PendingThrough(loc[p].intent))
           v == [rows |-> rows, by |-> loc[p].intent]
<1>0. TypeOK /\ Pc(p) = "readTail"
  BY DEF Control, Builds
<1>1. loc[p].base \in Commits /\ loc[p].base \in Seq(Version) /\ Tip(loc[p].base) \in Content
  BY <1>0, TipContent DEF Control, Candidates
<1>2. loc[p].intent \in Nat
  BY <1>0 DEF Control, Intents, IntentOf, Fresh, TypeOK, Memory, Pc
<1>3. /\ loc'[p].intent = loc[p].intent /\ loc'[p].base = loc[p].base
      /\ loc'[p].cand = Append(loc[p].base, v)
  BY <1>0 DEF Builds, TypeOK, Memory
<1>4. v \in Version /\ v.rows = rows /\ v.by = loc[p].intent
  <2>1. RowsOf(PendingThrough(loc[p].intent)) \subseteq Rows
    BY <1>0 DEF RowsOf, PendingThrough, TypeOK, Mutations
  <2> QED BY <1>1, <1>2, <2>1 DEF Version, Content
<1> HIDE DEF v
<1> QED BY <1>1, <1>3, <1>4, ChildCommit

(* A candidate is signed with its intent.                                  *)
Signed ==
    /\ journal # None => journal.new[Len(journal.new)].by = journal.intent
    /\ \A p \in Publishers : loc[p].cand # <<>> => loc[p].cand[Len(loc[p].cand)].by = loc[p].intent

(* Signed is inductive.                                                    *)
LEMMA NextSigned ==
  ASSUME Control, Signed, [Next]_vars PROVE Signed'
<1>0. TypeOK
  BY DEF Control
<1>1. ASSUME NEW p \in Publishers, Shaped(p) PROVE Signed'
  <2>1. Moved(p) /\ JournalMoved(p)
    BY <1>0, <1>1, Moves, JournalMoves
  <2>2. journal' # None => journal'.new[Len(journal'.new)].by = journal'.intent
    <3>1. \/ journal' = None
          \/ journal # None /\ journal'.intent = journal.intent /\ journal'.new = journal.new
          \/ /\ Pc(p) \in {"prepare", "mark"}
             /\ journal'.intent = loc[p].intent /\ journal'.new = loc[p].cand
      BY <2>1 DEF JournalMoved, Discards, Abandons, ClearJournal, Prepares, Marks
    <3>2. Pc(p) \in {"prepare", "mark"} => loc[p].cand # <<>>
      BY TipContent DEF Control, Candidates, Child
    <3> QED BY <3>1, <3>2 DEF Signed
  <2>3. ASSUME NEW q \in Publishers, loc'[q].cand # <<>>
        PROVE  loc'[q].cand[Len(loc'[q].cand)].by = loc'[q].intent
    <3>1. CASE q # p \/ (loc'[q].cand = loc[q].cand /\ loc'[q].intent = loc[q].intent)
      BY <2>1, <2>3, <3>1 DEF Moved, Signed
    <3>2. CASE q = p /\ Builds(p)
      BY <3>2, BuiltFacts
    <3>3. CASE q = p /\ RecoverRead(p)
      BY <1>0, <2>3, <3>3, ReadFacts DEF Signed
    <3> QED BY <2>1, <2>3, <3>1, <3>2, <3>3 DEF Moved
  <2> QED BY <2>2, <2>3 DEF Signed
<1>2. CASE UserNext
  BY <1>0, <1>2, UserTypes DEF Mine, Signed
<1>3. CASE (\E row \in scope.rows : AppendMutation(row)) \/ UNCHANGED vars
  BY <1>3 DEF AppendMutation, vars, Signed
<1> QED BY <1>0, <1>1, <1>2, <1>3, StepKinds

(* A candidate adds a row to its base.                                     *)
Adds(base, cand) == \E r \in Rows : r \in Tip(cand) /\ r \notin Tip(base)

Adding ==
    /\ Staged(Early) => Adds(journal.old, journal.new)
    /\ \A p \in Publishers : Pc(p) \in Built => Adds(loc[p].base, loc[p].cand)

(* Adding is inductive.                                                    *)
LEMMA NextAdding ==
  ASSUME Control, Adding, [Next]_vars PROVE Adding'
<1> USE DEF Pc, Staged, Adds, Tip
<1>0. TypeOK
  BY DEF Control
<1>1. ASSUME NEW p \in Publishers, Shaped(p) PROVE Adding'
  <2>1. Moved(p) /\ Reached(p) /\ JournalMoved(p)
    BY <1>0, <1>1, Moves, Reaches, JournalMoves
  <2>2. Staged(Early)' => Adds(journal.old, journal.new)'
    <3>1. journal' # None /\ journal'.stage \in Early =>
            \/ /\ journal # None /\ journal.stage \in Early
               /\ journal'.old = journal.old /\ journal'.new = journal.new
            \/ Pc(p) = "prepare" /\ journal'.old = loc[p].base /\ journal'.new = loc[p].cand
            \/ Pc(p) = "indexed" /\ journal'.stage \notin Early
      BY <2>1 DEF JournalMoved, Discards, Abandons, ClearJournal, Prepares, Marks, Early
    <3> QED BY <3>1 DEF Adding, Built
  <2>3. ASSUME NEW q \in Publishers, loc'[q].pc \in Built
        PROVE  Adds(loc'[q].base, loc'[q].cand)
    <3>1. CASE q # p
      BY <2>1, <2>3, <3>1 DEF Moved, Adding
    <3>2. CASE q = p /\ Builds(p)
      <4>1. PICK m \in PendingThrough(loc[p].intent) : m.row \notin Tip(loc[p].base)
        BY <3>2 DEF Builds
      <4>2. m.row \in Rows
        BY <1>0 DEF PendingThrough, TypeOK, Mutations
      <4>3. m.row \in Tip(loc'[p].cand) /\ loc'[p].base = loc[p].base
        BY <3>2, BuiltFacts DEF RowsOf
      <4> QED BY <3>2, <4>1, <4>2, <4>3
    <3>3. CASE q = p /\ ~Builds(p)
      BY <2>1, <2>3, <3>3 DEF Reached, Same, Adding
    <3> QED BY <3>1, <3>2, <3>3
  <2> QED BY <2>2, <2>3 DEF Adding
<1>2. CASE UserNext
  BY <1>0, <1>2, UserTypes DEF Mine, Adding
<1>3. CASE (\E row \in scope.rows : AppendMutation(row)) \/ UNCHANGED vars
  BY <1>3 DEF AppendMutation, vars, Adding
<1> QED BY <1>0, <1>1, <1>2, <1>3, StepKinds

(* The runtime tables only grow: a frozen bound is fixed, and what is      *)
(* recorded stays recorded.                                                *)
LEMMA RuntimeGrows ==
  ASSUME Control, [Next]_vars
  PROVE  /\ admitted \subseteq admitted'
         /\ \A i \in DOMAIN done : /\ i \in DOMAIN done' /\ freezes'[i] = freezes[i]
                                   /\ done[i] # None => done'[i] # None
<1>0. TypeOK
  BY DEF Control
<1>1. ASSUME NEW p \in Publishers, RecoverRuntime(p) \/ ConsumeTail(p) \/ NoVisibleChange(p)
      PROVE  /\ admitted \subseteq admitted'
             /\ \A i \in DOMAIN done : /\ i \in DOMAIN done' /\ freezes'[i] = freezes[i]
                                       /\ done[i] # None => done'[i] # None
  BY <1>0, <1>1, RecordMoves, CompleteFacts
<1>2. ASSUME NEW p \in Publishers, Freeze(p)
      PROVE  /\ admitted \subseteq admitted'
             /\ \A i \in DOMAIN done : /\ i \in DOMAIN done' /\ freezes'[i] = freezes[i]
                                       /\ done[i] # None => done'[i] # None
  <2>1. UNCHANGED admitted
    BY <1>2 DEF Freeze
  <2> QED BY <1>0, <1>2, <2>1, FreezeFacts
<1>3. ASSUME NEW row \in scope.rows, AppendMutation(row)
      PROVE  /\ admitted \subseteq admitted'
             /\ \A i \in DOMAIN done : /\ i \in DOMAIN done' /\ freezes'[i] = freezes[i]
                                       /\ done[i] # None => done'[i] # None
  BY <1>0, <1>3, AppendFacts
<1>4. CASE UserNext
  BY <1>0, <1>4, UserTypes DEF Mine
<1>5. CASE UNCHANGED vars
  BY <1>5 DEF vars, runtimeVars
<1> QED BY <1>0, <1>1, <1>2, <1>3, <1>4, <1>5, StepKinds, RuntimeMoves

(* An intent signs one commit of a history, only after it was frozen, and  *)
(* none as long as its candidate is not the branch's.                      *)
Branches == {head, side} \ {None}

Distinct(c) == \A k, n \in DOMAIN c : c[k].by # User /\ c[n].by = c[k].by => n = k

Known(c, d, l) ==
    \A k \in DOMAIN c : c[k].by # User =>
        /\ c[k].by \in DOMAIN d
        /\ \A p \in Publishers : l[p].pc \in Fresh \cup {"cas"} => c[k].by # l[p].intent

Authors == \A b \in Branches : Distinct(b) /\ Known(b, done, loc)

(* What is known of a commit stays known.                                  *)
LEMMA KnownStays ==
  ASSUME Control, [Next]_vars
  PROVE  \A c \in Seq(Version) : Known(c, done, loc) => Known(c, done', loc')
<1>0. TypeOK
  BY DEF Control
<1>1. DOMAIN done \subseteq DOMAIN done'
  BY RuntimeGrows
<1>2. ASSUME NEW p \in Publishers, Shaped(p), NEW c \in Seq(Version), Known(c, done, loc)
      PROVE  Known(c, done', loc')
  <2>1. Moved(p) /\ Reached(p)
    BY <1>0, <1>2, Moves, Reaches
  <2>2. SUFFICES ASSUME NEW k \in DOMAIN c, c[k].by # User, NEW q \in Publishers,
                        loc'[q].pc \in Fresh \cup {"cas"}
                 PROVE  c[k].by # loc'[q].intent
    BY <1>1, <1>2 DEF Known
  <2>3. CASE q = p /\ Freeze(p)
    <3>1. loc'[p].intent \notin DOMAIN done
      BY <1>0, <2>3, FreezeFacts
    <3> QED BY <1>2, <2>2, <2>3, <3>1 DEF Known
  <2>4. CASE ~(q = p /\ Freeze(p))
    <3>1. loc[q].pc \in Fresh \cup {"cas"} /\ loc'[q].intent = loc[q].intent
      BY <2>1, <2>2, <2>4 DEF Moved, Reached, Pc
    <3> QED BY <1>2, <2>2, <3>1 DEF Known
  <2> QED BY <2>3, <2>4
<1>3. CASE UNCHANGED loc
  BY <1>1, <1>3 DEF Known
<1>4. UserNext => UNCHANGED loc
  BY <1>0, UserTypes DEF Mine
<1>5. (\E row \in scope.rows : AppendMutation(row)) \/ UNCHANGED vars => UNCHANGED loc
  BY DEF AppendMutation, vars
<1> QED BY <1>0, <1>2, <1>3, <1>4, <1>5, StepKinds

(* A commit on top of a history: what it holds and who signed it.          *)
LEMMA GrownCommit ==
  ASSUME NEW c \in Seq(Version), NEW v \in Version
  PROVE  /\ DOMAIN Append(c, v) = DOMAIN c \cup {Len(c) + 1} /\ Append(c, v)[Len(c) + 1] = v
         /\ Len(Append(c, v)) = Len(c) + 1 /\ Len(c) + 1 \notin DOMAIN c
         /\ \A k \in DOMAIN c : Append(c, v)[k] = c[k]
         /\ \A a \in Seq(Version) : HasCommit(Append(c, v), a) => HasCommit(c, a) \/ a = Append(c, v)
<1> DEFINE d == Append(c, v)
<1>1. d \in Seq(Version) /\ Len(d) = Len(c) + 1 /\ d[Len(c) + 1] = v
      /\ \A i \in 1..Len(c) : d[i] = c[i]
  OBVIOUS
<1>2. DOMAIN d = DOMAIN c \cup {Len(c) + 1} /\ DOMAIN c = 1..Len(c) /\ Len(c) \in Nat
  BY <1>1
<1> HIDE DEF d
<1>3. ASSUME NEW a \in Seq(Version), HasCommit(d, a) PROVE HasCommit(c, a) \/ a = d
  <2>1. Len(a) <= Len(d) /\ \A i \in 1..Len(a) : a[i] = d[i]
    BY <1>1, <1>3, PrefixPointwise DEF HasCommit
  <2>2. CASE Len(a) = Len(d)
    BY <1>1, <2>1, <2>2, SeqEqual
  <2>3. CASE Len(a) # Len(d)
    <3>1. Len(a) <= Len(c) /\ \A i \in 1..Len(a) : a[i] = c[i]
      BY <1>1, <2>1, <2>3
    <3> QED BY <3>1, PrefixPointwise DEF HasCommit
  <2> QED BY <2>2, <2>3
<1> QED BY <1>1, <1>2, <1>3 DEF d

(* A version with a new author keeps the authors distinct.                 *)
LEMMA GrownDistinct ==
  ASSUME NEW c \in Seq(Version), NEW v \in Version, Distinct(c),
         v.by # User => \A k \in DOMAIN c : c[k].by # v.by
  PROVE  Distinct(Append(c, v))
  BY GrownCommit DEF Distinct

(* So does dropping the last one.                                          *)
LEMMA FrontAuthors ==
  ASSUME NEW c \in Commits, Len(c) > 1, NEW d, NEW l
  PROVE  /\ Distinct(c) => Distinct(Front(c))
         /\ Known(c, d, l) => Known(Front(c), d, l)
<1>1. c \in Seq(Version)
  BY TipContent
<1>2. DOMAIN Front(c) \subseteq DOMAIN c /\ \A k \in DOMAIN Front(c) : Front(c)[k] = c[k]
  BY <1>1 DEF Front
<1> QED BY <1>2 DEF Distinct, Known

(* The commit of a publication is signed with an intent no commit of the   *)
(* branch is signed with.                                                  *)
LEMMA AdvanceSigned ==
  ASSUME Control, Signed, Authors, NEW p \in Publishers, Advances(p)
  PROVE  \E v \in Version :
           /\ head' = Append(head, v) /\ v.by = loc[p].intent /\ v.by # User
           /\ Tip(head') = v.rows /\ v.by \in DOMAIN done
           /\ \A k \in DOMAIN head : head[k].by # v.by
<1>1. Child(head, head') /\ head' = loc[p].cand /\ Pc(p) = "cas"
  BY DEF Advances, Control, Candidates, Pc
<1> DEFINE v == head'[Len(head')]
<1>2. head \in Seq(Version) /\ v \in Version /\ head' = Append(head, v) /\ head' # <<>>
  BY <1>1, TipContent DEF Child
<1>3. v.by = loc[p].intent
  BY <1>1, <1>2 DEF Signed
<1>4. loc[p].intent \in DOMAIN done /\ loc[p].intent \in Nat
  BY <1>1 DEF Control, Intents, IntentOf, TypeOK, Memory
<1>5. v.by # User
  BY <1>3, <1>4, AbsenceAssumption
<1>6. \A k \in DOMAIN head : head[k].by # v.by
  <2>1. head \in Branches
    BY <1>1, AbsenceAssumption DEF Branches, Child
  <2>2. Known(head, done, loc)
    BY <2>1 DEF Authors
  <2> QED BY <1>1, <1>3, <1>5, <2>2 DEF Known, Pc
<1> QED BY <1>2, <1>3, <1>4, <1>5, <1>6 DEF Tip

(* Authors is inductive.                                                   *)
LEMMA NextAuthors ==
  ASSUME Control, Control', Signed, Authors, [Next]_vars PROVE Authors'
<1>0. /\ TypeOK /\ head \in Commits /\ head \in Seq(Version) /\ head # None /\ idx \in Content
      /\ side # None => side \in Commits /\ side \in Seq(Version)
  BY TipContent, AbsenceAssumption DEF Control, TypeOK
<1>1. /\ Distinct(head) /\ Known(head, done', loc')
      /\ side # None => Distinct(side) /\ Known(side, done', loc')
  BY <1>0, KnownStays DEF Authors, Branches
<1>2. SUFFICES /\ Distinct(head') /\ Known(head', done', loc')
               /\ side' # None => Distinct(side') /\ Known(side', done', loc')
  BY DEF Authors, Branches, Distinct, Known
<1>3. ASSUME UNCHANGED <<head, side>>
      PROVE  /\ Distinct(head') /\ Known(head', done', loc')
             /\ side' # None => Distinct(side') /\ Known(side', done', loc')
  BY <1>1, <1>3
<1>4. ASSUME NEW p \in Publishers, Shaped(p)
      PROVE  /\ Distinct(head') /\ Known(head', done', loc')
             /\ side' # None => Distinct(side') /\ Known(side', done', loc')
  <2>1. CASE Advances(p)
    <3>1. PICK v \in Version :
            /\ head' = Append(head, v) /\ v.by = loc[p].intent /\ v.by # User
            /\ v.by \in DOMAIN done /\ \A k \in DOMAIN head : head[k].by # v.by
      BY <2>1, AdvanceSigned
    <3>2. UNCHANGED side /\ UNCHANGED done /\ loc'[p].pc = "confirm"
          /\ \A q \in Publishers \ {p} : loc'[q] = loc[q]
      BY <1>0, <2>1, GotoMoves DEF Advances, runtimeVars, Steps
    <3>3. \A q \in Publishers : loc'[q].pc \in Fresh \cup {"cas"} => v.by # loc'[q].intent
      <4>1. Pc(p) \in Holding
        BY <2>1 DEF Advances, Holding
      <4>2. ASSUME NEW q \in Publishers, q # p, Pc(q) \in Fresh \cup {"cas"} PROVE v.by # loc[q].intent
        <5>1. Pc(q) # "cas"
          BY <4>1, <4>2, OneReconciler DEF Holding
        <5> QED BY <3>1, <4>2, <5>1 DEF Control, Intents, IntentOf
      <4> QED BY <3>2, <4>2 DEF Fresh, Pc
    <3>4. Known(head', done', loc')
      BY <1>0, <1>1, <3>1, <3>2, <3>3, GrownCommit DEF Known
    <3> QED BY <1>0, <1>1, <3>1, <3>2, <3>4, GrownDistinct
  <2>2. CASE ~Advances(p)
    BY <1>3, <1>4, <2>2, GitMoves DEF gitVars, InstallsStore, InstallsIndex
  <2> QED BY <2>1, <2>2
<1>5. CASE UserNext
  <2>1. ASSUME NEW rows \in Content, head' = Append(head, [rows |-> rows, by |-> User])
        PROVE  Distinct(head') /\ Known(head', done', loc')
    <3> DEFINE v == [rows |-> rows, by |-> User]
    <3>1. v \in Version /\ v.by = User
      BY DEF Version
    <3>2. head' = Append(head, v)
      BY <2>1
    <3> HIDE DEF v
    <3> QED BY <1>0, <1>1, <3>1, <3>2, GrownCommit, GrownDistinct DEF Known
  <2>2. CASE EditWorktree \/ GitAdd \/ GitCommitStart
    BY <1>3, <2>2 DEF EditWorktree, GitAdd, GitCommitStart, gitVars
  <2>3. CASE GitCommitEnd
    BY <1>0, <1>1, <2>1, <2>3 DEF GitCommitEnd
  <2>4. CASE GitRevert
    <3>1. Tip(Front(head)) \in Content
      BY <1>0, <2>4, FrontCommit, TipContent DEF GitRevert
    <3> QED BY <1>0, <1>1, <2>1, <2>4, <3>1 DEF GitRevert
  <2>5. CASE GitResetSoft
    BY <1>0, <1>1, <2>5, FrontAuthors DEF GitResetSoft
  <2>6. CASE GitBranch
    BY <1>1, <2>6 DEF GitBranch
  <2>7. CASE GitSwitch
    BY <1>1, <2>7 DEF GitSwitch
  <2> QED BY <1>5, <2>2, <2>3, <2>4, <2>5, <2>6, <2>7 DEF UserNext
<1>6. CASE (\E row \in scope.rows : AppendMutation(row)) \/ UNCHANGED vars
  BY <1>3, <1>6 DEF AppendMutation, vars, gitVars
<1> QED BY <1>0, <1>4, <1>5, <1>6, StepKinds

(* Nobody has signed anything initially.                                   *)
LEMMA InitSigned ==
  ASSUME Init PROVE LockHeld /\ Signed /\ Adding /\ Authors
<1>1. \A p \in Publishers : Pc(p) = "idle" /\ loc[p].cand = <<>>
  BY IdleMemory DEF Init, Pc
<1>2. journal = None /\ side = None /\ head = <<[rows |-> {}, by |-> User]>>
  BY DEF Init
<1>3. \A k \in DOMAIN head : head[k].by = User
  BY <1>2
<1> QED BY <1>1, <1>2, <1>3 DEF LockHeld, Locking, Signed, Adding, Staged, Built, Authors, Branches,
        Distinct, Known

(* An intent signs at most one commit of any branch, and only once its     *)
(* candidate has been published: no commit is made twice for one frozen    *)
(* range (advance_current_ref_bound).                                      *)
THEOREM IntentsSignOnce == Spec => []Authors
<1>1. Init => Control /\ Signed /\ Authors
  BY InitControl, InitSigned
<1>2. Control /\ Signed /\ Authors /\ [Next]_vars => (Control /\ Signed /\ Authors)'
  BY NextControl, NextSigned, NextAuthors
<1> QED BY <1>1, <1>2, PTL DEF Spec

-----------------------------------------------------------------------------
(* The worktree.                                                           *)

SameRows(a, b) == \A r \in Rows : r \in a <=> r \in b
Agree(c) == SameRows(Tip(c), idx) /\ SameRows(idx, wt)

(* HEAD, the index and the worktree hold the same rows unless a journal    *)
(* says that they may not yet.  An index that has followed was preceded by *)
(* the worktree, and the captured index of a candidate that a branch holds *)
(* held the rows of its base.                                              *)
Agreement ==
    Without({"reset"}) /\ ~spoiled =>
        /\ Agree(head) \/ Torn(head)
        /\ Staged(Early) =>
             /\ SameRows(idx, Tip(journal.new)) => SameRows(wt, Tip(journal.new))
             /\ BranchContains(journal.new) => SameRows(journal.index, Tip(journal.old))
        /\ \A p \in Publishers :
             /\ Pc(p) = "index" => SameRows(wt, Tip(journal.new))
             /\ Pc(p) \in {"confirm", "advance", "store", "index"} /\ loc[p].mode = "publish"
                  => idx = journal.index

(* Nobody disturbs the holder of the coordination lock but the person.     *)
LEMMA HolderUndisturbed ==
  ASSUME Control, NEW p \in Publishers, Shaped(p), NEW q \in Publishers, q # p, Pc(q) \in Holding
  PROVE  UNCHANGED <<gitVars, journal>> /\ loc'[q] = loc[q]
<1>1. TypeOK /\ coord = q /\ q # None
  BY PublicationAssumption DEF Control, Exclusive
<1>2. Pc(p) \notin Holding
  BY OneReconciler
<1>3. UNCHANGED gitVars
  BY <1>1, GitMoves
<1>4. UNCHANGED journal
  <2>1. JournalMoved(p)
    BY JournalMoves
  <2> QED BY <1>1, <1>2, <2>1 DEF JournalMoved, Discards, Abandons, ClearJournal, Prepares, Marks,
          Holding, Pc
<1> QED BY <1>1, <1>3, <1>4, Moves DEF Moved

(* The candidate that is about to be written to the journal is on no       *)
(* branch.                                                                 *)
LEMMA CandidateIsNew ==
  ASSUME Control, Signed, Authors, NEW p \in Publishers, Pc(p) \in {"prepare", "cas"}
  PROVE  ~BranchContains(loc[p].cand)
<1>1. /\ loc[p].cand \in Commits /\ loc[p].cand \in Seq(Version) /\ loc[p].cand # <<>>
      /\ Len(loc[p].cand) \in 1..Len(loc[p].cand)
  BY TipContent DEF Control, Candidates, Child
<1>2. loc[p].intent \in Nat
  BY DEF Control, Intents, IntentOf, Fresh, TypeOK, Memory
<1>3. SUFFICES ASSUME NEW b \in Branches, HasCommit(b, loc[p].cand) PROVE FALSE
  BY DEF BranchContains, Branches
<1>4. b \in Seq(Version) /\ Known(b, done, loc)
  BY TipContent DEF Authors, Branches, Control, TypeOK
<1>5. Len(loc[p].cand) \in DOMAIN b /\ b[Len(loc[p].cand)] = loc[p].cand[Len(loc[p].cand)]
  BY <1>1, <1>3, <1>4, PrefixPointwise DEF HasCommit
<1>6. loc[p].cand[Len(loc[p].cand)].by = loc[p].intent
  BY <1>1 DEF Signed
<1> QED BY <1>2, <1>4, <1>5, <1>6, AbsenceAssumption DEF Known, Fresh, Pc

(* What a publisher's step does to the agreement of the three.             *)
LEMMA PublisherAgrees ==
  ASSUME Control, Agreement, Without({"reset"}), ~spoiled, ~spoiled', NEW p \in Publishers, Shaped(p)
  PROVE  Agree(head)' \/ Torn(head)'
<1> USE DEF Pc
<1>1. Agree(head) \/ Torn(head)
  BY DEF Agreement
<1>2. CASE InstallsIndex(p)
  <2>1. SameRows(wt, Tip(journal.new))
    BY <1>2 DEF Agreement, InstallsIndex
  <2>2. head' = head /\ head = journal.new /\ idx' = Tip(journal.new) /\ wt' = wt
    BY <1>2 DEF InstallsIndex
  <2>3. Tip(head') = Tip(journal.new)
    BY <2>2
  <2> QED BY <2>1, <2>2, <2>3 DEF Agree, SameRows, Tip
<1>3. CASE Advances(p) \/ InstallsStore(p)
  BY <1>3, GitTorn DEF Torn, Unreconciled, Early
<1>4. CASE ~(InstallsIndex(p) \/ Advances(p) \/ InstallsStore(p))
  <2>1. UNCHANGED <<head, idx, wt>>
    BY <1>4, GitMoves DEF gitVars
  <2>2. CASE Torn(head)
    <3>1. /\ journal' # None /\ journal'.stage \in Early /\ journal'.new = journal.new
          /\ \A q \in Publishers : loc'[q].pc # "indexed"
      BY <1>4, <2>2, TornKept DEF Torn, Unreconciled, Early
    <3> QED BY <2>1, <2>2, <3>1 DEF Torn, Unreconciled, Early
  <2>3. CASE Agree(head)
    BY <2>1, <2>3 DEF Agree, Tip, SameRows
  <2> QED BY <1>1, <2>2, <2>3
<1> QED BY <1>2, <1>3, <1>4

(* The person's, if the branch is not reset.                               *)
LEMMA PersonAgrees ==
  ASSUME Control, Without({"reset"}), Agree(head) \/ Torn(head), UserNext
  PROVE  Agree(head)' \/ Torn(head)'
<1> USE DEF SameRows
<1>0. /\ TypeOK /\ head \in Commits /\ head \in Seq(Version) /\ idx \in Content /\ UNCHANGED <<journal, loc>>
      /\ journal # None => journal.new \in Seq(Version)
  BY TipContent, UserTypes DEF Control, TypeOK, Mine, Journals
<1>1. ASSUME NEW rows \in Content, head' = Append(head, [rows |-> rows, by |-> User])
      PROVE  Tip(head') = rows /\ (Torn(head) => Torn(head)')
  <2>1. [rows |-> rows, by |-> User] \in Version
    BY DEF Version
  <2>2. Tip(head') = rows /\ \A a \in Seq(Version) : HasCommit(head, a) => HasCommit(head', a)
    BY <1>0, <1>1, <2>1, ChildCommit
  <2> QED BY <1>0, <2>2 DEF Torn, Unreconciled, Pc
<1>2. CASE EditWorktree
  <2>1. \A r \in Rows : r \in wt' <=> r \in wt
    BY <1>2, PublicationAssumption DEF EditWorktree
  <2> QED BY <1>0, <1>2, <2>1 DEF EditWorktree, Agree, Tip, Torn, Unreconciled, Pc
<1>3. CASE GitAdd
  BY <1>0, <1>3 DEF GitAdd, Agree, Tip, Torn, Unreconciled, Pc
<1>4. CASE GitCommitStart \/ GitBranch
  BY <1>0, <1>4 DEF GitCommitStart, GitBranch, gitVars, Agree, Tip, Torn, Unreconciled, Pc
<1>5. CASE GitCommitEnd
  <2>1. Tip(head') = idx /\ (Torn(head) => Torn(head)') /\ UNCHANGED <<idx, wt>>
    BY <1>0, <1>1, <1>5 DEF GitCommitEnd
  <2> QED BY <2>1 DEF Agree, Tip
<1>6. CASE GitRevert
  <2>1. Tip(Front(head)) \in Content
    BY <1>0, <1>6, FrontCommit, TipContent DEF GitRevert
  <2>2. Tip(head') = Tip(Front(head)) /\ idx' = Tip(Front(head)) /\ wt' = idx'
    BY <1>1, <1>6, <2>1 DEF GitRevert
  <2>3. Tip(head') = idx' /\ wt' = idx'
    BY <2>2
  <2> QED BY <2>3 DEF Agree, Tip
<1>7. CASE GitSwitch
  <2>1. Tip(head') = idx' /\ wt' = idx'
    BY <1>7 DEF GitSwitch
  <2> QED BY <2>1 DEF Agree, Tip
<1>8. CASE GitResetSoft
  BY <1>8 DEF GitResetSoft, UserStep, Without
<1> QED BY <1>2, <1>3, <1>4, <1>5, <1>6, <1>7, <1>8 DEF UserNext

(* A person's commit brings no candidate to a branch.                      *)
LEMMA PersonBringsNoCandidate ==
  ASSUME Control, Signed, Without({"reset"}), UserNext, journal # None, BranchContains(journal.new)'
  PROVE  BranchContains(journal.new)
<1>0. /\ TypeOK /\ head \in Commits /\ head \in Seq(Version) /\ idx \in Content /\ UNCHANGED journal
      /\ journal.new \in Seq(Version) /\ journal.new # <<>> /\ journal.intent \in Nat /\ head # None
      /\ side # None => side \in Seq(Version)
  BY TipContent, UserTypes, AbsenceAssumption DEF Control, TypeOK, Mine, Journals
<1>1. PICK b \in {head', side'} \ {None} : HasCommit(b, journal.new)
  BY <1>0 DEF BranchContains
<1>2. ASSUME NEW rows \in Content, head' = Append(head, [rows |-> rows, by |-> User]), side' = side
      PROVE  BranchContains(journal.new)
  <2> DEFINE v == [rows |-> rows, by |-> User]
  <2>1. v \in Version /\ v.by = User /\ head' = Append(head, v)
    BY <1>2 DEF Version
  <2> HIDE DEF v
  <2>2. CASE b = side
    BY <1>1, <2>2 DEF BranchContains
  <2>3. CASE b = head'
    <3>1. HasCommit(head, journal.new) \/ journal.new = head'
      BY <1>0, <1>1, <2>1, <2>3, GrownCommit
    <3>2. journal.new # head'
      <4>1. head'[Len(head')].by = User
        BY <1>0, <2>1, ChildCommit
      <4> QED BY <1>0, <4>1, AbsenceAssumption DEF Signed
    <3> QED BY <1>0, <3>1, <3>2 DEF BranchContains
  <2> QED BY <1>1, <1>2, <2>2, <2>3
<1>3. CASE EditWorktree \/ GitAdd \/ GitCommitStart
  BY <1>1, <1>3 DEF EditWorktree, GitAdd, GitCommitStart, gitVars, BranchContains
<1>4. CASE GitCommitEnd
  BY <1>0, <1>2, <1>4 DEF GitCommitEnd
<1>5. CASE GitRevert
  <2>1. Tip(Front(head)) \in Content
    BY <1>0, <1>5, FrontCommit, TipContent DEF GitRevert
  <2> QED BY <1>2, <1>5, <2>1 DEF GitRevert
<1>6. CASE GitBranch
  BY <1>1, <1>6 DEF GitBranch, BranchContains
<1>7. CASE GitSwitch
  BY <1>1, <1>7 DEF GitSwitch, BranchContains
<1>8. CASE GitResetSoft
  BY <1>8 DEF GitResetSoft, UserStep, Without
<1> QED BY <1>3, <1>4, <1>5, <1>6, <1>7, <1>8 DEF UserNext

(* An early journal, after a step of a publisher.                          *)
LEMMA PublisherEarly ==
  ASSUME Control, Signed, Authors, Agreement, Without({"reset"}), ~spoiled,
         NEW p \in Publishers, Shaped(p), journal' # None, journal'.stage \in Early
  PROVE  /\ SameRows(idx', Tip(journal'.new)) => SameRows(wt', Tip(journal'.new))
         /\ BranchContains(journal.new)' => SameRows(journal'.index, Tip(journal'.old))
<1> USE DEF Pc, SameRows
<1>0. TypeOK /\ head \in Commits /\ head \in Seq(Version)
  BY TipContent DEF Control, TypeOK
<1>1. Agree(head) \/ Torn(head)
  BY DEF Agreement
<1>2. journal # None /\ journal.stage \in Early =>
        /\ SameRows(idx, Tip(journal.new)) => SameRows(wt, Tip(journal.new))
        /\ BranchContains(journal.new) => SameRows(journal.index, Tip(journal.old))
  BY DEF Agreement, Staged
<1>3. CASE Advances(p)
  <2>1. /\ journal # None /\ journal.stage = "Prepared" /\ journal.new = head' /\ UNCHANGED <<journal, idx, wt>>
        /\ idx = loc[p].index /\ head = loc[p].base
    BY <1>3, AdvanceFacts DEF Advances
  <2>2. journal.index = loc[p].index /\ journal.old = loc[p].base /\ journal.new = loc[p].cand
    BY <1>3 DEF Advances, Control, JournalFollows, Own, JournalOf
  <2>3. ~HasCommit(head, journal.new)
    <3>1. ~BranchContains(loc[p].cand)
      BY <1>3, CandidateIsNew DEF Advances
    <3> QED BY <1>0, <2>2, <3>1, AbsenceAssumption DEF BranchContains
  <2>4. Agree(head)
    BY <1>1, <2>3 DEF Torn, Unreconciled
  <2> QED BY <1>2, <2>1, <2>2, <2>4 DEF Agree, Early
<1>4. CASE InstallsStore(p)
  BY <1>2, <1>4 DEF InstallsStore, BranchContains
<1>5. CASE InstallsIndex(p)
  <2>1. SameRows(wt, Tip(journal.new))
    BY <1>5 DEF Agreement, InstallsIndex
  <2> QED BY <1>2, <1>5, <2>1 DEF InstallsIndex, BranchContains
<1>6. CASE ~(Advances(p) \/ InstallsStore(p) \/ InstallsIndex(p))
  <2>1. UNCHANGED <<head, side, idx, wt>>
    BY <1>6, GitMoves DEF gitVars
  <2>2. JournalMoved(p)
    BY JournalMoves
  <2>3. CASE Prepares(p)
    <3>1. journal = None /\ journal'.new = loc[p].cand
      BY <2>3, WroteFacts DEF Prepares, Control, JournalFollows, StageAt, Stages
    <3>2. Agree(head)
      BY <1>1, <3>1 DEF Torn, Unreconciled
    <3>3. ~BranchContains(loc[p].cand)
      BY <2>3, CandidateIsNew DEF Prepares
    <3>4. ~BranchContains(journal.new)'
      BY <2>1, <3>1, <3>3 DEF BranchContains
    <3> QED BY <2>1, <3>2, <3>4 DEF Agree
  <2>4. CASE ~Prepares(p)
    <3>1. /\ journal # None /\ journal.stage \in Early /\ journal'.new = journal.new
          /\ journal'.old = journal.old /\ journal'.index = journal.index
      BY <2>2, <2>4 DEF JournalMoved, Discards, Abandons, ClearJournal, Early
    <3> QED BY <1>2, <2>1, <3>1 DEF BranchContains, Tip
  <2> QED BY <2>3, <2>4
<1> QED BY <1>3, <1>4, <1>5, <1>6

(* Agreement is inductive.                                                 *)
LEMMA NextAgreement ==
  ASSUME Control, LockHeld, Signed, Authors, Agreement, [Next]_vars PROVE Agreement'
<1> USE DEF Pc
<1>1. SUFFICES ASSUME Without({"reset"}), ~spoiled'
      PROVE  /\ Agree(head)' \/ Torn(head)'
             /\ journal' # None /\ journal'.stage \in Early =>
                  /\ SameRows(idx', Tip(journal'.new)) => SameRows(wt', Tip(journal'.new))
                  /\ BranchContains(journal.new)' => SameRows(journal'.index, Tip(journal'.old))
             /\ \A q \in Publishers :
                  /\ loc'[q].pc = "index" => SameRows(wt', Tip(journal'.new))
                  /\ loc'[q].pc \in {"confirm", "advance", "store", "index"} /\ loc'[q].mode = "publish"
                       => idx' = journal'.index
  BY ScopeFixed DEF Agreement, Without, Staged, SameRows, Tip
<1>2. TypeOK /\ ~spoiled
  BY <1>1, Spoils DEF Control
<1>3. /\ Agree(head) \/ Torn(head)
      /\ journal # None /\ journal.stage \in Early =>
           /\ SameRows(idx, Tip(journal.new)) => SameRows(wt, Tip(journal.new))
           /\ BranchContains(journal.new) => SameRows(journal.index, Tip(journal.old))
      /\ \A q \in Publishers :
           /\ Pc(q) = "index" => SameRows(wt, Tip(journal.new))
           /\ Pc(q) \in {"confirm", "advance", "store", "index"} /\ loc[q].mode = "publish"
                => idx = journal.index
  BY <1>1, <1>2 DEF Agreement, Staged
<1>4. ASSUME NEW p \in Publishers, Shaped(p), NEW q \in Publishers
      PROVE  /\ loc'[q].pc = "index" => SameRows(wt', Tip(journal'.new))
             /\ loc'[q].pc \in {"confirm", "advance", "store", "index"} /\ loc'[q].mode = "publish"
                  => idx' = journal'.index
  <2>1. Moved(p) /\ Reached(p)
    BY <1>2, <1>4, Moves, Reaches
  <2>2. CASE q # p /\ Pc(q) \in Holding
    <3>1. UNCHANGED <<gitVars, journal>> /\ loc'[q] = loc[q]
      BY <1>4, <2>2, HolderUndisturbed
    <3> QED BY <1>3, <3>1 DEF gitVars
  <2>3. CASE q # p /\ Pc(q) \notin Holding
    BY <2>1, <2>3 DEF Moved, Holding
  <2>4. CASE q = p
    <3>1. loc'[p].pc = "index" => SameRows(wt', Tip(journal'.new))
      BY <2>1 DEF Moved, InstallsStore, SameRows
    <3>2. loc'[p].pc = "confirm" => idx' = journal'.index
      <4>1. Advances(p) => /\ UNCHANGED <<idx, journal>> /\ idx = loc[p].index
                           /\ journal.index = loc[p].index
        BY DEF Advances, Control, JournalFollows, Own, JournalOf
      <4> QED BY <2>1, <4>1 DEF Reached
    <3>3. loc'[p].pc \in {"advance", "store", "index"} /\ loc'[p].mode = "publish" => idx' = journal'.index
      BY <1>3, <2>1 DEF Reached
    <3> QED BY <2>4, <3>1, <3>2, <3>3
  <2> QED BY <2>2, <2>3, <2>4
<1>5. CASE UserNext
  <2>0. UNCHANGED <<journal, loc>>
    BY <1>2, <1>5, UserTypes DEF Mine
  <2>1. Agree(head)' \/ Torn(head)'
    BY <1>1, <1>3, <1>5, PersonAgrees
  <2>2. EditWorktree => \A r \in Rows : r \in wt' <=> r \in wt
    BY PublicationAssumption DEF EditWorktree
  <2>3. journal' # None /\ journal'.stage \in Early =>
          (SameRows(idx', Tip(journal'.new)) => SameRows(wt', Tip(journal'.new)))
    <3>1. \/ idx' = idx /\ \A r \in Rows : r \in wt' <=> r \in wt
          \/ idx' = wt'
      <4>1. EditWorktree => UNCHANGED idx
        BY DEF EditWorktree
      <4>2. GitAdd \/ GitRevert \/ GitSwitch => idx' = wt'
        BY DEF GitAdd, GitRevert, GitSwitch
      <4>3. GitCommitStart \/ GitCommitEnd \/ GitBranch \/ GitResetSoft => UNCHANGED <<idx, wt>>
        BY DEF GitCommitStart, GitCommitEnd, GitBranch, GitResetSoft, gitVars
      <4> QED BY <1>5, <2>2, <4>1, <4>2, <4>3 DEF UserNext
    <3> QED BY <1>3, <2>0, <3>1 DEF SameRows
  <2>4. journal' # None /\ journal'.stage \in Early /\ BranchContains(journal.new)'
          => SameRows(journal'.index, Tip(journal'.old))
    BY <1>1, <1>3, <1>5, <2>0, PersonBringsNoCandidate
  <2>5. ASSUME NEW q \in Publishers
        PROVE  /\ loc'[q].pc = "index" => SameRows(wt', Tip(journal'.new))
               /\ loc'[q].pc \in {"confirm", "advance", "store", "index"} /\ loc'[q].mode = "publish"
                    => idx' = journal'.index
    <3>1. CASE Pc(q) \in Locking
      <4>1. EditWorktree \/ GitBranch \/ GitResetSoft
        BY <1>5, <3>1, UserHindered DEF LockHeld
      <4>2. UNCHANGED idx /\ \A r \in Rows : r \in wt' <=> r \in wt
        BY <2>2, <4>1 DEF EditWorktree, GitBranch, GitResetSoft
      <4> QED BY <1>3, <2>0, <4>2 DEF SameRows
    <3>2. CASE Pc(q) \notin Locking
      BY <2>0, <3>2 DEF Locking
    <3> QED BY <3>1, <3>2
  <2> QED BY <2>1, <2>3, <2>4, <2>5
<1>6. CASE (\E row \in scope.rows : AppendMutation(row)) \/ UNCHANGED vars
  <2>1. UNCHANGED <<head, side, idx, wt, journal, loc>>
    BY <1>6 DEF AppendMutation, vars, gitVars
  <2> QED BY <1>3, <2>1 DEF Agree, Torn, Unreconciled, BranchContains, SameRows, Tip
<1>7. ASSUME NEW p \in Publishers, Shaped(p)
      PROVE  /\ Agree(head)' \/ Torn(head)'
             /\ journal' # None /\ journal'.stage \in Early =>
                  /\ SameRows(idx', Tip(journal'.new)) => SameRows(wt', Tip(journal'.new))
                  /\ BranchContains(journal.new)' => SameRows(journal'.index, Tip(journal'.old))
  BY <1>1, <1>2, <1>7, PublisherAgrees, PublisherEarly
<1> QED BY <1>2, <1>4, <1>5, <1>6, <1>7, StepKinds

(* Initially there are no rows.                                            *)
LEMMA InitAgreement ==
  ASSUME Init PROVE Agreement
<1>1. \A p \in Publishers : Pc(p) = "idle"
  BY IdleMemory DEF Init, Pc
<1>2. journal = None /\ Tip(head) = {} /\ idx = {} /\ wt = {}
  BY DEF Init, Tip
<1> QED BY <1>1, <1>2 DEF Agreement, Agree, SameRows, Staged

(* WorktreeEditKept, step by step.                                         *)
LEMMA EditKept ==
  ASSUME Control, Adding, Agreement, [Next]_vars, Without({"reset"}), ~spoiled, OrnaStep,
         Human \in wt, Human \notin idx
  PROVE  Human \in wt'
<1> USE DEF Pc, SameRows
<1>0. TypeOK /\ users \in Nat /\ head \in Commits /\ head # None
  BY AbsenceAssumption DEF Control, TypeOK
<1>1. ASSUME NEW p \in Publishers, InstallsStore(p) PROVE Human \in Tip(journal.new)
  <2>1. /\ head = journal.new /\ wt \in {journal.index, Tip(journal.new)} /\ loc[p].pc = "store"
        /\ loc[p].mode = "recover" => idx \in {journal.index, Tip(journal.new)}
    BY <1>1 DEF InstallsStore, StoreReconcilable
  <2>2. journal # None /\ journal.stage \in Early
    BY <2>1 DEF Control, JournalFollows, StageAt, Staged, Early
  <2>3. SUFFICES ASSUME wt = journal.index, Human \notin Tip(journal.new) PROVE FALSE
    BY <2>1
  <2>4. loc[p].mode # "publish"
    BY <2>1, <2>3 DEF Agreement
  <2>5. idx = Tip(journal.new)
    BY <1>0, <2>1, <2>3, <2>4 DEF TypeOK, Memory
  <2>6. BranchContains(journal.new)
    BY <1>0, <2>1, HasCommitOrder, TipContent DEF BranchContains
  <2>7. SameRows(wt, Tip(journal.new)) /\ SameRows(journal.index, Tip(journal.old))
    BY <2>2, <2>5, <2>6 DEF Agreement, Staged
  <2>8. Adds(journal.old, journal.new)
    BY <2>2 DEF Adding, Staged
  <2> QED BY <2>3, <2>7, <2>8 DEF Adds
<1>2. ASSUME NEW p \in Publishers, Shaped(p) PROVE Human \in wt'
  BY <1>1, <1>2, GitMoves DEF gitVars, Advances, InstallsStore, InstallsIndex
<1>3. ~UserNext
  BY <1>0, UserTypes DEF OrnaStep
<1>4. CASE (\E row \in scope.rows : AppendMutation(row)) \/ UNCHANGED vars
  BY <1>4 DEF AppendMutation, vars, gitVars
<1> QED BY <1>0, <1>2, <1>3, <1>4, StepKinds

(* The rows of HEAD, of the index and of the worktree part only while a    *)
(* journal at an early stage names the commit HEAD contains, and only the  *)
(* publisher that holds index.lock brings them together again              *)
(* (reconcile_published_index_locked).                                     *)
THEOREM StoresAgree == Spec => []Agreement
<1> DEFINE Inv == Control /\ LockHeld /\ Signed /\ Authors /\ Agreement
<1>1. Init => Inv
  BY InitControl, InitSigned, InitAgreement
<1>2. Inv /\ [Next]_vars => Inv'
  BY NextControl, NextLockHeld, NextSigned, NextAuthors, NextAgreement
<1>3. Inv => Agreement
  OBVIOUS
<1> QED BY <1>1, <1>2, <1>3, PTL DEF Spec

(* Whoever publishes or recovers and whatever a person stages, commits,    *)
(* reverts or switches meanwhile, no step of Orna's overwrites an edit of  *)
(* a store file that is not staged (reconcile_store_worktree_transition).  *)
THEOREM EditsAreKept == Spec => WorktreeEditKept
<1> DEFINE Inv == Control /\ LockHeld /\ Signed /\ Authors /\ Adding /\ Agreement
<1>1. Init => Inv
  BY InitControl, InitSigned, InitAgreement
<1>2. Inv /\ [Next]_vars => Inv'
  BY NextControl, NextLockHeld, NextSigned, NextAuthors, NextAdding, NextAgreement
<1>3. Inv /\ [Next]_vars =>
        [Without({"reset"}) /\ ~spoiled /\ OrnaStep /\ Human \in wt /\ Human \notin idx
           => Human \in wt']_vars
  BY EditKept
<1> HIDE DEF Inv
<1> QED BY <1>1, <1>2, <1>3, PTL DEF Spec, WorktreeEditKept

-----------------------------------------------------------------------------
(* Every mutation is published once.                                       *)

Linear == Without({"reset", "switch"})

(* A mutation past the frozen bound of an intent.                          *)
Past(m, i) == m.seq > freezes[i]

(* The journal of an intent whose range the runtime may still hold.        *)
Owed(i) == journal # None /\ journal.intent = i /\ journal.stage \notin AtRuntime

PendingTail == pending \subseteq admitted /\ IsFiniteSet(admitted)

(* A mutation that intent i can account for the row r by, beyond every     *)
(* earlier commit that added the row.                                      *)
Backs(m, r, i) == m \in admitted /\ m.row = r /\ m.seq <= freezes[i]

(* Each commit that adds a row stands for a mutation of its own.           *)
Backed ==
    Linear /\ ~spoiled => \A r \in Rows : \A k \in Adders(head, r) :
        \E m \in admitted :
            /\ Backs(m, r, head[k].by)
            /\ \A j \in Adders(head, r) : j < k => Past(m, head[j].by)

(* A published intent is recorded, or the journal still names it.          *)
Accounted ==
    Linear /\ ~spoiled => \A k \in DOMAIN head : head[k].by # User =>
        /\ done[head[k].by] # None \/ (journal # None /\ journal.intent = head[k].by)
        /\ journal # None /\ journal.intent = head[k].by => HasCommit(head, journal.new)

(* The rows a candidate adds to the commit HEAD names are those of         *)
(* mutations that no commit stands for yet, or else of a publication whose *)
(* range is still to be consumed.                                          *)
Due(p) ==
    \A r \in Rows : r \in Tip(loc[p].cand) /\ r \notin Tip(loc[p].base) =>
        \E m \in admitted :
            /\ Backs(m, r, loc[p].intent)
            /\ \A j \in Adders(head, r) : Past(m, head[j].by) \/ Owed(head[j].by)

CandidatesDue ==
    Linear /\ ~spoiled => \A p \in Publishers : Pc(p) \in Built \cup {"cas"} =>
        HasCommit(head, loc[p].base) /\ (head = loc[p].base => Due(p))

(* PendingTail is inductive.                                               *)
LEMMA NextTail ==
  ASSUME Control, PendingTail, [Next]_vars PROVE PendingTail'
<1>0. TypeOK
  BY DEF Control
<1>1. ASSUME NEW p \in Publishers, RecoverRuntime(p) \/ ConsumeTail(p) \/ NoVisibleChange(p) PROVE PendingTail'
  <2>1. pending' \subseteq pending /\ UNCHANGED admitted
    BY <1>0, <1>1, RecordMoves, CompleteFacts
  <2> QED BY <2>1 DEF PendingTail
<1>2. ASSUME NEW p \in Publishers, Freeze(p) PROVE PendingTail'
  BY <1>2 DEF Freeze, PendingTail
<1>3. ASSUME NEW row \in scope.rows, AppendMutation(row) PROVE PendingTail'
  <2> DEFINE m == [seq |-> lastSeq + 1, row |-> row]
  <2>1. pending' = pending \cup {m} /\ admitted' = admitted \cup {m}
    BY <1>0, <1>3, AppendFacts
  <2> HIDE DEF m
  <2>2. IsFiniteSet(admitted \cup {m})
    BY FS_AddElement DEF PendingTail
  <2> QED BY <2>1, <2>2 DEF PendingTail
<1>4. CASE UNCHANGED <<pending, admitted>>
  BY <1>4 DEF PendingTail
<1>5. UserNext => UNCHANGED <<pending, admitted>>
  BY <1>0, UserTypes DEF Mine
<1>6. UNCHANGED vars => UNCHANGED <<pending, admitted>>
  BY DEF vars, runtimeVars
<1> QED BY <1>0, <1>1, <1>2, <1>3, <1>4, <1>5, <1>6, StepKinds, RuntimeMoves

(* How the branch moves when nobody resets or switches.                    *)
LEMMA HeadMoves ==
  ASSUME Control, [Next]_vars, Linear
  PROVE  \/ UNCHANGED head
         \/ \E v \in Version : head' = Append(head, v) /\ v.by = User
         \/ \E p \in Publishers : Advances(p)
<1>1. TypeOK /\ head \in Commits /\ idx \in Content
  BY DEF Control, TypeOK
<1>2. ASSUME NEW p \in Publishers, Shaped(p) PROVE UNCHANGED head \/ Advances(p)
  BY <1>2, GitMoves DEF gitVars, InstallsStore, InstallsIndex
<1>3. ASSUME NEW rows \in Content, head' = Append(head, [rows |-> rows, by |-> User])
      PROVE  \E v \in Version : head' = Append(head, v) /\ v.by = User
  <2>1. [rows |-> rows, by |-> User] \in Version
    BY DEF Version
  <2> QED BY <1>3, <2>1
<1>4. CASE UserNext
  <2>1. CASE EditWorktree \/ GitAdd \/ GitCommitStart \/ GitBranch
    BY <2>1 DEF EditWorktree, GitAdd, GitCommitStart, GitBranch, gitVars
  <2>2. CASE GitCommitEnd
    BY <1>1, <1>3, <2>2 DEF GitCommitEnd
  <2>3. CASE GitRevert
    <3>1. Tip(Front(head)) \in Content
      BY <1>1, <2>3, FrontCommit, TipContent DEF GitRevert
    <3> QED BY <1>3, <2>3, <3>1 DEF GitRevert
  <2>4. CASE GitResetSoft \/ GitSwitch
    BY <2>4 DEF GitResetSoft, GitSwitch, UserStep, Linear, Without
  <2> QED BY <1>4, <2>1, <2>2, <2>3, <2>4 DEF UserNext
<1>5. CASE (\E row \in scope.rows : AppendMutation(row)) \/ UNCHANGED vars
  BY <1>5 DEF AppendMutation, vars, gitVars
<1> QED BY <1>1, <1>2, <1>4, <1>5, StepKinds

(* The commits that add a row, when a commit is put on top.                *)
LEMMA AddersGrow ==
  ASSUME NEW c \in Commits, NEW v \in Version, NEW r
  PROVE  /\ Adders(c, r) \subseteq DOMAIN c /\ Adders(c, r) \subseteq Nat
         /\ \A k \in Adders(c, r) : c[k].by # User /\ r \in c[k].rows
         /\ \A k \in Adders(Append(c, v), r) :
              \/ k \in Adders(c, r) /\ Append(c, v)[k] = c[k] /\ k < Len(c) + 1
              \/ k = Len(c) + 1 /\ v.by # User /\ r \in v.rows /\ r \notin Tip(c)
<1> DEFINE d == Append(c, v)
<1>1. c \in Seq(Version) /\ c # <<>> /\ Len(c) \in Nat /\ Len(c) \in 1..Len(c)
  BY TipContent
<1>2. /\ d \in Seq(Version) /\ Len(d) = Len(c) + 1 /\ d[Len(c) + 1] = v
      /\ \A i \in 1..Len(c) : d[i] = c[i]
  BY <1>1
<1> HIDE DEF d
<1>3. Adders(c, r) \subseteq DOMAIN c /\ Adders(c, r) \subseteq Nat
      /\ \A k \in Adders(c, r) : c[k].by # User /\ r \in c[k].rows
  BY <1>1 DEF Adders
<1>4. ASSUME NEW k \in Adders(d, r)
      PROVE  \/ k \in Adders(c, r) /\ d[k] = c[k] /\ k < Len(c) + 1
             \/ k = Len(c) + 1 /\ v.by # User /\ r \in v.rows /\ r \notin Tip(c)
  <2>1. k \in 2..Len(d) /\ d[k].by # User /\ r \in d[k].rows /\ r \notin d[k - 1].rows
    BY <1>4 DEF Adders
  <2>2. CASE k = Len(c) + 1
    <3>1. k - 1 = Len(c) /\ d[k - 1] = c[Len(c)]
      BY <1>1, <1>2, <2>2
    <3> QED BY <1>2, <2>1, <2>2, <3>1 DEF Tip
  <2>3. CASE k # Len(c) + 1
    <3>1. k \in 2..Len(c) /\ d[k] = c[k] /\ d[k - 1] = c[k - 1] /\ k < Len(c) + 1
      BY <1>1, <1>2, <2>1, <2>3
    <3> QED BY <2>1, <3>1 DEF Adders
  <2> QED BY <2>2, <2>3
<1> QED BY <1>3, <1>4 DEF d

(* An author of HEAD's history is a frozen intent.                         *)
LEMMA HeadAuthors ==
  ASSUME Control, Authors
  PROVE  /\ Distinct(head) /\ Known(head, done, loc)
         /\ \A k \in DOMAIN head : head[k].by # User => head[k].by \in DOMAIN done
<1>1. head \in Branches
  BY AbsenceAssumption DEF Control, TypeOK, Branches
<1> QED BY <1>1 DEF Authors, Known

(* Accounted is inductive.                                                 *)
LEMMA NextAccounted ==
  ASSUME Control, Signed, Authors, Accounted, [Next]_vars PROVE Accounted'
<1>1. SUFFICES ASSUME Linear, ~spoiled', NEW k \in DOMAIN head', head'[k].by # User
      PROVE  /\ done'[head'[k].by] # None \/ (journal' # None /\ journal'.intent = head'[k].by)
             /\ journal' # None /\ journal'.intent = head'[k].by => HasCommit(head', journal'.new)
  BY ScopeFixed DEF Accounted, Linear, Without
<1>2. /\ TypeOK /\ ~spoiled /\ head \in Commits /\ head \in Seq(Version) /\ head # None
      /\ journal # None => journal.new \in Commits
  BY <1>1, Spoils, TipContent, AbsenceAssumption DEF Control, TypeOK, Journals
<1>3. \A c \in Commits : HasCommit(head, c) => HasCommit(head', c)
  BY <1>1, HeadGrows DEF Linear
<1>4. CASE \E p \in Publishers : Advances(p) /\ k \notin DOMAIN head
  <2>1. PICK p \in Publishers : Advances(p)
    BY <1>4
  <2>2. PICK v \in Version : head' = Append(head, v) /\ v.by = loc[p].intent
    BY <2>1, AdvanceSigned
  <2>3. head'[k].by = loc[p].intent
    BY <1>1, <1>2, <1>4, <2>2, GrownCommit
  <2>4. journal # None /\ journal.new = head' /\ UNCHANGED journal /\ head' \in Commits
    BY <2>1, AdvanceFacts
  <2>5. journal.intent = loc[p].intent
    BY <2>1 DEF Advances, Control, JournalFollows, Own, JournalOf
  <2> QED BY <2>3, <2>4, <2>5, HasCommitOrder, TipContent
<1>5. CASE k \in DOMAIN head /\ head'[k] = head[k]
  <2> DEFINE i == head[k].by
  <2>1. /\ i \in DOMAIN done /\ i # User
        /\ done[i] # None \/ (journal # None /\ journal.intent = i)
        /\ journal # None /\ journal.intent = i => HasCommit(head, journal.new)
    BY <1>1, <1>2, <1>5, HeadAuthors DEF Accounted
  <2>2. done[i] # None => done'[i] # None
    BY <2>1, RuntimeGrows
  <2>3. ASSUME NEW p \in Publishers, Shaped(p)
        PROVE  /\ done'[i] # None \/ (journal' # None /\ journal'.intent = i)
               /\ journal' # None /\ journal'.intent = i => HasCommit(head', journal'.new)
    <3>1. JournalMoved(p)
      BY <2>3, JournalMoves
    <3>2. CASE journal # None /\ journal' # None /\ journal'.intent = journal.intent
               /\ journal'.new = journal.new
      BY <1>2, <1>3, <2>1, <2>2, <3>2
    <3>3. CASE journal # None /\ journal' = None
      <4>1. \/ done[journal.intent] = journal.new /\ journal.new # None
            \/ ~HasCommit(head, journal.new)
        BY <1>2, <3>3, JournalKept, AbsenceAssumption
      <4> QED BY <2>1, <2>2, <3>3, <4>1
    <3>4. CASE Prepares(p)
      <4>1. journal = None /\ journal'.intent = loc[p].intent
        BY <3>4, WroteFacts DEF Prepares, Control, JournalFollows, StageAt, Stages
      <4>2. i # loc[p].intent
        BY <1>5, <2>1, <3>4, HeadAuthors DEF Known, Prepares, Fresh, Pc
      <4> QED BY <2>1, <2>2, <4>1, <4>2
    <3>5. CASE Marks(p)
      <4>1. journal' # None /\ journal'.intent = loc[p].intent /\ journal'.new = loc[p].cand
        BY <3>5, WroteFacts DEF Marks, Stages
      <4>2. HasCommit(head, loc[p].cand) /\ loc[p].cand \in Commits
        BY <3>5 DEF Marks, PublicationVerified, Control, Candidates
      <4>3. journal # None => journal.intent = loc[p].intent
        BY <1>1, <3>5 DEF Marks
      <4> QED BY <1>3, <2>1, <2>2, <4>1, <4>2, <4>3
    <3>6. CASE journal = None /\ journal' = None
      BY <2>1, <2>2, <3>6
    <3> QED BY <3>1, <3>2, <3>3, <3>4, <3>5, <3>6 DEF JournalMoved, Discards, Abandons, ClearJournal
  <2>4. CASE UNCHANGED journal
    BY <1>2, <1>3, <2>1, <2>2, <2>4, <1>5
  <2>5. UserNext => UNCHANGED journal
    BY <1>2, UserTypes DEF Mine
  <2>6. (\E row \in scope.rows : AppendMutation(row)) \/ UNCHANGED vars => UNCHANGED journal
    BY DEF AppendMutation, vars
  <2> QED BY <1>2, <1>5, <2>3, <2>4, <2>5, <2>6, StepKinds
<1>6. \/ k \in DOMAIN head /\ head'[k] = head[k]
      \/ \E p \in Publishers : Advances(p) /\ k \notin DOMAIN head
  <2>1. CASE UNCHANGED head
    BY <1>1, <2>1
  <2>2. CASE \E v \in Version : head' = Append(head, v) /\ v.by = User
    BY <1>1, <1>2, <2>2, GrownCommit
  <2>3. CASE \E p \in Publishers : Advances(p)
    <3>1. PICK p \in Publishers : Advances(p)
      BY <2>3
    <3>2. PICK v \in Version : head' = Append(head, v)
      BY <3>1, AdvanceSigned
    <3> QED BY <1>1, <1>2, <3>1, <3>2, GrownCommit
  <2> QED BY <1>1, <2>1, <2>2, <2>3, HeadMoves
<1> QED BY <1>4, <1>5, <1>6

(* A publication that HEAD contains and that is owed stays owed while the  *)
(* row it added is missing from HEAD: its range is consumed only when HEAD *)
(* and the index hold what it published.                                   *)
LEMMA OwedStays ==
  ASSUME Control, Signed, Authors, Agreement, Accounted, [Next]_vars, Linear, ~spoiled', UNCHANGED head,
         NEW r \in Rows, r \notin Tip(head), NEW j \in Adders(head, r), Owed(head[j].by)
  PROVE  journal' # None /\ journal'.intent = head[j].by /\ journal'.stage \notin AtRuntime
<1> USE DEF Pc
<1> DEFINE i == head[j].by
<1>0. /\ TypeOK /\ ~spoiled /\ head \in Commits /\ head \in Seq(Version) /\ head # None
      /\ Without({"reset"})
  BY Spoils, TipContent, AbsenceAssumption DEF Control, TypeOK, Linear, Without
<1>1. j \in DOMAIN head /\ i # User /\ r \in head[j].rows
  BY <1>0 DEF Adders
<1>2. journal # None /\ journal.intent = i /\ journal.stage \notin AtRuntime
  BY DEF Owed
<1>3. HasCommit(head, journal.new)
  BY <1>0, <1>1, <1>2 DEF Accounted
<1>4. ASSUME NEW p \in Publishers, Shaped(p)
      PROVE  journal' # None /\ journal'.intent = i /\ journal'.stage \notin AtRuntime
  <2>1. JournalMoved(p)
    BY <1>4, JournalMoves
  <2>2. ~Discards(p) /\ ~Abandons(p)
    <3>1. BranchContains(journal.new)
      BY <1>0, <1>3 DEF BranchContains
    <3>2. Abandons(p) => journal.new = loc[p].cand
      BY DEF Abandons, Control, JournalFollows, Own, JournalOf
    <3> QED BY <3>1, <3>2 DEF Discards, Abandons
  <2>3. ~ClearJournal(p)
    BY <1>2 DEF ClearJournal, Control, JournalFollows, StageAt, Staged, AtRuntime
  <2>4. ~Marks(p)
    <3>1. SUFFICES ASSUME Marks(p) PROVE FALSE
      OBVIOUS
    <3>2. loc[p].intent = i
      BY <1>2, <3>1 DEF Marks
    <3>3. /\ HasCommit(head, loc[p].cand) /\ idx = Tip(loc[p].cand) /\ Pc(p) = "mark"
          /\ loc[p].cand \in Commits
      BY <3>1 DEF Marks, PublicationVerified, IndexVerified, Control, Candidates
    <3>4. loc[p].cand \in Seq(Version) /\ loc[p].cand # <<>> /\ Len(loc[p].cand) \in 1..Len(loc[p].cand)
      BY <3>3, TipContent
    <3>5. Len(loc[p].cand) \in DOMAIN head /\ head[Len(loc[p].cand)] = loc[p].cand[Len(loc[p].cand)]
      BY <1>0, <3>3, <3>4, PrefixPointwise DEF HasCommit
    <3>6. head[Len(loc[p].cand)].by = i
      BY <3>2, <3>4, <3>5 DEF Signed
    <3>7. j = Len(loc[p].cand)
      BY <1>1, <3>5, <3>6, HeadAuthors DEF Distinct
    <3>8. r \in idx
      BY <1>1, <3>3, <3>5, <3>7 DEF Tip
    <3>9. journal.stage \in Late
      BY <1>2, <3>2, <3>3 DEF Control, Intents, IntentOf
    <3>10. Agree(head)
      BY <1>0, <3>9 DEF Agreement, Torn, Unreconciled, Late
    <3> QED BY <3>8, <3>10 DEF Agree, SameRows
  <2> QED BY <1>2, <2>1, <2>2, <2>3, <2>4 DEF JournalMoved, Prepares
<1>5. CASE UserNext
  BY <1>0, <1>2, <1>5, UserTypes DEF Mine
<1>6. CASE (\E row \in scope.rows : AppendMutation(row)) \/ UNCHANGED vars
  BY <1>2, <1>6 DEF AppendMutation, vars
<1> QED BY <1>0, <1>4, <1>5, <1>6, StepKinds

(* A candidate that has just been built is due.                            *)
LEMMA BuiltDue ==
  ASSUME Control, Authors, Ranges, PendingTail, Accounted, Linear, ~spoiled, NEW p \in Publishers, Builds(p),
         head = loc[p].base,
         NEW r \in Rows, r \in Tip(loc'[p].cand), r \notin Tip(loc[p].base)
  PROVE  \E m \in admitted :
           /\ Backs(m, r, loc[p].intent)
           /\ \A j \in Adders(head, r) : Past(m, head[j].by) \/ Owed(head[j].by)
<1>0. TypeOK /\ head \in Commits /\ head \in Seq(Version)
  BY TipContent DEF Control, TypeOK
<1>1. PICK m \in PendingThrough(loc[p].intent) : m.row = r
  BY BuiltFacts DEF RowsOf
<1>2. m \in pending /\ m \in admitted /\ m.seq <= freezes[loc[p].intent] /\ m.seq \in Nat
  BY <1>0 DEF PendingThrough, PendingTail, TypeOK, Mutations
<1>3. ASSUME NEW j \in Adders(head, r) PROVE Past(m, head[j].by) \/ Owed(head[j].by)
  <2> DEFINE i == head[j].by
  <2>1. j \in DOMAIN head /\ i # User
    BY <1>0, <1>3 DEF Adders
  <2>2. i \in DOMAIN done /\ freezes[i] \in Nat
    BY <1>0, <2>1, HeadAuthors DEF TypeOK
  <2>3. CASE done[i] # None
    <3>1. PendingThrough(i) = {}
      BY <2>2, <2>3 DEF Ranges
    <3> QED BY <1>2, <2>2, <3>1 DEF PendingThrough, Past
  <2>4. CASE done[i] = None
    <3>1. journal # None /\ journal.intent = i
      BY <2>1, <2>4 DEF Accounted
    <3>2. journal.stage \notin AtRuntime
      <4>1. journal.new # None
        BY <1>0, <3>1, AbsenceAssumption DEF TypeOK, Journals
      <4> QED BY <2>4, <3>1, <4>1 DEF Control, Recorded, Staged, AtRuntime
    <3> QED BY <3>1, <3>2 DEF Owed
  <2> QED BY <2>3, <2>4
<1> QED BY <1>1, <1>2, <1>3 DEF Backs

(* CandidatesDue is inductive.                                             *)
LEMMA NextCandidatesDue ==
  ASSUME Control, Signed, Authors, Agreement, Ranges, History, PendingTail, Accounted, CandidatesDue, [Next]_vars
  PROVE  CandidatesDue'
<1> USE DEF Pc
<1> DEFINE Duty(q) ==
      \A r \in Rows : r \in Tip(loc'[q].cand) /\ r \notin Tip(loc'[q].base) =>
        \E m \in admitted' :
            /\ m.row = r /\ m.seq <= freezes'[loc'[q].intent]
            /\ \A j \in Adders(head', r) :
                 \/ m.seq > freezes'[head'[j].by]
                 \/ /\ journal' # None /\ journal'.intent = head'[j].by
                    /\ journal'.stage \notin AtRuntime
<1>1. SUFFICES ASSUME Linear, ~spoiled', NEW q \in Publishers, loc'[q].pc \in Built \cup {"cas"}
      PROVE  HasCommit(head', loc'[q].base) /\ (head' = loc'[q].base => Duty(q))
  <2>1. Linear' <=> Linear
    BY ScopeFixed DEF Linear, Without
  <2>2. \A q \in Publishers : Duty(q) <=> Due(q)'
    BY DEF Due, Backs, Past, Owed, Tip, Adders
  <2> QED BY <2>1, <2>2 DEF CandidatesDue
<1>2. TypeOK /\ ~spoiled /\ head \in Commits /\ head \in Seq(Version)
  BY <1>1, Spoils, TipContent DEF Control, TypeOK
<1>3. \A c \in Commits : HasCommit(head, c) => HasCommit(head', c)
  BY <1>1, HeadGrows DEF Linear
<1>4. ASSUME loc[q].pc \in Built \cup {"cas"}, loc'[q].base = loc[q].base, loc'[q].cand = loc[q].cand,
             loc'[q].intent = loc[q].intent
      PROVE  HasCommit(head', loc'[q].base) /\ (head' = loc'[q].base => Duty(q))
  <2>1. loc[q].base \in Commits /\ loc[q].base \in Seq(Version) /\ loc[q].intent \in DOMAIN done
    BY <1>4, TipContent DEF Control, Candidates, Child, Intents, IntentOf, Built, Fresh
  <2>2. HasCommit(head, loc[q].base) /\ (head = loc[q].base => Due(q))
    BY <1>1, <1>2, <1>4 DEF CandidatesDue
  <2>3. HasCommit(head', loc'[q].base)
    BY <1>3, <1>4, <2>1, <2>2
  <2>4. ASSUME head' = loc'[q].base PROVE Duty(q)
    <3>1. HasCommit(head', head)
      BY <1>2, <1>3, HasCommitOrder
    <3>2. head = loc[q].base /\ UNCHANGED head
      BY <1>2, <1>4, <2>1, <2>2, <2>4, <3>1, HasCommitOrder
    <3>3. Due(q)
      BY <2>2, <3>2
    <3>4. SUFFICES ASSUME NEW r \in Rows, r \in Tip(loc[q].cand), r \notin Tip(loc[q].base)
          PROVE  \E m \in admitted' :
                   /\ m.row = r /\ m.seq <= freezes'[loc[q].intent]
                   /\ \A j \in Adders(head, r) :
                        \/ m.seq > freezes'[head[j].by]
                        \/ /\ journal' # None /\ journal'.intent = head[j].by
                           /\ journal'.stage \notin AtRuntime
      BY <1>4, <3>2
    <3>5. PICK m \in admitted :
            /\ Backs(m, r, loc[q].intent)
            /\ \A j \in Adders(head, r) : Past(m, head[j].by) \/ Owed(head[j].by)
      BY <3>3, <3>4 DEF Due
    <3>6. m \in admitted' /\ m.row = r /\ m.seq <= freezes'[loc[q].intent]
      BY <2>1, <3>5, RuntimeGrows DEF Backs
    <3>7. ASSUME NEW j \in Adders(head, r)
          PROVE  \/ m.seq > freezes'[head[j].by]
                 \/ /\ journal' # None /\ journal'.intent = head[j].by
                    /\ journal'.stage \notin AtRuntime
      <4>1. head[j].by \in DOMAIN done
        BY <1>2, <3>7, HeadAuthors DEF Adders
      <4>2. CASE Past(m, head[j].by)
        BY <4>1, <4>2, RuntimeGrows DEF Past
      <4>3. CASE Owed(head[j].by)
        <5>1. r \notin Tip(head)
          BY <3>2, <3>4
        <5> QED BY <1>1, <3>2, <3>4, <3>7, <4>3, <5>1, OwedStays
      <4> QED BY <3>5, <3>7, <4>2, <4>3
    <3> QED BY <3>6, <3>7
  <2> QED BY <2>3, <2>4
<1>5. ASSUME NEW p \in Publishers, Shaped(p)
      PROVE  HasCommit(head', loc'[q].base) /\ (head' = loc'[q].base => Duty(q))
  <2>1. Moved(p) /\ Reached(p)
    BY <1>2, <1>5, Moves, Reaches
  <2>2. CASE q # p
    BY <1>1, <1>4, <2>1, <2>2 DEF Moved
  <2>3. CASE q = p /\ ~Builds(p)
    BY <1>1, <1>4, <2>1, <2>3 DEF Reached, Same
  <2>4. CASE q = p /\ Builds(p)
    <3>1. Pc(p) = "readTail" /\ UNCHANGED <<head, pending, freezes, done, admitted, journal>>
      BY <2>4 DEF Builds, Still, gitVars, runtimeVars
    <3>2. loc'[p].base = loc[p].base /\ loc'[p].intent = loc[p].intent /\ loc[p].base \in Commits
      BY <2>4, BuiltFacts
    <3>3. HasCommit(head, loc[p].base)
      BY <1>1, <3>1 DEF History, Linear
    <3>4. ASSUME head = loc[p].base PROVE Duty(p)
      <4>1. SUFFICES ASSUME NEW r \in Rows, r \in Tip(loc'[p].cand), r \notin Tip(loc[p].base)
            PROVE  \E m \in admitted :
                     /\ m.row = r /\ m.seq <= freezes[loc[p].intent]
                     /\ \A j \in Adders(head, r) :
                          \/ m.seq > freezes[head[j].by]
                          \/ /\ journal # None /\ journal.intent = head[j].by
                             /\ journal.stage \notin AtRuntime
        BY <3>1, <3>2
      <4> QED BY <1>1, <1>2, <2>4, <3>4, <4>1, BuiltDue DEF Backs, Past, Owed
    <3> QED BY <2>4, <3>1, <3>2, <3>3, <3>4
  <2> QED BY <2>2, <2>3, <2>4
<1>6. CASE UNCHANGED loc
  BY <1>1, <1>4, <1>6
<1>7. UserNext => UNCHANGED loc
  BY <1>2, UserTypes DEF Mine
<1>8. (\E row \in scope.rows : AppendMutation(row)) \/ UNCHANGED vars => UNCHANGED loc
  BY DEF AppendMutation, vars
<1> QED BY <1>2, <1>5, <1>6, <1>7, <1>8, StepKinds

(* Backed is inductive.                                                    *)
LEMMA NextBacked ==
  ASSUME Control, Signed, Authors, CandidatesDue, Backed, [Next]_vars PROVE Backed'
<1> USE DEF Pc
<1>1. SUFFICES ASSUME Linear, ~spoiled', NEW r \in Rows, NEW k \in Adders(head', r)
      PROVE  \E m \in admitted' :
               /\ m.row = r /\ m.seq <= freezes'[head'[k].by]
               /\ \A j \in Adders(head', r) : j < k => m.seq > freezes'[head'[j].by]
  <2>1. Linear' <=> Linear
    BY ScopeFixed DEF Linear, Without
  <2> QED BY <2>1 DEF Backed, Backs, Past, Adders
<1>2. TypeOK /\ ~spoiled /\ head \in Commits /\ head \in Seq(Version)
  BY <1>1, Spoils, TipContent DEF Control, TypeOK
<1>3. \A n \in Adders(head, r) : n \in DOMAIN head /\ n \in Nat /\ head[n].by # User /\ head[n].by \in DOMAIN done
  BY <1>2, HeadAuthors DEF Adders
<1>4. ASSUME k \in Adders(head, r), head'[k] = head[k],
             \A j \in Adders(head', r) : j < k => j \in Adders(head, r) /\ head'[j] = head[j]
      PROVE  \E m \in admitted' :
               /\ m.row = r /\ m.seq <= freezes'[head'[k].by]
               /\ \A j \in Adders(head', r) : j < k => m.seq > freezes'[head'[j].by]
  <2>1. PICK m \in admitted :
          /\ Backs(m, r, head[k].by)
          /\ \A j \in Adders(head, r) : j < k => Past(m, head[j].by)
    BY <1>1, <1>2, <1>4 DEF Backed
  <2>2. m \in admitted' /\ m.row = r /\ m.seq <= freezes'[head'[k].by]
    BY <1>3, <1>4, <2>1, RuntimeGrows DEF Backs
  <2>3. ASSUME NEW j \in Adders(head', r), j < k PROVE m.seq > freezes'[head'[j].by]
    BY <1>3, <1>4, <2>1, <2>3, RuntimeGrows DEF Past
  <2> QED BY <2>2, <2>3
<1>5. CASE UNCHANGED head
  BY <1>1, <1>4, <1>5
<1>6. ASSUME NEW v \in Version, head' = Append(head, v), k # Len(head) + 1
      PROVE  \E m \in admitted' :
               /\ m.row = r /\ m.seq <= freezes'[head'[k].by]
               /\ \A j \in Adders(head', r) : j < k => m.seq > freezes'[head'[j].by]
  <2>1. \A n \in Adders(head', r) :
          \/ n \in Adders(head, r) /\ head'[n] = head[n] /\ n < Len(head) + 1
          \/ n = Len(head) + 1
    BY <1>2, <1>6, AddersGrow
  <2>2. k \in Adders(head, r) /\ head'[k] = head[k] /\ k < Len(head) + 1 /\ k \in Nat /\ Len(head) \in Nat
    BY <1>1, <1>2, <1>3, <1>6, <2>1
  <2>3. ASSUME NEW j \in Adders(head', r), j < k PROVE j \in Adders(head, r) /\ head'[j] = head[j]
    BY <2>1, <2>2, <2>3
  <2> QED BY <1>4, <2>2, <2>3
<1>7. CASE \E v \in Version : head' = Append(head, v) /\ v.by = User
  <2>1. PICK v \in Version : head' = Append(head, v) /\ v.by = User
    BY <1>7
  <2>2. k # Len(head) + 1
    <3>1. head'[k].by # User
      BY <1>1 DEF Adders
    <3>2. head'[Len(head) + 1] = v
      BY <1>2, <2>1, GrownCommit
    <3> QED BY <2>1, <3>1, <3>2
  <2> QED BY <1>6, <2>1, <2>2
<1>8. CASE \E p \in Publishers : Advances(p)
  <2>1. PICK p \in Publishers : Advances(p)
    BY <1>8
  <2>2. PICK v \in Version : /\ head' = Append(head, v) /\ v.by = loc[p].intent /\ v.by # User
                             /\ Tip(head') = v.rows /\ \A n \in DOMAIN head : head[n].by # v.by
    BY <2>1, AdvanceSigned
  <2>3. CASE k # Len(head) + 1
    BY <1>6, <2>2, <2>3
  <2>4. CASE k = Len(head) + 1
    <3>1. /\ Pc(p) = "cas" /\ head = loc[p].base /\ head' = loc[p].cand
          /\ journal # None /\ journal.intent = loc[p].intent /\ UNCHANGED <<admitted, freezes>>
      BY <2>1 DEF Advances, Control, JournalFollows, StageAt, Staged, Own, JournalOf, runtimeVars
    <3>2. r \in Tip(loc[p].cand) /\ r \notin Tip(loc[p].base) /\ head'[k] = v
      <4>1. r \in v.rows /\ r \notin Tip(head)
        BY <1>1, <1>2, <2>2, <2>4, AddersGrow DEF Commits
      <4>2. head'[k] = v
        BY <1>2, <2>2, <2>4, GrownCommit
      <4>3. Tip(loc[p].cand) = v.rows
        <5>1. Tip(head') = Tip(loc[p].cand)
          BY <3>1
        <5> QED BY <2>2, <5>1
      <4>4. r \notin Tip(loc[p].base)
        BY <3>1, <4>1
      <4> QED BY <4>1, <4>2, <4>3, <4>4
    <3>3. PICK m \in admitted :
            /\ Backs(m, r, loc[p].intent)
            /\ \A j \in Adders(head, r) : Past(m, head[j].by) \/ Owed(head[j].by)
      BY <1>1, <1>2, <3>1, <3>2 DEF CandidatesDue, Due
    <3>4. \A j \in Adders(head, r) : Past(m, head[j].by)
      BY <1>3, <2>2, <3>1, <3>3 DEF Owed
    <3>5. ASSUME NEW j \in Adders(head', r), j < k PROVE j \in Adders(head, r) /\ head'[j] = head[j]
      BY <1>2, <2>2, <2>4, <3>5, AddersGrow
    <3> QED BY <2>2, <3>1, <3>2, <3>3, <3>4, <3>5 DEF Backs, Past
  <2> QED BY <2>3, <2>4
<1> QED BY <1>1, <1>5, <1>7, <1>8, HeadMoves

(* Counting: a commit that adds a row is mapped to its own mutation.       *)
LEMMA BackedCounts ==
  ASSUME Control, Authors, PendingTail, Backed PROVE PublishedOnce
<1>1. SUFFICES ASSUME Linear, ~spoiled, NEW r \in Rows
      PROVE  Cardinality(Adders(head, r)) <= Cardinality({m \in admitted : m.row = r})
  BY DEF PublishedOnce, Linear
<1> DEFINE S == Adders(head, r)
           T == {m \in admitted : m.row = r}
           Own1(k, m) == /\ Backs(m, r, head[k].by)
                         /\ \A j \in Adders(head, r) : j < k => Past(m, head[j].by)
           f == [k \in S |-> CHOOSE m \in T : Own1(k, m)]
<1>2. TypeOK /\ head \in Commits /\ head \in Seq(Version)
  BY TipContent DEF Control, TypeOK
<1>3. IsFiniteSet(T)
  BY FS_Subset DEF PendingTail
<1>4. \A k \in S : k \in Nat /\ freezes[head[k].by] \in Nat
  <2>1. \A k \in S : k \in Nat /\ head[k].by \in DOMAIN done
    BY <1>2, HeadAuthors DEF Adders
  <2> QED BY <1>2, <2>1 DEF TypeOK
<1>5. \A k \in S : \E m \in T : Own1(k, m)
  BY <1>1 DEF Backed, Backs
<1>6. \A k \in S : f[k] \in T /\ Own1(k, f[k])
  BY <1>5
<1>7. \A m \in T : m.seq \in Nat
  BY <1>2 DEF TypeOK, Mutations
<1> HIDE DEF f, S, T
<1>8. ASSUME NEW k \in S, NEW j \in S, j < k PROVE f[k] # f[j]
  <2>1. f[k].seq > freezes[head[j].by] /\ f[j].seq <= freezes[head[j].by]
    BY <1>6, <1>8 DEF Backs, Past, S
  <2>2. f[k].seq \in Nat /\ f[j].seq \in Nat /\ freezes[head[j].by] \in Nat
    BY <1>4, <1>6, <1>7
  <2> QED BY <2>1, <2>2
<1>9. ASSUME NEW k \in S, NEW j \in S, f[k] = f[j] PROVE k = j
  <2>1. k \in Nat /\ j \in Nat
    BY <1>4
  <2> QED BY <1>8, <1>9, <2>1
<1>10. f \in Injection(S, T)
  <2>1. f \in [S -> T]
    BY <1>6 DEF f
  <2> QED BY <1>9, <2>1 DEF Injection, IsInjective
<1>11. Cardinality(S) <= Cardinality(T)
  BY <1>3, <1>10, FS_Injection
<1> QED BY <1>11 DEF S, T

(* Nothing has been added initially.                                       *)
LEMMA InitBacked ==
  ASSUME Init PROVE PendingTail /\ Accounted /\ CandidatesDue /\ Backed
<1>1. \A p \in Publishers : Pc(p) = "idle"
  BY IdleMemory DEF Init, Pc
<1>2. pending = {} /\ admitted = {} /\ head = <<[rows |-> {}, by |-> User]>>
  BY DEF Init
<1>3. Len(head) = 1 /\ \A k \in DOMAIN head : head[k].by = User
  BY <1>2
<1>4. \A r \in Rows : Adders(head, r) = {}
  BY <1>3 DEF Adders
<1> QED BY <1>1, <1>2, <1>3, <1>4, FS_EmptySet DEF PendingTail, Accounted, CandidatesDue, Built, Backed

(* Along HEAD's history Orna adds a row at most as often as mutations of   *)
(* it were admitted, whoever publishes, dies and recovers and whatever a   *)
(* person stages, commits or reverts meanwhile: no mutation is published   *)
(* twice (publish_candidate_body, complete_publication).                   *)
THEOREM MutationsArePublishedOnce == Spec => []PublishedOnce
<1> DEFINE Stores == Control /\ LockHeld /\ Signed /\ Authors /\ Agreement
           Inv == Stores /\ Ranges /\ History /\ PendingTail /\ Accounted /\ CandidatesDue /\ Backed
<1>1. Init => Inv
  BY InitControl, InitSigned, InitAgreement, InitHistory, InitBacked
<1>2. Inv /\ [Next]_vars => Inv'
  <2>1. Inv /\ [Next]_vars => Stores'
    BY NextControl, NextLockHeld, NextSigned, NextAuthors, NextAgreement
  <2>2. Inv /\ [Next]_vars => Ranges' /\ History' /\ PendingTail'
    BY NextControl, NextRanges, NextHistory, NextTail
  <2>3. Inv /\ [Next]_vars => Accounted' /\ CandidatesDue' /\ Backed'
    BY NextAccounted, NextCandidatesDue, NextBacked
  <2> QED BY <2>1, <2>2, <2>3
<1>3. Inv => PublishedOnce
  BY BackedCounts
<1> HIDE DEF Inv
<1> QED BY <1>1, <1>2, <1>3, PTL DEF Spec

=============================================================================
