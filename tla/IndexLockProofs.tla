-------------------------- MODULE IndexLockProofs --------------------------
(***************************************************************************)
(* Why a publisher never shares .git/index.lock with a running Git command *)
(* and why the lock of a killed publisher can be reclaimed, for any number *)
(* of Orna processes and Git commands.                                     *)
(*                                                                         *)
(* The file lock makes one process the coordinator (OneAtWork), so what    *)
(* the private directory holds is fixed by where that process is           *)
(* (PrivateAt).  As long as no Git command has removed the lock of another *)
(* (GitSparesGit), a running one either has its file at the path or was    *)
(* displaced by a rename, and then the entry that displaced it does not    *)
(* match its name and stays (GitHasItsFile): it keeps every publisher out. *)
(* A direct writer is not kept out and may even lose its own file to a     *)
(* displaced Git command, but only while such an entry is there            *)
(* (SignsItsFile).  Whatever Git commands do to each other, nobody else    *)
(* uses the path while an Orna process holds its lock (OwnOrGit), which is *)
(* what the orphans rest on.                                               *)
(***************************************************************************)
EXTENDS IndexLock, FiniteSetTheorems, TLAPS

Points == {"new", "scan", "mark", "transfer", "compare", "restore", "resume", "dispose",
           "unlink", "recheck", "acquire", "sign", "hold", "released", "over"}

Memory == [pc : Points, permits : Processes \cup {Nil},
           bind : Processes \cup {"zero", Nil}, installs : BOOLEAN,
           expected : File \cup {Nil}, seen : BOOLEAN]

TypeOK ==
  /\ indexLock \in File \cup {Nil}
  /\ private \in SUBSET Entries
  /\ coordinator \in Processes \cup {Nil}
  /\ prepared \in Processes \cup {Nil}
  /\ orna \in [Processes -> Memory]
  /\ git \in [Commands -> {"new", "holding", "over", "trespassed"}]

(* What the bytes of a file say of who wrote it. *)
Written(f) ==
  /\ f.bind = "git" <=> f.owner \in Commands
  /\ f.owner \in Commands => git[f.owner] # "new"
FilesAreWritten ==
  /\ indexLock # Nil => Written(indexLock)
  /\ \A e \in private : Written(e.file)

(* The process at work is the one that holds the coordination lock. *)
OneAtWork == \A p \in Processes : orna[p].pc \notin {"new", "over"} <=> coordinator = p

(* A marker that a reclaim may remove: a publisher's, of a process that is over. *)
Dead(f) == f \in File /\ f.owner \in Processes /\ f.bind \in Processes /\ orna[f.owner].pc = "over"

(* Entry e was made for the file it holds. *)
Matches(e) == e.of = e.file

Misnamed == \E e \in private : ~Matches(e)

(* What the private directory holds when the process at work is at pc. *)
PrivateAt ==
  \A p \in Processes : LET at == orna[p].pc IN
    /\ at \notin {"new", "over", "acquire", "sign", "hold", "released"} => orna[p].installs
    /\ \/ at \in {"mark", "transfer", "recheck"}
       \/ at \in {"acquire", "sign", "hold", "released"} /\ orna[p].installs
       => private = {}
    /\ at \in {"compare", "restore", "resume", "dispose", "unlink"} => private # {}
    /\ at \in {"transfer", "compare", "restore"} =>
         Dead(orna[p].expected) /\ Permits(orna[p].permits, orna[p].expected.bind)
    /\ at \in {"compare", "restore"} => \A e \in private : e.of = orna[p].expected
    /\ at = "restore" => \A e \in private : ~Matches(e)
    /\ at \in {"dispose", "unlink"} => \A e \in private : Matches(e) /\ Dead(e.file)
    /\ at \in {"acquire", "sign", "hold", "released"} => orna[p].bind # Nil

OneEntry == \A e, d \in private : e = d

GitFile(c) == [owner |-> c, bind |-> "git"]

GitHasItsFile ==
  GitSparesGit => \A c \in Commands : git[c] = "holding" =>
    \/ indexLock = GitFile(c)
    \/ /\ Misnamed
       /\ \A p \in Processes, e \in private :
            orna[p].pc \in {"compare", "restore"} => e.file = GitFile(c)

(* What the process at work finds at the path once it has created its lock. *)
OwnOrGit ==
  \A p \in Processes : orna[p].pc = "sign" \/ (orna[p].pc = "hold" /\ orna[p].installs) =>
    \/ indexLock = Nil \/ indexLock.owner \in Commands
    \/ indexLock = [owner |-> p, bind |-> IF orna[p].pc = "sign" THEN "empty" ELSE orna[p].bind]

SignsItsFile ==
  GitSparesGit => \A p \in Processes :
    /\ orna[p].pc = "sign" => Misnamed \/ indexLock = [owner |-> p, bind |-> "empty"]
    /\ orna[p].pc = "hold" /\ orna[p].installs => indexLock = [owner |-> p, bind |-> orna[p].bind]

(* What is bound to a journal is bound to the one that is there. *)
Bound(bind) == bind \in Processes => prepared \in {Nil, bind}
BoundToJournal ==
  /\ indexLock # Nil => Bound(indexLock.bind)
  /\ \A e \in private : Bound(e.file.bind)
  /\ \A p \in Processes : orna[p].pc \notin {"new", "over"} => Bound(orna[p].bind)
  /\ \A p \in Processes : orna[p].installs => orna[p].bind # "zero"

LockInv ==
  /\ TypeOK /\ FilesAreWritten /\ OneAtWork
  /\ OneEntry /\ PrivateAt
  /\ GitHasItsFile /\ OwnOrGit /\ SignsItsFile
  /\ BoundToJournal

-----------------------------------------------------------------------------
(* The alternatives of Scan, without counting. *)
LEMMA ScanStep ==
  ASSUME NEW p \in Processes, Scan(p)
  PROVE  /\ At(p, "scan")
         /\ \/ GiveUp(p)
            \/ private # {} /\ indexLock = Nil /\ Proceed(p, "resume")
            \/ private = {} /\ Reclaimed(p)
            \/ private = {} /\ indexLock # Nil /\ Proceed(p, "mark")
  BY FS_EmptySet DEF Scan

(* The files and entries the actions write. *)
LEMMA FileTypes ==
  /\ \A p \in Processes, b \in Processes \cup {"zero", "empty"} :
       [owner |-> p, bind |-> b] \in File
  /\ \A c \in Commands : [owner |-> c, bind |-> "git"] \in File
  /\ \A f, g \in File : [kind |-> "claim", of |-> f, file |-> g] \in Entries
  /\ \A e \in Entries : [e EXCEPT !.kind = "tombstone"] \in Entries /\ e.file \in File
  /\ \A f \in File, b \in Processes \cup {"zero"} : [f EXCEPT !.bind = b] \in File
  BY DEF File, Bindings, Entries

(* What a reclaim takes for abandoned is dead, and what is dead and        *)
(* permitted it takes for abandoned.                                       *)
LEMMA AbandonedIsDead ==
  ASSUME TypeOK, NEW p \in Processes, NEW f \in File, Written(f)
  PROVE  Abandoned(p, f) <=> Dead(f) /\ Permits(orna[p].permits, f.bind)
  BY NameAssumption DEF TypeOK, Memory, File, Bindings, Written, Abandoned, Permits, Live, Dead

(* A step of a process is a step of one that is not over, and changes no   *)
(* other process and no Git command.                                       *)
LEMMA OwnStep ==
  ASSUME TypeOK, NEW p \in Processes, ProcessStep(p)
  PROVE  /\ orna[p].pc # "over" /\ \A q \in Processes : q # p => orna'[q] = orna[q]
         /\ UNCHANGED git
<1>1. CASE StartPublish(p) \/ StartRecover(p) \/ StartDirect(p)
  BY <1>1 DEF TypeOK, StartPublish, StartRecover, StartDirect, Start
<1>2. CASE Reclaim(p)
  BY <1>2 DEF TypeOK, Reclaim, Scan, Mark, Transfer, Compare, Restore, Resume, Dispose, Unlink,
     Recheck, At, Reclaimed, Proceed, GiveUp, End, Continue
<1>3. CASE Acquire(p) \/ Sign(p) \/ PrepareJournal(p) \/ Discard(p) \/ Release(p) \/ Finish(p) \/ Kill(p)
  BY <1>3 DEF TypeOK, Acquire, Sign, PrepareJournal, Discard, Release, Finish, Kill, At, GiveUp,
     End, Continue
<1> QED BY <1>1, <1>2, <1>3 DEF ProcessStep

(* A process that is over stays over. *)
LEMMA DeadStays ==
  ASSUME TypeOK, [LockNext]_lockFileVars
  PROVE  \A f : Dead(f) => orna'[f.owner].pc = "over"
<1>1. CASE \E p \in Processes : ProcessStep(p)
  BY <1>1, OwnStep DEF Dead
<1>2. CASE (\E c \in Commands : GitStep(c)) \/ RemoveStale \/ UNCHANGED lockFileVars
  <2>1. UNCHANGED orna
    BY <1>2 DEF GitStep, GitLock, GitUnlock, GitKilled, RemoveStale, lockFileVars
  <2> QED BY <2>1 DEF Dead
<1> QED BY <1>1, <1>2 DEF LockNext

-----------------------------------------------------------------------------
(* Every system call keeps the types. *)
LEMMA NextTypeOK ==
  ASSUME LockInv, [LockNext]_lockFileVars
  PROVE  TypeOK'
<1> USE NameAssumption
<1>1. ASSUME NEW p \in Processes, StartPublish(p) PROVE TypeOK'
  BY <1>1, FileTypes DEF StartPublish, Start, Fresh, TypeOK, LockInv, Memory, Points
<1>2. ASSUME NEW p \in Processes, StartRecover(p) PROVE TypeOK'
  BY <1>2, FileTypes DEF StartRecover, Start, Fresh, TypeOK, LockInv, Memory, Points
<1>3. ASSUME NEW p \in Processes, StartDirect(p) PROVE TypeOK'
  <2>1. PICK bind \in {"zero", prepared} \ {Nil} : Start(p, "acquire", Nil, bind, FALSE)
    BY <1>3 DEF StartDirect
  <2>2. bind \in Processes \cup {"zero", Nil}
    BY DEF LockInv, TypeOK
  <2> QED BY <2>1, <2>2 DEF Start, Fresh, LockInv, TypeOK, Memory, Points
<1>4. ASSUME NEW p \in Processes, Scan(p) PROVE TypeOK'
  BY <1>4, ScanStep, FileTypes DEF GiveUp, End, Proceed, Continue, Reclaimed, At, TypeOK,
     LockInv, Memory, Points
<1>5. ASSUME NEW p \in Processes, Mark(p) PROVE TypeOK'
  BY <1>5, FileTypes DEF Mark, GiveUp, End, At, TypeOK, LockInv, Memory, Points
<1>6. ASSUME NEW p \in Processes, Transfer(p) PROVE TypeOK'
  <2>1. orna[p].expected \in File
    BY <1>6 DEF Transfer, At, LockInv, PrivateAt, Dead
  <2>2. CASE indexLock = Nil /\ GiveUp(p)
    BY <2>2 DEF GiveUp, End, LockInv, TypeOK, Memory, Points
  <2>3. CASE indexLock # Nil
    <3>1. private' \in SUBSET Entries
      BY <1>6, <2>1, <2>3, FileTypes DEF Transfer, LockInv, TypeOK
    <3> QED BY <1>6, <2>3, <3>1 DEF Transfer, Continue, LockInv, TypeOK, Memory, Points
  <2> QED BY <1>6, <2>2, <2>3 DEF Transfer
<1>7. ASSUME NEW p \in Processes, NEW e \in private, Compare(p, e) PROVE TypeOK'
  BY <1>7, FileTypes DEF Compare, Proceed, Continue, At, TypeOK, LockInv, Memory, Points
<1>8. ASSUME NEW p \in Processes, NEW e \in private, Restore(p, e) PROVE TypeOK'
  <2>1. e.file \in File /\ private \ {e} \in SUBSET Entries
    BY FileTypes DEF LockInv, TypeOK
  <2> QED BY <1>8, <2>1 DEF Restore, GiveUp, End, LockInv, TypeOK, Memory, Points
<1>9. ASSUME NEW p \in Processes, NEW e \in private, Resume(p, e) PROVE TypeOK'
  BY <1>9, FileTypes DEF Resume, Proceed, Continue, GiveUp, End, At, TypeOK, LockInv, Memory, Points
<1>10. ASSUME NEW p \in Processes, NEW e \in private, Dispose(p, e) PROVE TypeOK'
  BY <1>10, FileTypes DEF Dispose, Continue, At, TypeOK, LockInv, Memory, Points
<1>11. ASSUME NEW p \in Processes, NEW e \in private, Unlink(p, e) PROVE TypeOK'
  <2>1. private \ {e} \in SUBSET Entries
    BY DEF LockInv, TypeOK
  <2>2. orna' \in [Processes -> Memory]
    <3>1. \A b \in BOOLEAN : [orna[p] EXCEPT !.pc = "recheck", !.seen = b] \in Memory
      BY DEF LockInv, TypeOK, Memory, Points
    <3>2. (indexLock # Nil) \in BOOLEAN
      OBVIOUS
    <3>3. [orna[p] EXCEPT !.pc = "recheck", !.seen = indexLock # Nil] \in Memory
      BY <3>1, <3>2, Zenon
    <3> QED BY <1>11, <3>3 DEF Unlink, LockInv, TypeOK
  <2> QED BY <1>11, <2>1, <2>2 DEF Unlink, LockInv, TypeOK
<1>12. ASSUME NEW p \in Processes, Recheck(p) PROVE TypeOK'
  BY <1>12, FileTypes DEF Recheck, GiveUp, End, Reclaimed, Continue, At, TypeOK, LockInv, Memory,
     Points
<1>13. ASSUME NEW p \in Processes, Acquire(p) PROVE TypeOK'
  BY <1>13, FileTypes DEF Acquire, GiveUp, End, Continue, At, TypeOK, LockInv, Memory, Points
<1>14. ASSUME NEW p \in Processes, Sign(p) PROVE TypeOK'
  <2>1. orna[p].bind \in Processes \cup {"zero"}
    BY <1>14 DEF Sign, At, LockInv, TypeOK, Memory, PrivateAt
  <2>2. indexLock' \in File \cup {Nil}
    BY <1>14, <2>1, FileTypes DEF Sign, LockInv, TypeOK
  <2> QED BY <1>14, <2>2 DEF Sign, Continue, End, LockInv, TypeOK, Memory, Points
<1>15. ASSUME NEW p \in Processes, PrepareJournal(p) PROVE TypeOK'
  BY <1>15 DEF PrepareJournal, At, LockInv, TypeOK, Memory, PrivateAt, BoundToJournal
<1>16. ASSUME NEW p \in Processes, Discard(p) PROVE TypeOK'
  BY <1>16 DEF Discard, End, At, TypeOK, LockInv, Memory, Points
<1>17. ASSUME NEW p \in Processes, Release(p) PROVE TypeOK'
  BY <1>17, FileTypes DEF Release, Continue, At, TypeOK, LockInv, Memory, Points
<1>18. ASSUME NEW p \in Processes, Finish(p) PROVE TypeOK'
  BY <1>18, FileTypes DEF Finish, End, At, TypeOK, LockInv, Memory, Points
<1>19. ASSUME NEW p \in Processes, Kill(p) PROVE TypeOK'
  BY <1>19, FileTypes DEF Kill, GiveUp, End, TypeOK, LockInv, Memory, Points
<1>20. ASSUME NEW c \in Commands, GitLock(c) PROVE TypeOK'
  BY <1>20, FileTypes DEF GitLock, TypeOK, LockInv, Memory, Points
<1>21. ASSUME NEW c \in Commands, GitUnlock(c) PROVE TypeOK'
  BY <1>21, FileTypes DEF GitUnlock, TypeOK, LockInv, Memory, Points
<1>22. ASSUME NEW c \in Commands, GitKilled(c) PROVE TypeOK'
  BY <1>22, FileTypes DEF GitKilled, TypeOK, LockInv, Memory, Points
<1>23. CASE RemoveStale
  BY <1>23, FileTypes DEF RemoveStale, Live, TypeOK, LockInv, Memory, Points
<1>24. CASE UNCHANGED lockFileVars
  BY <1>24 DEF lockFileVars, TypeOK, LockInv, Memory, Points
<1> QED BY <1>1, <1>2, <1>3, <1>4, <1>5, <1>6, <1>7, <1>8, <1>9, <1>10, <1>11, <1>12, <1>13,
   <1>14, <1>15, <1>16, <1>17, <1>18, <1>19, <1>20, <1>21, <1>22, <1>23, <1>24
     DEF LockNext, ProcessStep, Reclaim, GitStep

(* Coordination: a process starts when nobody is at work, and frees the lock *)
(* when it ends.                                                           *)
LEMMA NextOneAtWork ==
  ASSUME LockInv, [LockNext]_lockFileVars
  PROVE  OneAtWork'
<1> USE NameAssumption
<1>1. ASSUME NEW p \in Processes, StartPublish(p) PROVE OneAtWork'
  BY <1>1 DEF StartPublish, Start, Fresh, LockInv, TypeOK, Memory, OneAtWork
<1>2. ASSUME NEW p \in Processes, StartRecover(p) PROVE OneAtWork'
  BY <1>2 DEF StartRecover, Start, Fresh, LockInv, TypeOK, Memory, OneAtWork
<1>3. ASSUME NEW p \in Processes, StartDirect(p) PROVE OneAtWork'
  BY <1>3 DEF StartDirect, Start, Fresh, LockInv, TypeOK, Memory, OneAtWork
<1>4. ASSUME NEW p \in Processes, Scan(p) PROVE OneAtWork'
  BY <1>4, ScanStep DEF GiveUp, End, Proceed, Continue, Reclaimed, At, LockInv, TypeOK, Memory,
     OneAtWork
<1>5. ASSUME NEW p \in Processes, Mark(p) PROVE OneAtWork'
  BY <1>5 DEF Mark, GiveUp, End, At, LockInv, TypeOK, Memory, OneAtWork
<1>6. ASSUME NEW p \in Processes, Transfer(p) PROVE OneAtWork'
  BY <1>6 DEF Transfer, GiveUp, End, Continue, At, LockInv, TypeOK, Memory, OneAtWork
<1>7. ASSUME NEW p \in Processes, NEW e \in private, Compare(p, e) PROVE OneAtWork'
  BY <1>7 DEF Compare, Proceed, Continue, At, LockInv, TypeOK, Memory, OneAtWork
<1>8. ASSUME NEW p \in Processes, NEW e \in private, Restore(p, e) PROVE OneAtWork'
  BY <1>8 DEF Restore, GiveUp, End, At, LockInv, TypeOK, Memory, OneAtWork
<1>9. ASSUME NEW p \in Processes, NEW e \in private, Resume(p, e) PROVE OneAtWork'
  BY <1>9 DEF Resume, Proceed, Continue, GiveUp, End, At, LockInv, TypeOK, Memory, OneAtWork
<1>10. ASSUME NEW p \in Processes, NEW e \in private, Dispose(p, e) PROVE OneAtWork'
  BY <1>10 DEF Dispose, Continue, At, LockInv, TypeOK, Memory, OneAtWork
<1>11. ASSUME NEW p \in Processes, NEW e \in private, Unlink(p, e) PROVE OneAtWork'
  BY <1>11 DEF Unlink, At, LockInv, TypeOK, Memory, OneAtWork
<1>12. ASSUME NEW p \in Processes, Recheck(p) PROVE OneAtWork'
  BY <1>12 DEF Recheck, GiveUp, End, Reclaimed, Continue, At, LockInv, TypeOK, Memory, OneAtWork
<1>13. ASSUME NEW p \in Processes, Acquire(p) PROVE OneAtWork'
  BY <1>13 DEF Acquire, GiveUp, End, Continue, At, LockInv, TypeOK, Memory, OneAtWork
<1>14. ASSUME NEW p \in Processes, Sign(p) PROVE OneAtWork'
  BY <1>14 DEF Sign, Continue, End, At, LockInv, TypeOK, Memory, OneAtWork
<1>15. ASSUME NEW p \in Processes, PrepareJournal(p) PROVE OneAtWork'
  BY <1>15 DEF PrepareJournal, At, LockInv, TypeOK, Memory, OneAtWork
<1>16. ASSUME NEW p \in Processes, Discard(p) PROVE OneAtWork'
  BY <1>16 DEF Discard, End, At, LockInv, TypeOK, Memory, OneAtWork
<1>17. ASSUME NEW p \in Processes, Release(p) PROVE OneAtWork'
  BY <1>17 DEF Release, Continue, At, LockInv, TypeOK, Memory, OneAtWork
<1>18. ASSUME NEW p \in Processes, Finish(p) PROVE OneAtWork'
  BY <1>18 DEF Finish, End, At, LockInv, TypeOK, Memory, OneAtWork
<1>19. ASSUME NEW p \in Processes, Kill(p) PROVE OneAtWork'
  BY <1>19 DEF Kill, GiveUp, End, LockInv, TypeOK, Memory, OneAtWork
<1>20. ASSUME NEW c \in Commands, GitLock(c) PROVE OneAtWork'
  BY <1>20 DEF GitLock, LockInv, TypeOK, Memory, OneAtWork
<1>21. ASSUME NEW c \in Commands, GitUnlock(c) PROVE OneAtWork'
  BY <1>21 DEF GitUnlock, LockInv, TypeOK, Memory, OneAtWork
<1>22. ASSUME NEW c \in Commands, GitKilled(c) PROVE OneAtWork'
  BY <1>22 DEF GitKilled, LockInv, TypeOK, Memory, OneAtWork
<1>23. CASE RemoveStale
  BY <1>23 DEF RemoveStale, Live, LockInv, TypeOK, Memory, OneAtWork
<1>24. CASE UNCHANGED lockFileVars
  BY <1>24 DEF lockFileVars, LockInv, TypeOK, Memory, OneAtWork
<1> QED BY <1>1, <1>2, <1>3, <1>4, <1>5, <1>6, <1>7, <1>8, <1>9, <1>10, <1>11, <1>12, <1>13,
   <1>14, <1>15, <1>16, <1>17, <1>18, <1>19, <1>20, <1>21, <1>22, <1>23, <1>24
     DEF LockNext, ProcessStep, Reclaim, GitStep

(* Git's bytes are Git's, and it wrote them while it ran. *)
LEMMA NextFilesAreWritten ==
  ASSUME LockInv, [LockNext]_lockFileVars
  PROVE  FilesAreWritten'
<1> USE NameAssumption
<1>1. ASSUME NEW p \in Processes, StartPublish(p) PROVE FilesAreWritten'
  BY <1>1 DEF StartPublish, Start, Fresh, LockInv, TypeOK, FilesAreWritten, Written
<1>2. ASSUME NEW p \in Processes, StartRecover(p) PROVE FilesAreWritten'
  BY <1>2 DEF StartRecover, Start, Fresh, LockInv, TypeOK, FilesAreWritten, Written
<1>3. ASSUME NEW p \in Processes, StartDirect(p) PROVE FilesAreWritten'
  BY <1>3 DEF StartDirect, Start, Fresh, LockInv, TypeOK, FilesAreWritten, Written
<1>4. ASSUME NEW p \in Processes, Scan(p) PROVE FilesAreWritten'
  BY <1>4, ScanStep DEF GiveUp, End, Proceed, Continue, Reclaimed, At, LockInv, TypeOK,
     FilesAreWritten, Written
<1>5. ASSUME NEW p \in Processes, Mark(p) PROVE FilesAreWritten'
  BY <1>5 DEF Mark, GiveUp, End, At, LockInv, TypeOK, FilesAreWritten, Written
<1>6. ASSUME NEW p \in Processes, Transfer(p) PROVE FilesAreWritten'
  BY <1>6 DEF Transfer, GiveUp, End, Continue, At, LockInv, TypeOK, FilesAreWritten, Written, Entries
<1>7. ASSUME NEW p \in Processes, NEW e \in private, Compare(p, e) PROVE FilesAreWritten'
  BY <1>7 DEF Compare, Proceed, Continue, At, LockInv, TypeOK, FilesAreWritten, Written
<1>8. ASSUME NEW p \in Processes, NEW e \in private, Restore(p, e) PROVE FilesAreWritten'
  BY <1>8 DEF Restore, GiveUp, End, At, LockInv, TypeOK, FilesAreWritten, Written
<1>9. ASSUME NEW p \in Processes, NEW e \in private, Resume(p, e) PROVE FilesAreWritten'
  BY <1>9 DEF Resume, Proceed, Continue, GiveUp, End, At, LockInv, TypeOK, FilesAreWritten, Written
<1>10. ASSUME NEW p \in Processes, NEW e \in private, Dispose(p, e) PROVE FilesAreWritten'
  BY <1>10 DEF Dispose, Continue, At, LockInv, TypeOK, FilesAreWritten, Written, Entries
<1>11. ASSUME NEW p \in Processes, NEW e \in private, Unlink(p, e) PROVE FilesAreWritten'
  BY <1>11 DEF Unlink, At, LockInv, TypeOK, FilesAreWritten, Written
<1>12. ASSUME NEW p \in Processes, Recheck(p) PROVE FilesAreWritten'
  BY <1>12 DEF Recheck, GiveUp, End, Reclaimed, Continue, At, LockInv, TypeOK, FilesAreWritten,
     Written
<1>13. ASSUME NEW p \in Processes, Acquire(p) PROVE FilesAreWritten'
  BY <1>13 DEF Acquire, GiveUp, End, Continue, At, LockInv, TypeOK, FilesAreWritten, Written
<1>14. ASSUME NEW p \in Processes, Sign(p) PROVE FilesAreWritten'
  BY <1>14 DEF Sign, Continue, End, At, LockInv, TypeOK, FilesAreWritten, Written, Memory,
     PrivateAt, File
<1>15. ASSUME NEW p \in Processes, PrepareJournal(p) PROVE FilesAreWritten'
  BY <1>15 DEF PrepareJournal, At, LockInv, TypeOK, FilesAreWritten, Written
<1>16. ASSUME NEW p \in Processes, Discard(p) PROVE FilesAreWritten'
  BY <1>16 DEF Discard, End, At, LockInv, TypeOK, FilesAreWritten, Written
<1>17. ASSUME NEW p \in Processes, Release(p) PROVE FilesAreWritten'
  BY <1>17 DEF Release, Continue, At, LockInv, TypeOK, FilesAreWritten, Written
<1>18. ASSUME NEW p \in Processes, Finish(p) PROVE FilesAreWritten'
  BY <1>18 DEF Finish, End, At, LockInv, TypeOK, FilesAreWritten, Written
<1>19. ASSUME NEW p \in Processes, Kill(p) PROVE FilesAreWritten'
  BY <1>19 DEF Kill, GiveUp, End, LockInv, TypeOK, FilesAreWritten, Written
<1>20. ASSUME NEW c \in Commands, GitLock(c) PROVE FilesAreWritten'
  BY <1>20 DEF GitLock, LockInv, TypeOK, FilesAreWritten, Written
<1>21. ASSUME NEW c \in Commands, GitUnlock(c) PROVE FilesAreWritten'
  BY <1>21 DEF GitUnlock, LockInv, TypeOK, FilesAreWritten, Written
<1>22. ASSUME NEW c \in Commands, GitKilled(c) PROVE FilesAreWritten'
  BY <1>22 DEF GitKilled, LockInv, TypeOK, FilesAreWritten, Written
<1>23. CASE RemoveStale
  BY <1>23 DEF RemoveStale, Live, LockInv, TypeOK, FilesAreWritten, Written
<1>24. CASE UNCHANGED lockFileVars
  BY <1>24 DEF lockFileVars, LockInv, TypeOK, FilesAreWritten, Written
<1> QED BY <1>1, <1>2, <1>3, <1>4, <1>5, <1>6, <1>7, <1>8, <1>9, <1>10, <1>11, <1>12, <1>13,
   <1>14, <1>15, <1>16, <1>17, <1>18, <1>19, <1>20, <1>21, <1>22, <1>23, <1>24
     DEF LockNext, ProcessStep, Reclaim, GitStep

(* Only a reclaim that found no entry makes one. *)
LEMMA NextOneEntry ==
  ASSUME LockInv, [LockNext]_lockFileVars
  PROVE  OneEntry'
<1>1. ASSUME NEW p \in Processes, Transfer(p) PROVE OneEntry'
  BY <1>1 DEF Transfer, GiveUp, At, LockInv, PrivateAt, OneEntry
<1>2. ASSUME NEW p \in Processes, NEW e \in private, Restore(p, e) \/ Dispose(p, e) \/ Unlink(p, e)
      PROVE  OneEntry'
  BY <1>2 DEF Restore, Dispose, Unlink, GiveUp, LockInv, OneEntry
<1>3. CASE UNCHANGED private
  BY <1>3 DEF LockInv, OneEntry
<1>4. ASSUME NEW p \in Processes, NEW e \in private, Compare(p, e) \/ Resume(p, e)
      PROVE  UNCHANGED private
  BY <1>4 DEF Compare, Resume, Proceed, GiveUp
<1>5. ASSUME NEW p \in Processes,
             \/ StartPublish(p) \/ StartRecover(p) \/ StartDirect(p)
             \/ Scan(p) \/ Mark(p) \/ Recheck(p) \/ Acquire(p) \/ Sign(p)
             \/ PrepareJournal(p) \/ Discard(p) \/ Release(p) \/ Finish(p) \/ Kill(p)
      PROVE  UNCHANGED private
  BY <1>5 DEF StartPublish, StartRecover, StartDirect, Start, Scan, Mark, Recheck, Reclaimed,
     Proceed, GiveUp, Acquire, Sign, PrepareJournal, Discard, Release, Finish, Kill
<1>6. ASSUME (\E c \in Commands : GitStep(c)) \/ RemoveStale \/ UNCHANGED lockFileVars
      PROVE  UNCHANGED private
  BY <1>6 DEF GitStep, GitLock, GitUnlock, GitKilled, RemoveStale, lockFileVars
<1> QED BY <1>1, <1>2, <1>3, <1>4, <1>5, <1>6 DEF LockNext, ProcessStep, Reclaim

(* The steps of a reclaim, and what each knows of the private directory. *)
LEMMA NextPrivateAt ==
  ASSUME LockInv, [LockNext]_lockFileVars
  PROVE  PrivateAt'
<1> USE NameAssumption
<1>1. ASSUME NEW p \in Processes, StartPublish(p) PROVE PrivateAt'
  BY <1>1, DeadStays DEF StartPublish, Start, Fresh, LockInv, TypeOK, Memory, OneAtWork,
     PrivateAt, Dead
<1>2. ASSUME NEW p \in Processes, StartRecover(p) PROVE PrivateAt'
  BY <1>2, DeadStays DEF StartRecover, Start, Fresh, LockInv, TypeOK, Memory, OneAtWork,
     PrivateAt, Dead
<1>3. ASSUME NEW p \in Processes, StartDirect(p) PROVE PrivateAt'
  BY <1>3, DeadStays DEF StartDirect, Start, Fresh, LockInv, TypeOK, Memory, OneAtWork,
     PrivateAt, Dead
<1>4. ASSUME NEW p \in Processes, Scan(p) PROVE PrivateAt'
  BY <1>4, ScanStep, DeadStays DEF GiveUp, End, Proceed, Continue, Reclaimed, At, LockInv,
     TypeOK, Memory, OneAtWork, PrivateAt, Dead
<1>5. ASSUME NEW p \in Processes, Mark(p) PROVE PrivateAt'
  <2>1. CASE GiveUp(p)
    BY <1>5, <2>1, DeadStays
       DEF Mark, GiveUp, End, At, LockInv, TypeOK, Memory, OneAtWork, PrivateAt, Dead
  <2>2. CASE Abandoned(p, indexLock) /\ ~GiveUp(p)
    <3>1. Dead(indexLock) /\ Permits(orna[p].permits, indexLock.bind)
      BY <2>2, AbandonedIsDead DEF Abandoned, LockInv, TypeOK, FilesAreWritten
    <3>2. orna'[indexLock.owner].pc = "over"
      BY <3>1, DeadStays DEF LockInv
    <3>3. orna[p].pc = "mark" /\ private = {} /\ orna[p].installs
      BY <1>5 DEF Mark, At, LockInv, PrivateAt
    <3>4. /\ orna'[p].pc = "transfer" /\ orna'[p].expected = indexLock
          /\ orna'[p].permits = orna[p].permits /\ orna'[p].installs
          /\ private' = {}
          /\ \A q \in Processes \ {p} : orna'[q] = orna[q] /\ orna[q].pc \in {"new", "over"}
      BY <1>5, <2>2, <3>3 DEF Mark, At, LockInv, TypeOK, Memory, OneAtWork
    <3> QED BY <3>1, <3>2, <3>4 DEF PrivateAt, Dead
  <2> QED BY <1>5, <2>1, <2>2 DEF Mark
<1>6. ASSUME NEW p \in Processes, Transfer(p) PROVE PrivateAt'
  <2>1. CASE GiveUp(p)
    BY <1>6, <2>1, DeadStays
       DEF Transfer, GiveUp, End, At, LockInv, TypeOK, Memory, OneAtWork, PrivateAt, Dead
  <2>2. CASE ~GiveUp(p)
    <3>1. /\ orna[p].pc = "transfer" /\ private = {} /\ orna[p].installs
          /\ Dead(orna[p].expected) /\ Permits(orna[p].permits, orna[p].expected.bind)
      BY <1>6 DEF Transfer, At, LockInv, PrivateAt
    <3>2. orna'[orna[p].expected.owner].pc = "over"
      BY <3>1, DeadStays DEF LockInv
    <3>3. /\ orna'[p].pc = "compare" /\ orna'[p].expected = orna[p].expected
          /\ orna'[p].permits = orna[p].permits /\ orna'[p].installs
          /\ \A q \in Processes \ {p} : orna'[q] = orna[q] /\ orna[q].pc \in {"new", "over"}
      BY <1>6, <2>2, <3>1 DEF Transfer, Continue, At, LockInv, TypeOK, Memory, OneAtWork
    <3> DEFINE entry == [kind |-> "claim", of |-> orna[p].expected, file |-> indexLock]
    <3>4. private' = {entry} /\ entry.of = orna[p].expected
      BY <1>6, <2>2, <3>1 DEF Transfer
    <3> HIDE DEF entry
    <3> QED BY <3>1, <3>2, <3>3, <3>4 DEF PrivateAt, Dead
  <2> QED BY <2>1, <2>2
<1>7. ASSUME NEW p \in Processes, NEW e \in private, Compare(p, e) PROVE PrivateAt'
  <2>1. /\ orna[p].pc = "compare" /\ orna[p].installs /\ private = {e}
        /\ Dead(orna[p].expected) /\ Permits(orna[p].permits, orna[p].expected.bind)
        /\ e.of = orna[p].expected
    BY <1>7 DEF Compare, At, LockInv, PrivateAt, OneEntry
  <2>2. Abandoned(p, e.file) <=> Dead(e.file) /\ Permits(orna[p].permits, e.file.bind)
    BY FileTypes, AbandonedIsDead DEF LockInv, TypeOK, FilesAreWritten
  <2>3. \A f : Dead(f) => orna'[f.owner].pc = "over"
    BY DeadStays DEF LockInv
  <2>4. /\ orna'[p].pc = IF Matches(e) THEN "dispose" ELSE "restore"
        /\ orna'[p].expected = orna[p].expected
        /\ orna'[p].permits = orna[p].permits /\ orna'[p].installs
        /\ private' = {e}
        /\ \A q \in Processes \ {p} : orna'[q] = orna[q] /\ orna[q].pc \in {"new", "over"}
    BY <1>7, <2>1, <2>2 DEF Compare, Matches, Proceed, Continue, At, LockInv, TypeOK, Memory,
       OneAtWork
  <2> QED BY <2>1, <2>3, <2>4 DEF PrivateAt, Dead, Matches
<1>8. ASSUME NEW p \in Processes, NEW e \in private, Restore(p, e) PROVE PrivateAt'
  BY <1>8, DeadStays DEF Restore, GiveUp, End, At, LockInv, TypeOK, Memory, OneAtWork,
     PrivateAt, Dead, OneEntry
<1>9. ASSUME NEW p \in Processes, NEW e \in private, Resume(p, e) PROVE PrivateAt'
  <2>1. CASE GiveUp(p)
    BY <1>9, <2>1, DeadStays
       DEF Resume, GiveUp, End, At, LockInv, TypeOK, Memory, OneAtWork, PrivateAt, Dead
  <2>2. CASE ~GiveUp(p)
    <3>1. orna[p].pc = "resume" /\ orna[p].installs /\ private = {e}
      BY <1>9 DEF Resume, At, LockInv, PrivateAt, OneEntry
    <3>2. Dead(e.file) /\ Matches(e)
      BY <1>9, <2>2, FileTypes, AbandonedIsDead DEF Resume, Matches, LockInv, TypeOK,
         FilesAreWritten
    <3>3. orna'[e.file.owner].pc = "over"
      BY <3>2, DeadStays DEF LockInv
    <3>4. /\ orna'[p].pc \in {"dispose", "unlink"} /\ orna'[p].installs
          /\ private' = {e}
          /\ \A q \in Processes \ {p} : orna'[q] = orna[q] /\ orna[q].pc \in {"new", "over"}
      BY <1>9, <2>2, <3>1, <3>2
         DEF Resume, Matches, Proceed, Continue, At, LockInv, TypeOK, Memory, OneAtWork
    <3> QED BY <3>2, <3>3, <3>4 DEF PrivateAt, Dead
  <2> QED BY <2>1, <2>2
<1>10. ASSUME NEW p \in Processes, NEW e \in private, Dispose(p, e) PROVE PrivateAt'
  <2>1. /\ orna[p].pc = "dispose" /\ orna[p].installs /\ private = {e}
        /\ Dead(e.file) /\ Matches(e)
    BY <1>10 DEF Dispose, At, LockInv, PrivateAt, OneEntry
  <2>2. orna'[e.file.owner].pc = "over"
    BY <2>1, DeadStays DEF LockInv
  <2> DEFINE d == [e EXCEPT !.kind = "tombstone"]
  <2>3. d.of = e.of /\ d.file = e.file
    BY DEF LockInv, TypeOK, Entries
  <2>4. /\ orna'[p].pc = "unlink" /\ orna'[p].installs
        /\ private' = {d}
        /\ \A q \in Processes \ {p} : orna'[q] = orna[q] /\ orna[q].pc \in {"new", "over"}
    BY <1>10, <2>1 DEF Dispose, Continue, At, LockInv, TypeOK, Memory, OneAtWork
  <2> HIDE DEF d
  <2> QED BY <2>1, <2>2, <2>3, <2>4 DEF PrivateAt, Dead, Matches
<1>11. ASSUME NEW p \in Processes, NEW e \in private, Unlink(p, e) PROVE PrivateAt'
  BY <1>11, DeadStays DEF Unlink, At, LockInv, TypeOK, Memory, OneAtWork, PrivateAt, Dead,
     OneEntry
<1>12. ASSUME NEW p \in Processes, Recheck(p) PROVE PrivateAt'
  BY <1>12, DeadStays DEF Recheck, GiveUp, End, Reclaimed, Continue, At, LockInv, TypeOK, Memory,
     OneAtWork, PrivateAt, Dead
<1>13. ASSUME NEW p \in Processes, Acquire(p) PROVE PrivateAt'
  BY <1>13, DeadStays DEF Acquire, GiveUp, End, Continue, At, LockInv, TypeOK, Memory, OneAtWork,
     PrivateAt, Dead
<1>14. ASSUME NEW p \in Processes, Sign(p) PROVE PrivateAt'
  BY <1>14, DeadStays DEF Sign, Continue, End, At, LockInv, TypeOK, Memory, OneAtWork, PrivateAt, Dead
<1>15. ASSUME NEW p \in Processes, PrepareJournal(p) PROVE PrivateAt'
  BY <1>15, DeadStays DEF PrepareJournal, At, LockInv, TypeOK, Memory, OneAtWork, PrivateAt, Dead
<1>16. ASSUME NEW p \in Processes, Discard(p) PROVE PrivateAt'
  BY <1>16, DeadStays DEF Discard, End, At, LockInv, TypeOK, Memory, OneAtWork, PrivateAt, Dead
<1>17. ASSUME NEW p \in Processes, Release(p) PROVE PrivateAt'
  BY <1>17, DeadStays DEF Release, Continue, At, LockInv, TypeOK, Memory, OneAtWork, PrivateAt, Dead
<1>18. ASSUME NEW p \in Processes, Finish(p) PROVE PrivateAt'
  BY <1>18, DeadStays DEF Finish, End, At, LockInv, TypeOK, Memory, OneAtWork, PrivateAt, Dead
<1>19. ASSUME NEW p \in Processes, Kill(p) PROVE PrivateAt'
  BY <1>19, DeadStays DEF Kill, GiveUp, End, LockInv, TypeOK, Memory, OneAtWork, PrivateAt, Dead
<1>20. ASSUME NEW c \in Commands, GitLock(c) PROVE PrivateAt'
  BY <1>20, DeadStays DEF GitLock, LockInv, TypeOK, Memory, OneAtWork, PrivateAt, Dead
<1>21. ASSUME NEW c \in Commands, GitUnlock(c) PROVE PrivateAt'
  BY <1>21, DeadStays DEF GitUnlock, LockInv, TypeOK, Memory, OneAtWork, PrivateAt, Dead
<1>22. ASSUME NEW c \in Commands, GitKilled(c) PROVE PrivateAt'
  BY <1>22, DeadStays DEF GitKilled, LockInv, TypeOK, Memory, OneAtWork, PrivateAt, Dead
<1>23. CASE RemoveStale
  BY <1>23, DeadStays DEF RemoveStale, Live, LockInv, TypeOK, Memory, OneAtWork, PrivateAt, Dead
<1>24. CASE UNCHANGED lockFileVars
  BY <1>24 DEF lockFileVars, LockInv, TypeOK, Memory, OneAtWork, PrivateAt, Dead
<1> QED BY <1>1, <1>2, <1>3, <1>4, <1>5, <1>6, <1>7, <1>8, <1>9, <1>10, <1>11, <1>12, <1>13,
   <1>14, <1>15, <1>16, <1>17, <1>18, <1>19, <1>20, <1>21, <1>22, <1>23, <1>24
     DEF LockNext, ProcessStep, Reclaim, GitStep

(* Nobody but Git touches the path while a process that created its lock is *)
(* at work.                                                                *)
LEMMA NextOwnOrGit ==
  ASSUME LockInv, [LockNext]_lockFileVars
  PROVE  OwnOrGit'
<1> USE NameAssumption DEF LockInv, TypeOK, OwnOrGit
<1>1. ASSUME NEW p \in Processes, ProcessStep(p)
      PROVE  OwnOrGit'
  <2> SUFFICES ASSUME NEW q \in Processes,
                      orna'[q].pc = "sign" \/ (orna'[q].pc = "hold" /\ orna'[q].installs)
               PROVE  OwnOrGit!(q)!2'
    OBVIOUS
  <2>1. coordinator \in {Nil, p}
    BY <1>1 DEF OneAtWork, ProcessStep, StartPublish, StartRecover, StartDirect, Start, Reclaim,
       Scan, Mark, Transfer, Compare, Restore, Resume, Dispose, Unlink, Recheck, Acquire, Sign,
       PrepareJournal, Discard, Release, Finish, Kill, At
  <2>2. q = p
    BY <1>1, <2>1, OwnStep DEF OneAtWork
  <2>3. CASE StartPublish(p) \/ StartRecover(p) \/ StartDirect(p)
    <3>1. ASSUME NEW pc, NEW permits, NEW bind, NEW installs, Start(p, pc, permits, bind, installs)
          PROVE  orna'[p].pc = pc
      BY <3>1 DEF Start, Fresh
    <3>2. orna'[p].pc \in {"scan", "acquire"}
      BY <2>3, <3>1 DEF StartPublish, StartRecover, StartDirect
    <3> QED BY <2>2, <3>2
  <2>4. CASE Reclaim(p)
    BY <2>2, <2>4 DEF Reclaim, Scan, Mark, Transfer, Compare, Restore, Resume, Dispose, Unlink,
       Recheck, At, Reclaimed, Proceed, GiveUp, End, Continue, Memory
  <2>5. CASE Acquire(p)
    BY <2>2, <2>5 DEF Acquire, GiveUp, End, Continue, Memory
  <2>6. CASE Sign(p)
    BY <2>2, <2>6, FileTypes DEF Sign, At, End, Continue, Memory, File
  <2>7. CASE PrepareJournal(p)
    BY <2>2, <2>7 DEF PrepareJournal, At, Memory
  <2>8. CASE Discard(p) \/ Release(p) \/ Finish(p) \/ Kill(p)
    BY <2>2, <2>8 DEF Discard, Release, Finish, Kill, GiveUp, End, Continue, Memory
  <2> QED
    BY <1>1, <2>3, <2>4, <2>5, <2>6, <2>7, <2>8 DEF ProcessStep
<1>2. ASSUME NEW c \in Commands, GitStep(c)
      PROVE  OwnOrGit'
  BY <1>2 DEF GitStep, GitLock, GitUnlock, GitKilled
<1>3. CASE RemoveStale \/ UNCHANGED lockFileVars
  BY <1>3 DEF RemoveStale, lockFileVars
<1> QED BY <1>1, <1>2, <1>3 DEF LockNext

(* A rename may displace a running Git command, and then leaves an entry   *)
(* whose name does not match.                                              *)
LEMMA NextGitHasItsFile ==
  ASSUME LockInv, [LockNext]_lockFileVars
  PROVE  GitHasItsFile'
<1> USE NameAssumption DEF GitSparesGit
<1>1. ASSUME NEW p \in Processes, StartPublish(p) PROVE GitHasItsFile'
  BY <1>1 DEF StartPublish, Start, Fresh, LockInv, TypeOK, Memory, GitHasItsFile, GitFile,
     Misnamed, Matches
<1>2. ASSUME NEW p \in Processes, StartRecover(p) PROVE GitHasItsFile'
  BY <1>2 DEF StartRecover, Start, Fresh, LockInv, TypeOK, Memory, GitHasItsFile, GitFile,
     Misnamed, Matches
<1>3. ASSUME NEW p \in Processes, StartDirect(p) PROVE GitHasItsFile'
  BY <1>3 DEF StartDirect, Start, Fresh, LockInv, TypeOK, Memory, GitHasItsFile, GitFile,
     Misnamed, Matches
<1>4. ASSUME NEW p \in Processes, Scan(p) PROVE GitHasItsFile'
  BY <1>4, ScanStep DEF GiveUp, End, Proceed, Continue, Reclaimed, At, LockInv, TypeOK, Memory,
     GitHasItsFile, GitFile, Misnamed, Matches
<1>5. ASSUME NEW p \in Processes, Mark(p) PROVE GitHasItsFile'
  BY <1>5 DEF Mark, GiveUp, End, At, LockInv, TypeOK, Memory, GitHasItsFile, GitFile,
     Misnamed, Matches
<1>6. ASSUME NEW p \in Processes, Transfer(p) PROVE GitHasItsFile'
  <2>1. CASE GiveUp(p)
    BY <1>6, <2>1 DEF Transfer, GiveUp, End, At, LockInv, TypeOK, Memory, OneAtWork,
       GitHasItsFile, GitFile, Misnamed, Matches
  <2>2. CASE ~GiveUp(p)
    <3> DEFINE entry == [kind |-> "claim", of |-> orna[p].expected, file |-> indexLock]
    <3>1. private = {} /\ private' = {entry} /\ UNCHANGED git
      BY <1>6, <2>2 DEF Transfer, At, LockInv, PrivateAt
    <3>2. entry.of.bind \in Processes /\ entry.of = orna[p].expected /\ entry.file = indexLock
      BY <1>6 DEF Transfer, At, LockInv, PrivateAt, Dead
    <3>3. ASSUME GitSparesGit, NEW c \in Commands, git'[c] = "holding"
          PROVE  entry.file = GitFile(c) /\ ~Matches(entry)
      <4>1. indexLock = GitFile(c)
        BY <3>1, <3>3 DEF LockInv, GitHasItsFile, Misnamed
      <4> QED BY <4>1, <3>2 DEF GitFile, Matches
    <3> HIDE DEF entry
    <3> QED BY <3>1, <3>3 DEF GitHasItsFile, Misnamed, Matches
  <2> QED BY <2>1, <2>2
<1>7. ASSUME NEW p \in Processes, NEW e \in private, Compare(p, e) PROVE GitHasItsFile'
  BY <1>7 DEF Compare, Proceed, Continue, At, LockInv, TypeOK, Memory, GitHasItsFile, GitFile,
     Misnamed, Matches, PrivateAt
<1>8. ASSUME NEW p \in Processes, NEW e \in private, Restore(p, e) PROVE GitHasItsFile'
  <2>1. CASE GiveUp(p)
    BY <2>1 DEF GiveUp, End, LockInv, TypeOK, Memory, GitHasItsFile, GitFile, Misnamed, Matches
  <2>2. CASE ~GiveUp(p)
    <3>1. indexLock = Nil /\ indexLock' = e.file /\ UNCHANGED git /\ orna[p].pc = "restore"
      BY <1>8, <2>2 DEF Restore, At
    <3>2. ASSUME GitSparesGit, NEW c \in Commands, git'[c] = "holding"
          PROVE  indexLock' = GitFile(c)
      <4>1. GitFile(c) \in File
        BY FileTypes DEF GitFile
      <4> QED BY <3>1, <3>2, <4>1 DEF LockInv, GitHasItsFile
    <3> QED BY <3>1, <3>2 DEF GitHasItsFile
  <2> QED BY <2>1, <2>2
<1>9. ASSUME NEW p \in Processes, NEW e \in private, Resume(p, e) PROVE GitHasItsFile'
  BY <1>9 DEF Resume, Proceed, Continue, GiveUp, End, At, LockInv, TypeOK, Memory, GitHasItsFile,
     GitFile, Misnamed, Matches, PrivateAt
<1>10. ASSUME NEW p \in Processes, NEW e \in private, Dispose(p, e) PROVE GitHasItsFile'
  BY <1>10 DEF Dispose, Continue, At, LockInv, TypeOK, Memory, GitHasItsFile, GitFile, Misnamed,
     Matches, PrivateAt, OneEntry
<1>11. ASSUME NEW p \in Processes, NEW e \in private, Unlink(p, e) PROVE GitHasItsFile'
  BY <1>11 DEF Unlink, At, LockInv, TypeOK, Memory, GitHasItsFile, GitFile, Misnamed, Matches,
     PrivateAt, OneEntry
<1>12. ASSUME NEW p \in Processes, Recheck(p) PROVE GitHasItsFile'
  BY <1>12 DEF Recheck, GiveUp, End, Reclaimed, Continue, At, LockInv, TypeOK, Memory,
     GitHasItsFile, GitFile, Misnamed, Matches
<1>13. ASSUME NEW p \in Processes, Acquire(p) PROVE GitHasItsFile'
  <2>1. CASE GiveUp(p)
    BY <2>1 DEF GiveUp, End, LockInv, TypeOK, Memory, GitHasItsFile, GitFile, Misnamed, Matches
  <2>2. CASE ~GiveUp(p)
    <3>1. /\ indexLock = Nil /\ UNCHANGED <<git, private>>
          /\ \A q \in Processes : orna'[q].pc \notin {"compare", "restore"}
      BY <1>13, <2>2 DEF Acquire, Continue, At, LockInv, TypeOK, Memory, OneAtWork
    <3>2. \A c \in Commands : GitFile(c) \in File
      BY FileTypes DEF GitFile
    <3>3. Misnamed' = Misnamed
      BY <3>1 DEF Misnamed, Matches
    <3> QED BY <3>1, <3>2, <3>3 DEF LockInv, GitHasItsFile
  <2> QED BY <2>1, <2>2
<1>14. ASSUME NEW p \in Processes, Sign(p) PROVE GitHasItsFile'
  BY <1>14 DEF Sign, Continue, End, At, LockInv, TypeOK, Memory, GitHasItsFile, GitFile, Misnamed,
     Matches, SignsItsFile, OneAtWork
<1>15. ASSUME NEW p \in Processes, PrepareJournal(p) PROVE GitHasItsFile'
  BY <1>15 DEF PrepareJournal, At, LockInv, TypeOK, Memory, GitHasItsFile, GitFile, Misnamed, Matches
<1>16. ASSUME NEW p \in Processes, Discard(p) PROVE GitHasItsFile'
  BY <1>16 DEF Discard, End, At, LockInv, TypeOK, Memory, GitHasItsFile, GitFile, Misnamed,
     Matches
<1>17. ASSUME NEW p \in Processes, Release(p) PROVE GitHasItsFile'
  BY <1>17 DEF Release, Continue, At, LockInv, TypeOK, Memory, GitHasItsFile, GitFile, Misnamed,
     Matches
<1>18. ASSUME NEW p \in Processes, Finish(p) PROVE GitHasItsFile'
  BY <1>18 DEF Finish, End, At, LockInv, TypeOK, Memory, GitHasItsFile, GitFile, Misnamed, Matches
<1>19. ASSUME NEW p \in Processes, Kill(p) PROVE GitHasItsFile'
  BY <1>19 DEF Kill, GiveUp, End, LockInv, TypeOK, Memory, GitHasItsFile, GitFile, Misnamed,
     Matches
<1>20. ASSUME NEW c \in Commands, GitLock(c) PROVE GitHasItsFile'
  <2>1. /\ indexLock = Nil /\ indexLock' = GitFile(c) /\ UNCHANGED <<private, orna>>
        /\ git' = [git EXCEPT ![c] = "holding"] /\ git[c] = "new"
    BY <1>20 DEF GitLock, GitFile
  <2>2. GitSparesGit' => GitSparesGit
    BY <2>1 DEF LockInv, TypeOK
  <2>3. ASSUME GitSparesGit, NEW d \in Commands \ {c}, git'[d] = "holding"
        PROVE  /\ Misnamed
               /\ \A p \in Processes, e \in private :
                    orna[p].pc \in {"compare", "restore"} => e.file = GitFile(d)
    <3>1. git[d] = "holding" /\ GitFile(d) \in File
      BY <2>1, <2>3, FileTypes DEF LockInv, TypeOK, GitFile
    <3> QED BY <2>1, <2>3, <3>1 DEF LockInv, GitHasItsFile
  <2> QED BY <2>1, <2>2, <2>3 DEF GitHasItsFile, Misnamed, Matches
<1>21. ASSUME NEW c \in Commands, GitUnlock(c) PROVE GitHasItsFile'
  BY <1>21 DEF GitUnlock, LockInv, TypeOK, Memory, GitHasItsFile, GitFile, Misnamed, Matches
<1>22. ASSUME NEW c \in Commands, GitKilled(c) PROVE GitHasItsFile'
  BY <1>22 DEF GitKilled, LockInv, TypeOK, Memory, GitHasItsFile, GitFile, Misnamed, Matches
<1>23. CASE RemoveStale
  BY <1>23 DEF RemoveStale, Live, LockInv, TypeOK, Memory, GitHasItsFile, GitFile, Misnamed,
     Matches
<1>24. CASE UNCHANGED lockFileVars
  BY <1>24 DEF lockFileVars, LockInv, TypeOK, Memory, GitHasItsFile, GitFile, Misnamed, Matches
<1> QED BY <1>1, <1>2, <1>3, <1>4, <1>5, <1>6, <1>7, <1>8, <1>9, <1>10, <1>11, <1>12, <1>13,
   <1>14, <1>15, <1>16, <1>17, <1>18, <1>19, <1>20, <1>21, <1>22, <1>23, <1>24
     DEF LockNext, ProcessStep, Reclaim, GitStep

(* Only a displaced Git command removes the file of a process that signs. *)
LEMMA NextSignsItsFile ==
  ASSUME LockInv, [LockNext]_lockFileVars
  PROVE  SignsItsFile'
<1> USE NameAssumption DEF GitSparesGit
<1>1. ASSUME NEW p \in Processes, StartPublish(p) PROVE SignsItsFile'
  BY <1>1 DEF StartPublish, Start, Fresh, LockInv, TypeOK, Memory, OneAtWork, SignsItsFile,
     Misnamed, Matches
<1>2. ASSUME NEW p \in Processes, StartRecover(p) PROVE SignsItsFile'
  BY <1>2 DEF StartRecover, Start, Fresh, LockInv, TypeOK, Memory, OneAtWork, SignsItsFile,
     Misnamed, Matches
<1>3. ASSUME NEW p \in Processes, StartDirect(p) PROVE SignsItsFile'
  BY <1>3 DEF StartDirect, Start, Fresh, LockInv, TypeOK, Memory, OneAtWork, SignsItsFile,
     Misnamed, Matches
<1>4. ASSUME NEW p \in Processes, Scan(p) PROVE SignsItsFile'
  BY <1>4, ScanStep DEF GiveUp, End, Proceed, Continue, Reclaimed, At, LockInv, TypeOK, Memory,
     OneAtWork, SignsItsFile, Misnamed, Matches
<1>5. ASSUME NEW p \in Processes, Mark(p) PROVE SignsItsFile'
  BY <1>5 DEF Mark, GiveUp, End, At, LockInv, TypeOK, Memory, OneAtWork, SignsItsFile,
     Misnamed, Matches
<1>6. ASSUME NEW p \in Processes, Transfer(p) PROVE SignsItsFile'
  BY <1>6 DEF Transfer, GiveUp, End, Continue, At, LockInv, TypeOK, Memory, OneAtWork,
     SignsItsFile, Misnamed, Matches
<1>7. ASSUME NEW p \in Processes, NEW e \in private, Compare(p, e) PROVE SignsItsFile'
  BY <1>7 DEF Compare, Proceed, Continue, At, LockInv, TypeOK, Memory, OneAtWork, SignsItsFile,
     Misnamed, Matches
<1>8. ASSUME NEW p \in Processes, NEW e \in private, Restore(p, e) PROVE SignsItsFile'
  BY <1>8 DEF Restore, GiveUp, End, At, LockInv, TypeOK, Memory, OneAtWork, SignsItsFile,
     Misnamed, Matches
<1>9. ASSUME NEW p \in Processes, NEW e \in private, Resume(p, e) PROVE SignsItsFile'
  BY <1>9 DEF Resume, Proceed, Continue, GiveUp, End, At, LockInv, TypeOK, Memory, OneAtWork,
     SignsItsFile, Misnamed, Matches
<1>10. ASSUME NEW p \in Processes, NEW e \in private, Dispose(p, e) PROVE SignsItsFile'
  BY <1>10 DEF Dispose, Continue, At, LockInv, TypeOK, Memory, OneAtWork, SignsItsFile, Misnamed,
     Matches, PrivateAt
<1>11. ASSUME NEW p \in Processes, NEW e \in private, Unlink(p, e) PROVE SignsItsFile'
  BY <1>11 DEF Unlink, At, LockInv, TypeOK, Memory, OneAtWork, SignsItsFile, Misnamed, Matches
<1>12. ASSUME NEW p \in Processes, Recheck(p) PROVE SignsItsFile'
  BY <1>12 DEF Recheck, GiveUp, End, Reclaimed, Continue, At, LockInv, TypeOK, Memory, OneAtWork,
     SignsItsFile, Misnamed, Matches
<1>13. ASSUME NEW p \in Processes, Acquire(p) PROVE SignsItsFile'
  BY <1>13 DEF Acquire, GiveUp, End, Continue, At, LockInv, TypeOK, Memory, OneAtWork,
     SignsItsFile, Misnamed, Matches
<1>14. ASSUME NEW p \in Processes, Sign(p) PROVE SignsItsFile'
  BY <1>14 DEF Sign, Continue, End, At, LockInv, TypeOK, Memory, OneAtWork, SignsItsFile,
     Misnamed, Matches, PrivateAt
<1>15. ASSUME NEW p \in Processes, PrepareJournal(p) PROVE SignsItsFile'
  BY <1>15 DEF PrepareJournal, At, LockInv, TypeOK, Memory, OneAtWork, SignsItsFile, Misnamed, Matches
<1>16. ASSUME NEW p \in Processes, Discard(p) PROVE SignsItsFile'
  BY <1>16 DEF Discard, End, At, LockInv, TypeOK, Memory, OneAtWork, SignsItsFile, Misnamed,
     Matches
<1>17. ASSUME NEW p \in Processes, Release(p) PROVE SignsItsFile'
  BY <1>17 DEF Release, Continue, At, LockInv, TypeOK, Memory, OneAtWork, SignsItsFile, Misnamed,
     Matches
<1>18. ASSUME NEW p \in Processes, Finish(p) PROVE SignsItsFile'
  BY <1>18 DEF Finish, End, At, LockInv, TypeOK, Memory, OneAtWork, SignsItsFile, Misnamed,
     Matches
<1>19. ASSUME NEW p \in Processes, Kill(p) PROVE SignsItsFile'
  BY <1>19 DEF Kill, GiveUp, End, LockInv, TypeOK, Memory, OneAtWork, SignsItsFile, Misnamed,
     Matches
<1>20. ASSUME NEW c \in Commands, GitLock(c) PROVE SignsItsFile'
  <2>1. /\ indexLock = Nil /\ UNCHANGED <<private, orna>>
        /\ git' = [git EXCEPT ![c] = "holding"] /\ git[c] = "new"
    BY <1>20 DEF GitLock
  <2> SUFFICES ASSUME GitSparesGit' PROVE SignsItsFile'
    BY DEF SignsItsFile
  <2>s. GitSparesGit
    BY <2>1 DEF LockInv, TypeOK
  <2>2. ASSUME NEW p \in Processes, orna[p].pc = "sign" PROVE Misnamed
    BY <2>1, <2>s, <2>2, FileTypes DEF LockInv, SignsItsFile
  <2>3. ASSUME NEW p \in Processes, orna[p].pc = "hold", orna[p].installs PROVE FALSE
    <3>1. [owner |-> p, bind |-> orna[p].bind] \in File
      BY <2>3, FileTypes DEF LockInv, TypeOK, Memory, PrivateAt
    <3> QED BY <2>1, <2>s, <2>3, <3>1 DEF LockInv, SignsItsFile
  <2> QED BY <2>1, <2>2, <2>3 DEF SignsItsFile, Misnamed, Matches
<1>21. ASSUME NEW c \in Commands, GitUnlock(c) PROVE SignsItsFile'
  <2>1. git[c] = "holding" /\ UNCHANGED <<private, orna>>
    BY <1>21 DEF GitUnlock
  <2> SUFFICES ASSUME GitSparesGit' PROVE SignsItsFile'
    BY DEF SignsItsFile
  <2>s. GitSparesGit
    BY <1>21 DEF GitUnlock, LockInv, TypeOK
  <2>2. indexLock = GitFile(c) \/ Misnamed
    BY <2>1, <2>s DEF LockInv, GitHasItsFile
  <2>3. ASSUME NEW p \in Processes, orna[p].pc = "sign" PROVE Misnamed
    BY <2>2, <2>s, <2>3 DEF LockInv, SignsItsFile, GitFile
  <2>4. ASSUME NEW p \in Processes, orna[p].pc = "hold", orna[p].installs PROVE FALSE
    <3>1. private = {} /\ indexLock = [owner |-> p, bind |-> orna[p].bind]
      BY <2>s, <2>4 DEF LockInv, SignsItsFile, PrivateAt
    <3> QED BY <2>2, <3>1 DEF GitFile, Misnamed
  <2> QED BY <2>1, <2>3, <2>4 DEF SignsItsFile, Misnamed, Matches
<1>22. ASSUME NEW c \in Commands, GitKilled(c) PROVE SignsItsFile'
  BY <1>22 DEF GitKilled, LockInv, TypeOK, Memory, OneAtWork, SignsItsFile, Misnamed, Matches
<1>23. CASE RemoveStale
  BY <1>23 DEF RemoveStale, Live, LockInv, TypeOK, Memory, OneAtWork, SignsItsFile, Misnamed,
     Matches
<1>24. CASE UNCHANGED lockFileVars
  BY <1>24 DEF lockFileVars, LockInv, TypeOK, Memory, OneAtWork, SignsItsFile, Misnamed, Matches
<1> QED BY <1>1, <1>2, <1>3, <1>4, <1>5, <1>6, <1>7, <1>8, <1>9, <1>10, <1>11, <1>12, <1>13,
   <1>14, <1>15, <1>16, <1>17, <1>18, <1>19, <1>20, <1>21, <1>22, <1>23, <1>24
     DEF LockNext, ProcessStep, Reclaim, GitStep

(* A journal is written and cleared by the process at work, whose binding it *)
(* is.                                                                     *)
LEMMA NextBoundToJournal ==
  ASSUME LockInv, [LockNext]_lockFileVars
  PROVE  BoundToJournal'
<1> USE NameAssumption
<1>1. ASSUME NEW p \in Processes, StartPublish(p) PROVE BoundToJournal'
  BY <1>1 DEF StartPublish, Start, Fresh, LockInv, TypeOK, Memory, OneAtWork, BoundToJournal,
     Bound
<1>2. ASSUME NEW p \in Processes, StartRecover(p) PROVE BoundToJournal'
  BY <1>2 DEF StartRecover, Start, Fresh, LockInv, TypeOK, Memory, OneAtWork, BoundToJournal,
     Bound, Bindings
<1>3. ASSUME NEW p \in Processes, StartDirect(p) PROVE BoundToJournal'
  BY <1>3 DEF StartDirect, Start, Fresh, LockInv, TypeOK, Memory, OneAtWork, BoundToJournal, Bound
<1>4. ASSUME NEW p \in Processes, Scan(p) PROVE BoundToJournal'
  BY <1>4, ScanStep DEF GiveUp, End, Proceed, Continue, Reclaimed, At, LockInv, TypeOK, Memory,
     OneAtWork, BoundToJournal, Bound
<1>5. ASSUME NEW p \in Processes, Mark(p) PROVE BoundToJournal'
  BY <1>5 DEF Mark, GiveUp, End, At, LockInv, TypeOK, Memory, OneAtWork, BoundToJournal, Bound
<1>6. ASSUME NEW p \in Processes, Transfer(p) PROVE BoundToJournal'
  BY <1>6 DEF Transfer, GiveUp, End, Continue, At, LockInv, TypeOK, Memory, OneAtWork,
     BoundToJournal, Bound
<1>7. ASSUME NEW p \in Processes, NEW e \in private, Compare(p, e) PROVE BoundToJournal'
  BY <1>7 DEF Compare, Proceed, Continue, At, LockInv, TypeOK, Memory, OneAtWork, BoundToJournal,
     Bound
<1>8. ASSUME NEW p \in Processes, NEW e \in private, Restore(p, e) PROVE BoundToJournal'
  <2>1. e.file \in File /\ Bound(e.file.bind) /\ UNCHANGED prepared
    BY <1>8, FileTypes DEF Restore, GiveUp, LockInv, TypeOK, BoundToJournal
  <2> QED BY <1>8, <2>1 DEF Restore, GiveUp, End, LockInv, TypeOK, Memory, BoundToJournal, Bound
<1>9. ASSUME NEW p \in Processes, NEW e \in private, Resume(p, e) PROVE BoundToJournal'
  BY <1>9 DEF Resume, Proceed, Continue, GiveUp, End, At, LockInv, TypeOK, Memory, OneAtWork,
     BoundToJournal, Bound
<1>10. ASSUME NEW p \in Processes, NEW e \in private, Dispose(p, e) PROVE BoundToJournal'
  BY <1>10 DEF Dispose, Continue, At, LockInv, TypeOK, Memory, OneAtWork, BoundToJournal, Bound,
     Entries
<1>11. ASSUME NEW p \in Processes, NEW e \in private, Unlink(p, e) PROVE BoundToJournal'
  BY <1>11 DEF Unlink, At, LockInv, TypeOK, Memory, OneAtWork, BoundToJournal, Bound
<1>12. ASSUME NEW p \in Processes, Recheck(p) PROVE BoundToJournal'
  BY <1>12 DEF Recheck, GiveUp, End, Reclaimed, Continue, At, LockInv, TypeOK, Memory, OneAtWork,
     BoundToJournal, Bound
<1>13. ASSUME NEW p \in Processes, Acquire(p) PROVE BoundToJournal'
  BY <1>13 DEF Acquire, GiveUp, End, Continue, At, LockInv, TypeOK, Memory, OneAtWork,
     BoundToJournal, Bound
<1>14. ASSUME NEW p \in Processes, Sign(p) PROVE BoundToJournal'
  BY <1>14 DEF Sign, Continue, End, At, LockInv, TypeOK, Memory, OneAtWork, BoundToJournal, Bound
<1>15. ASSUME NEW p \in Processes, PrepareJournal(p) PROVE BoundToJournal'
  BY <1>15 DEF PrepareJournal, At, LockInv, TypeOK, Memory, OneAtWork, BoundToJournal, Bound,
     PrivateAt, OwnOrGit, FilesAreWritten, Written
<1>16. ASSUME NEW p \in Processes, Discard(p) PROVE BoundToJournal'
  BY <1>16 DEF Discard, End, At, LockInv, TypeOK, Memory, OneAtWork, BoundToJournal, Bound
<1>17. ASSUME NEW p \in Processes, Release(p) PROVE BoundToJournal'
  BY <1>17 DEF Release, Continue, At, LockInv, TypeOK, Memory, OneAtWork, BoundToJournal, Bound
<1>18. ASSUME NEW p \in Processes, Finish(p) PROVE BoundToJournal'
  BY <1>18 DEF Finish, End, At, LockInv, TypeOK, Memory, OneAtWork, BoundToJournal, Bound
<1>19. ASSUME NEW p \in Processes, Kill(p) PROVE BoundToJournal'
  BY <1>19 DEF Kill, GiveUp, End, LockInv, TypeOK, Memory, OneAtWork, BoundToJournal, Bound
<1>20. ASSUME NEW c \in Commands, GitLock(c) PROVE BoundToJournal'
  BY <1>20 DEF GitLock, LockInv, TypeOK, Memory, OneAtWork, BoundToJournal, Bound
<1>21. ASSUME NEW c \in Commands, GitUnlock(c) PROVE BoundToJournal'
  BY <1>21 DEF GitUnlock, LockInv, TypeOK, Memory, OneAtWork, BoundToJournal, Bound
<1>22. ASSUME NEW c \in Commands, GitKilled(c) PROVE BoundToJournal'
  BY <1>22 DEF GitKilled, LockInv, TypeOK, Memory, OneAtWork, BoundToJournal, Bound
<1>23. CASE RemoveStale
  BY <1>23 DEF RemoveStale, Live, LockInv, TypeOK, Memory, OneAtWork, BoundToJournal, Bound
<1>24. CASE UNCHANGED lockFileVars
  BY <1>24 DEF lockFileVars, LockInv, TypeOK, Memory, OneAtWork, BoundToJournal, Bound
<1> QED BY <1>1, <1>2, <1>3, <1>4, <1>5, <1>6, <1>7, <1>8, <1>9, <1>10, <1>11, <1>12, <1>13,
   <1>14, <1>15, <1>16, <1>17, <1>18, <1>19, <1>20, <1>21, <1>22, <1>23, <1>24
     DEF LockNext, ProcessStep, Reclaim, GitStep

-----------------------------------------------------------------------------
(* No lock, no private entry and no process at work. *)
LEMMA InitLockInv ==
  ASSUME LockInit
  PROVE  LockInv
<1>1. TypeOK
  <2>1. Fresh \in Memory
    BY DEF Fresh, Memory, Points
  <2> QED BY <2>1 DEF LockInit, TypeOK
<1>2. \A p \in Processes : orna[p].pc = "new" /\ ~orna[p].installs
  BY DEF LockInit, Fresh
<1>3. FilesAreWritten /\ OneAtWork /\ OneEntry /\ PrivateAt
  BY <1>2, NameAssumption DEF LockInit, FilesAreWritten, OneAtWork, OneEntry, PrivateAt
<1>4. GitHasItsFile /\ OwnOrGit /\ SignsItsFile /\ BoundToJournal
  BY <1>2 DEF LockInit, OwnOrGit, GitHasItsFile, SignsItsFile, BoundToJournal
<1> QED BY <1>1, <1>3, <1>4 DEF LockInv

(* Every step of Orna processes, Git commands and the person at the        *)
(* keyboard keeps LockInv.                                                 *)
THEOREM LockInvariant == LockSpec => []LockInv
<1>1. LockInit => LockInv
  BY InitLockInv
<1>2. LockInv /\ [LockNext]_lockFileVars => LockInv'
  <2> SUFFICES ASSUME LockInv, [LockNext]_lockFileVars PROVE LockInv'
    OBVIOUS
  <2>1. TypeOK' /\ FilesAreWritten' /\ OneAtWork'
    BY NextTypeOK, NextFilesAreWritten, NextOneAtWork
  <2>2. OneEntry' /\ PrivateAt'
    BY NextOneEntry, NextPrivateAt
  <2>3. GitHasItsFile' /\ OwnOrGit' /\ SignsItsFile'
    BY NextOwnOrGit, NextGitHasItsFile, NextSignsItsFile
  <2>4. BoundToJournal'
    BY NextBoundToJournal
  <2> QED BY <2>1, <2>2, <2>3, <2>4 DEF LockInv
<1> QED BY <1>1, <1>2, PTL DEF LockSpec

(* reclaim_abandoned_linux and acquire_with_binding: a publisher that      *)
(* holds the lock to install an index shares it with no running Git        *)
(* command, also when a reclaim renamed Git's file by mistake, was killed  *)
(* before it could put it back, or had it changed under its hands, and     *)
(* also when other commands took the path that became free.  Without       *)
(* GitSparesGit it is false: a displaced command that ends removes the     *)
(* lock of another one, of which nothing is left then.                     *)
THEOREM PublisherExcludesGitAlways == LockSpec => []PublisherExcludesGit
<1>1. LockInv => PublisherExcludesGit
  <2> SUFFICES ASSUME LockInv, GitSparesGit, NEW p \in Processes, NEW c \in Commands,
                      orna[p].pc = "hold", orna[p].installs
               PROVE  git[c] # "holding"
    BY DEF PublisherExcludesGit
  <2>1. private = {} /\ indexLock = [owner |-> p, bind |-> orna[p].bind]
    BY DEF LockInv, PrivateAt, SignsItsFile
  <2>2. indexLock # GitFile(c)
    BY <2>1, NameAssumption DEF GitFile
  <2> QED BY <2>1, <2>2 DEF LockInv, GitHasItsFile, Misnamed
<1> QED BY <1>1, LockInvariant, PTL

(* lock_binding: wherever an interrupted reclaim left the lock of a killed *)
(* publisher, the journal the next recovery finds permits its removal.     *)
THEOREM OrphansStayReclaimable == LockSpec => []OrphansAreReclaimable
<1>1. LockInv => OrphansAreReclaimable
  BY DEF LockInv, OrphansAreReclaimable, BoundToJournal, Bound
<1> QED BY <1>1, LockInvariant, PTL
=============================================================================
