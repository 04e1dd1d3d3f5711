----------------------------- MODULE IndexLock -----------------------------
(***************************************************************************)
(* How Orna shares .git/index.lock with Git, and how it removes the lock   *)
(* of a publisher that was killed (GitIndexLock and GitIndexLockDirectory  *)
(* in orna-repository/src/lib.rs).  Publication takes the reclaim as one   *)
(* step; here it is the sequence of its system calls.                      *)
(*                                                                         *)
(* Every Orna process holds the coordination file lock while it touches    *)
(* these files, so only one of them is at work; Git and a person who       *)
(* removes a stale lock know nothing of it.  Both act on the path, whoever *)
(* owns the file there.  A process runs once: a file is named by its owner *)
(* and by the binding its marker carries.                                  *)
(*                                                                         *)
(* An I/O error of a process that does not hold the lock ends it and       *)
(* leaves the files alone, as a kill does: it is not an action of its own. *)
(*                                                                         *)
(* Definitions marked "Faulty" are variants the properties must refute.    *)
(***************************************************************************)
EXTENDS FiniteSets

CONSTANTS
  Processes,   \* Orna processes; each also names the journal it would write
  Commands,    \* Git commands, at any time
  Nil

VARIABLES
  indexLock,   \* the file at .git/index.lock, or Nil
  private,     \* .orna-reclaim-* entries: [kind, of, file]
  coordinator, \* the process that holds the coordination lock, or Nil
  prepared,    \* binding of the durable publication journal, or Nil
  orna,        \* [p] control point and memory of a process
  git          \* [c] "new", "holding", "over", or "trespassed" (GitUnlock)

lockFileVars == <<indexLock, private, coordinator, prepared, orna, git>>

\* What the bytes of a lock file say: the binding of a publisher, the zero
\* binding of an ordinary Orna writer, no marker yet, or Git's own content.
Bindings == Processes \cup {"zero", "empty", "git"}
File == [owner : Processes \cup Commands, bind : Bindings]

\* Names that no process, command or file shares.
ASSUME NameAssumption ==
  /\ Processes \cap Commands = {}
  /\ {"zero", "empty", "git"} \cap Processes = {}
  /\ Nil \notin Processes \cup Commands \cup Bindings \cup File

\* Entries are named by the digest of the bytes read first.
Entries == [kind : {"claim", "tombstone"}, of : File, file : File]

Fresh == [pc |-> "new", permits |-> Nil, bind |-> Nil, installs |-> FALSE,
          expected |-> Nil, seen |-> FALSE]

\* owner_liveness: the process of the marker, told from a later one with the
\* same pid by its start time.
Live(f) == IF f.owner \in Commands THEN git[f.owner] = "holding"
           ELSE orna[f.owner].pc # "over"

\* binding_permits_reclaim, on decoded markers; Nil is the orphan form.
Permits(permits, bind) ==
  IF permits = Nil THEN bind \in Processes ELSE bind = permits

\* abandoned_marker
Abandoned(p, f) == f # Nil /\ Permits(orna[p].permits, f.bind) /\ ~Live(f)

At(p, pc) == orna[p].pc = pc /\ coordinator = p
Continue(p, pc) == orna' = [orna EXCEPT ![p].pc = pc]

\* The process ends and with it its hold of the coordination lock.
End(p) ==
  /\ orna' = [orna EXCEPT ![p].pc = "over"]
  /\ coordinator' = Nil

GiveUp(p) == End(p) /\ UNCHANGED <<indexLock, private, prepared, git>>

-----------------------------------------------------------------------------
(* Who asks for the lock.                                                  *)

Start(p, pc, permits, bind, installs) ==
  /\ orna[p].pc = "new" /\ coordinator = Nil
  /\ coordinator' = p
  /\ orna' = [orna EXCEPT ![p] = [Fresh EXCEPT !.pc = pc, !.permits = permits,
                                               !.bind = bind, !.installs = installs]]
  /\ UNCHANGED <<indexLock, private, prepared, git>>

\* A publication of its own.
StartPublish(p) == prepared = Nil /\ Start(p, "scan", p, p, TRUE)

\* recover_publication, and a publication resumed from its journal: the
\* journal names the lock to reclaim and to take.  Without a journal any
\* publisher's lock is an orphan, and none is taken.
StartRecover(p) == Start(p, "scan", prepared, prepared, TRUE)

\* stage_managed, reconcile_published_index: an ordinary writer.  The
\* comparison that completes a journal takes the lock, and writes nothing.
\* (That it may meet the journal of another is the subject of Publication.)
StartDirect(p) == \E bind \in {"zero", prepared} \ {Nil} : Start(p, "acquire", Nil, bind, FALSE)

-----------------------------------------------------------------------------
(* reclaim_abandoned_linux.                                                *)

Reclaimed(p) ==
  /\ IF orna[p].bind = Nil THEN End(p) ELSE Continue(p, "acquire") /\ UNCHANGED coordinator
  /\ UNCHANGED <<indexLock, private, prepared, git>>

Proceed(p, pc) == Continue(p, pc) /\ UNCHANGED <<indexLock, private, coordinator, prepared, git>>

\* Faulty: entries left by an interrupted reclaim are not looked for.
ScanCanonicalOnly(p) ==
  /\ At(p, "scan")
  /\ IF indexLock = Nil THEN Reclaimed(p) ELSE Proceed(p, "mark")

Scan(p) ==
  /\ At(p, "scan")
  /\ \/ private # {} /\ ~(Cardinality(private) = 1 /\ indexLock = Nil) /\ GiveUp(p)
     \/ Cardinality(private) = 1 /\ indexLock = Nil /\ Proceed(p, "resume")
     \/ private = {} /\ indexLock = Nil /\ Reclaimed(p)
     \/ private = {} /\ indexLock # Nil /\ Proceed(p, "mark")

\* The lock is read and must be abandoned.
Mark(p) ==
  /\ At(p, "mark")
  /\ \/ ~Abandoned(p, indexLock) /\ GiveUp(p)
     \/ /\ Abandoned(p, indexLock)
        /\ orna' = [orna EXCEPT ![p].pc = "transfer", ![p].expected = indexLock]
        /\ UNCHANGED <<indexLock, private, coordinator, prepared, git>>

\* rename_no_replace takes whatever is at the path by now.
Transfer(p) ==
  /\ At(p, "transfer")
  /\ \/ indexLock = Nil /\ GiveUp(p)
     \/ /\ indexLock # Nil
        /\ private' = private \cup {[kind |-> "claim", of |-> orna[p].expected, file |-> indexLock]}
        /\ indexLock' = Nil
        /\ Continue(p, "compare")
        /\ UNCHANGED <<coordinator, prepared, git>>

\* Faulty: what was renamed is taken for what was read.
CompareTrusts(p, e) == At(p, "compare") /\ Proceed(p, "dispose")

\* The file under the private name must be the one that was read.
Compare(p, e) ==
  /\ At(p, "compare")
  /\ IF Abandoned(p, e.file) /\ e.file = orna[p].expected
     THEN Proceed(p, "dispose") ELSE Proceed(p, "restore")

\* restore_claim: the other file goes back, unless the path is taken again
\* or Git writes to its file meanwhile.  The reclaim fails in any case.
Restore(p, e) ==
  /\ At(p, "restore")
  /\ \/ /\ indexLock = Nil
        /\ indexLock' = e.file /\ private' = private \ {e}
        /\ End(p)
        /\ UNCHANGED <<prepared, git>>
     \/ (indexLock # Nil \/ Live(e.file)) /\ GiveUp(p)

\* recover_private_entry: an interrupted reclaim is taken up where it stopped.
Resume(p, e) ==
  /\ At(p, "resume")
  /\ IF Abandoned(p, e.file) /\ e.of = e.file
     THEN Proceed(p, IF e.kind = "claim" THEN "dispose" ELSE "unlink")
     ELSE GiveUp(p)

\* dispose_private_claim
Dispose(p, e) ==
  /\ At(p, "dispose")
  /\ private' = (private \ {e}) \cup {[e EXCEPT !.kind = "tombstone"]}
  /\ Continue(p, "unlink")
  /\ UNCHANGED <<indexLock, coordinator, prepared, git>>

\* dispose_tombstone removes the file, and remembers a lock at the path.
Unlink(p, e) ==
  /\ At(p, "unlink")
  /\ private' = private \ {e}
  /\ orna' = [orna EXCEPT ![p].pc = "recheck", ![p].seen = indexLock # Nil]
  /\ UNCHANGED <<indexLock, coordinator, prepared, git>>

\* A lock that appeared during the reclaim is somebody else's.
Recheck(p) ==
  /\ At(p, "recheck")
  /\ IF orna[p].seen \/ indexLock # Nil THEN GiveUp(p) ELSE Reclaimed(p)

-----------------------------------------------------------------------------
(* acquire_with_binding, the journal, and Drop.                            *)

\* create_new; the marker is written next.
Acquire(p) ==
  /\ At(p, "acquire")
  /\ \/ indexLock # Nil /\ GiveUp(p)
     \/ /\ indexLock = Nil
        /\ indexLock' = [owner |-> p, bind |-> "empty"]
        /\ Continue(p, "sign")
        /\ UNCHANGED <<private, coordinator, prepared, git>>

\* The open file is written; if that fails, whatever is at the path goes.
Sign(p) ==
  /\ At(p, "sign")
  /\ \/ /\ indexLock' = IF indexLock = [owner |-> p, bind |-> "empty"]
                         THEN [indexLock EXCEPT !.bind = orna[p].bind] ELSE indexLock
        /\ Continue(p, "hold")
        /\ UNCHANGED <<private, coordinator, prepared, git>>
     \/ /\ indexLock' = Nil
        /\ End(p)
        /\ UNCHANGED <<private, prepared, git>>

\* The Prepared journal of a publication.
PrepareJournal(p) ==
  /\ At(p, "hold") /\ orna[p].installs /\ prepared = Nil
  /\ prepared' = orna[p].bind
  /\ UNCHANGED <<indexLock, private, coordinator, orna, git>>

\* recover_publication drops a journal that published nothing without
\* taking the lock.
Discard(p) ==
  /\ At(p, "acquire") /\ orna[p].installs
  /\ prepared # Nil /\ orna[p].bind = prepared
  /\ prepared' = Nil
  /\ End(p)
  /\ UNCHANGED <<indexLock, private, git>>

\* Drop removes the file only if it holds the marker of this process.
Release(p) ==
  /\ At(p, "hold")
  /\ indexLock' = IF indexLock = [owner |-> p, bind |-> orna[p].bind] THEN Nil ELSE indexLock
  /\ Continue(p, "released")
  /\ UNCHANGED <<private, coordinator, prepared, git>>

\* The command returns; a journal whose work is done is cleared.
Finish(p) ==
  /\ At(p, "released")
  /\ \/ UNCHANGED prepared
     \/ prepared # Nil /\ orna[p].bind = prepared /\ prepared' = Nil
  /\ End(p)
  /\ UNCHANGED <<indexLock, private, git>>

\* A process is killed; its lock file stays.
Kill(p) == orna[p].pc \notin {"new", "over"} /\ GiveUp(p)

-----------------------------------------------------------------------------
(* Git, and the person at the keyboard.                                    *)

\* Git asks only that the path is free, which it is also while a command
\* still runs whose lock was displaced.
GitLock(c) ==
  /\ git[c] = "new" /\ indexLock = Nil
  /\ indexLock' = [owner |-> c, bind |-> "git"]
  /\ git' = [git EXCEPT ![c] = "holding"]
  /\ UNCHANGED <<private, coordinator, prepared, orna>>

\* Git renames or removes the path: a command whose lock was displaced may
\* so remove the lock of another one.
GitUnlock(c) ==
  /\ git[c] = "holding"
  /\ indexLock' = Nil
  /\ git' = [git EXCEPT ![c] = IF indexLock # Nil /\ indexLock.owner \in Commands \ {c}
                                THEN "trespassed" ELSE "over"]
  /\ UNCHANGED <<private, coordinator, prepared, orna>>

GitKilled(c) ==
  /\ git[c] = "holding"
  /\ git' = [git EXCEPT ![c] = "over"]
  /\ UNCHANGED <<indexLock, private, coordinator, prepared, orna>>

\* A person removes a lock whose owner is gone, as Git advises.
RemoveStale ==
  /\ indexLock # Nil /\ ~Live(indexLock)
  /\ indexLock' = Nil
  /\ UNCHANGED <<private, coordinator, prepared, orna, git>>

-----------------------------------------------------------------------------
LockInit ==
  /\ indexLock = Nil /\ private = {}
  /\ coordinator = Nil /\ prepared = Nil
  /\ orna = [p \in Processes |-> Fresh]
  /\ git = [c \in Commands |-> "new"]

Reclaim(p) ==
  \/ Scan(p) \/ Mark(p) \/ Transfer(p)
  \/ \E e \in private : Compare(p, e) \/ Restore(p, e) \/ Resume(p, e) \/ Dispose(p, e)
                        \/ Unlink(p, e)
  \/ Recheck(p)

ProcessStep(p) ==
  \/ StartPublish(p) \/ StartRecover(p) \/ StartDirect(p)
  \/ Reclaim(p)
  \/ Acquire(p) \/ Sign(p) \/ PrepareJournal(p) \/ Discard(p) \/ Release(p) \/ Finish(p) \/ Kill(p)

GitStep(c) == GitLock(c) \/ GitUnlock(c) \/ GitKilled(c)

LockNext ==
  \/ \E p \in Processes : ProcessStep(p)
  \/ \E c \in Commands : GitStep(c)
  \/ RemoveStale

LockSpec == LockInit /\ [][LockNext]_lockFileVars

-----------------------------------------------------------------------------
\* No Git command has removed the lock of another.
GitSparesGit == \A c \in Commands : git[c] # "trespassed"

(* A publisher that holds the lock to install an index shares it with no   *)
(* running Git command, not even one whose lock an earlier reclaim renamed *)
(* by mistake and could not put back (Compare, Restore and the search for  *)
(* private entries in reclaim_abandoned_linux), and however many commands  *)
(* run at once.  The limit: a displaced command that has meanwhile removed *)
(* the lock of another one leaves that one without any file, and then      *)
(* nothing tells Orna that it still runs.                                  *)
PublisherExcludesGit ==
  GitSparesGit => \A p \in Processes, c \in Commands :
    orna[p].pc = "hold" /\ orna[p].installs => git[c] # "holding"

(* The lock of a killed publisher, wherever an interrupted reclaim left    *)
(* it, is one the next recovery may remove: no journal is present, or the  *)
(* journal is the one the lock is bound to (lock_binding).                 *)
OrphansAreReclaimable ==
  \A f \in ({indexLock} \ {Nil}) \cup {e.file : e \in private} :
    f.bind \in Processes /\ ~Live(f) => prepared \in {Nil, f.bind}
=============================================================================
