# A TLA+ model of OrnaDB

OrnaDB is a typed database whose published state lives in a Git repository and
whose working state lives in a single-writer SQL file beside it. This directory
holds TLA+ modules translated from the Rust sources under `src/crates`, the TLC
configurations that check them, and TLAPS proofs about them. `PROJECT.json` lists
components, runs, mutants, the lines each definition models, findings, hazards
and theorems.

## Inventory

| Component (crate) | State it keeps | Operations | What is hard |
|---|---|---|---|
| ordered streams (`orna-stream`) | checkpoint, failure records, lease, fence counter, pause request, retry and replay claims per stream | acquire, complete, fail, retry, skip, cancel, replay, claim/complete/fail/cancel replay, resolve, pause, resume, reset | workers and administrators act on stale leases and stale versions; retry, skip and replay meet |
| durable streams (`orna-runtime`) | the same as SQL rows, plus the writer lease | the same intents, one transaction each, under a writer token; takeover of a dead writer | a writer dies with work open; fenced writers come back |
| publication, PUB-3 (`orna-cli` publish, `orna-storage`, `orna-repository`, `orna-runtime`) | branch, ordinary index, worktree, `index.lock`, coordination lock, journal, mutation tail, freezes, completions | freeze, capture, build, lock, prepare, move the ref, reconcile store files and index, consume the tail, clear; recovery | three stores without a common transaction, killed processes, two publishers, a person using plain Git |
| tables and activations (`orna-table`) | committed rows and required references, overlay, savepoints | insert, update, delete, re-key, references, savepoint, rollback, nested calls, commit, activate | overlay against committed state, savepoints that outlive an activation, a failing publish |
| relation iterators (`orna-table`) | two peekable iterators | next | merge order, deletions in the overlay |
| serving sessions (`orna-serving`) | sessions, pages, replay deque, watches, requests | admit, reconnect, rotate, patch, resync, watch, action, request life cycle, deletion | lost connections, a bounded replay window, cancellation against completion |
| request ledger (`orna-runtime`, driven by `orna-live`) | durable requests with owner and epoch, admission capability, writer lease, takeover fence, session deletion | reserve, start, report effects, commit, complete, cancel, recover, take over, delete | crash between effect and outcome, a commit nobody knows the end of, repeated identities, two hosts |
| live sessions (`orna-cli` serve, `orna-live`, `orna-security`) | sessions, attachments, upgrade reservation, retirement fences, reconnection lease, admitted work | upgrade, replace, run, cancel, exit, resume, DELETE, sweep | threads that read the clock before the mutex, a join that keeps the mutex, a worker that exits while it is retired |
| automatic-key allocators (`orna-repository`) | one ref for all worktrees, a cached watermark per activation | reserve, observe an explicit ID, commit | compare-and-swap between worktrees, crash between reservation and use |
| `index.lock` (`orna-repository`) | the lock file, private claim and tombstone entries | acquire, release, reclaim of a killed publisher's lock | Git and a person act on the same path between any two calls; a reclaim is itself killed |
| maintenance lease, other publication journals (`orna-repository`) | lease files, journals | gc, publish, recover | several processes, crashes |
| merge (`orna-storage`, `orna-evolution`) | none | three-way merge of rows, tables, schemas, checkpoints | tables and segments taken by digest against rows merged one by one |
| language, values, formats, host calls, tools | none that a protocol depends on | - | sequential |

How the parts meet. Evaluated code works in an activation; its changes enter the
runtime's mutation tail; `orna publish` moves a prefix of the tail into a Git
commit. Streams feed activations, and their checkpoints move in the runtime
database. `orna serve` carries sessions, whose sockets show pages of that data and
run requests; each request is a row of the ledger before its callback runs. The runtime database has one writer at a time, while Git is
shared with everyone.

What makes the parts correct. A stream never passes a delivery that is not
settled, and no stale worker settles anything. A takeover loses no pause, no fence
and no failure. A publication loses no row, overwrites no commit and no edit,
consumes exactly what it published and always comes to an end. An activation
behaves like a private copy of the database. A resync leaves no gap. A request runs
at most once and its retained outcome is true, whoever wrote it. A session has one
socket, and nothing of it is left when it has ended. No identifier is given out
twice. A merge keeps the changes of both branches or refuses.

## Modules

| Module | Models | Notes |
|---|---|---|
| `OrderedDelivery` | - | abstract: what ordered delivery promises, without leases and fences |
| `Stream` | `InMemoryCheckpointBackend` | one action per `CommitIntent`; callers carry preconditions read now or earlier, and leases they were handed at any time (`issued`) |
| `RuntimeStream` | the stream tables of the runtime and `acquire_writer` | one action per transaction; instances `Stream` as reference and, through it, `OrderedDelivery` |
| `Publication` | PUB-3 over four crates | one action per durable step, so that a kill or another process can come between any two |
| `IndexLock` | `GitIndexLock` and its callers | one action per system call that others can observe; what `Publication` does in one step |
| `Transaction` | - | abstract: an activation as a private copy |
| `Table` | `DatabaseRuntime`, `DatabaseActivation`, child scopes, savepoints | refines `Transaction` |
| `CandidateScan` | `CandidateScan::next` | pure operators, against `candidate_rows` as reference; checked with the run `table` |
| `BranchMerge` | `merge_keyed_row`, `merge_range_rows`, `merge_table` | pure operators, checked with the run `table`, proved exact in `TableProofs` |
| `Serving` | `Serving` | one action per method |
| `RequestLedger` | the request tables of the runtime and the steps of `orna-live` between its transactions | one action per transaction; owners over two processes |
| `LiveServe` | the threads of `orna serve` around one session | one action per hold of the sessions mutex; a step that joins work under the mutex is split in two |
| `Allocator` | `allocator.rs` and its caller in the runtime | one action per Git or runtime transaction |
| `StreamProofs`, `RuntimeStreamProofs`, `PublicationProofs`, `IndexLockProofs`, `TableProofs`, `ServingProofs`, `LiveServeProofs`, `RequestLedgerProofs` | - | theorems and proofs |
| `MCStream`, `MCRuntimeStream`, `MCPublication`, `MCRequestLedger` | - | values of the constants for TLC |
| `MCRecovery`, `MCTable`, `MCSessions` | - | the same, for two or three modules: a behaviour is one of the first or one of the second, chosen in `Init` |

Conventions. A call that the code refuses changes nothing; it is a stuttering
step, except where the result is part of the state (`Table`) or where the refusal
itself releases something (`Publication`: `Refused`, `RecoverConflict`).
Definitions marked "Fault" or "Faulty" are plausible bugs; each of them makes the
property named for it in `PROJECT.json` fail, and none of them is part of a
specification. Text, diagnostics, payloads and encodings are left out.

In `Publication` the content of `.orna/store` is the set of rows it holds, and a
commit is the sequence of versions on its first-parent chain, so that being an
ancestor is being a prefix. A killed publisher loses its file lock, while its
`index.lock` stays behind with a dead owner. `scope` is chosen in `Init` and says
who takes part in a behaviour and how often: the publishers, the rows, the
contents the assertion gate refuses, the Git commands the person uses, and bounds.
Properties that a person may break on purpose (by reverting, resetting, staging or
switching) are stated for scopes without these commands. `spoiled` is a history
variable: it is set by the two steps that findings 2 and 3 are about (a journal
replaced by that of another publication, and a range consumed while the index
does not follow HEAD), after which rows can be lost. `NoMissingRows`,
`NoStagedReversal`, `PublishedOnce` and `WorktreeEditKept` are stated for
behaviours without such a step, so that the racing scopes may contain them.

`WorktreeEditKept` is stated for scopes without `reset` too. After a soft reset
the index can hold a batch that is published again; a person who makes the same
edit anew in the middle of that publication recreates the bytes which the
publisher captured, and these are replaced.

`PublishedOnce` is stated for scopes without `reset` and `switch`. A publisher that
has read a mutation publishes it when the branch is again at the commit it captured.
With these commands a person can bring that commit back after another publisher has
published and consumed the mutation and the person has reverted it: the row is then
added a second time in HEAD's history, by two publications of one mutation.

In `IndexLock` a process runs once, so that its name stands for its pid and start
time, and a lock file is its owner and the binding in its marker. The coordination
lock allows one Orna process at a time; Git creates and removes the path whoever
owns the file there, and a person may remove a lock whose owner is gone. A reclaim
that read an abandoned lock can therefore rename the lock of a running Git command;
it notices, and puts it back unless it is killed or the path is taken again. While
a command is displaced the path may be free, so another one can begin; when the
first one ends it removes whatever is at the path, the lock of the second included.
`git[c] = "trespassed"` remembers that a command did so, and
`PublisherExcludesGit` is stated for behaviours in which none has (`GitSparesGit`):
after it a publisher can indeed work beside a running command.

In `Serving` the answer of a resync is the set of places of the replay deque that
it returns (`Resynced`), compared with `published`, the history of the session's
revisions; an accepted resync must return all of them after the caller's, once and
in order.

In `RequestLedger` a host is one owner of the writer lease and `boot` is the current
process; a crash ends it and everything that is not a row. A ticket walks
from reservation over start, work slot, callback and effect report to the commit
or the terminal claim, and every one of these is a separate transaction or call.
`executed`, `external` and `applied` are history variables. A capability that is
presented when it is no longer the row's, an answer that comes after the row is
terminal and a commit whose result is lost are steps like any other.

In `LiveServe` `holder` is who keeps the sessions mutex while it waits for work,
and `parked` says that its waker is registered. `seen` is the time a thread read
before it got the mutex. The two expiry times, that of the reconnection lease and
that of the transport's record, are separate variables because the code keeps both.

## Runs

| Run | Instance | Distinct states | Shows |
|---|---|---|---|
| `stream` | 1 stream, 2 deliveries, 2 positions, 4 leases | 161 690 | the inductive invariant (unique fences among it), the owner alone moves the checkpoint, no overtaking, versions guard records, refinement of `OrderedDelivery`; a requested pause takes effect and a retry ends |
| `runtime_stream` | 1 stream, 2 deliveries, 2 owners, 3 epochs, 3 leases | 94 655 | in every state, those a takeover leaves included, each intent of the current writer is answered and applied as `Stream` does it, but for a replay failed without a claim; takeovers included it implements `OrderedDelivery`; no pause, fence or claim goes astray |
| `runtime_stream_abandoned_retry` | the same | violation | finding 1 |
| `publication` | five scopes (below) | 2 018 972 | no row lost or published twice, no staged reversal, exact consumption, edits and concurrent commits kept, journals given up safely |
| `publication_recovery` | 1 publisher, 2 mutations, 2 kills; or 3 processes and 2 Git commands at `index.lock` | 57 269 | the tail is drained and the journal cleared; no publisher works beside a Git command, not even a displaced one, as long as no displaced command has removed the lock of another; the lock of a killed publisher can always be reclaimed |
| `publication_journal_replaced` | 2 publishers, 2 mutations, 1 edit | violation | finding 2 |
| `publication_unreconciled_tail` | 2 publishers, 1 mutation, 1 kill, 2 commits of a person | violation | finding 3 |
| `table` | 1 table, 2 keys, 2 activations, 3 changes each, 1 savepoint | 571 483 | refinement of `Transaction`, references follow rows, no dangling reference; `ScanIsCandidate` over every map, overlay and range of 3 keys; `MergeIsExact`, with the inserts that a digest hides from the row merge, over every triple of tables with 2 keys, 4 rows and 2 layouts |
| `request_ledger` | 3 owners, 2 processes, 2 requests, 1 work slot, 2 table generations | 969 442 | the fence stands while a fenced request is Running, at most one execution, true outcomes, terminal rows final, a closed session quiet |
| `sessions` | `LiveServe` with 2 sockets, 1 DELETE, 1 resume, a lease of 2 ticks in 4; or `Serving` with 2 sessions for 1 place, 4 revisions, replay of 2, 2 requests for 1 slot | 613 470 | one socket, ended sessions are quiet, the mutex is released; gapless resync, watches at the current page, outcomes and deletions are final |
| `live_delete` | 2 DELETEs | violation | finding 4 |
| `allocator` | 2 worktrees, IDs up to 2 | violation | finding 5 |

The scopes of `publication`:

- *Committing*: one publisher killed up to twice, three mutations, and a person
  who edits store files and commits; the assertion gate refuses one content.
- *Racing*: two publishers on two mutations, one of them killed, and a person who
  edits a store file.
- *Staging*: two publishers on one mutation, and a person who edits, stages and
  commits.
- *Reverting*: two publishers on one mutation, and a person who commits and reverts.
- *Branching*: one publisher, one mutation, and a person who stages, commits,
  resets, branches and switches.

Why the bounds suffice. Two deliveries of one stream are enough for one to block
the other, and three or four leases for a stale one to meet a new one under the
same or another fence. Three epochs give a takeover of a takeover. Two
publications of one process, or one each of two, cover every pair of
interleaved journals; two kills cover a recovery that is killed itself. Two keys
allow a re-key and a reference to the moved row; two activations allow a
savepoint of the first to be used in the second. Four revisions overflow a replay
deque of two, with skipped numbers. Three owners give a takeover of a takeover
while the first owner's process is gone and the second's is alive; two requests
compete for one work slot, and one of them is open while a takeover recovers the
other. Two sockets are one that replaces the other; four ticks let a lease run out
and another one begin. `BranchMerge` treats each key by itself below the segments,
so two keys cover one segment that both changed beside one that one side changed,
and three values of a field cover edits that clash. The bounds stop only calls of the environment
(`MaxFence`, `MaxCalls`, `MaxRevision` and so on); in `Publication` the bound on
intents ends the command the way an empty tail does.

`CHECK_DEADLOCK FALSE` is used where these bounds end the model. `Publication`
needs none: its publishers can always run again.

## Fairness

`Stream!FairSpec`: weak fairness, per stream, of settling the current lease
(complete, fail, skip or cancel) and, while the stream is Running, of acquiring a
scheduled retry. `run_stream_once` does both, and returns before it acquires when
the stream is paused (`orna-runtime/src/lib.rs:9206`), so nothing is promised of a
retry scheduled on a paused stream; resuming it is refused while the retry's lease
exists. Nothing is assumed of administrators.

`LiveServe!FairSpec`: weak fairness of a callback that runs (the evaluator bounds
its steps, and a panic is an end too), of a join whose leases are gone (it was
woken) and of what a thread does after its join. Nothing is assumed of clients, of
the clock or of threads that wait for the mutex. `SessionLockReleased` says that
the mutex does not stay with a join; it depends on the order in which the join
reads the count and registers its waker (`orna-live/src/lib.rs:405`).

`Publication!FairSpec`: weak fairness of the steps of each publisher. A process
keeps running, and `orna publish` is run again after it has returned or was
killed, which is what the command asks for when it finds an earlier publication
pending (`cli_publish.rs:676`). Nothing is assumed
of the person, of new mutations or of kills (which are bounded).

## Proofs

Every theorem holds for all values of the constants under the named assumptions of
the module it is about, which TLC evaluates in the runs: absent values (`None`,
`NoLease`, `Missing` and the like) are no members of what they mark the absence of,
functions over constants have their types, and bounds are numbers. None of them
restricts how many processes, streams, rows, sessions or crashes there are.

`StreamProofs` (976 obligations):

- `StreamSafety`: `Spec => []StreamInv`. `StreamInv` joins nine named parts, and
  none of the interesting ones is inductive alone. One blocker per stream needs
  that a lease on a blocked stream is the blocker's (`LeaseAgreesWithFailures`),
  which needs that a Retrying delivery holds the lease (`RetryingHoldsLease`).
  Unique fences need that handed-out fences stay below the counter and that the
  fence of a retry nobody has acquired is in nobody's hands (`FencesAreCounted`,
  `RetryClaimAwaitsAcquire`).
- `StreamOneBlocker`, one of its parts.
- `StreamCheckpointOwner`, `StreamNoOvertaking` and `StreamFailureVersions`, action
  properties that follow from `StreamInv` and a case analysis of the steps.
- `StreamRefinement`: `Spec => ImplementsOrderedDelivery`, one step of the abstract
  specification, or a stutter, for each intent.

`RuntimeStreamProofs` (1320 obligations):

- `RuntimeInvariant`: the inductive invariant is how the tables of a stream agree:
  a lease row and the failure row of its delivery, a scheduled retry and the lease
  nobody was given yet, a retry in progress and the lease that is its evidence, all
  under the writer token of the moment.
- `FencesSurvive`, `ReplayClaimsAreCurrent`, `TakeoverBlocked`, `PausesAreKept`.
- `RuntimeRefinement`: ordered delivery, takeovers included.
- `AcceptsLikeMemory` and `AppliesLikeMemory`: the SQL does what the in-memory
  reference does, in both directions and intent by intent. In every state of the
  tables an intent of the current writer is enabled exactly when the same intent is
  in `Stream` (`AnswersAsInMemory`), and has the same effect (`AppliesAsInMemory`).
  The exception is named in both: `ReplayFail` without a claim. Needed beside the
  invariant is that a pending pause waits for a lease (`PendingPauses`); what is not
  compared is the reason given for a rejection.

`PublicationProofs` (5033 obligations):

- `JournalProtocol`: `Spec => []Control`. Only the holder of the coordination lock
  is at a step that writes the journal up to reconciliation (`Exclusive`); the
  journal has the stage that such a step expects, and is the publisher's own when it
  publishes (`JournalFollows`); an intent is in one publisher's hands until its
  journal exists (`Intents`); candidates are children of the captured base
  (`Candidates`); and journal and memory agree with what the runtime has recorded
  (`Recorded`). Steps outside the lock (`complete`, `consume`, `mark`) are why the
  last two are needed: another process may finish or give up the same journal.
- `BranchMovesAreKept` and `JournalsAreKept`, action properties, follow from it.
- `CompletionsArePublished` needs that frozen ranges take no later mutation
  (`Ranges`) and that HEAD keeps what it contained (`History`).
- `NoReversalIsStaged` needs that the index equals HEAD's tree unless a journal in
  RefAdvanced says that it may not (`IndexFollows`).
- `RowsAreNeverMissing` is the longest argument. A candidate holds its frozen range
  (`Coverage`), and a row that left the tail is in HEAD, index and worktree, so that
  neither `git commit` nor `git add` can take it away (`RowsKept`); from the ref
  update to the reconciliation this is not so, and the journal says so (`Torn`).
- `PublishersHoldTheIndex`: from the verification of the store up to the worktree a
  publisher's own `index.lock` is at the path (`LockHeld`), so that no Git command
  which needs the lock runs in between. `StoresAgree`: HEAD, index and worktree hold
  the same rows of the store unless the journal says that they may not yet, and an
  index that has followed was preceded by the worktree (`Agreement`). `EditsAreKept`
  is the action property `WorktreeEditKept`, from both: what the worktree step
  replaces is what the captured index held.
- `IntentsSignOnce`: in each branch an intent signs at most one commit, it was frozen
  before that, and no publisher that has not yet moved the ref for an intent meets a
  commit signed by it (`Authors`).
- `MutationsArePublishedOnce`: `Spec => []PublishedOnce`. A bound on cardinalities is
  not inductive. The invariant gives each commit that adds a row a mutation of its
  own: one that its intent has frozen and that lies past what every earlier such
  commit has frozen (`Backed`), which is an injection, so that the commits are no
  more than the mutations. A new commit has such a mutation because a candidate
  built on the commit HEAD names adds only rows of mutations that no commit stands
  for yet, or whose publication still has its journal (`CandidatesDue`); and because
  the runtime has recorded every publication of HEAD's history, unless the journal
  still names it (`Accounted`).

`IndexLockProofs` (946 obligations): `LockInvariant`, and from it
`PublisherExcludesGitAlways` and `OrphansStayReclaimable`. The file lock makes one
process the coordinator, so what the private directory holds is fixed by where that
process is; every lock is Orna's or that of a Git command which is running
(`OwnOrGit`). As long as no command has removed the lock of another, a command either
has its file at the path or was displaced by a rename, and then the entry that
displaced it keeps every publisher out. Any number of commands may run at once, and
`OrphansStayReclaimable` holds whatever they remove.

`TableProofs` (1722 obligations):

- `TypeCorrect`, `CommittedReferencesHold`, `ReferencesAlwaysFollowRows`.
- `OverlayImplementsCopy`: `Spec => ImplementsTransaction`. The refinement maps
  the overlay to what reading through it returns (`Merge`), and a savepoint to a
  copy, or to `Foreign` when it belongs to another activation. `TableInv` adds to
  the properties that no savepoint is newer than the activation, so that a new
  activation's identifier is on no savepoint, and that a root run by `activate` is
  never committed from inside, so that `activate` can always publish or refuse it.
- `MergesAreExact`: `MCSpec => []MergeIsExact`, for all keys, fields, rows and
  layouts. A row is merged exactly by the cases of `merge_keyed_row`; a segment or a
  table that is taken by its digest holds, key by key, rows that keep both sides'
  changes; conflicts come only from rows. Two inserts under one automatic key
  (`DoubleInsert`) are refused unless the table or the segment that holds them is
  equal by digest (`Collides`), and then they are taken. That segments cover the keys
  is what `valid_manifest` checks.
- `ScansAreCandidates`: `MCSpec => []ScanIsCandidate`, for all maps, overlays, ranges
  and numbers of keys. The invariant of the loop (`At`) is that both iterators
  stand at one key and that what was returned is what the candidate holds below it;
  a turn passes the next key that one of the maps holds (`TurnMoves`), so that
  after as many turns as there are keys the scan is at its end. The induction over
  turns and keys is one over sets of naturals (`NatSetInduction`), from the
  library's theorem that every such set has a least element; that the two recursive
  functions exist is proved in the same way.

`ServingProofs` (583 obligations): `ServingInvariant`, `GaplessResync`,
`OpenWatchesFollow`, `EndedIsFinal`. The invariant is a predicate of one session: its
deque is the end of the revisions it has published, which increase, something is
retained once anything was published, and open watches stand at the last one.

`LiveServeProofs` (361 obligations): `LiveInvariant`, `AtMostOneSocket`,
`GoneIsQuiet`. `OneSocket` speaks of the moments when the mutex is free; while a
deletion holds it, the worker it took the attachment from is not fenced yet but is
the one it will retire. A session that is gone is quiet because whoever drains it
keeps the mutex.

`RequestLedgerProofs` (943 obligations):

- `LedgerTypes`; `FenceTheorem`, `AtMostOnceTheorem`, `OutcomeTheorem` for the three
  invariants of the run, and `TerminalTheorem`, `ClosedTheorem` for its two action
  properties.
- All follow from `LedgerInv`. At most one execution needs that only one host ever
  has a ticket for a request (`OneTicket`), that a request without a row has no
  ticket and no history (`Fresh`), and that a ticket before its callback has left
  no trace (`Unexecuted`). The truth of a proven rollback needs that the controlled
  marker is never set for a request that had an external effect (`ControlledPlan`,
  `ControlledRow`). The fence is inductive with the types and the fact that a lease
  which was ever taken has an owner (`LeaseIsOwned`). That a closed session stays
  quiet needs that a deletion is finished only over settled rows (`ClosedIsSettled`).

Model-checked only: `EventuallyPublished`, `PauseTakesEffect`, `RetryEnds` and
`SessionLockReleased`, because liveness under fairness is beyond the prover. Every
invariant and action property of the passing runs is proved.

`Allocator` is refuted, and has no theorem.

## Findings

1. `runtime_stream_abandoned_retry`: a retry acquired with a revised successor is
   refused by the validation at takeover, so that after a crash at that point no
   writer can be acquired any more.
2. `publication_journal_replaced`: `mark_runtime_complete` writes the journal its
   caller holds without looking at the one on disk, and can replace and clear the
   retained journal of another publication.
3. `publication_unreconciled_tail`: a publisher that finds nothing to write in the
   captured HEAD consumes its range at once. Between a recovery's removal of an
   abandoned `index.lock` and its own acquisition that HEAD can be the candidate of a
   publication whose index is not reconciled; a plain `git commit` then takes the
   row away from HEAD, and the tail no longer has it.
4. `live_delete`: a repeated DELETE answers 204 while the socket worker that the
   first one cancelled is still running.
5. `allocator`: a lost compare-and-swap is taken for success when the winner wrote
   the same watermark, and two linked worktrees give out one ID twice.

The quotations and lines are in `PROJECT.json`.

Observations without a run. The models contain these behaviours, and the properties
are stated so that they hold beside them:

- Recovery removes an abandoned `index.lock` some steps before it takes its own,
  while the branch is at the candidate and the index is the old one; the reference
  (22-publication.md:43) says that the lock is held until then.
- A lock of Git that a reclaim displaced and was killed over stays under a private
  name: no publisher goes on until a person removes that file, but an ordinary Orna
  writer (`update_managed_index`) looks at the path only.
- A Git command whose lock was displaced can, when it ends, remove the lock of a
  command that began meanwhile, and a publisher can then start beside that one.
  `PublisherExcludesGit` holds up to that moment and says so (`GitSparesGit`).
- The durable backend lets a replay fail that nobody has claimed
  (`orna-runtime/src/lib.rs:19034`), while the in-memory one rejects it with
  LeaseFenced (`orna-stream/src/lib.rs:1185` and 1217). The effect is that of a
  cancelled replay. `AnswersAsInMemory` names this exception, and no other is left.
- A publisher killed between creating `index.lock` and writing its marker leaves an
  empty lock, which recovery never removes.
- A store change that a person staged before the publication is replaced in index
  and worktree, because only the format marker is compared with HEAD
  (`orna-storage/src/lib.rs:1282`); 22-publication.md:103 says that it is preserved.
- After a POST resume of a session that has been attached for longer than its
  lease, the transport's `expires_at` is still the old one: the next upgrade
  answers 410 and the sweep ends the session, although its reconnection lease runs.
- A request that is refused by the work limit has a Running row already, although
  the comment at `orna-live/src/lib.rs:2831` says that no request state exists; the
  row is settled afterwards.
- A row that was reserved by a process that died, or whose start was refused,
  stays Reserved until its session is deleted.
- A second explicit takeover before the first one's recovery has ended leaves the
  recovery pending under the newest owner.
- A lease that is dropped without being completed keeps its session from being
  deleted: DELETE goes on failing.
- Two branches that insert the same row under the same automatic key: the row merge
  calls this a collision that has to stay visible, "Even equal payloads do not prove
  these are one insert" (`orna-evolution/src/merge.rs:678`), but an equal digest of
  the segment (`orna-storage/src/branch_merge.rs:20030`) or of the table (19972, 20012)
  takes the row before that rule is asked. Whether the collision is seen therefore
  depends on how the table is cut into segments. `MergeIsExact` says exactly where:
  every such pair of inserts is refused except those `EqualByDigest` describes.

## Not modelled

The components with status `not_modelled` in `PROJECT.json`, with the reason. Most
of the repository's lines are of this kind: the language (parser, type checker,
evaluator), encodings and file formats, introspection and conformance adapters,
sequential code without a protocol, large parts of which are tests inside the
source files; of `branch_merge.rs`, all but the last thousand lines are types that
restate a merge plan. The share of mapped lines is therefore small, and the choice
was made for the state that several processes, threads or crashes can meet.

Inside the modelled components: payloads, diagnostics, reset audits and observation
rows of streams, and the recovery barrier after a takeover, which only delays
intents; pins, the maintenance lease, half-written store trees, edits of the format
marker and a detached HEAD in publication; `index.lock` outside Linux, where the
reclaim always refuses; the combinators of `Relation` other than the scan; envelope shapes and page pins in serving; in the
ledger, rows without an owner that earlier versions wrote and the entry points
without a capability, which only tests call; in `LiveServe`, more than one session,
credentials that are wrong, and `spawn_child`, which only tests call; in the merge,
schemas, checkpoints and the budgets.

## Plan

In this order:

1. The maintenance lease composed with `Publication`
   (`orna-repository/src/lib.rs:9238`).
2. The compact, reviewed and migration journals.
3. Schema and checkpoint merge beside `BranchMerge`.
4. `RequestLedger` and `LiveServe` composed: the drain of a session as the ledger's
   cancellations, one request each.
