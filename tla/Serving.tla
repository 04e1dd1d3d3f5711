------------------------------ MODULE Serving ------------------------------
(***************************************************************************)
(* The serving state of crates/orna-serving: sessions with a credential, a *)
(* page of which the last revisions are retained for replay, watches that  *)
(* follow the page, and requests.  Every method takes &mut self and is one *)
(* action; a call the code refuses changes nothing and is a stuttering     *)
(* step, except that a failed deletion closes the session.                 *)
(*                                                                         *)
(* A page is its set of keys, a patch the disjoint sets of keys it sets    *)
(* and removes (a patch that names a key twice is refused).  Two history   *)
(* variables: published, every revision a session ever had, and ended, the *)
(* sessions whose deletion was tried.                                      *)
(***************************************************************************)
EXTENDS Naturals, Sequences, FiniteSets

CONSTANTS
  Sessions, Credentials, PageKeys, Watches, Requests,
  NoSession, NoEntry,    \* a session never admitted, a watch or request not there
  MaxSessions,           \* Limits::max_sessions
  MaxReplay,             \* Limits::max_replay
  MaxPageEntries,        \* Limits::max_page_entries
  MaxWatches,            \* Limits::max_watches_per_session
  MaxRequests,           \* Limits::max_requests_per_session
  MaxActions,            \* Limits::max_actions_per_watch
  MaxRevision            \* bound: revisions of a page

VARIABLES
  sessions,    \* [Sessions -> Session or NoSession]
  published,   \* history: [Sessions -> sequence of revisions]
  ended        \* history: sessions whose deletion was tried

servingVars == <<sessions, published, ended>>

RequestStates == {"Reserved", "Running", "Cancelled", "Completed"}
Terminal == {"Cancelled", "Completed"}

PageRevision == [revision : Nat, page : SUBSET PageKeys]

\* An absent watch or request is NoEntry.
Watch == [revision : Nat, next_action : Nat]
Session == [credential : Credentials, connected : BOOLEAN, closed : BOOLEAN,
            page : SUBSET PageKeys, retained : Seq(PageRevision),
            watches : [Watches -> Watch \cup {NoEntry}],
            requests : [Requests -> RequestStates \cup {NoEntry}]]

\* Limits::validate, and what "not there" is different from.
ASSUME ServingAssumption ==
  /\ {MaxSessions, MaxReplay, MaxPageEntries, MaxWatches, MaxRequests, MaxActions} \subseteq Nat \ {0}
  /\ MaxRevision \in Nat
  /\ NoSession \notin Session /\ NoEntry \notin Watch \cup RequestStates

ServingInit ==
  /\ sessions = [s \in Sessions |-> NoSession]
  /\ published = [s \in Sessions |-> <<>>]
  /\ ended = {}

Admitted == {s \in Sessions : sessions[s] # NoSession}

\* Serving::session_mut: the session exists and is not closed.
Usable(s) == s \in Admitted /\ ~sessions[s].closed

Connected(s) == Usable(s) /\ sessions[s].connected

Held(map) == {id \in DOMAIN map : map[id] # NoEntry}

\* The revision of the newest retained page, zero before the first.
Current(s) == IF sessions[s].retained = <<>> THEN 0
              ELSE sessions[s].retained[Len(sessions[s].retained)].revision

Admit(s, credential) ==
  /\ sessions[s] = NoSession
  /\ Cardinality(Admitted) # MaxSessions
  /\ sessions' = [sessions EXCEPT ![s] =
       [credential |-> credential, connected |-> TRUE, closed |-> FALSE,
        page |-> {}, retained |-> <<>>, watches |-> [w \in Watches |-> NoEntry],
        requests |-> [r \in Requests |-> NoEntry]]]
  /\ UNCHANGED <<published, ended>>

Disconnect(s) ==
  /\ Usable(s)
  /\ sessions' = [sessions EXCEPT ![s].connected = FALSE]
  /\ UNCHANGED <<published, ended>>

Reconnect(s, credential) ==
  /\ Usable(s) /\ sessions[s].credential = credential
  /\ sessions' = [sessions EXCEPT ![s].connected = TRUE]
  /\ UNCHANGED <<published, ended>>

RotateCredential(s, current, replacement) ==
  /\ Usable(s) /\ sessions[s].credential = current
  /\ sessions' = [sessions EXCEPT ![s].credential = replacement]
  /\ UNCHANGED <<published, ended>>

-----------------------------------------------------------------------------
(* Pages, replay and watches.                                              *)

\* Faulty: compares with the first retained revision itself.
ReplayRequiredLate(s, after) ==
  /\ sessions[s].retained # <<>>
  /\ after + 2 < sessions[s].retained[1].revision

\* resync refuses a caller whose next revision may have left the deque.
ReplayRequired(s, after) ==
  /\ sessions[s].retained # <<>>
  /\ after + 1 < sessions[s].retained[1].revision

\* The places of the entries the filter keeps; it answers them in this order.
Resynced(s, after) ==
  {i \in DOMAIN sessions[s].retained : sessions[s].retained[i].revision > after}

\* One entry is dropped from the front when the deque is over its limit.
Trimmed(retained) == IF Len(retained) > MaxReplay THEN Tail(retained) ELSE retained

\* Faulty: watches keep the revision they were opened at.
FollowNot(watches, revision) == watches

Follow(watches, revision) ==
  [w \in Watches |-> IF watches[w] = NoEntry THEN NoEntry
                     ELSE [watches[w] EXCEPT !.revision = revision]]

\* base_revision must be the current one; the connection is not needed.
ApplyPatch(s, new, set, removed) ==
  /\ Usable(s)
  /\ new > Current(s)
  /\ set \cap removed = {} /\ removed \subseteq sessions[s].page
  /\ LET page == (sessions[s].page \cup set) \ removed
     IN /\ Cardinality(page) <= MaxPageEntries
        /\ sessions' = [sessions EXCEPT
             ![s].page = page,
             ![s].retained = Trimmed(Append(@, [revision |-> new, page |-> page])),
             ![s].watches = Follow(@, new)]
  /\ published' = [published EXCEPT ![s] = Append(@, new)]
  /\ UNCHANGED ended

\* The caller must have seen the current revision.
OpenWatch(s, w) ==
  /\ Connected(s)
  /\ sessions[s].watches[w] = NoEntry
  /\ Cardinality(Held(sessions[s].watches)) # MaxWatches
  /\ sessions' = [sessions EXCEPT ![s].watches[w] = [revision |-> Current(s), next_action |-> 0]]
  /\ UNCHANGED <<published, ended>>

CloseWatch(s, w) ==
  /\ Usable(s)
  /\ sessions' = [sessions EXCEPT ![s].watches[w] = NoEntry]
  /\ UNCHANGED <<published, ended>>

\* An action names the revision and the sequence number the watch expects.
Action(s, w, revision, sequence) ==
  /\ Connected(s)
  /\ sessions[s].watches[w] # NoEntry
  /\ sessions[s].watches[w].revision = revision
  /\ sessions[s].watches[w].next_action = sequence
  /\ sequence < MaxActions
  /\ sessions' = [sessions EXCEPT ![s].watches[w].next_action = @ + 1]
  /\ UNCHANGED <<published, ended>>

-----------------------------------------------------------------------------
(* Requests.  A request is never forgotten while its session exists.       *)

SetRequest(s, r, state) ==
  /\ sessions' = [sessions EXCEPT ![s].requests[r] = state]
  /\ UNCHANGED <<published, ended>>

ReserveRequest(s, r) ==
  /\ Connected(s)
  /\ sessions[s].requests[r] = NoEntry
  /\ Cardinality(Held(sessions[s].requests)) < MaxRequests
  /\ SetRequest(s, r, "Reserved")

StartRequest(s, r) ==
  /\ Usable(s) /\ sessions[s].requests[r] = "Reserved"
  /\ SetRequest(s, r, "Running")

CompleteRequest(s, r) ==
  /\ Usable(s) /\ sessions[s].requests[r] \in {"Reserved", "Running"}
  /\ SetRequest(s, r, "Completed")

CancelRequest(s, r) ==
  /\ Usable(s) /\ sessions[s].requests[r] \notin Terminal \cup {NoEntry}
  /\ SetRequest(s, r, "Cancelled")

Shut(s) ==
  /\ sessions' = [sessions EXCEPT ![s].closed = TRUE, ![s].connected = FALSE]
  /\ ended' = ended \cup {s}
  /\ UNCHANGED published

\* credential_deleted and origin_deleted after a deletion that succeeded.
DeletionSucceeds(s) == Usable(s) /\ Shut(s)

\* Faulty: the error is answered and the session left as it is.
DeletionFailsOpen(s) ==
  /\ Usable(s)
  /\ ended' = ended \cup {s}
  /\ UNCHANGED <<sessions, published>>

\* The same after one that failed, or of another origin than the session's:
\* an error is answered, and the session is closed all the same.
DeletionFails(s) == Usable(s) /\ Shut(s)

\* cancel_envelope dispatches to cancel_request and close_watch.
ServingNext == \E s \in Sessions :
  \/ \E c \in Credentials :
       \/ Admit(s, c)
       \/ Reconnect(s, c)
       \/ \E replacement \in Credentials : RotateCredential(s, c, replacement)
  \/ Disconnect(s)
  \/ DeletionSucceeds(s) \/ DeletionFails(s)
  \/ \E new \in 1..MaxRevision, set, removed \in SUBSET PageKeys : ApplyPatch(s, new, set, removed)
  \/ \E w \in Watches :
       \/ OpenWatch(s, w)
       \/ CloseWatch(s, w)
       \/ \E revision \in 0..MaxRevision, sequence \in 0..MaxActions :
            Action(s, w, revision, sequence)
  \/ \E r \in Requests :
       ReserveRequest(s, r) \/ StartRequest(s, r) \/ CompleteRequest(s, r) \/ CancelRequest(s, r)

ServingSpec == ServingInit /\ [][ServingNext]_servingVars

-----------------------------------------------------------------------------
(* Properties.                                                             *)

ServingTypeOK ==
  /\ sessions \in [Sessions -> Session \cup {NoSession}]
  /\ published \in [Sessions -> Seq(Nat)]
  /\ ended \subseteq Sessions

RevisionsAfter(s, after) ==
  {published[s][i] : i \in {j \in DOMAIN published[s] : published[s][j] > after}}

\* Serving::resync "gaps fail closed": whatever revisions were skipped or
\* dropped from the replay deque, a caller that is not told to replay gets
\* every revision published after the one it names, once and in the order of
\* publication, and nothing else.
ResyncIsGapless ==
  \A s \in Admitted, after \in 0..MaxRevision :
    LET retained == sessions[s].retained IN
    ~ReplayRequired(s, after) =>
      /\ {retained[i].revision : i \in Resynced(s, after)} = RevisionsAfter(s, after)
      /\ \A i, j \in Resynced(s, after) : i < j => retained[i].revision < retained[j].revision

\* Serving::{apply_patch, open_watch}: every open watch stands at the current
\* revision, so an action that names it acts on what its client was shown.
WatchesFollowPage ==
  \A s \in Admitted, w \in Watches :
    sessions[s].watches[w] # NoEntry => sessions[s].watches[w].revision = Current(s)

\* What has ended stays ended: once the deletion of a session was tried,
\* whether or not it succeeded, the session is closed and never changes again,
\* so that no reconnect, rotation, patch or request follows (credential_deleted,
\* origin_deleted and Serving::session_mut); a terminal request stays what it is, and no
\* request is forgotten, so a repeated identity is never taken for a new one.
EndedStaysEnded ==
  [][\A s \in Admitted :
       /\ s \in ended \/ sessions[s].closed =>
            sessions[s].closed /\ sessions'[s] = sessions[s]
       /\ \A r \in Requests :
            LET before == sessions[s].requests[r]
                after == sessions'[s].requests[r]
            IN /\ before \in Terminal => after = before
               /\ before # NoEntry => after # NoEntry]_servingVars

=============================================================================
