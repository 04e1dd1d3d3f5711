--------------------------- MODULE ServingProofs ---------------------------
(***************************************************************************)
(* The promises of the serving state, for all sessions, pages, watches,    *)
(* requests and limits.                                                    *)
(*                                                                         *)
(* A call changes one session and its history, so the inductive invariant  *)
(* is a predicate of one session: Good(e, p) for its record and the        *)
(* revisions it published.  What makes resync gapless is that the retained *)
(* revisions are the last ones published, that those increase, and that    *)
(* something is retained once anything was published.                      *)
(***************************************************************************)
EXTENDS Serving, SequenceTheorems, TLAPS

(* Revisions are published in increasing order. *)
Increasing(p) == \A i, j \in 1..Len(p) : i < j => p[i] < p[j]

(* The deque r holds the end of what was published. *)
Suffix(r, p) ==
  /\ Len(r) <= Len(p) /\ (p # <<>> => r # <<>>)
  /\ \A i \in 1..Len(r) : r[i].revision = p[Len(p) - Len(r) + i]

(* The revision of the newest entry of r. *)
Last(r) == IF r = <<>> THEN 0 ELSE r[Len(r)].revision

Following(watches, revision) ==
  \A w \in Watches : watches[w] # NoEntry => watches[w].revision = revision

Good(e, p) ==
  /\ Increasing(p)
  /\ e = NoSession => p = <<>>
  /\ e # NoSession => Suffix(e.retained, p) /\ Following(e.watches, Last(e.retained))

ServingInv == ServingTypeOK /\ \A s \in Sessions : Good(sessions[s], published[s])

-----------------------------------------------------------------------------
(* Dropping the oldest entry of a deque leaves the end of the history. *)
LEMMA TrimmedSuffix ==
  ASSUME NEW r \in Seq(PageRevision), NEW p \in Seq(Nat), Suffix(r, p), r # <<>>
  PROVE  Trimmed(r) \in Seq(PageRevision) /\ Suffix(Trimmed(r), p)
                    /\ Trimmed(r) # <<>> /\ Last(Trimmed(r)) = Last(r)
<1>m. MaxReplay \in Nat /\ MaxReplay > 0
  BY ServingAssumption
<1>1. CASE Len(r) > MaxReplay
  <2> DEFINE t == Tail(r)
  <2>1. Trimmed(r) = t
    BY <1>1 DEF Trimmed
  <2>2. /\ t \in Seq(PageRevision) /\ Len(t) = Len(r) - 1
        /\ \A i \in 1..Len(t) : t[i] = r[i + 1]
    BY HeadTailProperties
  <2> HIDE DEF t
  <2>3. Len(r) \in Nat /\ Len(p) \in Nat /\ Len(r) > 1
    BY <1>m, <1>1
  <2>4. t # <<>>
    <3>1. Len(t) # 0
      BY <2>2, <2>3
    <3> QED BY <3>1, EmptySeq
  <2>5. \A i \in 1..Len(t) : t[i].revision = p[Len(p) - Len(t) + i]
    <3> SUFFICES ASSUME NEW i \in 1..Len(t)
                 PROVE  t[i].revision = p[Len(p) - Len(t) + i]
      OBVIOUS
    <3>1. i + 1 \in 1..Len(r) /\ Len(p) - Len(t) + i = Len(p) - Len(r) + (i + 1)
      BY <2>2, <2>3
    <3> QED BY <3>1, <2>2 DEF Suffix
  <2>6. Suffix(t, p)
    BY <2>2, <2>3, <2>4, <2>5 DEF Suffix
  <2>7. Last(t) = Last(r)
    <3>1. Len(t) \in 1..Len(t) /\ Len(t) + 1 = Len(r)
      BY <2>2, <2>3
    <3> QED BY <2>2, <2>4, <3>1 DEF Last
  <2> QED BY <2>1, <2>2, <2>4, <2>6, <2>7
<1>2. CASE ~(Len(r) > MaxReplay)
  BY <1>2 DEF Trimmed
<1> QED BY <1>1, <1>2

(* A new revision goes to the end of both. *)
LEMMA AppendSuffix ==
  ASSUME NEW r \in Seq(PageRevision), NEW p \in Seq(Nat), Suffix(r, p), Increasing(p),
         NEW entry \in PageRevision, entry.revision > Last(r)
  PROVE  LET longer == Append(p, entry.revision)
             kept == Append(r, entry)
         IN /\ kept \in Seq(PageRevision) /\ longer \in Seq(Nat)
            /\ Suffix(kept, longer) /\ Increasing(longer)
            /\ kept # <<>> /\ Last(kept) = entry.revision
<1> DEFINE v == entry.revision
           longer == Append(p, v)
           kept == Append(r, entry)
<1>0. v \in Nat
  BY DEF PageRevision
<1>1. /\ longer \in Seq(Nat) /\ Len(longer) = Len(p) + 1
      /\ \A i \in 1..Len(p) : longer[i] = p[i]
      /\ longer[Len(p) + 1] = v
  BY <1>0, AppendProperties
<1>2. /\ kept \in Seq(PageRevision) /\ Len(kept) = Len(r) + 1
      /\ \A i \in 1..Len(r) : kept[i] = r[i]
      /\ kept[Len(r) + 1] = entry
  BY AppendProperties
<1> HIDE DEF longer, kept
<1>3. Len(p) \in Nat /\ Len(r) \in Nat /\ Len(r) <= Len(p)
  BY DEF Suffix
<1>4. kept # <<>> /\ longer # <<>>
  <2> QED BY <1>1, <1>2, <1>3, EmptySeq
<1>5. Suffix(kept, longer)
  <2>1. ASSUME NEW i \in 1..Len(kept)
        PROVE  kept[i].revision = longer[Len(longer) - Len(kept) + i]
    <3>1. CASE i \in 1..Len(r)
      <4>0. Len(longer) = Len(p) + 1 /\ Len(kept) = Len(r) + 1
        BY <1>1, <1>2
      <4>1. /\ Len(p) - Len(r) + i \in 1..Len(p)
            /\ Len(longer) - Len(kept) + i = Len(p) - Len(r) + i
        BY <3>1, <4>0, <1>3
      <4> QED BY <4>1, <3>1, <1>1, <1>2 DEF Suffix
    <3>2. CASE i = Len(r) + 1
      <4>1. Len(longer) - Len(kept) + i = Len(p) + 1
        BY <3>2, <1>1, <1>2, <1>3
      <4>2. kept[i] = entry
        BY <3>2, <1>2
      <4>3. longer[Len(longer) - Len(kept) + i] = v
        BY <4>1, <1>1
      <4> QED BY <4>2, <4>3
    <3> QED BY <3>1, <3>2, <1>2, <1>3
  <2> QED BY <2>1, <1>1, <1>2, <1>3, <1>4 DEF Suffix
<1>6. \A i \in 1..Len(p) : p[i] < v
  <2> SUFFICES ASSUME NEW i \in 1..Len(p) PROVE p[i] < v
    OBVIOUS
  <2>1. r # <<>> /\ Len(r) \in 1..Len(r) /\ Len(p) \in 1..Len(p)
    BY <1>3 DEF Suffix
  <2>2. Last(r) = p[Len(p)]
    <3>1. Len(p) - Len(r) + Len(r) = Len(p)
      BY <1>3
    <3> QED BY <2>1, <3>1 DEF Last, Suffix
  <2>3. p[i] \in Nat /\ p[Len(p)] \in Nat
    BY <2>1, ElementOfSeq
  <2>4. p[i] <= p[Len(p)]
    BY <2>1, <2>3 DEF Increasing
  <2> QED BY <1>0, <2>2, <2>3, <2>4
<1>l. Len(longer) = Len(p) + 1
  BY <1>1
<1>7. Increasing(longer)
  <2> SUFFICES ASSUME NEW i \in 1..Len(longer), NEW j \in 1..Len(longer), i < j
               PROVE  longer[i] < longer[j]
    BY DEF Increasing
  <2>1. CASE j = Len(p) + 1
    <3>1. i \in 1..Len(p)
      BY <2>1, <1>1, <1>3
    <3> QED BY <3>1, <2>1, <1>1, <1>6
  <2>2. CASE j # Len(p) + 1
    <3>0. i \in Nat /\ j \in Nat /\ 1 <= i /\ i < j /\ j <= Len(p) + 1
      BY <1>l
    <3>1. i \in 1..Len(p) /\ j \in 1..Len(p)
      BY <3>0, <2>2, <1>3
    <3> QED BY <3>1, <1>1 DEF Increasing
  <2> QED BY <2>1, <2>2
<1>8. Last(kept) = v
  BY <1>2, <1>4 DEF Last
<1> QED BY <1>1, <1>2, <1>4, <1>5, <1>7, <1>8 DEF longer, kept

(* A patch moves every open watch to its revision. *)
LEMMA FollowedWatches ==
  ASSUME NEW watches \in [Watches -> Watch \cup {NoEntry}], NEW new \in Nat
  PROVE  /\ Follow(watches, new) \in [Watches -> Watch \cup {NoEntry}]
         /\ Following(Follow(watches, new), new)
<1>1. ASSUME NEW w \in Watches, watches[w] # NoEntry
      PROVE  /\ [watches[w] EXCEPT !.revision = new] \in Watch
             /\ [watches[w] EXCEPT !.revision = new].revision = new
  BY <1>1 DEF Watch
<1> QED BY <1>1 DEF Follow, Following

-----------------------------------------------------------------------------
(* A step that leaves one session good leaves them all good. *)
LEMMA OneSession ==
  ASSUME ServingInv, NEW s \in Sessions, NEW e \in Session, NEW p \in Seq(Nat), Good(e, p),
         sessions' = [sessions EXCEPT ![s] = e], published' = [published EXCEPT ![s] = p],
         ended' \subseteq Sessions
  PROVE  ServingInv'
<1>1. ServingTypeOK'
  BY DEF ServingInv, ServingTypeOK
<1>2. ASSUME NEW t \in Sessions PROVE Good(sessions'[t], published'[t])
  BY DEF ServingInv, ServingTypeOK
<1> QED BY <1>1, <1>2 DEF ServingInv

(* What an action finds in a session it may use. *)
LEMMA UsableSession ==
  ASSUME ServingInv, NEW s \in Sessions, Usable(s)
  PROVE  /\ sessions[s] \in Session /\ sessions[s] # NoSession
         /\ published[s] \in Seq(Nat) /\ Good(sessions[s], published[s])
         /\ Increasing(published[s]) /\ Suffix(sessions[s].retained, published[s])
         /\ Following(sessions[s].watches, Last(sessions[s].retained))
  BY DEF ServingInv, ServingTypeOK, Usable, Admitted, Good

(* A step that changes neither the deque nor the watches of a session. *)
LEMMA Aside ==
  ASSUME ServingInv, NEW s \in Sessions, Usable(s), NEW e \in Session,
         e.retained = sessions[s].retained, e.watches = sessions[s].watches,
         sessions' = [sessions EXCEPT ![s] = e], UNCHANGED published,
         ended' \subseteq Sessions
  PROVE  ServingInv'
<1>1. Good(e, published[s])
  BY UsableSession, ServingAssumption DEF Good
<1>2. published' = [published EXCEPT ![s] = published[s]]
  BY DEF ServingInv, ServingTypeOK
<1> QED BY <1>1, <1>2, UsableSession, OneSession

(* A step that changes only the watches of a session. *)
LEMMA Watching ==
  ASSUME ServingInv, NEW s \in Sessions, Usable(s),
         NEW watches \in [Watches -> Watch \cup {NoEntry}],
         Following(watches, Last(sessions[s].retained)),
         sessions' = [sessions EXCEPT ![s].watches = watches], UNCHANGED <<published, ended>>
  PROVE  ServingInv'
<1> DEFINE e == [sessions[s] EXCEPT !.watches = watches]
<1>1. e \in Session /\ e.retained = sessions[s].retained /\ e.watches = watches
  BY UsableSession DEF Session
<1>2. Good(e, published[s])
  <2> HIDE DEF e
  <2> QED BY <1>1, UsableSession, ServingAssumption DEF Good
<1>3. published' = [published EXCEPT ![s] = published[s]]
  BY DEF ServingInv, ServingTypeOK
<1>4. ended' \subseteq Sessions
  BY DEF ServingInv, ServingTypeOK
<1> QED BY <1>1, <1>2, <1>3, <1>4, UsableSession, OneSession

-----------------------------------------------------------------------------
(* No session has been admitted. *)
LEMMA InitServingInv == ServingInit => ServingInv
  BY EmptySeq DEF ServingInit, ServingInv, ServingTypeOK, Good, Increasing

(* A new session has no history. *)
LEMMA AdmitServingInv ==
  ASSUME ServingInv, NEW s \in Sessions, NEW c \in Credentials, Admit(s, c)
  PROVE  ServingInv'
<1> DEFINE e == [credential |-> c, connected |-> TRUE, closed |-> FALSE,
                 page |-> {}, retained |-> <<>>, watches |-> [w \in Watches |-> NoEntry],
                 requests |-> [r \in Requests |-> NoEntry]]
<1>1. e \in Session
  BY EmptySeq DEF Session
<1>2. published[s] = <<>> /\ published[s] \in Seq(Nat)
  BY DEF ServingInv, ServingTypeOK, Good, Admit
<1>3. Good(e, published[s])
  BY <1>1, <1>2, EmptySeq DEF Good, Increasing, Suffix, Following
<1>4. published' = [published EXCEPT ![s] = published[s]]
  BY DEF ServingInv, ServingTypeOK, Admit
<1>5. sessions' = [sessions EXCEPT ![s] = e]
  BY DEF Admit
<1>6. ended' \subseteq Sessions
  BY DEF ServingInv, ServingTypeOK, Admit
<1> QED BY <1>1, <1>2, <1>3, <1>4, <1>5, <1>6, OneSession

(* A patch adds one revision to the deque and to the history. *)
LEMMA PatchServingInv ==
  ASSUME ServingInv, NEW s \in Sessions, NEW new \in 1..MaxRevision,
         NEW set \in SUBSET PageKeys, NEW removed \in SUBSET PageKeys,
         ApplyPatch(s, new, set, removed)
  PROVE  ServingInv'
<1> DEFINE page == (sessions[s].page \cup set) \ removed
           entry == [revision |-> new, page |-> page]
           r == Append(sessions[s].retained, entry)
           p == Append(published[s], new)
           e == [sessions[s] EXCEPT !.page = page, !.retained = Trimmed(r),
                                    !.watches = Follow(@, new)]
<1>1. sessions[s] \in Session /\ published[s] \in Seq(Nat)
  BY UsableSession DEF ApplyPatch
<1>2. entry \in PageRevision /\ entry.revision = new /\ new > Last(sessions[s].retained)
  BY <1>1, ServingAssumption DEF PageRevision, ApplyPatch, Current, Last, Session
<1>3. /\ r \in Seq(PageRevision) /\ p \in Seq(Nat)
      /\ Suffix(r, p) /\ Increasing(p) /\ r # <<>> /\ Last(r) = new
  <2>1. /\ sessions[s].retained \in Seq(PageRevision)
        /\ Suffix(sessions[s].retained, published[s]) /\ Increasing(published[s])
    BY <1>1, UsableSession DEF ApplyPatch, Session
  <2> HIDE DEF entry
  <2> QED BY <1>1, <1>2, <2>1, AppendSuffix
<1>4. /\ Trimmed(r) \in Seq(PageRevision) /\ Suffix(Trimmed(r), p) /\ Last(Trimmed(r)) = new
  <2> HIDE DEF r, p
  <2> QED BY <1>3, TrimmedSuffix
<1>5. /\ Follow(sessions[s].watches, new) \in [Watches -> Watch \cup {NoEntry}]
      /\ Following(Follow(sessions[s].watches, new), new)
  <2>1. sessions[s].watches \in [Watches -> Watch \cup {NoEntry}] /\ new \in Nat
    BY <1>1, ServingAssumption DEF Session
  <2> QED BY <2>1, FollowedWatches
<1>6. /\ e \in Session /\ e.retained = Trimmed(r)
      /\ e.watches = Follow(sessions[s].watches, new)
  <2> HIDE DEF r
  <2> QED BY <1>1, <1>4, <1>5 DEF Session
<1>7. Good(e, p)
  <2> HIDE DEF r, p, e
  <2> QED BY <1>3, <1>4, <1>5, <1>6, ServingAssumption DEF Good
<1>8. sessions' = [sessions EXCEPT ![s] = e] /\ published' = [published EXCEPT ![s] = p]
  BY DEF ApplyPatch
<1>9. ended' \subseteq Sessions
  BY DEF ServingInv, ServingTypeOK, ApplyPatch
<1> HIDE DEF e, p
<1> QED BY <1>3, <1>6, <1>7, <1>8, <1>9, OneSession

(* A watch is opened and moved at the current revision. *)
LEMMA WatchServingInv ==
  ASSUME ServingInv, NEW s \in Sessions, NEW w \in Watches,
         \/ OpenWatch(s, w) \/ CloseWatch(s, w)
         \/ \E revision \in 0..MaxRevision, sequence \in 0..MaxActions :
              Action(s, w, revision, sequence)
  PROVE  ServingInv'
<1> DEFINE held == sessions[s].watches
           last == Last(sessions[s].retained)
<1>u. Usable(s) /\ UNCHANGED <<published, ended>>
  BY DEF OpenWatch, CloseWatch, Action, Connected
<1>t. held \in [Watches -> Watch \cup {NoEntry}] /\ sessions[s] \in Session /\ Following(held, last)
  BY <1>u, UsableSession DEF Session
<1>1. CASE OpenWatch(s, w)
  <2> DEFINE opened == [held EXCEPT ![w] = [revision |-> Current(s), next_action |-> 0]]
  <2>1. Current(s) = last /\ last \in Nat
    <3>1. Current(s) = last
      BY DEF Current, Last
    <3>2. sessions[s].retained \in Seq(PageRevision)
      BY <1>t DEF Session
    <3>3. ASSUME sessions[s].retained # <<>>
          PROVE  sessions[s].retained[Len(sessions[s].retained)] \in PageRevision
      BY <3>2, <3>3, ElementOfSeq, EmptySeq
    <3> QED BY <3>1, <3>3 DEF Last, PageRevision
  <2>2. opened \in [Watches -> Watch \cup {NoEntry}] /\ Following(opened, last)
    BY <1>t, <2>1 DEF Watch, Following
  <2>3. sessions' = [sessions EXCEPT ![s].watches = opened]
    BY <1>1 DEF OpenWatch
  <2> HIDE DEF opened
  <2> QED BY <1>u, <2>2, <2>3, Watching
<1>2. CASE CloseWatch(s, w)
  <2> DEFINE shut == [held EXCEPT ![w] = NoEntry]
  <2>2. shut \in [Watches -> Watch \cup {NoEntry}] /\ Following(shut, last)
    BY <1>t DEF Following
  <2>3. sessions' = [sessions EXCEPT ![s].watches = shut]
    BY <1>2 DEF CloseWatch
  <2> HIDE DEF shut
  <2> QED BY <1>u, <2>2, <2>3, Watching
<1>3. ASSUME NEW revision \in 0..MaxRevision, NEW sequence \in 0..MaxActions,
             Action(s, w, revision, sequence)
      PROVE  ServingInv'
  <2> DEFINE moved == [held EXCEPT ![w].next_action = @ + 1]
  <2>1. held[w] \in Watch
    BY <1>t, <1>3 DEF Action
  <2>2. /\ [held[w] EXCEPT !.next_action = @ + 1] \in Watch
        /\ [held[w] EXCEPT !.next_action = @ + 1].revision = held[w].revision
    BY <2>1 DEF Watch
  <2>3. moved \in [Watches -> Watch \cup {NoEntry}] /\ Following(moved, last)
    BY <1>t, <1>3, <2>2 DEF Following, Action
  <2>4. sessions' = [sessions EXCEPT ![s].watches = moved]
    BY <1>3 DEF Action
  <2> HIDE DEF moved
  <2> QED BY <1>u, <2>3, <2>4, Watching
<1> QED BY <1>1, <1>2, <1>3

(* The life of a request does not touch pages. *)
LEMMA RequestServingInv ==
  ASSUME ServingInv, NEW s \in Sessions, NEW r \in Requests,
         ReserveRequest(s, r) \/ StartRequest(s, r) \/ CompleteRequest(s, r) \/ CancelRequest(s, r)
  PROVE  ServingInv'
<1>1. Usable(s) /\ \E state \in RequestStates : SetRequest(s, r, state)
  BY DEF ReserveRequest, StartRequest, CompleteRequest, CancelRequest, Connected, RequestStates
<1>2. PICK state \in RequestStates : SetRequest(s, r, state)
  BY <1>1
<1> DEFINE e == [sessions[s] EXCEPT !.requests[r] = state]
<1>3. e \in Session /\ e.retained = sessions[s].retained /\ e.watches = sessions[s].watches
  BY <1>1, UsableSession DEF Session
<1>4. sessions' = [sessions EXCEPT ![s] = e] /\ UNCHANGED published /\ ended' \subseteq Sessions
  BY <1>2 DEF SetRequest, ServingInv, ServingTypeOK
<1> HIDE DEF e
<1> QED BY <1>1, <1>3, <1>4, Aside

(* Connections, credentials and the end of a session. *)
LEMMA SessionServingInv ==
  ASSUME ServingInv, NEW s \in Sessions,
         \/ Disconnect(s) \/ DeletionSucceeds(s) \/ DeletionFails(s)
         \/ \E c \in Credentials : \/ Reconnect(s, c)
                                  \/ \E d \in Credentials : RotateCredential(s, c, d)
  PROVE  ServingInv'
<1> DEFINE Kept(e) == e.retained = sessions[s].retained /\ e.watches = sessions[s].watches
<1>u. Usable(s) /\ UNCHANGED published /\ sessions[s] \in Session /\ ended' \subseteq Sessions
  BY UsableSession DEF Disconnect, DeletionSucceeds, DeletionFails, Shut, Reconnect,
     RotateCredential, ServingInv, ServingTypeOK
<1>1. CASE Disconnect(s)
  <2> DEFINE e == [sessions[s] EXCEPT !.connected = FALSE]
  <2>1. e \in Session /\ Kept(e) /\ sessions' = [sessions EXCEPT ![s] = e]
    BY <1>1, <1>u DEF Disconnect, Session
  <2> HIDE DEF e
  <2> QED BY <1>u, <2>1, Aside
<1>2. CASE Shut(s)
  <2> DEFINE e == [sessions[s] EXCEPT !.closed = TRUE, !.connected = FALSE]
  <2>1. e \in Session /\ Kept(e) /\ sessions' = [sessions EXCEPT ![s] = e]
    BY <1>2, <1>u DEF Shut, Session
  <2> HIDE DEF e
  <2> QED BY <1>u, <2>1, Aside
<1>3. ASSUME NEW c \in Credentials, Reconnect(s, c) PROVE ServingInv'
  <2> DEFINE e == [sessions[s] EXCEPT !.connected = TRUE]
  <2>1. e \in Session /\ Kept(e) /\ sessions' = [sessions EXCEPT ![s] = e]
    BY <1>3, <1>u DEF Reconnect, Session
  <2> HIDE DEF e
  <2> QED BY <1>u, <2>1, Aside
<1>4. ASSUME NEW c \in Credentials, NEW d \in Credentials, RotateCredential(s, c, d)
      PROVE  ServingInv'
  <2> DEFINE e == [sessions[s] EXCEPT !.credential = d]
  <2>1. e \in Session /\ Kept(e) /\ sessions' = [sessions EXCEPT ![s] = e]
    BY <1>4, <1>u DEF RotateCredential, Session
  <2> HIDE DEF e
  <2> QED BY <1>u, <2>1, Aside
<1> QED BY <1>1, <1>2, <1>3, <1>4 DEF DeletionSucceeds, DeletionFails

(* The invariant is kept by every method. *)
LEMMA NextServingInv ==
  ASSUME ServingInv, [ServingNext]_servingVars
  PROVE  ServingInv'
<1>1. CASE UNCHANGED servingVars
  BY <1>1 DEF servingVars, ServingInv, ServingTypeOK
<1>2. ASSUME NEW s \in Sessions, NEW c \in Credentials, Admit(s, c) PROVE ServingInv'
  BY <1>2, AdmitServingInv
<1>3. ASSUME NEW s \in Sessions, NEW new \in 1..MaxRevision,
             NEW set \in SUBSET PageKeys, NEW removed \in SUBSET PageKeys,
             ApplyPatch(s, new, set, removed)
      PROVE  ServingInv'
  BY <1>3, PatchServingInv
<1> QED BY <1>1, <1>2, <1>3, WatchServingInv, RequestServingInv, SessionServingInv DEF ServingNext

-----------------------------------------------------------------------------
(* The theorems.                                                           *)

(* Every call of Serving leaves sessions, deques, watches and requests     *)
(* well-formed, and the deque the end of the published history.            *)
THEOREM ServingInvariant == ServingSpec => []ServingInv
<1>1. ServingInit => ServingInv
  BY InitServingInv
<1>2. ServingInv /\ [ServingNext]_servingVars => ServingInv'
  BY NextServingInv
<1> QED BY <1>1, <1>2, PTL DEF ServingSpec

(* resync: a caller that is not told to replay has been given every        *)
(* revision published since, in order, whatever the deque has dropped.     *)
THEOREM GaplessResync == ServingSpec => []ResyncIsGapless
<1>1. ServingInv => ResyncIsGapless
  <2> SUFFICES ASSUME ServingInv, NEW s \in Admitted, NEW after \in 0..MaxRevision,
                      ~ReplayRequired(s, after)
               PROVE  /\ {sessions[s].retained[i].revision : i \in Resynced(s, after)}
                            = RevisionsAfter(s, after)
                      /\ \A i, j \in Resynced(s, after) :
                           i < j => sessions[s].retained[i].revision < sessions[s].retained[j].revision
    BY DEF ResyncIsGapless
  <2> DEFINE r == sessions[s].retained
             p == published[s]
             Place(i) == Len(p) - Len(r) + i
  <2>1. /\ r \in Seq(PageRevision) /\ p \in Seq(Nat) /\ Suffix(r, p) /\ Increasing(p)
        /\ after \in Nat
    BY ServingAssumption DEF ServingInv, ServingTypeOK, Good, Admitted, Session
  <2>2. /\ Len(r) \in Nat /\ Len(p) \in Nat /\ Len(r) <= Len(p)
        /\ DOMAIN r = 1..Len(r) /\ DOMAIN p = 1..Len(p)
    BY <2>1, LenProperties DEF Suffix
  <2>3. \A i \in 1..Len(p) : p[i] \in Nat
    BY <2>1, ElementOfSeq
  <2>5. Resynced(s, after) = {i \in 1..Len(r) : r[i].revision > after}
    BY <2>2 DEF Resynced
  <2>6. RevisionsAfter(s, after) = {p[j] : j \in {k \in 1..Len(p) : p[k] > after}}
    BY <2>2 DEF RevisionsAfter
  <2>f. r # <<>> => ~(after + 1 < r[1].revision)
    BY DEF ReplayRequired
  <2> HIDE DEF p, r
  <2>4. ASSUME NEW i \in 1..Len(r)
        PROVE  Place(i) \in 1..Len(p) /\ r[i].revision = p[Place(i)]
    <3>1. Place(i) \in 1..Len(p)
      BY <2>2
    <3> QED BY <2>1, <3>1 DEF Suffix
  <2>7. ASSUME NEW j \in 1..Len(p), p[j] > after
        PROVE  \E i \in 1..Len(r) : Place(i) = j
    <3>1. r # <<>> /\ Len(r) > 0 /\ 1 \in 1..Len(r)
      BY <2>1, <2>2, EmptySeq DEF Suffix
    <3>2. after + 1 >= p[Place(1)] /\ Place(1) \in 1..Len(p) /\ p[Place(1)] \in Nat
      <4>1. ~(after + 1 < r[1].revision)
        BY <3>1, <2>f
      <4>2. Place(1) \in 1..Len(p) /\ r[1].revision = p[Place(1)]
        BY <2>4, <3>1
      <4>3. p[Place(1)] \in Nat
        BY <2>3, <4>2
      <4> HIDE DEF Place
      <4> QED BY <4>1, <4>2, <4>3, <2>1
    <3>3. p[j] \in Nat
      BY <2>3
    <3>4. ~(p[j] < p[Place(1)])
      <4> HIDE DEF Place
      <4> QED BY <3>2, <3>3, <2>1, <2>7
    <3>5. ~(j < Place(1))
      <4> HIDE DEF Place
      <4> QED BY <3>2, <3>4, <2>1 DEF Increasing
    <3>6. j - (Len(p) - Len(r)) \in 1..Len(r) /\ Place(j - (Len(p) - Len(r))) = j
      BY <3>1, <3>5, <2>2
    <3> QED BY <3>6
  <2>8. {r[i].revision : i \in Resynced(s, after)} = RevisionsAfter(s, after)
    <3> HIDE DEF Place
    <3>1. ASSUME NEW i \in Resynced(s, after)
          PROVE  r[i].revision \in RevisionsAfter(s, after)
      BY <2>4, <2>5, <2>6
    <3>2. ASSUME NEW j \in 1..Len(p), p[j] > after
          PROVE  \E i \in Resynced(s, after) : r[i].revision = p[j]
      <4>1. PICK i \in 1..Len(r) : Place(i) = j
        BY <2>7, <3>2
      <4>2. r[i].revision = p[j]
        BY <2>4, <4>1
      <4> QED BY <4>2, <2>5, <3>2
    <3> QED BY <3>1, <3>2, <2>6
  <2>9. ASSUME NEW i \in Resynced(s, after), NEW j \in Resynced(s, after), i < j
        PROVE  r[i].revision < r[j].revision
    <3>1. i \in 1..Len(r) /\ j \in 1..Len(r) /\ Place(i) < Place(j)
      BY <2>2, <2>5, <2>9
    <3> HIDE DEF Place
    <3> QED BY <3>1, <2>1, <2>4 DEF Increasing
  <2> QED BY <2>8, <2>9 DEF r
<1> QED BY <1>1, ServingInvariant, PTL

(* apply_patch and open_watch: an open watch stands at the revision its    *)
(* client was shown.                                                       *)
THEOREM OpenWatchesFollow == ServingSpec => []WatchesFollowPage
<1>1. ServingInv => WatchesFollowPage
  BY DEF ServingInv, Good, WatchesFollowPage, Admitted, Following, Current, Last
<1> QED BY <1>1, ServingInvariant, PTL

(* What ended stays ended, step by step: a closed session is never changed *)
(* (session_mut), a terminal request keeps its state, none is forgotten.   *)
LEMMA EndedStep ==
  ASSUME ServingInv, [ServingNext]_servingVars, NEW s \in Admitted
  PROVE  /\ sessions[s].closed => sessions'[s] = sessions[s]
         /\ \A r \in Requests :
              /\ sessions[s].requests[r] \in Terminal
                   => sessions'[s].requests[r] = sessions[s].requests[r]
              /\ sessions[s].requests[r] # NoEntry => sessions'[s].requests[r] # NoEntry
<1> DEFINE Requested(e) == e.requests = sessions[s].requests
<1>t. /\ sessions[s] \in Session /\ sessions[s] # NoSession /\ s \in Sessions
      /\ sessions \in [Sessions -> Session \cup {NoSession}]
  BY DEF ServingInv, ServingTypeOK, Admitted
<1>1. CASE \E t \in Sessions : \E r \in Requests : \E state \in RequestStates :
             /\ Usable(t) /\ sessions[t].requests[r] \notin Terminal
             /\ SetRequest(t, r, state)
  <2>1. PICK t \in Sessions, r \in Requests, state \in RequestStates :
             /\ Usable(t) /\ sessions[t].requests[r] \notin Terminal
             /\ SetRequest(t, r, state)
    BY <1>1
  <2>2. CASE t # s
    BY <1>t, <2>1, <2>2 DEF SetRequest
  <2>3. CASE t = s
    <3>1. ~sessions[s].closed
      BY <2>1, <2>3 DEF Usable
    <3>2. sessions'[s].requests = [sessions[s].requests EXCEPT ![r] = state]
      BY <1>t, <2>1, <2>3 DEF SetRequest, Session
    <3>3. sessions[s].requests \in [Requests -> RequestStates \cup {NoEntry}]
      BY <1>t DEF Session
    <3> QED BY <3>1, <3>2, <3>3, <2>1, <2>3, ServingAssumption
  <2> QED BY <2>2, <2>3
<1>2. CASE sessions'[s] = sessions[s] \/ (~sessions[s].closed /\ Requested(sessions'[s]))
  BY <1>2
<1>3. ASSUME NEW t \in Sessions, t # s,
             \/ \E c \in Credentials : \/ Admit(t, c) \/ Reconnect(t, c)
                                      \/ \E d \in Credentials : RotateCredential(t, c, d)
             \/ Disconnect(t) \/ DeletionSucceeds(t) \/ DeletionFails(t)
             \/ \E new \in 1..MaxRevision, set, removed \in SUBSET PageKeys :
                  ApplyPatch(t, new, set, removed)
             \/ \E w \in Watches :
                  \/ OpenWatch(t, w) \/ CloseWatch(t, w)
                  \/ \E revision \in 0..MaxRevision, sequence \in 0..MaxActions :
                       Action(t, w, revision, sequence)
      PROVE  sessions'[s] = sessions[s]
  BY <1>t, <1>3 DEF Admit, Reconnect, RotateCredential, Disconnect, DeletionSucceeds, DeletionFails,
     Shut, ApplyPatch, OpenWatch, CloseWatch, Action
<1>4. ASSUME NEW c \in Credentials,
             \/ Admit(s, c) \/ Reconnect(s, c) \/ Disconnect(s) \/ DeletionSucceeds(s) \/ DeletionFails(s)
             \/ \E d \in Credentials : RotateCredential(s, c, d)
      PROVE  ~sessions[s].closed /\ Requested(sessions'[s])
  BY <1>t, <1>4 DEF Admit, Reconnect, RotateCredential, Disconnect, DeletionSucceeds,
     DeletionFails, Shut, Usable, Session
<1>5. ASSUME NEW new \in 1..MaxRevision, NEW set \in SUBSET PageKeys,
             NEW removed \in SUBSET PageKeys, ApplyPatch(s, new, set, removed)
      PROVE  ~sessions[s].closed /\ Requested(sessions'[s])
  BY <1>t, <1>5 DEF ApplyPatch, Usable, Session
<1>6. ASSUME NEW w \in Watches,
             \/ OpenWatch(s, w) \/ CloseWatch(s, w)
             \/ \E revision \in 0..MaxRevision, sequence \in 0..MaxActions :
                  Action(s, w, revision, sequence)
      PROVE  ~sessions[s].closed /\ Requested(sessions'[s])
  BY <1>t, <1>6 DEF OpenWatch, CloseWatch, Action, Connected, Usable, Session
<1>7. ASSUME NEW t \in Sessions, NEW r \in Requests,
             \/ ReserveRequest(t, r) \/ StartRequest(t, r)
             \/ CompleteRequest(t, r) \/ CancelRequest(t, r)
      PROVE  \E state \in RequestStates :
               /\ Usable(t) /\ sessions[t].requests[r] \notin Terminal
               /\ SetRequest(t, r, state)
  BY <1>7, ServingAssumption DEF ReserveRequest, StartRequest, CompleteRequest, CancelRequest,
     Connected, RequestStates, Terminal
<1>8. CASE UNCHANGED servingVars
  BY <1>8, <1>2 DEF servingVars
<1>9. CASE ServingNext
  <2>1. PICK t \in Sessions : ServingNext!(t)
    BY <1>9 DEF ServingNext
  <2>2. CASE \E r \in Requests : \/ ReserveRequest(t, r) \/ StartRequest(t, r)
                                 \/ CompleteRequest(t, r) \/ CancelRequest(t, r)
    BY <2>2, <1>1, <1>7
  <2>3. CASE ~\E r \in Requests : \/ ReserveRequest(t, r) \/ StartRequest(t, r)
                                  \/ CompleteRequest(t, r) \/ CancelRequest(t, r)
    <3>1. CASE t # s
      BY <2>1, <2>3, <3>1, <1>2, <1>3
    <3>2. CASE t = s
      <4>1. \E c \in Credentials : TRUE
        BY <1>t DEF Session
      <4> QED BY <2>1, <2>3, <3>2, <4>1, <1>2, <1>4, <1>5, <1>6
    <3> QED BY <3>1, <3>2
  <2> QED BY <2>2, <2>3
<1> QED BY <1>8, <1>9

(* A session whose deletion was tried, whatever came of it, is closed. *)
EndedIsClosed == \A s \in ended : s \in Admitted /\ sessions[s].closed

LEMMA EndedIsClosedStep ==
  ASSUME ServingInv, EndedIsClosed, [ServingNext]_servingVars
  PROVE  EndedIsClosed'
<1>1. ASSUME NEW s \in ended
      PROVE  sessions'[s] # NoSession /\ sessions'[s].closed
  BY <1>1, EndedStep DEF EndedIsClosed, Admitted
<1>2. ASSUME NEW s \in Sessions, Usable(s), Shut(s)
      PROVE  /\ ended' = ended \cup {s}
             /\ sessions'[s] # NoSession /\ sessions'[s].closed
  <2>1. sessions'[s] \in Session /\ sessions'[s].closed
    BY <1>2, UsableSession DEF Shut, ServingInv, ServingTypeOK, Session
  <2> QED BY <1>2, <2>1, ServingAssumption DEF Shut
<1>3. \/ UNCHANGED ended
      \/ \E s \in Sessions : Usable(s) /\ Shut(s)
  <2>1. CASE UNCHANGED servingVars
    BY <2>1 DEF servingVars
  <2>2. ASSUME NEW s \in Sessions, NEW c \in Credentials,
               \/ Admit(s, c) \/ Reconnect(s, c)
               \/ \E d \in Credentials : RotateCredential(s, c, d)
        PROVE  UNCHANGED ended
    BY <2>2 DEF Admit, Reconnect, RotateCredential
  <2>3. ASSUME NEW s \in Sessions, Disconnect(s) \/ DeletionSucceeds(s) \/ DeletionFails(s)
        PROVE  UNCHANGED ended \/ (Usable(s) /\ Shut(s))
    BY <2>3 DEF Disconnect, DeletionSucceeds, DeletionFails
  <2>4. ASSUME NEW s \in Sessions, NEW new \in 1..MaxRevision,
               NEW set \in SUBSET PageKeys, NEW removed \in SUBSET PageKeys,
               ApplyPatch(s, new, set, removed)
        PROVE  UNCHANGED ended
    BY <2>4 DEF ApplyPatch
  <2>5. ASSUME NEW s \in Sessions, NEW w \in Watches,
               \/ OpenWatch(s, w) \/ CloseWatch(s, w)
               \/ \E revision \in 0..MaxRevision, sequence \in 0..MaxActions :
                    Action(s, w, revision, sequence)
        PROVE  UNCHANGED ended
    BY <2>5 DEF OpenWatch, CloseWatch, Action
  <2>6. ASSUME NEW s \in Sessions, NEW r \in Requests,
               \/ ReserveRequest(s, r) \/ StartRequest(s, r)
               \/ CompleteRequest(s, r) \/ CancelRequest(s, r)
        PROVE  UNCHANGED ended
    BY <2>6 DEF ReserveRequest, StartRequest, CompleteRequest, CancelRequest, SetRequest
  <2> QED BY <2>1, <2>2, <2>3, <2>4, <2>5, <2>6 DEF ServingNext
<1>4. ended \subseteq Sessions
  BY DEF ServingInv, ServingTypeOK
<1> QED BY <1>1, <1>2, <1>3, <1>4 DEF EndedIsClosed, Admitted

(* credential_deleted and origin_deleted close the session on both         *)
(* answers, and session_mut keeps it as it is; requests: see EndedStep.    *)
THEOREM EndedIsFinal == ServingSpec => EndedStaysEnded
<1>1. ServingInit => EndedIsClosed
  BY DEF ServingInit, EndedIsClosed
<1>2. ServingInv /\ EndedIsClosed /\ [ServingNext]_servingVars => EndedIsClosed'
  BY EndedIsClosedStep
<1>3. ServingInv /\ EndedIsClosed /\ [ServingNext]_servingVars =>
        [\A s \in Admitted :
           /\ s \in ended \/ sessions[s].closed =>
                sessions[s].closed /\ sessions'[s] = sessions[s]
           /\ \A r \in Requests :
                LET before == sessions[s].requests[r]
                    after == sessions'[s].requests[r]
                IN /\ before \in Terminal => after = before
                   /\ before # NoEntry => after # NoEntry]_servingVars
  BY EndedStep DEF EndedIsClosed
<1> QED BY <1>1, <1>2, <1>3, ServingInvariant, PTL DEF ServingSpec, EndedStaysEnded
=============================================================================
