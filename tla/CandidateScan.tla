--------------------------- MODULE CandidateScan ---------------------------
(***************************************************************************)
(* CandidateScan of crates/orna-table: the lazy iterator that merges the   *)
(* committed rows of a relation with the overlay of an activation, both in *)
(* key order and both cut to the same key range.  A scan borrows both maps *)
(* so neither changes while it runs: it is a function of the two maps, the *)
(* range and the number of turns its loop has made.  A caller (scan_window,*)
(* Relation::take) may stop at any time.                                   *)
(***************************************************************************)
EXTENDS Naturals, Sequences, SequencesExt

CONSTANTS
  MaxKey,    \* bound: keys are 1..MaxKey
  Contents,  \* row contents
  Deleted,   \* a deletion in the overlay
  Absent     \* no entry for a key

ASSUME MaxKeyAssumption == MaxKey \in Nat
ASSUME DeletedAssumption == Deleted # Absent

ScanKeys == 1..MaxKey
Bases == [ScanKeys -> Contents \cup {Absent}]
Overlaid == [ScanKeys -> Contents \cup {Deleted, Absent}]
Ranges == {lo..hi : lo, hi \in ScanKeys}

\* BTreeMap::range: the entries of map whose key is in the range, ascending;
\* those left once the keys below k have been returned.
EntriesFrom(map, keys) ==
  LET from[k \in 1..(MaxKey + 1)] ==
        IF k = MaxKey + 1 THEN <<>>
        ELSE IF k \in keys /\ map[k] # Absent THEN <<<<k, map[k]>>>> \o from[k + 1]
        ELSE from[k + 1]
  IN from
EntriesIn(map, keys) == EntriesFrom(map, keys)[1]

\* The two peekable iterators and what the caller has got.
NewScan(base, staged, range) ==
  [committed |-> EntriesIn(base, range), overlay |-> EntriesIn(staged, range), emitted |-> <<>>]

\* An overlay entry is returned unless it is a deletion.
EmitStaged(emitted, entry) == IF entry[2] = Deleted THEN emitted ELSE Append(emitted, entry)

\* Only the first iterator has an entry, or its key comes first.
ComesFirst(this, other) == this # <<>> /\ (other # <<>> => this[1][1] < other[1][1])

\* Faulty: a committed row that the overlay hides stays in its iterator.
TurnKeepsHidden(s) ==
  CASE ComesFirst(s.committed, s.overlay) ->
         [s EXCEPT !.committed = Tail(@), !.emitted = Append(@, s.committed[1])]
    [] s.overlay # <<>> ->
         [s EXCEPT !.overlay = Tail(@), !.emitted = EmitStaged(@, s.overlay[1])]
    [] OTHER -> s

\* One turn of the loop in next(): the committed row, the overlay entry, or
\* for a key in both the overlay entry in place of the committed row; at the
\* end of both, nothing.
Turn(s) ==
  CASE ComesFirst(s.committed, s.overlay) ->
         [s EXCEPT !.committed = Tail(@), !.emitted = Append(@, s.committed[1])]
    [] ComesFirst(s.overlay, s.committed) ->
         [s EXCEPT !.overlay = Tail(@), !.emitted = EmitStaged(@, s.overlay[1])]
    [] s.committed # <<>> /\ s.overlay # <<>> /\ s.committed[1][1] = s.overlay[1][1] ->
         [s EXCEPT !.committed = Tail(@), !.overlay = Tail(@),
                   !.emitted = EmitStaged(@, s.overlay[1])]
    [] OTHER -> s

\* The iterator after each number of turns; no scan makes more than these.
MaxTurns == 2 * MaxKey
Scan(base, staged, range) ==
  LET after[n \in 0..MaxTurns] ==
        IF n = 0 THEN NewScan(base, staged, range) ELSE Turn(after[n - 1])
  IN after

\* candidate_rows: the committed relation with the overlay applied.
CandidateRows(base, staged) ==
  [k \in ScanKeys |-> CASE staged[k] = Absent -> base[k]
                        [] staged[k] = Deleted -> Absent
                        [] OTHER -> staged[k]]

\* The arguments of a scan, and what its caller gets: at every point the first
\* candidate rows of the range, in key order, each once, and all of them when
\* the iterator ends; a window of n rows is therefore the first n.
Scans == [base : Bases, staged : Overlaid, range : Ranges]
ReturnsCandidate(s) ==
  LET rows == EntriesIn(CandidateRows(s.base, s.staged), s.range)
      scan == Scan(s.base, s.staged, s.range)
  IN /\ \A n \in 0..MaxTurns : IsPrefix(scan[n].emitted, rows)
     /\ scan[MaxTurns].emitted = rows
=============================================================================
