---------------------------- MODULE BranchMerge ----------------------------
(***************************************************************************)
(* The three-way merge of one table: merge_keyed_row of orna-evolution on  *)
(* the row level, and merge_table of orna-storage above it, which takes a  *)
(* whole table or a whole segment from one side when digests say that the  *)
(* other side did not change it.  Pure functions of three snapshots.       *)
(*                                                                         *)
(* A manifest is a layout (its segments' key ranges) and the rows.  Digests*)
(* are collision free: equal digests are equal manifests, or equal segment *)
(* contents.  Schemas, checkpoints and the two budgets are left out; every *)
(* conflict means that there is no plan.                                   *)
(***************************************************************************)
EXTENDS Naturals, FiniteSets, Functions

CONSTANTS
  MergeKeys,    \* primary keys
  MergeFields,  \* stable field identities
  MergeRows,    \* field values of a row, [MergeFields -> values]
  Layouts,      \* partitions of MergeKeys into key ranges
  Missing,      \* no row, no table
  Conflict      \* no plan

\* A row gives every field a value, every key is in a segment, and neither
\* Missing nor Conflict is a row, a manifest or the rows of one.
FieldValues == UNION {Range(row) : row \in MergeRows}
MergedRows == [MergeFields -> FieldValues]

ASSUME RowAssumption ==
  /\ MergeRows \subseteq MergedRows
  /\ Missing \notin MergedRows /\ Conflict \notin MergedRows
  /\ Missing # Conflict
ASSUME LayoutAssumption == \A layout \in Layouts : UNION layout = MergeKeys

Manifests == [layout : Layouts, rows : [MergeKeys -> MergeRows \cup {Missing}]]

ASSUME ManifestAssumption ==
  /\ Missing \notin Manifests
  /\ {Missing, Conflict} \cap [MergeKeys -> MergedRows \cup {Missing}] = {}

\* merge_optional: both sides agree, or one of them left the base alone.
Clash(b, l, r) == l # r /\ l # b /\ r # b
MergeOptional(b, l, r) == IF l = r \/ r = b THEN l ELSE r

\* The field merge of a row that all three sides hold.
MergeRowFields(b, l, r) ==
  IF \E f \in MergeFields : Clash(b[f], l[f], r[f])
  THEN Conflict
  ELSE [f \in MergeFields |-> MergeOptional(b[f], l[f], r[f])]

\* Both branches inserted a row under a key that no program chose.
DoubleInsert(automatic, b, l, r) == automatic /\ b = Missing /\ Missing \notin {l, r}

\* merge_keyed_row, called with the rows of one key of one table, whose keys
\* are all automatic or all given by the program.
MergeKeyedRow(automatic, b, l, r) ==
  IF b = Missing
  THEN IF r = Missing THEN l
       ELSE IF l = Missing THEN r
       ELSE IF DoubleInsert(automatic, b, l, r) \/ l # r THEN Conflict ELSE l
  ELSE IF Missing \in {l, r}
       THEN IF {l, r} \subseteq {b, Missing} THEN Missing ELSE Conflict
       ELSE MergeRowFields(b, l, r)

\* merge_range_rows: each key of the range by itself.
MergeRangeRows(automatic, b, l, r) ==
  [k \in DOMAIN b |-> MergeKeyedRow(automatic, b[k], l[k], r[k])]

\* Faulty: the segment of the side that did not change is taken.
MergeSegmentStale(automatic, range, b, l, r) ==
  LET In(rows) == Restrict(rows, range)
  IN IF In(l) = In(r) \/ In(l) = In(b) THEN In(l)
     ELSE IF In(r) = In(b) THEN In(l)
     ELSE MergeRangeRows(automatic, In(b), In(l), In(r))

\* One segment of an aligned walk: taken from a side by digest, or merged.
MergeSegment(automatic, range, b, l, r) ==
  LET In(rows) == Restrict(rows, range)
  IN IF In(l) = In(r) THEN In(l)
     ELSE IF In(l) = In(b) THEN In(r)
     ELSE IF In(r) = In(b) THEN In(l)
     ELSE MergeRangeRows(automatic, In(b), In(l), In(r))

\* Different layouts have no common walk: one range over all keys, without
\* a segment to take from a side.
Aligned(b, l, r) == b.layout = l.layout /\ b.layout = r.layout
SegmentOf(layout, k) == CHOOSE range \in layout : k \in range
MergeRowsOf(automatic, b, l, r) ==
  IF Aligned(b, l, r)
  THEN [k \in MergeKeys |->
          MergeSegment(automatic, SegmentOf(b.layout, k), b.rows, l.rows, r.rows)[k]]
  ELSE MergeRangeRows(automatic, b.rows, l.rows, r.rows)

\* merge_table: the rows of the plan, Missing when it has no such table.
MergeTable(automatic, b, l, r) ==
  LET RowsIn(manifest) == IF manifest = Missing THEN Missing ELSE manifest.rows
      rows == MergeRowsOf(automatic, b, l, r)
  IN IF l = r \/ r = b THEN RowsIn(l)
     ELSE IF l = b THEN RowsIn(r)
     ELSE IF Missing \in {b, l, r} \/ Conflict \in Range(rows) THEN Conflict
     ELSE rows

-----------------------------------------------------------------------------
\* A merged row has every change that one side made to the base.
Keeps(b, side, merged) ==
  \/ side = b
  \/ side = Missing /\ merged = Missing
  \/ b = Missing /\ merged = side
  \/ /\ Missing \notin {b, side, merged}
     /\ \A f \in MergeFields : side[f] # b[f] => merged[f] = side[f]

\* The only rows that have a chance to keep the changes of both sides.
RowsFrom(l, r) ==
  {l, r} \cup (IF Missing \in {l, r} THEN {}
               ELSE {[f \in MergeFields |-> IF f \in left THEN l[f] ELSE r[f]] :
                       left \in SUBSET MergeFields})

\* No row has the changes of both sides.
Irreconcilable(b, l, r) ==
  \A row \in RowsFrom(l, r) : ~(Keeps(b, l, row) /\ Keeps(b, r, row))

Content(manifest) ==
  IF manifest = Missing THEN [k \in MergeKeys |-> Missing] ELSE manifest.rows

\* The arguments of a merge.
Merges == [automatic : BOOLEAN, base : Manifests \cup {Missing},
           left : Manifests \cup {Missing}, right : Manifests \cup {Missing}]

\* The branches are equal by digest around the key, in its segment of an
\* aligned walk or in the whole table, and their rows are not read.
EqualSegments(b, l, r, k) ==
  /\ Aligned(b, l, r)
  /\ LET range == SegmentOf(b.layout, k)
     IN Restrict(l.rows, range) = Restrict(r.rows, range)
EqualByDigest(m, k) ==
  \/ m.left = m.right
  \/ /\ Missing \notin {m.base, m.left, m.right}
     /\ EqualSegments(m.base, m.left, m.right, k)

\* A row written by both branches under a key neither chose, which has to
\* stay a visible collision.  "Even equal payloads do not prove these are one
\* insert", merge_keyed_row says, but it never sees a row taken by digest.
Collides(m, k) ==
  /\ DoubleInsert(m.automatic, Content(m.base)[k], Content(m.left)[k], Content(m.right)[k])
  /\ ~EqualByDigest(m, k)

\* What a plan must be: every change of both branches and nothing that neither
\* has; no collision is in a plan; the sides may be swapped; and three existing
\* tables are refused only for a key that collides or whose changes no row can
\* have together, never for rows that are equal by digest.
PlanIsExact(m) ==
  LET b == m.base  l == m.left  r == m.right
      plan == MergeTable(m.automatic, b, l, r)
      bs == Content(b)  ls == Content(l)  rs == Content(r)
  IN /\ plan = MergeTable(m.automatic, b, r, l)
     /\ plan \notin {Conflict, Missing} =>
          \A k \in MergeKeys : /\ plan[k] \in RowsFrom(ls[k], rs[k])
                               /\ Keeps(bs[k], ls[k], plan[k])
                               /\ Keeps(bs[k], rs[k], plan[k])
     /\ plan # Conflict => \A k \in MergeKeys : ~Collides(m, k)
     /\ plan = Missing => Missing \in {l, r} /\ {l, r} \subseteq {b, Missing}
     /\ plan = Conflict /\ Missing \notin {b, l, r} =>
          \E k \in MergeKeys : Collides(m, k) \/ Irreconcilable(bs[k], ls[k], rs[k])
=============================================================================
