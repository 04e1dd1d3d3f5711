------------------------------ MODULE MCTable ------------------------------
(***************************************************************************)
(* An instance of Table, and of the scans and merges of tables, for TLC.   *)
(* A behaviour is one of Table, or the arguments of one scan or one merge, *)
(* which are pure functions: the state is then their arguments, `call`.    *)
(***************************************************************************)
EXTENDS Table, CandidateScan, BranchMerge

CONSTANTS t1, r1

VARIABLE call

\* A row requires nothing or the first row of its table (itself, perhaps).
MCTargetSets == {{}, {<<t1, 1>>}}

\* Three values of one field and two of the other: independent edits of one
\* row, and edits of one field that clash.
MCMergeRows == {<<1, 1>>, <<2, 1>>, <<3, 1>>, <<1, 2>>}

\* One segment, or one for each key.
MCLayouts == {{{1, 2}}, {{1}, {2}}}

MCInit == Init /\ call \in {None} \cup Scans \cup Merges
MCNext == call = None /\ Next /\ UNCHANGED call
MCSpec == MCInit /\ [][MCNext]_<<vars, call>>

\* CandidateScan::next and candidate_rows agree: a scan over any committed
\* relation, overlay and key range returns the candidate rows, in order.
ScanIsCandidate == call \in Scans => ReturnsCandidate(call)

\* merge_table, whatever whole tables and segments it takes by digest and
\* however the three sides are cut into segments, keeps the changes of both
\* branches or refuses.  It refuses only what cannot be merged and every key
\* without a choice that both branches inserted, but where their digests are
\* equal: there the row is taken, against the rule of merge_keyed_row.
MergeIsExact == call \in Merges => PlanIsExact(call)
=============================================================================
