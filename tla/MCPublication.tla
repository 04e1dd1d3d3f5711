--------------------------- MODULE MCPublication ---------------------------
(* Instances of Publication for TLC.                                       *)
EXTENDS Publication, TLC

CONSTANTS p1, p2, r1, r2

\* One publisher, killed up to twice, and a person who edits and commits.
\* The assertions of the project accept r1 only together with r2.
Committing ==
    [publishers |-> {p1}, rows |-> {r1, r2}, unsound |-> {{r1}},
     ops |-> {"edit", "commit"}, muts |-> 3, users |-> 3, crashes |-> 2]

\* Two publishers on two mutations, one of them killed, and a person who
\* edits a store file.
Racing ==
    [publishers |-> {p1, p2}, rows |-> {r1, r2}, unsound |-> {},
     ops |-> {"edit"}, muts |-> 2, users |-> 1, crashes |-> 1]

\* Two publishers on one mutation, and a person who stages and commits.
Staging ==
    [publishers |-> {p1, p2}, rows |-> {r1}, unsound |-> {},
     ops |-> {"edit", "add", "commit"}, muts |-> 1, users |-> 3, crashes |-> 1]

\* Two publishers on one mutation, and a person who reverts it.
Reverting ==
    [publishers |-> {p1, p2}, rows |-> {r1}, unsound |-> {},
     ops |-> {"commit", "revert"}, muts |-> 1, users |-> 3, crashes |-> 1]

\* A person who stages, commits and moves branches around a publication.
Branching ==
    [publishers |-> {p1}, rows |-> {r1}, unsound |-> {},
     ops |-> {"add", "commit", "reset", "branch", "switch"},
     muts |-> 1, users |-> 4, crashes |-> 1]

AllScopes == {Committing, Racing, Staging, Reverting, Branching}

\* Nobody but the publisher touches the store.
Alone == {[Racing EXCEPT !.publishers = {p1}, !.ops = {}, !.crashes = 2]}

\* The situations of the runs that end in a violation.
Replacing == {[Racing EXCEPT !.crashes = 0]}
Overtaken == {[Staging EXCEPT !.ops = {"commit"}, !.users = 2]}
=============================================================================
