\* Two linked worktrees and two IDs: the IDs of two activations can meet.
SPECIFICATION Spec
CONSTANTS
  Worktrees = {w1, w2}
  MaxId = 2
INVARIANTS NoIdReused
CHECK_DEADLOCK FALSE
