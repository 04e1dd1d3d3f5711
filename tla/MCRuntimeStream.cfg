\* One stream, two deliveries, two successors, three leases, three epochs.
CONSTANTS
  k1 = k1
  d1 = d1
  d2 = d2
  Keys = {k1}
  Deliveries = {d1, d2}
  KeyOf <- KeyOfDeliveries
  Positions = {p1, p2}
  NoPosition = NoPosition
  NoLease = NoLease
  NoDelivery = NoDelivery
  Owners = {w1, w2}
  NoWriter = NoWriter
  NoClaim = NoClaim
  MaxFence = 3
  MaxAttempts = 3
  MaxVersion = 1
  MaxEpoch = 3
SYMMETRY OwnerSymmetry
SPECIFICATION Spec
\* The bounds on leases and attempts stop the model, not the program.
CHECK_DEADLOCK FALSE
INVARIANTS
  ReplayClaimIsCurrent
  FencesSurviveTakeover
  TakeoverBlockedOnlyByRevision
  AnswersAsInMemory
PROPERTIES
  PauseIsNotLost
  AppliesAsInMemory
  ImplementsOrderedDelivery
