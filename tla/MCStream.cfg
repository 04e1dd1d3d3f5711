\* One stream, two deliveries, two positions, four leases.
CONSTANTS
  k1 = k1
  d1 = d1
  d2 = d2
  Keys = {k1}
  Deliveries = {d1, d2}
  KeyOf <- KeyOfDeliveries
  Positions = {p1, p2}
  NoPosition = NoPosition
  NoLease = NoLease
  NoDelivery = NoDelivery
  MaxFence = 4
  MaxAttempts = 3
  MaxVersion = 1
SPECIFICATION FairSpec
\* The bounds on leases and attempts stop the model, not the program.
CHECK_DEADLOCK FALSE
INVARIANTS
  StreamInv
PROPERTIES
  PauseTakesEffect
  RetryEnds
  CheckpointMovesOnlyByOwner
  NoOvertaking
  FailureVersionGuardsRecord
  ImplementsOrderedDelivery
