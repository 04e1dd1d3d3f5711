SPECIFICATION Spec
CONSTANTS
  Hosts = {h1, h2, h3}
  Requests = {r1, r2}
  None = None
  WorkLimit = 1
  MaxBoot = 2
  MaxGeneration = 1
INVARIANTS FenceStands ExecutedAtMostOnce OutcomeIsTrue
PROPERTIES TerminalIsFinal ClosedSessionIsQuiet
SYMMETRY Interchangeable
CHECK_DEADLOCK FALSE
