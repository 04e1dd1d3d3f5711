\* One socket and a DELETE that is sent again.
SPECIFICATION FairSpec
CONSTANTS
  Workers = {w1}
  Deleters = {d1, d2}
  None = None
  Sweeper = Sweeper
  Lease = 2
  MaxTime = 1
  MaxResumes = 0
PROPERTIES OrderlyTermination
CHECK_DEADLOCK FALSE
