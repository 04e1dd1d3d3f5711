\* Two sockets that can replace each other, one DELETE, two leases of time;
\* two sessions beside a limit of one, two retained revisions of four.
SPECIFICATION MCSpec
CONSTANTS
  Workers = {w1, w2}
  Deleters = {d1}
  None = None
  Sweeper = Sweeper
  Lease = 2
  MaxTime = 4
  MaxResumes = 1
  Sessions = {s1, s2}
  Credentials = {c1, c2}
  PageKeys = {k1, k2}
  Watches = {v1}
  Requests = {q1, q2}
  NoSession = NoSession
  NoEntry = NoEntry
  MaxSessions = 1
  MaxReplay = 2
  MaxPageEntries = 1
  MaxWatches = 1
  MaxRequests = 1
  MaxActions = 1
  MaxRevision = 4
INVARIANTS OneSocket EndedSessionIsQuiet ResyncIsGapless WatchesFollowPage
PROPERTIES SessionLockReleased EndedStaysEnded
\* Threads exit and the bounds end.
CHECK_DEADLOCK FALSE
