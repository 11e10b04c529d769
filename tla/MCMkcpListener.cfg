SPECIFICATION FairSpec
CONSTANTS
  Peers = {p1, p2}
  Convs = {1, 2}
  MaxDrivers = 3
  MaxSessions = 1
  QueueCap = 1
  Limit = 1
CHECK_DEADLOCK FALSE
INVARIANT TypeOK
INVARIANT NoOrphanEntry
PROPERTY ExitedReaped
