SPECIFICATION PoolSpec
CONSTANTS
  Clients = {c1, c2, c3}
  Connections = {k1, k2}
  FREE = free_connection
  MaxRequests = 5
INVARIANTS
  PoolTypeOK
  ConnectionsFollowSessions
  OnlyRefusalsStallThePool
  RefusalsToldAreAudited
PROPERTY EveryClientIsServed
\* Clients may stop sending, and do when the bound is reached.
CHECK_DEADLOCK FALSE
