SPECIFICATION Spec
CONSTANTS
  Parts = {"BRG-6220-C3", "BRG-6220-C3 again", "BRG-6220-C3 once more"}
  Rows <- AllRows
  Clients = {c1, c2, c3}
  FREE = free
  MaxRequests = 5
  MaxFailures = 1
SYMMETRY Interchangeable
INVARIANTS
  TypeOK
  AtMostOneStandingOrder
  NoDeadlock
  ConsolesFollowCommits
  TrailEndsAtStatus
\* Clients may stop sending, and do when the bound is reached.
CHECK_DEADLOCK FALSE
