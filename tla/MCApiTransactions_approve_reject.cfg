SPECIFICATION Spec
CONSTANTS
  Parts = {"BRG-6220-C3", "BRG-6220-C3 again"}
  Rows <- AtTheGate
  Clients = {c1, c2}
  FREE = free
  MaxRequests = 2
  MaxFailures = 0
INVARIANT NothingHeldBeforeApproval
\* Clients may stop sending, and do when the bound is reached.
CHECK_DEADLOCK FALSE
