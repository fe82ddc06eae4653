SPECIFICATION SerialSpec
CONSTANTS
  Parts = {"BRG-6220-C3", "BRG-6220-C3 again"}
  Rows <- AllRows
  Clients = {c1}
  FREE = free
  SEED = seed_script
  LastScenario <- Last
  MaxRequests = 5
  MaxFailures = 1
  MaxSeedRuns = 1
PROPERTY ImplementsLifecycle
\* Clients may stop sending, and do when the bound is reached.
CHECK_DEADLOCK FALSE
