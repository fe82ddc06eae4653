SPECIFICATION SeedSpec
CONSTANTS
  Parts = {"BRG-6220-C3"}
  Rows <- AtTheGate
  Clients = {c1}
  FREE = free
  SEED = seed_script
  LastScenario <- Last
  MaxRequests = 1
  MaxFailures = 0
  MaxSeedRuns = 1
PROPERTY SeedRestores
\* Clients may stop sending, and do when the bound is reached.
CHECK_DEADLOCK FALSE
