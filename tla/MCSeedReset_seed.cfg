SPECIFICATION CrossingSpec
CONSTANTS
  Parts = {"BRG-6220-C3"}
  Rows <- SeedRows
  Clients = {1, 2, 3}
  FREE = free
  SEED = seed_script
  LastScenario <- Last
  MaxRequests = 3
  MaxFailures = 1
  MaxSeedRuns = 2
INVARIANTS
  SeedTypeOK
  OnlyApprovalsCrossThePurge
  AtMostOneStandingOrder
PROPERTIES
  EveryRequestEnds
  SeedEnds
\* Clients may stop sending, and do when the bound is reached.
CHECK_DEADLOCK FALSE
