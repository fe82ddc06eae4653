SPECIFICATION Spec
CONSTANTS
  Parts = {"BRG-6220-C3"}
  Rows <- LowScoreRows
  MaxRejections = 1
  MaxBlocked = 1
  MaxSeeds = 1
INVARIANT LowScoreNeverReachesGate
\* The incident may stop: that is what the run is about.
CHECK_DEADLOCK FALSE
