SPECIFICATION FairSpec
CONSTANTS
  Parts = {"BRG-6220-C3"}
  Rows <- UnplannedRows
  MaxRejections = 1
  MaxBlocked = 1
  MaxSeeds = 1
PROPERTY DiagnosisIsRouted
\* The incident may stop: that is what the run is about.
CHECK_DEADLOCK FALSE
