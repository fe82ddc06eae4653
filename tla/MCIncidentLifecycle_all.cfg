\* Every kind of row, with a presenter who keeps stepping; three rejections, so
\* that a rejected proposal is decided on again after a decision was reversed.
SPECIFICATION FairSpec
CONSTANTS
  Parts = {"BRG-6220-C3"}
  Rows <- AllRows
  MaxRejections = 3
  MaxBlocked = 2
  MaxSeeds = 2
INVARIANTS
  TypeOK
  NothingHeldBeforeApproval
  ApprovalPrecedesIrreversible
  TrailExplainsStatus
  OneApprovalPerRound
  ReviewReasonIffInReview
  OrderFollowsIncident
PROPERTY WatchReachesAPerson
\* A resolved incident, and one that nobody may move on, really stop.
CHECK_DEADLOCK FALSE
