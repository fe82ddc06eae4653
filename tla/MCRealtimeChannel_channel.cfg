SPECIFICATION FairChannelSpec
CONSTANTS
  Statuses <- GateAndOrder
  Sockets = {s1, s2}
  NOBODY = nobody
  MaxUnread = 1
  MaxEvents = 4
  MaxFailures = 1
INVARIANTS
  ChannelTypeOK
  NoSocketLeaks
  UpdatedConsolesAgree
PROPERTIES
  ImplementsEventFeed
  EveryPublisherEnds
\* Consoles and clients may stop, and do when the bounds are reached.
CHECK_DEADLOCK FALSE
