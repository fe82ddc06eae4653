SPECIFICATION ChannelSpec
CONSTANTS
  Statuses <- GateAndOrder
  Sockets = {s1}
  NOBODY = nobody
  MaxUnread = 2
  MaxEvents = 4
  MaxFailures = 0
INVARIANT ConsolesCatchUp
\* Consoles and clients may stop, and do when the bounds are reached.
CHECK_DEADLOCK FALSE
