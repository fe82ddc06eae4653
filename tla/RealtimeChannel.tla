--------------------------- MODULE RealtimeChannel ---------------------------
(***************************************************************************)
(* The realtime channel of one incident: the connection manager            *)
(* (realtime/manager.py), the socket handler (api/v1/websocket.py) and the *)
(* requests that publish (api/v1/incidents.py).                            *)
(*                                                                         *)
(* Everything runs on one event loop, so an action is what happens between *)
(* two awaits that can suspend.  The manager's lock is never one of those: *)
(* nothing suspends while it is held.  A request publishes with the        *)
(* incident row locked, after its writes and before its commit             *)
(* (ApiTransactions), so one request at a time is enough.                  *)
(*                                                                         *)
(* The server writes what a socket is sent in the order of the calls, and  *)
(* a send waits while the console has too much left to read.               *)
(***************************************************************************)
EXTENDS Workflow, Naturals, Sequences

CONSTANTS
  Statuses,     \* the statuses an incident may start in
  Sockets,      \* consoles, one socket each: a reconnect is another socket
  NOBODY,       \* the broadcast is not in a send
  MaxUnread,    \* messages that a console may leave unread before sends wait
  MaxEvents,    \* bound: events published
  MaxFailures   \* bound: requests whose commit fails

ASSUME StatusesAssumption == Statuses \subseteq WorkflowStatus
ASSUME SocketsAssumption == NOBODY \notin Sockets
ASSUME ChannelBoundsAssumption ==
  MaxUnread \in Nat \ {0} /\ MaxEvents \in Nat /\ MaxFailures \in Nat

VARIABLES
  status,       \* the committed workflow status
  request,      \* the request that has the incident locked
  pending,      \* sockets that the broadcast has copied and not come to yet
  sending,      \* the socket that the broadcast is sending to
  stale,        \* sockets that the broadcast could not send to
  log,          \* everything published
  connections,  \* _connections[incident_id]
  handler,      \* per socket: where incident_channel is
  snapshot,     \* per socket: the status that the handler has read
  joined,       \* per socket: the length of the log when it was registered
  sent,         \* per socket: the messages handed to the server
  seen,         \* per socket: how many of them the console has read
  alive,        \* per socket: the console's end is open
  failures      \* requests whose commit failed

broadcast == <<pending, sending, stale>>
sockets == <<connections, handler, snapshot, joined, alive>>

channel_vars == <<status, request, pending, sending, stale, log, connections,
                  handler, snapshot, joined, sent, seen, alive, failures>>

\* WebSocketEvent, as its type and the status that it shows the console.
NO_STATUS == "no_status"

update(s) == [event_type |-> "incident.updated", workflow_status |-> s]

notice(type) == [event_type |-> type, workflow_status |-> NO_STATUS]

first_message(s) == [event_type |-> "incident.snapshot", workflow_status |-> s]

Snapshots == {first_message(s) : s \in WorkflowStatus}

Events ==
  {update(s) : s \in WorkflowStatus} \cup
  {notice(type) : type \in {"approval.created", "approval.rejected", "part.reserved",
                            "work_order.created", "outcome.captured"}}

\* What each endpoint publishes, in order; a part is only reserved once.
published(kind, target, reserves) ==
  CASE kind = "approve" /\ reserves ->
         <<notice("approval.created"), notice("part.reserved"),
           notice("work_order.created"), update(target)>>
    [] kind = "approve" /\ ~reserves ->
         <<notice("approval.created"), notice("work_order.created"), update(target)>>
    [] kind = "reject"  -> <<notice("approval.rejected"), update(target)>>
    [] kind = "outcome" -> <<notice("outcome.captured"), update(target)>>
    [] kind = "step"    -> <<update(target)>>

\* Where each endpoint leaves an incident that it finds at this status.
moves(current) ==
  CASE current = "approval_required" -> {<<"approve", "work_order_live">>, <<"reject", "watch">>}
    [] current = "work_order_live"   -> {<<"outcome", "resolved">>}
    [] current = "diagnosed"         -> {<<"step", "approval_required">>, <<"step", "human_review">>}
    [] current = "watch"             -> {<<"step", "escalated">>}
    [] current = "escalated"         -> {<<"step", "diagnosed">>}
    [] current = "approved"          -> {<<"step", "work_order_live">>}
    [] OTHER                         -> {}

Idle == [phase |-> "idle", target |-> NO_STATUS, events |-> <<>>]

\* Publishing: events are left to be published.  Sending: one is under way.
Request ==
  [phase : {"publishing", "sending"}, target : WorkflowStatus, events : Seq(Events)]

\* Away: not connected yet.  Loaded: the snapshot is read, the socket is not
\* accepted.  Connected: the handler waits in receive_text.
Handler == {"away", "loaded", "connected", "done"}

unread(s) == Len(sent[s]) - seen[s]

ChannelTypeOK ==
  /\ status \in WorkflowStatus
  /\ request \in Request \cup {Idle}
  /\ pending \in SUBSET Sockets
  /\ sending \in Sockets \cup {NOBODY}
  /\ stale \in SUBSET Sockets
  /\ log \in Seq(Events)
  /\ connections \in SUBSET Sockets
  /\ handler \in [Sockets -> Handler]
  /\ snapshot \in [Sockets -> WorkflowStatus \cup {NO_STATUS}]
  /\ joined \in [Sockets -> Nat]
  /\ sent \in [Sockets -> Seq(Snapshots \cup Events)]
  /\ seen \in [Sockets -> Nat]
  /\ \A s \in Sockets : seen[s] <= Len(sent[s]) /\ unread(s) <= MaxUnread
  /\ alive \in [Sockets -> BOOLEAN]
  /\ Len(log) + Len(request.events) <= MaxEvents
  /\ failures \in 0..MaxFailures

ChannelInit ==
  /\ status \in Statuses
  /\ request = Idle
  /\ pending = {} /\ sending = NOBODY /\ stale = {}
  /\ log = <<>>
  /\ connections = {}
  /\ handler = [s \in Sockets |-> "away"]
  /\ snapshot = [s \in Sockets |-> NO_STATUS]
  /\ joined = [s \in Sockets |-> 0]
  /\ sent = [s \in Sockets |-> <<>>]
  /\ seen = [s \in Sockets |-> 0]
  /\ alive = [s \in Sockets |-> TRUE]
  /\ failures = 0

-----------------------------------------------------------------------------
\* incident_channel.

\* The snapshot is read on a session of its own, which sees what is committed.
LoadSnapshot(s) ==
  /\ handler[s] = "away"
  /\ handler' = [handler EXCEPT ![s] = "loaded"]
  /\ snapshot' = [snapshot EXCEPT ![s] = status]
  /\ UNCHANGED <<status, request, broadcast, log, connections, joined, sent, seen,
                 alive, failures>>

\* accept finds that the console has gone.
AcceptFails(s) ==
  /\ handler[s] = "loaded"
  /\ ~alive[s]
  /\ handler' = [handler EXCEPT ![s] = "done"]
  /\ UNCHANGED <<status, request, broadcast, log, connections, snapshot, joined,
                 sent, seen, alive, failures>>

\* accept, connect and the call that sends the snapshot.
Connect(s) ==
  /\ handler[s] = "loaded"
  /\ handler' = [handler EXCEPT ![s] = "connected"]
  /\ connections' = connections \cup {s}
  /\ joined' = [joined EXCEPT ![s] = Len(log)]
  /\ sent' = [sent EXCEPT ![s] = <<first_message(snapshot[s])>>]
  /\ UNCHANGED <<status, request, broadcast, log, snapshot, seen, alive,
                 failures>>

\* Mutation: the handler ends without disconnecting.
disconnected_nobody(gone) == connections

disconnected(gone) == connections \ gone

\* receive_text raises, and the handler ends by way of its finally.
Leave(s) ==
  /\ handler[s] = "connected"
  /\ ~alive[s]
  /\ handler' = [handler EXCEPT ![s] = "done"]
  /\ connections' = disconnected({s})
  /\ UNCHANGED <<status, request, broadcast, log, snapshot, joined, sent, seen, alive,
                 failures>>

-----------------------------------------------------------------------------
\* The console, and the server that carries its messages.

Read(s) ==
  /\ alive[s]
  /\ unread(s) > 0
  /\ seen' = [seen EXCEPT ![s] = @ + 1]
  /\ UNCHANGED <<status, request, broadcast, log, sockets, sent, failures>>

closes(s) ==
  /\ alive[s]
  /\ alive' = [alive EXCEPT ![s] = FALSE]
  /\ UNCHANGED <<status, request, broadcast, log, connections, handler, snapshot,
                 joined, sent, seen, failures>>

\* The console closes its end, or the network does.
HangUp(s) == handler[s] # "away" /\ closes(s)

\* The server closes a connection whose pings are not answered.
PingTimeout(s) == unread(s) = MaxUnread /\ closes(s)

-----------------------------------------------------------------------------
\* A request, from its writes to its commit.

\* The handler has locked and written the incident, and read its detail.
Begin ==
  /\ request = Idle
  /\ \E move \in moves(status), reserves \in BOOLEAN :
       request' = [phase |-> "publishing", target |-> move[2],
                   events |-> published(move[1], move[2], reserves)]
  /\ Len(log) + Len(request'.events) <= MaxEvents
  /\ UNCHANGED <<status, broadcast, log, sockets, sent, seen, failures>>

\* Mutation: a console that is slow to read is passed over.
subscribers_with_room == {s \in connections : unread(s) < MaxUnread}

\* The copy that broadcast takes.
subscribers == connections

\* publish, up to its first send.
Publish ==
  /\ request.phase = "publishing"
  /\ request.events # <<>>
  /\ request' = [request EXCEPT !.phase = "sending", !.events = Tail(@)]
  /\ log' = Append(log, Head(request.events))
  /\ pending' = subscribers
  /\ UNCHANGED <<status, sending, stale, sockets, sent, seen, failures>>

\* Mutation: a socket that fails is tried again.
set_aside_for_retry(s, others) == pending' = others \cup {s} /\ UNCHANGED stale

\* Mutation: a socket that fails is passed over this once.
set_aside_once(s, others) == pending' = others /\ UNCHANGED stale

set_aside(s, others) == pending' = others /\ stale' = stale \cup {s}

\* The next socket of the copy; the set's order is arbitrary.
PickSocket(s) ==
  /\ sending = NOBODY
  /\ s \in pending
  /\ IF handler[s] = "connected"
     THEN sending' = s /\ pending' = pending \ {s} /\ UNCHANGED stale
     ELSE set_aside(s, pending \ {s}) /\ UNCHANGED sending
  /\ UNCHANGED <<status, request, log, sockets, sent, seen, failures>>

\* Mutation: the send is started and not awaited.
has_any_room(s) == TRUE

has_room(s) == unread(s) < MaxUnread

\* send_json returns, also when the console has gone and nobody has noticed.
SendReturns(s) ==
  /\ sending = s
  /\ handler[s] = "connected"
  /\ has_room(s)
  /\ sending' = NOBODY
  /\ sent' = [sent EXCEPT ![s] = Append(@, log[Len(log)])]
  /\ UNCHANGED <<status, request, pending, stale, log, sockets, seen, failures>>

\* send_json raises.
SendRaises(s) ==
  /\ sending = s
  /\ ~alive[s]
  /\ sending' = NOBODY
  /\ set_aside(s, pending)
  /\ UNCHANGED <<status, request, log, sockets, sent, seen, failures>>

\* What could not be sent to is disconnected, and broadcast returns.
DropStale ==
  /\ request.phase = "sending"
  /\ pending = {} /\ sending = NOBODY
  /\ connections' = disconnected(stale)
  /\ stale' = {}
  /\ request' = [request EXCEPT !.phase = "publishing"]
  /\ UNCHANGED <<status, pending, sending, log, handler, snapshot, joined, sent, seen,
                 alive, failures>>

\* Everything is published: the response goes out and the session commits.
Commit ==
  /\ request.phase = "publishing"
  /\ request.events = <<>>
  /\ status' = request.target
  /\ request' = Idle
  /\ UNCHANGED <<broadcast, log, sockets, sent, seen, failures>>

CommitFails ==
  /\ request.phase = "publishing"
  /\ request.events = <<>>
  /\ failures < MaxFailures
  /\ failures' = failures + 1
  /\ request' = Idle
  /\ UNCHANGED <<status, broadcast, log, sockets, sent, seen>>

-----------------------------------------------------------------------------
HandlerStep(s) == AcceptFails(s) \/ Connect(s) \/ Leave(s)

Broadcast ==
  \/ \E s \in Sockets : PickSocket(s) \/ SendReturns(s) \/ SendRaises(s)
  \/ DropStale

ChannelNext ==
  \/ \E s \in Sockets : LoadSnapshot(s) \/ HandlerStep(s)
  \/ \E s \in Sockets : Read(s) \/ HangUp(s) \/ PingTimeout(s)
  \/ Begin
  \/ Publish
  \/ Broadcast
  \/ Commit
  \/ CommitFails

ChannelSpec == ChannelInit /\ [][ChannelNext]_channel_vars

\* The event loop resumes whatever can run, and the server gives up on a
\* console that stops reading.  No console has to connect, to read or to close,
\* and nobody has to send a request.
FairChannelSpec ==
  /\ ChannelSpec
  /\ WF_channel_vars(Publish)
  /\ WF_channel_vars(Broadcast)
  /\ WF_channel_vars(Commit)
  /\ \A s \in Sockets : WF_channel_vars(HandlerStep(s)) /\ WF_channel_vars(PingTimeout(s))

-----------------------------------------------------------------------------
\* Properties.

feed ==
  [s \in Sockets |->
     IF handler[s] \in {"away", "loaded"} THEN "off"
     ELSE IF s \in connections THEN "on" ELSE "over"]

Feed == INSTANCE EventFeed WITH stream <- sent

\* A console is sent its snapshot and then every event published since it was
\* registered, once and in order, until it is dropped (manager.py: broadcast,
\* websocket.py: incident_channel).
ImplementsEventFeed == Feed!Spec

\* A socket whose handler has ended is not registered, whichever of broadcast
\* and the handler notices first (test_websocket.py: "Sockets must be
\* unregistered on disconnect, not leaked").
NoSocketLeaks ==
  /\ \A s \in connections : handler[s] = "connected"
  /\ \A s \in Sockets :
       handler[s] = "connected" /\ s \notin connections => ~alive[s]

\* A request is never held up for ever by the consoles it publishes to
\* (manager.py: "a broken console must not stall a workflow transition").
EveryPublisherEnds == request # Idle ~> request = Idle

\* The status that a console shows: the last one it was told.
told(s) == {i \in 1..seen[s] : sent[s][i].workflow_status # NO_STATUS}

shown(s) ==
  IF told(s) = {} THEN NO_STATUS
  ELSE sent[s][CHOOSE i \in told(s) : \A j \in told(s) : j <= i].workflow_status

at_rest == request = Idle /\ \A s \in connections : alive[s] /\ unread(s) = 0

\* Once a console has heard one update it shows the committed status whenever
\* nothing is in flight, as long as no commit fails: events are published in
\* the order of the commits (incidents.py publishes with the row locked).
UpdatedConsolesAgree ==
  failures = 0 /\ at_rest =>
    \A s \in connections :
      (\E i \in told(s) : i > 1) => shown(s) = status

\* The same of every console that is connected (README: "sends
\* incident.snapshot on connect, then one envelope per change").
ConsolesCatchUp ==
  failures = 0 /\ at_rest => \A s \in connections : shown(s) = status
=============================================================================
