------------------------- MODULE RealtimeChannelProofs -----------------------
(***************************************************************************)
(* Proofs about RealtimeChannel, for any number of consoles, events and    *)
(* failures.                                                               *)
(***************************************************************************)
EXTENDS RealtimeChannel, TLAPS

-----------------------------------------------------------------------------
\* What a request publishes.

\* Every request publishes something, and the status it moves to last.
LEMMA PublishedTyped ==
  ASSUME NEW current \in WorkflowStatus, NEW move \in moves(current),
         NEW reserves \in BOOLEAN
  PROVE  /\ move[2] \in WorkflowStatus
         /\ published(move[1], move[2], reserves) \in Seq(Events)
         /\ LET e == published(move[1], move[2], reserves)
            IN  e # <<>> /\ e[Len(e)] = update(move[2])
<1>1. move \in {<<"approve", "work_order_live">>, <<"reject", "watch">>,
                <<"outcome", "resolved">>, <<"step", "approval_required">>,
                <<"step", "human_review">>, <<"step", "escalated">>,
                <<"step", "diagnosed">>, <<"step", "work_order_live">>}
  BY DEF moves, WorkflowStatus
<1>2. move[1] \in {"approve", "reject", "outcome", "step"} /\ move[2] \in WorkflowStatus
  BY <1>1 DEF WorkflowStatus
<1> DEFINE u == update(move[2])
<1>3. u \in Events
  BY <1>2 DEF Events
<1>4. /\ notice("approval.created") \in Events /\ notice("part.reserved") \in Events
      /\ notice("work_order.created") \in Events /\ notice("approval.rejected") \in Events
      /\ notice("outcome.captured") \in Events
  BY DEF Events
<1>5. CASE move[1] = "approve" /\ reserves
  <2>1. published(move[1], move[2], reserves)
          = <<notice("approval.created"), notice("part.reserved"),
              notice("work_order.created"), u>>
    BY <1>5 DEF published
  <2>2. QED BY <1>2, <1>3, <1>4, <2>1
<1>6. CASE move[1] = "approve" /\ ~reserves
  <2>1. published(move[1], move[2], reserves)
          = <<notice("approval.created"), notice("work_order.created"), u>>
    BY <1>6 DEF published
  <2>2. QED BY <1>2, <1>3, <1>4, <2>1
<1>7. CASE move[1] = "reject"
  <2>1. published(move[1], move[2], reserves) = <<notice("approval.rejected"), u>>
    BY <1>7 DEF published
  <2>2. QED BY <1>2, <1>3, <1>4, <2>1
<1>8. CASE move[1] = "outcome"
  <2>1. published(move[1], move[2], reserves) = <<notice("outcome.captured"), u>>
    BY <1>8 DEF published
  <2>2. QED BY <1>2, <1>3, <1>4, <2>1
<1>9. CASE move[1] = "step"
  <2>1. published(move[1], move[2], reserves) = <<u>>
    BY <1>9 DEF published
  <2>2. QED BY <1>2, <1>3, <2>1
<1>10. QED BY <1>2, <1>5, <1>6, <1>7, <1>8, <1>9

-----------------------------------------------------------------------------
\* The inductive invariant, in parts.

\* A handler that has read its snapshot has read a status.
Loaded ==
  \A s \in Sockets : handler[s] = "loaded" => snapshot[s] \in WorkflowStatus

\* Who is registered, and who is not any more.
Registered ==
  /\ \A s \in connections : handler[s] = "connected"
  /\ \A s \in Sockets : handler[s] = "connected" /\ s \notin connections => ~alive[s]
  /\ \A s \in Sockets : handler[s] = "done" => ~alive[s]

\* What the broadcast has copied: sockets that were registered, and are until
\* their handler ends or the broadcast drops them.
Copied ==
  /\ \A s \in pending \cup stale : handler[s] \in {"connected", "done"}
  /\ \A s \in pending : handler[s] = "connected" => s \in connections
  /\ \A s \in stale : ~alive[s]
  /\ sending # NOBODY =>
       /\ handler[sending] \in {"connected", "done"}
       /\ handler[sending] = "connected" => sending \in connections
       /\ sending \notin pending
  /\ request.phase # "sending" => pending = {} /\ stale = {} /\ sending = NOBODY
  /\ request.phase = "sending" => log # <<>>

\* How far behind the log each registered socket is: one event while the
\* broadcast has it before it, none otherwise.
Position ==
  /\ \A s \in connections :
       /\ s \in pending \/ s = sending => joined[s] + Len(sent[s]) = Len(log)
       /\ s \notin pending \cup stale /\ s # sending
            => joined[s] + Len(sent[s]) = Len(log) + 1
  /\ \A s \in Sockets : handler[s] \in {"away", "loaded"} => sent[s] = <<>>
  /\ \A s \in connections : sent[s] # <<>>

IInv == ChannelTypeOK /\ Loaded /\ Registered /\ Copied /\ Position

-----------------------------------------------------------------------------
\* Types.

LEMMA InitIInv == ChannelInit => IInv
  BY StatusesAssumption, ChannelBoundsAssumption
     DEF ChannelInit, IInv, ChannelTypeOK, Loaded, Registered, Copied, Position, Handler, Idle,
         unread

\* The actions that leave the sockets' messages alone.
LEMMA NextTyped ==
  ASSUME IInv, [ChannelNext]_channel_vars
  PROVE  ChannelTypeOK'
<1> USE DEF IInv, ChannelTypeOK, broadcast, sockets, unread
<1>1. CASE UNCHANGED channel_vars
  BY <1>1 DEF channel_vars
<1>2. ASSUME NEW s \in Sockets, LoadSnapshot(s) PROVE ChannelTypeOK'
  BY <1>2 DEF LoadSnapshot, Handler
<1>3. ASSUME NEW s \in Sockets, AcceptFails(s) PROVE ChannelTypeOK'
  BY <1>3 DEF AcceptFails, Handler
<1>4. ASSUME NEW s \in Sockets, Connect(s) PROVE ChannelTypeOK'
  <2>1. sent[s] = <<>> /\ seen[s] = 0
    BY <1>4 DEF Connect, Position
  <2>2. first_message(snapshot[s]) \in Snapshots
    BY <1>4 DEF Connect, Snapshots, Loaded
  <2>3. sent' \in [Sockets -> Seq(Snapshots \cup Events)] /\ Len(sent'[s]) = 1
    BY <1>4, <2>2 DEF Connect
  <2>4. \A r \in Sockets : seen'[r] <= Len(sent'[r]) /\ Len(sent'[r]) - seen'[r] <= MaxUnread
    BY <1>4, <2>1, <2>3, ChannelBoundsAssumption DEF Connect
  <2>5. joined' \in [Sockets -> Nat] /\ handler' \in [Sockets -> Handler]
    BY <1>4 DEF Connect, Handler
  <2>6. QED
    BY <1>4, <2>3, <2>4, <2>5 DEF Connect
<1>5. ASSUME NEW s \in Sockets, Leave(s) PROVE ChannelTypeOK'
  BY <1>5 DEF Leave, Handler, disconnected
<1>6. ASSUME NEW s \in Sockets, Read(s) PROVE ChannelTypeOK'
  <2>1. /\ seen' = [seen EXCEPT ![s] = seen[s] + 1] /\ sent' = sent
        /\ Len(sent[s]) - seen[s] > 0 /\ Len(sent[s]) \in Nat
    BY <1>6 DEF Read
  <2>2. \A r \in Sockets : /\ seen'[r] \in Nat /\ seen'[r] <= Len(sent[r])
                            /\ Len(sent[r]) - seen'[r] <= MaxUnread
    BY <2>1, ChannelBoundsAssumption
  <2>3. seen' \in [Sockets -> Nat]
    BY <2>1
  <2>4. QED BY <1>6, <2>1, <2>2, <2>3 DEF Read
<1>7. ASSUME NEW s \in Sockets, closes(s) PROVE ChannelTypeOK'
  BY <1>7 DEF closes
<1>8. CASE Begin
  <2>1. PICK move \in moves(status), reserves \in BOOLEAN :
          request' = [phase |-> "publishing", target |-> move[2],
                      events |-> published(move[1], move[2], reserves)]
    BY <1>8 DEF Begin
  <2>2. request' \in Request
    BY <2>1, PublishedTyped DEF Request
  <2>3. QED BY <1>8, <2>2 DEF Begin
<1>9. CASE Publish
  <2>1. request \in Request /\ Len(request.events) > 0 /\ Head(request.events) \in Events
    BY <1>9 DEF Publish, Idle, Request
  <2>2. Tail(request.events) \in Seq(Events) /\ Len(Tail(request.events)) = Len(request.events) - 1
    BY <2>1 DEF Request
  <2>3. /\ request' \in Request
        /\ request'.events = Tail(request.events)
    BY <1>9, <2>1, <2>2 DEF Publish, Request
  <2>4. log' \in Seq(Events) /\ Len(log') = Len(log) + 1
    BY <1>9, <2>1 DEF Publish
  <2>5. Len(log') + Len(request'.events) <= MaxEvents
    BY <2>1, <2>2, <2>3, <2>4, ChannelBoundsAssumption DEF Request
  <2>6. QED BY <1>9, <2>3, <2>4, <2>5 DEF Publish, subscribers
<1>10. ASSUME NEW s \in Sockets, PickSocket(s) PROVE ChannelTypeOK'
  BY <1>10 DEF PickSocket, set_aside
<1>11. ASSUME NEW s \in Sockets, SendReturns(s) PROVE ChannelTypeOK'
  <2>1. log # <<>>
    BY <1>11, SocketsAssumption DEF SendReturns, Copied
  <2>2. log[Len(log)] \in Events
    BY <2>1
  <2>3. /\ sent' \in [Sockets -> Seq(Snapshots \cup Events)]
        /\ Len(sent'[s]) = Len(sent[s]) + 1
        /\ \A r \in Sockets \ {s} : sent'[r] = sent[r]
    BY <1>11, <2>2 DEF SendReturns
  <2>4. \A r \in Sockets : seen[r] <= Len(sent'[r]) /\ Len(sent'[r]) - seen[r] <= MaxUnread
    BY <1>11, <2>3, ChannelBoundsAssumption DEF SendReturns, has_room
  <2>5. QED BY <1>11, <2>3, <2>4 DEF SendReturns
<1>12. ASSUME NEW s \in Sockets, SendRaises(s) PROVE ChannelTypeOK'
  BY <1>12 DEF SendRaises, set_aside
<1>13. CASE DropStale
  <2>1. request \in Request
    BY <1>13 DEF DropStale, Idle
  <2>2. request' \in Request /\ request'.events = request.events
    BY <1>13, <2>1 DEF DropStale, Request
  <2>3. QED BY <1>13, <2>2 DEF DropStale, disconnected
<1>14. CASE Commit
  BY <1>14 DEF Commit, Request, Idle
<1>15. CASE CommitFails
  BY <1>15, ChannelBoundsAssumption DEF CommitFails, Request, Idle
<1>16. QED
  BY <1>1, <1>2, <1>3, <1>4, <1>5, <1>6, <1>7, <1>8, <1>9, <1>10, <1>11, <1>12, <1>13,
     <1>14, <1>15
     DEF ChannelNext, HandlerStep, Broadcast, HangUp, PingTimeout

-----------------------------------------------------------------------------
\* Registration and the copy of the broadcast.

LEMMA NextRegistered ==
  ASSUME IInv, [ChannelNext]_channel_vars
  PROVE  (Loaded /\ Registered /\ Copied)'
<1> DEFINE Goal == (Loaded /\ Registered /\ Copied)'
<1> USE DEF IInv, ChannelTypeOK, Loaded, Registered, Copied, broadcast, sockets
<1>1. CASE UNCHANGED channel_vars
  BY <1>1 DEF channel_vars
<1>2. ASSUME NEW s \in Sockets, LoadSnapshot(s) PROVE Goal
  BY <1>2 DEF LoadSnapshot
<1>3. ASSUME NEW s \in Sockets, AcceptFails(s) PROVE Goal
  BY <1>3 DEF AcceptFails
<1>4. ASSUME NEW s \in Sockets, Connect(s) PROVE Goal
  BY <1>4 DEF Connect
<1>5. ASSUME NEW s \in Sockets, Leave(s) PROVE Goal
  BY <1>5 DEF Leave, disconnected
<1>6. ASSUME NEW s \in Sockets, Read(s) PROVE Goal
  BY <1>6 DEF Read
<1>7. ASSUME NEW s \in Sockets, closes(s) PROVE Goal
  BY <1>7 DEF closes
<1>8. CASE Begin
  <2>1. request'.phase = "publishing" /\ request.phase = "idle"
    BY <1>8 DEF Begin, Idle
  <2>2. QED BY <1>8, <2>1 DEF Begin
<1>9. CASE Publish
  <2>1. log' # <<>>
    BY <1>9 DEF Publish
  <2>2. QED BY <1>9, <2>1 DEF Publish, subscribers
<1>10. ASSUME NEW s \in Sockets, PickSocket(s) PROVE Goal
  <2>1. request.phase = "sending"
    BY <1>10 DEF PickSocket
  <2>2. QED BY <1>10, <2>1 DEF PickSocket, set_aside
<1>11. ASSUME NEW s \in Sockets, SendReturns(s) PROVE Goal
  BY <1>11, SocketsAssumption DEF SendReturns
<1>12. ASSUME NEW s \in Sockets, SendRaises(s) PROVE Goal
  BY <1>12, SocketsAssumption DEF SendRaises, set_aside
<1>13. CASE DropStale
  BY <1>13 DEF DropStale, disconnected, Request, Idle
<1>14. CASE Commit
  BY <1>14 DEF Commit, Idle
<1>15. CASE CommitFails
  BY <1>15 DEF CommitFails, Idle
<1>16. QED
  BY <1>1, <1>2, <1>3, <1>4, <1>5, <1>6, <1>7, <1>8, <1>9, <1>10, <1>11, <1>12, <1>13,
     <1>14, <1>15
     DEF ChannelNext, HandlerStep, Broadcast, HangUp, PingTimeout

-----------------------------------------------------------------------------
\* Positions.

LEMMA NextPosition ==
  ASSUME IInv, [ChannelNext]_channel_vars
  PROVE  Position'
<1> USE DEF IInv, ChannelTypeOK, Position, broadcast, sockets
<1>1. CASE UNCHANGED channel_vars
  BY <1>1 DEF channel_vars
<1>2. ASSUME NEW s \in Sockets, LoadSnapshot(s) PROVE Position'
  BY <1>2 DEF LoadSnapshot
<1>3. ASSUME NEW s \in Sockets, AcceptFails(s) PROVE Position'
  BY <1>3 DEF AcceptFails
<1>4. ASSUME NEW s \in Sockets, Connect(s) PROVE Position'
  <2>1. s \notin pending \cup stale /\ s # sending /\ s \notin connections
    BY <1>4, SocketsAssumption DEF Connect, Copied, Registered
  <2>2. sent'[s] # <<>> /\ Len(sent'[s]) = 1 /\ joined'[s] = Len(log) /\ Len(log) \in Nat
    BY <1>4 DEF Connect
  <2>3. \A r \in Sockets \ {s} : /\ sent'[r] = sent[r] /\ joined'[r] = joined[r]
                                  /\ handler'[r] = handler[r]
    BY <1>4 DEF Connect
  <2>4. handler'[s] = "connected" /\ connections' = connections \cup {s}
        /\ UNCHANGED <<pending, stale, sending, log>>
    BY <1>4 DEF Connect
  <2>5. QED BY <2>1, <2>2, <2>3, <2>4
<1>5. ASSUME NEW s \in Sockets, Leave(s) PROVE Position'
  BY <1>5 DEF Leave, disconnected
<1>6. ASSUME NEW s \in Sockets, Read(s) PROVE Position'
  BY <1>6 DEF Read
<1>7. ASSUME NEW s \in Sockets, closes(s) PROVE Position'
  BY <1>7 DEF closes
<1>8. CASE Begin
  BY <1>8 DEF Begin
<1>9. CASE Publish
  <2>1. pending = {} /\ stale = {} /\ sending = NOBODY
    BY <1>9 DEF Publish, Copied
  <2>2. \A s \in connections : joined[s] + Len(sent[s]) = Len(log) + 1
    BY <2>1, SocketsAssumption
  <2>3. Len(log') = Len(log) + 1
    BY <1>9 DEF Publish
  <2>4. QED BY <1>9, <2>1, <2>2, <2>3 DEF Publish, subscribers
<1>10. ASSUME NEW s \in Sockets, PickSocket(s) PROVE Position'
  <2>1. CASE handler[s] = "connected"
    BY <1>10, <2>1, SocketsAssumption DEF PickSocket
  <2>2. CASE handler[s] # "connected"
    <3>1. s \notin connections
      BY <2>2 DEF Registered
    <3>2. QED BY <1>10, <2>2, <3>1 DEF PickSocket, set_aside
  <2>3. QED BY <2>1, <2>2
<1>11. ASSUME NEW s \in Sockets, SendReturns(s) PROVE Position'
  <2>1. s \notin pending /\ handler[s] = "connected" /\ s \in connections
    BY <1>11, SocketsAssumption DEF SendReturns, Copied
  <2>2. Len(sent'[s]) = Len(sent[s]) + 1 /\ sent'[s] # <<>>
    BY <1>11 DEF SendReturns
  <2>3. \A r \in Sockets \ {s} : sent'[r] = sent[r]
    BY <1>11 DEF SendReturns
  <2>4. joined[s] + Len(sent[s]) = Len(log)
    BY <1>11, <2>1 DEF SendReturns
  <2>5. joined[s] + Len(sent'[s]) = Len(log) + 1
    BY <2>2, <2>4
  <2>6. sending = s /\ sending' = NOBODY
        /\ UNCHANGED <<pending, stale, log, connections, joined, handler>>
    BY <1>11 DEF SendReturns
  <2>7. QED BY <2>1, <2>2, <2>3, <2>5, <2>6, SocketsAssumption
<1>12. ASSUME NEW s \in Sockets, SendRaises(s) PROVE Position'
  BY <1>12, SocketsAssumption DEF SendRaises, set_aside, Copied
<1>13. CASE DropStale
  BY <1>13 DEF DropStale, disconnected
<1>14. CASE Commit
  BY <1>14 DEF Commit
<1>15. CASE CommitFails
  BY <1>15 DEF CommitFails
<1>16. QED
  BY <1>1, <1>2, <1>3, <1>4, <1>5, <1>6, <1>7, <1>8, <1>9, <1>10, <1>11, <1>12, <1>13,
     <1>14, <1>15
     DEF ChannelNext, HandlerStep, Broadcast, HangUp, PingTimeout

LEMMA NextIInv == IInv /\ [ChannelNext]_channel_vars => IInv'
  BY NextTyped, NextRegistered, NextPosition DEF IInv

LEMMA AlwaysIInv == ChannelSpec => []IInv
  BY InitIInv, NextIInv, PTL DEF ChannelSpec

-----------------------------------------------------------------------------
\* Every variable stays in its set.
THEOREM ChannelTyped == ChannelSpec => []ChannelTypeOK
<1>1. IInv => ChannelTypeOK
  BY DEF IInv
<1>2. QED BY <1>1, AlwaysIInv, PTL

\* No socket stays registered when its handler has ended, and one that is
\* dropped while its handler waits is one whose console has gone.
THEOREM SocketsDoNotLeak == ChannelSpec => []NoSocketLeaks
<1>1. IInv => NoSocketLeaks
  BY DEF IInv, Registered, NoSocketLeaks
<1>2. QED BY <1>1, AlwaysIInv, PTL

-----------------------------------------------------------------------------
\* What the last message of a console is.

\* The last event of the log is what was committed last, unless a commit fails:
\* a request publishes its update last, and nobody else publishes meanwhile.
LastPublished ==
  /\ request # Idle =>
       IF request.events = <<>>
       THEN log # <<>> /\ log[Len(log)] = update(request.target)
       ELSE request.events[Len(request.events)] = update(request.target)
  /\ failures = 0 /\ request = Idle /\ log # <<>> => log[Len(log)] = update(status)

\* The last message of a console that is up to date is the last event.
LastHeard ==
  \A s \in connections :
    s \notin pending \cup stale /\ s # sending /\ Len(sent[s]) > 1
      => sent[s][Len(sent[s])] = log[Len(log)]

LEMMA InitLast == ChannelInit => LastPublished /\ LastHeard
  BY DEF ChannelInit, LastPublished, LastHeard

LEMMA NextLastPublished ==
  ASSUME IInv, LastPublished, [ChannelNext]_channel_vars
  PROVE  LastPublished'
<1> USE DEF LastPublished, broadcast, sockets
<1>1. CASE UNCHANGED <<status, request, log, failures>>
  BY <1>1
<1>2. CASE Begin
  <2>1. PICK move \in moves(status), reserves \in BOOLEAN :
          request' = [phase |-> "publishing", target |-> move[2],
                      events |-> published(move[1], move[2], reserves)]
    BY <1>2 DEF Begin
  <2>2. request'.events # <<>> /\ request'.events[Len(request'.events)] = update(request'.target)
    BY <2>1, PublishedTyped DEF IInv, ChannelTypeOK
  <2>3. request' # Idle
    BY <2>1 DEF Idle
  <2>4. QED BY <2>2, <2>3
<1>3. CASE Publish
  <2>1. request \in Request /\ request.events \in Seq(Events) /\ request.events # <<>>
    BY <1>3 DEF Publish, Idle, Request, IInv, ChannelTypeOK
  <2>2. request # Idle
    BY <1>3 DEF Publish, Idle
  <2>3. request'.events = Tail(request.events) /\ request'.target = request.target
        /\ request'.phase = "sending"
    BY <1>3, <2>1 DEF Publish, Request
  <2>4. log' = Append(log, Head(request.events)) /\ log \in Seq(Events)
    BY <1>3 DEF Publish, IInv, ChannelTypeOK
  <2>5. CASE Tail(request.events) = <<>>
    <3>1. Len(request.events) = 1
      <4>1. Len(Tail(request.events)) = Len(request.events) - 1 /\ Len(request.events) \in Nat
        BY <2>1
      <4>2. Len(Tail(request.events)) = Len(<<>>)
        BY <2>5, Zenon
      <4>3. QED BY <4>1, <4>2
    <3>2. Head(request.events) = update(request.target)
      BY <2>1, <2>2, <3>1
    <3>3. log' # <<>> /\ log'[Len(log')] = Head(request.events)
      BY <2>1, <2>4
    <3>4. QED BY <2>3, <2>5, <3>2, <3>3 DEF Idle
  <2>6. CASE Tail(request.events) # <<>>
    <3>1. /\ Len(Tail(request.events)) = Len(request.events) - 1
          /\ Len(request.events) > 1
          /\ Tail(request.events)[Len(request.events) - 1] = request.events[Len(request.events)]
      BY <2>1, <2>6
    <3>2. QED BY <2>1, <2>2, <2>3, <2>6, <3>1 DEF Idle
  <2>7. QED BY <2>5, <2>6
<1>4. CASE DropStale
  <2>1. request \in Request /\ request # Idle
    BY <1>4 DEF DropStale, Idle, IInv, ChannelTypeOK
  <2>2. /\ request'.events = request.events /\ request'.target = request.target
        /\ request'.phase = "publishing"
    BY <1>4, <2>1 DEF DropStale, Request
  <2>3. QED BY <1>4, <2>1, <2>2 DEF DropStale, Idle
<1>5. CASE Commit
  <2>1. request # Idle
    BY <1>5 DEF Commit, Idle
  <2>2. QED BY <1>5, <2>1 DEF Commit
<1>6. CASE CommitFails
  <2>1. failures' # 0
    BY <1>6 DEF CommitFails, IInv, ChannelTypeOK
  <2>2. QED BY <1>6, <2>1 DEF CommitFails
<1>7. QED
  BY <1>1, <1>2, <1>3, <1>4, <1>5, <1>6
     DEF ChannelNext, HandlerStep, Broadcast, HangUp, PingTimeout, channel_vars,
         LoadSnapshot, AcceptFails, Connect, Leave, Read, closes, PickSocket,
         SendReturns, SendRaises

LEMMA NextLastHeard ==
  ASSUME IInv, LastHeard, [ChannelNext]_channel_vars
  PROVE  LastHeard'
<1> USE DEF IInv, ChannelTypeOK, LastHeard, broadcast, sockets
<1>1. CASE UNCHANGED <<pending, stale, sending, log, connections, sent>>
  BY <1>1
<1>2. ASSUME NEW s \in Sockets, Connect(s) PROVE LastHeard'
  <2>1. Len(sent'[s]) = 1 /\ \A r \in Sockets \ {s} : sent'[r] = sent[r]
    BY <1>2 DEF Connect
  <2>2. QED BY <1>2, <2>1 DEF Connect
<1>3. ASSUME NEW s \in Sockets, Leave(s) PROVE LastHeard'
  BY <1>3 DEF Leave, disconnected
<1>4. CASE Publish
  BY <1>4 DEF Publish, subscribers
<1>5. ASSUME NEW s \in Sockets, PickSocket(s) PROVE LastHeard'
  <2>1. CASE handler[s] = "connected"
    <3>1. sending = NOBODY /\ sending' = s /\ pending' = pending \ {s}
          /\ UNCHANGED <<stale, log, connections, sent>>
      BY <1>5, <2>1 DEF PickSocket
    <3>2. QED BY <3>1, SocketsAssumption
  <2>2. CASE handler[s] # "connected"
    <3>1. s \notin connections
      BY <2>2 DEF Registered
    <3>2. QED BY <1>5, <2>2, <3>1 DEF PickSocket, set_aside
  <2>3. QED BY <2>1, <2>2
<1>6. ASSUME NEW s \in Sockets, SendReturns(s) PROVE LastHeard'
  <2>1. sending = s /\ sending' = NOBODY
        /\ UNCHANGED <<pending, stale, log, connections>>
    BY <1>6 DEF SendReturns
  <2>2. sent'[s] = Append(sent[s], log[Len(log)]) /\ \A r \in Sockets \ {s} : sent'[r] = sent[r]
    BY <1>6 DEF SendReturns
  <2>3. sent'[s][Len(sent'[s])] = log[Len(log)]
    BY <2>2
  <2>4. QED BY <2>1, <2>2, <2>3
<1>7. ASSUME NEW s \in Sockets, SendRaises(s) PROVE LastHeard'
  BY <1>7 DEF SendRaises, set_aside
<1>8. CASE DropStale
  BY <1>8 DEF DropStale, disconnected
<1>9. QED
  BY <1>1, <1>2, <1>3, <1>4, <1>5, <1>6, <1>7, <1>8
     DEF ChannelNext, HandlerStep, Broadcast, HangUp, PingTimeout, channel_vars,
         LoadSnapshot, AcceptFails, Read, closes, Begin, Commit, CommitFails

\* A console that has heard an update shows the committed status whenever nothing
\* is in flight and no commit has failed: events and commits come in one order.
THEOREM UpdatesTellTheTruth == ChannelSpec => []UpdatedConsolesAgree
<1>1. ASSUME IInv, LastPublished, LastHeard PROVE UpdatedConsolesAgree
  <2>1. SUFFICES ASSUME failures = 0, at_rest, NEW s \in connections, NEW i \in told(s), i > 1
                 PROVE  shown(s) = status
    BY DEF UpdatedConsolesAgree
  <2>2. request = Idle /\ pending = {} /\ stale = {} /\ sending = NOBODY
    BY <1>1, <2>1 DEF at_rest, IInv, Copied, Idle
  <2>3. s \in Sockets /\ sent[s] \in Seq(Snapshots \cup Events) /\ log \in Seq(Events)
        /\ joined[s] \in Nat /\ seen[s] \in Nat
    BY <1>1, <2>1 DEF IInv, ChannelTypeOK
  <2>4. seen[s] = Len(sent[s]) /\ Len(sent[s]) > 1
    BY <2>1, <2>3 DEF at_rest, unread, told
  <2>5. joined[s] + Len(sent[s]) = Len(log) + 1
    BY <1>1, <2>1, <2>2, SocketsAssumption, <2>3 DEF IInv, Position
  <2>6. sent[s][Len(sent[s])] = update(status)
    <3>1. s # sending
      BY <2>2, <2>3, SocketsAssumption
    <3>2. sent[s][Len(sent[s])] = log[Len(log)]
      BY <1>1, <2>2, <2>4, <3>1 DEF LastHeard
    <3>3. log # <<>>
      BY <2>3, <2>4, <2>5
    <3>4. QED BY <1>1, <2>1, <2>2, <3>2, <3>3 DEF LastPublished
  <2>7. status # NO_STATUS
    BY <1>1 DEF IInv, ChannelTypeOK, WorkflowStatus, NO_STATUS
  <2>8. Len(sent[s]) \in told(s) /\ \A j \in told(s) : j \in Nat /\ j <= Len(sent[s])
    BY <2>3, <2>4, <2>6, <2>7 DEF told, update
  <2> DEFINE last == CHOOSE j \in told(s) : \A l \in told(s) : l <= j
  <2>9. last = Len(sent[s])
    BY <2>3, <2>8
  <2>10. shown(s) = sent[s][last].workflow_status
    BY <2>8 DEF shown
  <2> HIDE DEF last
  <2>11. sent[s][last] = update(status)
    BY <2>6, <2>9
  <2>12. QED BY <2>10, <2>11 DEF update
<1>2. ASSUME IInv, LastPublished, LastHeard, [ChannelNext]_channel_vars
      PROVE  LastPublished' /\ LastHeard'
  BY <1>2, NextLastPublished, NextLastHeard
<1>3. QED BY <1>1, <1>2, InitLast, AlwaysIInv, PTL DEF ChannelSpec

-----------------------------------------------------------------------------
\* The refinement, step by step.

LEMMA FeedInit == ChannelInit => Feed!Init
  BY DEF ChannelInit, Feed!Init, feed

\* A step that changes nobody's registration leaves the feeds alone.
LEMMA FeedStep ==
  ASSUME IInv, [ChannelNext]_channel_vars
  PROVE  [Feed!Next]_Feed!feed_vars
<1> USE DEF IInv, ChannelTypeOK, broadcast, sockets
<1> DEFINE Goal == [Feed!Next]_Feed!feed_vars
<1>1. CASE UNCHANGED <<log, connections, handler, joined, sent>>
  BY <1>1 DEF feed, Feed!feed_vars
<1>2. ASSUME NEW s \in Sockets, LoadSnapshot(s) PROVE Goal
  <2>1. feed' = feed
    BY <1>2 DEF LoadSnapshot, feed
  <2>2. QED BY <1>2, <2>1 DEF LoadSnapshot, Feed!feed_vars
<1>3. ASSUME NEW s \in Sockets, AcceptFails(s) PROVE Goal
  <2>1. s \notin connections /\ handler[s] = "loaded"
    BY <1>3 DEF AcceptFails, Registered
  <2>2. feed[s] = "off" /\ feed' = [r \in Sockets |-> IF r \in {s} THEN "over" ELSE feed[r]]
    BY <1>3, <2>1 DEF AcceptFails, feed
  <2>3. Feed!Drop({s})
    BY <1>3, <2>2 DEF AcceptFails, Feed!Drop
  <2>4. QED BY <2>3 DEF Feed!Next
<1>4. ASSUME NEW s \in Sockets, Connect(s) PROVE Goal
  <2>1. feed[s] = "off" /\ feed' = [feed EXCEPT ![s] = "on"]
    BY <1>4 DEF Connect, feed
  <2>2. first_message(snapshot[s]) \in Snapshots
    BY <1>4 DEF Connect, Snapshots, Loaded
  <2>3. Feed!Subscribe(s)
    BY <1>4, <2>1, <2>2 DEF Connect, Feed!Subscribe
  <2>4. QED BY <2>3 DEF Feed!Next
<1>5. ASSUME NEW s \in Sockets, Leave(s) PROVE Goal
  <2>1. CASE s \in connections
    <3>1. feed[s] = "on" /\ feed' = [r \in Sockets |-> IF r \in {s} THEN "over" ELSE feed[r]]
      BY <1>5, <2>1 DEF Leave, feed, disconnected
    <3>2. Feed!Drop({s})
      BY <1>5, <3>1 DEF Leave, Feed!Drop
    <3>3. QED BY <3>2 DEF Feed!Next
  <2>2. CASE s \notin connections
    <3>1. feed' = feed
      BY <1>5, <2>2 DEF Leave, feed, disconnected
    <3>2. QED BY <1>5, <3>1 DEF Leave, Feed!feed_vars
  <2>3. QED BY <2>1, <2>2
<1>6. CASE Publish
  <2>1. request \in Request /\ Head(request.events) \in Events
    BY <1>6 DEF Publish, Idle, Request
  <2>2. feed' = feed
    BY <1>6 DEF Publish, feed
  <2>3. Feed!Publish
    BY <1>6, <2>1, <2>2 DEF Publish, Feed!Publish
  <2>4. QED BY <2>3 DEF Feed!Next
<1>7. ASSUME NEW s \in Sockets, SendReturns(s) PROVE Goal
  <2>1. s \in connections /\ joined[s] + Len(sent[s]) = Len(log)
    BY <1>7, SocketsAssumption DEF SendReturns, Copied, Position
  <2>2. feed[s] = "on" /\ feed' = feed
    BY <1>7, <2>1 DEF SendReturns, feed
  <2>3. sent' = [sent EXCEPT ![s] = Append(sent[s], log[joined[s] + Len(sent[s])])]
    BY <1>7, <2>1 DEF SendReturns
  <2>4. Feed!behind(s)
    BY <2>1, <2>2 DEF Feed!behind
  <2>5. Feed!Deliver(s)
    BY <1>7, <2>2, <2>3, <2>4 DEF SendReturns, Feed!Deliver
  <2>6. QED BY <2>5 DEF Feed!Next
<1>8. CASE DropStale
  <2> DEFINE gone == stale \cap connections
  <2>1. \A r \in gone : feed[r] # "over"
    BY DEF feed, Registered
  <2>2. feed' = [r \in Sockets |-> IF r \in gone THEN "over" ELSE feed[r]]
    BY <1>8 DEF DropStale, feed, disconnected, Registered
  <2>3. Feed!Drop(gone)
    BY <1>8, <2>1, <2>2 DEF DropStale, Feed!Drop
  <2>4. QED BY <2>3 DEF Feed!Next
<1>9. QED
  BY <1>1, <1>2, <1>3, <1>4, <1>5, <1>6, <1>7, <1>8
     DEF ChannelNext, HandlerStep, Broadcast, HangUp, PingTimeout, channel_vars,
         Read, closes, Begin, PickSocket, set_aside, SendRaises, Commit, CommitFails

\* The channel never does what EventFeed forbids: whatever a console is sent is
\* its snapshot and then the events published since, with none left out.
THEOREM ChannelFeeds == ChannelSpec => Feed!Init /\ [][Feed!Next]_Feed!feed_vars
  BY FeedInit, FeedStep, AlwaysIInv, PTL DEF ChannelSpec
=============================================================================
