------------------------------ MODULE EventFeed ------------------------------
(***************************************************************************)
(* What the realtime channel promises a console (docstring of              *)
(* api/v1/websocket.py: "a snapshot immediately, then ... an event after   *)
(* every workflow transition"): a snapshot first, then every event that is *)
(* published after it subscribed, once and in order, until it is dropped.  *)
(***************************************************************************)
EXTENDS Naturals, Sequences

CONSTANTS
  Sockets,    \* consoles, one socket each
  Snapshots,  \* what a feed may begin with
  Events      \* what may be published

VARIABLES
  log,     \* the events published, in order
  feed,    \* per socket: off, on or over
  joined,  \* the length of the log when the socket subscribed
  stream   \* what was sent to the socket

feed_vars == <<log, feed, joined, stream>>

Init ==
  /\ log = <<>>
  /\ feed = [s \in Sockets |-> "off"]
  /\ joined = [s \in Sockets |-> 0]
  /\ stream = [s \in Sockets |-> <<>>]

Publish ==
  /\ \E e \in Events : log' = Append(log, e)
  /\ UNCHANGED <<feed, joined, stream>>

Subscribe(s) ==
  /\ feed[s] = "off"
  /\ feed' = [feed EXCEPT ![s] = "on"]
  /\ joined' = [joined EXCEPT ![s] = Len(log)]
  /\ \E m \in Snapshots : stream' = [stream EXCEPT ![s] = <<m>>]
  /\ UNCHANGED log

\* The snapshot is the first message, so stream[s] has heard Len - 1 events.
behind(s) == feed[s] = "on" /\ joined[s] + Len(stream[s]) - 1 < Len(log)

Deliver(s) ==
  /\ behind(s)
  /\ stream' = [stream EXCEPT ![s] = Append(@, log[joined[s] + Len(@)])]
  /\ UNCHANGED <<log, feed, joined>>

\* One broadcast can lose several sockets at once.
Drop(gone) ==
  /\ \A s \in gone : feed[s] # "over"
  /\ feed' = [s \in Sockets |-> IF s \in gone THEN "over" ELSE feed[s]]
  /\ UNCHANGED <<log, joined, stream>>

Next ==
  \/ Publish
  \/ \E s \in Sockets : Subscribe(s) \/ Deliver(s)
  \/ \E gone \in SUBSET Sockets : Drop(gone)

CatchUp(s) ==
  behind(s) /\ (Deliver(s) \/ \E gone \in SUBSET Sockets : s \in gone /\ Drop(gone))

\* A console that is behind hears the next event or is dropped.
Spec ==
  /\ Init
  /\ [][Next]_feed_vars
  /\ \A s \in Sockets : WF_feed_vars(CatchUp(s))
=============================================================================
