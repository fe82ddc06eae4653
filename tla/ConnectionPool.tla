---------------------------- MODULE ConnectionPool ---------------------------
(***************************************************************************)
(* The connection pool (db/session.py) and the requests that live on it.   *)
(*                                                                         *)
(* A request takes a connection with its first statement and returns it    *)
(* when its session closes.  A cloud action that is refused is audited on  *)
(* a second session, so on a second connection, while the first is held    *)
(* (workflow.py: record_blocked_cloud_action).  The pool has pool_size +   *)
(* max_overflow connections; who finds none free waits until one is        *)
(* returned, and is thrown out when it has waited too long.  Reading a     *)
(* snapshot for a console is a request like any other here.                *)
(*                                                                         *)
(* Row locks are left to ApiTransactions: a refused request holds none, so *)
(* a request that waits for a row waits for one that needs nothing here.   *)
(***************************************************************************)
EXTENDS Naturals

CONSTANTS
  Clients,      \* each with one request in flight at most
  Connections,  \* what the pool may open
  FREE,         \* the use of a connection that nobody has
  MaxRequests   \* bound: requests served

ASSUME FreeAssumption == FREE \notin Clients \X {"request", "audit"}
ASSUME PoolBoundsAssumption == MaxRequests \in Nat

VARIABLES
  use,     \* per connection: the client, and which session of it
  phase,   \* per client: where its request is
  number,  \* per client: which request it is on
  audit,   \* the requests with a cloud.action_blocked row committed
  told,    \* the requests answered with CLOUD_UNAVAILABLE
  served   \* requests begun

pool_vars == <<use, phase, number, audit, told, served>>

\* Asking: for the request's connection.  Running: it has one.  Refused: the
\* action is to be audited.  Auditing: on the second connection.  Audited: the
\* refusal is committed and the request is about to raise it.
Phase == {"idle", "asking", "running", "refused", "auditing", "audited"}

Use == Clients \X {"request", "audit"}

PoolTypeOK ==
  /\ use \in [Connections -> Use \cup {FREE}]
  /\ phase \in [Clients -> Phase]
  /\ number \in [Clients -> 0..MaxRequests]
  /\ audit \in SUBSET (1..MaxRequests)
  /\ told \in SUBSET (1..MaxRequests)
  /\ served \in 0..MaxRequests

PoolInit ==
  /\ use = [k \in Connections |-> FREE]
  /\ phase = [c \in Clients |-> "idle"]
  /\ number = [c \in Clients |-> 0]
  /\ audit = {} /\ told = {}
  /\ served = 0

-----------------------------------------------------------------------------
free == {k \in Connections : use[k] = FREE}

goes_to(c, to) == phase' = [phase EXCEPT ![c] = to]

takes(c, session) == \E k \in free : use' = [use EXCEPT ![k] = <<c, session>>]

\* Mutation: only the audit session is closed by its block.
returns_audit(c, sessions) ==
  use' = [k \in Connections |-> IF use[k] = <<c, "audit">> THEN FREE ELSE use[k]]

returns(c, sessions) ==
  use' = [k \in Connections |-> IF use[k] \in {c} \X sessions THEN FREE ELSE use[k]]

Arrive(c) ==
  /\ phase[c] = "idle"
  /\ served < MaxRequests
  /\ served' = served + 1
  /\ number' = [number EXCEPT ![c] = served + 1]
  /\ goes_to(c, "asking")
  /\ UNCHANGED <<use, audit, told>>

\* The first statement of get_session's session.
CheckOut(c) ==
  /\ phase[c] = "asking"
  /\ takes(c, "request")
  /\ goes_to(c, "running")
  /\ UNCHANGED <<number, audit, told, served>>

\* Committed or rolled back, and closed.
Finish(c) ==
  /\ phase[c] = "running"
  /\ returns(c, {"request"})
  /\ goes_to(c, "idle")
  /\ UNCHANGED <<number, audit, told, served>>

\* The phase a request goes to when it finds the link down.
\* Mutation: the refusal is raised before it is audited.
refused_unaudited == "audited"

refused == "refused"

MeetOutage(c) ==
  /\ phase[c] = "running"
  /\ goes_to(c, refused)
  /\ UNCHANGED <<use, number, audit, told, served>>

CheckOutAudit(c) ==
  /\ phase[c] = "refused"
  /\ takes(c, "audit")
  /\ goes_to(c, "auditing")
  /\ UNCHANGED <<number, audit, told, served>>

CommitAudit(c) ==
  /\ phase[c] = "auditing"
  /\ audit' = audit \cup {number[c]}
  /\ returns(c, {"audit"})
  /\ goes_to(c, "audited")
  /\ UNCHANGED <<number, told, served>>

\* guard_cloud_available raises: the request rolls back and answers 503.
AnswerUnavailable(c) ==
  /\ phase[c] = "audited"
  /\ told' = told \cup {number[c]}
  /\ returns(c, {"request"})
  /\ goes_to(c, "idle")
  /\ UNCHANGED <<number, audit, served>>

\* Mutation: the engine is built to wait for ever.
never_times_out(c) == FALSE

\* Who waits for a connection is thrown out in the end: pool_timeout is left
\* at its default.
times_out(c) == phase[c] \in {"asking", "refused"} /\ free = {}

\* Mutation: the request is left at the error it met.
breaks_off_at_the_error(c) ==
  /\ returns(c, {"request", "audit"})
  /\ goes_to(c, "raised")
  /\ UNCHANGED <<number, audit, told, served>>

\* The request answers 500; what it was refused for is not recorded.
breaks_off(c) ==
  /\ returns(c, {"request", "audit"})
  /\ goes_to(c, "idle")
  /\ UNCHANGED <<number, audit, told, served>>

TimeOut(c) == times_out(c) /\ breaks_off(c)

\* The audit row cannot be written or committed.
AuditFails(c) == phase[c] = "auditing" /\ breaks_off(c)

-----------------------------------------------------------------------------
Proceed(c) ==
  \/ CheckOut(c)
  \/ Finish(c)
  \/ MeetOutage(c)
  \/ CheckOutAudit(c)
  \/ CommitAudit(c)
  \/ AnswerUnavailable(c)

PoolNext == \E c \in Clients : Arrive(c) \/ Proceed(c) \/ TimeOut(c) \/ AuditFails(c)

\* Whatever has its connection goes on, and waiting comes to an end one way or
\* the other.  Nobody is promised the next connection that is returned.
PoolSpec ==
  /\ PoolInit
  /\ [][PoolNext]_pool_vars
  /\ \A c \in Clients : WF_pool_vars(Proceed(c) \/ TimeOut(c))

-----------------------------------------------------------------------------
\* Properties.

\* The connections that a request in each phase holds.
sessions_in(at) ==
  CASE at \in {"idle", "asking"}               -> {}
    [] at \in {"running", "refused", "audited"} -> {"request"}
    [] at = "auditing"                          -> {"request", "audit"}

\* A connection is held by a session that is open, each by one of its own: none
\* leaks, whichever way the request ended (session.py: "a session bound to the
\* request lifetime").
ConnectionsFollowSessions ==
  /\ \A c \in Clients, session \in {"request", "audit"} :
       session \in sessions_in(phase[c]) <=> \E k \in Connections : use[k] = <<c, session>>
  /\ \A k, l \in Connections : use[k] = use[l] /\ use[k] # FREE => k = l

\* Nobody who holds a connection can go on without another one.
stalled ==
  /\ free = {}
  /\ \A c \in Clients : phase[c] \in {"idle", "asking", "refused"}

\* The pool can lock up on itself, until a wait times out, but only when every
\* connection is held by a cloud refusal that waits for its second one.
OnlyRefusalsStallThePool ==
  stalled => \A k \in Connections : \E c \in Clients :
               use[k] = <<c, "request">> /\ phase[c] = "refused"

\* Who is told that the cloud is unavailable finds the refusal in the trail
\* (workflow.py: "the refusal is still visible afterwards").
RefusalsToldAreAudited == told \subseteq audit

\* Every request is answered, even when the pool has locked up.
EveryClientIsServed == \A c \in Clients : phase[c] # "idle" ~> phase[c] = "idle"
=============================================================================
