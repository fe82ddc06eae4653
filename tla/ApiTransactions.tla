--------------------------- MODULE ApiTransactions --------------------------
(***************************************************************************)
(* The four write endpoints as overlapping database transactions on one    *)
(* incident (api/v1/incidents.py, api/deps.py, db/session.py).             *)
(*                                                                         *)
(* PostgreSQL runs at READ COMMITTED: every statement sees what is         *)
(* committed when it starts, an UPDATE waits for the transaction that last *)
(* wrote the row, and what a request has read is not read again.  The      *)
(* incident is read by a dependency, without a lock and without a version; *)
(* the handler decides on that copy.                                       *)
(*                                                                         *)
(* A handler is split where another request can make a difference: at the  *)
(* read of the incident, at the read of its children, at the first row it  *)
(* locks, at the incident row, at the part checks, at its answer and at    *)
(* its commit, which comes after the answer.                               *)
(***************************************************************************)
EXTENDS IncidentRecords, FiniteSets

CONSTANTS
  Rows,         \* the rows an incident may start as
  Clients,      \* connections that each have one request in flight at most
  FREE,         \* the holder of a row that nobody has locked
  MaxRequests,  \* bound: requests served
  MaxFailures   \* bound: requests that die

\* Of the orders a row starts with, only the last may still be worked on.
ASSUME ApiRowsAssumption ==
  /\ Rows \subseteq Row
  /\ \A r \in Rows : \A i \in 1..(Len(r.work_orders) - 1) :
       r.work_orders[i] \in {"completed", "cancelled"}
ASSUME ClientsAssumption == FREE \notin Clients
ASSUME RequestBoundsAssumption == MaxRequests \in Nat /\ MaxFailures \in Nat

VARIABLES
  row, incident, proposal, part_checks, decisions, work_orders, outcomes,
  agent_runs, audit,  \* what is committed, as in IncidentLifecycle
  requests,  \* the request of each client: its phase and what it has read
  lock,      \* the row locks of the database
  console,   \* the workflow status the consoles were last told
  served,    \* requests begun
  failures   \* requests that died

committed == <<row, incident, proposal, part_checks, decisions, work_orders,
               outcomes, agent_runs, audit>>

vars == <<row, incident, proposal, part_checks, decisions, work_orders, outcomes,
          agent_runs, audit, requests, lock, console, served, failures>>

\* The same endpoints, one request at a time.
Serial == INSTANCE IncidentLifecycle
            WITH MaxRejections <- MaxRequests, MaxBlocked <- MaxRequests, MaxSeeds <- 0

Kind == {"approve", "reject", "step", "outcome"}

\* Loaded: the incident is read.  Read: so are its children.  Decided: the rows
\* written before the incident are locked.  Moved: so is the incident.  Written:
\* everything is flushed.  Answered: the events and the response are out.
Phase == {"loaded", "read", "decided", "moved", "written", "answered"}

Idle == [phase |-> "idle"]

Request ==
  [kind : Kind, phase : Phase, incident : Incident, proposal : Proposal,
   part_checks : PartChecks, work_orders : Seq(WorkOrderStatus)]

LockedRow == {"incident", "proposal", "part_check", "work_order"}

TypeOK ==
  /\ Serial!TypeOK
  /\ requests \in [Clients -> Request \cup {Idle}]
  /\ lock \in [LockedRow -> Clients \cup {FREE}]
  /\ console \in WorkflowStatus
  /\ served \in 0..MaxRequests
  /\ failures \in 0..MaxFailures

Init ==
  /\ Serial!Init
  /\ requests = [c \in Clients |-> Idle]
  /\ lock = [r \in LockedRow |-> FREE]
  /\ console = incident.workflow_status
  /\ served = 0
  /\ failures = 0

-----------------------------------------------------------------------------
\* What request q makes of the copies it has read.

\* next_step's table of handlers, as the state each of them moves to.
handlers ==
  [watch     |-> "escalated",
   escalated |-> "diagnosed",
   diagnosed |-> IF human_review_reason(row.diagnosis) = NO_REASON
                 THEN "approval_required"
                 ELSE "human_review",
   approved  |-> "work_order_live"]

step_refusal(q) ==
  LET current == q.incident.workflow_status
  IN  IF current \notin DOMAIN handlers THEN "PARKED"
      ELSE IF current \in {"diagnosed", "approved"} /\ ~q.incident.cloud_available
        THEN "CLOUD_UNAVAILABLE"
      ELSE IF handlers[current] = "approval_required" /\ planner_raises(q.proposal)
        THEN "PLAN_NOT_LOADED"
      ELSE "none"

refusal(q) ==
  CASE q.kind = "approve" -> approval_refusal(q.incident, q.proposal)
    [] q.kind = "reject"  -> rejection_refusal(q.incident, q.proposal)
    [] q.kind = "outcome" -> outcome_refusal(q.incident, q.work_orders)
    [] q.kind = "step"    -> step_refusal(q)

\* The incident row as the request leaves it.
result(q) ==
  LET target == handlers[q.incident.workflow_status]
  IN  CASE q.kind = "approve" -> moved(moved(q.incident, "approved"), "work_order_live")
        [] q.kind = "reject"  -> moved(moved(q.incident, "rejected"), "watch")
        [] q.kind = "outcome" -> moved(q.incident, "resolved")
        [] q.kind = "step" /\ target = "human_review" ->
             routed_to_review(q.incident, human_review_reason(row.diagnosis))
        [] q.kind = "step" /\ target # "human_review" -> moved(q.incident, target)

trail(q) ==
  CASE q.kind = "approve" -> Serial!approval_trail(q.incident, q.part_checks)
    [] q.kind = "reject"  -> Serial!rejection_trail(q.incident)
    [] q.kind = "outcome" -> <<event("outcome.captured")>>
                               \o transition_events(q.incident, "resolved")
    [] q.kind = "step"    -> transition_events(q.incident, result(q).workflow_status)

plans_a_part(q) ==
  /\ q.kind = "step"
  /\ result(q).workflow_status = "approval_required"
  /\ q.part_checks = no_part_checks

agents(q) ==
  {k \in AgentKind :
     \/ q.kind = "step" /\ k = "sentinel" /\ q.incident.workflow_status = "watch"
     \/ q.kind = "step" /\ k = "diagnosis" /\ q.incident.workflow_status = "escalated"
     \/ k = "parts" /\ plans_a_part(q)}

-----------------------------------------------------------------------------
\* Row locks.

\* Mutation: the proposal gets the name of the request.
decided_kind(q) == q.kind

decided_status(q) == IF q.kind = "approve" THEN "approved" ELSE "rejected"

\* A column set to the value it was loaded with is not written: deciding again
\* what the proposal already says locks nothing.
written_rows(q) ==
  LET decided_on == IF q.proposal = decided_status(q) THEN {} ELSE {"proposal"}
      held       == IF unreserved(q.part_checks) = {} THEN {} ELSE {"part_check"}
  IN  {"incident"} \cup
        (CASE q.kind = "approve" -> decided_on \cup held
           [] q.kind = "reject"  -> decided_on
           [] q.kind = "outcome" -> {"work_order"}
           [] q.kind = "step"    -> {})

\* Mutation: a rejection takes its rows the other way round.
locked_first_by_hand(q) ==
  IF q.kind = "reject" THEN {"incident"} ELSE written_rows(q) \ {"incident", "part_check"}

\* The decision, the outcome and what they mark are flushed before transition
\* writes the incident.
locked_first(q) == written_rows(q) \ {"incident", "part_check"}

\* The parts are reserved after it.
locked_last(q) == written_rows(q) \cap {"part_check"}

\* The rows the next statement of request q waits for.
awaited(q) ==
  IF q.phase = "read" /\ refusal(q) = "none" THEN locked_first(q)
  ELSE IF q.phase = "decided" THEN written_rows(q) \ (locked_first(q) \cup locked_last(q))
  ELSE IF q.phase = "moved" THEN locked_last(q)
  ELSE {}

obtainable(c) == \A r \in awaited(requests[c]) : lock[r] \in {FREE, c}

obtained(c) == [r \in LockedRow |-> IF r \in awaited(requests[c]) THEN c ELSE lock[r]]

released(c) == [r \in LockedRow |-> IF lock[r] = c THEN FREE ELSE lock[r]]

-----------------------------------------------------------------------------
\* A request, step by step.

in_phase(c, phase) == requests[c].phase = phase

goes_to(c, phase) == requests' = [requests EXCEPT ![c].phase = phase]

ends(c) == requests' = [requests EXCEPT ![c] = Idle]

\* get_incident, before the handler is called.
Load(c, kind) ==
  /\ in_phase(c, "idle")
  /\ served < MaxRequests
  /\ served' = served + 1
  /\ requests' = [requests EXCEPT ![c] =
       [kind |-> kind, phase |-> "loaded", incident |-> incident,
        proposal |-> "absent", part_checks |-> no_part_checks, work_orders |-> <<>>]]
  /\ UNCHANGED <<committed, lock, console, failures>>

\* latest_proposal with its part checks, or latest_work_order.
Read(c) ==
  /\ in_phase(c, "loaded")
  /\ requests' = [requests EXCEPT ![c] =
       [@ EXCEPT !.phase = "read", !.proposal = proposal,
                 !.part_checks = part_checks, !.work_orders = work_orders]]
  /\ UNCHANGED <<committed, lock, console, served, failures>>

\* A refusal, or a parked step: the transaction ends with nothing written.
Refuse(c) ==
  /\ in_phase(c, "read")
  /\ refusal(requests[c]) \notin {"none", "CLOUD_UNAVAILABLE"}
  /\ ends(c)
  /\ UNCHANGED <<committed, lock, console, served, failures>>

\* The cloud refusal is audited first, in a transaction of its own.
RefuseOffline(c) ==
  /\ in_phase(c, "read")
  /\ refusal(requests[c]) = "CLOUD_UNAVAILABLE"
  /\ ends(c)
  /\ audit' = Append(audit, event("cloud.action_blocked"))
  /\ UNCHANGED <<row, incident, proposal, part_checks, decisions, work_orders,
                 outcomes, agent_runs, lock, console, served, failures>>

\* The first flush: the proposal or the order is written.
Decide(c) ==
  /\ in_phase(c, "read")
  /\ refusal(requests[c]) = "none"
  /\ obtainable(c)
  /\ lock' = obtained(c)
  /\ goes_to(c, "decided")
  /\ UNCHANGED <<committed, console, served, failures>>

\* Mutation: the order is looked up together with the proposal.
orders_found_early(q) == q.work_orders

\* _create_work_order looks for an order after the incident is written, so with
\* the incident locked.
orders_found(q) == IF q.kind = "approve" THEN work_orders ELSE q.work_orders

\* transition's flush.
Move(c) ==
  /\ in_phase(c, "decided")
  /\ obtainable(c)
  /\ lock' = obtained(c)
  /\ goes_to(c, "moved")
  /\ UNCHANGED <<committed, console, served, failures>>

\* The parts are reserved, and everything the handler does after that.
Write(c) ==
  /\ in_phase(c, "moved")
  /\ obtainable(c)
  /\ lock' = obtained(c)
  /\ requests' = [requests EXCEPT ![c] =
       [@ EXCEPT !.phase = "written", !.work_orders = orders_found(requests[c])]]
  /\ UNCHANGED <<committed, console, served, failures>>

\* Mutation: the detail is rendered from a session of its own, which sees only
\* what is committed.
detail_committed(q) == incident.workflow_status

\* detail expires the session and reads the incident again, inside the
\* transaction: it shows what the request has written.
detail_status(q) == result(q).workflow_status

\* The events are published and the response is sent, before the commit.
Answer(c) ==
  /\ in_phase(c, "written")
  /\ goes_to(c, "answered")
  /\ console' = detail_status(requests[c])
  /\ UNCHANGED <<committed, lock, served, failures>>

\* Only the columns that differ from the loaded copy are in the UPDATE.
overwritten(db, copy, new) ==
  [col \in DOMAIN db |-> IF new[col] = copy[col] THEN db[col] ELSE new[col]]

\* Mutation: an approval commits without the order it raised.
committed_orders_unraised(q) ==
  IF q.kind = "outcome"
  THEN [work_orders EXCEPT ![Len(q.work_orders)] = "completed"]
  ELSE work_orders

committed_orders(q) ==
  IF q.kind = "outcome"
  THEN [work_orders EXCEPT ![Len(q.work_orders)] = "completed"]
  ELSE IF q.kind = "approve" /\ ~reuses_order(q.work_orders)
  THEN Append(work_orders, "open")
  ELSE work_orders

\* The part checks an approval saw are held; a planned one is a new row.
committed_checks(q) ==
  IF q.kind = "approve"
  THEN {[p \in Parts |-> IF p \in unreserved(q.part_checks) THEN "reserved"
                                                           ELSE part_checks[p]]}
  ELSE IF plans_a_part(q)
  THEN {[part_checks EXCEPT ![p] = "checked_not_reserved"] :
          p \in {p \in Parts : part_checks[p] = "absent"}}
  ELSE {part_checks}

committed_decisions(q) ==
  IF q.kind \in {"approve", "reject"}
  THEN Append(decisions,
              [decision |-> decided_status(q), used_at |-> q.kind = "approve"])
  ELSE decisions

\* get_session's commit, after the response.
Commit(c) ==
  LET q == requests[c] IN
  /\ in_phase(c, "answered")
  /\ incident' = overwritten(incident, q.incident, result(q))
  /\ proposal' = IF "proposal" \in written_rows(q) THEN decided_status(q) ELSE proposal
  /\ part_checks' \in committed_checks(q)
  /\ decisions' = committed_decisions(q)
  /\ work_orders' = committed_orders(q)
  /\ outcomes' = IF q.kind = "outcome" THEN Append(outcomes, Len(q.work_orders))
                                       ELSE outcomes
  /\ agent_runs' = Serial!ran(agents(q))
  /\ audit' = audit \o trail(q)
  /\ lock' = released(c)
  /\ ends(c)
  /\ UNCHANGED <<row, console, served, failures>>

\* Mutation: the session of a failed request is neither rolled back nor closed.
never_rolled_back(c) == lock

\* The session is rolled back and closed, whatever the exception.
rolled_back(c) == released(c)

\* A statement or the commit itself fails: everything is rolled back, except
\* for what was already answered.
Fail(c) ==
  /\ ~in_phase(c, "idle")
  /\ failures < MaxFailures
  /\ failures' = failures + 1
  /\ lock' = rolled_back(c)
  /\ ends(c)
  /\ UNCHANGED <<committed, console, served>>

-----------------------------------------------------------------------------
Next ==
  \E c \in Clients :
    \/ \E kind \in Kind : Load(c, kind)
    \/ Read(c)
    \/ Refuse(c)
    \/ RefuseOffline(c)
    \/ Decide(c)
    \/ Move(c)
    \/ Write(c)
    \/ Answer(c)
    \/ Commit(c)
    \/ Fail(c)

Spec == Init /\ [][Next]_vars

-----------------------------------------------------------------------------
\* Properties.

at_rest == \A c \in Clients : in_phase(c, "idle")

\* Whatever overlaps, an incident never has two orders open at once: the order
\* is looked up after the incident is locked (approval.py: "a retried approval
\* reuses the order it already created").
AtMostOneStandingOrder ==
  Cardinality({i \in DOMAIN work_orders :
                 work_orders[i] \notin {"completed", "cancelled"}}) <= 1

\* Overlapping requests break the chain of recorded transitions, but the last
\* one recorded still says where the incident is: status and trail are
\* committed together and only under the lock on the incident.
TrailEndsAtStatus ==
  \A i \in Serial!transitions :
    (\A j \in Serial!transitions : j <= i)
      => audit[i].next_state = incident.workflow_status

\* No set of requests waits for each other's rows: every handler locks its
\* proposal or order before the incident, and part checks after it.
NoDeadlock ==
  \A waiting \in (SUBSET Clients) \ {{}} :
    \E c \in waiting :
      \A r \in awaited(requests[c]) : lock[r] \notin waiting \ {c}

\* With nothing in flight, the consoles show the committed status: the event
\* goes out before the commit, but with the incident locked, so events and
\* commits come in the same order.
ConsolesAgree == at_rest => console = incident.workflow_status

\* The same as long as every request that answered also commits.
ConsolesFollowCommits == failures = 0 => ConsolesAgree

\* Every request is answered or refused, and its transaction ends.
EveryRequestEnds ==
  \A c \in Clients : ~in_phase(c, "idle") ~> in_phase(c, "idle")

\* The promise of IncidentLifecycle that requests which overlap can break.
NothingHeldBeforeApproval == Serial!NothingHeldBeforeApproval
=============================================================================
