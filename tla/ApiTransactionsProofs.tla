------------------------ MODULE ApiTransactionsProofs -----------------------
(***************************************************************************)
(* What overlapping requests cannot break, for every set of clients, rows  *)
(* and parts and for every bound.                                          *)
(*                                                                         *)
(* The invariant ties phases to row locks: who has flushed the incident    *)
(* holds it, and who waits for it holds only what is locked before it.     *)
(***************************************************************************)
EXTENDS ApiTransactions, SequenceTheorems, FiniteSetTheorems, TLAPS

-----------------------------------------------------------------------------
\* What IncidentLifecycle says of the committed rows, in the names used here.

CommittedTyped ==
  /\ row \in Rows
  /\ incident \in Incident
  /\ proposal \in Proposal
  /\ part_checks \in PartChecks
  /\ decisions \in Seq(Decision)
  /\ work_orders \in Seq(WorkOrderStatus)
  /\ outcomes \in TechnicianOutcomes
  /\ agent_runs \in AgentRuns
  /\ audit \in Seq(AuditEvent)

LEMMA SerialTyped == Serial!TypeOK <=> CommittedTyped
BY DEF Serial!TypeOK, CommittedTyped, Serial!Incident, Incident, Serial!WorkflowStatus,
       WorkflowStatus, Serial!ReviewReason, ReviewReason, Serial!NO_REASON, NO_REASON,
       Serial!Proposal, Proposal, Serial!ProposalStatus, ProposalStatus,
       Serial!PartChecks, PartChecks, Serial!PartCheckStatus, PartCheckStatus,
       Serial!Decision, Decision, Serial!WorkOrderStatus, WorkOrderStatus,
       Serial!TechnicianOutcomes, TechnicianOutcomes, Serial!AgentRuns, AgentRuns,
       Serial!AgentKind, AgentKind, Serial!AuditEvent, AuditEvent, Serial!EventType, EventType

LEMMA SerialNames ==
  /\ \A i, target : Serial!moved(i, target) = moved(i, target)
  /\ \A i, target : Serial!transition_events(i, target) = transition_events(i, target)
  /\ \A type : Serial!event(type) = event(type)
  /\ \A checks : Serial!unreserved(checks) = unreserved(checks)
BY DEF Serial!moved, moved, Serial!transition_events, transition_events, Serial!event,
       event, Serial!unreserved, unreserved, Serial!NO_REASON, NO_REASON

LEMMA Trails ==
  /\ \A i, checks : Serial!approval_trail(i, checks) =
       <<event("approval.created")>>
         \o transition_events(i, "approved")
         \o (IF unreserved(checks) # {} THEN <<event("part.reserved")>> ELSE <<>>)
         \o <<event("work_order.created")>>
         \o transition_events(moved(i, "approved"), "work_order_live")
  /\ \A i : Serial!rejection_trail(i) =
       <<event("approval.rejected")>>
         \o transition_events(i, "rejected")
         \o transition_events(moved(i, "rejected"), "watch")
BY SerialNames DEF Serial!approval_trail, Serial!rejection_trail

-----------------------------------------------------------------------------
\* What an accepted request does.

\* The copies that request q has read are those of a request that goes on.
Accepted(q) ==
  /\ q.kind \in {"approve", "reject"} =>
       q.incident.workflow_status = "approval_required"
  /\ q.kind = "outcome" => q.incident.workflow_status = "work_order_live"
  /\ q.kind = "step" =>
       q.incident.workflow_status \in {"watch", "escalated", "diagnosed", "approved"}

LEMMA NotRefused ==
  ASSUME NEW q \in Request, refusal(q) = "none"
  PROVE  Accepted(q)
<1>1. q.kind \in Kind
  BY DEF Request
<1>2. DOMAIN handlers = {"watch", "escalated", "diagnosed", "approved"}
  BY DEF handlers
<1> QED
  BY <1>1, <1>2 DEF Kind, Accepted, refusal, approval_refusal, rejection_refusal,
     outcome_refusal, step_refusal

LEMMA Moved ==
  ASSUME NEW i \in Incident, NEW target \in WorkflowStatus
  PROVE  moved(i, target) \in Incident /\ moved(i, target).workflow_status = target
BY DEF moved, Incident

\* The last row of s records a move to status.
EndsWithMoveTo(s, status) ==
  /\ s \in Seq(AuditEvent)
  /\ s # <<>>
  /\ s[Len(s)].event_type = "workflow.transitioned"
  /\ s[Len(s)].next_state = status

LEMMA MoveRecorded ==
  ASSUME NEW i \in Incident, NEW target \in WorkflowStatus,
         i.workflow_status # target
  PROVE  EndsWithMoveTo(transition_events(i, target), target)
<1> DEFINE e == [event_type     |-> "workflow.transitioned",
                 previous_state |-> i.workflow_status,
                 next_state     |-> target]
<1>1. e \in AuditEvent
  BY DEF AuditEvent, EventType, Incident
<1>2. e.event_type = "workflow.transitioned" /\ e.next_state = target
  OBVIOUS
<1>3. transition_events(i, target) = <<e>>
  BY DEF transition_events
<1> HIDE DEF e
<1> QED
  BY <1>1, <1>2, <1>3 DEF EndsWithMoveTo

LEMMA MoveComesLast ==
  ASSUME NEW s \in Seq(AuditEvent), NEW u, NEW status, EndsWithMoveTo(u, status)
  PROVE  EndsWithMoveTo(s \o u, status)
<1>1. u \in Seq(AuditEvent) /\ Len(u) > 0
  BY DEF EndsWithMoveTo
<1>2. s \o u \in Seq(AuditEvent) /\ Len(s \o u) = Len(s) + Len(u) /\ Len(s \o u) > 0
  BY <1>1
<1>3. (s \o u)[Len(s) + Len(u)] = u[Len(u)]
  BY <1>1
<1> QED
  BY <1>2, <1>3 DEF EndsWithMoveTo

LEMMA EventTyped ==
  ASSUME NEW type \in EventType
  PROVE  event(type) \in AuditEvent /\ <<event(type)>> \in Seq(AuditEvent)
<1>1. event(type) \in AuditEvent
  BY DEF event, AuditEvent
<1> QED
  BY <1>1

\* Every accepted request moves the incident, and its trail ends with the move.
LEMMA RequestMoves ==
  ASSUME NEW q \in Request, Accepted(q)
  PROVE  /\ result(q) \in Incident
         /\ result(q).workflow_status # q.incident.workflow_status
         /\ EndsWithMoveTo(trail(q), result(q).workflow_status)
<1> DEFINE i == q.incident
<1>1. i \in Incident /\ q.kind \in Kind
  BY DEF Request
<1>2. CASE q.kind = "approve"
  <2>1. i.workflow_status = "approval_required"
    BY <1>2 DEF Accepted
  <2>2. moved(i, "approved") \in Incident /\ moved(i, "approved").workflow_status = "approved"
    BY <1>1, Moved DEF WorkflowStatus
  <2>3. /\ result(q) = moved(moved(i, "approved"), "work_order_live")
        /\ result(q) \in Incident /\ result(q).workflow_status = "work_order_live"
    BY <1>2, <2>2, Moved DEF WorkflowStatus, result
  <2> DEFINE a == transition_events(i, "approved")
             b == IF unreserved(q.part_checks) # {} THEN <<event("part.reserved")>> ELSE <<>>
             d == <<event("work_order.created")>>
             u == transition_events(moved(i, "approved"), "work_order_live")
             s == (<<event("approval.created")>> \o a \o b) \o d
  <2>4. trail(q) = s \o u
    BY <1>2, Trails DEF trail
  <2>5. a \in Seq(AuditEvent)
    BY <1>1, <2>1, MoveRecorded DEF WorkflowStatus, EndsWithMoveTo
  <2>6. b \in Seq(AuditEvent)
    BY EventTyped DEF EventType
  <2>7. d \in Seq(AuditEvent) /\ <<event("approval.created")>> \in Seq(AuditEvent)
    BY EventTyped DEF EventType
  <2>8. EndsWithMoveTo(u, "work_order_live")
    BY <2>2, MoveRecorded DEF WorkflowStatus
  <2>9. s \in Seq(AuditEvent)
    <3> HIDE DEF a, b, d
    <3> QED
      BY <2>5, <2>6, <2>7
  <2> HIDE DEF s, u
  <2> QED
    BY <2>1, <2>3, <2>4, <2>8, <2>9, MoveComesLast
<1>3. CASE q.kind = "reject"
  <2>1. i.workflow_status = "approval_required"
    BY <1>3 DEF Accepted
  <2>2. moved(i, "rejected") \in Incident /\ moved(i, "rejected").workflow_status = "rejected"
    BY <1>1, Moved DEF WorkflowStatus
  <2>3. /\ result(q) = moved(moved(i, "rejected"), "watch")
        /\ result(q) \in Incident /\ result(q).workflow_status = "watch"
    BY <1>3, <2>2, Moved DEF WorkflowStatus, result
  <2> DEFINE a == transition_events(i, "rejected")
             u == transition_events(moved(i, "rejected"), "watch")
             s == <<event("approval.rejected")>> \o a
  <2>4. trail(q) = s \o u
    BY <1>3, Trails DEF trail
  <2>5. a \in Seq(AuditEvent)
    BY <1>1, <2>1, MoveRecorded DEF WorkflowStatus, EndsWithMoveTo
  <2>6. <<event("approval.rejected")>> \in Seq(AuditEvent)
    BY EventTyped DEF EventType
  <2>7. EndsWithMoveTo(u, "watch")
    BY <2>2, MoveRecorded DEF WorkflowStatus
  <2>8. s \in Seq(AuditEvent)
    <3> HIDE DEF a
    <3> QED
      BY <2>5, <2>6
  <2> HIDE DEF s, u
  <2> QED
    BY <2>1, <2>3, <2>4, <2>7, <2>8, MoveComesLast
<1>4. CASE q.kind = "outcome"
  <2>1. i.workflow_status = "work_order_live"
    BY <1>4 DEF Accepted
  <2>2. result(q) \in Incident /\ result(q).workflow_status = "resolved"
    BY <1>1, <1>4, Moved DEF WorkflowStatus, result
  <2> DEFINE s == <<event("outcome.captured")>>
             u == transition_events(i, "resolved")
  <2>3. trail(q) = s \o u
    BY <1>4 DEF trail
  <2>4. s \in Seq(AuditEvent)
    BY EventTyped DEF EventType
  <2>5. EndsWithMoveTo(u, "resolved")
    BY <1>1, <2>1, MoveRecorded DEF WorkflowStatus
  <2> HIDE DEF s, u
  <2> QED
    BY <2>1, <2>2, <2>3, <2>4, <2>5, MoveComesLast
<1>5. CASE q.kind = "step"
  <2> DEFINE target == handlers[i.workflow_status]
             reason == human_review_reason(row.diagnosis)
  <2>1. i.workflow_status \in {"watch", "escalated", "diagnosed", "approved"}
    BY <1>5 DEF Accepted
  <2>2. /\ target \in WorkflowStatus /\ target # i.workflow_status
        /\ target = "human_review" => reason # NO_REASON
    BY <2>1 DEF handlers, WorkflowStatus
  <2>3. reason \in ReviewReason \cup {NO_REASON}
    BY DEF human_review_reason, ReviewReason
  <2>4. result(q) \in Incident /\ result(q).workflow_status = target
    <3>1. CASE target = "human_review"
      <4>1. result(q) = moved([i EXCEPT !.human_review_reason = reason], "human_review")
        BY <1>5, <3>1 DEF result, routed_to_review
      <4>2. [i EXCEPT !.human_review_reason = reason] \in Incident
        BY <1>1, <2>3 DEF Incident
      <4> QED
        BY <3>1, <4>1, <4>2, Moved DEF WorkflowStatus
    <3>2. CASE target # "human_review"
      <4>1. result(q) = moved(i, target)
        BY <1>5, <3>2 DEF result
      <4> QED
        BY <1>1, <2>2, <4>1, Moved
    <3> QED
      BY <3>1, <3>2
  <2>5. trail(q) = transition_events(i, target)
    BY <1>5, <2>4 DEF trail
  <2> HIDE DEF target
  <2> QED
    BY <1>1, <2>2, <2>4, <2>5, MoveRecorded
<1> QED
  BY <1>1, <1>2, <1>3, <1>4, <1>5 DEF Kind

-----------------------------------------------------------------------------
\* The invariant.

Typed ==
  /\ CommittedTyped
  /\ requests \in [Clients -> Request \cup {Idle}]
  /\ lock \in [LockedRow -> Clients \cup {FREE}]
  /\ console \in WorkflowStatus
  /\ served \in 0..MaxRequests
  /\ failures \in 0..MaxFailures

\* A row is held by a request that has decided, and by one that has not got
\* further only if it is one of those that come before the incident.
Holders ==
  \A r \in LockedRow : lock[r] # FREE =>
    /\ requests[lock[r]].phase \in {"decided", "moved", "written", "answered"}
    /\ requests[lock[r]].phase = "decided" => r \in locked_first(requests[lock[r]])

\* Whoever has flushed the incident has it locked.
Flushed ==
  \A c \in Clients :
    requests[c].phase \in {"moved", "written", "answered"} => lock["incident"] = c

\* Only accepted requests go on.
Going ==
  \A c \in Clients :
    requests[c].phase \in {"decided", "moved", "written", "answered"} =>
      Accepted(requests[c])

IInv == Typed /\ Holders /\ Flushed /\ Going

LEMMA InitIInv == Init => IInv
<1> SUFFICES ASSUME Init PROVE IInv
  OBVIOUS
<1>1. /\ row \in Row /\ row \in Rows
      /\ incident = row.incident /\ proposal = row.proposal
      /\ part_checks = row.part_checks /\ work_orders = row.work_orders
      /\ decisions = <<>> /\ outcomes = <<>>
  BY ApiRowsAssumption DEF Init, Serial!Init
<1>2. agent_runs \in AgentRuns
  BY DEF Init, Serial!Init, Serial!seeded_runs, AgentRuns, Serial!AgentKind, AgentKind
<1>3. audit \in Seq(AuditEvent)
  <2>1. CASE row.demo
    <3> DEFINE a == <<event("demo.seeded")>>
               e == [event_type     |-> "workflow.transitioned",
                     previous_state |-> "diagnosed",
                     next_state     |-> "approval_required"]
               b == IF row.incident.workflow_status = "approval_required" THEN <<e>> ELSE <<>>
    <3>1. audit = a \o b
      BY <2>1, SerialNames DEF Init, Serial!Init, Serial!seeding_events
    <3>2. e \in AuditEvent
      BY DEF AuditEvent, EventType, WorkflowStatus
    <3>3. a \in Seq(AuditEvent)
      BY EventTyped DEF EventType
    <3>4. b \in Seq(AuditEvent)
      <4> HIDE DEF e
      <4> QED
        BY <3>2
    <3> HIDE DEF a, b
    <3> QED
      BY <3>1, <3>3, <3>4
  <2>2. CASE ~row.demo
    BY <2>2 DEF Init, Serial!Init
  <2> QED
    BY <2>1, <2>2
<1>4. CommittedTyped
  BY <1>1, <1>2, <1>3 DEF CommittedTyped, Row, TechnicianOutcomes
<1>5. Typed
  BY <1>1, <1>4, RequestBoundsAssumption DEF Typed, Init, Row, Incident
<1>6. Holders /\ Flushed /\ Going
  BY DEF Init, Holders, Flushed, Going, Idle
<1> QED
  BY <1>5, <1>6 DEF IInv

\* Only the columns that are new come from the request.
LEMMA OverwrittenTyped ==
  ASSUME NEW db \in Incident, NEW copy \in Incident, NEW new \in Incident
  PROVE  /\ overwritten(db, copy, new) \in Incident
         /\ new.workflow_status # copy.workflow_status =>
              overwritten(db, copy, new).workflow_status = new.workflow_status
BY DEF overwritten, Incident

\* Replacing one row, or none if there is no such row.
LEMMA ReplacedRow ==
  ASSUME NEW S, NEW s \in Seq(S), NEW n, NEW e \in S
  PROVE  /\ [s EXCEPT ![n] = e] \in Seq(S)
         /\ Len([s EXCEPT ![n] = e]) = Len(s)
         /\ \A i \in 1..Len(s) :
              [s EXCEPT ![n] = e][i] = IF i = n THEN e ELSE s[i]
<1>1. CASE n \in 1..Len(s)
  BY <1>1, ExceptSeq
<1>2. CASE n \notin 1..Len(s)
  <2>1. [s EXCEPT ![n] = e] = s
    BY <1>2
  <2> QED
    BY <1>2, <2>1
<1> QED
  BY <1>1, <1>2

LEMMA CommitTyped ==
  ASSUME CommittedTyped, NEW c \in Clients, requests[c] \in Request,
         Accepted(requests[c]), Commit(c)
  PROVE  CommittedTyped'
<1> DEFINE q == requests[c]
<1>1. q \in Request
  OBVIOUS
<1>2. /\ result(q) \in Incident /\ trail(q) \in Seq(AuditEvent)
      /\ q.incident \in Incident /\ q.kind \in Kind
      /\ q.part_checks \in PartChecks /\ q.work_orders \in Seq(WorkOrderStatus)
  BY <1>1, RequestMoves DEF EndsWithMoveTo, Request
<1> HIDE DEF q
<1>3. row' \in Rows
  BY DEF CommittedTyped, Commit
<1>4. incident' \in Incident
  <2>1. incident' = overwritten(incident, q.incident, result(q))
    BY DEF Commit, q
  <2> QED
    BY <1>2, <2>1, OverwrittenTyped DEF CommittedTyped
<1>5. proposal' \in Proposal
  <2>1. proposal' \in {proposal, "approved", "rejected"}
    BY DEF Commit, decided_status
  <2> QED
    BY <2>1 DEF CommittedTyped, Proposal, ProposalStatus
<1>6. part_checks' \in PartChecks
  <2>1. part_checks' \in committed_checks(q)
    BY DEF Commit, q
  <2> QED
    BY <1>2, <2>1 DEF CommittedTyped, committed_checks, PartChecks, PartCheckStatus
<1>7. decisions' \in Seq(Decision)
  <2> DEFINE d == [decision |-> decided_status(q), used_at |-> q.kind = "approve"]
  <2>1. decisions' \in {decisions, Append(decisions, d)}
    BY DEF Commit, committed_decisions, q
  <2>2. d \in Decision
    BY DEF decided_status, Decision
  <2>3. decisions \in Seq(Decision)
    BY DEF CommittedTyped
  <2> HIDE DEF d
  <2> QED
    BY <2>1, <2>2, <2>3
<1>8. work_orders' \in Seq(WorkOrderStatus)
  <2>1. work_orders' \in {work_orders, Append(work_orders, "open"),
                          [work_orders EXCEPT ![Len(q.work_orders)] = "completed"]}
    BY DEF Commit, committed_orders, q
  <2>2. work_orders \in Seq(WorkOrderStatus)
    BY DEF CommittedTyped
  <2>3. "open" \in WorkOrderStatus /\ "completed" \in WorkOrderStatus
    BY DEF WorkOrderStatus
  <2>4. Append(work_orders, "open") \in Seq(WorkOrderStatus)
    BY <2>2, <2>3
  <2>5. [work_orders EXCEPT ![Len(q.work_orders)] = "completed"] \in Seq(WorkOrderStatus)
    BY <2>2, <2>3, ReplacedRow
  <2> QED
    BY <2>1, <2>2, <2>4, <2>5
<1>9. outcomes' \in TechnicianOutcomes
  <2>1. outcomes' \in {outcomes, Append(outcomes, Len(q.work_orders))}
    BY DEF Commit, q
  <2>2. outcomes \in Seq(Nat)
    BY DEF CommittedTyped, TechnicianOutcomes
  <2>3. Len(q.work_orders) \in Nat
    BY <1>2
  <2> QED
    BY <2>1, <2>2, <2>3 DEF TechnicianOutcomes
<1>10. agent_runs' \in AgentRuns
  <2>1. agent_runs' = Serial!ran(agents(q))
    BY DEF Commit, q
  <2>2. agent_runs \in [AgentKind -> Nat] /\ Serial!AgentKind = AgentKind
    BY DEF CommittedTyped, AgentRuns, Serial!AgentKind, AgentKind
  <2>3. \A s : \A k \in AgentKind : agent_runs[k] + (IF k \in s THEN 1 ELSE 0) \in Nat
    BY <2>2
  <2> QED
    BY <2>1, <2>2, <2>3 DEF Serial!ran, AgentRuns
<1>11. audit' \in Seq(AuditEvent)
  <2>1. audit' = audit \o trail(q)
    BY DEF Commit, q
  <2> QED
    BY <1>2, <2>1 DEF CommittedTyped
<1> QED
  BY <1>3, <1>4, <1>5, <1>6, <1>7, <1>8, <1>9, <1>10, <1>11 DEF CommittedTyped

-----------------------------------------------------------------------------
\* The invariant is kept.

\* Which rows a request locks does not depend on how far it is.
LEMMA SameRows ==
  ASSUME NEW q, NEW r, r.kind = q.kind, r.proposal = q.proposal,
         r.part_checks = q.part_checks
  PROVE  locked_first(r) = locked_first(q) /\ written_rows(r) = written_rows(q)
BY DEF locked_first, written_rows, decided_status

\* The incident is written by every request, and not among the first rows.
LEMMA IncidentComesLater ==
  ASSUME NEW q
  PROVE  /\ "incident" \in written_rows(q)
         /\ "incident" \notin locked_first(q) \cup locked_last(q)
BY DEF written_rows, locked_first, locked_last

LEMMA NextTyped == IInv /\ [Next]_vars => Typed'
<1> SUFFICES ASSUME IInv, [Next]_vars PROVE Typed'
  OBVIOUS
<1> USE DEF IInv, Typed
<1>1. CASE UNCHANGED vars
  BY <1>1 DEF vars, CommittedTyped
<1>2. ASSUME NEW c \in Clients, NEW kind \in Kind, Load(c, kind) PROVE Typed'
  <2>1. [kind |-> kind, phase |-> "loaded", incident |-> incident,
         proposal |-> "absent", part_checks |-> no_part_checks, work_orders |-> <<>>]
          \in Request
    BY DEF Request, CommittedTyped, Phase, Proposal, PartChecks, no_part_checks
  <2> QED
    BY <1>2, <2>1, RequestBoundsAssumption DEF Load, committed, CommittedTyped
<1>3. ASSUME NEW c \in Clients, Read(c) PROVE Typed'
  <2>1. requests[c] \in Request
    BY <1>3 DEF Read, in_phase, Idle
  <2>2. requests'[c] \in Request
    BY <1>3, <2>1 DEF Read, Request, CommittedTyped, Phase
  <2> QED
    BY <1>3, <2>2 DEF Read, committed, CommittedTyped
<1>4. ASSUME NEW c \in Clients, Refuse(c) PROVE Typed'
  BY <1>4 DEF Refuse, ends, committed, CommittedTyped
<1>5. ASSUME NEW c \in Clients, RefuseOffline(c) PROVE Typed'
  <2>1. audit' \in Seq(AuditEvent)
    BY <1>5, EventTyped DEF RefuseOffline, CommittedTyped, EventType
  <2> QED
    BY <1>5, <2>1 DEF RefuseOffline, ends, CommittedTyped
<1>6. ASSUME NEW c \in Clients, Decide(c) PROVE Typed'
  <2>1. requests[c] \in Request
    BY <1>6 DEF Decide, in_phase, Idle
  <2>2. requests'[c] \in Request
    BY <1>6, <2>1 DEF Decide, goes_to, Request, Phase
  <2> QED
    BY <1>6, <2>2 DEF Decide, goes_to, obtained, committed, CommittedTyped
<1>7. ASSUME NEW c \in Clients, Write(c) PROVE Typed'
  <2>1. requests[c] \in Request
    BY <1>7 DEF Write, in_phase, Idle
  <2>2. orders_found(requests[c]) \in Seq(WorkOrderStatus)
    BY <2>1 DEF orders_found, Request, CommittedTyped
  <2>3. requests'[c] \in Request
    BY <1>7, <2>1, <2>2 DEF Write, Request, Phase
  <2> QED
    BY <1>7, <2>3 DEF Write, obtained, committed, CommittedTyped
<1>m. ASSUME NEW c \in Clients, Move(c) PROVE Typed'
  <2>1. requests[c] \in Request
    BY <1>m DEF Move, in_phase, Idle
  <2>2. requests'[c] \in Request
    BY <1>m, <2>1 DEF Move, goes_to, Request, Phase
  <2> QED
    BY <1>m, <2>2 DEF Move, goes_to, obtained, committed, CommittedTyped
<1>8. ASSUME NEW c \in Clients, Answer(c) PROVE Typed'
  <2>1. requests[c] \in Request
    BY <1>8 DEF Answer, in_phase, Idle
  <2>2. requests'[c] \in Request
    BY <1>8, <2>1 DEF Answer, goes_to, Request, Phase
  <2>3. Accepted(requests[c])
    BY <1>8 DEF Answer, in_phase, Going
  <2>4. console' \in WorkflowStatus
    BY <1>8, <2>1, <2>3, RequestMoves DEF Answer, detail_status, Incident
  <2> QED
    BY <1>8, <2>2, <2>4 DEF Answer, goes_to, committed, CommittedTyped
<1>9. ASSUME NEW c \in Clients, Commit(c) PROVE Typed'
  <2>1. Accepted(requests[c])
    BY <1>9 DEF Commit, in_phase, Going
  <2>2. CommittedTyped'
    <3>1. requests[c] \in Request
      BY <1>9 DEF Commit, in_phase, Idle
    <3> QED
      BY <1>9, <2>1, <3>1, CommitTyped
  <2> QED
    BY <1>9, <2>2 DEF Commit, ends, released
<1>10. ASSUME NEW c \in Clients, Fail(c) PROVE Typed'
  BY <1>10, RequestBoundsAssumption DEF Fail, ends, rolled_back, released, committed, CommittedTyped
<1> QED
  BY <1>1, <1>2, <1>3, <1>4, <1>5, <1>6, <1>7, <1>m, <1>8, <1>9, <1>10 DEF Next

\* Locks and phases.
LEMMA NextLocks == IInv /\ [Next]_vars => Holders' /\ Flushed' /\ Going'
<1> SUFFICES ASSUME IInv, [Next]_vars PROVE Holders' /\ Flushed' /\ Going'
  OBVIOUS
<1> DEFINE Goal == Holders' /\ Flushed' /\ Going'
<1>i. /\ requests \in [Clients -> Request \cup {Idle}]
      /\ lock \in [LockedRow -> Clients \cup {FREE}]
      /\ Holders /\ Flushed /\ Going
      /\ FREE \notin Clients /\ "incident" \in LockedRow
  BY ClientsAssumption DEF IInv, Typed, LockedRow
\* Steps of a request that has nothing locked and goes on without a lock.
<1>u. ASSUME NEW c \in Clients, lock' = lock, NEW x,
             requests' = [requests EXCEPT ![c] = x],
             requests[c].phase \in {"idle", "loaded", "read"},
             x.phase \in {"idle", "loaded", "read"}
      PROVE  Goal
  BY <1>i, <1>u DEF Holders, Flushed, Going
\* A transaction that ends.
<1>e. ASSUME NEW c \in Clients, lock' = released(c), ends(c) PROVE Goal
  BY <1>i, <1>e DEF Holders, Flushed, Going, released, ends, Idle
<1>1. CASE UNCHANGED vars
  BY <1>1, <1>i DEF vars, Holders, Flushed, Going
<1>2. ASSUME NEW c \in Clients, NEW kind \in Kind, Load(c, kind) PROVE Goal
  BY <1>2, <1>u DEF Load, in_phase
<1>3. ASSUME NEW c \in Clients, Read(c) PROVE Goal
  <2> DEFINE x == [requests[c] EXCEPT !.phase = "read", !.proposal = proposal,
                      !.part_checks = part_checks, !.work_orders = work_orders]
  <2>1. requests[c] \in Request
    BY <1>3, <1>i DEF Read, in_phase, Idle
  <2>2. x.phase = "read"
    BY <2>1 DEF Request
  <2>3. requests' = [requests EXCEPT ![c] = x]
    BY <1>3, <1>i DEF Read
  <2> HIDE DEF x
  <2> QED
    BY <1>3, <1>u, <2>2, <2>3 DEF Read, in_phase
<1>4. ASSUME NEW c \in Clients, Refuse(c) \/ RefuseOffline(c) PROVE Goal
  BY <1>4, <1>u DEF Refuse, RefuseOffline, ends, in_phase, Idle
<1>5. ASSUME NEW c \in Clients, Decide(c) PROVE Goal
  <2> DEFINE q == requests[c]
             x == requests'[c]
  <2>1. q \in Request /\ q.phase = "read" /\ refusal(q) = "none"
    BY <1>5, <1>i DEF Decide, in_phase, Idle
  <2>2. /\ x = [q EXCEPT !.phase = "decided"]
        /\ \A d \in Clients \ {c} : requests'[d] = requests[d]
    BY <1>5, <1>i DEF Decide, goes_to
  <2>3. /\ x.phase = "decided" /\ x.kind = q.kind /\ x.incident = q.incident
        /\ x.proposal = q.proposal /\ x.part_checks = q.part_checks
    BY <2>1, <2>2 DEF Request
  <2>4. Accepted(x)
    BY <2>1, <2>3, NotRefused DEF Accepted
  <2>5. locked_first(x) = locked_first(q) /\ awaited(q) = locked_first(q)
    BY <2>1, <2>3, SameRows DEF awaited
  <2>6. \A r \in LockedRow : /\ lock[r] # c
                             /\ r \in awaited(q) => lock[r] = FREE /\ lock'[r] = c
                             /\ r \notin awaited(q) => lock'[r] = lock[r]
    BY <1>5, <1>i, <2>1 DEF Decide, Holders, obtainable, obtained
  <2>7. Holders'
    <3> SUFFICES ASSUME NEW r \in LockedRow, lock'[r] # FREE
                 PROVE  /\ requests'[lock'[r]].phase \in {"decided", "moved", "written", "answered"}
                        /\ requests'[lock'[r]].phase = "decided"
                             => r \in locked_first(requests'[lock'[r]])
      BY DEF Holders
    <3>1. CASE r \in awaited(q)
      BY <2>3, <2>5, <2>6, <3>1
    <3>2. CASE r \notin awaited(q)
      <4>1. lock'[r] = lock[r] /\ lock[r] \in Clients \ {c}
        BY <1>i, <2>6, <3>2
      <4> QED
        BY <1>i, <2>2, <4>1 DEF Holders
    <3> QED
      BY <3>1, <3>2
  <2>8. Flushed'
    <3>1. "incident" \notin awaited(q)
      BY <2>5, IncidentComesLater
    <3>2. lock'["incident"] = lock["incident"]
      BY <1>i, <2>6, <3>1
    <3>3. ASSUME NEW d \in Clients, requests'[d].phase \in {"moved", "written", "answered"}
          PROVE  lock'["incident"] = d
      BY <1>i, <2>2, <2>3, <3>2, <3>3 DEF Flushed
    <3> QED
      BY <3>3 DEF Flushed
  <2>9. Going'
    BY <1>i, <2>2, <2>4 DEF Going
  <2> QED
    BY <2>7, <2>8, <2>9
\* A request that has decided goes on and gets the next rows.
<1>g. ASSUME NEW c \in Clients, NEW x, requests' = [requests EXCEPT ![c] = x],
             requests[c].phase \in {"decided", "moved"}, x.phase \in {"moved", "written"},
             x.kind = requests[c].kind, x.incident = requests[c].incident,
             obtainable(c), lock' = obtained(c),
             "incident" \in awaited(requests[c]) \/ requests[c].phase = "moved"
      PROVE  Goal
  <2> DEFINE q == requests[c]
  <2>2. requests'[c] = x /\ \A d \in Clients \ {c} : requests'[d] = requests[d]
    BY <1>g, <1>i
  <2>4. Accepted(x)
    BY <1>i, <1>g DEF Accepted, Going
  <2>6. \A r \in LockedRow : /\ r \in awaited(q) => lock[r] \in {FREE, c} /\ lock'[r] = c
                             /\ r \notin awaited(q) => lock'[r] = lock[r]
    BY <1>g, <1>i DEF obtainable, obtained
  <2>7. Holders'
    <3> SUFFICES ASSUME NEW r \in LockedRow, lock'[r] # FREE
                 PROVE  /\ requests'[lock'[r]].phase \in {"decided", "moved", "written", "answered"}
                        /\ requests'[lock'[r]].phase = "decided"
                             => r \in locked_first(requests'[lock'[r]])
      BY DEF Holders
    <3>1. CASE lock'[r] = c
      BY <1>g, <2>2, <3>1
    <3>2. CASE lock'[r] # c
      <4>1. lock'[r] = lock[r] /\ lock[r] \in Clients \ {c}
        BY <1>i, <2>6, <3>2
      <4> QED
        BY <1>i, <2>2, <4>1 DEF Holders
    <3> QED
      BY <3>1, <3>2
  <2>8. Flushed'
    <3>1. lock'["incident"] = c
      BY <1>g, <1>i, <2>6 DEF Flushed
    <3>2. \A d \in Clients \ {c} : requests[d].phase \notin {"moved", "written", "answered"}
      BY <1>g, <1>i, <2>6 DEF Flushed
    <3> QED
      BY <2>2, <3>1, <3>2 DEF Flushed
  <2>9. Going'
    BY <1>i, <2>2, <2>4 DEF Going
  <2> QED
    BY <2>7, <2>8, <2>9
<1>m. ASSUME NEW c \in Clients, Move(c) PROVE Goal
  <2> DEFINE x == [requests[c] EXCEPT !.phase = "moved"]
  <2>1. requests[c] \in Request /\ requests[c].phase = "decided"
    BY <1>m, <1>i DEF Move, in_phase, Idle
  <2>2. x.phase = "moved" /\ x.kind = requests[c].kind /\ x.incident = requests[c].incident
    BY <2>1 DEF Request
  <2>3. "incident" \in awaited(requests[c])
    BY <2>1, IncidentComesLater DEF awaited
  <2>4. requests' = [requests EXCEPT ![c] = x] /\ obtainable(c) /\ lock' = obtained(c)
    BY <1>m DEF Move, goes_to
  <2> HIDE DEF x
  <2> QED
    BY <1>g, <2>1, <2>2, <2>3, <2>4
<1>6. ASSUME NEW c \in Clients, Write(c) PROVE Goal
  <2> DEFINE x == [requests[c] EXCEPT !.phase = "written",
                                      !.work_orders = orders_found(requests[c])]
  <2>1. requests[c] \in Request /\ requests[c].phase = "moved"
    BY <1>6, <1>i DEF Write, in_phase, Idle
  <2>2. x.phase = "written" /\ x.kind = requests[c].kind /\ x.incident = requests[c].incident
    BY <2>1 DEF Request
  <2>3. requests' = [requests EXCEPT ![c] = x] /\ obtainable(c) /\ lock' = obtained(c)
    BY <1>6 DEF Write
  <2> HIDE DEF x
  <2> QED
    BY <1>g, <2>1, <2>2, <2>3
<1>7. ASSUME NEW c \in Clients, Answer(c) PROVE Goal
  <2> DEFINE q == requests[c]
             x == requests'[c]
  <2>1. q \in Request /\ q.phase = "written"
    BY <1>7, <1>i DEF Answer, in_phase, Idle
  <2>2. /\ x = [q EXCEPT !.phase = "answered"] /\ lock' = lock
        /\ \A d \in Clients \ {c} : requests'[d] = requests[d]
    BY <1>7, <1>i DEF Answer, goes_to
  <2>3. x.phase = "answered" /\ x.kind = q.kind /\ x.incident = q.incident
    BY <2>1, <2>2 DEF Request
  <2>4. Accepted(x)
    BY <1>i, <2>1, <2>3 DEF Accepted, Going
  <2>5. Holders' /\ Flushed'
    BY <1>i, <2>1, <2>2, <2>3 DEF Holders, Flushed
  <2>6. Going'
    BY <1>i, <2>2, <2>4 DEF Going
  <2> QED
    BY <2>5, <2>6
<1>8. ASSUME NEW c \in Clients, Commit(c) \/ Fail(c) PROVE Goal
  BY <1>8, <1>e DEF Commit, Fail, rolled_back
<1> QED
  BY <1>1, <1>2, <1>3, <1>4, <1>5, <1>6, <1>7, <1>m, <1>8 DEF Next

LEMMA AlwaysIInv == Spec => []IInv
<1>1. IInv /\ [Next]_vars => IInv'
  BY NextTyped, NextLocks DEF IInv
<1> QED
  BY <1>1, InitIInv, PTL DEF Spec

-----------------------------------------------------------------------------
\* The theorems.

\* Every variable stays in its set (models/*.py: the columns and enumerations).
THEOREM ApiTyped == Spec => []TypeOK
<1>1. IInv => TypeOK
  BY SerialTyped DEF IInv, Typed, TypeOK
<1> QED
  BY <1>1, AlwaysIInv, PTL

\* However many requests overlap, no set of them waits for each other's rows:
\* every handler flushes the proposal or the order before the incident, and the
\* parts after it.
THEOREM NobodyWaitsInACircle == Spec => []NoDeadlock
<1>1. IInv => NoDeadlock
  <2> SUFFICES ASSUME IInv, NEW waiting \in (SUBSET Clients) \ {{}}
               PROVE  \E c \in waiting :
                        \A r \in awaited(requests[c]) : lock[r] \notin waiting \ {c}
    BY DEF NoDeadlock
  <2>i. /\ requests \in [Clients -> Request \cup {Idle}]
        /\ Holders /\ Flushed /\ FREE \notin Clients
    BY ClientsAssumption DEF IInv, Typed
  <2>a. ASSUME NEW c \in Clients, NEW r \in awaited(requests[c])
        PROVE  /\ requests[c].phase \in {"read", "decided", "moved"}
               /\ r \in LockedRow
               /\ requests[c].phase = "decided" => r = "incident"
               /\ requests[c].phase = "moved" => r = "part_check"
    <3>1. requests[c].phase \in {"read", "decided", "moved"}
      BY <2>a DEF awaited
    <3>2. requests[c] \in Request
      BY <2>i, <3>1 DEF Idle
    <3>3. r \in written_rows(requests[c])
      BY <2>a DEF awaited, locked_first, locked_last
    <3>4. r \in LockedRow
      BY <3>2, <3>3 DEF Request, Kind, written_rows, LockedRow
    <3> QED
      BY <2>a, <3>1, <3>4 DEF awaited, locked_first, locked_last
  <2>b. ASSUME NEW c \in Clients, awaited(requests[c]) # {}
        PROVE  requests[c].phase \in {"read", "decided", "moved"}
    <3>1. PICK r \in awaited(requests[c]) : TRUE
      BY <2>b
    <3> QED
      BY <2>a, <3>1
  <2>1. CASE \E c \in waiting : awaited(requests[c]) = {}
    BY <2>1
  <2>2. CASE /\ \A c \in waiting : awaited(requests[c]) # {}
             /\ \E c \in waiting : requests[c].phase = "moved"
    <3>1. PICK c \in waiting : requests[c].phase = "moved"
      BY <2>2
    <3>2. ASSUME NEW r \in awaited(requests[c]), lock[r] \in waiting \ {c}
          PROVE  FALSE
      <4>1. r \in LockedRow /\ r = "part_check" /\ lock[r] \in Clients /\ lock[r] # FREE
        BY <2>a, <2>i, <3>1, <3>2
      <4>2. requests[lock[r]].phase \in {"decided", "moved"}
        BY <2>2, <2>b, <2>i, <3>2, <4>1 DEF Holders
      <4>3. requests[lock[r]].phase # "decided"
        BY <2>i, <4>1 DEF Holders, locked_first
      <4> QED
        BY <2>i, <3>1, <3>2, <4>1, <4>2, <4>3 DEF Flushed
    <3> QED
      BY <3>2
  <2>3. CASE /\ \A c \in waiting : awaited(requests[c]) # {}
             /\ \A c \in waiting : requests[c].phase # "moved"
             /\ \E c \in waiting : requests[c].phase = "decided"
    <3>1. PICK c \in waiting : requests[c].phase = "decided"
      BY <2>3
    <3>2. ASSUME NEW r \in awaited(requests[c]), lock[r] \in waiting \ {c}
          PROVE  FALSE
      <4>1. r \in LockedRow /\ r = "incident" /\ lock[r] \in Clients /\ lock[r] # FREE
        BY <2>a, <2>i, <3>1, <3>2
      <4>2. requests[lock[r]].phase = "decided"
        BY <2>3, <2>b, <2>i, <3>2, <4>1 DEF Holders
      <4> QED
        BY <2>i, <4>1, <4>2 DEF Holders, locked_first
    <3> QED
      BY <3>2
  <2>4. CASE /\ \A c \in waiting : awaited(requests[c]) # {}
             /\ \A c \in waiting : requests[c].phase \notin {"decided", "moved"}
    <3>1. \A c \in waiting : requests[c].phase = "read"
      BY <2>4, <2>b
    <3>2. \A c \in waiting : \A r \in awaited(requests[c]) : lock[r] \notin waiting \ {c}
      BY <2>i, <2>a, <3>1 DEF Holders
    <3>3. waiting # {}
      OBVIOUS
    <3> QED
      BY <3>2, <3>3
  <2> QED
    BY <2>1, <2>2, <2>3, <2>4
<1> QED
  BY <1>1, AlwaysIInv, PTL

-----------------------------------------------------------------------------
\* The trail ends where the incident is.

EndsAt(s, status) ==
  \A i \in DOMAIN s :
    /\ s[i].event_type = "workflow.transitioned"
    /\ \A j \in DOMAIN s : s[j].event_type = "workflow.transitioned" => j <= i
    => s[i].next_state = status

LEMMA TrailEnds ==
  TrailEndsAtStatus <=> EndsAt(audit, incident.workflow_status)
BY DEF TrailEndsAtStatus, EndsAt, Serial!transitions, Serial!type

LEMMA MoveEnds ==
  ASSUME NEW s, NEW status, EndsWithMoveTo(s, status)
  PROVE  EndsAt(s, status)
<1>1. Len(s) \in DOMAIN s /\ DOMAIN s = 1..Len(s) /\ Len(s) \in Nat
  BY DEF EndsWithMoveTo
<1> QED
  BY <1>1 DEF EndsAt, EndsWithMoveTo

\* A row that records no move.
LEMMA OtherEventEnds ==
  ASSUME NEW s \in Seq(AuditEvent), NEW e \in AuditEvent, NEW status,
         EndsAt(s, status), e.event_type # "workflow.transitioned"
  PROVE  EndsAt(Append(s, e), status)
<1> DEFINE l == Append(s, e)
<1>1. /\ DOMAIN l = 1..(Len(s) + 1) /\ DOMAIN s = 1..Len(s) /\ Len(s) \in Nat
      /\ l[Len(s) + 1] = e
      /\ \A i \in 1..Len(s) : l[i] = s[i]
  OBVIOUS
<1> HIDE DEF l
<1>2. EndsAt(l, status)
  BY <1>1 DEF EndsAt
<1> QED
  BY <1>2 DEF l

\* What a request commits is its move, in the row and in the trail.
LEMMA CommitMoves ==
  ASSUME IInv, NEW c \in Clients, Commit(c)
  PROVE  /\ incident'.workflow_status = result(requests[c]).workflow_status
         /\ EndsWithMoveTo(audit', incident'.workflow_status)
<1> DEFINE q == requests[c]
<1>1. q \in Request /\ Accepted(q) /\ incident \in Incident /\ audit \in Seq(AuditEvent)
  BY DEF IInv, Typed, CommittedTyped, Commit, in_phase, Idle, Going
<1>2. incident' = overwritten(incident, q.incident, result(q)) /\ audit' = audit \o trail(q)
  BY DEF Commit
<1> HIDE DEF q
<1>3. /\ result(q) \in Incident /\ q.incident \in Incident
      /\ result(q).workflow_status # q.incident.workflow_status
      /\ EndsWithMoveTo(trail(q), result(q).workflow_status)
  BY <1>1, RequestMoves DEF Request
<1>4. incident'.workflow_status = result(q).workflow_status
  BY <1>1, <1>2, <1>3, OverwrittenTyped
<1>5. EndsWithMoveTo(audit', incident'.workflow_status)
  BY <1>1, <1>2, <1>3, <1>4, MoveComesLast
<1> QED
  BY <1>4, <1>5 DEF q

\* Overlapping requests can break the chain of the recorded moves, and still
\* the last one recorded says where the incident is (workflow.py: transition
\* writes the row and its audit event in one transaction).
THEOREM TrailEndsWithTheIncident == Spec => []TrailEndsAtStatus
<1>1. Init => TrailEndsAtStatus
  <2> SUFFICES ASSUME Init PROVE EndsAt(audit, incident.workflow_status)
    BY TrailEnds
  <2>1. CASE ~row.demo
    BY <2>1 DEF Init, Serial!Init, EndsAt
  <2>2. CASE row.demo
    <3>1. incident = row.incident /\ audit = Serial!seeding_events(row)
      BY <2>2 DEF Init, Serial!Init
    <3>2. CASE row.incident.workflow_status # "approval_required"
      <4>1. audit = <<event("demo.seeded")>>
        BY <3>1, <3>2, SerialNames DEF Serial!seeding_events
      <4> QED
        BY <4>1 DEF EndsAt, event
    <3>3. CASE row.incident.workflow_status = "approval_required"
      <4> DEFINE a == <<event("demo.seeded")>>
                 e == [event_type     |-> "workflow.transitioned",
                       previous_state |-> "diagnosed",
                       next_state     |-> "approval_required"]
      <4>1. audit = a \o <<e>>
        BY <3>1, <3>3, SerialNames DEF Serial!seeding_events
      <4>2. a \in Seq(AuditEvent) /\ e \in AuditEvent
        BY EventTyped DEF EventType, AuditEvent, WorkflowStatus
      <4>3. EndsWithMoveTo(<<e>>, "approval_required")
        BY <4>2 DEF EndsWithMoveTo
      <4> HIDE DEF a, e
      <4> QED
        BY <3>1, <3>3, <4>1, <4>2, <4>3, MoveComesLast, MoveEnds
    <3> QED
      BY <3>2, <3>3
  <2> QED
    BY <2>1, <2>2
<1>2. IInv /\ TrailEndsAtStatus /\ [Next]_vars => TrailEndsAtStatus'
  <2> SUFFICES ASSUME IInv, TrailEndsAtStatus, [Next]_vars
               PROVE  EndsAt(audit', incident'.workflow_status)
    BY DEF TrailEndsAtStatus, EndsAt, Serial!transitions, Serial!type
  <2>1. CASE UNCHANGED <<audit, incident>>
    BY <2>1, TrailEnds
  <2>2. ASSUME NEW c \in Clients, RefuseOffline(c)
        PROVE  EndsAt(audit', incident'.workflow_status)
    <3> DEFINE e == event("cloud.action_blocked")
    <3>1. e \in AuditEvent /\ e.event_type # "workflow.transitioned"
      BY EventTyped DEF EventType, event
    <3>2. audit' = Append(audit, e) /\ incident' = incident /\ audit \in Seq(AuditEvent)
      BY <2>2 DEF RefuseOffline, IInv, Typed, CommittedTyped
    <3> HIDE DEF e
    <3> QED
      BY <3>1, <3>2, TrailEnds, OtherEventEnds
  <2>3. ASSUME NEW c \in Clients, Commit(c)
        PROVE  EndsAt(audit', incident'.workflow_status)
    BY <2>3, CommitMoves, MoveEnds
  <2> QED
    BY <2>1, <2>2, <2>3 DEF Next, Load, Read, Refuse, Decide, Move, Write, Answer, Fail,
       committed, vars
<1> QED
  BY <1>1, <1>2, AlwaysIInv, PTL DEF Spec

-----------------------------------------------------------------------------
\* The consoles.

\* Once a request has answered the consoles show what it will commit; else they
\* show what is committed.
Told ==
  failures = 0 =>
    /\ \A c \in Clients : requests[c].phase = "answered" =>
         console = result(requests[c]).workflow_status
    /\ (\A c \in Clients : requests[c].phase # "answered") =>
         console = incident.workflow_status

\* What a request will make of the incident depends on nothing that changes.
LEMMA SameResult ==
  ASSUME NEW d, NEW x, requests'[d] = x, row' = row
  PROVE  (result(requests[d]).workflow_status)' = result(x).workflow_status
BY DEF result, handlers

\* As long as every request that answered also commits, a console shows the
\* committed status whenever nothing is in flight (incidents.py publishes with
\* the incident locked).
THEOREM ConsolesFollow == Spec => []ConsolesFollowCommits
<1>1. Init => Told
  BY DEF Init, Told, Idle
<1>2. IInv /\ Told /\ [Next]_vars => Told'
  <2> SUFFICES ASSUME IInv, Told, [Next]_vars, failures' = 0
               PROVE  /\ \A d \in Clients : requests'[d].phase = "answered" =>
                           console' = (result(requests[d]).workflow_status)'
                      /\ (\A d \in Clients : requests'[d].phase # "answered") =>
                           console' = incident'.workflow_status
    BY DEF Told
  <2> DEFINE Goal ==
        /\ \A d \in Clients : requests'[d].phase = "answered" =>
             console' = (result(requests[d]).workflow_status)'
        /\ (\A d \in Clients : requests'[d].phase # "answered") =>
             console' = incident'.workflow_status
  <2>i. /\ requests \in [Clients -> Request \cup {Idle}]
        /\ Flushed /\ failures \in Nat
    BY RequestBoundsAssumption DEF IInv, Typed
  <2>r. row' = row
    BY DEF Next, Load, Read, Refuse, RefuseOffline, Decide, Move, Write, Answer,
           Commit, Fail, committed, vars
  \* Requests that come and go before they have answered.
  <2>u. ASSUME UNCHANGED <<console, incident, failures>>, NEW c \in Clients,
               requests[c].phase # "answered", NEW x, x.phase # "answered",
               requests' = [requests EXCEPT ![c] = x]
        PROVE  Goal
    <3>1. \A d \in Clients \ {c} :
            /\ requests'[d] = requests[d]
            /\ (result(requests[d]).workflow_status)' = result(requests[d]).workflow_status
      BY <2>u, <2>i, <2>r, SameResult
    <3>2. requests'[c].phase # "answered"
      BY <2>u, <2>i
    <3> QED
      BY <2>u, <3>1, <3>2 DEF Told
  <2>1. CASE UNCHANGED vars
    <3>1. \A d \in Clients :
            /\ requests'[d] = requests[d]
            /\ (result(requests[d]).workflow_status)' = result(requests[d]).workflow_status
      BY <2>1, <2>r, SameResult DEF vars
    <3> QED
      BY <2>1, <3>1 DEF vars, Told
  <2>2. ASSUME NEW c \in Clients, NEW kind \in Kind, Load(c, kind) PROVE Goal
    BY <2>2, <2>u DEF Load, in_phase, committed
  <2>3. ASSUME NEW c \in Clients, Read(c) PROVE Goal
    <3> DEFINE x == [requests[c] EXCEPT !.phase = "read", !.proposal = proposal,
                        !.part_checks = part_checks, !.work_orders = work_orders]
    <3>1. requests[c] \in Request /\ requests[c].phase = "loaded"
      BY <2>3, <2>i DEF Read, in_phase, Idle
    <3>2. x.phase # "answered"
      BY <3>1 DEF Request
    <3>3. requests' = [requests EXCEPT ![c] = x] /\ UNCHANGED <<console, incident, failures>>
      BY <2>3, <2>i DEF Read, committed
    <3> HIDE DEF x
    <3> QED
      BY <2>u, <3>1, <3>2, <3>3
  <2>4. ASSUME NEW c \in Clients, Refuse(c) \/ RefuseOffline(c) PROVE Goal
    BY <2>4, <2>u DEF Refuse, RefuseOffline, ends, in_phase, Idle, committed
  <2>5. ASSUME NEW c \in Clients, Decide(c) PROVE Goal
    <3> DEFINE x == [requests[c] EXCEPT !.phase = "decided"]
    <3>1. requests[c] \in Request /\ requests[c].phase = "read"
      BY <2>5, <2>i DEF Decide, in_phase, Idle
    <3>2. x.phase # "answered"
      BY <3>1 DEF Request
    <3>3. requests' = [requests EXCEPT ![c] = x] /\ UNCHANGED <<console, incident, failures>>
      BY <2>5, <2>i DEF Decide, goes_to, committed
    <3> HIDE DEF x
    <3> QED
      BY <2>u, <3>1, <3>2, <3>3
  <2>m. ASSUME NEW c \in Clients, Move(c) PROVE Goal
    <3> DEFINE x == [requests[c] EXCEPT !.phase = "moved"]
    <3>1. requests[c] \in Request /\ requests[c].phase = "decided"
      BY <2>m, <2>i DEF Move, in_phase, Idle
    <3>2. x.phase # "answered"
      BY <3>1 DEF Request
    <3>3. requests' = [requests EXCEPT ![c] = x] /\ UNCHANGED <<console, incident, failures>>
      BY <2>m, <2>i DEF Move, goes_to, committed
    <3> HIDE DEF x
    <3> QED
      BY <2>u, <3>1, <3>2, <3>3
  <2>6. ASSUME NEW c \in Clients, Write(c) PROVE Goal
    <3> DEFINE x == [requests[c] EXCEPT !.phase = "written",
                                        !.work_orders = orders_found(requests[c])]
    <3>1. requests[c] \in Request /\ requests[c].phase = "moved"
      BY <2>6, <2>i DEF Write, in_phase, Idle
    <3>2. x.phase # "answered"
      BY <3>1 DEF Request
    <3>3. requests' = [requests EXCEPT ![c] = x] /\ UNCHANGED <<console, incident, failures>>
      BY <2>6, <2>i DEF Write, committed
    <3> HIDE DEF x
    <3> QED
      BY <2>u, <3>1, <3>2, <3>3
  <2>7. ASSUME NEW c \in Clients, Answer(c) PROVE Goal
    <3>1. requests[c] \in Request /\ requests[c].phase = "written"
      BY <2>7, <2>i DEF Answer, in_phase, Idle
    <3>2. /\ requests'[c] = [requests[c] EXCEPT !.phase = "answered"]
          /\ requests'[c].phase = "answered"
          /\ \A d \in Clients \ {c} : requests'[d] = requests[d]
          /\ console' = result(requests[c]).workflow_status
      BY <2>7, <2>i, <3>1 DEF Answer, goes_to, Request, detail_status
    <3>3. \A d \in Clients \ {c} : requests'[d].phase # "answered"
      BY <2>i, <3>1, <3>2 DEF Flushed
    <3>4. (result(requests[c]).workflow_status)' = result(requests[c]).workflow_status
      <4> DEFINE x == [requests[c] EXCEPT !.phase = "answered"]
      <4>1. x.kind = requests[c].kind /\ x.incident = requests[c].incident
        BY <3>1 DEF Request
      <4>2. requests'[c] = x
        BY <3>2
      <4> HIDE DEF x
      <4>3. (result(requests[c]).workflow_status)' = result(x).workflow_status
        BY <2>r, <4>2, SameResult
      <4>4. result(x).workflow_status = result(requests[c]).workflow_status
        BY <4>1 DEF result
      <4> QED
        BY <4>3, <4>4
    <3> QED
      BY <3>2, <3>3, <3>4
  <2>8. ASSUME NEW c \in Clients, Commit(c) PROVE Goal
    <3>1. requests[c].phase = "answered" /\ failures = 0 /\ console' = console
      BY <2>8 DEF Commit, in_phase
    <3>2. incident'.workflow_status = result(requests[c]).workflow_status
      BY <2>8, CommitMoves
    <3>3. \A d \in Clients : requests'[d].phase # "answered"
      BY <2>8, <2>i, <3>1 DEF Flushed, Commit, ends, Idle
    <3> QED
      BY <3>1, <3>2, <3>3 DEF Told
  <2>9. ASSUME NEW c \in Clients, Fail(c) PROVE FALSE
    BY <2>9, <2>i DEF Fail
  <2> QED
    BY <2>1, <2>2, <2>3, <2>4, <2>5, <2>m, <2>6, <2>7, <2>8, <2>9 DEF Next
<1>3. Told => ConsolesFollowCommits
  BY DEF Told, ConsolesFollowCommits, ConsolesAgree, at_rest, in_phase
<1> QED
  BY <1>1, <1>2, <1>3, AlwaysIInv, PTL DEF Spec

-----------------------------------------------------------------------------
\* The order.

Closed == {"completed", "cancelled"}

\* An approval that has the incident knows the orders there are.
OneOrder ==
  /\ \A i \in 1..(Len(work_orders) - 1) : work_orders[i] \in Closed
  /\ \A c \in Clients :
       requests[c].kind = "approve" /\ requests[c].phase \in {"written", "answered"} =>
         requests[c].work_orders = work_orders

LEMMA OneOrderStands ==
  ASSUME CommittedTyped, OneOrder
  PROVE  AtMostOneStandingOrder
<1> DEFINE standing == {i \in DOMAIN work_orders :
                          work_orders[i] \notin {"completed", "cancelled"}}
<1>1. DOMAIN work_orders = 1..Len(work_orders) /\ Len(work_orders) \in Nat
  BY DEF CommittedTyped
<1>2. standing \subseteq {Len(work_orders)}
  BY <1>1 DEF OneOrder, Closed
<1>3. standing = {} \/ standing = {Len(work_orders)}
  BY <1>2
<1>4. Cardinality(standing) \in {0, 1}
  BY <1>3, FS_EmptySet, FS_Singleton
<1> QED
  BY <1>4 DEF AtMostOneStandingOrder

\* Whatever overlaps, an incident has one open order at most (approval.py:
\* _create_work_order looks for an order after the incident is locked).
THEOREM OneStandingOrder == Spec => []AtMostOneStandingOrder
<1>1. Init => OneOrder
  BY ApiRowsAssumption DEF Init, Serial!Init, OneOrder, Closed, Idle
<1>2. IInv /\ OneOrder /\ [Next]_vars => OneOrder'
  <2> SUFFICES ASSUME IInv, OneOrder, [Next]_vars PROVE OneOrder'
    OBVIOUS
  <2>i. /\ requests \in [Clients -> Request \cup {Idle}]
        /\ work_orders \in Seq(WorkOrderStatus)
        /\ lock \in [LockedRow -> Clients \cup {FREE}] /\ FREE \notin Clients
        /\ Flushed /\ "incident" \in LockedRow
    BY ClientsAssumption DEF IInv, Typed, CommittedTyped, LockedRow
  \* One request goes on, and commits nothing.
  <2>u. ASSUME NEW c \in Clients, work_orders' = work_orders,
               \A d \in Clients \ {c} : requests'[d] = requests[d],
               \/ requests'[c].phase \notin {"written", "answered"}
               \/ requests'[c].kind = "approve" => requests'[c].work_orders = work_orders
        PROVE  OneOrder'
    BY <2>u DEF OneOrder
  <2>1. CASE UNCHANGED vars
    BY <2>1 DEF vars, OneOrder
  <2>2. ASSUME NEW c \in Clients, NEW kind \in Kind, Load(c, kind) PROVE OneOrder'
    BY <2>2, <2>i, <2>u DEF Load, committed
  <2>3. ASSUME NEW c \in Clients, Read(c) PROVE OneOrder'
    <3>1. requests[c] \in Request
      BY <2>3, <2>i DEF Read, in_phase, Idle
    <3>2. requests'[c].phase = "read"
      BY <2>3, <2>i, <3>1 DEF Read, Request
    <3> QED
      BY <2>3, <2>i, <2>u, <3>2 DEF Read, committed
  <2>4. ASSUME NEW c \in Clients, Refuse(c) \/ RefuseOffline(c) \/ Fail(c) PROVE OneOrder'
    BY <2>4, <2>i, <2>u DEF Refuse, RefuseOffline, Fail, ends, Idle, committed
  <2>5. ASSUME NEW c \in Clients, Decide(c) PROVE OneOrder'
    <3>1. requests[c] \in Request
      BY <2>5, <2>i DEF Decide, in_phase, Idle
    <3>2. requests'[c].phase = "decided"
      BY <2>5, <2>i, <3>1 DEF Decide, goes_to, Request
    <3>3. \A d \in Clients \ {c} : requests'[d] = requests[d]
      BY <2>5, <2>i DEF Decide, goes_to
    <3>4. work_orders' = work_orders
      BY <2>5 DEF Decide, committed
    <3> QED
      BY <2>u, <3>2, <3>3, <3>4
  <2>m. ASSUME NEW c \in Clients, Move(c) PROVE OneOrder'
    <3>1. requests[c] \in Request
      BY <2>m, <2>i DEF Move, in_phase, Idle
    <3>2. requests'[c].phase = "moved"
      BY <2>m, <2>i, <3>1 DEF Move, goes_to, Request
    <3>3. \A d \in Clients \ {c} : requests'[d] = requests[d]
      BY <2>m, <2>i DEF Move, goes_to
    <3>4. work_orders' = work_orders
      BY <2>m DEF Move, committed
    <3> QED
      BY <2>u, <3>2, <3>3, <3>4
  <2>6. ASSUME NEW c \in Clients, Write(c) PROVE OneOrder'
    <3>1. requests[c] \in Request
      BY <2>6, <2>i DEF Write, in_phase, Idle
    <3>2. requests'[c].kind = "approve" => requests'[c].work_orders = work_orders
      BY <2>6, <2>i, <3>1 DEF Write, Request, orders_found
    <3>3. \A d \in Clients \ {c} : requests'[d] = requests[d]
      BY <2>6, <2>i DEF Write
    <3>4. work_orders' = work_orders
      BY <2>6 DEF Write, committed
    <3> QED
      BY <2>u, <3>2, <3>3, <3>4
  <2>7. ASSUME NEW c \in Clients, Answer(c) PROVE OneOrder'
    <3>1. requests[c] \in Request /\ requests[c].phase = "written"
      BY <2>7, <2>i DEF Answer, in_phase, Idle
    <3>2. requests'[c].kind = "approve" => requests'[c].work_orders = work_orders
      BY <2>7, <2>i, <3>1 DEF Answer, goes_to, Request, OneOrder
    <3>3. \A d \in Clients \ {c} : requests'[d] = requests[d]
      BY <2>7, <2>i DEF Answer, goes_to
    <3>4. work_orders' = work_orders
      BY <2>7 DEF Answer, committed
    <3> QED
      BY <2>u, <3>2, <3>3, <3>4
  <2>8. ASSUME NEW c \in Clients, Commit(c) PROVE OneOrder'
    <3>1. requests[c].phase = "answered" /\ work_orders' = committed_orders(requests[c])
      BY <2>8 DEF Commit, in_phase
    <3>2. \A d \in Clients : requests'[d].phase \notin {"written", "answered"}
      BY <2>8, <2>i, <3>1 DEF Flushed, Commit, ends, Idle
    <3>3. CASE requests[c].kind = "outcome"
      <4> DEFINE n == Len(requests[c].work_orders)
      <4>1. work_orders' = [work_orders EXCEPT ![n] = "completed"]
        BY <3>1, <3>3 DEF committed_orders
      <4>2. "completed" \in WorkOrderStatus
        BY DEF WorkOrderStatus
      <4> HIDE DEF n
      <4>3. /\ Len(work_orders') = Len(work_orders) /\ Len(work_orders) \in Nat
            /\ \A i \in 1..Len(work_orders) :
                 work_orders'[i] = IF i = n THEN "completed" ELSE work_orders[i]
        BY <2>i, <4>1, <4>2, ReplacedRow
      <4> QED
        BY <3>2, <4>3 DEF OneOrder, Closed
    <3>4. CASE requests[c].kind = "approve" /\ ~reuses_order(requests[c].work_orders)
      <4>1. requests[c].work_orders = work_orders
        BY <3>1, <3>4 DEF OneOrder
      <4>2. work_orders' = Append(work_orders, "open")
        BY <3>1, <3>4 DEF committed_orders
      <4>3. \A i \in 1..Len(work_orders) : work_orders[i] \in Closed
        BY <2>i, <3>4, <4>1 DEF reuses_order, OneOrder, Closed
      <4>4. /\ Len(work_orders') = Len(work_orders) + 1 /\ Len(work_orders) \in Nat
            /\ \A i \in 1..Len(work_orders) : work_orders'[i] = work_orders[i]
        BY <2>i, <4>2
      <4> QED
        BY <3>2, <4>3, <4>4 DEF OneOrder
    <3>5. CASE /\ requests[c].kind # "outcome"
               /\ ~(requests[c].kind = "approve" /\ ~reuses_order(requests[c].work_orders))
      BY <3>1, <3>2, <3>5 DEF OneOrder, committed_orders
    <3> QED
      BY <3>3, <3>4, <3>5
  <2> QED
    BY <2>1, <2>2, <2>3, <2>4, <2>5, <2>m, <2>6, <2>7, <2>8 DEF Next
<1>3. IInv /\ OneOrder => AtMostOneStandingOrder
  BY OneOrderStands DEF IInv, Typed
<1> QED
  BY <1>1, <1>2, <1>3, AlwaysIInv, PTL DEF Spec
=============================================================================
