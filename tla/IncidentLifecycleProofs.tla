----------------------- MODULE IncidentLifecycleProofs ----------------------
(***************************************************************************)
(* What IncidentLifecycle promises for every set of rows that satisfies    *)
(* RowsAssumption, every set of parts and every bound.                     *)
(***************************************************************************)
EXTENDS IncidentLifecycle, SequenceTheorems, TLAPS

-----------------------------------------------------------------------------
\* Lemmas about the pure operators.

\* A move keeps a row well typed.
LEMMA MovedType ==
  ASSUME NEW i \in Incident, NEW target \in WorkflowStatus
  PROVE  moved(i, target) \in Incident
BY DEF moved, Incident, WorkflowStatus, ReviewReason, NO_REASON

\* A move ends where it was asked to go, keeps the cloud flag, and does not
\* leave a review reason behind outside human_review.
LEMMA MovedFields ==
  ASSUME NEW i \in Incident, NEW target \in WorkflowStatus
  PROVE  /\ moved(i, target).workflow_status = target
         /\ moved(i, target).cloud_available = i.cloud_available
BY DEF moved, Incident

\* Single audit rows and transition rows are sequences of audit rows.
LEMMA EventType1 ==
  ASSUME NEW e \in EventType
  PROVE  event(e) \in AuditEvent /\ <<event(e)>> \in Seq(AuditEvent)
BY DEF event, AuditEvent

LEMMA TransitionEventsType ==
  ASSUME NEW i \in Incident, NEW target \in WorkflowStatus
  PROVE  transition_events(i, target) \in Seq(AuditEvent)
<1> DEFINE e == [event_type     |-> "workflow.transitioned",
                 previous_state |-> i.workflow_status,
                 next_state     |-> target]
<1>1. e \in AuditEvent
  BY DEF AuditEvent, Incident, EventType
<1>2. <<e>> \in Seq(AuditEvent) /\ <<>> \in Seq(AuditEvent)
  BY <1>1
<1> QED
  BY <1>2 DEF transition_events

\* The trails of the requests are sequences of audit rows.
LEMMA ApprovalTrailType ==
  ASSUME NEW i \in Incident, NEW checks
  PROVE  approval_trail(i, checks) \in Seq(AuditEvent)
<1> DEFINE a == <<event("approval.created")>>
           b == transition_events(i, "approved")
           c == IF unreserved(checks) # {} THEN <<event("part.reserved")>> ELSE <<>>
           d == <<event("work_order.created")>>
           e == transition_events(moved(i, "approved"), "work_order_live")
<1>1. a \in Seq(AuditEvent) /\ d \in Seq(AuditEvent)
  BY EventType1 DEF EventType
<1>2. c \in Seq(AuditEvent)
  <2>1. <<event("part.reserved")>> \in Seq(AuditEvent)
    BY EventType1 DEF EventType
  <2>2. << >> \in Seq(AuditEvent)
    OBVIOUS
  <2> QED
    BY <2>1, <2>2
<1>3. b \in Seq(AuditEvent) /\ e \in Seq(AuditEvent)
  BY TransitionEventsType, MovedType DEF WorkflowStatus
<1> HIDE DEF a, b, c, d, e
<1>4. a \o b \o c \o d \o e \in Seq(AuditEvent)
  BY <1>1, <1>2, <1>3
<1> QED
  BY <1>4 DEF approval_trail, a, b, c, d, e

LEMMA RejectionTrailType ==
  ASSUME NEW i \in Incident
  PROVE  rejection_trail(i) \in Seq(AuditEvent)
<1> DEFINE a == <<event("approval.rejected")>>
           b == transition_events(i, "rejected")
           c == transition_events(moved(i, "rejected"), "watch")
<1>1. a \in Seq(AuditEvent)
  BY EventType1 DEF EventType
<1>2. b \in Seq(AuditEvent) /\ c \in Seq(AuditEvent)
  BY TransitionEventsType, MovedType DEF WorkflowStatus
<1> HIDE DEF a, b, c
<1>3. a \o b \o c \in Seq(AuditEvent)
  BY <1>1, <1>2
<1> QED
  BY <1>3 DEF rejection_trail, a, b, c

LEMMA SeedingEventsType ==
  ASSUME NEW r
  PROVE  seeding_events(r) \in Seq(AuditEvent)
<1> DEFINE a == <<event("demo.seeded")>>
           t == [event_type     |-> "workflow.transitioned",
                 previous_state |-> "diagnosed",
                 next_state     |-> "approval_required"]
           b == IF r.incident.workflow_status = "approval_required" THEN <<t>> ELSE <<>>
<1>1. a \in Seq(AuditEvent)
  BY EventType1 DEF EventType
<1>2. b \in Seq(AuditEvent)
  <2>1. t \in AuditEvent
    BY DEF AuditEvent, EventType, WorkflowStatus
  <2>2. <<t>> \in Seq(AuditEvent) /\ << >> \in Seq(AuditEvent)
    BY <2>1
  <2> QED
    BY <2>2
<1> HIDE DEF a, b
<1>3. a \o b \in Seq(AuditEvent)
  BY <1>1, <1>2
<1> QED
  BY <1>3 DEF seeding_events, a, b

\* Reserving, planning, ordering and completing keep rows well typed.
LEMMA ReservedType ==
  ASSUME NEW checks \in PartChecks
  PROVE  reserved(checks) \in PartChecks
BY DEF reserved, PartChecks, PartCheckStatus

LEMMA PlannedChecksType ==
  ASSUME NEW checks \in PartChecks, NEW after \in planned_checks(checks)
  PROVE  after \in PartChecks
BY DEF planned_checks, PartChecks, PartCheckStatus

LEMMA OrderedType ==
  ASSUME NEW orders \in Seq(WorkOrderStatus)
  PROVE  ordered(orders) \in Seq(WorkOrderStatus)
BY DEF ordered, WorkOrderStatus

LEMMA CompletedType ==
  ASSUME NEW orders \in Seq(WorkOrderStatus), orders # << >>
  PROVE  completed(orders) \in Seq(WorkOrderStatus)
BY DEF completed, WorkOrderStatus

\* Routing to review gives the row a reason and keeps it well typed.
LEMMA RoutedToReview ==
  ASSUME NEW i \in Incident, i.workflow_status = "diagnosed",
         NEW reason \in ReviewReason
  PROVE  /\ routed_to_review(i, reason) \in Incident
         /\ routed_to_review(i, reason).workflow_status = "human_review"
         /\ routed_to_review(i, reason).human_review_reason = reason
BY DEF routed_to_review, moved, Incident, WorkflowStatus

LEMMA ReviewReasonType ==
  ASSUME NEW d
  PROVE  human_review_reason(d) \in ReviewReason \cup {NO_REASON}
BY DEF human_review_reason, ReviewReason

LEMMA ReseededType ==
  ASSUME NEW r \in Row, NEW i \in Incident
  PROVE  reseeded(r, i) \in Incident
BY DEF reseeded, Row, Incident

-----------------------------------------------------------------------------
\* Type correctness.

\* Every column of every row keeps the type its model in backend/app/models
\* declares, whatever requests and reseeds are made.
THEOREM TypeCorrect == Spec => []TypeOK
<1>1. Init => TypeOK
  <2> SUFFICES ASSUME Init PROVE TypeOK
    OBVIOUS
  <2>1. row \in Rows /\ row \in Row
    BY RowsAssumption DEF Init
  <2>2. incident \in Incident /\ proposal \in Proposal /\ part_checks \in PartChecks
        /\ work_orders \in Seq(WorkOrderStatus)
    BY <2>1 DEF Init, Row
  <2>3. decisions \in Seq(Decision) /\ outcomes \in TechnicianOutcomes
    BY DEF Init, TechnicianOutcomes
  <2>4. agent_runs \in AgentRuns
    BY DEF Init, seeded_runs, AgentRuns
  <2>5. audit \in Seq(AuditEvent)
    BY SeedingEventsType DEF Init
  <2> QED
    BY <2>1, <2>2, <2>3, <2>4, <2>5 DEF TypeOK
<1>2. TypeOK /\ [Next]_vars => TypeOK'
  <2> SUFFICES ASSUME TypeOK, [Next]_vars PROVE TypeOK'
    OBVIOUS
  <2> USE DEF TypeOK
  <2>r. row \in Row
    BY RowsAssumption
  <2>1. CASE Approve
    <3>1. moved(moved(incident, "approved"), "work_order_live") \in Incident
      BY MovedType DEF WorkflowStatus
    <3>2. "approved" \in Proposal
      BY DEF Proposal, ProposalStatus
    <3>3. Append(decisions, [decision |-> "approved", used_at |-> TRUE]) \in Seq(Decision)
      BY DEF Decision
    <3>4. audit \o approval_trail(incident, part_checks) \in Seq(AuditEvent)
      BY ApprovalTrailType
    <3> QED
      BY <2>1, <3>1, <3>2, <3>3, <3>4, ReservedType, OrderedType DEF Approve
  <2>2. CASE BlockedApproval
    <3>1. Append(audit, event("cloud.action_blocked")) \in Seq(AuditEvent)
      BY EventType1 DEF EventType
    <3> QED
      BY <2>2, <3>1 DEF BlockedApproval
  <2>3. CASE Reject
    <3>1. moved(moved(incident, "rejected"), "watch") \in Incident
      BY MovedType DEF WorkflowStatus
    <3>2. "rejected" \in Proposal
      BY DEF Proposal, ProposalStatus
    <3>3. Append(decisions, [decision |-> "rejected", used_at |-> FALSE]) \in Seq(Decision)
      BY DEF Decision
    <3>4. audit \o rejection_trail(incident) \in Seq(AuditEvent)
      BY RejectionTrailType
    <3> QED
      BY <2>3, <3>1, <3>2, <3>3, <3>4 DEF Reject
  <2>4. CASE Escalate
    <3>1. ran({"sentinel"}) \in AgentRuns
      BY DEF ran, AgentRuns
    <3>2. audit \o transition_events(incident, "escalated") \in Seq(AuditEvent)
      BY TransitionEventsType DEF WorkflowStatus
    <3>3. moved(incident, "escalated") \in Incident
      BY MovedType DEF WorkflowStatus
    <3> QED
      BY <2>4, <3>1, <3>2, <3>3 DEF Escalate
  <2>5. CASE Diagnose
    <3>1. ran({"diagnosis"}) \in AgentRuns
      BY DEF ran, AgentRuns
    <3>2. audit \o transition_events(incident, "diagnosed") \in Seq(AuditEvent)
      BY TransitionEventsType DEF WorkflowStatus
    <3>3. moved(incident, "diagnosed") \in Incident
      BY MovedType DEF WorkflowStatus
    <3> QED
      BY <2>5, <3>1, <3>2, <3>3 DEF Diagnose
  <2>6. CASE RouteToReview
    <3>1. routed_to_review(incident, human_review_reason(row.diagnosis)) \in Incident
      BY <2>6, ReviewReasonType, RoutedToReview DEF RouteToReview
    <3>2. audit \o transition_events(incident, "human_review") \in Seq(AuditEvent)
      BY TransitionEventsType DEF WorkflowStatus
    <3> QED
      BY <2>6, <3>1, <3>2 DEF RouteToReview
  <2>7. CASE RouteToApproval
    <3>1. ran(IF part_checks = no_part_checks THEN {"parts"} ELSE {})
            \in AgentRuns
      BY DEF ran, AgentRuns
    <3>2. audit \o transition_events(incident, "approval_required") \in Seq(AuditEvent)
      BY TransitionEventsType DEF WorkflowStatus
    <3>3. moved(incident, "approval_required") \in Incident
      BY MovedType DEF WorkflowStatus
    <3>4. part_checks' \in PartChecks
      BY <2>7, PlannedChecksType DEF RouteToApproval
    <3> QED
      BY <2>7, <3>1, <3>2, <3>3, <3>4 DEF RouteToApproval
  <2>8. CASE DispatchWorkOrder
    <3>1. audit \o transition_events(incident, "work_order_live") \in Seq(AuditEvent)
      BY TransitionEventsType DEF WorkflowStatus
    <3>2. moved(incident, "work_order_live") \in Incident
      BY MovedType DEF WorkflowStatus
    <3> QED
      BY <2>8, <3>1, <3>2 DEF DispatchWorkOrder
  <2>9. CASE BlockedStep
    <3>1. Append(audit, event("cloud.action_blocked")) \in Seq(AuditEvent)
      BY EventType1 DEF EventType
    <3> QED
      BY <2>9, <3>1 DEF BlockedStep
  <2>10. CASE CaptureOutcome
    <3>1. work_orders # << >>
      BY <2>10 DEF CaptureOutcome, outcome_refusal
    <3>2. completed(work_orders) \in Seq(WorkOrderStatus)
      BY <3>1, CompletedType
    <3>3. Append(outcomes, Len(work_orders)) \in TechnicianOutcomes
      BY DEF TechnicianOutcomes
    <3>4. moved(incident, "resolved") \in Incident
      BY MovedType DEF WorkflowStatus
    <3>5. <<event("outcome.captured")>> \in Seq(AuditEvent)
          /\ transition_events(incident, "resolved") \in Seq(AuditEvent)
      BY EventType1, TransitionEventsType DEF EventType, WorkflowStatus
    <3>6. audit \o <<event("outcome.captured")>> \o transition_events(incident, "resolved")
            \in Seq(AuditEvent)
      BY <3>5
    <3> QED
      BY <2>10, <3>2, <3>3, <3>4, <3>6 DEF CaptureOutcome
  <2>11. CASE Reseed
    <3>1. reseeded(row, incident) \in Incident
      BY <2>r, ReseededType
    <3>2. row.proposal \in Proposal /\ row.part_checks \in PartChecks
          /\ row.work_orders \in Seq(WorkOrderStatus)
      BY <2>r DEF Row
    <3>3. << >> \in Seq(Decision) /\ << >> \in TechnicianOutcomes
      BY DEF TechnicianOutcomes
    <3>4. seeded_runs(row) \in AgentRuns
      BY DEF seeded_runs, AgentRuns
    <3>5. audit \o seeding_events(row) \in Seq(AuditEvent)
      BY SeedingEventsType
    <3> QED
      BY <2>11, <3>1, <3>2, <3>3, <3>4, <3>5 DEF Reseed
  <2>12. CASE UNCHANGED vars
    BY <2>12 DEF vars
  <2> QED
    BY <2>1, <2>2, <2>3, <2>4, <2>5, <2>6, <2>7, <2>8, <2>9, <2>10, <2>11, <2>12
       DEF Next, NextStep
<1> QED
  BY <1>1, <1>2, PTL DEF Spec

-----------------------------------------------------------------------------
\* The approval gate.

\* While an incident is on the locked side of the gate no part is held for it
\* and no order stands (services/workflow.py, the core rule).  The invariant is
\* inductive once types are known: the only way back to the locked side is a
\* reseed, which rewrites the rows, and the parts agent only ever adds a check
\* that reserves nothing.
THEOREM GateSafe == Spec => []NothingHeldBeforeApproval
<1>1. Init => NothingHeldBeforeApproval
  <2> SUFFICES ASSUME Init PROVE NothingHeldBeforeApproval
    OBVIOUS
  <2>1. row \in Rows
    BY DEF Init
  <2>2. row.incident.workflow_status \in Locked =>
          /\ \A p \in Parts : row.part_checks[p] # "reserved"
          /\ \A i \in DOMAIN row.work_orders : row.work_orders[i] = "cancelled"
    BY <2>1, RowsAssumption DEF Locked
  <2> QED
    BY <2>2 DEF Init, NothingHeldBeforeApproval
<1>2. TypeOK /\ NothingHeldBeforeApproval /\ [Next]_vars => NothingHeldBeforeApproval'
  <2> SUFFICES ASSUME TypeOK, NothingHeldBeforeApproval, [Next]_vars
               PROVE  NothingHeldBeforeApproval'
    OBVIOUS
  <2>i. incident \in Incident /\ part_checks \in PartChecks
    BY DEF TypeOK
  <2>1. CASE Approve
    <3>1. moved(incident, "approved") \in Incident
      BY <2>i, MovedType DEF WorkflowStatus
    <3>2. incident'.workflow_status = "work_order_live"
      BY <2>1, <3>1, MovedFields DEF Approve, WorkflowStatus
    <3> QED
      BY <3>2 DEF NothingHeldBeforeApproval, Locked
  <2>2. CASE BlockedApproval \/ BlockedStep \/ UNCHANGED vars
    BY <2>2 DEF BlockedApproval, BlockedStep, vars, NothingHeldBeforeApproval
  <2>3. CASE Reject
    <3>1. incident.workflow_status \in Locked
      BY <2>3 DEF Reject, rejection_refusal, Locked
    <3> QED
      BY <2>3, <3>1 DEF Reject, NothingHeldBeforeApproval
  <2>4. CASE Escalate \/ Diagnose \/ RouteToReview
    <3>1. incident.workflow_status \in Locked
      BY <2>4 DEF Escalate, Diagnose, RouteToReview, Locked
    <3>2. part_checks' = part_checks /\ work_orders' = work_orders
      BY <2>4 DEF Escalate, Diagnose, RouteToReview
    <3> QED
      BY <3>1, <3>2 DEF NothingHeldBeforeApproval
  <2>5. CASE RouteToApproval
    <3>1. incident.workflow_status \in Locked
      BY <2>5 DEF RouteToApproval, Locked
    <3>2. part_checks' \in planned_checks(part_checks) /\ work_orders' = work_orders
      BY <2>5 DEF RouteToApproval
    <3>3. \A p \in Parts : part_checks'[p] # "reserved"
      BY <2>i, <3>1, <3>2 DEF NothingHeldBeforeApproval, planned_checks, PartChecks
    <3> QED
      BY <3>1, <3>2, <3>3 DEF NothingHeldBeforeApproval
  <2>6. CASE DispatchWorkOrder
    <3>1. incident'.workflow_status = "work_order_live"
      BY <2>i, <2>6, MovedFields DEF DispatchWorkOrder, WorkflowStatus
    <3> QED
      BY <3>1 DEF NothingHeldBeforeApproval, Locked
  <2>7. CASE CaptureOutcome
    <3>1. incident'.workflow_status = "resolved"
      BY <2>i, <2>7, MovedFields DEF CaptureOutcome, WorkflowStatus
    <3> QED
      BY <3>1 DEF NothingHeldBeforeApproval, Locked
  <2>8. CASE Reseed
    <3>1. row \in Row /\ row \in Rows
      BY RowsAssumption DEF TypeOK
    <3>2. incident'.workflow_status = row.incident.workflow_status
      BY <2>8, <3>1 DEF Reseed, reseeded, Row, Incident
    <3>3. row.incident.workflow_status \in Locked =>
            /\ \A p \in Parts : row.part_checks[p] # "reserved"
            /\ \A i \in DOMAIN row.work_orders : row.work_orders[i] = "cancelled"
      BY <3>1, RowsAssumption DEF Locked
    <3>4. part_checks' = row.part_checks /\ work_orders' = row.work_orders
      BY <2>8 DEF Reseed
    <3> QED
      BY <3>2, <3>3, <3>4 DEF NothingHeldBeforeApproval
  <2> QED
    BY <2>1, <2>2, <2>3, <2>4, <2>5, <2>6, <2>7, <2>8 DEF Next, NextStep
<1> QED
  BY <1>1, <1>2, TypeCorrect, PTL DEF Spec

-----------------------------------------------------------------------------
\* The review reason.

\* What the seed script relies on: a seeded incident whose scenario names no
\* review reason never acquires one, so leaving the column alone is harmless.
SeedNeverInReview ==
  row.demo /\ row.incident.human_review_reason = NO_REASON
    => incident.human_review_reason = NO_REASON

ReviewInv == ReviewReasonIffInReview /\ SeedNeverInReview

\* A move to anything but human_review clears the reason.
LEMMA MovedClears ==
  ASSUME NEW i \in Incident, NEW target \in WorkflowStatus \ {"human_review"},
         i.workflow_status # target
  PROVE  moved(i, target).human_review_reason = NO_REASON
BY DEF moved, Incident

\* An incident carries a review reason exactly while it is in human_review
\* (services/workflow.py: the reason only describes the review the incident is
\* in right now), through reseeds that leave the column alone.
THEOREM ReasonMatchesReview == Spec => []ReviewReasonIffInReview
<1>1. Init => ReviewInv
  <2> SUFFICES ASSUME Init PROVE ReviewInv
    OBVIOUS
  <2>1. row \in Rows
    BY DEF Init
  <2> QED
    BY <2>1, RowsAssumption
       DEF Init, ReviewInv, ReviewReasonIffInReview, SeedNeverInReview
<1>2. TypeOK /\ ReviewInv /\ [Next]_vars => ReviewInv'
  <2> SUFFICES ASSUME TypeOK, ReviewInv, [Next]_vars PROVE ReviewInv'
    OBVIOUS
  <2>i. incident \in Incident /\ row \in Row /\ row \in Rows
    BY RowsAssumption DEF TypeOK
  \* Enough for every step that moves the incident away from review.
  <2>a. ASSUME row' = row, incident'.workflow_status # "human_review",
               incident'.human_review_reason = NO_REASON
        PROVE  ReviewInv'
    BY <2>a DEF ReviewInv, ReviewReasonIffInReview, SeedNeverInReview
  <2>1. CASE Approve
    <3>1. moved(incident, "approved") \in Incident
          /\ moved(incident, "approved").workflow_status = "approved"
      BY <2>i, MovedType, MovedFields DEF WorkflowStatus
    <3>2. incident'.workflow_status = "work_order_live"
          /\ incident'.human_review_reason = NO_REASON
      BY <2>1, <3>1, MovedFields, MovedClears DEF Approve, WorkflowStatus
    <3> QED
      BY <2>1, <2>a, <3>2 DEF Approve
  <2>2. CASE BlockedApproval \/ BlockedStep \/ UNCHANGED vars
    BY <2>2 DEF BlockedApproval, BlockedStep, vars, ReviewInv,
                ReviewReasonIffInReview, SeedNeverInReview
  <2>3. CASE Reject
    <3>1. moved(incident, "rejected") \in Incident
          /\ moved(incident, "rejected").workflow_status = "rejected"
      BY <2>i, MovedType, MovedFields DEF WorkflowStatus
    <3>2. incident'.workflow_status = "watch"
          /\ incident'.human_review_reason = NO_REASON
      BY <2>3, <3>1, MovedFields, MovedClears DEF Reject, WorkflowStatus
    <3> QED
      BY <2>3, <2>a, <3>2 DEF Reject
  <2>4. CASE Escalate
    <3>1. incident'.workflow_status = "escalated"
          /\ incident'.human_review_reason = NO_REASON
      BY <2>i, <2>4, MovedFields, MovedClears DEF Escalate, WorkflowStatus
    <3> QED
      BY <2>4, <2>a, <3>1 DEF Escalate
  <2>5. CASE Diagnose
    <3>1. incident'.workflow_status = "diagnosed"
          /\ incident'.human_review_reason = NO_REASON
      BY <2>i, <2>5, MovedFields, MovedClears DEF Diagnose, WorkflowStatus
    <3> QED
      BY <2>5, <2>a, <3>1 DEF Diagnose
  <2>6. CASE RouteToReview
    <3>1. human_review_reason(row.diagnosis) \in ReviewReason
      BY <2>6, ReviewReasonType DEF RouteToReview
    <3>2. incident'.workflow_status = "human_review"
          /\ incident'.human_review_reason = human_review_reason(row.diagnosis)
      BY <2>i, <2>6, <3>1, RoutedToReview DEF RouteToReview
    <3>3. human_review_reason(row.diagnosis) # NO_REASON /\ row' = row
      BY <2>6 DEF RouteToReview
    <3>4. ~(row.demo /\ row.incident.human_review_reason = NO_REASON)
      BY <2>i, <3>3, RowsAssumption
    <3> QED
      BY <3>2, <3>3, <3>4 DEF ReviewInv, ReviewReasonIffInReview, SeedNeverInReview
  <2>7. CASE RouteToApproval
    <3>1. incident'.workflow_status = "approval_required"
          /\ incident'.human_review_reason = NO_REASON
      BY <2>i, <2>7, MovedFields, MovedClears DEF RouteToApproval, WorkflowStatus
    <3> QED
      BY <2>7, <2>a, <3>1 DEF RouteToApproval
  <2>8. CASE DispatchWorkOrder
    <3>1. incident'.workflow_status = "work_order_live"
          /\ incident'.human_review_reason = NO_REASON
      BY <2>i, <2>8, MovedFields, MovedClears DEF DispatchWorkOrder, WorkflowStatus
    <3> QED
      BY <2>8, <2>a, <3>1 DEF DispatchWorkOrder
  <2>9. CASE CaptureOutcome
    <3>1. incident.workflow_status = "work_order_live"
      BY <2>9 DEF CaptureOutcome, outcome_refusal
    <3>2. incident'.workflow_status = "resolved"
          /\ incident'.human_review_reason = NO_REASON
      BY <2>i, <2>9, <3>1, MovedFields, MovedClears DEF CaptureOutcome, WorkflowStatus
    <3> QED
      BY <2>9, <2>a, <3>2 DEF CaptureOutcome
  <2>10. CASE Reseed
    <3>1. /\ row' = row /\ row.demo
          /\ incident'.workflow_status = row.incident.workflow_status
          /\ incident'.human_review_reason =
               IF row.incident.human_review_reason = NO_REASON
               THEN incident.human_review_reason
               ELSE row.incident.human_review_reason
      BY <2>i, <2>10 DEF Reseed, reseeded, Row, Incident
    <3>2. row.incident.human_review_reason # NO_REASON
            <=> row.incident.workflow_status = "human_review"
      BY <2>i, RowsAssumption
    <3> QED
      BY <3>1, <3>2 DEF ReviewInv, ReviewReasonIffInReview, SeedNeverInReview
  <2> QED
    BY <2>1, <2>2, <2>3, <2>4, <2>5, <2>6, <2>7, <2>8, <2>9, <2>10 DEF Next, NextStep
<1>3. ReviewInv => ReviewReasonIffInReview
  BY DEF ReviewInv
<1> QED
  BY <1>1, <1>2, <1>3, TypeCorrect, PTL DEF Spec

-----------------------------------------------------------------------------
\* The order and the outcome of a seeded incident.

\* Where a seeded incident's orders and outcomes are: nothing stands before the
\* approval, the last order stands while the incident is live, and the one
\* outcome comes with the end.
OrdersInStep ==
  /\ incident.workflow_status # "approved"
  /\ incident.workflow_status \in Locked =>
       outcomes = <<>> /\ \A i \in DOMAIN work_orders : work_orders[i] = "cancelled"
  /\ incident.workflow_status = "work_order_live" =>
       /\ outcomes = <<>>
       /\ work_orders # <<>>
       /\ work_orders[Len(work_orders)] \notin {"completed", "cancelled"}
       /\ \A i \in 1..(Len(work_orders) - 1) : work_orders[i] = "cancelled"
  /\ incident.workflow_status = "resolved" =>
       /\ Len(outcomes) = 1
       /\ \A i \in DOMAIN work_orders : work_orders[i] \in {"completed", "cancelled"}

OrderInv == row.demo => OrdersInStep

\* An order is appended to orders that are all cancelled.
LEMMA OrderedAppends ==
  ASSUME NEW orders \in Seq(WorkOrderStatus),
         \A i \in DOMAIN orders : orders[i] = "cancelled"
  PROVE  ordered(orders) = Append(orders, "open")
BY DEF ordered, reuses_order

\* For a seeded incident order, outcome and status move together: the services
\* write the three in the same request (approval.py, outcome.py), and the seed
\* script takes all of them back (demo.py).
THEOREM OrderAndStatusAgree == Spec => []OrderFollowsIncident
<1>1. Init => OrderInv
  <2> SUFFICES ASSUME Init, row.demo PROVE OrdersInStep
    BY DEF OrderInv
  <2>1. row \in Rows /\ row \in Row
    BY RowsAssumption DEF Init
  <2> QED
    BY <2>1, RowsAssumption DEF Init, OrdersInStep, Locked
<1>2. TypeOK /\ OrderInv /\ [Next]_vars => OrderInv'
  <2> SUFFICES ASSUME TypeOK, OrderInv, [Next]_vars, row'.demo PROVE OrdersInStep'
    BY DEF OrderInv
  <2>r. row' = row
    BY DEF Next, NextStep, Approve, BlockedApproval, Reject, Escalate, Diagnose,
           RouteToReview, RouteToApproval, DispatchWorkOrder, BlockedStep,
           CaptureOutcome, Reseed, vars
  <2>i. /\ incident \in Incident /\ row \in Row /\ row \in Rows
        /\ work_orders \in Seq(WorkOrderStatus)
        /\ row.demo /\ OrdersInStep
    BY <2>r, RowsAssumption DEF TypeOK, OrderInv
  \* Enough for every step on the locked side of the gate.
  <2>a. ASSUME incident.workflow_status \in Locked, incident'.workflow_status \in Locked,
               work_orders' = work_orders, outcomes' = outcomes
        PROVE  OrdersInStep'
    BY <2>a, <2>i DEF OrdersInStep, Locked
  <2>1. CASE Approve
    <3>1. incident.workflow_status = "approval_required"
      BY <2>1 DEF Approve, approval_refusal
    <3>2. incident'.workflow_status = "work_order_live"
      BY <2>i, <2>1, MovedType, MovedFields DEF Approve, WorkflowStatus
    <3>3. work_orders' = Append(work_orders, "open") /\ outcomes' = <<>>
          /\ \A i \in DOMAIN work_orders : work_orders[i] = "cancelled"
      BY <2>i, <2>1, <3>1, OrderedAppends DEF Approve, OrdersInStep, Locked
    <3> QED
      BY <2>i, <3>2, <3>3 DEF OrdersInStep, Locked
  <2>2. CASE BlockedApproval \/ BlockedStep \/ UNCHANGED vars
    BY <2>i, <2>2 DEF BlockedApproval, BlockedStep, vars, OrdersInStep
  <2>3. CASE Reject
    <3>1. incident.workflow_status = "approval_required"
      BY <2>3 DEF Reject, rejection_refusal
    <3>2. incident'.workflow_status = "watch"
      BY <2>i, <2>3, MovedType, MovedFields DEF Reject, WorkflowStatus
    <3> QED
      BY <2>3, <2>a, <3>1, <3>2 DEF Reject, Locked
  <2>4. CASE Escalate
    <3>1. incident'.workflow_status = "escalated"
      BY <2>i, <2>4, MovedFields DEF Escalate, WorkflowStatus
    <3> QED
      BY <2>4, <2>a, <3>1 DEF Escalate, Locked
  <2>5. CASE Diagnose
    <3>1. incident'.workflow_status = "diagnosed"
      BY <2>i, <2>5, MovedFields DEF Diagnose, WorkflowStatus
    <3> QED
      BY <2>5, <2>a, <3>1 DEF Diagnose, Locked
  <2>6. CASE RouteToReview
    <3>1. human_review_reason(row.diagnosis) \in ReviewReason
      BY <2>6, ReviewReasonType DEF RouteToReview
    <3>2. incident'.workflow_status = "human_review"
      BY <2>i, <2>6, <3>1, RoutedToReview DEF RouteToReview
    <3> QED
      BY <2>6, <2>a, <3>2 DEF RouteToReview, Locked
  <2>7. CASE RouteToApproval
    <3>1. incident'.workflow_status = "approval_required"
      BY <2>i, <2>7, MovedFields DEF RouteToApproval, WorkflowStatus
    <3> QED
      BY <2>7, <2>a, <3>1 DEF RouteToApproval, Locked
  <2>8. CASE DispatchWorkOrder
    BY <2>i, <2>8 DEF DispatchWorkOrder, OrdersInStep
  <2>9. CASE CaptureOutcome
    <3>1. incident.workflow_status = "work_order_live" /\ work_orders # <<>>
      BY <2>9 DEF CaptureOutcome, outcome_refusal
    <3>2. incident'.workflow_status = "resolved"
      BY <2>i, <2>9, MovedFields DEF CaptureOutcome, WorkflowStatus
    <3>3. outcomes' = <<Len(work_orders)>>
      BY <2>i, <2>9, <3>1 DEF CaptureOutcome, OrdersInStep
    <3>4. work_orders' = [work_orders EXCEPT ![Len(work_orders)] = "completed"]
          /\ \A i \in 1..(Len(work_orders) - 1) : work_orders[i] = "cancelled"
      BY <2>i, <2>9, <3>1 DEF CaptureOutcome, completed, OrdersInStep
    <3>5. \A i \in DOMAIN work_orders' : work_orders'[i] \in {"completed", "cancelled"}
      BY <2>i, <3>1, <3>4
    <3> QED
      BY <3>2, <3>3, <3>5 DEF OrdersInStep, Locked
  <2>10. CASE Reseed
    <3>1. incident'.workflow_status = row.incident.workflow_status
      BY <2>i, <2>10 DEF Reseed, reseeded, Row, Incident
    <3>2. work_orders' = row.work_orders /\ outcomes' = <<>>
      BY <2>10 DEF Reseed
    <3> QED
      BY <2>i, <3>1, <3>2, RowsAssumption DEF OrdersInStep, Locked
  <2> QED
    BY <2>1, <2>2, <2>3, <2>4, <2>5, <2>6, <2>7, <2>8, <2>9, <2>10 DEF Next, NextStep
<1>3. TypeOK /\ OrderInv => OrderFollowsIncident
  <2> SUFFICES ASSUME TypeOK, OrderInv, row.demo PROVE OrderFollowsIncident
    BY DEF OrderFollowsIncident
  <2>1. OrdersInStep /\ incident.workflow_status \in Locked \cup {"work_order_live", "resolved"}
    BY DEF OrderInv, OrdersInStep, TypeOK, Incident, WorkflowStatus, Locked
  <2>2. work_orders \in Seq(WorkOrderStatus) /\ outcomes \in Seq(Nat)
    BY DEF TypeOK, TechnicianOutcomes
  <2>3. CASE incident.workflow_status \in Locked
    BY <2>1, <2>2, <2>3 DEF OrdersInStep, OrderFollowsIncident, Locked
  <2>4. CASE incident.workflow_status = "work_order_live"
    <3>1. Len(work_orders) \in DOMAIN work_orders
          /\ work_orders[Len(work_orders)] \notin {"completed", "cancelled"}
      BY <2>1, <2>2, <2>4 DEF OrdersInStep
    <3> QED
      BY <2>1, <2>4, <3>1 DEF OrdersInStep, OrderFollowsIncident
  <2>5. CASE incident.workflow_status = "resolved"
    <3>1. outcomes # <<>> /\ DOMAIN outcomes = {1}
      BY <2>1, <2>2, <2>5 DEF OrdersInStep
    <3> QED
      BY <2>1, <2>5, <3>1 DEF OrdersInStep, OrderFollowsIncident
  <2> QED
    BY <2>1, <2>3, <2>4, <2>5
<1> QED
  BY <1>1, <1>2, <1>3, TypeCorrect, PTL DEF Spec
=============================================================================
