--------------------------- MODULE IncidentRecords --------------------------
(***************************************************************************)
(* The rows one incident owns (backend/app/models), and the decisions the  *)
(* services take by looking at them, as pure operators.  IncidentLifecycle *)
(* applies them to committed rows, ApiTransactions to the copies that a    *)
(* request has read.                                                       *)
(*                                                                         *)
(* An absent row is a null record or the label "absent"; "none" stands for *)
(* "no exception raised".                                                  *)
(***************************************************************************)
EXTENDS Workflow, Naturals, Sequences

CONSTANT Parts      \* the part checks a proposal may hold

-----------------------------------------------------------------------------
\* Row types.

ConfidenceBand == {"low", "medium", "high"}

RecommendedAction ==
  {"monitor", "schedule_inspection", "schedule_alignment",
   "schedule_replacement", "immediate_stop"}

MINIMUM_EVIDENCE_ITEMS == 2

\* score is the band of the numeric confidence (ConfidenceBand.from_score);
\* confidence_band is the column the routing reads.  They agree in the seed
\* and need not in a migrated row.  Counting evidence stops at the minimum.
NoDiagnosis ==
  [score |-> "none", confidence_band |-> "none", evidence_items |-> 0,
   recommended_action |-> "none"]

Diagnosis ==
  [score              : ConfidenceBand,
   confidence_band    : ConfidenceBand,
   evidence_items     : 0..MINIMUM_EVIDENCE_ITEMS,
   recommended_action : RecommendedAction] \cup {NoDiagnosis}

ProposalStatus ==
  {"draft", "proposed", "submitted", "awaiting_approval", "approved",
   "rejected", "superseded", "cancelled"}

PartCheckStatus ==
  {"pending", "available", "backordered", "unavailable",
   "checked_not_reserved", "reserved"}

WorkOrderStatus ==
  {"draft", "open", "dispatched", "in_progress", "completed", "cancelled"}

\* The latest proposal's status; its part checks; the work orders, oldest first.
Proposal   == ProposalStatus \cup {"absent"}
PartChecks == [Parts -> PartCheckStatus \cup {"absent"}]

\* An approval_decisions row: an approval carries a token, spent when used_at
\* is set; a rejection carries none.
Decision == [decision : {"approved", "rejected"}, used_at : BOOLEAN]

AgentKind == {"sentinel", "diagnosis", "planner", "parts"}

\* The agent_runs rows of an incident, counted by kind: all of them succeed.
AgentRuns == [AgentKind -> Nat]

\* The technician_outcomes rows, oldest first, as the number of the work order
\* that each of them reports on.
TechnicianOutcomes == Seq(Nat)

\* Everything the incident starts with.  demo tells the three seeded
\* incidents, which the seed script rewrites, from rows it never touches.
Row ==
  [demo        : BOOLEAN,
   incident    : Incident,
   diagnosis   : Diagnosis,
   proposal    : Proposal,
   part_checks : PartChecks,
   work_orders : Seq(WorkOrderStatus)]

no_part_checks == [p \in Parts |-> "absent"]

-----------------------------------------------------------------------------
\* services/simulation.py: where a diagnosis goes.

human_review_reason(d) ==
  IF d = NoDiagnosis THEN "insufficient_evidence"
  ELSE IF d.confidence_band = "low" THEN "low_confidence"
  ELSE IF d.evidence_items < MINIMUM_EVIDENCE_ITEMS THEN "insufficient_evidence"
  ELSE IF d.recommended_action = "monitor" THEN "monitor_only"
  ELSE NO_REASON

\* Mutation: the reason is left for someone else to fill in.
routed_without_reason(incident, reason) == moved(incident, "human_review")

\* The reason is written before the move and again after it.
routed_to_review(incident, reason) ==
  moved([incident EXCEPT !.human_review_reason = reason], "human_review")

-----------------------------------------------------------------------------
\* services/approval.py and services/outcome.py: what a request is refused for,
\* in the order the checks are made.

approval_refusal(incident, proposal) ==
  IF cloud_refuses(incident, "none") THEN "CLOUD_UNAVAILABLE"
  ELSE IF incident.workflow_status # "approval_required" THEN "APPROVAL_NOT_REQUIRED"
  ELSE IF proposal = "absent" THEN "PROPOSAL_MISSING"
  ELSE "none"

rejection_refusal(incident, proposal) ==
  IF incident.workflow_status # "approval_required" THEN "APPROVAL_NOT_REQUIRED"
  ELSE IF proposal = "absent" THEN "PROPOSAL_MISSING"
  ELSE "none"

outcome_refusal(incident, orders) ==
  IF incident.workflow_status # "work_order_live" THEN "WORK_ORDER_NOT_LIVE"
  ELSE IF orders = <<>> THEN "WORK_ORDER_MISSING"
  ELSE "none"

-----------------------------------------------------------------------------
\* services/approval.py: the irreversible work.

unreserved(checks) ==
  {p \in Parts : checks[p] \notin {"absent", "reserved"}}

reserved(checks) ==
  [p \in Parts |-> IF p \in unreserved(checks) THEN "reserved" ELSE checks[p]]

\* latest_work_order(...) is reused unless it is missing or cancelled.
reuses_order(orders) == orders # <<>> /\ orders[Len(orders)] # "cancelled"

\* Mutation: the new order carries a label that work_order_status does not have.
ordered_as_approved(orders) ==
  IF reuses_order(orders) THEN orders ELSE Append(orders, "approved")

ordered(orders) == IF reuses_order(orders) THEN orders ELSE Append(orders, "open")

\* Mutation: the outcome is stored and the order is left as it is.
left_open(orders) == orders

\* capture completes the latest order.
completed(orders) == [orders EXCEPT ![Len(orders)] = "completed"]

-----------------------------------------------------------------------------
\* services/simulation.py: _run_planner_and_parts.

\* With no proposal the planner adds one and then reads its part_checks, which
\* an AsyncSession cannot lazy-load: the request fails and is rolled back.
planner_raises(proposal) == proposal = "absent"

\* Mutation: the parts agent holds the part at once.
planned_and_held(checks) ==
  IF checks = no_part_checks
  THEN {[checks EXCEPT ![p] = "reserved"] : p \in Parts}
  ELSE {checks}

\* The part checks after the parts agent ran: one is added if there is none.
planned_checks(checks) ==
  IF checks = no_part_checks
  THEN {[checks EXCEPT ![p] = "checked_not_reserved"] : p \in Parts}
  ELSE {checks}
=============================================================================
