-------------------------- MODULE IncidentLifecycle -------------------------
(***************************************************************************)
(* One incident, driven by the four write endpoints and the seed script,   *)
(* with every request a transaction that runs alone.  This is what the     *)
(* services promise when nobody else is writing; ApiTransactions splits    *)
(* the same handlers at their awaits and lets them overlap.                *)
(*                                                                         *)
(* Incidents share no row, so one is enough.  A refused request changes    *)
(* nothing except for the audit record of a cloud refusal, which commits   *)
(* on a session of its own; the other refusals are no step here and appear *)
(* as the guards of the actions.                                           *)
(***************************************************************************)
EXTENDS IncidentRecords, FiniteSets

CONSTANTS
  Rows,           \* the rows an incident may start as
  MaxRejections,  \* bound: rejections, each of which starts a new round
  MaxBlocked,     \* bound: audited cloud refusals
  MaxSeeds        \* bound: runs of the seed script after the first

\* What the proofs use.  A row that starts locked holds nothing, one that is
\* in review says why; a seed row that says nothing is not one that the routing
\* would send to review (reseeding leaves the column alone), and is locked.
ASSUME RowsAssumption ==
  /\ Rows \subseteq Row
  /\ \A r \in Rows :
       /\ r.incident.workflow_status \notin {"approved", "work_order_live", "resolved"}
            => /\ \A p \in Parts : r.part_checks[p] # "reserved"
               /\ \A i \in DOMAIN r.work_orders : r.work_orders[i] = "cancelled"
       /\ r.incident.human_review_reason # NO_REASON
            <=> r.incident.workflow_status = "human_review"
       /\ r.demo /\ r.incident.human_review_reason = NO_REASON
            => human_review_reason(r.diagnosis) = NO_REASON
       /\ r.demo => r.incident.workflow_status \notin {"approved", "work_order_live", "resolved"}

ASSUME BoundsAssumption ==
  MaxRejections \in Nat /\ MaxBlocked \in Nat /\ MaxSeeds \in Nat

VARIABLES
  row,          \* the row the incident was created as; never changes
  incident,     \* incidents
  proposal,     \* maintenance_proposals: the latest one's status
  part_checks,  \* part_checks of that proposal
  decisions,    \* approval_decisions, oldest first
  work_orders,  \* work_orders, oldest first
  outcomes,     \* technician_outcomes: the order each reports on
  agent_runs,   \* agent_runs, counted by kind
  audit         \* audit_events, in commit order

vars == <<row, incident, proposal, part_checks, decisions, work_orders,
          outcomes, agent_runs, audit>>

TypeOK ==
  /\ row \in Rows
  /\ incident \in Incident
  /\ proposal \in Proposal
  /\ part_checks \in PartChecks
  /\ decisions \in Seq(Decision)
  /\ work_orders \in Seq(WorkOrderStatus)
  /\ outcomes \in TechnicianOutcomes
  /\ agent_runs \in AgentRuns
  /\ audit \in Seq(AuditEvent)

-----------------------------------------------------------------------------
\* Helpers.

recorded(type) == Cardinality({i \in DOMAIN audit : audit[i].event_type = type})

ran(kinds) == [k \in AgentKind |-> agent_runs[k] + IF k \in kinds THEN 1 ELSE 0]

\* The seed script's agent runs: the planner's and the parts agent's only if
\* the scenario comes with a proposal and with a part check.
seeded_runs(r) ==
  [k \in AgentKind |->
     IF \/ k \in {"sentinel", "diagnosis"}
        \/ k = "planner" /\ r.proposal # "absent"
        \/ k = "parts" /\ r.part_checks # no_part_checks
     THEN 1 ELSE 0]

\* The seed script's audit rows: an incident seeded at the gate also gets the
\* transition that would have brought it there.
seeding_events(r) ==
  <<event("demo.seeded")>>
    \o IF r.incident.workflow_status = "approval_required"
       THEN <<[event_type     |-> "workflow.transitioned",
               previous_state |-> "diagnosed",
               next_state     |-> "approval_required"]>>
       ELSE <<>>

Init ==
  /\ row \in Rows
  /\ incident = row.incident
  /\ proposal = row.proposal
  /\ part_checks = row.part_checks
  /\ work_orders = row.work_orders
  /\ decisions = <<>>
  /\ outcomes = <<>>
  /\ agent_runs = IF row.demo THEN seeded_runs(row) ELSE [k \in AgentKind |-> 0]
  /\ audit = IF row.demo THEN seeding_events(row) ELSE <<>>

-----------------------------------------------------------------------------
\* POST /approve

\* Mutation: the stock is held before the decision is recorded.
trail_reserving_first(i, checks) ==
  (IF unreserved(checks) # {} THEN <<event("part.reserved")>> ELSE <<>>)
    \o <<event("approval.created")>>
    \o transition_events(i, "approved")
    \o <<event("work_order.created")>>
    \o transition_events(moved(i, "approved"), "work_order_live")

\* The trail of an approval, in the order the code fixes: decision, move to
\* approved, reservation if anything was held, work order (also when an order
\* is reused), move to work_order_live.
approval_trail(i, checks) ==
  <<event("approval.created")>>
    \o transition_events(i, "approved")
    \o (IF unreserved(checks) # {} THEN <<event("part.reserved")>> ELSE <<>>)
    \o <<event("work_order.created")>>
    \o transition_events(moved(i, "approved"), "work_order_live")

Approve ==
  /\ approval_refusal(incident, proposal) = "none"
  /\ may_move(incident, "approved")
  /\ may_move(moved(incident, "approved"), "work_order_live")
  /\ incident' = moved(moved(incident, "approved"), "work_order_live")
  /\ proposal' = "approved"
  /\ part_checks' = reserved(part_checks)
  /\ work_orders' = ordered(work_orders)
  /\ decisions' = Append(decisions, [decision |-> "approved", used_at |-> TRUE])
  /\ audit' = audit \o approval_trail(incident, part_checks)
  /\ UNCHANGED <<row, outcomes, agent_runs>>

\* A refusal for the cloud is checked before anything else and is audited.
BlockedApproval ==
  /\ cloud_refuses(incident, "none")
  /\ recorded("cloud.action_blocked") < MaxBlocked
  /\ audit' = Append(audit, event("cloud.action_blocked"))
  /\ UNCHANGED <<row, incident, proposal, part_checks, decisions, work_orders,
                 outcomes, agent_runs>>

-----------------------------------------------------------------------------
\* POST /reject

\* Mutation: the return to watch is a silent reset.
trail_without_return(i) ==
  <<event("approval.rejected")>> \o transition_events(i, "rejected")

rejection_trail(i) ==
  <<event("approval.rejected")>>
    \o transition_events(i, "rejected")
    \o transition_events(moved(i, "rejected"), "watch")

Reject ==
  /\ recorded("approval.rejected") < MaxRejections
  /\ rejection_refusal(incident, proposal) = "none"
  /\ may_move(incident, "rejected")
  /\ may_move(moved(incident, "rejected"), "watch")
  /\ incident' = moved(moved(incident, "rejected"), "watch")
  /\ proposal' = "rejected"
  /\ decisions' = Append(decisions, [decision |-> "rejected", used_at |-> FALSE])
  /\ audit' = audit \o rejection_trail(incident)
  /\ UNCHANGED <<row, part_checks, work_orders, outcomes, agent_runs>>

-----------------------------------------------------------------------------
\* POST /simulate-next-step, one action per handler of next_step.  The states
\* without a handler are parked and left as they are.

Escalate ==
  /\ incident.workflow_status = "watch"
  /\ may_move(incident, "escalated")
  /\ incident' = moved(incident, "escalated")
  /\ agent_runs' = ran({"sentinel"})
  /\ audit' = audit \o transition_events(incident, "escalated")
  /\ UNCHANGED <<row, proposal, part_checks, decisions, work_orders, outcomes>>

Diagnose ==
  /\ incident.workflow_status = "escalated"
  /\ may_move(incident, "diagnosed")
  /\ incident' = moved(incident, "diagnosed")
  /\ agent_runs' = ran({"diagnosis"})
  /\ audit' = audit \o transition_events(incident, "diagnosed")
  /\ UNCHANGED <<row, proposal, part_checks, decisions, work_orders, outcomes>>

\* next_step refuses the steps out of these two states up front when offline.
BlockedStep ==
  /\ incident.workflow_status \in {"diagnosed", "approved"}
  /\ ~incident.cloud_available
  /\ recorded("cloud.action_blocked") < MaxBlocked
  /\ audit' = Append(audit, event("cloud.action_blocked"))
  /\ UNCHANGED <<row, incident, proposal, part_checks, decisions, work_orders,
                 outcomes, agent_runs>>

RouteToReview ==
  LET reason == human_review_reason(row.diagnosis) IN
  /\ incident.workflow_status = "diagnosed"
  /\ incident.cloud_available
  /\ reason # NO_REASON
  /\ may_move(incident, "human_review")
  /\ incident' = routed_to_review(incident, reason)
  /\ audit' = audit \o transition_events(incident, "human_review")
  /\ UNCHANGED <<row, proposal, part_checks, decisions, work_orders, outcomes,
                 agent_runs>>

RouteToApproval ==
  /\ incident.workflow_status = "diagnosed"
  /\ incident.cloud_available
  /\ human_review_reason(row.diagnosis) = NO_REASON
  /\ ~planner_raises(proposal)
  /\ may_move(incident, "approval_required")
  /\ incident' = moved(incident, "approval_required")
  /\ part_checks' \in planned_checks(part_checks)
  /\ agent_runs' = ran(IF part_checks = no_part_checks THEN {"parts"} ELSE {})
  /\ audit' = audit \o transition_events(incident, "approval_required")
  /\ UNCHANGED <<row, proposal, decisions, work_orders, outcomes>>

\* Goes live with whatever order there is, or with none.
DispatchWorkOrder ==
  /\ incident.workflow_status = "approved"
  /\ incident.cloud_available
  /\ may_move(incident, "work_order_live")
  /\ incident' = moved(incident, "work_order_live")
  /\ audit' = audit \o transition_events(incident, "work_order_live")
  /\ UNCHANGED <<row, proposal, part_checks, decisions, work_orders, outcomes,
                 agent_runs>>

NextStep == Escalate \/ Diagnose \/ RouteToReview \/ RouteToApproval \/ DispatchWorkOrder

-----------------------------------------------------------------------------
\* POST /outcome

CaptureOutcome ==
  /\ outcome_refusal(incident, work_orders) = "none"
  /\ may_move(incident, "resolved")
  /\ incident' = moved(incident, "resolved")
  /\ work_orders' = completed(work_orders)
  /\ outcomes' = Append(outcomes, Len(work_orders))
  /\ audit' = audit \o <<event("outcome.captured")>>
                    \o transition_events(incident, "resolved")
  /\ UNCHANGED <<row, proposal, part_checks, decisions, agent_runs>>

-----------------------------------------------------------------------------
\* python -m app.seed.demo, again: the children are purged and rewritten, the
\* incident row is updated in place and the trail is kept.  A scenario that
\* names no review reason leaves that column as it is.

reseeded(r, i) ==
  [r.incident EXCEPT
     !.human_review_reason = IF @ = NO_REASON THEN i.human_review_reason ELSE @]

Reseed ==
  /\ row.demo
  /\ recorded("demo.seeded") <= MaxSeeds
  /\ incident' = reseeded(row, incident)
  /\ proposal' = row.proposal
  /\ part_checks' = row.part_checks
  /\ work_orders' = row.work_orders
  /\ decisions' = <<>>
  /\ outcomes' = <<>>
  /\ agent_runs' = seeded_runs(row)
  /\ audit' = audit \o seeding_events(row)
  /\ UNCHANGED row

-----------------------------------------------------------------------------
Next ==
  \/ Approve
  \/ BlockedApproval
  \/ Reject
  \/ NextStep
  \/ BlockedStep
  \/ CaptureOutcome
  \/ Reseed

Spec == Init /\ [][Next]_vars

\* Someone keeps pressing "next step"; nothing obliges a person to decide, to
\* report or to reseed.
FairSpec == Spec /\ WF_vars(NextStep)

-----------------------------------------------------------------------------
\* Properties.

Locked == {"watch", "escalated", "diagnosed", "human_review", "approval_required",
           "rejected"}

Irreversible == {"part.reserved", "work_order.created"}

type(i) == audit[i].event_type

transitions == {i \in DOMAIN audit : type(i) = "workflow.transitioned"}

\* No stock is held and no order stands while the incident is on the locked
\* side of the approval gate (workflow.py: "no irreversible action may run
\* before an approval decision has moved the incident out of
\* approval_required"), whatever path of rejections, escalations and reseeds
\* brought it there.
NothingHeldBeforeApproval ==
  incident.workflow_status \in Locked =>
    /\ \A p \in Parts : part_checks[p] # "reserved"
    /\ \A i \in DOMAIN work_orders : work_orders[i] = "cancelled"

\* The trail proves the approval came first: every reservation and every work
\* order follows an approval that nothing has taken back since (README, "the
\* trail proves the approval came first").
ApprovalPrecedesIrreversible ==
  \A i \in DOMAIN audit : type(i) \in Irreversible =>
    \E j \in 1..(i - 1) :
      /\ type(j) = "approval.created"
      /\ \A k \in j..i : type(k) \notin {"approval.rejected", "demo.seeded"}

\* The recorded transitions form one unbroken chain between two runs of the
\* seed script, the chain ends where the incident is, and an incident with no
\* recorded transition is where it started: no status change goes unaudited.
TrailExplainsStatus ==
  LET undisturbed(i, j) ==
        \A k \in (i + 1)..(j - 1) :
          type(k) \notin {"workflow.transitioned", "demo.seeded"}
  IN  /\ \A i, j \in transitions :
           i < j /\ undisturbed(i, j) => audit[j].previous_state = audit[i].next_state
      /\ \A i \in transitions :
           undisturbed(i, Len(audit) + 1) => audit[i].next_state = incident.workflow_status
      /\ transitions = {} => incident.workflow_status = row.incident.workflow_status

\* An incident is approved at most once unless the seed script starts it over:
\* "approving twice must fail" (tests/test_api_approval.py), also by the long
\* way round through rejections, reuse of the proposal and reuse of the order.
OneApprovalPerRound ==
  \A i, j \in DOMAIN audit :
    i < j /\ type(i) = "approval.created" /\ type(j) = "approval.created"
      => \E k \in i..j : type(k) = "demo.seeded"

\* The review reason "only describes the review the incident is in right now"
\* (workflow.py): it is there exactly while the incident is in human_review.
ReviewReasonIffInReview ==
  incident.human_review_reason # NO_REASON <=> incident.workflow_status = "human_review"

\* For a seeded incident the order, the outcome and the status move together:
\* an order stands exactly while the incident is live, an outcome exists
\* exactly when it is resolved, and no order is reported on twice.
OrderFollowsIncident ==
  row.demo =>
    /\ incident.workflow_status = "work_order_live"
         <=> \E i \in DOMAIN work_orders : work_orders[i] \notin {"completed", "cancelled"}
    /\ incident.workflow_status = "resolved" <=> outcomes # <<>>
    /\ \A i, j \in DOMAIN outcomes : i # j => outcomes[i] # outcomes[j]

\* A diagnosis scored below LOW_CONFIDENCE_CEILING is never put before an
\* approver: "it goes to human_review instead" (models/enums.py).
LowScoreNeverReachesGate ==
  \A i \in transitions :
    /\ audit[i].previous_state = "diagnosed"
    /\ audit[i].next_state = "approval_required"
    => row.diagnosis.score # "low"

\* Stepped often enough, a seeded incident under watch is put before a person:
\* at the approval gate or in review.
WatchReachesAPerson ==
  row.demo /\ incident.workflow_status = "watch"
    ~> incident.workflow_status \in {"approval_required", "human_review"}

\* Stepped often enough, a diagnosed incident whose cloud link is up goes on,
\* also when nothing was planned for it (simulation.py: "Create a proposal and
\* a part check if the seed has not already").
DiagnosisIsRouted ==
  incident.workflow_status = "diagnosed" /\ incident.cloud_available
    ~> incident.workflow_status # "diagnosed"
=============================================================================
