------------------------------ MODULE Workflow ------------------------------
(***************************************************************************)
(* The incident state machine of backend/app/services/workflow.py, as pure *)
(* operators over an incident row.  Nothing here has state: the modules    *)
(* that model the request handlers apply these operators to the rows they  *)
(* keep, the way the handlers call WorkflowService.                        *)
(***************************************************************************)

\* The labels of models/enums.py: WorkflowStatus.
WorkflowStatus ==
  {"watch", "escalated", "diagnosed", "human_review", "approval_required",
   "approved", "rejected", "work_order_live", "resolved"}

\* Why a diagnosis is handed to a person, and the absence of a reason (NULL).
NO_REASON == "no_reason"
ReviewReason == {"low_confidence", "insufficient_evidence", "monitor_only"}

\* An incidents row: the columns that a handler reads or writes.  resolved_at
\* is kept as "has it been set", the only thing the code asks of it.
Incident ==
  [workflow_status     : WorkflowStatus,
   cloud_available     : BOOLEAN,
   human_review_reason : ReviewReason \cup {NO_REASON},
   resolved_at         : BOOLEAN]

-----------------------------------------------------------------------------
\* What may follow what.

\* Mutation: the edge from a sound diagnosis to the gate is missing.
TRANSITIONS_TO_REVIEW_ONLY ==
  {<<"watch", "escalated">>,
   <<"escalated", "diagnosed">>,
   <<"diagnosed", "human_review">>,
   <<"human_review", "approval_required">>,
   <<"approval_required", "approved">>,
   <<"approval_required", "rejected">>,
   <<"approved", "work_order_live">>,
   <<"work_order_live", "resolved">>,
   <<"rejected", "watch">>}

ALLOWED_TRANSITIONS ==
  {<<"watch", "escalated">>,
   <<"escalated", "diagnosed">>,
   <<"diagnosed", "human_review">>,
   <<"diagnosed", "approval_required">>,
   <<"human_review", "approval_required">>,
   <<"approval_required", "approved">>,
   <<"approval_required", "rejected">>,
   <<"approved", "work_order_live">>,
   <<"work_order_live", "resolved">>,
   <<"rejected", "watch">>}

TERMINAL_STATES == {"resolved"}

CLOUD_DEPENDENT_STATES == {"approval_required", "approved", "work_order_live"}

can_transition(current, target) == <<current, target>> \in ALLOWED_TRANSITIONS

-----------------------------------------------------------------------------
\* The two refusals.  "none" stands for "no exception raised".

\* guard_cloud_available(incident, target); target = "none" guards an action.
cloud_refuses(incident, target) ==
  /\ ~incident.cloud_available
  /\ target = "none" \/ target \in CLOUD_DEPENDENT_STATES

\* transition raises nothing: the move is the no-op, or it is a legal move
\* that the cloud guard lets through.
may_move(incident, target) ==
  \/ incident.workflow_status = target
  \/ /\ can_transition(incident.workflow_status, target)
     /\ ~cloud_refuses(incident, target)

-----------------------------------------------------------------------------
\* What transition does to the row, and what it writes to the trail.

\* Mutation: a resolved asset goes straight back under watch.
moved_reopening(incident, target) ==
  IF incident.workflow_status = target
  THEN incident
  ELSE [incident EXCEPT
          !.workflow_status     = IF target = "resolved" THEN "watch" ELSE target,
          !.resolved_at         = @ \/ target = "resolved",
          !.human_review_reason = IF target = "human_review" THEN @
                                                             ELSE NO_REASON]

moved(incident, target) ==
  IF incident.workflow_status = target
  THEN incident
  ELSE [incident EXCEPT
          !.workflow_status     = target,
          !.resolved_at         = @ \/ target = "resolved",
          !.human_review_reason = IF target = "human_review" THEN @
                                                             ELSE NO_REASON]

\* An audit_events row.  For an event that is not a transition the two state
\* fields are "none", except that demo.seeded carries the seeded state in its
\* payload.
EventType ==
  {"demo.seeded", "workflow.transitioned", "cloud.action_blocked",
   "approval.created", "approval.rejected", "part.reserved",
   "work_order.created", "outcome.captured"}

AuditEvent ==
  [event_type     : EventType,
   previous_state : WorkflowStatus \cup {"none"},
   next_state     : WorkflowStatus \cup {"none"}]

event(type) ==
  [event_type |-> type, previous_state |-> "none", next_state |-> "none"]

\* The audit rows that transition(incident, target) appends: none when the
\* incident is already there.
transition_events(incident, target) ==
  IF incident.workflow_status = target
  THEN <<>>
  ELSE <<[event_type     |-> "workflow.transitioned",
          previous_state |-> incident.workflow_status,
          next_state     |-> target]>>
=============================================================================
