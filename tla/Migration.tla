----------------------------- MODULE Migration ------------------------------
(***************************************************************************)
(* The upgrade of alembic revision 9b2556ea5060: what happens to an        *)
(* incident that was stored under the first schema, before the confidence  *)
(* band, the review reason and the cloud flag existed.                     *)
(***************************************************************************)
EXTENDS IncidentRecords

\* Old workflow label to new one.
WORKFLOW_STATUS_FORWARD ==
  [detected          |-> "watch",
   diagnosing        |-> "escalated",
   diagnosed         |-> "diagnosed",
   proposed          |-> "approval_required",
   awaiting_approval |-> "approval_required",
   approved          |-> "approved",
   rejected          |-> "rejected",
   scheduled         |-> "approved",
   in_progress       |-> "work_order_live",
   resolved          |-> "resolved",
   cancelled         |-> "watch"]

\* recommended_action was free text; what is not a label of the new enum
\* becomes monitor.
upgraded_action(text) == IF text \in RecommendedAction THEN text ELSE "monitor"

\* confidence_band is added with a server default, so every diagnosis that is
\* already there reads "medium", whatever its score.
upgraded_diagnosis(old) ==
  IF old = NoDiagnosis
  THEN NoDiagnosis
  ELSE [old EXCEPT !.confidence_band    = "medium",
                   !.recommended_action = upgraded_action(@)]

\* The new incident columns take their defaults: cloud up, no review reason.
\* resolved_at is an old column and keeps its value.
upgraded(old) ==
  [demo        |-> FALSE,
   incident    |-> [workflow_status     |-> WORKFLOW_STATUS_FORWARD[old.workflow_status],
                    cloud_available     |-> TRUE,
                    human_review_reason |-> NO_REASON,
                    resolved_at         |-> old.workflow_status = "resolved"],
   diagnosis   |-> upgraded_diagnosis(old.diagnosis),
   proposal    |-> old.proposal,
   part_checks |-> old.part_checks,
   work_orders |-> old.work_orders]
=============================================================================
