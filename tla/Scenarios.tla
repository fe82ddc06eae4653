----------------------------- MODULE Scenarios ------------------------------
(***************************************************************************)
(* The three demo incidents of backend/app/seed/scenarios.py, reduced to   *)
(* the columns the workflow looks at.  They are the only incidents the     *)
(* program itself ever creates: no endpoint inserts one.                   *)
(***************************************************************************)
EXTENDS IncidentRecords

\* The main walkthrough: waits for a human decision, cloud up, one part check.
SCENARIO_A ==
  [demo        |-> TRUE,
   incident    |-> [workflow_status     |-> "approval_required",
                    cloud_available     |-> TRUE,
                    human_review_reason |-> NO_REASON,
                    resolved_at         |-> FALSE],
   diagnosis   |-> [score              |-> "high",
                    confidence_band    |-> "high",
                    evidence_items     |-> 2,
                    recommended_action |-> "schedule_replacement"],
   proposal    |-> "proposed",
   part_checks |-> [p \in Parts |-> "checked_not_reserved"],
   work_orders |-> <<>>]

\* Low confidence: parked with a person, nothing planned.
SCENARIO_B ==
  [demo        |-> TRUE,
   incident    |-> [workflow_status     |-> "human_review",
                    cloud_available     |-> TRUE,
                    human_review_reason |-> "low_confidence",
                    resolved_at         |-> FALSE],
   diagnosis   |-> [score              |-> "low",
                    confidence_band    |-> "low",
                    evidence_items     |-> 1,
                    recommended_action |-> "schedule_inspection"],
   proposal    |-> "absent",
   part_checks |-> no_part_checks,
   work_orders |-> <<>>]

\* Offline: diagnosed at the edge, every cloud action refused.
SCENARIO_C ==
  [demo        |-> TRUE,
   incident    |-> [workflow_status     |-> "diagnosed",
                    cloud_available     |-> FALSE,
                    human_review_reason |-> NO_REASON,
                    resolved_at         |-> FALSE],
   diagnosis   |-> [score              |-> "medium",
                    confidence_band    |-> "medium",
                    evidence_items     |-> 2,
                    recommended_action |-> "schedule_alignment"],
   proposal    |-> "absent",
   part_checks |-> no_part_checks,
   work_orders |-> <<>>]

ALL_SCENARIOS == {SCENARIO_A, SCENARIO_B, SCENARIO_C}
=============================================================================
