-------------------------- MODULE MCApiTransactions -------------------------
(***************************************************************************)
(* Instances of ApiTransactions for TLC: the seeded incidents, and one     *)
(* diagnosed incident that still has to be planned.                        *)
(***************************************************************************)
EXTENDS ApiTransactions, TLC

SeedsOf == INSTANCE Scenarios

SeedRows == SeedsOf!ALL_SCENARIOS

AtTheGate == {SeedsOf!SCENARIO_A}

\* The incident of scenario A under watch, as its first rejection leaves it.
UnderWatch ==
  {[SeedsOf!SCENARIO_A EXCEPT !.demo = FALSE,
                              !.incident.workflow_status = "watch",
                              !.proposal = "rejected"]}

\* The incident of scenario A before its parts are checked.
Unchecked ==
  {[SeedsOf!SCENARIO_A EXCEPT !.demo = FALSE,
                              !.incident.workflow_status = "diagnosed",
                              !.proposal = "draft",
                              !.part_checks = no_part_checks]}

\* One that was sent to review before its diagnosis was ever looked at.
ToReview ==
  {[SeedsOf!SCENARIO_B EXCEPT !.demo = FALSE,
                              !.incident.workflow_status = "diagnosed",
                              !.incident.human_review_reason = NO_REASON]}

\* An approval that stopped halfway.
Halfway ==
  {[SeedsOf!SCENARIO_A EXCEPT !.demo = FALSE,
                              !.incident.workflow_status = "approved",
                              !.proposal = "approved"]}

AllRows == SeedRows \cup UnderWatch \cup Unchecked \cup ToReview \cup Halfway

Interchangeable == Permutations(Clients)
=============================================================================
