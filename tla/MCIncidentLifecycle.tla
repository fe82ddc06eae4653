------------------------ MODULE MCIncidentLifecycle -------------------------
(***************************************************************************)
(* Instances of IncidentLifecycle for TLC: the three seeded incidents, and *)
(* rows of the first schema carried through the upgrade.                   *)
(***************************************************************************)
EXTENDS IncidentLifecycle

SeedsOf == INSTANCE Scenarios
Upgrade == INSTANCE Migration

SeedRows == SeedsOf!ALL_SCENARIOS

\* Diagnoses under the first schema; the band is the one of the score, and is
\* overwritten by the upgrade.
diagnosed(score, evidence, text) ==
  [score |-> score, confidence_band |-> score, evidence_items |-> evidence,
   recommended_action |-> text]

Sound == diagnosed("high", 2, "schedule_replacement")

old(status, diagnosis, prop, check, orders) ==
  [workflow_status |-> status, diagnosis |-> diagnosis, proposal |-> prop,
   part_checks |-> [p \in Parts |-> check], work_orders |-> orders]

\* One row per way the upgraded routing can go.
OldRows ==
  {old("detected", NoDiagnosis, "absent", "absent", <<>>),
   old("diagnosing", diagnosed("medium", 1, "schedule_inspection"), "absent", "absent", <<>>),
   old("diagnosed", diagnosed("high", 2, "replace the bearing"), "draft", "absent", <<>>),
   old("diagnosed", Sound, "draft", "absent", <<>>),
   old("proposed", Sound, "submitted", "available", <<>>),
   old("awaiting_approval", Sound, "absent", "absent", <<>>),
   old("scheduled", Sound, "approved", "reserved", <<"dispatched">>),
   old("in_progress", Sound, "approved", "reserved", <<"in_progress">>),
   old("cancelled", Sound, "cancelled", "available", <<"cancelled">>),
   old("rejected", Sound, "rejected", "available", <<>>)}

AllRows == SeedRows \cup {Upgrade!upgraded(o) : o \in OldRows}

\* A diagnosis nobody would trust, stored before the band existed.
LowScoreRows ==
  {Upgrade!upgraded(old("diagnosed", diagnosed("low", 2, "schedule_inspection"),
                        "draft", "available", <<>>))}

\* A diagnosis worth acting on, and no proposal yet.
UnplannedRows == {Upgrade!upgraded(old("detected", Sound, "absent", "absent", <<>>))}
=============================================================================
