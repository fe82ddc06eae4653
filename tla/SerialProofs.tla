---------------------------- MODULE SerialProofs ----------------------------
(***************************************************************************)
(* Requests and runs of the seed script that do not overlap implement      *)
(* IncidentLifecycle: the split handlers, taken one after the other, do    *)
(* what its actions do in one step.                                        *)
(*                                                                         *)
(* A commit is the step of IncidentLifecycle; everything before it is a    *)
(* stutter.  What makes it so is that the copies a request decides on are  *)
(* still the committed rows when it commits, and that the bounds on        *)
(* requests bound what the trail counts.                                   *)
(***************************************************************************)
EXTENDS SeedResetProofs

-----------------------------------------------------------------------------
\* Counting rows of the trail.

Count(s, t) == Cardinality({i \in DOMAIN s : s[i].event_type = t})

LEMMA CountOfNone ==
  ASSUME NEW t
  PROVE  Count(<<>>, t) = 0
<1>1. {i \in DOMAIN <<>> : <<>>[i].event_type = t} = {}
  OBVIOUS
<1> QED
  BY <1>1, FS_EmptySet DEF Count

LEMMA CountOfOne ==
  ASSUME NEW e, NEW t
  PROVE  Count(<<e>>, t) = IF e.event_type = t THEN 1 ELSE 0
<1> DEFINE s == <<e>>
<1>1. DOMAIN s = {1} /\ s[1] = e
  OBVIOUS
<1> HIDE DEF s
<1>2. {i \in DOMAIN s : s[i].event_type = t} = IF e.event_type = t THEN {1} ELSE {}
  BY <1>1
<1>3. Count(s, t) = IF e.event_type = t THEN 1 ELSE 0
  BY <1>2, FS_EmptySet, FS_Singleton DEF Count
<1> QED
  BY <1>3 DEF s

LEMMA CountTyped ==
  ASSUME NEW S, NEW s \in Seq(S), NEW t
  PROVE  /\ IsFiniteSet({i \in DOMAIN s : s[i].event_type = t})
         /\ Count(s, t) \in Nat
<1> DEFINE A == {i \in DOMAIN s : s[i].event_type = t}
<1>1. A \in SUBSET (1..Len(s)) /\ Len(s) \in Nat
  OBVIOUS
<1>2. IsFiniteSet(A)
  BY <1>1, FS_Interval, FS_Subset
<1> HIDE DEF A
<1>3. Cardinality(A) \in Nat
  BY <1>2, FS_CardinalityType
<1> QED
  BY <1>2, <1>3 DEF Count, A

\* Two trails, one after the other.
LEMMA CountOfBoth ==
  ASSUME NEW S, NEW s \in Seq(S), NEW u \in Seq(S), NEW t
  PROVE  Count(s \o u, t) = Count(s, t) + Count(u, t)
<1> DEFINE l == s \o u
           m == Len(s)
           n == Len(u)
           A == {i \in DOMAIN s : s[i].event_type = t}
           C == {i \in DOMAIN u : u[i].event_type = t}
           B == {i \in (m + 1)..(m + n) : l[i].event_type = t}
           f == [i \in C |-> m + i]
<1>1. /\ m \in Nat /\ n \in Nat /\ DOMAIN s = 1..m /\ DOMAIN u = 1..n
      /\ DOMAIN l = 1..(m + n)
      /\ \A i \in 1..m : l[i] = s[i]
      /\ \A i \in 1..n : l[m + i] = u[i]
  OBVIOUS
<1>2. IsFiniteSet(A) /\ IsFiniteSet(C)
  BY CountTyped
<1>3. C \subseteq 1..n /\ A \subseteq 1..m
  BY <1>1
<1> HIDE DEF l, m, n
<1>4. ExistsBijection(C, B)
  <2>1. \A i \in C : m + i \in B
    BY <1>1
  <2>2. f \in [C -> B]
    BY <2>1
  <2>3. \A i, j \in C : f[i] = f[j] => i = j
    BY <1>1, <1>3
  <2>4. \A k \in B : \E i \in C : f[i] = k
    <3> SUFFICES ASSUME NEW k \in B PROVE \E i \in C : f[i] = k
      OBVIOUS
    <3>1. k - m \in 1..n /\ m + (k - m) = k
      BY <1>1
    <3>2. k - m \in C
      BY <1>1, <3>1
    <3> QED
      BY <3>1, <3>2
  <2> HIDE DEF f, B, C
  <2>5. f \in Bijection(C, B)
    BY <2>2, <2>3, <2>4 DEF Bijection, Injection, Surjection, IsInjective
  <2> QED
    BY <2>5 DEF ExistsBijection
<1>5. IsFiniteSet(B) /\ Cardinality(B) = Cardinality(C)
  <2> HIDE DEF B, C
  <2> QED
    BY <1>2, <1>4, FS_Bijection
<1>6. {i \in DOMAIN l : l[i].event_type = t} = A \cup B /\ A \cap B = {}
  BY <1>1
<1>7. Cardinality(A \cup B) = Cardinality(A) + Cardinality(B)
  <2> HIDE DEF A, B, C
  <2>1. Cardinality(A \cap B) = 0
    BY <1>6, FS_EmptySet
  <2>2. Cardinality(A) \in Nat /\ Cardinality(B) \in Nat
    BY <1>2, <1>5, FS_CardinalityType
  <2>3. Cardinality(A \cup B) = Cardinality(A) + Cardinality(B) - Cardinality(A \cap B)
    BY <1>2, <1>5, FS_Union
  <2> QED
    BY <2>1, <2>2, <2>3
<1>8. Count(l, t) = Count(s, t) + Count(u, t)
  BY <1>5, <1>6, <1>7 DEF Count
<1> QED
  BY <1>8 DEF l

\* recorded is such a count.
LEMMA Recorded ==
  ASSUME NEW t
  PROVE  Lifecycle!recorded(t) = Count(audit, t)
BY DEF Lifecycle!recorded, Count, Cardinality, Lifecycle!Cardinality

-----------------------------------------------------------------------------
\* IncidentLifecycle in the names used here.

LEMMA WorkflowNames ==
  /\ \A i, target : Lifecycle!moved(i, target) = moved(i, target)
  /\ \A i, target : Lifecycle!transition_events(i, target) = transition_events(i, target)
  /\ \A type : Lifecycle!event(type) = event(type)
  /\ \A i, target : Lifecycle!cloud_refuses(i, target) = cloud_refuses(i, target)
  /\ \A i, target : Lifecycle!may_move(i, target) = may_move(i, target)
  /\ Lifecycle!NO_REASON = NO_REASON
BY DEF Lifecycle!moved, moved, Lifecycle!transition_events, transition_events,
       Lifecycle!event, event, Lifecycle!NO_REASON, NO_REASON, Lifecycle!cloud_refuses,
       cloud_refuses, Lifecycle!may_move, may_move, Lifecycle!can_transition,
       can_transition, Lifecycle!ALLOWED_TRANSITIONS, ALLOWED_TRANSITIONS,
       Lifecycle!CLOUD_DEPENDENT_STATES, CLOUD_DEPENDENT_STATES

LEMMA DecisionNames ==
  /\ \A d : Lifecycle!human_review_reason(d) = human_review_reason(d)
  /\ \A i, p : Lifecycle!approval_refusal(i, p) = approval_refusal(i, p)
  /\ \A i, p : Lifecycle!rejection_refusal(i, p) = rejection_refusal(i, p)
  /\ \A i, s : Lifecycle!outcome_refusal(i, s) = outcome_refusal(i, s)
  /\ \A p : Lifecycle!planner_raises(p) = planner_raises(p)
BY WorkflowNames
   DEF Lifecycle!human_review_reason, human_review_reason,
       Lifecycle!NoDiagnosis, NoDiagnosis, Lifecycle!MINIMUM_EVIDENCE_ITEMS,
       MINIMUM_EVIDENCE_ITEMS, Lifecycle!approval_refusal, approval_refusal,
       Lifecycle!rejection_refusal, rejection_refusal, Lifecycle!outcome_refusal,
       outcome_refusal, Lifecycle!planner_raises, planner_raises

LEMMA RecordNames ==
  /\ \A checks : Lifecycle!unreserved(checks) = unreserved(checks)
  /\ \A checks : Lifecycle!reserved(checks) = reserved(checks)
  /\ \A checks : Lifecycle!planned_checks(checks) = planned_checks(checks)
  /\ \A s : Lifecycle!ordered(s) = ordered(s)
  /\ \A s : Lifecycle!completed(s) = completed(s)
  /\ \A i, r : Lifecycle!routed_to_review(i, r) = routed_to_review(i, r)
  /\ Lifecycle!no_part_checks = no_part_checks
BY WorkflowNames
   DEF Lifecycle!unreserved, unreserved, Lifecycle!reserved, reserved,
       Lifecycle!planned_checks, planned_checks, Lifecycle!ordered, ordered,
       Lifecycle!reuses_order, reuses_order, Lifecycle!completed, completed,
       Lifecycle!routed_to_review, routed_to_review, Lifecycle!no_part_checks,
       no_part_checks

LEMMA TrailNames ==
  /\ \A i, checks : Lifecycle!approval_trail(i, checks) = Serial!approval_trail(i, checks)
  /\ \A i : Lifecycle!rejection_trail(i) = Serial!rejection_trail(i)
  /\ \A kinds : Lifecycle!ran(kinds) = Serial!ran(kinds)
BY WorkflowNames, RecordNames, SerialNames
   DEF Lifecycle!approval_trail, Serial!approval_trail, Lifecycle!rejection_trail,
       Serial!rejection_trail, Lifecycle!ran, Serial!ran, Lifecycle!AgentKind,
       Serial!AgentKind

-----------------------------------------------------------------------------
\* A commit on copies that are still current.

LEMMA SameIncident ==
  ASSUME NEW i \in Incident, NEW j \in Incident,
         i.workflow_status = j.workflow_status, i.cloud_available = j.cloud_available,
         i.human_review_reason = j.human_review_reason, i.resolved_at = j.resolved_at
  PROVE  i = j
BY DEF Incident

\* Every column is then written, or has that value.
LEMMA OverwrittenCurrent ==
  ASSUME NEW i \in Incident, NEW new \in Incident
  PROVE  overwritten(i, i, new) = new
<1>1. overwritten(i, i, new) \in Incident
  BY OverwrittenTyped
<1>2. /\ overwritten(i, i, new).workflow_status = new.workflow_status
      /\ overwritten(i, i, new).cloud_available = new.cloud_available
      /\ overwritten(i, i, new).human_review_reason = new.human_review_reason
      /\ overwritten(i, i, new).resolved_at = new.resolved_at
  BY DEF overwritten, Incident
<1> QED
  BY <1>1, <1>2, SameIncident

LEMMA NobodyRan ==
  ASSUME agent_runs \in AgentRuns
  PROVE  Serial!ran({}) = agent_runs
BY DEF Serial!ran, AgentRuns, Serial!AgentKind, AgentKind

\* The request of c is about to commit what it has decided on copies that are
\* what is committed.
CommitsCurrent(c) ==
  LET q == requests[c] IN
  /\ q \in Request /\ refusal(q) = "none" /\ Commit(c)
  /\ q.incident = incident /\ q.proposal = proposal
  /\ q.part_checks = part_checks /\ q.work_orders = work_orders

\* What every such commit does.
LEMMA Committing ==
  ASSUME SeedTyped, NEW c \in Clients, CommitsCurrent(c)
  PROVE  /\ incident' = result(requests[c]) /\ incident \in Incident
         /\ agent_runs' = Serial!ran(agents(requests[c])) /\ row' = row
         /\ Accepted(requests[c])
<1> DEFINE q == requests[c]
<1>1. q \in Request /\ Accepted(q) /\ q.incident = incident /\ Commit(c)
  BY NotRefused DEF CommitsCurrent
<1>2. result(q) \in Incident /\ incident \in Incident
  BY <1>1, RequestMoves DEF SeedTyped, CommittedTyped
<1>3. incident' = overwritten(incident, incident, result(q))
  BY <1>1 DEF Commit
<1>4. agent_runs' = Serial!ran(agents(q)) /\ row' = row
  BY <1>1 DEF Commit
<1> HIDE DEF q
<1>5. incident' = result(q)
  BY <1>2, <1>3, OverwrittenCurrent
<1> QED
  BY <1>1, <1>2, <1>4, <1>5 DEF q

LEMMA ApprovalCommits ==
  ASSUME SeedTyped, NEW c \in Clients, CommitsCurrent(c), requests[c].kind = "approve"
  PROVE  Lifecycle!Approve
<1> DEFINE q == requests[c]
           m == moved(incident, "approved")
<1>0. /\ Commit(c) /\ q.kind = "approve" /\ refusal(q) = "none"
      /\ q.incident = incident /\ q.proposal = proposal
      /\ q.part_checks = part_checks /\ q.work_orders = work_orders
  BY DEF CommitsCurrent
<1>1. incident' = result(q) /\ incident \in Incident /\ row' = row
  BY Committing
<1>2. approval_refusal(incident, proposal) = "none"
  BY <1>0 DEF refusal
<1>3. incident.workflow_status = "approval_required" /\ incident.cloud_available
  BY <1>1, <1>2 DEF approval_refusal, cloud_refuses, Incident
<1>4. m \in Incident /\ m.workflow_status = "approved" /\ m.cloud_available
  <2>1. m \in Incident /\ m.workflow_status = "approved"
    BY <1>1, Moved DEF WorkflowStatus
  <2>2. m.cloud_available = incident.cloud_available
    BY <1>1 DEF moved, Incident
  <2> QED
    BY <1>3, <2>1, <2>2
<1>5. may_move(incident, "approved") /\ may_move(m, "work_order_live")
  BY <1>3, <1>4 DEF may_move, can_transition, ALLOWED_TRANSITIONS, cloud_refuses
<1>6. incident' = moved(m, "work_order_live")
  BY <1>0, <1>1 DEF result
<1>7. proposal' = "approved"
  BY <1>0 DEF Commit, written_rows, decided_status
<1>8. part_checks' = reserved(part_checks)
  BY <1>0 DEF Commit, committed_checks, reserved
<1>9. work_orders' = ordered(work_orders)
  BY <1>0 DEF Commit, committed_orders, ordered
<1>10. decisions' = Append(decisions, [decision |-> "approved", used_at |-> TRUE])
  BY <1>0 DEF Commit, committed_decisions, decided_status
<1>11. audit' = audit \o Serial!approval_trail(incident, part_checks) /\ outcomes' = outcomes
  BY <1>0 DEF Commit, trail
<1>12. agent_runs' = agent_runs
  <2>1. agents(q) = {}
    BY <1>0 DEF agents, plans_a_part
  <2> QED
    BY <2>1, Committing, NobodyRan DEF SeedTyped, CommittedTyped
<1> HIDE DEF q, m
<1>13. m = Lifecycle!moved(incident, "approved")
  BY WorkflowNames DEF m
<1> QED
  BY <1>1, <1>2, <1>5, <1>6, <1>7, <1>8, <1>9, <1>10, <1>11, <1>12, <1>13,
     WorkflowNames, DecisionNames, RecordNames, TrailNames DEF Lifecycle!Approve

LEMMA RejectionCommits ==
  ASSUME SeedTyped, NEW c \in Clients, CommitsCurrent(c), requests[c].kind = "reject",
         Count(audit, "approval.rejected") < MaxRequests
  PROVE  Lifecycle!Reject
<1> DEFINE q == requests[c]
           m == moved(incident, "rejected")
<1>0. /\ Commit(c) /\ q.kind = "reject" /\ refusal(q) = "none"
      /\ q.incident = incident /\ q.proposal = proposal
      /\ q.part_checks = part_checks /\ q.work_orders = work_orders
  BY DEF CommitsCurrent
<1>1. incident' = result(q) /\ incident \in Incident /\ row' = row
  BY Committing
<1>2. rejection_refusal(incident, proposal) = "none"
  BY <1>0 DEF refusal
<1>3. incident.workflow_status = "approval_required"
  BY <1>2 DEF rejection_refusal
<1>4. m \in Incident /\ m.workflow_status = "rejected"
  BY <1>1, Moved DEF WorkflowStatus
<1>5. may_move(incident, "rejected") /\ may_move(m, "watch")
  BY <1>3, <1>4 DEF may_move, can_transition, ALLOWED_TRANSITIONS, cloud_refuses,
     CLOUD_DEPENDENT_STATES
<1>6. incident' = moved(m, "watch")
  BY <1>0, <1>1 DEF result
<1>7. proposal' = "rejected"
  BY <1>0 DEF Commit, written_rows, decided_status
<1>8. part_checks' = part_checks
  BY <1>0 DEF Commit, committed_checks, plans_a_part
<1>9. work_orders' = work_orders
  BY <1>0 DEF Commit, committed_orders
<1>10. decisions' = Append(decisions, [decision |-> "rejected", used_at |-> FALSE])
  BY <1>0 DEF Commit, committed_decisions, decided_status
<1>11. audit' = audit \o Serial!rejection_trail(incident) /\ outcomes' = outcomes
  BY <1>0 DEF Commit, trail
<1>12. agent_runs' = agent_runs
  <2>1. agents(q) = {}
    BY <1>0 DEF agents, plans_a_part
  <2> QED
    BY <2>1, Committing, NobodyRan DEF SeedTyped, CommittedTyped
<1> HIDE DEF q, m
<1>13. m = Lifecycle!moved(incident, "rejected")
  BY WorkflowNames DEF m
<1> QED
  BY <1>1, <1>2, <1>5, <1>6, <1>7, <1>8, <1>9, <1>10, <1>11, <1>12, <1>13, Recorded,
     WorkflowNames, DecisionNames, RecordNames, TrailNames DEF Lifecycle!Reject

LEMMA OutcomeCommits ==
  ASSUME SeedTyped, NEW c \in Clients, CommitsCurrent(c), requests[c].kind = "outcome"
  PROVE  Lifecycle!CaptureOutcome
<1> DEFINE q == requests[c]
<1>0. /\ Commit(c) /\ q.kind = "outcome" /\ refusal(q) = "none"
      /\ q.incident = incident /\ q.proposal = proposal
      /\ q.part_checks = part_checks /\ q.work_orders = work_orders
  BY DEF CommitsCurrent
<1>1. incident' = result(q) /\ incident \in Incident /\ row' = row
  BY Committing
<1>2. outcome_refusal(incident, work_orders) = "none"
  BY <1>0 DEF refusal
<1>3. may_move(incident, "resolved")
  BY <1>2 DEF outcome_refusal, may_move, can_transition, ALLOWED_TRANSITIONS,
     cloud_refuses, CLOUD_DEPENDENT_STATES
<1>4. incident' = moved(incident, "resolved")
  BY <1>0, <1>1 DEF result
<1>5. proposal' = proposal /\ part_checks' = part_checks /\ decisions' = decisions
  BY <1>0 DEF Commit, written_rows, committed_checks, plans_a_part, committed_decisions
<1>6. work_orders' = completed(work_orders) /\ outcomes' = Append(outcomes, Len(work_orders))
  BY <1>0 DEF Commit, committed_orders, completed
<1>7. audit' = audit \o (<<event("outcome.captured")>> \o transition_events(incident, "resolved"))
  BY <1>0 DEF Commit, trail
<1>8. agent_runs' = agent_runs
  <2>1. agents(q) = {}
    BY <1>0 DEF agents, plans_a_part
  <2> QED
    BY <2>1, Committing, NobodyRan DEF SeedTyped, CommittedTyped
<1>9. audit' = audit \o <<event("outcome.captured")>> \o transition_events(incident, "resolved")
  <2> DEFINE a == <<event("outcome.captured")>>
             b == transition_events(incident, "resolved")
  <2>1. a \in Seq(AuditEvent)
    BY EventTyped DEF EventType
  <2>2. b \in Seq(AuditEvent)
    BY <1>1, <1>2, MoveRecorded DEF outcome_refusal, EndsWithMoveTo, WorkflowStatus
  <2>3. audit \in Seq(AuditEvent) /\ audit' = audit \o (a \o b)
    BY <1>7 DEF SeedTyped, CommittedTyped
  <2> HIDE DEF a, b
  <2>4. audit \o (a \o b) = audit \o a \o b
    BY <2>1, <2>2, <2>3
  <2> QED
    BY <2>3, <2>4 DEF a, b
<1> HIDE DEF q
<1> QED
  BY <1>1, <1>2, <1>3, <1>4, <1>5, <1>6, <1>8, <1>9,
     WorkflowNames, DecisionNames, RecordNames, TrailNames DEF Lifecycle!CaptureOutcome

LEMMA StepCommits ==
  ASSUME SeedTyped, NEW c \in Clients, CommitsCurrent(c), requests[c].kind = "step"
  PROVE  Lifecycle!NextStep
<1> DEFINE q == requests[c]
           target == handlers[incident.workflow_status]
           reason == human_review_reason(row.diagnosis)
<1>0. /\ Commit(c) /\ q.kind = "step" /\ refusal(q) = "none"
      /\ q.incident = incident /\ q.proposal = proposal
      /\ q.part_checks = part_checks /\ q.work_orders = work_orders
  BY DEF CommitsCurrent
<1>1. incident' = result(q) /\ incident \in Incident /\ row' = row
  BY Committing
<1>2. agent_runs' = Serial!ran(agents(q)) /\ agent_runs \in AgentRuns
  BY Committing DEF SeedTyped, CommittedTyped
<1>3. step_refusal(q) = "none"
  BY <1>0 DEF refusal
<1>4. /\ incident.workflow_status \in {"watch", "escalated", "diagnosed", "approved"}
      /\ incident.workflow_status \in {"diagnosed", "approved"} => incident.cloud_available
      /\ target = "approval_required" => ~planner_raises(proposal)
  <2>1. DOMAIN handlers = {"watch", "escalated", "diagnosed", "approved"}
    BY DEF handlers
  <2> QED
    BY <1>0, <1>3, <2>1 DEF step_refusal
<1>5. UNCHANGED <<proposal, decisions, work_orders, outcomes>>
  BY <1>0 DEF Commit, written_rows, committed_decisions, committed_orders
<1>6. audit' = audit \o transition_events(incident, result(q).workflow_status)
  BY <1>0 DEF Commit, trail
<1>7. result(q).workflow_status # "approval_required" => part_checks' = part_checks
  BY <1>0 DEF Commit, committed_checks, plans_a_part
<1>8. target # "human_review" => result(q) = moved(incident, target)
  BY <1>0 DEF result
<1> HIDE DEF q
<1>9. CASE incident.workflow_status = "watch"
  <2>1. target = "escalated"
    BY <1>9 DEF handlers
  <2>2. result(q) = moved(incident, "escalated") /\ result(q).workflow_status = "escalated"
    BY <1>1, <1>8, <2>1, Moved DEF WorkflowStatus
  <2>3. agents(q) = {"sentinel"}
    BY <1>0, <1>9, <2>2 DEF q, agents, plans_a_part, AgentKind
  <2>4. may_move(incident, "escalated")
    BY <1>9 DEF may_move, can_transition, ALLOWED_TRANSITIONS, cloud_refuses,
       CLOUD_DEPENDENT_STATES
  <2> QED
    BY <1>1, <1>2, <1>5, <1>6, <1>7, <1>9, <2>2, <2>3, <2>4, WorkflowNames, TrailNames
       DEF Lifecycle!NextStep, Lifecycle!Escalate
<1>10. CASE incident.workflow_status = "escalated"
  <2>1. target = "diagnosed"
    BY <1>10 DEF handlers
  <2>2. result(q) = moved(incident, "diagnosed") /\ result(q).workflow_status = "diagnosed"
    BY <1>1, <1>8, <2>1, Moved DEF WorkflowStatus
  <2>3. agents(q) = {"diagnosis"}
    BY <1>0, <1>10, <2>2 DEF q, agents, plans_a_part, AgentKind
  <2>4. may_move(incident, "diagnosed")
    BY <1>10 DEF may_move, can_transition, ALLOWED_TRANSITIONS, cloud_refuses,
       CLOUD_DEPENDENT_STATES
  <2> QED
    BY <1>1, <1>2, <1>5, <1>6, <1>7, <1>10, <2>2, <2>3, <2>4, WorkflowNames, TrailNames
       DEF Lifecycle!NextStep, Lifecycle!Diagnose
<1>11. CASE incident.workflow_status = "diagnosed" /\ reason # NO_REASON
  <2>1. target = "human_review"
    BY <1>11 DEF handlers
  <2>2. result(q) = routed_to_review(incident, reason)
    BY <1>0, <2>1 DEF q, result
  <2>3. result(q).workflow_status = "human_review"
    BY <1>1, <2>2 DEF routed_to_review, moved, Incident
  <2>4. agents(q) = {}
    BY <1>0, <1>11, <2>3 DEF q, agents, plans_a_part
  <2>5. may_move(incident, "human_review")
    BY <1>11 DEF may_move, can_transition, ALLOWED_TRANSITIONS, cloud_refuses,
       CLOUD_DEPENDENT_STATES
  <2>6. agent_runs' = agent_runs
    BY <1>2, <2>4, NobodyRan
  <2> QED
    BY <1>1, <1>4, <1>5, <1>6, <1>7, <1>11, <2>2, <2>3, <2>5, <2>6,
       WorkflowNames, DecisionNames, RecordNames
       DEF Lifecycle!NextStep, Lifecycle!RouteToReview
<1>12. CASE incident.workflow_status = "diagnosed" /\ reason = NO_REASON
  <2>1. target = "approval_required"
    BY <1>12 DEF handlers
  <2>2. /\ result(q) = moved(incident, "approval_required")
        /\ result(q).workflow_status = "approval_required"
    BY <1>1, <1>8, <2>1, Moved DEF WorkflowStatus
  <2>3. plans_a_part(q) <=> part_checks = no_part_checks
    BY <1>0, <2>2 DEF q, plans_a_part
  <2>4. agents(q) = IF part_checks = no_part_checks THEN {"parts"} ELSE {}
    BY <1>0, <1>12, <2>3 DEF q, agents, AgentKind
  <2>5. may_move(incident, "approval_required")
    BY <1>4, <1>12 DEF may_move, can_transition, ALLOWED_TRANSITIONS, cloud_refuses
  <2>6. part_checks' \in planned_checks(part_checks)
    <3>1. part_checks' \in committed_checks(q) /\ q.kind = "step"
      BY <1>0 DEF q, Commit
    <3>2. CASE part_checks = no_part_checks
      <4>1. {p \in Parts : part_checks[p] = "absent"} = Parts
        BY <3>2 DEF no_part_checks
      <4>2. committed_checks(q) =
              {[part_checks EXCEPT ![p] = "checked_not_reserved"] : p \in Parts}
        BY <2>3, <3>1, <3>2, <4>1 DEF committed_checks
      <4> QED
        BY <3>1, <3>2, <4>2 DEF planned_checks
    <3>3. CASE part_checks # no_part_checks
      BY <2>3, <3>1, <3>3 DEF committed_checks, planned_checks
    <3> QED
      BY <3>2, <3>3
  <2> QED
    BY <1>1, <1>2, <1>4, <1>5, <1>6, <1>12, <2>1, <2>2, <2>4, <2>5, <2>6,
       WorkflowNames, DecisionNames, RecordNames, TrailNames
       DEF Lifecycle!NextStep, Lifecycle!RouteToApproval
<1>13. CASE incident.workflow_status = "approved"
  <2>1. target = "work_order_live"
    BY <1>13 DEF handlers
  <2>2. /\ result(q) = moved(incident, "work_order_live")
        /\ result(q).workflow_status = "work_order_live"
    BY <1>1, <1>8, <2>1, Moved DEF WorkflowStatus
  <2>3. agents(q) = {}
    BY <1>0, <1>13, <2>2 DEF q, agents, plans_a_part
  <2>4. may_move(incident, "work_order_live")
    BY <1>4, <1>13 DEF may_move, can_transition, ALLOWED_TRANSITIONS, cloud_refuses
  <2>5. agent_runs' = agent_runs
    BY <1>2, <2>3, NobodyRan
  <2> QED
    BY <1>1, <1>4, <1>5, <1>6, <1>7, <1>13, <2>2, <2>4, <2>5, WorkflowNames
       DEF Lifecycle!NextStep, Lifecycle!DispatchWorkOrder
<1> QED
  BY <1>4, <1>9, <1>10, <1>11, <1>12, <1>13

LEMMA CommitImplements ==
  ASSUME SeedTyped, NEW c \in Clients, CommitsCurrent(c),
         Count(audit, "approval.rejected") < MaxRequests
  PROVE  Lifecycle!Next
<1>1. requests[c].kind \in Kind
  BY DEF CommitsCurrent, Request
<1> QED
  BY <1>1, ApprovalCommits, RejectionCommits, OutcomeCommits, StepCommits
     DEF Kind, Lifecycle!Next

\* The refusal that is audited.
LEMMA RefusalImplements ==
  ASSUME NEW c \in Clients, RefuseOffline(c), requests[c].kind \in Kind,
         requests[c].incident = incident, Count(audit, "cloud.action_blocked") < MaxRequests
  PROVE  Lifecycle!Next
<1> DEFINE q == requests[c]
<1>1. /\ refusal(q) = "CLOUD_UNAVAILABLE"
      /\ audit' = Append(audit, event("cloud.action_blocked"))
      /\ UNCHANGED <<row, incident, proposal, part_checks, decisions, work_orders,
                     outcomes, agent_runs>>
  BY DEF RefuseOffline
<1>2. CASE q.kind = "approve"
  <2>1. cloud_refuses(incident, "none")
    BY <1>1, <1>2 DEF refusal, approval_refusal
  <2> QED
    BY <1>1, <2>1, WorkflowNames, Recorded DEF Lifecycle!Next, Lifecycle!BlockedApproval
<1>3. CASE q.kind = "step"
  <2>1. incident.workflow_status \in {"diagnosed", "approved"} /\ ~incident.cloud_available
    BY <1>1, <1>3 DEF refusal, step_refusal
  <2> QED
    BY <1>1, <2>1, WorkflowNames, Recorded DEF Lifecycle!Next, Lifecycle!BlockedStep
<1>4. q.kind \notin {"reject", "outcome"}
  BY <1>1 DEF refusal, rejection_refusal, outcome_refusal
<1> QED
  BY <1>2, <1>3, <1>4 DEF Kind

\* The script's commit, when nothing was written since it read.
LEMMA SeedCommitImplements ==
  ASSUME SeedTyped, SeedReads, SeedCommit, seed.incident = incident,
         seed.orders = Len(work_orders), seed.agent_runs = agent_runs,
         Count(audit, "demo.seeded") <= MaxSeedRuns
  PROVE  Lifecycle!Reseed
<1>1. seed # NotSeeding /\ row.demo /\ row \in Rows
  BY ScriptIdle DEF SeedCommit, SeedReads, SeedTyped, CommittedTyped
<1>2. incident' = Lifecycle!reseeded(row, incident)
  <2> DEFINE new == Lifecycle!reseeded(row, incident)
  <2>1. incident \in Incident /\ new \in Incident
    BY <1>1, Reseeding DEF SeedTyped, CommittedTyped
  <2>2. incident' = overwritten(incident, incident, new)
    BY DEF SeedCommit, incident_reseeded
  <2> HIDE DEF new
  <2>3. overwritten(incident, incident, new) = new
    BY <2>1, OverwrittenCurrent
  <2>4. incident' = new
    BY <2>2, <2>3
  <2> QED
    BY <2>4 DEF new
<1>3. surviving_orders = <<>>
  <2>1. work_orders \in Seq(WorkOrderStatus) /\ Len(work_orders) \in Nat
    BY DEF SeedTyped, CommittedTyped
  <2> QED
    BY <2>1 DEF surviving_orders
<1>4. work_orders' = row.work_orders
  <2>1. row.work_orders \in Seq(WorkOrderStatus)
    BY <1>1, ApiRowsAssumption DEF Row
  <2>2. work_orders' = <<>> \o row.work_orders
    BY <1>3 DEF SeedCommit
  <2> QED
    BY <2>1, <2>2
<1>5. outcomes' = <<>>
  BY <1>3 DEF SeedCommit, surviving_outcomes
<1>6. agent_runs' = Lifecycle!seeded_runs(row)
  <2> DEFINE s == Lifecycle!seeded_runs(row)
  <2>1. s \in [AgentKind -> {0, 1}]
    BY <1>1, Reseeding DEF SeedTyped, CommittedTyped
  <2>2. agent_runs' = [k \in AgentKind |-> agent_runs[k] - seed.agent_runs[k] + s[k]]
    BY DEF SeedCommit
  <2> HIDE DEF s
  <2>3. \A k \in AgentKind : agent_runs[k] \in Nat /\ s[k] \in {0, 1}
    BY <2>1 DEF SeedTyped, CommittedTyped, AgentRuns
  <2>4. \A k \in AgentKind : agent_runs[k] - agent_runs[k] + s[k] = s[k]
    BY <2>3
  <2>5. agent_runs' = [k \in AgentKind |-> s[k]]
    BY <2>2, <2>4
  <2>6. [k \in AgentKind |-> s[k]] = s
    BY <2>1
  <2>7. agent_runs' = s
    BY <2>5, <2>6
  <2> QED
    BY <2>7 DEF s
<1> QED
  BY <1>1, <1>2, <1>4, <1>5, <1>6, Recorded DEF SeedCommit, Lifecycle!Reseed

-----------------------------------------------------------------------------
\* What a request, and the script, adds to the counts.

None(s, t) == s \in Seq(AuditEvent) /\ Count(s, t) = 0

LEMMA NoneInBoth ==
  ASSUME NEW s, NEW u, NEW t, None(s, t), None(u, t)
  PROVE  None(s \o u, t)
<1>1. s \o u \in Seq(AuditEvent)
  BY DEF None
<1> QED
  BY <1>1, CountOfBoth DEF None

LEMMA NoneInMove ==
  ASSUME NEW i \in Incident, NEW target \in WorkflowStatus, NEW t,
         t # "workflow.transitioned"
  PROVE  None(transition_events(i, target), t)
<1>1. CASE i.workflow_status = target
  BY <1>1, CountOfNone DEF transition_events, None
<1>2. CASE i.workflow_status # target
  <2> DEFINE e == [event_type     |-> "workflow.transitioned",
                   previous_state |-> i.workflow_status,
                   next_state     |-> target]
  <2>1. e \in AuditEvent /\ e.event_type = "workflow.transitioned"
    BY DEF AuditEvent, EventType, Incident
  <2>2. transition_events(i, target) = <<e>>
    BY <1>2 DEF transition_events
  <2> HIDE DEF e
  <2>3. Count(<<e>>, t) = 0 /\ <<e>> \in Seq(AuditEvent)
    BY <2>1, CountOfOne
  <2> QED
    BY <2>2, <2>3 DEF None
<1> QED
  BY <1>1, <1>2

LEMMA CountOfEvent ==
  ASSUME NEW type \in EventType, NEW t
  PROVE  /\ <<event(type)>> \in Seq(AuditEvent)
         /\ Count(<<event(type)>>, t) = IF type = t THEN 1 ELSE 0
<1>1. event(type).event_type = type
  BY DEF event
<1> QED
  BY <1>1, EventTyped, CountOfOne

\* A trail is counted once at most as a rejection, and as nothing else.
LEMMA TrailCounts ==
  ASSUME NEW q \in Request, Accepted(q)
  PROVE  /\ trail(q) \in Seq(AuditEvent)
         /\ None(trail(q), "cloud.action_blocked") /\ None(trail(q), "demo.seeded")
         /\ Count(trail(q), "approval.rejected") \in {0, 1}
<1> DEFINE i == q.incident
           N(s) == None(s, "cloud.action_blocked") /\ None(s, "demo.seeded")
           R(s) == None(s, "approval.rejected")
<1>1. /\ i \in Incident /\ q.kind \in Kind /\ trail(q) \in Seq(AuditEvent)
      /\ result(q) \in Incident
  BY RequestMoves DEF Request, EndsWithMoveTo
<1>2. \A j \in Incident : \A target \in WorkflowStatus :
        N(transition_events(j, target)) /\ R(transition_events(j, target))
  BY NoneInMove
<1>3. \A s, u : (N(s) /\ N(u) => N(s \o u)) /\ (R(s) /\ R(u) => R(s \o u))
  BY NoneInBoth
<1>4. \A type \in EventType \ {"cloud.action_blocked", "demo.seeded"} :
        N(<<event(type)>>) /\ (type # "approval.rejected" => R(<<event(type)>>))
  BY CountOfEvent DEF None
<1>5. \A s : R(s) => Count(s, "approval.rejected") \in {0, 1}
  BY DEF None
<1>6. R(<<>>) /\ N(<<>>)
  BY CountOfNone DEF None
<1>7. moved(i, "approved") \in Incident /\ moved(i, "rejected") \in Incident
  BY <1>1, Moved DEF WorkflowStatus
<1>8. CASE q.kind = "approve"
  <2> DEFINE a == <<event("approval.created")>>
             b == transition_events(i, "approved")
             d == IF unreserved(q.part_checks) # {} THEN <<event("part.reserved")>> ELSE <<>>
             e == <<event("work_order.created")>>
             f == transition_events(moved(i, "approved"), "work_order_live")
  <2>1. trail(q) = a \o b \o d \o e \o f
    BY <1>8, Trails DEF trail
  <2>2. N(a) /\ R(a) /\ N(b) /\ R(b) /\ N(d) /\ R(d) /\ N(e) /\ R(e) /\ N(f) /\ R(f)
    BY <1>1, <1>2, <1>4, <1>6, <1>7 DEF EventType, WorkflowStatus
  <2> HIDE DEF a, b, d, e, f, N, R
  <2>3. N(a \o b) /\ R(a \o b)
    BY <1>3, <2>2
  <2>4. N(a \o b \o d) /\ R(a \o b \o d)
    BY <1>3, <2>2, <2>3
  <2>5. N(a \o b \o d \o e) /\ R(a \o b \o d \o e)
    BY <1>3, <2>2, <2>4
  <2>6. N(trail(q)) /\ R(trail(q))
    BY <1>3, <2>1, <2>2, <2>5
  <2> QED
    BY <1>1, <1>5, <2>6 DEF N
<1>9. CASE q.kind = "reject"
  <2> DEFINE a == <<event("approval.rejected")>>
             b == transition_events(i, "rejected")
             d == transition_events(moved(i, "rejected"), "watch")
  <2>1. trail(q) = a \o b \o d
    BY <1>9, Trails DEF trail
  <2>2. N(a) /\ N(b) /\ R(b) /\ N(d) /\ R(d)
    BY <1>1, <1>2, <1>4, <1>7 DEF EventType, WorkflowStatus
  <2>3. Count(a, "approval.rejected") = 1
    BY CountOfEvent DEF EventType
  <2> HIDE DEF a, b, d, N
  <2>4. N(a \o b)
    BY <1>3, <2>2
  <2>5. N(trail(q))
    BY <1>3, <2>1, <2>2, <2>4
  <2>6. a \in Seq(AuditEvent) /\ b \in Seq(AuditEvent) /\ d \in Seq(AuditEvent)
    BY <2>2 DEF N, None
  <2>7. a \o b \in Seq(AuditEvent)
    BY <2>6
  <2>8. Count(a \o b, "approval.rejected") = 1
    BY <2>2, <2>3, <2>6, CountOfBoth DEF None
  <2>9. Count(trail(q), "approval.rejected") = 1
    <3> DEFINE ab == a \o b
    <3>1. ab \in Seq(AuditEvent) /\ Count(ab, "approval.rejected") = 1 /\ trail(q) = ab \o d
      BY <2>1, <2>7, <2>8
    <3> HIDE DEF ab
    <3>2. Count(d, "approval.rejected") = 0
      BY <2>2 DEF None
    <3>3. Count(ab \o d, "approval.rejected") = 1
      BY <2>6, <3>1, <3>2, CountOfBoth
    <3> QED
      BY <3>1, <3>3
  <2> QED
    BY <1>1, <2>5, <2>9 DEF N
<1>10. CASE q.kind = "outcome"
  <2> DEFINE a == <<event("outcome.captured")>>
             b == transition_events(i, "resolved")
  <2>1. trail(q) = a \o b
    BY <1>10 DEF trail
  <2>2. N(a) /\ R(a) /\ N(b) /\ R(b)
    BY <1>1, <1>2, <1>4 DEF EventType, WorkflowStatus
  <2> HIDE DEF a, b, N, R
  <2>3. N(trail(q)) /\ R(trail(q))
    BY <1>3, <2>1, <2>2
  <2> QED
    BY <1>1, <1>5, <2>3 DEF N
<1>11. CASE q.kind = "step"
  <2>1. trail(q) = transition_events(i, result(q).workflow_status)
    BY <1>11 DEF trail
  <2>2. result(q).workflow_status \in WorkflowStatus
    BY <1>1 DEF Incident
  <2>3. N(trail(q)) /\ R(trail(q))
    BY <1>1, <1>2, <2>1, <2>2
  <2> QED
    BY <1>1, <1>5, <2>3
<1> QED
  BY <1>1, <1>8, <1>9, <1>10, <1>11 DEF Kind

\* The script is counted as itself.
LEMMA SeedingCounts ==
  ASSUME NEW r, NEW t \in {"approval.rejected", "cloud.action_blocked", "demo.seeded"}
  PROVE  /\ Lifecycle!seeding_events(r) \in Seq(AuditEvent)
         /\ Count(Lifecycle!seeding_events(r), t) = IF t = "demo.seeded" THEN 1 ELSE 0
<1> DEFINE a == <<event("demo.seeded")>>
           e == [event_type     |-> "workflow.transitioned",
                 previous_state |-> "diagnosed",
                 next_state     |-> "approval_required"]
           b == IF r.incident.workflow_status = "approval_required" THEN <<e>> ELSE <<>>
<1>1. Lifecycle!seeding_events(r) = a \o b
  BY LifecycleNames, SerialNames DEF Serial!seeding_events
<1>2. a \in Seq(AuditEvent) /\ Count(a, t) = IF t = "demo.seeded" THEN 1 ELSE 0
  BY CountOfEvent DEF EventType
<1>3. e \in AuditEvent /\ e.event_type = "workflow.transitioned"
  BY DEF AuditEvent, EventType, WorkflowStatus
<1>4. b \in Seq(AuditEvent) /\ Count(b, t) = 0
  <2> HIDE DEF e
  <2>1. <<e>> \in Seq(AuditEvent) /\ Count(<<e>>, t) = 0
    BY <1>3, CountOfOne
  <2> QED
    BY <2>1, CountOfNone
<1> HIDE DEF a, b
<1>5. a \o b \in Seq(AuditEvent) /\ Count(a \o b, t) = Count(a, t) + Count(b, t)
  BY <1>2, <1>4, CountOfBoth
<1> QED
  BY <1>1, <1>2, <1>4, <1>5

-----------------------------------------------------------------------------
\* The invariant of requests and scripts that do not overlap.

InFlight(c) == requests[c].phase # "idle"

\* One thing at a time.
Alone ==
  \A c \in Clients : InFlight(c) =>
    seed = NotSeeding /\ \A d \in Clients : InFlight(d) => d = c

\* What a request has read is still there, and what it has not is not used.
CurrentCopies(q) ==
  /\ q.phase # "idle" => q.incident = incident
  /\ q.phase \in {"read"} \cup GoingPhase =>
       /\ q.proposal = proposal /\ q.part_checks = part_checks
       /\ q.work_orders = work_orders

\* So is what the script has read, and what it has counted so far.
ScriptCurrent ==
  /\ seed # NotSeeding => seed.incident = incident
  /\ seed.phase \in {"orders", "parts", "proposal", "written"} =>
       seed.orders = Len(work_orders)
  /\ seed.phase \in {"proposal", "written"} => seed.agent_runs = agent_runs

Current == (\A c \in Clients : CurrentCopies(requests[c])) /\ ScriptCurrent

Audited == {"approval.rejected", "cloud.action_blocked"}

\* The trail counts no more requests than were served, nor more runs than the
\* first and those begun since; the one in flight is not counted yet.
Counted ==
  /\ served \in 0..MaxRequests
  /\ \A t \in Audited :
       /\ Count(audit, t) <= served
       /\ \A c \in Clients : InFlight(c) => Count(audit, t) < served
  /\ Count(audit, "demo.seeded") <= runs + 1
  /\ seed # NotSeeding => Count(audit, "demo.seeded") <= runs

SerialInv == Alone /\ Current /\ Counted

LEMMA InitSerialInv == SeedInit => SerialInv
<1> SUFFICES ASSUME SeedInit PROVE SerialInv
  OBVIOUS
<1>1. /\ requests = [c \in Clients |-> Idle] /\ seed = NotSeeding /\ runs = 0 /\ served = 0
      /\ audit = IF row.demo THEN Serial!seeding_events(row) ELSE <<>>
  BY DEF SeedInit, Init, Serial!Init
<1>2. Alone /\ Current
  BY <1>1 DEF Alone, InFlight, Current, CurrentCopies, ScriptCurrent, Idle, NotSeeding,
     GoingPhase
<1>3. ASSUME NEW t \in {"approval.rejected", "cloud.action_blocked", "demo.seeded"}
      PROVE  Count(audit, t) = 0 \/ (t = "demo.seeded" /\ Count(audit, t) = 1)
  <2>1. CASE row.demo
    <3>1. audit = Lifecycle!seeding_events(row)
      BY <1>1, <2>1, LifecycleNames
    <3> QED
      BY <1>3, <3>1, SeedingCounts
  <2>2. CASE ~row.demo
    BY <1>1, <2>2, CountOfNone
  <2> QED
    BY <2>1, <2>2
<1>4. Counted
  <2>1. \A c \in Clients : ~InFlight(c)
    BY <1>1 DEF InFlight, Idle
  <2>2. \A t \in Audited : Count(audit, t) = 0
    BY <1>3 DEF Audited
  <2>3. Count(audit, "demo.seeded") \in {0, 1}
    BY <1>3
  <2> QED
    BY <1>1, <2>1, <2>2, <2>3, RequestBoundsAssumption DEF Counted
<1> QED
  BY <1>2, <1>4 DEF SerialInv

\* Nothing is in flight any more.
LEMMA AtRest ==
  ASSUME \A c \in Clients : requests'[c].phase = "idle", seed' = NotSeeding,
         served' \in 0..MaxRequests,
         \A t \in Audited : Count(audit', t) <= served',
         Count(audit', "demo.seeded") <= runs' + 1
  PROVE  SerialInv'
<1>1. \A c \in Clients : ~InFlight(c)'
  BY DEF InFlight
<1>2. Alone'
  BY <1>1 DEF Alone
<1>3. Current'
  BY DEF Current, CurrentCopies, ScriptCurrent, NotSeeding, GoingPhase
<1>4. \A t : Count(audit, t)' = Count(audit', t)
  BY DEF Count
<1>5. Counted'
  BY <1>1, <1>4 DEF Counted
<1> QED
  BY <1>2, <1>3, <1>5 DEF SerialInv

\* The request of c ends, and has left at most one row of each kind behind.
LEMMA RequestEnds ==
  ASSUME SeedTyped, SeedTyped', SerialInv, NEW c \in Clients, InFlight(c), ends(c),
         UNCHANGED <<seed, served, runs>>,
         \A t \in Audited : Count(audit', t) <= Count(audit, t) + 1,
         Count(audit', "demo.seeded") <= Count(audit, "demo.seeded")
  PROVE  SerialInv'
<1>1. \A d \in Clients : requests'[d].phase = "idle"
  <2>1. /\ requests'[c] = Idle
        /\ \A d \in Clients \ {c} : requests'[d] = requests[d]
    BY Ending, Becoming
  <2> QED
    BY <2>1 DEF SerialInv, Alone, InFlight, Idle
<1>2. seed = NotSeeding
  BY DEF SerialInv, Alone
<1>3. /\ audit \in Seq(AuditEvent) /\ audit' \in Seq(AuditEvent)
      /\ runs \in Nat /\ served \in 0..MaxRequests /\ MaxRequests \in Nat
  BY RequestBoundsAssumption DEF SeedTyped, CommittedTyped, SerialInv, Counted
<1>4. \A t : Count(audit, t) \in Nat /\ Count(audit', t) \in Nat
  BY <1>3, CountTyped
<1>5. ASSUME NEW t \in Audited PROVE Count(audit', t) <= served
  <2>1. Count(audit, t) < served
    BY DEF SerialInv, Counted
  <2>2. Count(audit', t) <= Count(audit, t) + 1
    OBVIOUS
  <2> QED
    BY <1>3, <1>4, <2>1, <2>2
<1>6. Count(audit', "demo.seeded") <= runs + 1
  <2>1. Count(audit, "demo.seeded") <= runs + 1
    BY DEF SerialInv, Counted
  <2> QED
    BY <1>3, <1>4, <2>1
<1> QED
  BY <1>1, <1>2, <1>3, <1>5, <1>6, AtRest

\* The request of c ends and commits nothing.
LEMMA RequestEndsEmpty ==
  ASSUME SeedTyped, SeedTyped', SerialInv, NEW c \in Clients, InFlight(c), ends(c),
         UNCHANGED <<seed, served, runs, audit>>
  PROVE  SerialInv'
<1>1. \A t : Count(audit, t) \in Nat
  BY CountTyped DEF SeedTyped, CommittedTyped
<1>2. \A t : Count(audit', t) = Count(audit, t)
  OBVIOUS
<1>3. /\ \A t \in Audited : Count(audit', t) <= Count(audit, t) + 1
      /\ Count(audit', "demo.seeded") <= Count(audit, "demo.seeded")
  BY <1>1, <1>2
<1> QED
  BY <1>3, RequestEnds

\* The script's transaction ends.
LEMMA ScriptEnds ==
  ASSUME SeedTyped, SeedTyped', SerialInv, seed # NotSeeding, seed' = NotSeeding,
         UNCHANGED <<requests, served, runs>>,
         \A t \in Audited : Count(audit', t) <= Count(audit, t),
         Count(audit', "demo.seeded") <= Count(audit, "demo.seeded") + 1
  PROVE  SerialInv'
<1>1. \A d \in Clients : requests'[d].phase = "idle"
  BY DEF SerialInv, Alone, InFlight
<1>2. /\ audit \in Seq(AuditEvent) /\ audit' \in Seq(AuditEvent)
      /\ runs \in Nat /\ served \in 0..MaxRequests /\ MaxRequests \in Nat
  BY RequestBoundsAssumption DEF SeedTyped, CommittedTyped, SerialInv, Counted
<1>3. \A t : Count(audit, t) \in Nat /\ Count(audit', t) \in Nat
  BY <1>2, CountTyped
<1>4. ASSUME NEW t \in Audited PROVE Count(audit', t) <= served
  <2>1. Count(audit, t) <= served /\ Count(audit', t) <= Count(audit, t)
    BY DEF SerialInv, Counted
  <2> QED
    BY <1>2, <1>3, <2>1
<1>5. Count(audit', "demo.seeded") <= runs + 1
  <2>1. Count(audit, "demo.seeded") <= runs
    BY DEF SerialInv, Counted
  <2> QED
    BY <1>2, <1>3, <2>1
<1> QED
  BY <1>1, <1>2, <1>4, <1>5, AtRest

\* The request of c goes on, and is about the same incident.
LEMMA RequestGoesOn ==
  ASSUME SeedTyped, SerialInv, NEW c \in Clients, InFlight(c),
         NEW x, Becomes(c, x), UNCHANGED committed, UNCHANGED <<seed, served, runs>>,
         x.phase # "idle", x.incident = requests[c].incident,
         x.proposal = proposal, x.part_checks = part_checks, x.work_orders = work_orders
  PROVE  SerialInv'
<1>1. /\ requests'[c] = x
      /\ \A d \in Clients \ {c} : requests'[d] = requests[d]
  BY Becoming
<1>2. UNCHANGED <<incident, proposal, part_checks, work_orders, agent_runs, audit>>
  BY DEF committed
<1>3. \A d \in Clients : InFlight(d)' <=> InFlight(d)
  BY <1>1 DEF InFlight
<1>4. Alone'
  BY <1>3 DEF SerialInv, Alone
<1>5. Current'
  <2>1. CurrentCopies(requests[c])'
    BY <1>1, <1>2 DEF SerialInv, Current, CurrentCopies, InFlight
  <2>2. ASSUME NEW d \in Clients, d # c PROVE CurrentCopies(requests[d])'
    <3>1. requests'[d] = requests[d]
      BY <1>1, <2>2
    <3> QED
      BY <1>2, <3>1 DEF SerialInv, Current, CurrentCopies
  <2>3. ScriptCurrent'
    BY <1>2 DEF SerialInv, Current, ScriptCurrent
  <2> QED
    BY <2>1, <2>2, <2>3 DEF Current
<1>6. \A t : Count(audit, t)' = Count(audit, t)
  BY <1>2 DEF Count
<1>7. Counted'
  BY <1>3, <1>6 DEF SerialInv, Counted
<1> QED
  BY <1>4, <1>5, <1>7 DEF SerialInv

\* The script goes on, and still has what is committed.
LEMMA ScriptAdvances ==
  ASSUME SerialInv, seed # NotSeeding, seed' # NotSeeding, ScriptCurrent',
         UNCHANGED committed, UNCHANGED <<requests, served, runs>>
  PROVE  SerialInv'
<1>1. UNCHANGED <<incident, proposal, part_checks, work_orders, agent_runs, audit>>
  BY DEF committed
<1>2. \A d \in Clients : ~InFlight(d) /\ ~InFlight(d)'
  BY DEF SerialInv, Alone, InFlight
<1>3. Alone'
  BY <1>2 DEF Alone
<1>4. \A d \in Clients : CurrentCopies(requests[d])'
  BY <1>1 DEF SerialInv, Current, CurrentCopies
<1>5. \A t : Count(audit, t)' = Count(audit, t)
  BY <1>1 DEF Count
<1>6. Counted'
  BY <1>2, <1>5 DEF SerialInv, Counted
<1> QED
  BY <1>3, <1>4, <1>6 DEF SerialInv, Current

\* A request is sent when nothing is in flight.
LEMMA RequestBegins ==
  ASSUME SeedTyped, SerialInv, nothing_in_flight, NEW c \in Clients, NEW kind \in Kind,
         Beside(Load(c, kind))
  PROVE  SerialInv'
<1>0. /\ Load(c, kind) /\ UNCHANGED <<seed, gone, runs>> /\ seed = NotSeeding
      /\ UNCHANGED <<incident, proposal, part_checks, work_orders, agent_runs, audit>>
      /\ served < MaxRequests /\ served' = served + 1
      /\ \A d \in Clients : ~InFlight(d)
  BY DEF Beside, Load, nothing_in_flight, at_rest, in_phase, InFlight, committed
<1>1. PICK x \in Request : Becomes(c, x) /\ x.phase = "loaded" /\ x.incident = incident
  BY <1>0, Loading
<1>2. /\ requests'[c] = x
      /\ \A d \in Clients \ {c} : requests'[d] = requests[d]
  BY <1>1, Becoming
<1>3. \A d \in Clients : InFlight(d)' <=> d = c
  BY <1>0, <1>1, <1>2 DEF InFlight
<1>4. Alone'
  BY <1>0, <1>3 DEF Alone
<1>5. Current'
  <2>1. CurrentCopies(requests[c])'
    BY <1>0, <1>1, <1>2 DEF CurrentCopies, GoingPhase
  <2>2. ASSUME NEW d \in Clients, d # c PROVE CurrentCopies(requests[d])'
    <3>1. requests'[d] = requests[d]
      BY <1>2, <2>2
    <3> QED
      BY <1>0, <3>1 DEF SerialInv, Current, CurrentCopies
  <2>3. ScriptCurrent'
    BY <1>0 DEF SerialInv, Current, ScriptCurrent
  <2> QED
    BY <2>1, <2>2, <2>3 DEF Current
<1>6. \A t : Count(audit, t)' = Count(audit, t) /\ Count(audit, t) \in Nat
  <2>1. \A t : Count(audit, t)' = Count(audit, t)
    BY <1>0 DEF Count
  <2>2. \A t : Count(audit, t) \in Nat
    BY CountTyped DEF SeedTyped, CommittedTyped
  <2> QED
    BY <2>1, <2>2
<1>7. Counted'
  <2>1. served \in 0..MaxRequests /\ MaxRequests \in Nat /\ served' \in 0..MaxRequests
    BY <1>0, RequestBoundsAssumption DEF SerialInv, Counted
  <2>2. \A t \in Audited : Count(audit, t)' < served'
    BY <1>0, <1>6, <2>1 DEF SerialInv, Counted
  <2>3. \A t \in Audited : Count(audit, t)' <= served'
    BY <1>6, <2>1, <2>2
  <2>4. Count(audit, "demo.seeded")' <= runs' + 1 /\ seed' = NotSeeding
    BY <1>0, <1>6 DEF SerialInv, Counted
  <2> QED
    BY <2>1, <2>2, <2>3, <2>4 DEF Counted
<1> QED
  BY <1>4, <1>5, <1>7 DEF SerialInv

\* So is the script started.
LEMMA ScriptBegins ==
  ASSUME SeedTyped, SerialInv, nothing_in_flight, NEW passes, SeedLoad(passes)
  PROVE  SerialInv'
<1>1. /\ seed = NotSeeding /\ runs' = runs + 1 /\ runs \in Nat
      /\ seed'.phase = "loaded" /\ seed'.incident = incident
      /\ UNCHANGED <<requests, served, incident, proposal, part_checks, work_orders,
                     agent_runs, audit>>
  BY DEF SeedLoad, SeedTyped, vars
<1>2. \A d \in Clients : ~InFlight(d) /\ ~InFlight(d)'
  BY <1>1 DEF nothing_in_flight, at_rest, in_phase, InFlight
<1>3. Alone'
  BY <1>2 DEF Alone
<1>4. \A d \in Clients : CurrentCopies(requests[d])'
  BY <1>1 DEF SerialInv, Current, CurrentCopies
<1>5. ScriptCurrent'
  BY <1>1 DEF ScriptCurrent
<1>6. \A t : Count(audit, t)' = Count(audit, t) /\ Count(audit, t) \in Nat
  <2>1. \A t : Count(audit, t)' = Count(audit, t)
    BY <1>1 DEF Count
  <2>2. \A t : Count(audit, t) \in Nat
    BY CountTyped DEF SeedTyped, CommittedTyped
  <2> QED
    BY <2>1, <2>2
<1>7. Counted'
  <2>1. Count(audit, "demo.seeded") <= runs + 1
    BY DEF SerialInv, Counted
  <2>2. Count(audit, "demo.seeded")' <= runs' /\ Count(audit, "demo.seeded")' <= runs' + 1
    BY <1>1, <1>6, <2>1
  <2>3. served' = served
    BY <1>1
  <2> QED
    BY <1>2, <1>6, <2>2, <2>3 DEF SerialInv, Counted
<1> QED
  BY <1>3, <1>4, <1>5, <1>7 DEF SerialInv, Current

\* A commit, and the audited refusal, end the one request in flight.
LEMMA CommitSerial ==
  ASSUME SeedInv, SeedTyped', SerialInv, NEW c \in Clients, Beside(Commit(c))
  PROVE  SerialInv' /\ Lifecycle!Next
<1> DEFINE q == requests[c]
<1>1. /\ Commit(c) /\ UNCHANGED <<seed, runs, served>> /\ q.phase = "answered"
      /\ ends(c) /\ audit' = audit \o trail(q) /\ SeedTyped /\ c \in going
  BY DEF SeedInv, Beside, Commit, in_phase, going
<1>2. q \in Request /\ refusal(q) = "none" /\ Accepted(q)
  BY <1>1, GoingOn DEF SeedInv, LockInv
<1>3. CommitsCurrent(c)
  BY <1>1, <1>2 DEF CommitsCurrent, SerialInv, Current, CurrentCopies, GoingPhase
<1>4. InFlight(c)
  BY <1>1 DEF InFlight
<1>5. audit \in Seq(AuditEvent) /\ served \in 0..MaxRequests /\ MaxRequests \in Nat
  BY <1>1, RequestBoundsAssumption DEF SeedTyped, CommittedTyped, SerialInv, Counted
<1> HIDE DEF q
<1>6. Lifecycle!Next
  <2>1. Count(audit, "approval.rejected") < served
    BY <1>4 DEF SerialInv, Counted, Audited
  <2>2. Count(audit, "approval.rejected") \in Nat
    BY <1>5, CountTyped
  <2>3. Count(audit, "approval.rejected") < MaxRequests
    BY <1>5, <2>1, <2>2
  <2> QED
    BY <1>1, <1>3, <2>3, CommitImplements
<1>7. SerialInv'
  <2>1. \A t : Count(audit, t) \in Nat
    BY <1>5, CountTyped
  <2>2. trail(q) \in Seq(AuditEvent)
    BY <1>2, TrailCounts
  <2>3. \A t : Count(audit', t) = Count(audit, t) + Count(trail(q), t)
    BY <1>1, <1>5, <2>2, CountOfBoth
  <2>4. /\ Count(trail(q), "cloud.action_blocked") = 0
        /\ Count(trail(q), "demo.seeded") = 0
        /\ Count(trail(q), "approval.rejected") \in {0, 1}
    BY <1>2, TrailCounts DEF None
  <2>5. \A t \in Audited : Count(audit', t) <= Count(audit, t) + 1
    BY <2>1, <2>3, <2>4 DEF Audited
  <2>6. Count(audit', "demo.seeded") <= Count(audit, "demo.seeded")
    BY <2>1, <2>3, <2>4
  <2> QED
    BY <1>1, <1>4, <2>5, <2>6, RequestEnds
<1> QED
  BY <1>6, <1>7

LEMMA RefusalSerial ==
  ASSUME SeedInv, SeedTyped', SerialInv, NEW c \in Clients, Beside(RefuseOffline(c))
  PROVE  SerialInv' /\ Lifecycle!Next
<1> DEFINE q == requests[c]
           e == event("cloud.action_blocked")
<1>1. /\ RefuseOffline(c) /\ UNCHANGED <<seed, runs, served>> /\ q.phase = "read"
      /\ ends(c) /\ audit' = Append(audit, e) /\ SeedTyped
  BY DEF SeedInv, Beside, RefuseOffline, in_phase
<1>2. q.kind \in Kind /\ q.incident = incident /\ InFlight(c)
  BY <1>1 DEF SeedTyped, Request, Idle, SerialInv, Current, CurrentCopies, InFlight
<1>3. audit \in Seq(AuditEvent) /\ served \in 0..MaxRequests /\ MaxRequests \in Nat
  BY <1>1, RequestBoundsAssumption DEF SeedTyped, CommittedTyped, SerialInv, Counted
<1>4. \A t : Count(audit, t) \in Nat
  BY <1>3, CountTyped
<1>5. Lifecycle!Next
  <2>1. Count(audit, "cloud.action_blocked") < served
    BY <1>2 DEF SerialInv, Counted, Audited
  <2>2. Count(audit, "cloud.action_blocked") < MaxRequests
    BY <1>3, <1>4, <2>1
  <2> QED
    BY <1>1, <1>2, <2>2, RefusalImplements
<1>6. SerialInv'
  <2>1. <<e>> \in Seq(AuditEvent) /\ audit' = audit \o <<e>>
    BY <1>1, <1>3, EventTyped DEF EventType
  <2>2. \A t : Count(<<e>>, t) = IF t = "cloud.action_blocked" THEN 1 ELSE 0
    BY CountOfEvent DEF EventType
  <2> HIDE DEF e
  <2>3. \A t : Count(audit', t) = Count(audit, t) + Count(<<e>>, t)
    BY <1>3, <2>1, CountOfBoth
  <2>4. /\ \A t \in Audited : Count(audit', t) <= Count(audit, t) + 1
        /\ Count(audit', "demo.seeded") <= Count(audit, "demo.seeded")
    BY <1>4, <2>2, <2>3
  <2> QED
    BY <1>1, <1>2, <2>4, RequestEnds
<1> QED
  BY <1>5, <1>6

LEMMA SeedCommitSerial ==
  ASSUME SeedInv, SeedTyped', SerialInv, SeedCommit
  PROVE  SerialInv' /\ Lifecycle!Next
<1>1. /\ seed # NotSeeding /\ seed.phase = "written" /\ seed' = NotSeeding
      /\ UNCHANGED <<requests, served, runs>> /\ SeedTyped /\ SeedReads
      /\ audit' = audit \o Lifecycle!seeding_events(row)
  BY ScriptIdle DEF SeedInv, SeedCommit
<1>2. audit \in Seq(AuditEvent) /\ runs \in 0..MaxSeedRuns /\ MaxSeedRuns \in Nat
  BY <1>1, SeedAssumption DEF SeedTyped, CommittedTyped
<1>3. \A t : Count(audit, t) \in Nat
  BY <1>2, CountTyped
<1>4. Lifecycle!Next
  <2>1. /\ seed.incident = incident /\ seed.orders = Len(work_orders)
        /\ seed.agent_runs = agent_runs
    BY <1>1 DEF SerialInv, Current, ScriptCurrent
  <2>2. Count(audit, "demo.seeded") <= runs
    BY <1>1 DEF SerialInv, Counted
  <2>3. Count(audit, "demo.seeded") <= MaxSeedRuns
    BY <1>2, <1>3, <2>2
  <2> QED
    BY <1>1, <2>1, <2>3, SeedCommitImplements DEF Lifecycle!Next
<1>5. SerialInv'
  <2> DEFINE s == Lifecycle!seeding_events(row)
  <2>1. /\ s \in Seq(AuditEvent) /\ Count(s, "demo.seeded") = 1
        /\ \A t \in Audited : Count(s, t) = 0
    BY SeedingCounts DEF Audited
  <2>2. audit' = audit \o s
    BY <1>1
  <2> HIDE DEF s
  <2>3. \A t : Count(audit', t) = Count(audit, t) + Count(s, t)
    BY <1>2, <2>1, <2>2, CountOfBoth
  <2>4. /\ \A t \in Audited : Count(audit', t) <= Count(audit, t)
        /\ Count(audit', "demo.seeded") <= Count(audit, "demo.seeded") + 1
    BY <1>3, <2>1, <2>3
  <2> QED
    BY <1>1, <2>4, ScriptEnds
<1> QED
  BY <1>4, <1>5

\* What the script reads again is what it has read.
LEMMA ReloadSerial ==
  ASSUME SeedInv, SerialInv, SeedReload
  PROVE  SerialInv' /\ UNCHANGED committed
<1>1. /\ UNCHANGED committed /\ UNCHANGED <<requests, served, runs>>
      /\ UNCHANGED <<incident, work_orders, agent_runs>>
      /\ SeedTyped /\ seed.phase = "proposal"
  BY DEF SeedInv, SeedReload, vars, committed
<1>2. seed # NotSeeding
  BY <1>1, ScriptIdle
<1>3. seed \in Seeding /\ seed.incident = incident
  BY <1>1, <1>2, ScriptRuns DEF SerialInv, Current, ScriptCurrent
<1>4. seed'.phase = "loaded" /\ seed'.incident = incident
  BY <1>3 DEF SeedReload, Seeding
<1>5. ScriptCurrent' /\ seed' # NotSeeding /\ seed'.phase # "idle"
  BY <1>1, <1>4 DEF ScriptCurrent, NotSeeding
<1> QED
  BY <1>1, <1>2, <1>5, ScriptAdvances

\* A statement of the script.
LEMMA ScriptSerial ==
  ASSUME SeedInv, SerialInv, PurgeOrders \/ PurgeParts \/ PurgeProposal \/ WriteIncident
  PROVE  SerialInv' /\ UNCHANGED committed
<1>1. SeedTyped /\ SeedLocks
  BY DEF SeedInv, PurgeOrders, PurgeParts, PurgeProposal, WriteIncident
<1>2. seed # NotSeeding
  BY ScriptIdle DEF PurgeOrders, PurgeParts, PurgeProposal, WriteIncident
<1>3. seed \in Seeding /\ seed.incident = incident
  BY <1>1, <1>2, ScriptRuns DEF SerialInv, Current, ScriptCurrent
<1>4. /\ UNCHANGED committed /\ UNCHANGED <<requests, served, runs>>
      /\ UNCHANGED <<incident, work_orders, agent_runs>>
  BY <1>1 DEF SeedLocks, committed
<1>5. seed'.phase # "idle" /\ ScriptCurrent'
  <2>1. CASE PurgeOrders
    <3>1. seed'.phase = "orders" /\ seed'.incident = incident /\ seed'.orders = Len(work_orders)
      BY <1>3, <2>1 DEF PurgeOrders, Seeding
    <3> QED
      BY <1>4, <3>1 DEF ScriptCurrent
  <2>2. CASE PurgeParts
    <3>1. /\ seed'.phase = "parts" /\ seed'.incident = incident
          /\ seed'.orders = seed.orders /\ seed.phase = "orders"
      BY <1>3, <2>2 DEF PurgeParts, seed_goes_to, Seeding
    <3> QED
      BY <1>4, <3>1 DEF SerialInv, Current, ScriptCurrent
  <2>3. CASE PurgeProposal
    <3>1. /\ seed'.phase = "proposal" /\ seed'.incident = incident
          /\ seed'.orders = seed.orders /\ seed.phase = "parts"
          /\ seed'.agent_runs = agent_runs
      BY <1>3, <2>3 DEF PurgeProposal, Seeding
    <3> QED
      BY <1>4, <3>1 DEF SerialInv, Current, ScriptCurrent
  <2>4. CASE WriteIncident
    <3>1. /\ seed'.phase = "written" /\ seed'.incident = incident
          /\ seed'.orders = seed.orders /\ seed.phase = "proposal"
          /\ seed'.agent_runs = seed.agent_runs
      BY <1>3, <2>4 DEF WriteIncident, seed_goes_to, Seeding
    <3> QED
      BY <1>4, <3>1 DEF SerialInv, Current, ScriptCurrent
  <2> QED
    BY <2>1, <2>2, <2>3, <2>4
<1>6. seed' # NotSeeding
  BY <1>5 DEF NotSeeding
<1> QED
  BY <1>2, <1>4, <1>5, <1>6, ScriptAdvances

LEMMA NextSerial ==
  ASSUME SeedInv, SerialInv, [SeedNext /\ (Begin => nothing_in_flight)]_seed_vars
  PROVE  SerialInv' /\ [Lifecycle!Next]_Lifecycle!vars
<1> DEFINE Goal == SerialInv' /\ [Lifecycle!Next]_Lifecycle!vars
<1>i. SeedTyped /\ SeedTyped'
  <2>1. [SeedNext]_seed_vars
    OBVIOUS
  <2> QED
    BY <2>1, NextSeedTyped DEF SeedInv
\* A step that commits nothing.
<1>s. ASSUME SerialInv', UNCHANGED committed PROVE Goal
  BY <1>s DEF committed, Lifecycle!vars
<1>e. ASSUME NEW c \in Clients, requests[c].phase # "idle", ends(c),
             UNCHANGED committed, UNCHANGED <<seed, served, runs>>
      PROVE  Goal
  <2>1. UNCHANGED <<seed, served, runs, audit>> /\ InFlight(c)
    BY <1>e DEF committed, InFlight
  <2> QED
    BY <1>i, <1>e, <1>s, <2>1, RequestEndsEmpty
<1>1. CASE UNCHANGED seed_vars
  <2>1. SerialInv'
    BY <1>1 DEF seed_vars, vars, SerialInv, Alone, InFlight, Current, CurrentCopies,
       ScriptCurrent, Counted, Count
  <2> QED
    BY <1>1, <1>s, <2>1 DEF seed_vars, vars, committed
<1>2. CASE Begin /\ nothing_in_flight
  <2>1. SerialInv'
    BY <1>2, <1>i, RequestBegins, ScriptBegins DEF Begin
  <2>2. UNCHANGED committed
    BY <1>2 DEF Begin, Beside, Load, SeedLoad, committed, vars
  <2> QED
    BY <1>s, <2>1, <2>2
<1>3. ASSUME NEW c \in Clients, ReadBeside(c) PROVE Goal
  <2>1. Read(c) /\ UNCHANGED committed /\ UNCHANGED <<seed, served, runs>> /\ InFlight(c)
    BY <1>3 DEF ReadBeside, Read, in_phase, InFlight
  <2>2. PICK x \in Request : /\ Becomes(c, x) /\ x.phase = "read"
                             /\ x.incident = requests[c].incident
                             /\ x.proposal = proposal /\ x.part_checks = part_checks
                             /\ x.work_orders = work_orders
    BY <1>i, <2>1, Reading
  <2> QED
    BY <1>i, <1>s, <2>1, <2>2, RequestGoesOn
<1>4. ASSUME NEW c \in Clients,
             \/ DecideBeside(c)
             \/ Beside(Move(c)) \/ Beside(Write(c)) \/ Beside(Answer(c))
      PROVE  Goal
  <2>1. /\ Decide(c) \/ Move(c) \/ Write(c) \/ Answer(c)
        /\ UNCHANGED committed /\ UNCHANGED <<seed, served, runs>>
        /\ requests[c].phase \in {"read"} \cup GoingPhase
    BY <1>4 DEF DecideBeside, Beside, Decide, Move, Write, Answer, in_phase, GoingPhase
  <2>2. PICK x \in Request :
          /\ Becomes(c, x) /\ x.phase \in GoingPhase /\ SameCopies(requests[c], x)
          /\ x.work_orders = requests[c].work_orders \/ x.work_orders = orders_found(requests[c])
    BY <1>i, <2>1, Deciding, Moving, Writing, Answering DEF GoingPhase
  <2>3. /\ requests[c].proposal = proposal /\ requests[c].part_checks = part_checks
        /\ requests[c].work_orders = work_orders
    BY <2>1 DEF SerialInv, Current, CurrentCopies
  <2>4. /\ x.phase # "idle" /\ x.incident = requests[c].incident
        /\ x.proposal = proposal /\ x.part_checks = part_checks
        /\ x.work_orders = work_orders
    BY <2>2, <2>3 DEF SameCopies, orders_found, GoingPhase
  <2>5. InFlight(c)
    BY <2>1 DEF InFlight, GoingPhase
  <2> QED
    BY <1>i, <1>s, <2>1, <2>2, <2>4, <2>5, RequestGoesOn
<1>5. ASSUME NEW c \in Clients, Beside(Refuse(c)) \/ RowsGone(c) \/ Beside(Fail(c))
      PROVE  Goal
  BY <1>5, <1>e DEF Beside, Refuse, RowsGone, Fail, in_phase
<1>6. ASSUME NEW c \in Clients, Beside(Commit(c)) \/ Beside(RefuseOffline(c)) PROVE Goal
  BY <1>6, <1>i, CommitSerial, RefusalSerial
<1>7. CASE PurgeOrders \/ PurgeParts \/ PurgeProposal \/ WriteIncident
  BY <1>7, <1>s, ScriptSerial
<1>r. CASE SeedReload
  BY <1>r, <1>s, ReloadSerial
<1>8. CASE SeedCommit
  BY <1>8, <1>i, SeedCommitSerial
<1>9. ASSUME seed # NotSeeding, SeedRollback PROVE Goal
  <2>1. seed' = NotSeeding /\ UNCHANGED committed /\ UNCHANGED <<requests, served, runs, audit>>
    BY <1>9 DEF SeedRollback, committed
  <2>2. \A t : Count(audit, t) \in Nat
    BY <1>i, CountTyped DEF SeedTyped, CommittedTyped
  <2>3. \A t : Count(audit', t) = Count(audit, t)
    BY <2>1
  <2>4. /\ \A t \in Audited : Count(audit', t) <= Count(audit, t)
        /\ Count(audit', "demo.seeded") <= Count(audit, "demo.seeded") + 1
    BY <2>2, <2>3
  <2> QED
    BY <1>i, <1>s, <1>9, <2>1, <2>4, ScriptEnds
\* A circle, if there ever is one, is of waiting transactions.
<1>10. CASE BreakCircle
  <2>0. PICK x \in UNION Circles :
          \/ x = SEED /\ SeedRollback
          \/ x \in Clients /\ ends(x) /\ UNCHANGED committed /\ UNCHANGED <<seed, served, runs>>
    BY <1>10 DEF BreakCircle
  <2>1. PICK S \in Circles : x \in S
    OBVIOUS
  <2>2. PICK y \in S : y \in blockers(x)
    BY <2>1 DEF Circles
  <2>3. CASE x = SEED /\ SeedRollback
    <3>1. seed # NotSeeding
      BY <1>i, <2>2, <2>3, ScriptWaits
    <3> QED
      BY <1>9, <2>3, <3>1
  <2>4. CASE x \in Clients /\ ends(x) /\ UNCHANGED committed /\ UNCHANGED <<seed, served, runs>>
    <3>1. requests[x].phase # "idle"
      <4>1. x # SEED
        BY <2>4, SeedAssumption
      <4> QED
        BY <2>2, <4>1 DEF blockers, waits_for, awaited
    <3> QED
      BY <1>e, <2>4, <3>1
  <2> QED
    BY <2>0, <2>3, <2>4
<1> QED
  BY <1>1, <1>2, <1>3, <1>4, <1>5, <1>6, <1>7, <1>8, <1>9, <1>10, <1>r
     DEF SeedNext, Advance, SeedStep, SeedFail

LEMMA SeedInitImplements == SeedInit => Lifecycle!Init
BY LifecycleNames DEF SeedInit, Init, Serial!Init, Lifecycle!Init,
   Lifecycle!AgentKind, Serial!AgentKind

-----------------------------------------------------------------------------
\* The theorem.

\* Requests and runs of the seed script that do not overlap do what
\* IncidentLifecycle says and nothing else: every commit is one of its actions
\* and every other statement a stutter (services/*.py, seed/demo.py: one
\* transaction each).
THEOREM OneAtATimeImplementsLifecycle == SerialSpec => ImplementsLifecycle
<1>1. SerialSpec => []SeedInv
  <2>1. [SeedNext /\ (Begin => nothing_in_flight)]_seed_vars => [SeedNext]_seed_vars
    OBVIOUS
  <2>2. SerialSpec => SeedSpec
    BY <2>1, PTL DEF SerialSpec, SeedSpec
  <2> QED
    BY <2>2, AlwaysSeedInv, PTL
<1>2. SeedInv /\ SerialInv /\ [SeedNext /\ (Begin => nothing_in_flight)]_seed_vars
        => SerialInv' /\ [Lifecycle!Next]_Lifecycle!vars
  BY NextSerial
<1> QED
  BY <1>1, <1>2, InitSerialInv, SeedInitImplements, PTL
     DEF SerialSpec, ImplementsLifecycle, Lifecycle!Spec
=============================================================================
