-------------------------- MODULE TrailChainProofs --------------------------
(***************************************************************************)
(* The recorded transitions of an incident form one chain that ends where  *)
(* the incident is, for every set of rows, parts and bounds.               *)
(*                                                                         *)
(* Every request appends single events and moves, and each move starts     *)
(* where the one before it ended: the argument is about appending one row. *)
(***************************************************************************)
EXTENDS AuditTrailProofs

-----------------------------------------------------------------------------
\* The promise, of any sequence of audit rows.

Moves(s) == {i \in DOMAIN s : s[i].event_type = "workflow.transitioned"}

\* Neither a move nor a run of the seed script lies between i and j.
Undisturbed(s, i, j) ==
  \A k \in (i + 1)..(j - 1) :
    s[k].event_type \notin {"workflow.transitioned", "demo.seeded"}

\* s is the trail of an incident that began at start and is at status.
Explains(s, start, status) ==
  /\ \A i, j \in Moves(s) :
       i < j /\ Undisturbed(s, i, j) => s[j].previous_state = s[i].next_state
  /\ \A i \in Moves(s) : Undisturbed(s, i, Len(s) + 1) => s[i].next_state = status
  /\ Moves(s) = {} => status = start

LEMMA TrailIsExplained ==
  TrailExplainsStatus <=> Explains(audit, row.incident.workflow_status,
                                   incident.workflow_status)
BY DEF TrailExplainsStatus, Explains, Moves, Undisturbed, transitions, type

-----------------------------------------------------------------------------
\* One row more.

\* Where the rows of an appended trail come from.
LEMMA AppendRows ==
  ASSUME NEW s \in Seq(AuditEvent), NEW e \in AuditEvent
  PROVE  /\ s \o <<e>> \in Seq(AuditEvent)
         /\ Len(s) \in Nat /\ Len(s \o <<e>>) = Len(s) + 1
         /\ DOMAIN s = 1..Len(s) /\ DOMAIN (s \o <<e>>) = 1..(Len(s) + 1)
         /\ \A i \in 1..Len(s) : (s \o <<e>>)[i] = s[i]
         /\ (s \o <<e>>)[Len(s) + 1] = e
OBVIOUS

\* What was undisturbed within s is so in the longer trail, and the other way
\* round.
LEMMA AppendUndisturbed ==
  ASSUME NEW s \in Seq(AuditEvent), NEW e \in AuditEvent,
         NEW i \in 1..Len(s), NEW j \in 1..(Len(s) + 1)
  PROVE  Undisturbed(s \o <<e>>, i, j) <=> Undisturbed(s, i, j)
<1> DEFINE l == s \o <<e>>
<1>1. \A k \in (i + 1)..(j - 1) : k \in 1..Len(s) /\ l[k] = s[k]
  BY AppendRows
<1> HIDE DEF l
<1>2. Undisturbed(l, i, j) <=> Undisturbed(s, i, j)
  BY <1>1 DEF Undisturbed
<1> QED
  BY <1>2 DEF l

\* A row that is no move leaves the explanation as it is, and a seed row makes
\* room for a new one.
LEMMA AppendEvent ==
  ASSUME NEW s \in Seq(AuditEvent), NEW e \in AuditEvent, NEW start, NEW status,
         Explains(s, start, status),
         e.event_type # "workflow.transitioned"
  PROVE  /\ Explains(s \o <<e>>, start, status)
         /\ e.event_type = "demo.seeded" => Explains(s \o <<e>>, start, start)
<1> SUFFICES ASSUME NEW status2,
                    \/ status2 = status
                    \/ e.event_type = "demo.seeded" /\ status2 = start
             PROVE  Explains(s \o <<e>>, start, status2)
  OBVIOUS
<1> DEFINE l == s \o <<e>>
<1>1. Moves(l) = Moves(s) /\ Moves(s) \subseteq 1..Len(s)
  BY AppendRows DEF Moves
<1>2. ASSUME NEW i \in Moves(l), NEW j \in Moves(l), i < j, Undisturbed(l, i, j)
      PROVE  l[j].previous_state = l[i].next_state
  <2>1. i \in 1..Len(s) /\ j \in 1..Len(s) /\ l[i] = s[i] /\ l[j] = s[j]
    BY <1>1, AppendRows
  <2>2. Undisturbed(s, i, j)
    BY <1>2, <2>1, AppendUndisturbed, AppendRows
  <2> QED
    BY <1>1, <1>2, <2>1, <2>2 DEF Explains
<1>3. ASSUME NEW i \in Moves(l), Undisturbed(l, i, Len(l) + 1)
      PROVE  l[i].next_state = status2
  <2>1. i \in 1..Len(s) /\ l[i] = s[i]
    BY <1>1, AppendRows
  <2>2. e.event_type # "demo.seeded"
    BY <1>3, <2>1, AppendRows DEF Undisturbed
  <2>3. Undisturbed(l, i, Len(s) + 1)
    BY <1>3, <2>1, AppendRows DEF Undisturbed
  <2>4. Undisturbed(s, i, Len(s) + 1)
    BY <2>1, <2>3, AppendUndisturbed, AppendRows
  <2> QED
    BY <1>1, <2>1, <2>2, <2>4 DEF Explains
<1>4. Moves(l) = {} => status2 = start
  BY <1>1 DEF Explains
<1> HIDE DEF l
<1>5. Explains(l, start, status2)
  BY <1>2, <1>3, <1>4 DEF Explains
<1> QED
  BY <1>5 DEF l

\* A move from where the trail ends leads the trail to where the move ends; so
\* does any move right after a run of the seed script.
LEMMA AppendMove ==
  ASSUME NEW s \in Seq(AuditEvent), NEW e \in AuditEvent, NEW start, NEW status,
         Explains(s, start, status),
         e.event_type = "workflow.transitioned",
         \/ e.previous_state = status
         \/ Len(s) > 0 /\ s[Len(s)].event_type = "demo.seeded"
  PROVE  Explains(s \o <<e>>, start, e.next_state)
<1> DEFINE l == s \o <<e>>
           n == Len(s) + 1
<1>1. Moves(l) = Moves(s) \cup {n} /\ Moves(s) \subseteq 1..Len(s)
  BY AppendRows DEF Moves
<1>2. ASSUME NEW i \in Moves(l), NEW j \in Moves(l), i < j, Undisturbed(l, i, j)
      PROVE  l[j].previous_state = l[i].next_state
  <2>1. i \in Moves(s) /\ i \in 1..Len(s) /\ l[i] = s[i]
    BY <1>1, <1>2, AppendRows
  <2>2. j \in 1..n /\ Undisturbed(s, i, j)
    BY <1>1, <1>2, <2>1, AppendUndisturbed, AppendRows
  <2>3. CASE j \in Moves(s)
    BY <1>1, <1>2, <2>1, <2>2, <2>3, AppendRows DEF Explains
  <2>4. CASE j = n
    <3>1. s[i].next_state = status
      BY <2>1, <2>2, <2>4 DEF Explains
    <3>2. ~(Len(s) > 0 /\ s[Len(s)].event_type = "demo.seeded")
      <4>1. s[i].event_type = "workflow.transitioned"
        BY <2>1 DEF Moves
      <4>2. i = Len(s) \/ Len(s) \in (i + 1)..(j - 1)
        BY <2>1, <2>4, AppendRows
      <4> QED
        BY <2>2, <4>1, <4>2 DEF Undisturbed
    <3> QED
      BY <2>1, <2>4, <3>1, <3>2, AppendRows
  <2> QED
    BY <1>1, <2>3, <2>4
<1>3. ASSUME NEW i \in Moves(l), Undisturbed(l, i, Len(l) + 1)
      PROVE  l[i].next_state = e.next_state
  <2>1. i \in Moves(s) => n \in (i + 1)..(Len(l) + 1 - 1)
    BY <1>1, AppendRows
  <2>2. l[n] = e
    BY AppendRows
  <2>3. i = n
    BY <1>1, <1>3, <2>1, <2>2 DEF Undisturbed
  <2> QED
    BY <2>2, <2>3
<1>4. Moves(l) # {}
  BY <1>1
<1> HIDE DEF l
<1>5. Explains(l, start, e.next_state)
  BY <1>2, <1>3, <1>4 DEF Explains
<1> QED
  BY <1>5 DEF l

-----------------------------------------------------------------------------
\* The trails of the requests.

LEMMA EventExplained ==
  ASSUME NEW s \in Seq(AuditEvent), NEW start, NEW status, Explains(s, start, status),
         NEW type_ \in EventType \ {"workflow.transitioned"}
  PROVE  /\ Explains(s \o <<event(type_)>>, start, status)
         /\ s \o <<event(type_)>> \in Seq(AuditEvent)
<1>1. event(type_) \in AuditEvent /\ event(type_).event_type # "workflow.transitioned"
  BY EventType1 DEF event
<1> DEFINE e == event(type_)
<1> HIDE DEF e
<1>2. e \in AuditEvent /\ e.event_type # "workflow.transitioned"
  BY <1>1 DEF e
<1>3. Explains(s \o <<e>>, start, status)
  BY <1>2, AppendEvent
<1>4. s \o <<e>> \in Seq(AuditEvent)
  BY <1>2, AppendRows
<1> QED
  BY <1>3, <1>4 DEF e

\* transition records the move it makes, or makes none.
LEMMA MoveExplained ==
  ASSUME NEW s \in Seq(AuditEvent), NEW start, NEW i \in Incident,
         NEW target \in WorkflowStatus, Explains(s, start, i.workflow_status)
  PROVE  /\ Explains(s \o transition_events(i, target), start, target)
         /\ s \o transition_events(i, target) \in Seq(AuditEvent)
<1> DEFINE e == [event_type     |-> "workflow.transitioned",
                 previous_state |-> i.workflow_status,
                 next_state     |-> target]
<1>1. CASE i.workflow_status = target
  <2>1. transition_events(i, target) = <<>> /\ s \o <<>> = s
    BY <1>1 DEF transition_events
  <2> QED
    BY <1>1, <2>1
<1>2. CASE i.workflow_status # target
  <2>1. e \in AuditEvent
    BY DEF AuditEvent, Incident, EventType
  <2>2. transition_events(i, target) = <<e>>
    BY <1>2 DEF transition_events
  <2>3. e.event_type = "workflow.transitioned" /\ e.previous_state = i.workflow_status
        /\ e.next_state = target
    OBVIOUS
  <2> HIDE DEF e
  <2> QED
    BY <2>1, <2>2, <2>3, AppendMove, AppendRows
<1> QED
  BY <1>1, <1>2

\* Appending the parts of a trail one after the other.
Regroups2(s, a, b) == s \o (a \o b) = (s \o a) \o b

Regroups(s, a, b, c) == s \o (a \o b \o c) = ((s \o a) \o b) \o c

LEMMA Regroup2 ==
  ASSUME NEW s \in Seq(AuditEvent), NEW a \in Seq(AuditEvent),
         NEW b \in Seq(AuditEvent)
  PROVE  Regroups2(s, a, b)
BY ConcatAssociative DEF Regroups2

LEMMA Regroup3 ==
  ASSUME NEW s \in Seq(AuditEvent), NEW a \in Seq(AuditEvent),
         NEW b \in Seq(AuditEvent), NEW c \in Seq(AuditEvent)
  PROVE  Regroups(s, a, b, c)
<1> DEFINE ab == a \o b
<1>1. ab \in Seq(AuditEvent)
  OBVIOUS
<1>2. Regroups2(s, a, b)
  BY Regroup2
<1>3. Regroups2(s, ab, c)
  <2> HIDE DEF ab
  <2> QED
    BY <1>1, Regroup2
<1> QED
  BY <1>2, <1>3 DEF Regroups2, Regroups

LEMMA RejectionExplained ==
  ASSUME NEW s \in Seq(AuditEvent), NEW start, NEW i \in Incident,
         Explains(s, start, i.workflow_status)
  PROVE  Explains(s \o rejection_trail(i), start, "watch")
<1> DEFINE a == <<event("approval.rejected")>>
           b == transition_events(i, "rejected")
           c == transition_events(moved(i, "rejected"), "watch")
<1>1. /\ a \in Seq(AuditEvent) /\ b \in Seq(AuditEvent) /\ c \in Seq(AuditEvent)
      /\ moved(i, "rejected") \in Incident
      /\ moved(i, "rejected").workflow_status = "rejected"
  BY EventType1, TransitionEventsType, MovedType, MovedFields DEF EventType, WorkflowStatus
<1>2. Explains(s \o a, start, i.workflow_status) /\ s \o a \in Seq(AuditEvent)
  BY EventExplained DEF EventType
<1>3. /\ Explains((s \o a) \o b, start, "rejected")
      /\ (s \o a) \o b \in Seq(AuditEvent)
  BY <1>2, MoveExplained DEF WorkflowStatus
<1>4. Explains(((s \o a) \o b) \o c, start, "watch")
  BY <1>1, <1>3, MoveExplained DEF WorkflowStatus
<1> HIDE DEF a, b, c
<1>5. Regroups(s, a, b, c)
  BY <1>1, Regroup3
<1>6. Explains(s \o (a \o b \o c), start, "watch")
  BY <1>4, <1>5 DEF Regroups
<1> QED
  BY <1>6 DEF rejection_trail, a, b, c

LEMMA ApprovalExplained ==
  ASSUME NEW s \in Seq(AuditEvent), NEW start, NEW i \in Incident, NEW checks,
         Explains(s, start, i.workflow_status)
  PROVE  Explains(s \o approval_trail(i, checks), start, "work_order_live")
<1> DEFINE a == <<event("approval.created")>>
           b == transition_events(i, "approved")
           c == IF unreserved(checks) # {} THEN <<event("part.reserved")>> ELSE <<>>
           d == <<event("work_order.created")>>
           e == transition_events(moved(i, "approved"), "work_order_live")
<1>1. /\ a \in Seq(AuditEvent) /\ b \in Seq(AuditEvent)
      /\ d \in Seq(AuditEvent) /\ e \in Seq(AuditEvent)
      /\ moved(i, "approved") \in Incident
      /\ moved(i, "approved").workflow_status = "approved"
  BY EventType1, TransitionEventsType, MovedType, MovedFields DEF EventType, WorkflowStatus
<1>2. Explains(s \o a, start, i.workflow_status) /\ s \o a \in Seq(AuditEvent)
  BY EventExplained DEF EventType
<1>3. /\ Explains((s \o a) \o b, start, "approved")
      /\ (s \o a) \o b \in Seq(AuditEvent)
  BY <1>2, MoveExplained DEF WorkflowStatus
<1> DEFINE u == (s \o a) \o b
<1>4. /\ c \in Seq(AuditEvent)
      /\ Explains(u \o c, start, "approved") /\ u \o c \in Seq(AuditEvent)
  <2> HIDE DEF u, b
  <2>1. CASE unreserved(checks) # {}
    <3>1. c = <<event("part.reserved")>>
      BY <2>1
    <3>2. <<event("part.reserved")>> \in Seq(AuditEvent)
      BY EventType1 DEF EventType
    <3>3. "part.reserved" \in EventType \ {"workflow.transitioned"}
      BY DEF EventType
    <3>4. Explains(u, start, "approved") /\ u \in Seq(AuditEvent)
      BY <1>3 DEF u
    <3>5. /\ Explains(u \o <<event("part.reserved")>>, start, "approved")
          /\ u \o <<event("part.reserved")>> \in Seq(AuditEvent)
      BY <3>3, <3>4, EventExplained
    <3> QED
      BY <3>1, <3>2, <3>5
  <2>2. CASE unreserved(checks) = {}
    <3>1. c = <<>> /\ u \in Seq(AuditEvent) /\ Explains(u, start, "approved")
      BY <2>2, <1>3 DEF u
    <3>2. u \o <<>> = u /\ <<>> \in Seq(AuditEvent)
      BY <3>1
    <3> QED
      BY <3>1, <3>2
  <2> QED
    BY <2>1, <2>2
<1> DEFINE v == u \o c
<1>5. Explains(v, start, "approved") /\ v \in Seq(AuditEvent)
  BY <1>4
<1> HIDE DEF v, u, c
<1>6. Explains(v \o d, start, "approved") /\ v \o d \in Seq(AuditEvent)
  BY <1>5, EventExplained DEF EventType
<1>7. Explains((v \o d) \o e, start, "work_order_live")
  BY <1>1, <1>6, MoveExplained DEF WorkflowStatus
<1> HIDE DEF a, b, d, e
<1>8. s \o (((a \o b \o c) \o d) \o e) = (v \o d) \o e
  <2>1. a \o b \o c \in Seq(AuditEvent)
    BY <1>1, <1>4
  <2> DEFINE abc == a \o b \o c
  <2>2. Regroups(s, abc, d, e)
    <3>1. abc \in Seq(AuditEvent)
      BY <2>1
    <3> HIDE DEF abc
    <3> QED
      BY <1>1, <3>1, Regroup3
  <2>3. Regroups(s, a, b, c)
    BY <1>1, <1>4, Regroup3
  <2>4. s \o abc = v
    BY <2>3 DEF Regroups, u, v
  <2> QED
    BY <2>2, <2>4 DEF Regroups
<1>9. Explains(s \o (((a \o b \o c) \o d) \o e), start, "work_order_live")
  BY <1>7, <1>8
<1> QED
  BY <1>9 DEF approval_trail, a, b, c, d, e

LEMMA OutcomeExplained ==
  ASSUME NEW s \in Seq(AuditEvent), NEW start, NEW i \in Incident,
         Explains(s, start, i.workflow_status)
  PROVE  Explains(s \o <<event("outcome.captured")>> \o transition_events(i, "resolved"),
                  start, "resolved")
<1>1. /\ Explains(s \o <<event("outcome.captured")>>, start, i.workflow_status)
      /\ s \o <<event("outcome.captured")>> \in Seq(AuditEvent)
  BY EventExplained DEF EventType
<1> QED
  BY <1>1, MoveExplained DEF WorkflowStatus

\* The seed script's rows explain the seeded status, whatever came before.
LEMMA SeedingExplained ==
  ASSUME NEW s \in Seq(AuditEvent), NEW r \in Row, NEW status,
         Explains(s, r.incident.workflow_status, status)
  PROVE  Explains(s \o seeding_events(r), r.incident.workflow_status,
                  r.incident.workflow_status)
<1> DEFINE a == event("demo.seeded")
           t == [event_type     |-> "workflow.transitioned",
                 previous_state |-> "diagnosed",
                 next_state     |-> "approval_required"]
           start == r.incident.workflow_status
<1>1. a \in AuditEvent /\ a.event_type = "demo.seeded"
  BY EventType1 DEF EventType, event
<1>2. t \in AuditEvent /\ t.event_type = "workflow.transitioned"
      /\ t.next_state = "approval_required"
  BY DEF AuditEvent, EventType, WorkflowStatus
<1>3. seeding_events(r) = IF start = "approval_required" THEN <<a>> \o <<t>> ELSE <<a>> \o <<>>
  BY DEF seeding_events
<1> HIDE DEF a, t, start
<1>4. Explains(s \o <<a>>, start, start) /\ s \o <<a>> \in Seq(AuditEvent)
  BY <1>1, AppendEvent, AppendRows DEF start
<1>5. Len(s \o <<a>>) > 0 /\ (s \o <<a>>)[Len(s \o <<a>>)].event_type = "demo.seeded"
  BY <1>1, AppendRows
<1>6. CASE start = "approval_required"
  <2>1. Explains((s \o <<a>>) \o <<t>>, start, "approval_required")
    BY <1>2, <1>4, <1>5, AppendMove
  <2>2. s \o (<<a>> \o <<t>>) = (s \o <<a>>) \o <<t>>
    BY <1>1, <1>2
  <2> QED
    BY <1>3, <1>6, <2>1, <2>2 DEF start
<1>7. CASE start # "approval_required"
  <2>1. <<a>> \o <<>> = <<a>>
    BY <1>1
  <2> QED
    BY <1>3, <1>4, <1>7, <2>1 DEF start
<1> QED
  BY <1>6, <1>7

-----------------------------------------------------------------------------
\* The invariant.

\* Every change of status is in the trail, which is one chain between two runs
\* of the seed script (services/workflow.py: transition writes the row and the
\* audit event; the seed script writes a transition it never made).
THEOREM StatusIsExplained == Spec => []TrailExplainsStatus
<1>1. Init => TrailExplainsStatus
  <2> SUFFICES ASSUME Init PROVE TrailExplainsStatus
    OBVIOUS
  <2> DEFINE start == row.incident.workflow_status
  <2>1. row \in Row /\ incident.workflow_status = start
    BY RowsAssumption DEF Init
  <2>2. Explains(<<>>, start, start) /\ <<>> \in Seq(AuditEvent)
    BY DEF Explains, Moves
  <2>3. CASE row.demo
    <3>1. audit = seeding_events(row) /\ seeding_events(row) \in Seq(AuditEvent)
      BY <2>3, SeedingEventsType DEF Init
    <3>2. <<>> \o seeding_events(row) = seeding_events(row)
      BY <3>1
    <3>3. Explains(<<>> \o seeding_events(row), start, start)
      BY <2>1, <2>2, SeedingExplained
    <3> QED
      BY <2>1, <3>1, <3>2, <3>3, TrailIsExplained
  <2>4. CASE ~row.demo
    BY <2>1, <2>2, <2>4, TrailIsExplained DEF Init
  <2> QED
    BY <2>3, <2>4
<1>2. TypeOK /\ TrailExplainsStatus /\ [Next]_vars => TrailExplainsStatus'
  <2> SUFFICES ASSUME TypeOK, TrailExplainsStatus, [Next]_vars
               PROVE  TrailExplainsStatus'
    OBVIOUS
  <2> DEFINE start == row.incident.workflow_status
  <2>i. /\ incident \in Incident /\ row \in Row /\ audit \in Seq(AuditEvent)
        /\ row' = row
        /\ Explains(audit, start, incident.workflow_status)
    BY RowsAssumption, TrailIsExplained
       DEF TypeOK, Next, NextStep, Approve, BlockedApproval, Reject, Escalate, Diagnose,
           RouteToReview, RouteToApproval, DispatchWorkOrder, BlockedStep,
           CaptureOutcome, Reseed, vars
  <2>g. SUFFICES Explains(audit', start, incident'.workflow_status)
    BY <2>i DEF TrailExplainsStatus, Explains, Moves, Undisturbed, transitions, type
  \* Every request that makes one move and records it.
  <2>m. ASSUME NEW target \in WorkflowStatus,
               audit' = audit \o transition_events(incident, target),
               incident'.workflow_status = target
        PROVE  Explains(audit', start, incident'.workflow_status)
    BY <2>i, <2>m, MoveExplained
  <2>1. CASE Approve
    <3>1. incident'.workflow_status = "work_order_live"
      BY <2>i, <2>1, MovedType, MovedFields DEF Approve, WorkflowStatus
    <3>2. audit' = audit \o approval_trail(incident, part_checks)
      BY <2>1 DEF Approve
    <3> QED
      BY <2>i, <3>1, <3>2, ApprovalExplained
  <2>2. CASE BlockedApproval \/ BlockedStep
    <3>1. audit' = Append(audit, event("cloud.action_blocked")) /\ incident' = incident
      BY <2>2 DEF BlockedApproval, BlockedStep
    <3>2. audit' = audit \o <<event("cloud.action_blocked")>>
      BY <2>i, <3>1, EventType1 DEF EventType
    <3> QED
      BY <2>i, <3>1, <3>2, EventExplained DEF EventType
  <2>3. CASE Reject
    <3>1. incident'.workflow_status = "watch"
      BY <2>i, <2>3, MovedType, MovedFields DEF Reject, WorkflowStatus
    <3>2. audit' = audit \o rejection_trail(incident)
      BY <2>3 DEF Reject
    <3> QED
      BY <2>i, <3>1, <3>2, RejectionExplained
  <2>4. CASE Escalate
    BY <2>i, <2>4, <2>m, MovedFields DEF Escalate, WorkflowStatus
  <2>5. CASE Diagnose
    BY <2>i, <2>5, <2>m, MovedFields DEF Diagnose, WorkflowStatus
  <2>6. CASE RouteToReview
    <3>1. human_review_reason(row.diagnosis) \in ReviewReason
      BY <2>6, ReviewReasonType DEF RouteToReview
    <3>2. incident'.workflow_status = "human_review"
      BY <2>i, <2>6, <3>1, RoutedToReview DEF RouteToReview
    <3> QED
      BY <2>6, <2>m, <3>2 DEF RouteToReview, WorkflowStatus
  <2>7. CASE RouteToApproval
    BY <2>i, <2>7, <2>m, MovedFields DEF RouteToApproval, WorkflowStatus
  <2>8. CASE DispatchWorkOrder
    BY <2>i, <2>8, <2>m, MovedFields DEF DispatchWorkOrder, WorkflowStatus
  <2>9. CASE CaptureOutcome
    <3>1. incident'.workflow_status = "resolved"
      BY <2>i, <2>9, MovedFields DEF CaptureOutcome, WorkflowStatus
    <3>2. audit' = audit \o <<event("outcome.captured")>>
                         \o transition_events(incident, "resolved")
      BY <2>9 DEF CaptureOutcome
    <3> QED
      BY <2>i, <3>1, <3>2, OutcomeExplained
  <2>10. CASE Reseed
    <3>1. incident'.workflow_status = start
      BY <2>i, <2>10 DEF Reseed, reseeded, Row, Incident
    <3>2. audit' = audit \o seeding_events(row)
      BY <2>10 DEF Reseed
    <3> QED
      BY <2>i, <3>1, <3>2, SeedingExplained
  <2>11. CASE UNCHANGED vars
    BY <2>i, <2>11 DEF vars
  <2> QED
    BY <2>1, <2>2, <2>3, <2>4, <2>5, <2>6, <2>7, <2>8, <2>9, <2>10, <2>11
       DEF Next, NextStep
<1> QED
  BY <1>1, <1>2, TypeCorrect, PTL DEF Spec
=============================================================================
