-------------------------- MODULE AuditTrailProofs --------------------------
(***************************************************************************)
(* What the audit trail of IncidentLifecycle promises for every set of     *)
(* rows, parts and bounds: the approval comes before everything that       *)
(* cannot be undone, and it comes once.                                    *)
(*                                                                         *)
(* The trail only ever grows by whole request trails, so the argument is   *)
(* about appending: a trail that keeps a promise, followed by a request    *)
(* trail that keeps it, keeps it.                                          *)
(***************************************************************************)
EXTENDS IncidentLifecycleProofs

-----------------------------------------------------------------------------
\* The two promises, of any sequence of audit rows.

ApprovalFirst(s) ==
  \A i \in DOMAIN s : s[i].event_type \in Irreversible =>
    \E j \in 1..(i - 1) :
      /\ s[j].event_type = "approval.created"
      /\ \A k \in j..i : s[k].event_type \notin {"approval.rejected", "demo.seeded"}

ApprovedOnce(s) ==
  \A i, j \in DOMAIN s :
    i < j /\ s[i].event_type = "approval.created" /\ s[j].event_type = "approval.created"
      => \E k \in i..j : s[k].event_type = "demo.seeded"

\* There is an approval since the last run of the seed script.
ApprovedThisRound(s) ==
  \E i \in DOMAIN s :
    /\ s[i].event_type = "approval.created"
    /\ \A k \in i..Len(s) : s[k].event_type # "demo.seeded"

\* Every row of s is of one of the types T.
TypesIn(s, T) == \A i \in DOMAIN s : s[i].event_type \in T

AfterApproval == {"workflow.transitioned", "part.reserved", "work_order.created"}

\* s opens with an approval and goes on with what an approval brings about.
LedByApproval(s) ==
  /\ Len(s) >= 1
  /\ s[1].event_type = "approval.created"
  /\ \A i \in DOMAIN s : i > 1 => s[i].event_type \in AfterApproval

-----------------------------------------------------------------------------
\* Where a row of a concatenation comes from.

LEMMA ConcatRows ==
  ASSUME NEW s \in Seq(AuditEvent), NEW t \in Seq(AuditEvent)
  PROVE  /\ s \o t \in Seq(AuditEvent)
         /\ Len(s \o t) = Len(s) + Len(t)
         /\ DOMAIN (s \o t) = 1..(Len(s) + Len(t))
         /\ DOMAIN s = 1..Len(s) /\ DOMAIN t = 1..Len(t)
         /\ Len(s) \in Nat /\ Len(t) \in Nat
         /\ \A i \in 1..Len(s) : (s \o t)[i] = s[i]
         /\ \A i \in 1..Len(t) : (s \o t)[Len(s) + i] = t[i]
         /\ \A i \in DOMAIN (s \o t) :
              i \notin 1..Len(s) => /\ i - Len(s) \in 1..Len(t)
                                    /\ (s \o t)[i] = t[i - Len(s)]
OBVIOUS

LEMMA ConcatTypes ==
  ASSUME NEW s \in Seq(AuditEvent), NEW t \in Seq(AuditEvent), NEW T,
         TypesIn(s, T), TypesIn(t, T)
  PROVE  TypesIn(s \o t, T)
BY ConcatRows DEF TypesIn

LEMMA ConcatLed ==
  ASSUME NEW s \in Seq(AuditEvent), NEW t \in Seq(AuditEvent),
         LedByApproval(s), TypesIn(t, AfterApproval)
  PROVE  LedByApproval(s \o t)
<1> HIDE DEF AfterApproval
<1>1. Len(s \o t) >= 1 /\ (s \o t)[1] = s[1]
  BY ConcatRows DEF LedByApproval
<1>2. ASSUME NEW i \in DOMAIN (s \o t), i > 1
      PROVE  (s \o t)[i].event_type \in AfterApproval
  <2>1. CASE i \in 1..Len(s)
    BY <1>2, <2>1, ConcatRows DEF LedByApproval
  <2>2. CASE i \notin 1..Len(s)
    BY <1>2, <2>2, ConcatRows DEF TypesIn
  <2> QED
    BY <2>1, <2>2
<1> QED
  BY <1>1, <1>2 DEF LedByApproval

-----------------------------------------------------------------------------
\* Appending.

\* Approval before irreversible work survives appending.
LEMMA ConcatApprovalFirst ==
  ASSUME NEW s \in Seq(AuditEvent), NEW t \in Seq(AuditEvent),
         ApprovalFirst(s), ApprovalFirst(t)
  PROVE  ApprovalFirst(s \o t)
<1> SUFFICES ASSUME NEW i \in DOMAIN (s \o t), (s \o t)[i].event_type \in Irreversible
             PROVE  \E j \in 1..(i - 1) :
                      /\ (s \o t)[j].event_type = "approval.created"
                      /\ \A k \in j..i : (s \o t)[k].event_type
                                           \notin {"approval.rejected", "demo.seeded"}
  BY DEF ApprovalFirst
<1>1. CASE i \in 1..Len(s)
  <2>1. i \in DOMAIN s /\ s[i].event_type \in Irreversible
    BY <1>1, ConcatRows
  <2>2. PICK j \in 1..(i - 1) :
          /\ s[j].event_type = "approval.created"
          /\ \A k \in j..i : s[k].event_type \notin {"approval.rejected", "demo.seeded"}
    BY <2>1 DEF ApprovalFirst
  <2>3. \A k \in j..i : (s \o t)[k] = s[k]
    BY <1>1, ConcatRows
  <2>4. (s \o t)[j] = s[j]
    BY <1>1, ConcatRows
  <2> QED
    BY <2>2, <2>3, <2>4
<1>2. CASE i \notin 1..Len(s)
  <2> DEFINE m == i - Len(s)
  <2>1. m \in DOMAIN t /\ t[m].event_type \in Irreversible
    BY <1>2, ConcatRows
  <2>2. PICK j \in 1..(m - 1) :
          /\ t[j].event_type = "approval.created"
          /\ \A k \in j..m : t[k].event_type \notin {"approval.rejected", "demo.seeded"}
    BY <2>1 DEF ApprovalFirst
  <2>3. \A k \in (Len(s) + j)..i : k - Len(s) \in j..m /\ (s \o t)[k] = t[k - Len(s)]
    <3> SUFFICES ASSUME NEW k \in (Len(s) + j)..i
                 PROVE  k - Len(s) \in j..m /\ (s \o t)[k] = t[k - Len(s)]
      OBVIOUS
    <3>1. k \in DOMAIN (s \o t) /\ k \notin 1..Len(s)
      BY <1>2, ConcatRows
    <3> QED
      BY <3>1, ConcatRows
  <2>4. Len(s) + j \in 1..(i - 1) /\ Len(s) + j \in (Len(s) + j)..i
    BY <2>1, ConcatRows
  <2>5. (s \o t)[Len(s) + j].event_type = "approval.created"
    BY <2>1, <2>2, ConcatRows
  <2>6. \A k \in (Len(s) + j)..i :
          (s \o t)[k].event_type \notin {"approval.rejected", "demo.seeded"}
    BY <2>2, <2>3
  <2> QED
    BY <2>4, <2>5, <2>6
<1> QED
  BY <1>1, <1>2

\* A request that approves nothing neither adds an approval nor hides one.
LEMMA ConcatUnapproved ==
  ASSUME NEW s \in Seq(AuditEvent), NEW t \in Seq(AuditEvent), ApprovedOnce(s),
         \A i \in DOMAIN t : t[i].event_type # "approval.created"
  PROVE  /\ ApprovedOnce(s \o t)
         /\ ApprovedThisRound(s \o t) => ApprovedThisRound(s)
<1>1. ASSUME NEW i \in DOMAIN (s \o t), (s \o t)[i].event_type = "approval.created"
      PROVE  i \in 1..Len(s) /\ i \in DOMAIN s /\ s[i].event_type = "approval.created"
  BY <1>1, ConcatRows
<1>2. ApprovedOnce(s \o t)
  <2> SUFFICES ASSUME NEW i \in DOMAIN (s \o t), NEW j \in DOMAIN (s \o t), i < j,
                      (s \o t)[i].event_type = "approval.created",
                      (s \o t)[j].event_type = "approval.created"
               PROVE  \E k \in i..j : (s \o t)[k].event_type = "demo.seeded"
    BY DEF ApprovedOnce
  <2>1. PICK k \in i..j : s[k].event_type = "demo.seeded"
    BY <1>1 DEF ApprovedOnce
  <2>2. (s \o t)[k] = s[k]
    BY <1>1, ConcatRows
  <2> QED
    BY <2>1, <2>2
<1>3. ASSUME ApprovedThisRound(s \o t) PROVE ApprovedThisRound(s)
  <2>1. PICK i \in DOMAIN (s \o t) :
          /\ (s \o t)[i].event_type = "approval.created"
          /\ \A k \in i..Len(s \o t) : (s \o t)[k].event_type # "demo.seeded"
    BY <1>3 DEF ApprovedThisRound
  <2>2. i \in 1..Len(s) /\ i \in DOMAIN s /\ s[i].event_type = "approval.created"
    BY <1>1, <2>1
  <2>3. \A k \in i..Len(s) : k \in i..Len(s \o t) /\ (s \o t)[k] = s[k]
    BY <2>2, ConcatRows
  <2> QED
    BY <2>1, <2>2, <2>3 DEF ApprovedThisRound
<1> QED
  BY <1>2, <1>3

\* An approval is the first of its round if the round had none.
LEMMA ConcatApproved ==
  ASSUME NEW s \in Seq(AuditEvent), NEW t \in Seq(AuditEvent),
         ApprovedOnce(s), ~ApprovedThisRound(s), LedByApproval(t)
  PROVE  ApprovedOnce(s \o t)
<1> SUFFICES ASSUME NEW i \in DOMAIN (s \o t), NEW j \in DOMAIN (s \o t), i < j,
                    (s \o t)[i].event_type = "approval.created",
                    (s \o t)[j].event_type = "approval.created"
             PROVE  \E k \in i..j : (s \o t)[k].event_type = "demo.seeded"
  BY DEF ApprovedOnce
<1>1. \A m \in DOMAIN t : t[m].event_type = "approval.created" => m = 1
  <2> SUFFICES ASSUME NEW m \in DOMAIN t, m > 1
               PROVE  t[m].event_type # "approval.created"
    BY ConcatRows
  <2>1. t[m].event_type \in AfterApproval
    BY DEF LedByApproval
  <2> QED
    BY <2>1 DEF AfterApproval
<1>2. i \in 1..Len(s)
  <2> SUFFICES ASSUME i \notin 1..Len(s) PROVE FALSE
    OBVIOUS
  <2>1. j \notin 1..Len(s)
    BY ConcatRows
  <2>2. i - Len(s) = 1 /\ j - Len(s) = 1
    BY <1>1, <2>1, ConcatRows
  <2> QED
    BY <2>2, ConcatRows
<1>3. i \in DOMAIN s /\ s[i].event_type = "approval.created"
  BY <1>2, ConcatRows
<1>4. CASE j \in 1..Len(s)
  <2>1. j \in DOMAIN s /\ s[j].event_type = "approval.created"
    BY <1>4, ConcatRows
  <2>2. PICK k \in i..j : s[k].event_type = "demo.seeded"
    BY <1>3, <2>1 DEF ApprovedOnce
  <2>3. (s \o t)[k] = s[k]
    BY <1>2, <1>4, ConcatRows
  <2> QED
    BY <2>2, <2>3
<1>5. CASE j \notin 1..Len(s)
  <2>1. PICK k \in i..Len(s) : s[k].event_type = "demo.seeded"
    BY <1>3 DEF ApprovedThisRound
  <2>2. k \in i..j /\ (s \o t)[k] = s[k]
    BY <1>2, <1>5, ConcatRows
  <2> QED
    BY <2>1, <2>2
<1> QED
  BY <1>4, <1>5

\* A run of the seed script starts a round without an approval.
LEMMA ConcatSeeded ==
  ASSUME NEW s \in Seq(AuditEvent), NEW t \in Seq(AuditEvent),
         Len(t) >= 1, t[1].event_type = "demo.seeded",
         \A i \in DOMAIN t : t[i].event_type # "approval.created"
  PROVE  ~ApprovedThisRound(s \o t)
<1> SUFFICES ASSUME NEW i \in DOMAIN (s \o t),
                    (s \o t)[i].event_type = "approval.created",
                    \A k \in i..Len(s \o t) : (s \o t)[k].event_type # "demo.seeded"
             PROVE  FALSE
  BY DEF ApprovedThisRound
<1>1. i \in 1..Len(s)
  BY ConcatRows
<1>2. Len(s) + 1 \in i..Len(s \o t) /\ (s \o t)[Len(s) + 1] = t[1]
  BY <1>1, ConcatRows
<1> QED
  BY <1>2

-----------------------------------------------------------------------------
\* The trails of the requests.

LEMMA EventTypes ==
  ASSUME NEW e \in EventType, NEW T, e \in T
  PROVE  TypesIn(<<event(e)>>, T)
BY DEF event, TypesIn

LEMMA TransitionTypes ==
  ASSUME NEW i, NEW target, NEW T, "workflow.transitioned" \in T
  PROVE  TypesIn(transition_events(i, target), T)
BY DEF transition_events, TypesIn

LEMMA RejectionTypes ==
  ASSUME NEW i \in Incident
  PROVE  TypesIn(rejection_trail(i), {"approval.rejected", "workflow.transitioned"})
<1> DEFINE T == {"approval.rejected", "workflow.transitioned"}
           a == <<event("approval.rejected")>>
           b == transition_events(i, "rejected")
           c == transition_events(moved(i, "rejected"), "watch")
<1>1. a \in Seq(AuditEvent) /\ TypesIn(a, T)
  BY EventType1, EventTypes DEF EventType
<1>2. b \in Seq(AuditEvent) /\ TypesIn(b, T)
  BY TransitionEventsType, TransitionTypes DEF WorkflowStatus
<1>3. c \in Seq(AuditEvent) /\ TypesIn(c, T)
  BY TransitionEventsType, TransitionTypes, MovedType DEF WorkflowStatus
<1> HIDE DEF T, a, b, c
<1>4. a \o b \in Seq(AuditEvent) /\ TypesIn(a \o b, T)
  BY <1>1, <1>2, ConcatTypes, ConcatRows
<1>5. TypesIn((a \o b) \o c, T)
  BY <1>3, <1>4, ConcatTypes
<1> QED
  BY <1>5 DEF rejection_trail, T, a, b, c

LEMMA SeedingTypes ==
  ASSUME NEW r
  PROVE  /\ Len(seeding_events(r)) >= 1
         /\ seeding_events(r)[1].event_type = "demo.seeded"
         /\ TypesIn(seeding_events(r), {"demo.seeded", "workflow.transitioned"})
BY DEF seeding_events, event, TypesIn

LEMMA OutcomeTypes ==
  ASSUME NEW i \in Incident
  PROVE  TypesIn(<<event("outcome.captured")>> \o transition_events(i, "resolved"),
                 {"outcome.captured", "workflow.transitioned"})
<1> DEFINE T == {"outcome.captured", "workflow.transitioned"}
           a == <<event("outcome.captured")>>
           b == transition_events(i, "resolved")
<1>1. a \in Seq(AuditEvent) /\ TypesIn(a, T)
  BY EventType1, EventTypes DEF EventType
<1>2. b \in Seq(AuditEvent) /\ TypesIn(b, T)
  BY TransitionEventsType, TransitionTypes DEF WorkflowStatus
<1> HIDE DEF T, a, b
<1>3. TypesIn(a \o b, T)
  BY <1>1, <1>2, ConcatTypes
<1> QED
  BY <1>3 DEF T, a, b

LEMMA ApprovalLed ==
  ASSUME NEW i \in Incident, NEW checks
  PROVE  LedByApproval(approval_trail(i, checks))
<1> DEFINE a == <<event("approval.created")>>
           b == transition_events(i, "approved")
           c == IF unreserved(checks) # {} THEN <<event("part.reserved")>> ELSE <<>>
           d == <<event("work_order.created")>>
           e == transition_events(moved(i, "approved"), "work_order_live")
<1>1. a \in Seq(AuditEvent) /\ LedByApproval(a)
  BY EventType1 DEF EventType, LedByApproval, event
<1>2. b \in Seq(AuditEvent) /\ TypesIn(b, AfterApproval)
  BY TransitionEventsType, TransitionTypes DEF WorkflowStatus, AfterApproval
<1>3. c \in Seq(AuditEvent) /\ TypesIn(c, AfterApproval)
  <2>1. /\ <<event("part.reserved")>> \in Seq(AuditEvent)
        /\ TypesIn(<<event("part.reserved")>>, AfterApproval)
    BY EventType1, EventTypes DEF EventType, AfterApproval
  <2>2. << >> \in Seq(AuditEvent) /\ TypesIn(<< >>, AfterApproval)
    BY DEF TypesIn
  <2> QED
    BY <2>1, <2>2
<1>4. d \in Seq(AuditEvent) /\ TypesIn(d, AfterApproval)
  BY EventType1, EventTypes DEF EventType, AfterApproval
<1>5. e \in Seq(AuditEvent) /\ TypesIn(e, AfterApproval)
  BY TransitionEventsType, TransitionTypes, MovedType DEF WorkflowStatus, AfterApproval
<1> HIDE DEF a, b, c, d, e
<1>6. a \o b \in Seq(AuditEvent) /\ LedByApproval(a \o b)
  BY <1>1, <1>2, ConcatLed, ConcatRows
<1>7. (a \o b) \o c \in Seq(AuditEvent) /\ LedByApproval((a \o b) \o c)
  BY <1>6, <1>3, ConcatLed, ConcatRows
<1>8. ((a \o b) \o c) \o d \in Seq(AuditEvent) /\ LedByApproval(((a \o b) \o c) \o d)
  BY <1>7, <1>4, ConcatLed, ConcatRows
<1>9. LedByApproval((((a \o b) \o c) \o d) \o e)
  BY <1>8, <1>5, ConcatLed
<1> QED
  BY <1>9 DEF approval_trail, a, b, c, d, e

LEMMA LedIsApprovalFirst ==
  ASSUME NEW s \in Seq(AuditEvent), LedByApproval(s)
  PROVE  ApprovalFirst(s)
<1> SUFFICES ASSUME NEW i \in DOMAIN s, s[i].event_type \in Irreversible
             PROVE  \E j \in 1..(i - 1) :
                      /\ s[j].event_type = "approval.created"
                      /\ \A k \in j..i : s[k].event_type
                                           \notin {"approval.rejected", "demo.seeded"}
  BY DEF ApprovalFirst
<1>1. i > 1 /\ i \in 1..Len(s)
  BY DEF LedByApproval, Irreversible
<1>2. \A k \in 1..i : s[k].event_type \notin {"approval.rejected", "demo.seeded"}
  BY <1>1 DEF LedByApproval, AfterApproval
<1> QED
  BY <1>1, <1>2 DEF LedByApproval

-----------------------------------------------------------------------------
\* What each request appends.

QuietTypes == {"approval.rejected", "workflow.transitioned", "outcome.captured",
               "cloud.action_blocked"}

\* The requests that approve nothing append nothing irreversible.
LEMMA QuietStep ==
  ASSUME TypeOK,
         BlockedApproval \/ Reject \/ NextStep \/ BlockedStep \/ CaptureOutcome
  PROVE  \E t \in Seq(AuditEvent) : audit' = audit \o t /\ TypesIn(t, QuietTypes)
<1>i. incident \in Incident /\ audit \in Seq(AuditEvent)
  BY DEF TypeOK
<1>1. CASE BlockedApproval \/ BlockedStep
  <2> DEFINE t == <<event("cloud.action_blocked")>>
  <2>1. t \in Seq(AuditEvent) /\ TypesIn(t, QuietTypes)
    BY EventType1, EventTypes DEF EventType, QuietTypes
  <2>2. audit' = Append(audit, event("cloud.action_blocked"))
    BY <1>1 DEF BlockedApproval, BlockedStep
  <2>3. event("cloud.action_blocked") \in AuditEvent
    BY EventType1 DEF EventType
  <2>4. audit' = audit \o t
    BY <1>i, <2>2, <2>3
  <2> QED
    BY <2>1, <2>4
<1>2. CASE Reject
  <2>1. TypesIn(rejection_trail(incident), QuietTypes)
    BY <1>i, RejectionTypes DEF TypesIn, QuietTypes
  <2> QED
    BY <1>i, <1>2, <2>1, RejectionTrailType DEF Reject
<1>3. CASE NextStep
  <2>1. PICK target \in WorkflowStatus : audit' = audit \o transition_events(incident, target)
    BY <1>3 DEF NextStep, Escalate, Diagnose, RouteToReview, RouteToApproval,
                DispatchWorkOrder, WorkflowStatus
  <2> QED
    BY <1>i, <2>1, TransitionEventsType, TransitionTypes DEF QuietTypes
<1>4. CASE CaptureOutcome
  <2> DEFINE a == <<event("outcome.captured")>>
             b == transition_events(incident, "resolved")
  <2>1. a \in Seq(AuditEvent) /\ b \in Seq(AuditEvent)
    BY <1>i, EventType1, TransitionEventsType DEF EventType, WorkflowStatus
  <2>2. TypesIn(a \o b, QuietTypes)
    BY <1>i, OutcomeTypes DEF TypesIn, QuietTypes
  <2>3. audit' = audit \o a \o b
    BY <1>4 DEF CaptureOutcome
  <2> HIDE DEF a, b
  <2>4. audit' = audit \o (a \o b) /\ a \o b \in Seq(AuditEvent)
    BY <1>i, <2>1, <2>3, ConcatAssociative, ConcatRows
  <2> QED
    BY <2>2, <2>4
<1> QED
  BY <1>1, <1>2, <1>3, <1>4

-----------------------------------------------------------------------------
\* The theorems.

\* Every reservation and every work order in the trail follows an approval that
\* no rejection and no reseed has taken back (services/approval.py, the order of
\* the writes of approve).
THEOREM ApprovalComesFirst == Spec => []ApprovalPrecedesIrreversible
<1> DEFINE Inv == ApprovalFirst(audit)
<1>1. Init => Inv
  <2> SUFFICES ASSUME Init PROVE Inv
    OBVIOUS
  <2>1. CASE row.demo
    <3>1. audit = seeding_events(row)
      BY <2>1 DEF Init
    <3> QED
      BY <3>1, SeedingTypes DEF ApprovalFirst, TypesIn, Irreversible
  <2>2. CASE ~row.demo
    BY <2>2 DEF Init, ApprovalFirst
  <2> QED
    BY <2>1, <2>2
<1>2. TypeOK /\ Inv /\ [Next]_vars => Inv'
  <2> SUFFICES ASSUME TypeOK, Inv, [Next]_vars PROVE Inv'
    OBVIOUS
  <2>i. incident \in Incident /\ audit \in Seq(AuditEvent)
    BY DEF TypeOK
  <2>1. CASE Approve
    <3>1. LedByApproval(approval_trail(incident, part_checks))
          /\ approval_trail(incident, part_checks) \in Seq(AuditEvent)
      BY <2>i, ApprovalLed, ApprovalTrailType
    <3>2. ApprovalFirst(audit \o approval_trail(incident, part_checks))
      BY <2>i, <3>1, LedIsApprovalFirst, ConcatApprovalFirst
    <3> QED
      BY <2>1, <3>2 DEF Approve
  <2>2. CASE BlockedApproval \/ Reject \/ NextStep \/ BlockedStep \/ CaptureOutcome
    <3>1. PICK t \in Seq(AuditEvent) : audit' = audit \o t /\ TypesIn(t, QuietTypes)
      BY <2>2, QuietStep
    <3>2. ApprovalFirst(t)
      BY <3>1 DEF ApprovalFirst, TypesIn, QuietTypes, Irreversible
    <3> QED
      BY <2>i, <3>1, <3>2, ConcatApprovalFirst
  <2>3. CASE Reseed
    <3>1. seeding_events(row) \in Seq(AuditEvent) /\ ApprovalFirst(seeding_events(row))
      BY SeedingEventsType, SeedingTypes DEF ApprovalFirst, TypesIn, Irreversible
    <3>2. audit' = audit \o seeding_events(row)
      BY <2>3 DEF Reseed
    <3> QED
      BY <2>i, <3>1, <3>2, ConcatApprovalFirst
  <2>4. CASE UNCHANGED vars
    BY <2>4 DEF vars
  <2> QED
    BY <2>1, <2>2, <2>3, <2>4 DEF Next
<1>3. Inv => ApprovalPrecedesIrreversible
  BY DEF ApprovalFirst, ApprovalPrecedesIrreversible, type
<1> QED
  BY <1>1, <1>2, <1>3, TypeCorrect, PTL DEF Spec

\* What makes a second approval impossible: once approved, the incident is past
\* the gate and only a reseed brings it back.
ApprovedIsPastTheGate ==
  ApprovedThisRound(audit) => incident.workflow_status \in {"work_order_live", "resolved"}

\* Between two runs of the seed script an incident is approved at most once
\* (tests/test_api_approval.py, approving twice must fail), by whatever way
\* rejections and steps bring it to the gate again.
THEOREM ApprovedAtMostOnce == Spec => []OneApprovalPerRound
<1> DEFINE Inv == ApprovedOnce(audit) /\ ApprovedIsPastTheGate
<1>1. Init => Inv
  <2> SUFFICES ASSUME Init PROVE Inv
    OBVIOUS
  <2>1. \A i \in DOMAIN audit : audit[i].event_type # "approval.created"
    BY SeedingTypes DEF Init, TypesIn
  <2> QED
    BY <2>1 DEF ApprovedOnce, ApprovedIsPastTheGate, ApprovedThisRound
<1>2. TypeOK /\ Inv /\ [Next]_vars => Inv'
  <2> SUFFICES ASSUME TypeOK, Inv, [Next]_vars PROVE Inv'
    OBVIOUS
  <2>i. incident \in Incident /\ audit \in Seq(AuditEvent)
    BY DEF TypeOK
  <2>1. CASE Approve
    <3>1. incident.workflow_status = "approval_required"
      BY <2>1 DEF Approve, approval_refusal
    <3>2. ~ApprovedThisRound(audit)
      BY <3>1 DEF ApprovedIsPastTheGate
    <3>3. LedByApproval(approval_trail(incident, part_checks))
          /\ approval_trail(incident, part_checks) \in Seq(AuditEvent)
      BY <2>i, ApprovalLed, ApprovalTrailType
    <3>4. ApprovedOnce(audit \o approval_trail(incident, part_checks))
      BY <2>i, <3>2, <3>3, ConcatApproved
    <3>5. incident'.workflow_status = "work_order_live"
      BY <2>i, <2>1, MovedType, MovedFields DEF Approve, WorkflowStatus
    <3> QED
      BY <2>1, <3>4, <3>5 DEF Approve, ApprovedIsPastTheGate
  <2>2. CASE BlockedApproval \/ Reject \/ NextStep \/ BlockedStep \/ CaptureOutcome
    <3>1. PICK t \in Seq(AuditEvent) : audit' = audit \o t /\ TypesIn(t, QuietTypes)
      BY <2>2, QuietStep
    <3>2. \A i \in DOMAIN t : t[i].event_type # "approval.created"
      BY <3>1 DEF TypesIn, QuietTypes
    <3>3. ApprovedOnce(audit') /\ (ApprovedThisRound(audit') => ApprovedThisRound(audit))
      BY <2>i, <3>1, <3>2, ConcatUnapproved
    <3>4. incident.workflow_status \in {"work_order_live", "resolved"}
            => incident'.workflow_status \in {"work_order_live", "resolved"}
      <4>1. CASE BlockedApproval \/ BlockedStep
        BY <4>1 DEF BlockedApproval, BlockedStep
      <4>2. CASE Reject
        BY <4>2 DEF Reject, rejection_refusal
      <4>3. CASE NextStep
        BY <4>3 DEF NextStep, Escalate, Diagnose, RouteToReview, RouteToApproval,
                    DispatchWorkOrder
      <4>4. CASE CaptureOutcome
        BY <2>i, <4>4, MovedFields DEF CaptureOutcome, WorkflowStatus
      <4> QED
        BY <2>2, <4>1, <4>2, <4>3, <4>4
    <3> QED
      BY <3>3, <3>4 DEF ApprovedIsPastTheGate
  <2>3. CASE Reseed
    <3> DEFINE t == seeding_events(row)
    <3>1. t \in Seq(AuditEvent) /\ Len(t) >= 1 /\ t[1].event_type = "demo.seeded"
          /\ \A i \in DOMAIN t : t[i].event_type # "approval.created"
      BY SeedingEventsType, SeedingTypes DEF TypesIn
    <3>2. audit' = audit \o t
      BY <2>3 DEF Reseed
    <3> HIDE DEF t
    <3>3. ApprovedOnce(audit \o t) /\ ~ApprovedThisRound(audit \o t)
      BY <2>i, <3>1, ConcatUnapproved, ConcatSeeded
    <3> QED
      BY <3>2, <3>3 DEF ApprovedIsPastTheGate
  <2>4. CASE UNCHANGED vars
    BY <2>4 DEF vars, ApprovedIsPastTheGate
  <2> QED
    BY <2>1, <2>2, <2>3, <2>4 DEF Next
<1>3. Inv => OneApprovalPerRound
  BY DEF ApprovedOnce, OneApprovalPerRound, type
<1> QED
  BY <1>1, <1>2, <1>3, TypeCorrect, PTL DEF Spec
=============================================================================
