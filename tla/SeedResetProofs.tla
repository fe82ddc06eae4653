--------------------------- MODULE SeedResetProofs --------------------------
(***************************************************************************)
(* What the seed script and overlapping requests can do to each other, for *)
(* every set of clients, rows and parts and for every bound.               *)
(*                                                                         *)
(* The invariant has two halves.  Locks: which rows a request or the       *)
(* script holds, by phase.  Stock: an approved proposal of a seeded        *)
(* incident has its parts reserved, so an approval that still has parts to *)
(* reserve has the proposal locked.                                        *)
(***************************************************************************)
EXTENDS SeedReset, ApiTransactionsProofs

-----------------------------------------------------------------------------
\* The invariant.

SeedTyped ==
  /\ CommittedTyped
  /\ requests \in [Clients -> Request \cup {Idle}]
  /\ lock \in [LockedRow -> Clients \cup {FREE, SEED}]
  /\ seed \in Seeding \cup {NotSeeding}
  /\ gone \in [Clients -> SUBSET {"proposal", "work_order"}]
  /\ runs \in 0..MaxSeedRuns

\* What the script has read, while it runs.
SeedReads ==
  /\ seed.phase = "loaded" => seed.passes > 0
  /\ seed # NotSeeding =>
       /\ row.demo
       /\ \A k \in AgentKind : seed.agent_runs[k] <= agent_runs[k]

going ==
  {c \in Clients : requests[c].phase \in {"decided", "moved", "written", "answered"}}

\* A row is held by a request that has decided, and by one that has not got
\* further only if it is one of those that come before the incident.
RequestsHold ==
  \A r \in LockedRow : lock[r] \in Clients =>
    /\ lock[r] \in going
    /\ requests[lock[r]].phase = "decided" => r \in locked_first(requests[lock[r]])

\* Whoever has decided holds those rows, and whoever has flushed the incident
\* holds the incident.
HoldWhatTheyNeed ==
  /\ \A c \in going : \A r \in locked_first(requests[c]) : lock[r] = c
  /\ \A c \in going : requests[c].phase # "decided" => lock["incident"] = c

\* Only requests that were not refused go on.
NoneRefused == \A c \in going : refusal(requests[c]) = "none"

\* The script holds rows while it runs, and the incident at its end only.
ScriptHolds ==
  /\ \A r \in LockedRow : lock[r] = SEED => seed # NotSeeding
  /\ lock["incident"] = SEED => seed.phase = "written"

\* The script has been at the proposals, in this purge or in the one before it:
\* at the first one it has no part checks before the phase that ends there.
PastTheProposals ==
  \/ seed.phase \in {"proposal", "written"}
  \/ seed.phase \in {"loaded", "orders"} /\ lock["part_check"] = SEED

\* Nobody decides on a proposal that the script has deleted, and it has deleted
\* one, if there is one, once it has been there.
ProposalTaken ==
  /\ lock["proposal"] = SEED =>
       \A c \in going : requests[c].kind \notin {"approve", "reject"}
  /\ PastTheProposals => proposal = "absent" \/ lock["proposal"] = SEED

\* There is a proposal, and a part check, exactly if the scenario has it; an
\* approved proposal has nothing left to reserve.
StockedLike(p, checks) ==
  /\ p = "approved" => unreserved(checks) = {}
  /\ p = "absent" <=> row.proposal = "absent"
  /\ \A part \in Parts : checks[part] = "absent" <=> row.part_checks[part] = "absent"

\* The rows of a seeded incident, committed and as read, and what an approval
\* that can still commit has not seen: parts that need a reservation.
Stocked ==
  row.demo =>
    /\ StockedLike(proposal, part_checks)
    /\ \A c \in Clients : requests[c].phase = "read" \/ c \in going =>
         /\ StockedLike(requests[c].proposal, requests[c].part_checks)
         /\ requests[c].kind = "approve" /\ (c \in going \/ "proposal" \notin gone[c]) =>
              unreserved(part_checks) \subseteq unreserved(requests[c].part_checks)

LockInv == RequestsHold /\ HoldWhatTheyNeed /\ NoneRefused /\ ScriptHolds /\ ProposalTaken

SeedInv == SeedTyped /\ SeedReads /\ LockInv /\ Stocked

-----------------------------------------------------------------------------
\* The requests, seen from outside: what one step makes of the records.

\* Only the request of c is another one, x.
Becomes(c, x) ==
  /\ x \in Request \cup {Idle}
  /\ requests' = [requests EXCEPT ![c] = x]

\* r is q further on: it is still about the same copies.
SameCopies(q, r) ==
  /\ r.kind = q.kind /\ r.incident = q.incident
  /\ r.proposal = q.proposal /\ r.part_checks = q.part_checks

LEMMA Loading ==
  ASSUME SeedTyped, NEW c \in Clients, NEW kind \in Kind, Load(c, kind)
  PROVE  \E x \in Request : Becomes(c, x) /\ x.phase = "loaded" /\ x.incident = incident
<1> DEFINE x == [kind |-> kind, phase |-> "loaded", incident |-> incident,
                 proposal |-> "absent", part_checks |-> no_part_checks,
                 work_orders |-> <<>>]
<1>1. x \in Request
  BY DEF SeedTyped, CommittedTyped, Request, Phase, Proposal, PartChecks, no_part_checks
<1>2. requests' = [requests EXCEPT ![c] = x]
  BY DEF Load
<1>3. x.phase = "loaded" /\ x.incident = incident
  OBVIOUS
<1> HIDE DEF x
<1> QED
  BY <1>1, <1>2, <1>3 DEF Becomes

LEMMA Reading ==
  ASSUME SeedTyped, NEW c \in Clients, Read(c)
  PROVE  /\ requests[c] \in Request /\ requests[c].phase = "loaded"
         /\ \E x \in Request :
              /\ Becomes(c, x) /\ x.phase = "read"
              /\ x.kind = requests[c].kind /\ x.incident = requests[c].incident
              /\ x.proposal = proposal /\ x.part_checks = part_checks
              /\ x.work_orders = work_orders
<1> DEFINE q == requests[c]
           x == [q EXCEPT !.phase = "read", !.proposal = proposal,
                   !.part_checks = part_checks, !.work_orders = work_orders]
<1>1. q \in Request /\ q.phase = "loaded"
  BY DEF SeedTyped, Read, in_phase, Idle
<1>2. requests' = [requests EXCEPT ![c] = x]
  BY DEF Read, SeedTyped
<1>3. /\ x \in Request /\ x.phase = "read"
      /\ x.kind = q.kind /\ x.incident = q.incident
      /\ x.proposal = proposal /\ x.part_checks = part_checks
      /\ x.work_orders = work_orders
  BY <1>1 DEF SeedTyped, CommittedTyped, Request, Phase
<1> HIDE DEF x
<1> QED
  BY <1>1, <1>2, <1>3 DEF Becomes

LEMMA Deciding ==
  ASSUME SeedTyped, NEW c \in Clients, Decide(c)
  PROVE  /\ requests[c] \in Request /\ requests[c].phase = "read"
         /\ \E x \in Request :
              /\ Becomes(c, x) /\ x.phase = "decided" /\ SameCopies(requests[c], x)
              /\ x.work_orders = requests[c].work_orders
<1> DEFINE q == requests[c]
           x == [q EXCEPT !.phase = "decided"]
<1>1. q \in Request /\ q.phase = "read"
  BY DEF SeedTyped, Decide, in_phase, Idle
<1>2. requests' = [requests EXCEPT ![c] = x]
  BY DEF Decide, goes_to, SeedTyped
<1>3. /\ x \in Request /\ x.phase = "decided" /\ SameCopies(q, x)
      /\ x.work_orders = q.work_orders
  BY <1>1 DEF Request, Phase, SameCopies
<1> HIDE DEF x
<1> QED
  BY <1>1, <1>2, <1>3 DEF Becomes

LEMMA Moving ==
  ASSUME SeedTyped, NEW c \in Clients, Move(c)
  PROVE  /\ requests[c] \in Request /\ requests[c].phase = "decided"
         /\ \E x \in Request :
              /\ Becomes(c, x) /\ x.phase = "moved" /\ SameCopies(requests[c], x)
              /\ x.work_orders = requests[c].work_orders
<1> DEFINE q == requests[c]
           x == [q EXCEPT !.phase = "moved"]
<1>1. q \in Request /\ q.phase = "decided"
  BY DEF SeedTyped, Move, in_phase, Idle
<1>2. requests' = [requests EXCEPT ![c] = x]
  BY DEF Move, goes_to, SeedTyped
<1>3. /\ x \in Request /\ x.phase = "moved" /\ SameCopies(q, x)
      /\ x.work_orders = q.work_orders
  BY <1>1 DEF Request, Phase, SameCopies
<1> HIDE DEF x
<1> QED
  BY <1>1, <1>2, <1>3 DEF Becomes

LEMMA Writing ==
  ASSUME SeedTyped, NEW c \in Clients, Write(c)
  PROVE  /\ requests[c] \in Request /\ requests[c].phase = "moved"
         /\ \E x \in Request :
              /\ Becomes(c, x) /\ x.phase = "written" /\ SameCopies(requests[c], x)
              /\ x.work_orders = orders_found(requests[c])
<1> DEFINE q == requests[c]
           x == [q EXCEPT !.phase = "written", !.work_orders = orders_found(q)]
<1>1. q \in Request /\ q.phase = "moved"
  BY DEF SeedTyped, Write, in_phase, Idle
<1>2. requests' = [requests EXCEPT ![c] = x]
  BY DEF Write, SeedTyped
<1>3. orders_found(q) \in Seq(WorkOrderStatus)
  BY <1>1 DEF orders_found, Request, SeedTyped, CommittedTyped
<1>4. /\ x \in Request /\ x.phase = "written" /\ SameCopies(q, x)
      /\ x.work_orders = orders_found(q)
  BY <1>1, <1>3 DEF Request, Phase, SameCopies
<1> HIDE DEF x
<1> QED
  BY <1>1, <1>2, <1>4 DEF Becomes

LEMMA Answering ==
  ASSUME SeedTyped, NEW c \in Clients, Answer(c)
  PROVE  /\ requests[c] \in Request /\ requests[c].phase = "written"
         /\ \E x \in Request :
              /\ Becomes(c, x) /\ x.phase = "answered" /\ SameCopies(requests[c], x)
              /\ x.work_orders = requests[c].work_orders
<1> DEFINE q == requests[c]
           x == [q EXCEPT !.phase = "answered"]
<1>1. q \in Request /\ q.phase = "written"
  BY DEF SeedTyped, Answer, in_phase, Idle
<1>2. requests' = [requests EXCEPT ![c] = x]
  BY DEF Answer, goes_to, SeedTyped
<1>3. /\ x \in Request /\ x.phase = "answered" /\ SameCopies(q, x)
      /\ x.work_orders = q.work_orders
  BY <1>1 DEF Request, Phase, SameCopies
<1> HIDE DEF x
<1> QED
  BY <1>1, <1>2, <1>3 DEF Becomes

LEMMA Ending ==
  ASSUME NEW c, ends(c)
  PROVE  Becomes(c, Idle)
BY DEF ends, Becomes

LEMMA Becoming ==
  ASSUME SeedTyped, NEW c \in Clients, NEW x, Becomes(c, x)
  PROVE  /\ requests' \in [Clients -> Request \cup {Idle}]
         /\ requests'[c] = x
         /\ \A d \in Clients \ {c} : requests'[d] = requests[d]
BY DEF Becomes, SeedTyped

\* A request that goes on is one, and was accepted.
LEMMA GoingOn ==
  ASSUME SeedTyped, NoneRefused, NEW c \in going
  PROVE  /\ c \in Clients /\ requests[c] \in Request
         /\ refusal(requests[c]) = "none" /\ Accepted(requests[c])
<1>1. c \in Clients /\ requests[c] \in Request
  BY DEF SeedTyped, going, Idle
<1>2. refusal(requests[c]) = "none"
  BY DEF NoneRefused
<1> QED
  BY <1>1, <1>2, NotRefused

\* What a request is refused for depends on its copies.
LEMMA SameRefusal ==
  ASSUME NEW q, NEW x, SameCopies(q, x),
         x.kind = "outcome" => x.work_orders = q.work_orders
  PROVE  refusal(x) = refusal(q)
BY DEF SameCopies, refusal, step_refusal

LEMMA RefusalLater ==
  ASSUME NEW d, row' = row
  PROVE  refusal(requests[d])' = refusal(requests'[d])
BY DEF refusal, step_refusal, handlers

-----------------------------------------------------------------------------
\* The script, seen from outside.

LEMMA ScriptRuns ==
  ASSUME SeedTyped, seed # NotSeeding
  PROVE  /\ seed \in Seeding
         /\ seed.phase \in {"loaded", "orders", "parts", "proposal", "written"}
         /\ seed.agent_runs \in [AgentKind -> Nat] /\ seed.incident \in Incident
BY DEF SeedTyped, Seeding, AgentRuns

LEMMA ScriptIdle ==
  ASSUME NEW phase, seed.phase = phase, phase # "idle"
  PROVE  seed # NotSeeding
BY DEF NotSeeding

\* A statement of the script takes rows that no request has.
LEMMA ScriptTakes ==
  ASSUME SeedTyped, SeedLocks
  PROVE  /\ lock' \in [LockedRow -> Clients \cup {FREE, SEED}]
         /\ \A r \in LockedRow : lock[r] \in Clients => lock'[r] = lock[r]
         /\ \A r \in LockedRow : lock'[r] = IF r \in deletes THEN SEED ELSE lock[r]
         /\ \A r \in deletes : referred(r) = {}
         /\ UNCHANGED committed /\ UNCHANGED <<requests, gone, runs>>
<1>1. FREE \notin Clients /\ SEED \notin Clients /\ SEED # FREE
  BY ClientsAssumption, SeedAssumption
<1>2. \A r \in deletes : {lock[r]} \cup referred(r) \subseteq {FREE, SEED}
  BY DEF SeedLocks, seed_waits_for
<1>3. \A r \in deletes : referred(r) = {}
  BY <1>1, <1>2 DEF referred
<1>4. \A r \in LockedRow : lock'[r] = IF r \in deletes THEN SEED ELSE lock[r]
  BY DEF SeedLocks
<1>5. lock' \in [LockedRow -> Clients \cup {FREE, SEED}]
  BY DEF SeedTyped, SeedLocks
<1> QED
  BY <1>1, <1>2, <1>3, <1>4, <1>5 DEF SeedLocks

LEMMA Released ==
  ASSUME SeedTyped, NEW x
  PROVE  [r \in LockedRow |-> IF lock[r] = x THEN FREE ELSE lock[r]]
           \in [LockedRow -> Clients \cup {FREE, SEED}]
BY DEF SeedTyped

LEMMA LifecycleNames ==
  /\ \A r, i : Lifecycle!reseeded(r, i) =
       [r.incident EXCEPT
          !.human_review_reason = IF @ = NO_REASON THEN i.human_review_reason ELSE @]
  /\ \A r : Lifecycle!seeded_runs(r) = Serial!seeded_runs(r)
  /\ \A r : Lifecycle!seeding_events(r) = Serial!seeding_events(r)
BY DEF Lifecycle!reseeded, Lifecycle!seeded_runs, Lifecycle!seeding_events,
       Serial!seeded_runs, Serial!seeding_events, Lifecycle!NO_REASON, NO_REASON,
       Lifecycle!AgentKind, Serial!AgentKind, Lifecycle!no_part_checks,
       Serial!no_part_checks, Lifecycle!event, Serial!event

LEMMA Reseeding ==
  ASSUME NEW r \in Rows, NEW i \in Incident
  PROVE  /\ Lifecycle!reseeded(r, i) \in Incident
         /\ Lifecycle!seeded_runs(r) \in [AgentKind -> {0, 1}]
         /\ Lifecycle!seeding_events(r) \in Seq(AuditEvent)
<1>1. r \in Row
  BY ApiRowsAssumption
<1>2. Lifecycle!reseeded(r, i) \in Incident
  BY <1>1, LifecycleNames DEF Row, Incident
<1>3. Lifecycle!seeded_runs(r) \in [AgentKind -> {0, 1}]
  BY LifecycleNames DEF Serial!seeded_runs, Serial!AgentKind, AgentKind
<1>4. Lifecycle!seeding_events(r) \in Seq(AuditEvent)
  <2> DEFINE a == <<event("demo.seeded")>>
             e == [event_type     |-> "workflow.transitioned",
                   previous_state |-> "diagnosed",
                   next_state     |-> "approval_required"]
             b == IF r.incident.workflow_status = "approval_required" THEN <<e>> ELSE <<>>
  <2>1. Lifecycle!seeding_events(r) = a \o b
    BY LifecycleNames, SerialNames DEF Serial!seeding_events
  <2>2. e \in AuditEvent
    BY DEF AuditEvent, EventType, WorkflowStatus
  <2>3. a \in Seq(AuditEvent)
    BY EventTyped DEF EventType
  <2>4. b \in Seq(AuditEvent)
    <3> HIDE DEF e
    <3> QED
      BY <2>2
  <2> HIDE DEF a, b
  <2> QED
    BY <2>1, <2>3, <2>4
<1> QED
  BY <1>2, <1>3, <1>4

-----------------------------------------------------------------------------
\* Types.

\* What the script commits is typed: the runs it takes away are still there.
LEMMA SeedCommitTyped ==
  ASSUME SeedTyped, SeedReads, SeedCommit
  PROVE  CommittedTyped'
<1>1. seed # NotSeeding /\ row \in Rows /\ row \in Row
  BY ScriptIdle, ApiRowsAssumption DEF SeedCommit, SeedTyped, CommittedTyped
<1>2. seed.incident \in Incident /\ seed \in Seeding
  BY <1>1, ScriptRuns
<1>3. incident' \in Incident
  <2> DEFINE new == Lifecycle!reseeded(row, seed.incident)
  <2>1. new \in Incident
    BY <1>1, <1>2, Reseeding
  <2>2. incident' = overwritten(incident, seed.incident, new)
    BY DEF SeedCommit, incident_reseeded
  <2> HIDE DEF new
  <2> QED
    BY <1>2, <2>1, <2>2, OverwrittenTyped DEF SeedTyped, CommittedTyped
<1>4. proposal' \in Proposal /\ part_checks' \in PartChecks
  BY <1>1 DEF SeedCommit, Row
<1>5. work_orders' \in Seq(WorkOrderStatus)
  <2>1. surviving_orders \in Seq(WorkOrderStatus)
    <3>1. work_orders \in Seq(WorkOrderStatus) /\ seed.orders \in Nat
      BY <1>2 DEF SeedTyped, CommittedTyped, Seeding
    <3> QED
      BY <3>1 DEF surviving_orders
  <2>2. row.work_orders \in Seq(WorkOrderStatus)
    BY <1>1 DEF Row
  <2>3. work_orders' = surviving_orders \o row.work_orders
    BY DEF SeedCommit
  <2> QED
    BY <2>1, <2>2, <2>3
<1>6. decisions' \in Seq(Decision)
  BY DEF SeedCommit
<1>7. outcomes' \in TechnicianOutcomes
  BY DEF SeedCommit, surviving_outcomes, SeedTyped, CommittedTyped, TechnicianOutcomes
<1>8. agent_runs' \in AgentRuns
  <2> DEFINE s == Lifecycle!seeded_runs(row)
  <2>1. s \in [AgentKind -> {0, 1}]
    BY <1>1, <1>2, Reseeding
  <2>2. agent_runs' = [k \in AgentKind |-> agent_runs[k] - seed.agent_runs[k] + s[k]]
    BY DEF SeedCommit
  <2> HIDE DEF s
  <2>3. \A k \in AgentKind : /\ agent_runs[k] \in Nat /\ seed.agent_runs[k] \in Nat
                             /\ seed.agent_runs[k] <= agent_runs[k] /\ s[k] \in {0, 1}
    BY <1>1, <2>1, ScriptRuns DEF SeedTyped, CommittedTyped, AgentRuns, SeedReads
  <2>4. \A k \in AgentKind : agent_runs[k] - seed.agent_runs[k] + s[k] \in Nat
    BY <2>3
  <2> QED
    BY <2>2, <2>4 DEF AgentRuns
<1>9. audit' \in Seq(AuditEvent)
  <2> DEFINE s == Lifecycle!seeding_events(row)
  <2>1. s \in Seq(AuditEvent)
    BY <1>1, <1>2, Reseeding
  <2>2. audit' = audit \o s /\ audit \in Seq(AuditEvent)
    BY DEF SeedCommit, SeedTyped, CommittedTyped
  <2> HIDE DEF s
  <2> QED
    BY <2>1, <2>2
<1> QED
  BY <1>1, <1>3, <1>4, <1>5, <1>6, <1>7, <1>8, <1>9 DEF CommittedTyped, SeedCommit

\* One request goes on or ends, and the script does not move.
Aside == UNCHANGED <<seed, runs>>

LEMMA AsideTyped ==
  ASSUME SeedTyped, SeedReads, Aside, CommittedTyped', row' = row,
         \A k \in AgentKind : agent_runs[k] <= agent_runs'[k],
         NEW c \in Clients, NEW x, Becomes(c, x),
         lock' \in [LockedRow -> Clients \cup {FREE, SEED}],
         gone' \in [Clients -> SUBSET {"proposal", "work_order"}]
  PROVE  SeedTyped' /\ SeedReads'
<1>1. requests' \in [Clients -> Request \cup {Idle}]
  BY Becoming
<1>2. SeedTyped'
  BY <1>1 DEF Aside, SeedTyped
<1>3. SeedReads'
  <2>1. CASE seed = NotSeeding
    BY <2>1 DEF Aside, SeedReads, NotSeeding
  <2>2. CASE seed # NotSeeding
    <3>1. \A k \in AgentKind : /\ seed.agent_runs[k] \in Nat /\ agent_runs[k] \in Nat
                               /\ agent_runs'[k] \in Nat
      BY <2>2, ScriptRuns DEF SeedTyped, CommittedTyped, AgentRuns
    <3>2. \A k \in AgentKind : seed.agent_runs[k] <= agent_runs'[k]
      BY <2>2, <3>1 DEF SeedReads
    <3> QED
      BY <2>2, <3>2 DEF Aside, SeedReads
  <2> QED
    BY <2>1, <2>2
<1> QED
  BY <1>2, <1>3

\* The same where nothing is committed.
LEMMA UncommittedTyped ==
  ASSUME SeedTyped, SeedReads, Aside, UNCHANGED committed,
         NEW c \in Clients, NEW x, Becomes(c, x),
         lock' \in [LockedRow -> Clients \cup {FREE, SEED}],
         gone' \in [Clients -> SUBSET {"proposal", "work_order"}]
  PROVE  SeedTyped' /\ SeedReads'
<1>1. CommittedTyped'
  BY DEF SeedTyped, CommittedTyped, committed
<1>2. \A k \in AgentKind : agent_runs[k] <= agent_runs'[k]
  BY DEF SeedTyped, CommittedTyped, AgentRuns, committed
<1>3. row' = row
  BY DEF committed
<1> QED
  BY <1>1, <1>2, <1>3, AsideTyped

\* The script goes to another phase.
LEMMA ScriptStepTyped ==
  ASSUME SeedTyped, SeedReads, UNCHANGED committed, UNCHANGED <<requests, gone>>,
         runs' \in 0..MaxSeedRuns, seed' \in Seeding, row.demo,
         lock' \in [LockedRow -> Clients \cup {FREE, SEED}],
         seed'.phase = "loaded" => seed'.passes > 0,
         \A k \in AgentKind : seed'.agent_runs[k] <= agent_runs[k]
  PROVE  SeedTyped' /\ SeedReads'
BY DEF SeedTyped, SeedReads, committed, CommittedTyped

\* The script's transaction ends.
LEMMA ScriptEndTyped ==
  ASSUME SeedTyped, CommittedTyped', UNCHANGED <<requests, runs>>,
         seed' = NotSeeding, lock' = released_by_seed,
         gone' \in [Clients -> SUBSET {"proposal", "work_order"}]
  PROVE  SeedTyped' /\ SeedReads'
BY Released DEF SeedTyped, SeedReads, released_by_seed, NotSeeding

LEMMA NextSeedTyped == SeedInv /\ [SeedNext]_seed_vars => SeedTyped' /\ SeedReads'
<1> SUFFICES ASSUME SeedInv, [SeedNext]_seed_vars PROVE SeedTyped' /\ SeedReads'
  OBVIOUS
<1> DEFINE Goal == SeedTyped' /\ SeedReads'
<1>i. /\ SeedTyped /\ SeedReads /\ NoneRefused
      /\ lock \in [LockedRow -> Clients \cup {FREE, SEED}]
      /\ gone \in [Clients -> SUBSET {"proposal", "work_order"}]
  BY DEF SeedInv, LockInv, SeedTyped
<1>1. CASE UNCHANGED seed_vars
  BY <1>1, <1>i DEF seed_vars, vars, SeedTyped, SeedReads, CommittedTyped
<1>2. ASSUME NEW c \in Clients, NEW kind \in Kind, Beside(Load(c, kind)) PROVE Goal
  BY <1>2, <1>i, Loading, UncommittedTyped DEF Beside, Load, Aside
<1>3. ASSUME NEW passes \in {1, 2}, SeedLoad(passes) PROVE Goal
  <2>1. /\ UNCHANGED committed /\ UNCHANGED <<requests, gone, lock>> /\ row.demo
        /\ runs' = runs + 1 /\ runs < MaxSeedRuns
    BY <1>3 DEF SeedLoad, vars, committed
  <2>2. runs' \in 0..MaxSeedRuns
    BY <2>1, <1>i, SeedAssumption DEF SeedTyped
  <2>3. /\ seed' \in Seeding /\ seed'.passes > 0
        /\ \A k \in AgentKind : seed'.agent_runs[k] = 0
    BY <1>3, <1>i DEF SeedLoad, Seeding, AgentRuns, SeedTyped, CommittedTyped
  <2>4. \A k \in AgentKind : seed'.agent_runs[k] <= agent_runs[k]
    BY <2>3, <1>i DEF SeedTyped, CommittedTyped, AgentRuns
  <2> QED
    BY <1>i, <2>1, <2>2, <2>3, <2>4, ScriptStepTyped
<1>4. ASSUME NEW c \in Clients, ReadBeside(c) PROVE Goal
  <2>1. /\ gone' \in [Clients -> SUBSET {"proposal", "work_order"}]
        /\ Aside /\ UNCHANGED committed /\ lock' = lock
    BY <1>4, <1>i DEF ReadBeside, Read, Aside
  <2> QED
    BY <1>4, <1>i, <2>1, Reading, UncommittedTyped DEF ReadBeside
<1>5. ASSUME NEW c \in Clients, Beside(Refuse(c)) PROVE Goal
  BY <1>5, <1>i, Ending, UncommittedTyped DEF Beside, Refuse, Aside
<1>6. ASSUME NEW c \in Clients, Beside(RefuseOffline(c)) PROVE Goal
  <2>1. audit' \in Seq(AuditEvent)
    BY <1>6, <1>i, EventTyped DEF Beside, RefuseOffline, SeedTyped, CommittedTyped, EventType
  <2>2. CommittedTyped'
    BY <1>6, <1>i, <2>1 DEF Beside, RefuseOffline, SeedTyped, CommittedTyped
  <2>3. \A k \in AgentKind : agent_runs[k] <= agent_runs'[k]
    BY <1>6, <1>i DEF Beside, RefuseOffline, SeedTyped, CommittedTyped, AgentRuns
  <2>4. Aside /\ row' = row /\ lock' = lock /\ gone' = gone /\ ends(c)
    BY <1>6 DEF Beside, RefuseOffline, Aside
  <2> QED
    BY <1>i, <2>2, <2>3, <2>4, Ending, AsideTyped
<1>7. ASSUME NEW c \in Clients, DecideBeside(c) PROVE Goal
  <2>1. /\ lock' \in [LockedRow -> Clients \cup {FREE, SEED}]
        /\ Aside /\ UNCHANGED committed /\ gone' = gone
    BY <1>7, <1>i DEF DecideBeside, Decide, obtained, Aside
  <2> QED
    BY <1>7, <1>i, <2>1, Deciding, UncommittedTyped DEF DecideBeside
<1>8. ASSUME NEW c \in Clients, RowsGone(c) PROVE Goal
  BY <1>8, <1>i, Ending, UncommittedTyped DEF RowsGone, Aside
<1>m. ASSUME NEW c \in Clients, Beside(Move(c)) PROVE Goal
  <2>1. /\ lock' \in [LockedRow -> Clients \cup {FREE, SEED}]
        /\ Aside /\ UNCHANGED committed /\ gone' = gone
    BY <1>m, <1>i DEF Beside, Move, obtained, Aside
  <2> QED
    BY <1>m, <1>i, <2>1, Moving, UncommittedTyped DEF Beside
<1>9. ASSUME NEW c \in Clients, Beside(Write(c)) PROVE Goal
  <2>1. /\ lock' \in [LockedRow -> Clients \cup {FREE, SEED}]
        /\ Aside /\ UNCHANGED committed /\ gone' = gone
    BY <1>9, <1>i DEF Beside, Write, obtained, Aside
  <2> QED
    BY <1>9, <1>i, <2>1, Writing, UncommittedTyped DEF Beside
<1>10. ASSUME NEW c \in Clients, Beside(Answer(c)) PROVE Goal
  <2>1. lock' = lock /\ Aside /\ UNCHANGED committed /\ gone' = gone
    BY <1>10 DEF Beside, Answer, Aside
  <2> QED
    BY <1>10, <1>i, <2>1, Answering, UncommittedTyped DEF Beside
<1>11. ASSUME NEW c \in Clients, Beside(Commit(c)) PROVE Goal
  <2>1. c \in going /\ Commit(c)
    BY <1>11 DEF Beside, Commit, in_phase, going
  <2>2. CommittedTyped'
    BY <1>i, <2>1, GoingOn, CommitTyped DEF SeedTyped
  <2>3. \A k \in AgentKind : agent_runs[k] <= agent_runs'[k]
    <3>1. agent_runs' = Serial!ran(agents(requests[c]))
      BY <2>1 DEF Commit
    <3>2. agent_runs \in [AgentKind -> Nat] /\ Serial!AgentKind = AgentKind
      BY <1>i DEF SeedTyped, CommittedTyped, AgentRuns, Serial!AgentKind, AgentKind
    <3>3. \A s : \A k \in AgentKind : agent_runs[k] <= agent_runs[k] + (IF k \in s THEN 1 ELSE 0)
      BY <3>2
    <3> QED
      BY <3>1, <3>2, <3>3 DEF Serial!ran
  <2>4. /\ Aside /\ row' = row /\ gone' = gone /\ ends(c)
        /\ lock' \in [LockedRow -> Clients \cup {FREE, SEED}]
    BY <1>11, <1>i, Released DEF Beside, Commit, Aside, released
  <2> QED
    BY <1>i, <2>2, <2>3, <2>4, Ending, AsideTyped
<1>12. ASSUME NEW c \in Clients, Beside(Fail(c)) PROVE Goal
  <2>1. /\ Aside /\ UNCHANGED committed /\ gone' = gone /\ ends(c)
        /\ lock' \in [LockedRow -> Clients \cup {FREE, SEED}]
    BY <1>12, <1>i, Released DEF Beside, Fail, Aside, rolled_back, released
  <2> QED
    BY <1>i, <2>1, Ending, UncommittedTyped
<1>13. ASSUME SeedLocks, seed # NotSeeding, seed' \in Seeding,
              seed'.phase = "loaded" => seed'.passes > 0,
              \A k \in AgentKind : seed'.agent_runs[k] <= agent_runs[k]
       PROVE  Goal
  <2>1. runs' \in 0..MaxSeedRuns /\ row.demo
    BY <1>13, <1>i, ScriptTakes DEF SeedTyped, SeedReads
  <2> QED
    BY <1>13, <1>i, <2>1, ScriptTakes, ScriptStepTyped
<1>14. CASE PurgeOrders
  <2>1. seed # NotSeeding /\ seed.passes > 0 /\ seed \in Seeding
    BY <1>14, <1>i, ScriptIdle, ScriptRuns DEF PurgeOrders, SeedReads
  <2>2. /\ seed' \in Seeding /\ seed'.phase = "orders" /\ seed'.agent_runs = seed.agent_runs
    <3> DEFINE n == Len(work_orders)
    <3>1. n \in Nat
      BY <1>i DEF SeedTyped, CommittedTyped
    <3>2. seed' = [seed EXCEPT !.phase = "orders", !.passes = @ - 1, !.orders = n]
      BY <1>14 DEF PurgeOrders
    <3>3. seed.passes - 1 \in 0..2
      BY <2>1 DEF Seeding
    <3> HIDE DEF n
    <3> QED
      BY <2>1, <3>1, <3>2, <3>3 DEF Seeding
  <2> QED
    BY <1>13, <1>14, <1>i, <2>1, <2>2 DEF PurgeOrders, SeedReads
<1>15. CASE PurgeParts
  <2>1. seed # NotSeeding /\ seed \in Seeding
    BY <1>15, <1>i, ScriptIdle, ScriptRuns DEF PurgeParts
  <2>2. /\ seed' \in Seeding /\ seed'.phase = "parts" /\ seed'.agent_runs = seed.agent_runs
    BY <1>15, <2>1 DEF PurgeParts, seed_goes_to, Seeding
  <2> QED
    BY <1>13, <1>15, <1>i, <2>1, <2>2 DEF PurgeParts, SeedReads
<1>16. CASE PurgeProposal
  <2>1. seed # NotSeeding /\ seed \in Seeding
    BY <1>16, <1>i, ScriptIdle, ScriptRuns DEF PurgeProposal
  <2>2. /\ seed' \in Seeding /\ seed'.agent_runs = agent_runs
        /\ seed'.phase = "proposal"
    BY <1>16, <1>i, <2>1 DEF PurgeProposal, Seeding, SeedTyped, CommittedTyped
  <2>3. \A k \in AgentKind : seed'.agent_runs[k] <= agent_runs[k]
    BY <1>i, <2>2 DEF SeedTyped, CommittedTyped, AgentRuns
  <2> QED
    BY <1>13, <1>16, <2>1, <2>2, <2>3 DEF PurgeProposal
<1>r. CASE SeedReload
  <2>1. seed # NotSeeding /\ seed \in Seeding /\ incident \in Incident
    BY <1>r, <1>i, ScriptIdle, ScriptRuns DEF SeedReload, SeedTyped, CommittedTyped
  <2>2. PICK i \in Incident : seed' = [seed EXCEPT !.phase = "loaded", !.incident = i]
    <3>1. seed.incident \in Incident
      BY <2>1 DEF Seeding
    <3> QED
      BY <1>r, <2>1, <3>1 DEF SeedReload, Seeding
  <2>3. /\ seed' \in Seeding /\ seed'.agent_runs = seed.agent_runs
        /\ seed'.phase = "loaded" /\ seed'.passes > 0
    BY <1>r, <2>1, <2>2 DEF SeedReload, Seeding
  <2>4. UNCHANGED committed /\ UNCHANGED <<requests, gone, runs, lock>>
    BY <1>r DEF SeedReload, vars, committed
  <2>5. row.demo /\ \A k \in AgentKind : seed'.agent_runs[k] <= agent_runs[k]
    BY <1>i, <2>1, <2>3 DEF SeedReads
  <2>6. runs' \in 0..MaxSeedRuns /\ lock' \in [LockedRow -> Clients \cup {FREE, SEED}]
    BY <1>i, <2>4 DEF SeedTyped
  <2> QED
    BY <1>i, <2>3, <2>4, <2>5, <2>6, ScriptStepTyped
<1>17. CASE WriteIncident
  <2>1. seed # NotSeeding /\ seed \in Seeding
    BY <1>17, <1>i, ScriptIdle, ScriptRuns DEF WriteIncident
  <2>2. /\ seed' \in Seeding /\ seed'.phase = "written" /\ seed'.agent_runs = seed.agent_runs
    BY <1>17, <2>1 DEF WriteIncident, seed_goes_to, Seeding
  <2> QED
    BY <1>13, <1>17, <1>i, <2>1, <2>2 DEF WriteIncident, SeedReads
<1>18. CASE SeedCommit
  <2>1. CommittedTyped'
    BY <1>18, <1>i, SeedCommitTyped
  <2>2. gone' \in [Clients -> SUBSET {"proposal", "work_order"}]
    BY <1>18, <1>i DEF SeedCommit, deleted_of
  <2>3. UNCHANGED <<requests, runs>> /\ seed' = NotSeeding /\ lock' = released_by_seed
    BY <1>18 DEF SeedCommit
  <2> QED
    BY <1>i, <2>1, <2>2, <2>3, ScriptEndTyped
<1>19. CASE SeedRollback
  <2>1. CommittedTyped' /\ gone' \in [Clients -> SUBSET {"proposal", "work_order"}]
    BY <1>19, <1>i DEF SeedRollback, committed, SeedTyped, CommittedTyped
  <2>2. UNCHANGED <<requests, runs>> /\ seed' = NotSeeding /\ lock' = released_by_seed
    BY <1>19 DEF SeedRollback
  <2> QED
    BY <1>i, <2>1, <2>2, ScriptEndTyped
<1>20. CASE BreakCircle
  <2>1. ASSUME NEW c \in Clients, lock' = released(c), ends(c), UNCHANGED committed,
               Aside, gone' = gone
        PROVE  Goal
    <3>1. lock' \in [LockedRow -> Clients \cup {FREE, SEED}]
      BY <1>i, <2>1, Released DEF released
    <3> QED
      BY <1>i, <2>1, <3>1, Ending, UncommittedTyped
  <2> QED
    BY <1>19, <1>20, <2>1 DEF BreakCircle, Aside
<1> QED
  BY <1>1, <1>2, <1>3, <1>4, <1>5, <1>6, <1>7, <1>8, <1>9, <1>10, <1>11, <1>12,
     <1>14, <1>15, <1>16, <1>17, <1>18, <1>19, <1>20, <1>m, <1>r
     DEF SeedNext, Begin, Advance, SeedStep, SeedFail

-----------------------------------------------------------------------------
\* Locks.

GoingPhase == {"decided", "moved", "written", "answered"}

LEMMA StillNoneRefused ==
  ASSUME SeedTyped, NoneRefused, row' = row, NEW c \in Clients, NEW x, Becomes(c, x),
         x.phase \in GoingPhase => refusal(x) = "none"
  PROVE  NoneRefused'
<1> SUFFICES ASSUME NEW d \in Clients, requests'[d].phase \in GoingPhase
             PROVE  refusal(requests[d])' = "none"
  BY DEF NoneRefused, going, GoingPhase
<1>1. refusal(requests[d])' = refusal(requests'[d])
  BY RefusalLater
<1>2. CASE d = c
  BY <1>1, <1>2, Becoming
<1>3. CASE d # c
  <2>1. requests'[d] = requests[d]
    BY <1>3, Becoming
  <2> QED
    BY <1>1, <2>1 DEF NoneRefused, going, GoingPhase
<1> QED
  BY <1>2, <1>3

\* A request that has locked nothing, and still does not.
LEMMA WithoutLocks ==
  ASSUME SeedTyped, LockInv, UNCHANGED <<row, proposal, lock, seed>>,
         NEW c \in Clients, NEW x, Becomes(c, x),
         requests[c].phase \notin GoingPhase, x.phase \notin GoingPhase
  PROVE  LockInv'
<1>1. /\ requests'[c] = x
      /\ \A d \in Clients \ {c} : requests'[d] = requests[d]
  BY Becoming
<1>2. going' = going /\ c \notin going
  BY <1>1 DEF going, GoingPhase
<1>3. \A d \in going : requests'[d] = requests[d]
  BY <1>1, <1>2 DEF going
<1>4. RequestsHold'
  <2> SUFFICES ASSUME NEW r \in LockedRow, lock[r] \in Clients
               PROVE  /\ lock[r] \in going
                      /\ requests'[lock[r]].phase = "decided" =>
                           r \in locked_first(requests'[lock[r]])
    BY <1>2 DEF RequestsHold
  <2>1. lock[r] \in going
    BY DEF LockInv, RequestsHold
  <2> QED
    BY <1>3, <2>1 DEF LockInv, RequestsHold
<1>7. HoldWhatTheyNeed'
  <2> SUFFICES ASSUME NEW d \in going
               PROVE  /\ \A r \in locked_first(requests'[d]) : lock[r] = d
                      /\ requests'[d].phase # "decided" => lock["incident"] = d
    BY <1>2 DEF HoldWhatTheyNeed
  <2> QED
    BY <1>3 DEF LockInv, HoldWhatTheyNeed
<1>5. NoneRefused'
  BY StillNoneRefused DEF LockInv
<1>6. ScriptHolds' /\ ProposalTaken'
  BY <1>2, <1>3 DEF LockInv, ScriptHolds, ProposalTaken, PastTheProposals
<1> QED
  BY <1>4, <1>5, <1>6, <1>7 DEF LockInv

\* A transaction that ends.
LEMMA EndOfRequest ==
  ASSUME SeedTyped, LockInv, UNCHANGED <<row, seed>>, NEW c \in Clients,
         lock' = released(c), ends(c),
         PastTheProposals => proposal' = "absent" \/ lock["proposal"] = SEED
  PROVE  LockInv'
<1>0. FREE \notin Clients /\ SEED \notin Clients /\ SEED # FREE /\ Idle.phase \notin GoingPhase
  BY ClientsAssumption, SeedAssumption DEF Idle, GoingPhase
<1>1. /\ requests'[c] = Idle
      /\ \A d \in Clients \ {c} : requests'[d] = requests[d]
  BY Ending, Becoming
<1>2. going' = going \ {c}
  BY <1>0, <1>1 DEF going, GoingPhase
<1>3. \A d \in going' : d \in going /\ d # c /\ requests'[d] = requests[d]
  BY <1>1, <1>2 DEF going
<1>4. \A r \in LockedRow : lock'[r] = IF lock[r] = c THEN FREE ELSE lock[r]
  BY DEF released
<1>5. RequestsHold'
  <2> SUFFICES ASSUME NEW r \in LockedRow, lock'[r] \in Clients
               PROVE  /\ lock'[r] \in going'
                      /\ requests'[lock'[r]].phase = "decided" =>
                           r \in locked_first(requests[lock[r]])'
    BY DEF RequestsHold
  <2>1. lock'[r] = lock[r] /\ lock[r] \in Clients \ {c}
    BY <1>0, <1>4
  <2>2. lock[r] \in going /\ requests'[lock[r]] = requests[lock[r]]
    BY <1>1, <2>1 DEF LockInv, RequestsHold
  <2> QED
    BY <1>2, <2>1, <2>2 DEF LockInv, RequestsHold, locked_first, written_rows, decided_status
<1>6. HoldWhatTheyNeed'
  <2>1. ASSUME NEW d \in going', NEW r \in LockedRow, lock[r] = d PROVE lock'[r] = d
    BY <1>3, <1>4, <2>1
  <2>2. "incident" \in LockedRow
    BY DEF LockedRow
  <2>3. ASSUME NEW d \in going', NEW r \in locked_first(requests[d])' PROVE lock'[r] = d
    <3>1. d \in going /\ requests'[d] = requests[d]
      BY <1>3, <2>3
    <3>2. r \in locked_first(requests[d])
      BY <3>1, <2>3 DEF locked_first, written_rows, decided_status
    <3>3. lock[r] = d
      BY <3>1, <3>2 DEF LockInv, HoldWhatTheyNeed
    <3>4. requests[d].kind \in Kind
      BY <3>1, GoingOn DEF LockInv, Request
    <3>5. r \in LockedRow
      BY <3>2, <3>4 DEF locked_first, written_rows, LockedRow, Kind
    <3> QED
      BY <2>1, <2>3, <3>3, <3>5
  <2>4. ASSUME NEW d \in going', requests'[d].phase # "decided" PROVE lock'["incident"] = d
    <3>1. d \in going /\ requests'[d] = requests[d]
      BY <1>3, <2>4
    <3> QED
      BY <2>1, <2>2, <2>4, <3>1 DEF LockInv, HoldWhatTheyNeed
  <2> QED
    BY <2>3, <2>4 DEF HoldWhatTheyNeed
<1>7. NoneRefused'
  BY <1>0, Ending, StillNoneRefused DEF LockInv
<1>8. \A r \in LockedRow : lock'[r] = SEED <=> lock[r] = SEED
  BY <1>0, <1>4
<1>9. ScriptHolds' /\ ProposalTaken'
  BY <1>3, <1>8 DEF LockInv, ScriptHolds, ProposalTaken, PastTheProposals, LockedRow
<1> QED
  BY <1>5, <1>6, <1>7, <1>9 DEF LockInv

\* A request that goes on and takes rows nobody has.
LEMMA GoesFurther ==
  ASSUME SeedTyped, LockInv, UNCHANGED <<row, proposal, seed>>,
         NEW c \in Clients, NEW x \in Request, Becomes(c, x),
         x.phase \in GoingPhase, refusal(x) = "none",
         NEW R, \A r \in R : lock[r] \in {FREE, c},
         lock' = [r \in LockedRow |-> IF r \in R THEN c ELSE lock[r]],
         \A r \in locked_first(x) : lock'[r] = c,
         x.phase # "decided" => lock'["incident"] = c,
         x.phase = "decided" => \A r \in LockedRow : lock'[r] = c => r \in locked_first(x),
         x.kind \in {"approve", "reject"} => lock["proposal"] # SEED
  PROVE  LockInv'
<1>0. FREE \notin Clients /\ SEED \notin Clients /\ SEED # FREE
  BY ClientsAssumption, SeedAssumption
<1>1. /\ requests'[c] = x
      /\ \A d \in Clients \ {c} : requests'[d] = requests[d]
  BY Becoming
<1>2. going' = going \cup {c}
  BY <1>1 DEF going, GoingPhase
<1>3. \A d \in going' \ {c} : d \in going /\ requests'[d] = requests[d]
  BY <1>1, <1>2 DEF going
<1>4. \A r \in LockedRow : /\ lock'[r] # c => lock'[r] = lock[r]
                           /\ lock[r] \in (Clients \cup {SEED}) \ {c} => lock'[r] = lock[r]
                           /\ lock'[r] = SEED <=> lock[r] = SEED
  BY <1>0
<1>5. RequestsHold'
  <2> SUFFICES ASSUME NEW r \in LockedRow, lock'[r] \in Clients
               PROVE  /\ lock'[r] \in going'
                      /\ requests'[lock'[r]].phase = "decided" =>
                           r \in locked_first(requests'[lock'[r]])
    BY DEF RequestsHold
  <2>1. CASE lock'[r] = c
    BY <1>1, <1>2, <2>1
  <2>2. CASE lock'[r] # c
    <3>1. lock'[r] = lock[r] /\ lock[r] \in going
      BY <1>4, <2>2 DEF LockInv, RequestsHold
    <3>2. requests'[lock[r]] = requests[lock[r]]
      BY <1>2, <1>3, <2>2, <3>1
    <3> QED
      BY <1>2, <3>1, <3>2 DEF LockInv, RequestsHold
  <2> QED
    BY <2>1, <2>2
<1>6. HoldWhatTheyNeed'
  <2>1. ASSUME NEW d \in going', d # c
        PROVE  /\ \A r \in locked_first(requests'[d]) : lock'[r] = d
               /\ requests'[d].phase # "decided" => lock'["incident"] = d
    <3>1. d \in going /\ requests'[d] = requests[d]
      BY <1>3, <2>1
    <3>2. requests[d].kind \in Kind /\ d \in Clients
      BY <3>1, GoingOn DEF LockInv, Request
    <3>3. locked_first(requests[d]) \subseteq LockedRow /\ "incident" \in LockedRow
      BY <3>2 DEF locked_first, written_rows, LockedRow, Kind
    <3>4. /\ \A r \in locked_first(requests[d]) : lock[r] = d
          /\ requests[d].phase # "decided" => lock["incident"] = d
      BY <3>1 DEF LockInv, HoldWhatTheyNeed
    <3>5. \A r \in LockedRow : lock[r] = d => lock'[r] = d
      BY <1>4, <2>1, <3>2
    <3> QED
      BY <3>1, <3>3, <3>4, <3>5
  <2>2. /\ \A r \in locked_first(requests'[c]) : lock'[r] = c
        /\ requests'[c].phase # "decided" => lock'["incident"] = c
    BY <1>1
  <2> QED
    BY <2>1, <2>2 DEF HoldWhatTheyNeed
<1>7. NoneRefused'
  BY StillNoneRefused DEF LockInv
<1>8. ScriptHolds'
  BY <1>4 DEF LockInv, ScriptHolds, LockedRow
<1>9. ProposalTaken'
  <2>1. /\ lock'["proposal"] = SEED <=> lock["proposal"] = SEED
        /\ PastTheProposals' <=> PastTheProposals
    BY <1>4 DEF LockedRow, PastTheProposals
  <2> QED
    BY <1>1, <1>2, <1>3, <2>1 DEF LockInv, ProposalTaken
<1> QED
  BY <1>5, <1>6, <1>7, <1>8, <1>9 DEF LockInv

\* A statement of the script.
LEMMA ScriptGoesOn ==
  ASSUME SeedTyped, LockInv, SeedLocks, seed' # NotSeeding,
         "incident" \in deletes => seed'.phase = "written",
         lock["incident"] # SEED,
         PastTheProposals' =>
           \/ proposal = "absent" \/ "proposal" \in deletes
           \/ lock["proposal"] = SEED
  PROVE  LockInv'
<1>0. /\ FREE \notin Clients /\ SEED \notin Clients /\ SEED # FREE
      /\ "incident" \in LockedRow /\ "proposal" \in LockedRow
  BY ClientsAssumption, SeedAssumption DEF LockedRow
<1>1. /\ \A r \in LockedRow : lock[r] \in Clients => lock'[r] = lock[r]
      /\ \A r \in LockedRow : lock'[r] = IF r \in deletes THEN SEED ELSE lock[r]
      /\ \A r \in deletes : referred(r) = {}
      /\ UNCHANGED committed /\ requests' = requests /\ row' = row /\ proposal' = proposal
  BY ScriptTakes DEF committed
<1>2. going' = going
  BY <1>1 DEF going
<1>3. RequestsHold'
  BY <1>0, <1>1, <1>2 DEF LockInv, RequestsHold
<1>4. HoldWhatTheyNeed'
  <2> SUFFICES ASSUME NEW d \in going
               PROVE  /\ \A r \in locked_first(requests[d]) : lock'[r] = d
                      /\ requests[d].phase # "decided" => lock'["incident"] = d
    BY <1>1, <1>2 DEF HoldWhatTheyNeed
  <2>1. requests[d].kind \in Kind /\ d \in Clients
    BY GoingOn DEF LockInv, Request
  <2>2. locked_first(requests[d]) \subseteq LockedRow
    BY <2>1 DEF locked_first, written_rows, LockedRow, Kind
  <2> QED
    BY <1>0, <1>1, <2>1, <2>2 DEF LockInv, HoldWhatTheyNeed
<1>5. NoneRefused'
  <2>1. ASSUME NEW d \in going PROVE refusal(requests[d])' = "none"
    <3>1. refusal(requests[d])' = refusal(requests'[d])
      BY <1>1, RefusalLater
    <3> QED
      BY <1>1, <2>1, <3>1 DEF LockInv, NoneRefused
  <2> QED
    BY <1>2, <2>1 DEF NoneRefused
<1>6. ScriptHolds'
  BY <1>0, <1>1 DEF LockInv, ScriptHolds
<1>7. ProposalTaken'
  <2>1. ASSUME "proposal" \in deletes, NEW d \in going
        PROVE  requests[d].kind \notin {"approve", "reject"}
    <3>1. d \notin referred("proposal") /\ d \in Clients
      BY <1>1, <2>1 DEF going
    <3>2. refusal(requests[d]) = "none" /\ requests[d].phase \in GoingPhase
      BY GoingOn DEF LockInv, going, GoingPhase
    <3> QED
      BY <3>1, <3>2 DEF referred, references, GoingPhase
  <2> QED
    BY <1>0, <1>1, <1>2, <2>1 DEF LockInv, ProposalTaken
<1> QED
  BY <1>3, <1>4, <1>5, <1>6, <1>7 DEF LockInv

\* The script's transaction ends.
LEMMA EndOfScript ==
  ASSUME SeedTyped, LockInv, UNCHANGED <<row, requests>>, seed' = NotSeeding,
         lock' = released_by_seed
  PROVE  LockInv'
<1>0. FREE \notin Clients /\ SEED \notin Clients /\ SEED # FREE
  BY ClientsAssumption, SeedAssumption
<1>1. going' = going
  BY DEF going
<1>2. \A r \in LockedRow : lock'[r] = IF lock[r] = SEED THEN FREE ELSE lock[r]
  BY DEF released_by_seed
<1>3. RequestsHold'
  BY <1>0, <1>1, <1>2 DEF LockInv, RequestsHold
<1>4. HoldWhatTheyNeed'
  <2> SUFFICES ASSUME NEW d \in going
               PROVE  /\ \A r \in locked_first(requests[d]) : lock'[r] = d
                      /\ requests[d].phase # "decided" => lock'["incident"] = d
    BY <1>1 DEF HoldWhatTheyNeed
  <2>1. requests[d].kind \in Kind /\ d \in Clients
    BY GoingOn DEF LockInv, Request
  <2>2. locked_first(requests[d]) \subseteq LockedRow /\ "incident" \in LockedRow
    BY <2>1 DEF locked_first, written_rows, LockedRow, Kind
  <2> QED
    BY <1>0, <1>2, <2>1, <2>2 DEF LockInv, HoldWhatTheyNeed
<1>5. NoneRefused'
  <2>1. ASSUME NEW d \in going PROVE refusal(requests[d])' = "none"
    <3>1. refusal(requests[d])' = refusal(requests'[d])
      BY RefusalLater
    <3> QED
      BY <2>1, <3>1 DEF LockInv, NoneRefused
  <2> QED
    BY <1>1, <2>1 DEF NoneRefused
<1>6. ScriptHolds' /\ ProposalTaken'
  BY <1>0, <1>2 DEF ScriptHolds, ProposalTaken, PastTheProposals, NotSeeding, LockedRow
<1> QED
  BY <1>3, <1>4, <1>5, <1>6 DEF LockInv

LEMMA DecideLocks ==
  ASSUME SeedInv, NEW c \in Clients, DecideBeside(c)
  PROVE  LockInv'
<1> DEFINE q == requests[c]
<1>0. /\ SeedTyped /\ LockInv /\ Decide(c) /\ UNCHANGED <<row, proposal, seed>>
      /\ FREE \notin Clients /\ SEED \notin Clients /\ SEED # FREE
  BY ClientsAssumption, SeedAssumption DEF SeedInv, DecideBeside, Decide, committed
<1>1. q \in Request /\ q.phase = "read" /\ refusal(q) = "none"
  BY <1>0, Deciding DEF Decide
<1>2. PICK x \in Request : Becomes(c, x) /\ x.phase = "decided" /\ SameCopies(q, x)
                           /\ x.work_orders = q.work_orders
  BY <1>0, Deciding
<1>3. refusal(x) = "none"
  BY <1>1, <1>2, SameRefusal
<1>4. awaited(q) = locked_first(q) /\ locked_first(x) = locked_first(q)
  BY <1>1, <1>2, SameRows DEF awaited, SameCopies
<1>5. /\ \A r \in locked_first(x) : lock[r] \in {FREE, c}
      /\ lock' = [r \in LockedRow |-> IF r \in locked_first(x) THEN c ELSE lock[r]]
  BY <1>0, <1>4 DEF Decide, obtainable, obtained
<1>6. \A r \in LockedRow : lock[r] # c
  BY <1>0, <1>1 DEF LockInv, RequestsHold, going
<1>7. \A r \in LockedRow : lock'[r] = c => r \in locked_first(x)
  BY <1>5, <1>6
<1>8. locked_first(x) \subseteq LockedRow
  BY <1>2 DEF locked_first, written_rows, LockedRow, Kind, Request
<1>9. \A r \in locked_first(x) : lock'[r] = c
  BY <1>5, <1>8
<1>10. ASSUME x.kind \in {"approve", "reject"} PROVE lock["proposal"] # SEED
  <2>1. "proposal" \in references(q)
    BY <1>1, <1>2, <1>10 DEF references, SameCopies
  <2>2. missing(c) = {} /\ waits_for(c) = {}
    BY DEF DecideBeside
  <2>3. {lock[r] : r \in references(q)} \cap {SEED} = {}
    BY <1>1, <2>2 DEF waits_for
  <2> QED
    BY <2>1, <2>3
<1> HIDE DEF q
<1> QED
  BY <1>0, <1>2, <1>3, <1>5, <1>7, <1>9, <1>10, GoesFurther DEF GoingPhase

LEMMA MoveLocks ==
  ASSUME SeedInv, NEW c \in Clients, Beside(Move(c))
  PROVE  LockInv'
<1> DEFINE q == requests[c]
<1>0. /\ SeedTyped /\ LockInv /\ Move(c) /\ UNCHANGED <<row, proposal, seed>>
      /\ FREE \notin Clients /\ SEED \notin Clients /\ SEED # FREE
  BY ClientsAssumption, SeedAssumption DEF SeedInv, Beside, Move, committed
<1>1. q \in Request /\ q.phase = "decided" /\ c \in going /\ refusal(q) = "none"
  BY <1>0, Moving DEF going, LockInv, NoneRefused
<1>2. PICK x \in Request : Becomes(c, x) /\ x.phase = "moved" /\ SameCopies(q, x)
                           /\ x.work_orders = q.work_orders
  BY <1>0, Moving
<1>3. refusal(x) = "none"
  BY <1>1, <1>2, SameRefusal
<1>4. locked_first(x) = locked_first(q) /\ "incident" \in awaited(q)
  BY <1>1, <1>2, SameRows, IncidentComesLater DEF awaited, SameCopies
<1>5. /\ \A r \in awaited(q) : lock[r] \in {FREE, c}
      /\ lock' = [r \in LockedRow |-> IF r \in awaited(q) THEN c ELSE lock[r]]
  BY <1>0 DEF Move, obtainable, obtained
<1>6. locked_first(x) \subseteq LockedRow /\ "incident" \in LockedRow
  BY <1>2 DEF locked_first, written_rows, LockedRow, Kind, Request
<1>7. \A r \in locked_first(x) : lock'[r] = c
  BY <1>0, <1>1, <1>4, <1>5, <1>6 DEF LockInv, HoldWhatTheyNeed
<1>8. lock'["incident"] = c
  BY <1>4, <1>5, <1>6
<1>9. ASSUME x.kind \in {"approve", "reject"} PROVE lock["proposal"] # SEED
  BY <1>0, <1>1, <1>2, <1>9 DEF LockInv, ProposalTaken, SameCopies
<1> HIDE DEF q
<1> QED
  BY <1>0, <1>2, <1>3, <1>5, <1>7, <1>8, <1>9, GoesFurther DEF GoingPhase

LEMMA WriteLocks ==
  ASSUME SeedInv, NEW c \in Clients, Beside(Write(c))
  PROVE  LockInv'
<1> DEFINE q == requests[c]
<1>0. /\ SeedTyped /\ LockInv /\ Write(c) /\ UNCHANGED <<row, proposal, seed>>
      /\ FREE \notin Clients /\ SEED \notin Clients /\ SEED # FREE
  BY ClientsAssumption, SeedAssumption DEF SeedInv, Beside, Write, committed
<1>1. q \in Request /\ q.phase = "moved" /\ c \in going /\ refusal(q) = "none"
  BY <1>0, Writing DEF going, LockInv, NoneRefused
<1>2. PICK x \in Request : Becomes(c, x) /\ x.phase = "written" /\ SameCopies(q, x)
                           /\ x.work_orders = orders_found(q)
  BY <1>0, Writing
<1>3. refusal(x) = "none"
  BY <1>1, <1>2, SameRefusal DEF orders_found, SameCopies
<1>4. locked_first(x) = locked_first(q)
  BY <1>1, <1>2, SameRows DEF SameCopies
<1>5. /\ \A r \in awaited(q) : lock[r] \in {FREE, c}
      /\ lock' = [r \in LockedRow |-> IF r \in awaited(q) THEN c ELSE lock[r]]
  BY <1>0 DEF Write, obtainable, obtained
<1>6. locked_first(x) \subseteq LockedRow /\ "incident" \in LockedRow
  BY <1>2 DEF locked_first, written_rows, LockedRow, Kind, Request
<1>7. \A r \in locked_first(x) : lock'[r] = c
  BY <1>0, <1>1, <1>4, <1>5, <1>6 DEF LockInv, HoldWhatTheyNeed
<1>8. lock'["incident"] = c
  BY <1>0, <1>1, <1>5, <1>6 DEF LockInv, HoldWhatTheyNeed
<1>9. ASSUME x.kind \in {"approve", "reject"} PROVE lock["proposal"] # SEED
  BY <1>0, <1>1, <1>2, <1>9 DEF LockInv, ProposalTaken, SameCopies
<1> HIDE DEF q
<1> QED
  BY <1>0, <1>2, <1>3, <1>5, <1>7, <1>8, <1>9, GoesFurther DEF GoingPhase

LEMMA AnswerLocks ==
  ASSUME SeedInv, NEW c \in Clients, Beside(Answer(c))
  PROVE  LockInv'
<1> DEFINE q == requests[c]
<1>0. SeedTyped /\ LockInv /\ Answer(c) /\ UNCHANGED <<row, proposal, seed, lock>>
  BY DEF SeedInv, Beside, Answer, committed
<1>1. q \in Request /\ q.phase = "written" /\ c \in going /\ refusal(q) = "none"
  BY <1>0, Answering DEF going, LockInv, NoneRefused
<1>2. PICK x \in Request : Becomes(c, x) /\ x.phase = "answered" /\ SameCopies(q, x)
                           /\ x.work_orders = q.work_orders
  BY <1>0, Answering
<1>3. refusal(x) = "none" /\ locked_first(x) = locked_first(q)
  BY <1>1, <1>2, SameRefusal, SameRows DEF SameCopies
<1>4. lock' = [r \in LockedRow |-> IF r \in {} THEN c ELSE lock[r]]
  BY <1>0 DEF SeedTyped
<1>5. /\ \A r \in locked_first(x) : lock'[r] = c
      /\ lock'["incident"] = c
  BY <1>0, <1>1, <1>3 DEF LockInv, HoldWhatTheyNeed
<1>6. ASSUME x.kind \in {"approve", "reject"} PROVE lock["proposal"] # SEED
  BY <1>0, <1>1, <1>2, <1>6 DEF LockInv, ProposalTaken, SameCopies
<1> HIDE DEF q
<1> QED
  BY <1>0, <1>2, <1>3, <1>4, <1>5, <1>6, GoesFurther DEF GoingPhase

\* A decision that is committed is one on a proposal that the script, if it is
\* past the proposals, has found absent: there is none.
LEMMA CommitLocks ==
  ASSUME SeedInv, NEW c \in Clients, Beside(Commit(c))
  PROVE  LockInv'
<1> DEFINE q == requests[c]
<1>0. /\ SeedTyped /\ LockInv /\ UNCHANGED <<row, seed>> /\ c \in going
      /\ lock' = released(c) /\ ends(c)
      /\ proposal' = IF "proposal" \in written_rows(q) THEN decided_status(q) ELSE proposal
  BY DEF SeedInv, Beside, Commit, in_phase, going
<1>1. q \in Request /\ refusal(q) = "none"
  BY <1>0, GoingOn DEF LockInv
<1>2. ASSUME PastTheProposals
      PROVE  proposal' = "absent" \/ lock["proposal"] = SEED
  <2>1. CASE q.kind \in {"approve", "reject"}
    <3>1. q.proposal # "absent"
      BY <1>1, <2>1 DEF refusal, approval_refusal, rejection_refusal
    <3>2. row.demo
      BY <1>2, ScriptIdle DEF SeedInv, SeedReads, PastTheProposals
    <3>3. proposal # "absent"
      BY <1>0, <3>1, <3>2 DEF SeedInv, Stocked, StockedLike
    <3>4. lock["proposal"] = SEED
      BY <1>0, <1>2, <3>3 DEF LockInv, ProposalTaken
    <3> QED
      BY <3>4
  <2>2. CASE q.kind \notin {"approve", "reject"}
    <3>1. proposal' = proposal
      BY <1>0, <1>1, <2>2 DEF written_rows, Request, Kind
    <3> QED
      BY <1>0, <1>2, <3>1 DEF LockInv, ProposalTaken
  <2> QED
    BY <2>1, <2>2
<1> HIDE DEF q
<1> QED
  BY <1>0, <1>2, EndOfRequest

LEMMA SeedStepLocks ==
  ASSUME SeedInv, PurgeOrders \/ PurgeParts \/ PurgeProposal \/ WriteIncident
  PROVE  LockInv'
<1>1. SeedTyped /\ LockInv /\ SeedLocks
  BY DEF SeedInv, PurgeOrders, PurgeParts, PurgeProposal, WriteIncident
<1>2. seed # NotSeeding
  BY ScriptIdle DEF PurgeOrders, PurgeParts, PurgeProposal, WriteIncident
<1>3. seed \in Seeding
  BY <1>1, <1>2, ScriptRuns
<1>4. lock["incident"] # SEED
  BY <1>1 DEF LockInv, ScriptHolds, PurgeOrders, PurgeParts, PurgeProposal, WriteIncident
<1>5. CASE PurgeOrders
  <2>1. /\ seed.phase = "loaded" /\ seed'.phase = "orders"
        /\ "incident" \notin deletes /\ "part_check" \notin deletes
    BY <1>3, <1>5 DEF PurgeOrders, Seeding, deletes
  <2>2. seed' # NotSeeding
    BY <2>1 DEF NotSeeding
  <2>3. lock'["part_check"] = lock["part_check"]
    BY <1>1, <2>1, ScriptTakes DEF LockedRow
  <2>4. PastTheProposals' => proposal = "absent" \/ lock["proposal"] = SEED
    BY <1>1, <2>1, <2>3 DEF LockInv, ProposalTaken, PastTheProposals
  <2> QED
    BY <1>1, <1>4, <2>1, <2>2, <2>4, ScriptGoesOn
<1>6. CASE PurgeParts
  <2>1. seed'.phase = "parts" /\ "incident" \notin deletes
    BY <1>3, <1>6 DEF PurgeParts, seed_goes_to, Seeding, deletes
  <2>2. seed' # NotSeeding
    BY <2>1 DEF NotSeeding
  <2> QED
    BY <1>1, <1>4, <2>1, <2>2, ScriptGoesOn DEF PastTheProposals
<1>7. CASE PurgeProposal
  <2>1. /\ seed'.phase = "proposal"
        /\ deletes = IF proposal # "absent" THEN {"proposal"} ELSE {}
    BY <1>3, <1>7 DEF PurgeProposal, Seeding, deletes
  <2>2. seed' # NotSeeding
    BY <2>1 DEF NotSeeding
  <2> QED
    BY <1>1, <1>4, <2>1, <2>2, ScriptGoesOn
<1>8. CASE WriteIncident
  <2>1. seed'.phase = "written" /\ seed.phase = "proposal"
    BY <1>3, <1>8 DEF WriteIncident, seed_goes_to, Seeding
  <2>2. seed' # NotSeeding
    BY <2>1 DEF NotSeeding
  <2>3. proposal = "absent" \/ lock["proposal"] = SEED
    BY <1>1, <2>1 DEF LockInv, ProposalTaken, PastTheProposals
  <2> QED
    BY <1>1, <1>4, <2>1, <2>2, <2>3, ScriptGoesOn
<1> QED
  BY <1>5, <1>6, <1>7, <1>8

LEMMA NextSeedLocks == SeedInv /\ [SeedNext]_seed_vars => LockInv'
<1> SUFFICES ASSUME SeedInv, [SeedNext]_seed_vars PROVE LockInv'
  OBVIOUS
<1>i. SeedTyped /\ LockInv
  BY DEF SeedInv
\* What a request does without a lock, and what ends it.
<1>u. ASSUME NEW c \in Clients, NEW x, Becomes(c, x), UNCHANGED <<committed, lock, seed>>,
             requests[c].phase \notin GoingPhase, x.phase \notin GoingPhase
      PROVE  LockInv'
  BY <1>i, <1>u, WithoutLocks DEF committed
<1>e. ASSUME NEW c \in Clients, lock' = released(c), ends(c), UNCHANGED <<committed, seed>>
      PROVE  LockInv'
  <2>1. PastTheProposals => proposal' = "absent" \/ lock["proposal"] = SEED
    BY <1>i, <1>e DEF LockInv, ProposalTaken, committed
  <2>2. UNCHANGED <<row, seed>>
    BY <1>e DEF committed
  <2> QED
    BY <1>i, <1>e, <2>1, <2>2, EndOfRequest
<1>1. CASE UNCHANGED seed_vars
  <2>1. UNCHANGED <<row, proposal, requests, lock, seed>>
    BY <1>1 DEF seed_vars, vars
  <2>2. NoneRefused'
    <3>1. \A d : refusal(requests[d])' = refusal(requests[d])
      BY <2>1, RefusalLater
    <3> QED
      BY <1>i, <2>1, <3>1 DEF LockInv, NoneRefused, going
  <2> QED
    BY <1>i, <2>1, <2>2 DEF LockInv, RequestsHold, HoldWhatTheyNeed, ScriptHolds,
       ProposalTaken, PastTheProposals, going
<1>2. ASSUME NEW c \in Clients, NEW kind \in Kind, Beside(Load(c, kind)) PROVE LockInv'
  <2>1. Load(c, kind) /\ requests[c].phase \notin GoingPhase /\ UNCHANGED <<committed, lock, seed>>
    BY <1>2 DEF Beside, Load, in_phase, GoingPhase
  <2>2. PICK x \in Request : Becomes(c, x) /\ x.phase = "loaded"
    BY <1>i, <2>1, Loading
  <2> QED
    BY <1>u, <2>1, <2>2 DEF GoingPhase
<1>3. ASSUME UNCHANGED <<row, proposal, requests, lock>>, seed' # NotSeeding,
             lock["incident"] # SEED, PastTheProposals' => PastTheProposals
      PROVE  LockInv'
  <2>1. NoneRefused'
    <3>1. \A d : refusal(requests[d])' = refusal(requests[d])
      BY <1>3, RefusalLater
    <3> QED
      BY <1>i, <1>3, <3>1 DEF LockInv, NoneRefused, going
  <2>2. RequestsHold' /\ HoldWhatTheyNeed'
    BY <1>i, <1>3 DEF LockInv, RequestsHold, HoldWhatTheyNeed, going
  <2>3. ScriptHolds' /\ ProposalTaken'
    BY <1>i, <1>3 DEF LockInv, ScriptHolds, ProposalTaken, going
  <2> QED
    BY <2>1, <2>2, <2>3 DEF LockInv
<1>l. ASSUME NEW passes \in {1, 2}, SeedLoad(passes) PROVE LockInv'
  <2>1. /\ UNCHANGED <<row, proposal, requests, lock>>
        /\ seed = NotSeeding /\ seed'.phase = "loaded"
    BY <1>l DEF SeedLoad, vars
  <2>2. \A r \in LockedRow : lock[r] # SEED
    BY <1>i, <2>1 DEF LockInv, ScriptHolds
  <2> QED
    BY <1>3, <2>1, <2>2 DEF PastTheProposals, NotSeeding, LockedRow
<1>r. CASE SeedReload
  <2>1. /\ UNCHANGED <<row, proposal, requests, lock>> /\ seed.phase = "proposal"
    BY <1>r DEF SeedReload, vars
  <2>2. seed'.phase = "loaded"
    BY <1>i, <1>r, <2>1, ScriptIdle, ScriptRuns DEF SeedReload, Seeding
  <2>3. lock["incident"] # SEED
    BY <1>i, <2>1 DEF LockInv, ScriptHolds
  <2> QED
    BY <1>3, <2>1, <2>2, <2>3 DEF PastTheProposals, NotSeeding
<1>4. ASSUME NEW c \in Clients, ReadBeside(c) PROVE LockInv'
  <2>1. Read(c) /\ requests[c].phase \notin GoingPhase /\ UNCHANGED <<committed, lock, seed>>
    BY <1>4 DEF ReadBeside, Read, in_phase, GoingPhase
  <2>2. PICK x \in Request : Becomes(c, x) /\ x.phase = "read"
    BY <1>i, <2>1, Reading
  <2> QED
    BY <1>u, <2>1, <2>2 DEF GoingPhase
<1>5. ASSUME NEW c \in Clients, Beside(Refuse(c)) \/ RowsGone(c) PROVE LockInv'
  <2>1. ends(c) /\ requests[c].phase = "read" /\ UNCHANGED <<committed, lock, seed>>
    BY <1>5 DEF Beside, Refuse, RowsGone, in_phase
  <2> QED
    BY <1>u, <2>1, Ending DEF GoingPhase, Idle
<1>6. ASSUME NEW c \in Clients, Beside(RefuseOffline(c)) PROVE LockInv'
  <2>1. ends(c) /\ requests[c].phase = "read" /\ UNCHANGED <<row, proposal, lock, seed>>
    BY <1>6 DEF Beside, RefuseOffline, in_phase
  <2> QED
    BY <1>i, <2>1, Ending, WithoutLocks DEF GoingPhase, Idle
<1>7. ASSUME NEW c \in Clients, Beside(Fail(c)) PROVE LockInv'
  BY <1>7, <1>e DEF Beside, Fail, rolled_back
<1>8. CASE SeedCommit \/ SeedRollback
  <2>1. UNCHANGED <<row, requests>> /\ seed' = NotSeeding /\ lock' = released_by_seed
    BY <1>8 DEF SeedCommit, SeedRollback, committed
  <2> QED
    BY <1>i, <2>1, EndOfScript
<1>9. CASE BreakCircle
  BY <1>8, <1>9, <1>e DEF BreakCircle
<1> QED
  BY <1>1, <1>2, <1>l, <1>4, <1>5, <1>6, <1>7, <1>8, <1>9, <1>r,
     DecideLocks, MoveLocks, WriteLocks, AnswerLocks, CommitLocks, SeedStepLocks
     DEF SeedNext, Begin, Advance, SeedStep, SeedFail

-----------------------------------------------------------------------------
\* Stock.

LEMMA StockedAfter ==
  ASSUME row' = row, row.demo => StockedLike(proposal', part_checks'),
         \A d \in Clients : row.demo /\ requests'[d].phase \in {"read"} \cup GoingPhase =>
           /\ StockedLike(requests'[d].proposal, requests'[d].part_checks)
           /\ /\ requests'[d].kind = "approve"
              /\ requests'[d].phase \in GoingPhase \/ "proposal" \notin gone'[d]
              => unreserved(part_checks') \subseteq unreserved(requests'[d].part_checks)
  PROVE  Stocked'
BY DEF Stocked, StockedLike, going, GoingPhase, unreserved

\* The same, of the state at hand.
LEMMA StockedNow ==
  ASSUME Stocked, row.demo
  PROVE  /\ StockedLike(proposal, part_checks)
         /\ \A d \in Clients : requests[d].phase \in {"read"} \cup GoingPhase =>
              /\ StockedLike(requests[d].proposal, requests[d].part_checks)
              /\ /\ requests[d].kind = "approve"
                 /\ requests[d].phase \in GoingPhase \/ "proposal" \notin gone[d]
                 => unreserved(part_checks) \subseteq unreserved(requests[d].part_checks)
BY DEF Stocked, going, GoingPhase

\* One request becomes x, and the proposal and its parts stay as they are.
LEMMA OneStocked ==
  ASSUME SeedTyped, Stocked, UNCHANGED <<row, proposal, part_checks>>,
         NEW c \in Clients, NEW x, Becomes(c, x),
         \A d \in Clients \ {c} : gone'[d] = gone[d],
         row.demo /\ x.phase \in {"read"} \cup GoingPhase =>
           /\ StockedLike(x.proposal, x.part_checks)
           /\ /\ x.kind = "approve"
              /\ x.phase \in GoingPhase \/ "proposal" \notin gone'[c]
              => unreserved(part_checks) \subseteq unreserved(x.part_checks)
  PROVE  Stocked'
<1>1. /\ requests'[c] = x
      /\ \A d \in Clients \ {c} : requests'[d] = requests[d]
  BY Becoming
<1>2. row.demo => StockedLike(proposal', part_checks')
  BY StockedNow
<1>3. ASSUME NEW d \in Clients, row.demo, requests'[d].phase \in {"read"} \cup GoingPhase
      PROVE  /\ StockedLike(requests'[d].proposal, requests'[d].part_checks)
             /\ /\ requests'[d].kind = "approve"
                /\ requests'[d].phase \in GoingPhase \/ "proposal" \notin gone'[d]
                => unreserved(part_checks') \subseteq unreserved(requests'[d].part_checks)
  <2>1. CASE d = c
    BY <1>1, <1>3, <2>1
  <2>2. CASE d # c
    <3>1. requests'[d] = requests[d] /\ gone'[d] = gone[d]
      BY <1>1, <2>2
    <3> QED
      BY <1>3, <3>1, StockedNow
  <2> QED
    BY <2>1, <2>2
<1> QED
  BY <1>2, <1>3, StockedAfter

\* A request that goes on with the copies it has.
LEMMA StillStocked ==
  ASSUME SeedTyped, Stocked, UNCHANGED <<row, proposal, part_checks, gone>>,
         NEW c \in Clients, requests[c].phase \in {"read"} \cup GoingPhase,
         NEW x, Becomes(c, x), SameCopies(requests[c], x),
         requests[c].phase \in GoingPhase \/ x.kind # "approve" \/ "proposal" \notin gone[c]
  PROVE  Stocked'
<1>1. row.demo =>
        /\ StockedLike(x.proposal, x.part_checks)
        /\ x.kind = "approve" => unreserved(part_checks) \subseteq unreserved(x.part_checks)
  BY StockedNow DEF SameCopies
<1> QED
  BY <1>1, OneStocked

\* The script leaves everything where it is.
LEMMA NothingMoves ==
  ASSUME Stocked, UNCHANGED <<row, proposal, part_checks, requests, gone>>
  PROVE  Stocked'
BY DEF Stocked, StockedLike, going

\* On a seeded incident the parts agent finds the parts it needs.
LEMMA NothingPlanned ==
  ASSUME SeedInv, row.demo, NEW c \in going
  PROVE  ~plans_a_part(requests[c])
<1> SUFFICES ASSUME plans_a_part(requests[c]) PROVE FALSE
  OBVIOUS
<1> DEFINE q == requests[c]
           current == q.incident.workflow_status
<1>1. q \in Request /\ refusal(q) = "none" /\ Accepted(q) /\ c \in Clients
  BY GoingOn DEF SeedInv, LockInv
<1>2. /\ q.kind = "step" /\ result(q).workflow_status = "approval_required"
      /\ q.part_checks = no_part_checks
  BY DEF plans_a_part
<1>3. StockedLike(q.proposal, q.part_checks)
  BY <1>1, StockedNow DEF SeedInv, going, GoingPhase
<1>4. step_refusal(q) = "none"
  BY <1>1, <1>2 DEF refusal
<1>5. current \in DOMAIN handlers /\ q.incident \in Incident
  BY <1>1, <1>4 DEF step_refusal, Request
<1>6. handlers[current] \in WorkflowStatus
  BY <1>5 DEF handlers, WorkflowStatus
<1>7. handlers[current] = "approval_required"
  <2>1. CASE handlers[current] = "human_review"
    <3>1. result(q) = routed_to_review(q.incident, human_review_reason(row.diagnosis))
      BY <1>2, <2>1 DEF result
    <3>2. result(q).workflow_status = "human_review"
      BY <1>5, <3>1 DEF routed_to_review, moved, Incident
    <3> QED
      BY <1>2, <3>2
  <2>2. CASE handlers[current] # "human_review"
    <3>1. result(q) = moved(q.incident, handlers[current])
      BY <1>2, <2>2 DEF result
    <3> QED
      BY <1>2, <1>5, <1>6, <3>1, Moved
  <2> QED
    BY <2>1, <2>2
<1>8. q.proposal # "absent"
  BY <1>4, <1>5, <1>7 DEF step_refusal, planner_raises
<1>9. row \in Rows /\ row.proposal # "absent" /\ row \in Row
  BY <1>3, <1>8, ApiRowsAssumption DEF StockedLike, SeedInv, SeedTyped, CommittedTyped
<1>10. row.part_checks # no_part_checks /\ row.part_checks \in PartChecks
  BY <1>9, SeedRowsAssumption DEF Row
<1>11. PICK p \in Parts : row.part_checks[p] # "absent"
  BY <1>10 DEF no_part_checks, PartChecks
<1> QED
  BY <1>2, <1>3, <1>11 DEF StockedLike, no_part_checks

\* An approval reserves all that is left to reserve, because it has seen it.
LEMMA CommitStocked ==
  ASSUME SeedInv, NEW c \in Clients, Beside(Commit(c))
  PROVE  Stocked'
<1> DEFINE q == requests[c]
<1>0. /\ SeedTyped /\ Stocked /\ NoneRefused /\ UNCHANGED <<row, gone>> /\ c \in going
      /\ q.phase = "answered" /\ ends(c) /\ part_checks' \in committed_checks(q)
      /\ proposal' = IF "proposal" \in written_rows(q) THEN decided_status(q) ELSE proposal
  BY DEF SeedInv, LockInv, Beside, Commit, in_phase, going
<1>1. q \in Request /\ refusal(q) = "none" /\ Accepted(q)
  BY <1>0, GoingOn
<1>2. part_checks \in PartChecks /\ q.part_checks \in PartChecks /\ q.kind \in Kind
  BY <1>0, <1>1 DEF SeedTyped, CommittedTyped, Request
<1>3. /\ requests'[c] = Idle /\ Idle.phase \notin {"read"} \cup GoingPhase
      /\ \A d \in Clients \ {c} : requests'[d] = requests[d]
  BY <1>0, Ending, Becoming DEF Idle, GoingPhase
<1>4. ASSUME row.demo
      PROVE  /\ StockedLike(proposal', part_checks')
             /\ unreserved(part_checks') \subseteq unreserved(part_checks)
  <2>1. StockedLike(proposal, part_checks) /\ StockedLike(q.proposal, q.part_checks)
    BY <1>0, <1>4, StockedNow DEF GoingPhase
  <2>2. ~plans_a_part(q)
    BY <1>0, <1>4, NothingPlanned
  <2>3. CASE q.kind = "approve"
    <3>1. part_checks' = [p \in Parts |-> IF p \in unreserved(q.part_checks)
                                          THEN "reserved" ELSE part_checks[p]]
      BY <1>0, <2>3 DEF committed_checks
    <3>2. unreserved(part_checks) \subseteq unreserved(q.part_checks)
      BY <1>0, <1>4, <2>3, StockedNow DEF GoingPhase
    <3>3. unreserved(part_checks') = {}
      BY <3>1, <3>2 DEF unreserved
    <3>4. \A p \in Parts : part_checks'[p] = "absent" <=> row.part_checks[p] = "absent"
      BY <2>1, <3>1 DEF StockedLike, unreserved
    <3>5. row.proposal # "absent" /\ decided_status(q) = "approved"
      BY <1>1, <2>1, <2>3 DEF StockedLike, refusal, approval_refusal, decided_status
    <3> QED
      BY <1>0, <2>1, <3>3, <3>4, <3>5 DEF StockedLike
  <2>4. CASE q.kind = "reject"
    <3>1. part_checks' = part_checks
      BY <1>0, <2>2, <2>4 DEF committed_checks
    <3>2. row.proposal # "absent" /\ decided_status(q) = "rejected"
      BY <1>1, <2>1, <2>4 DEF StockedLike, refusal, rejection_refusal, decided_status
    <3> QED
      BY <1>0, <2>1, <3>1, <3>2 DEF StockedLike
  <2>5. CASE q.kind \notin {"approve", "reject"}
    <3>1. part_checks' = part_checks
      BY <1>0, <2>2, <2>5 DEF committed_checks
    <3>2. proposal' = proposal
      BY <1>0, <1>2, <2>5 DEF written_rows, Kind
    <3> QED
      BY <2>1, <3>1, <3>2
  <2> QED
    BY <2>3, <2>4, <2>5
<1>5. ASSUME NEW d \in Clients, row.demo, requests'[d].phase \in {"read"} \cup GoingPhase
      PROVE  /\ StockedLike(requests'[d].proposal, requests'[d].part_checks)
             /\ /\ requests'[d].kind = "approve"
                /\ requests'[d].phase \in GoingPhase \/ "proposal" \notin gone'[d]
                => unreserved(part_checks') \subseteq unreserved(requests'[d].part_checks)
  <2>1. requests'[d] = requests[d] /\ gone'[d] = gone[d]
    BY <1>0, <1>3, <1>5
  <2> QED
    BY <1>0, <1>4, <1>5, <2>1, StockedNow
<1> HIDE DEF q
<1> QED
  BY <1>0, <1>4, <1>5, StockedAfter

\* The script brings the scenario's rows back, and nobody who has read the old
\* ones can still decide on them.
LEMMA SeedCommitStocked ==
  ASSUME SeedInv, SeedCommit
  PROVE  Stocked'
<1>0. /\ SeedTyped /\ Stocked /\ LockInv /\ row.demo /\ row \in Rows
      /\ seed.phase = "written" /\ UNCHANGED <<row, requests>>
      /\ proposal' = row.proposal /\ part_checks' = row.part_checks
      /\ gone' = [c \in Clients |-> gone[c] \cup deleted_of(requests[c])]
  BY ScriptIdle DEF SeedInv, SeedTyped, CommittedTyped, SeedReads, SeedCommit
<1>1. StockedLike(proposal', part_checks')
  <2>1. row.part_checks \in PartChecks /\ row.proposal = "approved" => row.proposal # "absent"
    BY <1>0, ApiRowsAssumption DEF Row
  <2> QED
    BY <1>0, <2>1, SeedRowsAssumption DEF StockedLike
<1>2. ASSUME NEW d \in Clients, requests[d].phase \in {"read"} \cup GoingPhase
      PROVE  /\ StockedLike(requests[d].proposal, requests[d].part_checks)
             /\ /\ requests[d].kind = "approve"
                /\ requests[d].phase \in GoingPhase \/ "proposal" \notin gone'[d]
                => unreserved(part_checks') \subseteq unreserved(requests[d].part_checks)
  <2>1. StockedLike(requests[d].proposal, requests[d].part_checks)
    BY <1>0, <1>2, StockedNow
  <2>2. CASE requests[d].phase = "read"
    <3>1. "proposal" \in gone'[d]
      BY <1>0, <2>2 DEF deleted_of
    <3> QED
      BY <2>1, <2>2, <3>1 DEF GoingPhase
  <2>3. CASE requests[d].phase \in GoingPhase
    <3>1. d \in going /\ refusal(requests[d]) = "none"
      BY <1>0, <2>3 DEF going, GoingPhase, LockInv, NoneRefused
    <3>2. requests[d].kind # "approve"
      <4>1. CASE lock["proposal"] = SEED
        BY <1>0, <3>1, <4>1 DEF LockInv, ProposalTaken
      <4>2. CASE proposal = "absent"
        <5>1. requests[d].proposal = "absent"
          BY <1>0, <2>1, <4>2, StockedNow DEF StockedLike
        <5> QED
          BY <3>1, <5>1 DEF refusal, approval_refusal
      <4> QED
        BY <1>0, <4>1, <4>2 DEF LockInv, ProposalTaken, PastTheProposals
    <3> QED
      BY <2>1, <3>2
  <2> QED
    BY <1>2, <2>2, <2>3
<1> QED
  BY <1>0, <1>1, <1>2, StockedAfter

LEMMA NextStocked == SeedInv /\ [SeedNext]_seed_vars => Stocked'
<1> SUFFICES ASSUME SeedInv, [SeedNext]_seed_vars PROVE Stocked'
  OBVIOUS
<1>i. SeedTyped /\ Stocked /\ gone \in [Clients -> SUBSET {"proposal", "work_order"}]
  BY DEF SeedInv, SeedTyped
\* A request that ends without a commit.
<1>e. ASSUME NEW c \in Clients, ends(c), UNCHANGED <<row, proposal, part_checks, gone>>
      PROVE  Stocked'
  BY <1>e, <1>i, Ending, OneStocked DEF Idle, GoingPhase
<1>1. CASE UNCHANGED seed_vars
  BY <1>1, <1>i, NothingMoves DEF seed_vars, vars
<1>2. ASSUME NEW c \in Clients, NEW kind \in Kind, Beside(Load(c, kind)) PROVE Stocked'
  <2>1. Load(c, kind) /\ UNCHANGED <<row, proposal, part_checks, gone>>
    BY <1>2 DEF Beside, Load, committed
  <2>2. PICK x \in Request : Becomes(c, x) /\ x.phase = "loaded"
    BY <1>i, <2>1, Loading
  <2> QED
    BY <1>i, <2>1, <2>2, OneStocked DEF GoingPhase
<1>3. ASSUME NEW passes \in {1, 2}, SeedLoad(passes) PROVE Stocked'
  BY <1>3, <1>i, NothingMoves DEF SeedLoad, vars
<1>4. ASSUME NEW c \in Clients, ReadBeside(c) PROVE Stocked'
  <2>1. /\ Read(c) /\ UNCHANGED <<row, proposal, part_checks>>
        /\ \A d \in Clients \ {c} : gone'[d] = gone[d]
    BY <1>4, <1>i DEF ReadBeside, Read, committed
  <2>2. PICK x \in Request : Becomes(c, x) /\ x.proposal = proposal /\ x.part_checks = part_checks
    BY <1>i, <2>1, Reading
  <2> QED
    BY <1>i, <2>1, <2>2, StockedNow, OneStocked
<1>5. ASSUME NEW c \in Clients, DecideBeside(c) PROVE Stocked'
  <2>1. /\ Decide(c) /\ UNCHANGED <<row, proposal, part_checks, gone>>
        /\ refusal(requests[c]) = "none" /\ requests[c].phase = "read" /\ missing(c) = {}
    BY <1>5 DEF DecideBeside, Decide, committed, in_phase
  <2>2. PICK x \in Request : Becomes(c, x) /\ SameCopies(requests[c], x)
    BY <1>i, <2>1, Deciding
  <2>3. x.kind # "approve" \/ "proposal" \notin gone[c]
    BY <2>1, <2>2 DEF SameCopies, missing, references
  <2> QED
    BY <1>i, <2>1, <2>2, <2>3, StillStocked
<1>6. ASSUME NEW c \in Clients, Beside(Move(c)) \/ Beside(Write(c)) \/ Beside(Answer(c))
      PROVE  Stocked'
  <2>1. /\ Move(c) \/ Write(c) \/ Answer(c)
        /\ UNCHANGED <<row, proposal, part_checks, gone>>
        /\ requests[c].phase \in GoingPhase
    BY <1>6 DEF Beside, Move, Write, Answer, committed, in_phase, GoingPhase
  <2>2. PICK x \in Request : Becomes(c, x) /\ SameCopies(requests[c], x)
    BY <1>i, <2>1, Moving, Writing, Answering
  <2> QED
    BY <1>i, <2>1, <2>2, StillStocked
<1>7. ASSUME NEW c \in Clients,
             \/ Beside(Refuse(c)) \/ Beside(RefuseOffline(c)) \/ RowsGone(c)
             \/ Beside(Fail(c))
      PROVE  Stocked'
  BY <1>7, <1>e DEF Beside, Refuse, RefuseOffline, RowsGone, Fail, committed
<1>8. CASE PurgeOrders \/ PurgeParts \/ PurgeProposal \/ WriteIncident
  <2>1. SeedLocks
    BY <1>8 DEF PurgeOrders, PurgeParts, PurgeProposal, WriteIncident
  <2> QED
    BY <1>i, <2>1, NothingMoves DEF SeedLocks, committed
<1>r. CASE SeedReload
  BY <1>r, <1>i, NothingMoves DEF SeedReload, vars
<1>9. CASE SeedRollback
  BY <1>9, <1>i, NothingMoves DEF SeedRollback, committed
<1>10. CASE BreakCircle
  BY <1>9, <1>10, <1>e DEF BreakCircle, committed
<1> QED
  BY <1>1, <1>2, <1>3, <1>4, <1>5, <1>6, <1>7, <1>8, <1>9, <1>10, <1>r,
     CommitStocked, SeedCommitStocked
     DEF SeedNext, Begin, Advance, SeedStep, SeedFail

-----------------------------------------------------------------------------
\* The invariant holds.

LEMMA InitSeedInv == SeedInit => SeedInv
<1> SUFFICES ASSUME SeedInit PROVE SeedInv
  OBVIOUS
<1>0. /\ FREE \notin Clients /\ SEED \notin Clients /\ SEED # FREE /\ MaxSeedRuns \in Nat
      /\ Idle.phase = "idle" /\ NotSeeding.phase = "idle"
  BY ClientsAssumption, SeedAssumption DEF Idle, NotSeeding
<1>1. CommittedTyped
  BY InitIInv DEF SeedInit, IInv, Typed
<1>2. /\ requests = [c \in Clients |-> Idle] /\ lock = [r \in LockedRow |-> FREE]
      /\ seed = NotSeeding /\ gone = [c \in Clients |-> {}] /\ runs = 0
      /\ row \in Rows /\ proposal = row.proposal /\ part_checks = row.part_checks
  BY DEF SeedInit, Init, Serial!Init
<1>3. SeedTyped /\ SeedReads
  BY <1>0, <1>1, <1>2 DEF SeedTyped, SeedReads
<1>4. going = {}
  BY <1>0, <1>2 DEF going
<1>5. LockInv
  BY <1>0, <1>2, <1>4 DEF LockInv, RequestsHold, HoldWhatTheyNeed, NoneRefused,
     ScriptHolds, ProposalTaken, PastTheProposals, LockedRow
<1>6. Stocked
  <2>1. row.demo => StockedLike(proposal, part_checks)
    BY <1>2, SeedRowsAssumption DEF StockedLike
  <2> QED
    BY <1>0, <1>2, <1>4, <2>1 DEF Stocked
<1> QED
  BY <1>3, <1>5, <1>6 DEF SeedInv

LEMMA AlwaysSeedInv == SeedSpec => []SeedInv
<1>1. SeedInv /\ [SeedNext]_seed_vars => SeedInv'
  BY NextSeedTyped, NextSeedLocks, NextStocked DEF SeedInv
<1> QED
  BY <1>1, InitSeedInv, PTL DEF SeedSpec

-----------------------------------------------------------------------------
\* The theorems.

\* Every variable stays in its set, the script's included: it never takes away
\* more agent runs than there are (seed/demo.py: _purge_incident).
THEOREM SeedTypesHold == SeedSpec => []SeedTypeOK
<1>1. SeedInv => SeedTypeOK
  BY SerialTyped DEF SeedInv, SeedTyped, SeedTypeOK
<1> QED
  BY <1>1, AlwaysSeedInv, PTL

\* Only a request that has decided is waited for.
LEMMA WaitedFor ==
  ASSUME SeedTyped, RequestsHold, NEW x \in Clients \cup {SEED}, NEW c \in Clients,
         c \in blockers(x)
  PROVE  c \in going
<1>0. FREE \notin Clients /\ SEED \notin Clients /\ SEED # FREE
  BY ClientsAssumption, SeedAssumption
<1>1. CASE x = SEED
  <2>1. PICK r \in deletes : c = lock[r] \/ c \in referred(r)
    BY <1>0, <1>1 DEF blockers, seed_waits_for
  <2>2. r \in LockedRow
    BY DEF deletes, LockedRow
  <2> QED
    BY <2>1, <2>2 DEF RequestsHold, referred, going
<1>2. CASE x # SEED
  <2>1. PICK r \in awaited(requests[x]) : c = lock[r]
    BY <1>0, <1>2 DEF blockers, waits_for
  <2>2. requests[x] \in Request
    BY <1>2, <2>1 DEF SeedTyped, awaited, Idle
  <2>3. r \in LockedRow
    BY <2>2 DEF awaited, locked_first, locked_last, written_rows, LockedRow, Request, Kind
  <2> QED
    BY <2>1, <2>3 DEF RequestsHold
<1> QED
  BY <1>1, <1>2

\* A request waits for the incident when it has decided, and for its parts when
\* it has the incident.
LEMMA GoingWaits ==
  ASSUME SeedTyped, NEW c \in going, NEW d \in blockers(c)
  PROVE  /\ d # c /\ d # FREE
         /\ \/ requests[c].phase = "decided" /\ d = lock["incident"]
            \/ /\ requests[c].phase = "moved" /\ d = lock["part_check"]
               /\ "part_check" \in written_rows(requests[c])
<1>0. c \in Clients /\ c # SEED
  BY SeedAssumption DEF going
<1>1. /\ requests[c].phase \in {"decided", "moved", "written", "answered"}
      /\ requests[c] \in Request
  BY DEF SeedTyped, going, Idle
<1>2. d # c /\ d # FREE /\ \E r \in awaited(requests[c]) : d = lock[r]
  BY <1>0, <1>1, ClientsAssumption, SeedAssumption DEF blockers, waits_for
<1>3. PICK r \in awaited(requests[c]) : d = lock[r]
  BY <1>2
<1>4. CASE requests[c].phase = "decided"
  BY <1>1, <1>2, <1>3, <1>4 DEF awaited, locked_first, locked_last
<1>5. CASE requests[c].phase = "moved"
  BY <1>1, <1>2, <1>3, <1>5 DEF awaited, locked_last
<1>6. CASE requests[c].phase \notin {"decided", "moved"}
  BY <1>1, <1>3, <1>6 DEF awaited
<1> QED
  BY <1>4, <1>5, <1>6

\* Of the requests, only the one that has the incident has part checks.
LEMMA PartsComeLast ==
  ASSUME SeedTyped, RequestsHold, HoldWhatTheyNeed, lock["part_check"] \in Clients
  PROVE  lock["part_check"] = lock["incident"]
BY DEF RequestsHold, HoldWhatTheyNeed, LockedRow, locked_first

\* The script waits for other clients, and not while it holds the incident.
LEMMA ScriptWaits ==
  ASSUME SeedTyped, NEW x \in blockers(SEED)
  PROVE  x \in Clients /\ seed # NotSeeding /\ seed.phase # "written"
<1>1. PICK r \in deletes : x \in {lock[r]} \cup referred(r) /\ x \notin {FREE, SEED}
  BY DEF blockers, seed_waits_for
<1>2. r \in LockedRow /\ seed # NotSeeding /\ seed.phase # "written"
  BY DEF deletes, LockedRow, NotSeeding
<1> QED
  BY <1>1, <1>2 DEF SeedTyped, referred

\* In every circle is a request that has the incident and waits for the script.
LEMMA CircleHasAMover ==
  ASSUME SeedInv, NEW S \in Circles
  PROVE  \E c \in S \cap Clients :
           /\ c \in going /\ lock["incident"] = c /\ SEED \in S
           /\ lock["part_check"] = SEED /\ "part_check" \in written_rows(requests[c])
           /\ \A d \in S \ {SEED, c} :
                d \in going /\ requests[d].phase = "decided" /\ d \in blockers(SEED)
<1>0. /\ SeedTyped /\ RequestsHold /\ HoldWhatTheyNeed /\ ScriptHolds
      /\ FREE \notin Clients /\ SEED \notin Clients /\ SEED # FREE
  BY ClientsAssumption, SeedAssumption DEF SeedInv, LockInv
<1>1. /\ S \subseteq Clients \cup {SEED} /\ S # {}
      /\ \A x \in S : /\ \E y \in S : y \in blockers(x)
                      /\ \E y \in S : x \in blockers(y)
  BY DEF Circles, waiters
<1>2. \A c \in S \cap Clients : c \in going
  BY <1>0, <1>1, WaitedFor
<1>3. ASSUME NEW c \in S \cap Clients, requests[c].phase # "decided"
      PROVE  /\ lock["incident"] = c /\ SEED \in S /\ lock["part_check"] = SEED
             /\ "part_check" \in written_rows(requests[c])
             /\ \A y \in S : y \in blockers(c) => y = SEED
  <2>1. lock["incident"] = c
    BY <1>0, <1>2, <1>3 DEF HoldWhatTheyNeed
  <2>2. \A y \in S : y \in blockers(c) =>
          /\ y = lock["part_check"] /\ y # c /\ "part_check" \in written_rows(requests[c])
    BY <1>0, <1>2, <1>3, GoingWaits
  <2>3. \A y \in S : y \in blockers(c) => y = SEED
    BY <1>0, <1>1, <2>1, <2>2, PartsComeLast
  <2> QED
    BY <1>1, <2>1, <2>2, <2>3
<1>4. ASSUME NEW d \in S \cap Clients, requests[d].phase = "decided",
             NEW y \in S, y \in blockers(d)
      PROVE  y \in Clients /\ lock["incident"] = y /\ requests[y].phase # "decided"
  <2>1. y = lock["incident"]
    BY <1>0, <1>2, <1>4, GoingWaits
  <2>2. y # SEED
    <3> SUFFICES ASSUME y = SEED PROVE FALSE
      OBVIOUS
    <3>1. seed.phase = "written"
      BY <1>0, <2>1 DEF ScriptHolds
    <3> QED
      BY <1>0, <1>1, <1>4, <3>1, ScriptWaits
  <2> QED
    BY <1>0, <1>1, <2>1, <2>2 DEF RequestsHold, LockedRow, locked_first
<1>5. \E c \in S \cap Clients : requests[c].phase # "decided"
  <2>1. PICK d \in S : d \in Clients
    BY <1>0, <1>1, ScriptWaits
  <2>2. PICK y \in S : y \in blockers(d)
    BY <1>1
  <2>3. CASE requests[d].phase = "decided"
    <3>1. d \in S \cap Clients
      BY <2>1
    <3>2. y \in Clients /\ requests[y].phase # "decided"
      BY <1>4, <2>2, <2>3, <3>1
    <3> QED
      BY <3>2
  <2>4. CASE requests[d].phase # "decided"
    BY <2>1, <2>4
  <2> QED
    BY <2>3, <2>4
<1>6. PICK c \in S \cap Clients : requests[c].phase # "decided"
  BY <1>5
<1>7. ASSUME NEW d \in S \ {SEED, c}
      PROVE  d \in going /\ requests[d].phase = "decided" /\ d \in blockers(SEED)
  <2>1. d \in S \cap Clients /\ d \in going /\ lock["incident"] = c
    BY <1>1, <1>2, <1>3, <1>6
  <2>2. requests[d].phase = "decided"
    BY <1>3, <2>1
  <2>3. PICK y \in S : d \in blockers(y)
    BY <1>1
  <2>4. y = SEED
    <3> SUFFICES ASSUME y \in Clients PROVE FALSE
      BY <1>1
    <3>1. requests[y].phase # "decided"
      BY <1>4, <2>1, <2>3
    <3> QED
      BY <1>0, <1>3, <2>1, <2>3, <3>1
  <2> QED
    BY <2>1, <2>2, <2>3, <2>4
<1> QED
  BY <1>2, <1>3, <1>6, <1>7

\* Whatever overlaps, requests and the script wait for each other in one way
\* only: the script has the part checks of one approval, which has the proposal
\* and the incident; whoever else is in the circle has nothing, refers to the
\* proposal the script wants and queues for the incident (seed/demo.py deletes
\* children first, services/approval.py reserves the parts last).
THEOREM OneWayToDeadlock == SeedSpec => []OnlyApprovalsCrossThePurge
<1>1. SeedInv => OnlyApprovalsCrossThePurge
  <2> SUFFICES ASSUME SeedInv, NEW S \in Circles
               PROVE  \E c \in S \cap Clients :
                        /\ SEED \in S /\ requests[c].kind = "approve"
                        /\ lock["incident"] = c
                        /\ \A d \in S \ {SEED, c} : decides_again(requests[d])
    BY DEF OnlyApprovalsCrossThePurge
  <2>0. /\ SeedTyped /\ LockInv /\ HoldWhatTheyNeed /\ Stocked
        /\ FREE \notin Clients /\ SEED \notin Clients /\ SEED # FREE
    BY ClientsAssumption, SeedAssumption DEF SeedInv, LockInv
  <2>1. PICK c \in S \cap Clients :
          /\ c \in going /\ lock["incident"] = c /\ SEED \in S
          /\ lock["part_check"] = SEED /\ "part_check" \in written_rows(requests[c])
          /\ \A d \in S \ {SEED, c} :
               d \in going /\ requests[d].phase = "decided" /\ d \in blockers(SEED)
    BY CircleHasAMover
  <2> DEFINE a == requests[c]
  <2>2. a.kind = "approve" /\ unreserved(a.part_checks) # {} /\ refusal(a) = "none"
    <3>1. a.kind \in Kind /\ refusal(a) = "none"
      BY <2>0, <2>1, GoingOn DEF LockInv, Request
    <3> QED
      BY <2>1, <3>1 DEF written_rows, Kind
  <2>3. seed # NotSeeding /\ row.demo
    BY <2>0, <2>1 DEF LockInv, ScriptHolds, SeedInv, SeedReads, LockedRow
  <2>4. /\ StockedLike(proposal, part_checks)
        /\ StockedLike(a.proposal, a.part_checks)
    BY <2>0, <2>1, <2>3 DEF Stocked
  <2>5. lock["proposal"] = c
    <3>1. "proposal" \in locked_first(a)
      BY <2>2, <2>4 DEF StockedLike, locked_first, written_rows, decided_status
    <3> QED
      BY <2>0, <2>1, <3>1 DEF HoldWhatTheyNeed
  <2>6. proposal # "absent"
    BY <2>2, <2>4 DEF StockedLike, refusal, approval_refusal
  <2>7. seed.phase = "parts"
    <3>1. ~PastTheProposals
      BY <2>0, <2>1, <2>5, <2>6 DEF LockInv, ProposalTaken
    <3> QED
      BY <2>0, <2>1, <2>3, <3>1, ScriptRuns DEF PastTheProposals
  <2>8. ASSUME NEW d \in S \ {SEED, c} PROVE decides_again(requests[d])
    <3> DEFINE q == requests[d]
    <3>1. /\ d \in going /\ q.phase = "decided" /\ d \in blockers(SEED)
          /\ q \in Request /\ refusal(q) = "none"
      BY <2>0, <2>1, GoingOn DEF LockInv
    <3>2. d \in referred("proposal")
      BY <2>0, <2>5, <2>7, <3>1 DEF blockers, seed_waits_for, deletes
    <3>3. q.kind \in {"approve", "reject"}
      <4>1. "proposal" \in references(q) /\ ~plans_a_part(q)
        BY <2>3, <3>1, <3>2, NothingPlanned DEF referred
      <4> QED
        BY <4>1 DEF references
    <3>4. "proposal" \notin locked_first(q)
      BY <2>0, <2>5, <3>1 DEF HoldWhatTheyNeed
    <3>5. q.proposal = decided_status(q)
      BY <3>3, <3>4 DEF locked_first, written_rows
    <3> QED
      BY <3>1, <3>3, <3>5 DEF decides_again
  <2> QED
    BY <2>1, <2>2, <2>8
<1> QED
  BY <1>1, AlwaysSeedInv, PTL

-----------------------------------------------------------------------------
\* The orders.

\* A seeded incident never has a second order, which is why the script can take
\* one from under a request without the next approval raising two.
OrdersKnown ==
  /\ OneOrder
  /\ row.demo => /\ Len(work_orders) <= 1
                 /\ \A i \in 1..Len(work_orders) : work_orders[i] # "cancelled"

\* One request becomes x, and the orders stay as they are.
LEMMA OrdersStay ==
  ASSUME SeedTyped, OrdersKnown, UNCHANGED <<row, work_orders>>,
         NEW c \in Clients, NEW x, Becomes(c, x),
         x.phase \in {"written", "answered"} /\ x.kind = "approve" =>
           x.work_orders = work_orders
  PROVE  OrdersKnown'
<1>1. /\ requests'[c] = x
      /\ \A d \in Clients \ {c} : requests'[d] = requests[d]
  BY Becoming
<1>2. OneOrder'
  BY <1>1 DEF OrdersKnown, OneOrder
<1> QED
  BY <1>2 DEF OrdersKnown

\* Whoever has flushed the incident is alone in that.
LEMMA OneFlushed ==
  ASSUME HoldWhatTheyNeed, NEW c \in Clients, NEW d \in Clients,
         requests[c].phase \in {"written", "answered"},
         requests[d].phase \in {"written", "answered"}
  PROVE  c = d
BY DEF HoldWhatTheyNeed, going

LEMMA CommitOrders ==
  ASSUME SeedInv, OrdersKnown, NEW c \in Clients, Beside(Commit(c))
  PROVE  OrdersKnown'
<1> DEFINE q == requests[c]
<1>0. /\ SeedTyped /\ NoneRefused /\ HoldWhatTheyNeed /\ OneOrder /\ row' = row
      /\ q.phase = "answered" /\ ends(c) /\ work_orders' = committed_orders(q)
      /\ work_orders \in Seq(WorkOrderStatus) /\ Len(work_orders) \in Nat
  BY DEF SeedInv, LockInv, Beside, Commit, in_phase, OrdersKnown, SeedTyped, CommittedTyped
<1>1. \A d \in Clients : requests'[d].phase \notin {"written", "answered"}
  <2>1. requests'[c] = Idle /\ Idle.phase = "idle"
    BY <1>0, Ending, Becoming DEF Idle
  <2>2. \A d \in Clients \ {c} :
          requests'[d] = requests[d] /\ requests[d].phase \notin {"written", "answered"}
    BY <1>0, Ending, Becoming, OneFlushed
  <2> QED
    BY <2>1, <2>2
<1>2. /\ \A i \in 1..(Len(work_orders) - 1) : work_orders[i] \in Closed
      /\ q.kind = "approve" => q.work_orders = work_orders
      /\ row.demo => /\ Len(work_orders) <= 1
                     /\ \A i \in 1..Len(work_orders) : work_orders[i] # "cancelled"
  BY <1>0 DEF OneOrder, OrdersKnown
<1>3. SUFFICES
        /\ \A i \in 1..(Len(work_orders') - 1) : work_orders'[i] \in Closed
        /\ row.demo => /\ Len(work_orders') <= 1
                       /\ \A i \in 1..Len(work_orders') : work_orders'[i] # "cancelled"
  BY <1>0, <1>1 DEF OrdersKnown, OneOrder
<1>4. CASE q.kind = "outcome"
  <2> DEFINE n == Len(q.work_orders)
  <2>1. work_orders' = [work_orders EXCEPT ![n] = "completed"]
    BY <1>0, <1>4 DEF committed_orders
  <2>2. "completed" \in WorkOrderStatus
    BY DEF WorkOrderStatus
  <2> HIDE DEF n
  <2>3. /\ Len(work_orders') = Len(work_orders)
        /\ \A i \in 1..Len(work_orders) :
             work_orders'[i] = IF i = n THEN "completed" ELSE work_orders[i]
    BY <1>0, <2>1, <2>2, ReplacedRow
  <2> QED
    BY <1>0, <1>2, <2>3 DEF Closed
<1>5. CASE q.kind = "approve" /\ ~reuses_order(q.work_orders)
  <2>1. work_orders' = Append(work_orders, "open")
    BY <1>0, <1>5 DEF committed_orders
  <2>2. \A i \in 1..Len(work_orders) : work_orders[i] \in Closed
    BY <1>0, <1>2, <1>5 DEF reuses_order, Closed
  <2>3. /\ Len(work_orders') = Len(work_orders) + 1
        /\ \A i \in 1..Len(work_orders) : work_orders'[i] = work_orders[i]
        /\ work_orders'[Len(work_orders) + 1] = "open"
    BY <1>0, <2>1
  <2>4. row.demo => Len(work_orders) = 0
    BY <1>0, <1>2, <1>5 DEF reuses_order
  <2> QED
    BY <1>0, <1>2, <2>2, <2>3, <2>4
<1>6. CASE q.kind # "outcome" /\ ~(q.kind = "approve" /\ ~reuses_order(q.work_orders))
  BY <1>0, <1>2, <1>6 DEF committed_orders
<1> QED
  BY <1>4, <1>5, <1>6

\* No approval is under way that the script could take the proposal from.
LEMMA NoApprovalAtTheEnd ==
  ASSUME SeedInv, row.demo, seed.phase = "written", NEW d \in going
  PROVE  requests[d].kind # "approve"
<1>1. /\ d \in Clients /\ requests[d].phase \in GoingPhase
      /\ refusal(requests[d]) = "none"
  BY GoingOn DEF SeedInv, LockInv, going, GoingPhase
<1>2. CASE lock["proposal"] = SEED
  BY <1>2 DEF SeedInv, LockInv, ProposalTaken
<1>3. CASE proposal = "absent"
  <2>1. requests[d].proposal = "absent"
    BY <1>1, <1>3, StockedNow DEF SeedInv, StockedLike
  <2> QED
    BY <1>1, <2>1 DEF refusal, approval_refusal
<1> QED
  BY <1>2, <1>3 DEF SeedInv, LockInv, ProposalTaken, PastTheProposals

\* Of one order at most, the script leaves all or nothing.
LEMMA SeedCommitOrders ==
  ASSUME SeedInv, OrdersKnown, SeedCommit
  PROVE  OrdersKnown'
<1>0. /\ SeedTyped /\ seed \in Seeding /\ row.demo /\ row \in Rows
      /\ seed.phase = "written" /\ UNCHANGED <<row, requests>>
      /\ work_orders' = surviving_orders \o row.work_orders
      /\ work_orders \in Seq(WorkOrderStatus) /\ Len(work_orders) \in Nat
  BY ScriptIdle, ScriptRuns DEF SeedInv, SeedTyped, CommittedTyped, SeedReads, SeedCommit
<1>1. row.work_orders = <<>> /\ seed.orders \in Nat
  BY <1>0, SeedRowsAssumption DEF Seeding
<1>2. Len(work_orders) <= 1
  BY <1>0 DEF OrdersKnown
<1>3. surviving_orders = <<>> \/ surviving_orders = work_orders
  <2>1. CASE seed.orders = 0
    BY <1>0, <2>1 DEF surviving_orders
  <2>2. CASE seed.orders # 0
    BY <1>0, <1>1, <1>2, <2>2 DEF surviving_orders
  <2> QED
    BY <2>1, <2>2
<1>4. surviving_orders \in Seq(WorkOrderStatus)
  BY <1>0, <1>1 DEF surviving_orders
<1>5. work_orders' = surviving_orders
  <2> DEFINE s == surviving_orders
  <2>1. s \o row.work_orders = s
    <3> HIDE DEF s
    <3> SUFFICES ASSUME s \in Seq(WorkOrderStatus) PROVE s \o row.work_orders = s
      BY <1>4 DEF s
    <3> QED
      BY <1>1
  <2> QED
    BY <1>0, <2>1
<1>6. \A d \in Clients : requests'[d].phase \in {"written", "answered"} =>
        requests'[d].kind # "approve"
  BY <1>0, NoApprovalAtTheEnd DEF going
<1>7. CASE surviving_orders = <<>>
  BY <1>0, <1>5, <1>6, <1>7 DEF OrdersKnown, OneOrder
<1>8. CASE surviving_orders = work_orders
  BY <1>0, <1>5, <1>6, <1>8 DEF OrdersKnown, OneOrder
<1> QED
  BY <1>3, <1>7, <1>8

LEMMA NextOrders == SeedInv /\ OrdersKnown /\ [SeedNext]_seed_vars => OrdersKnown'
<1> SUFFICES ASSUME SeedInv, OrdersKnown, [SeedNext]_seed_vars PROVE OrdersKnown'
  OBVIOUS
<1>i. SeedTyped
  BY DEF SeedInv
\* A request that ends without a commit.
<1>e. ASSUME NEW c \in Clients, ends(c), UNCHANGED <<row, work_orders>>
      PROVE  OrdersKnown'
  BY <1>e, <1>i, Ending, OrdersStay DEF Idle
\* No request moves.
<1>s. ASSUME UNCHANGED <<row, requests, work_orders>> PROVE OrdersKnown'
  BY <1>s DEF OrdersKnown, OneOrder
<1>1. CASE UNCHANGED seed_vars
  BY <1>1, <1>s DEF seed_vars, vars
<1>2. ASSUME NEW c \in Clients, NEW kind \in Kind, Beside(Load(c, kind)) PROVE OrdersKnown'
  <2>1. Load(c, kind) /\ UNCHANGED <<row, work_orders>>
    BY <1>2 DEF Beside, Load, committed
  <2>2. PICK x \in Request : Becomes(c, x) /\ x.phase = "loaded"
    BY <1>i, <2>1, Loading
  <2> QED
    BY <1>i, <2>1, <2>2, OrdersStay
<1>3. ASSUME NEW passes \in {1, 2}, SeedLoad(passes) PROVE OrdersKnown'
  BY <1>3, <1>s DEF SeedLoad, vars
<1>4. ASSUME NEW c \in Clients, ReadBeside(c) PROVE OrdersKnown'
  <2>1. Read(c) /\ UNCHANGED <<row, work_orders>>
    BY <1>4 DEF ReadBeside, Read, committed
  <2>2. PICK x \in Request : Becomes(c, x) /\ x.phase = "read"
    BY <1>i, <2>1, Reading
  <2> QED
    BY <1>i, <2>1, <2>2, OrdersStay
<1>5. ASSUME NEW c \in Clients, DecideBeside(c) PROVE OrdersKnown'
  <2>1. Decide(c) /\ UNCHANGED <<row, work_orders>>
    BY <1>5 DEF DecideBeside, Decide, committed
  <2>2. PICK x \in Request : Becomes(c, x) /\ x.phase = "decided"
    BY <1>i, <2>1, Deciding
  <2> QED
    BY <1>i, <2>1, <2>2, OrdersStay
<1>m. ASSUME NEW c \in Clients, Beside(Move(c)) PROVE OrdersKnown'
  <2>1. Move(c) /\ UNCHANGED <<row, work_orders>>
    BY <1>m DEF Beside, Move, committed
  <2>2. PICK x \in Request : Becomes(c, x) /\ x.phase = "moved"
    BY <1>i, <2>1, Moving
  <2> QED
    BY <1>i, <2>1, <2>2, OrdersStay
<1>6. ASSUME NEW c \in Clients, Beside(Write(c)) PROVE OrdersKnown'
  <2>1. Write(c) /\ UNCHANGED <<row, work_orders>>
    BY <1>6 DEF Beside, Write, committed
  <2>2. PICK x \in Request : /\ Becomes(c, x) /\ SameCopies(requests[c], x)
                             /\ x.work_orders = orders_found(requests[c])
    BY <1>i, <2>1, Writing
  <2> QED
    BY <1>i, <2>1, <2>2, OrdersStay DEF SameCopies, orders_found
<1>7. ASSUME NEW c \in Clients, Beside(Answer(c)) PROVE OrdersKnown'
  <2>1. Answer(c) /\ UNCHANGED <<row, work_orders>>
    BY <1>7 DEF Beside, Answer, committed
  <2>2. requests[c].phase = "written"
    BY <1>i, <2>1, Answering
  <2>3. PICK x \in Request : /\ Becomes(c, x) /\ SameCopies(requests[c], x)
                             /\ x.work_orders = requests[c].work_orders
    BY <1>i, <2>1, Answering
  <2>4. x.kind = "approve" => x.work_orders = work_orders
    BY <2>2, <2>3 DEF SameCopies, OrdersKnown, OneOrder
  <2> QED
    BY <1>i, <2>1, <2>3, <2>4, OrdersStay
<1>8. ASSUME NEW c \in Clients,
             \/ Beside(Refuse(c)) \/ Beside(RefuseOffline(c)) \/ RowsGone(c)
             \/ Beside(Fail(c))
      PROVE  OrdersKnown'
  BY <1>8, <1>e DEF Beside, Refuse, RefuseOffline, RowsGone, Fail, committed
<1>9. CASE PurgeOrders \/ PurgeParts \/ PurgeProposal \/ WriteIncident
  <2>1. SeedLocks
    BY <1>9 DEF PurgeOrders, PurgeParts, PurgeProposal, WriteIncident
  <2> QED
    BY <1>s, <2>1 DEF SeedLocks, committed
<1>r. CASE SeedReload
  BY <1>r, <1>s DEF SeedReload, vars
<1>10. CASE SeedRollback
  BY <1>10, <1>s DEF SeedRollback, committed
<1>11. CASE BreakCircle
  BY <1>10, <1>11, <1>e DEF BreakCircle, committed
<1> QED
  BY <1>1, <1>2, <1>3, <1>4, <1>5, <1>6, <1>7, <1>8, <1>9, <1>10, <1>11, <1>m, <1>r,
     CommitOrders, SeedCommitOrders
     DEF SeedNext, Begin, Advance, SeedStep, SeedFail

\* The promise of ApiTransactions holds with the seed script among the requests:
\* however a purge and approvals overlap, no incident is left with two open
\* orders (approval.py: _create_work_order; seed/demo.py: _purge_incident).
THEOREM OneStandingOrderBesideTheScript == SeedSpec => []AtMostOneStandingOrder
<1>1. SeedInit => OrdersKnown
  <2> SUFFICES ASSUME SeedInit PROVE OrdersKnown
    OBVIOUS
  <2>1. /\ row \in Rows /\ work_orders = row.work_orders
        /\ requests = [c \in Clients |-> Idle] /\ Idle.phase = "idle"
    BY DEF SeedInit, Init, Serial!Init, Idle
  <2> QED
    BY <2>1, ApiRowsAssumption, SeedRowsAssumption DEF OrdersKnown, OneOrder, Closed
<1>2. SeedInv /\ OrdersKnown => AtMostOneStandingOrder
  BY OneOrderStands DEF SeedInv, SeedTyped, OrdersKnown
<1> QED
  BY <1>1, <1>2, AlwaysSeedInv, NextOrders, PTL DEF SeedSpec
=============================================================================
