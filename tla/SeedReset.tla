----------------------------- MODULE SeedReset ------------------------------
(***************************************************************************)
(* The seed script (seed/demo.py) as one more transaction beside the       *)
(* endpoints of ApiTransactions, on an incident that is already seeded.    *)
(*                                                                         *)
(* The script has one transaction for all three incidents.  A request      *)
(* touches the rows of one incident only and two incidents share no row,   *)
(* so what can happen between the script and the requests happens on one.  *)
(* The script reads the incident first, deletes its children table by      *)
(* table, and then updates the incident: always, because detected_at is    *)
(* counted from the start of the script's process, but of the columns of   *)
(* the workflow only those that differ from what it has read.  With        *)
(* --reset it has purged once before all that.  Rows it deletes are seen   *)
(* by the others until it commits; rows that were not committed when it    *)
(* looked are not deleted, unless they hang on one that is.                *)
(***************************************************************************)
EXTENDS ApiTransactions

CONSTANTS
  SEED,          \* the script, as the holder of a row
  LastScenario,  \* the row of the scenario that is purged last
  MaxSeedRuns    \* bound: runs of the script after the first

ASSUME SeedAssumption == SEED \notin Clients \cup {FREE} /\ MaxSeedRuns \in Nat

\* What seed/scenarios.py has: a proposal comes with its part checks and is not
\* approved before they are reserved, and nothing has been ordered.
ASSUME SeedRowsAssumption ==
  \A r \in Rows : r.demo =>
    /\ r.proposal # "absent" => r.part_checks # no_part_checks
    /\ r.proposal = "approved" => unreserved(r.part_checks) = {}
    /\ r.work_orders = <<>>

VARIABLES
  seed,  \* the script's transaction: its phase and what it has read
  gone,  \* per client, the rows it has read that the script has deleted since
  runs   \* runs of the script begun

seed_vars == <<vars, seed, gone, runs>>

NotSeeding == [phase |-> "idle"]

\* Loaded: the incident is read.  Orders, parts, proposal: so much is deleted.
\* Written: the incident is flushed.  passes counts the purges to come, two
\* with --reset; orders and agent_runs are the rows the script has deleted.
Seeding ==
  [phase : {"loaded", "orders", "parts", "proposal", "written"},
   passes : 0..2, incident : Incident, orders : Nat, agent_runs : AgentRuns]

SeedTypeOK ==
  /\ Serial!TypeOK
  /\ requests \in [Clients -> Request \cup {Idle}]
  /\ lock \in [LockedRow -> Clients \cup {FREE, SEED}]
  /\ seed \in Seeding \cup {NotSeeding}
  /\ gone \in [Clients -> SUBSET {"proposal", "work_order"}]
  /\ runs \in 0..MaxSeedRuns

SeedInit ==
  /\ Init
  /\ seed = NotSeeding
  /\ gone = [c \in Clients |-> {}]
  /\ runs = 0

\* The endpoints and the script, one at a time.
Lifecycle == INSTANCE IncidentLifecycle
               WITH MaxRejections <- MaxRequests, MaxBlocked <- MaxRequests,
                    MaxSeeds <- MaxSeedRuns

-----------------------------------------------------------------------------
\* Rows that refer to rows.

\* The row that what request q inserts, or marks, belongs to.
references(q) ==
  IF q.phase \in {"idle", "loaded"} \/ refusal(q) # "none" THEN {}
  ELSE IF q.kind \in {"approve", "reject"} THEN {"proposal"}
  ELSE IF q.kind = "outcome" THEN {"work_order"}
  ELSE IF plans_a_part(q) THEN {"proposal"}
  ELSE {}

\* A row that a new row refers to cannot be deleted before its transaction ends.
referred(r) ==
  {c \in Clients : /\ requests[c].phase \in {"decided", "moved", "written", "answered"}
                   /\ r \in references(requests[c])}

\* The rows that the script's next statement deletes or writes.
deletes ==
  CASE seed.phase = "loaded"   -> IF Len(work_orders) > seed.orders THEN {"work_order"} ELSE {}
    [] seed.phase = "orders"   -> IF part_checks # no_part_checks THEN {"part_check"} ELSE {}
    [] seed.phase = "parts"    -> IF proposal # "absent" THEN {"proposal"} ELSE {}
    [] seed.phase = "proposal" -> IF seed.passes = 0 THEN {"incident"} ELSE {}
    [] OTHER                   -> {}

\* Who the script and a request wait for.
seed_waits_for ==
  (UNION {{lock[r]} \cup referred(r) : r \in deletes}) \ {FREE, SEED}

missing(c) == references(requests[c]) \cap gone[c]

\* A request that finds others in the queue for a row waits, like them, for who
\* has the row.
waits_for(c) ==
  LET q == requests[c]
      referring == IF q.phase = "read" THEN references(q) ELSE {}
  IN  IF q.phase = "read" /\ missing(c) # {} THEN {}
      ELSE ({lock[r] : r \in awaited(q)} \ {FREE, c})
             \cup ({lock[r] : r \in referring} \cap {SEED})

-----------------------------------------------------------------------------
\* The requests, beside the script.

ReadBeside(c) ==
  /\ Read(c)
  /\ gone' = [gone EXCEPT ![c] = {}]
  /\ UNCHANGED <<seed, runs>>

\* A new row waits for a pending delete of the row it refers to.
DecideBeside(c) ==
  /\ Decide(c)
  /\ waits_for(c) = {} /\ missing(c) = {}
  /\ UNCHANGED <<seed, gone, runs>>

\* The UPDATE finds no row, or the INSERT no parent: the request fails.
RowsGone(c) ==
  /\ in_phase(c, "read")
  /\ missing(c) # {}
  /\ ends(c)
  /\ UNCHANGED <<committed, lock, console, served, failures, seed, gone, runs>>

Beside(step) == step /\ UNCHANGED <<seed, gone, runs>>

\* What a request does once it is sent.
Advance(c) ==
  \/ ReadBeside(c)
  \/ Beside(Refuse(c))
  \/ Beside(RefuseOffline(c))
  \/ DecideBeside(c)
  \/ RowsGone(c)
  \/ Beside(Move(c))
  \/ Beside(Write(c))
  \/ Beside(Answer(c))
  \/ Beside(Commit(c))

-----------------------------------------------------------------------------
\* The script, statement by statement.

seed_goes_to(phase) == seed' = [seed EXCEPT !.phase = phase]

\* A DELETE or UPDATE locks its rows.
SeedLocks ==
  /\ seed_waits_for = {}
  /\ lock' = [r \in LockedRow |-> IF r \in deletes THEN SEED ELSE lock[r]]
  /\ UNCHANGED <<committed, requests, console, served, failures, gone, runs>>

\* seed: the incident is read, with --reset before the first of two purges.
SeedLoad(passes) ==
  /\ seed = NotSeeding
  /\ runs < MaxSeedRuns
  /\ row.demo
  /\ runs' = runs + 1
  /\ seed' = [phase |-> "loaded", passes |-> passes, incident |-> incident,
              orders |-> 0, agent_runs |-> [k \in AgentKind |-> 0]]
  /\ UNCHANGED <<vars, gone>>

\* Outcomes and orders, then decisions; the decisions that are not seen yet go
\* with their proposal.
PurgeOrders ==
  /\ seed.phase = "loaded"
  /\ SeedLocks
  /\ seed' = [seed EXCEPT !.phase = "orders", !.passes = @ - 1,
                          !.orders = Len(work_orders)]

PurgeParts ==
  /\ seed.phase = "orders"
  /\ SeedLocks
  /\ seed_goes_to("parts")

\* Proposals, then everything nobody waits for.
PurgeProposal ==
  /\ seed.phase = "parts"
  /\ SeedLocks
  /\ seed' = [seed EXCEPT !.phase = "proposal", !.agent_runs = agent_runs]

\* The incident is read again before the second purge.  A session keeps no
\* object that nobody refers to; of those of the first loop the program still
\* refers to the last, and what it has of that one is not refreshed.
SeedReload ==
  /\ seed.phase = "proposal"
  /\ seed.passes > 0
  /\ seed' = [seed EXCEPT !.phase = "loaded",
                          !.incident = IF row = LastScenario THEN @ ELSE incident]
  /\ UNCHANGED <<vars, gone, runs>>

\* detected_at is another one in every run: the UPDATE is always sent.
WriteIncident ==
  /\ seed.phase = "proposal"
  /\ seed.passes = 0
  /\ SeedLocks
  /\ seed_goes_to("written")

released_by_seed == [r \in LockedRow |-> IF lock[r] = SEED THEN FREE ELSE lock[r]]

\* Mutation: the orders are left out of the purge.
all_orders == work_orders

\* The orders that the purge did not see are still there, and so are the
\* outcomes on them.  There is one order at most: it is seen, or all there is
\* survives.
surviving_orders == SubSeq(work_orders, seed.orders + 1, Len(work_orders))

surviving_outcomes == IF surviving_orders = <<>> THEN <<>> ELSE outcomes

\* Of the workflow's columns, those that differ from what was read.
incident_reseeded ==
  overwritten(incident, seed.incident, Lifecycle!reseeded(row, seed.incident))

\* The rows a request has read that are deleted now.
deleted_of(q) ==
  IF q.phase = "read"
  THEN {"proposal"} \cup
         (IF q.work_orders # <<>> /\ Len(q.work_orders) <= seed.orders
          THEN {"work_order"} ELSE {})
  ELSE {}

SeedCommit ==
  /\ seed.phase = "written"
  /\ incident' = incident_reseeded
  /\ proposal' = row.proposal
  /\ part_checks' = row.part_checks
  /\ work_orders' = surviving_orders \o row.work_orders
  /\ decisions' = <<>>
  /\ outcomes' = surviving_outcomes
  /\ agent_runs' = [k \in AgentKind |-> agent_runs[k] - seed.agent_runs[k]
                                          + Lifecycle!seeded_runs(row)[k]]
  /\ audit' = audit \o Lifecycle!seeding_events(row)
  /\ gone' = [c \in Clients |-> gone[c] \cup deleted_of(requests[c])]
  /\ lock' = released_by_seed
  /\ seed' = NotSeeding
  /\ UNCHANGED <<row, requests, console, served, failures, runs>>

SeedStep ==
  PurgeOrders \/ PurgeParts \/ PurgeProposal \/ SeedReload \/ WriteIncident \/ SeedCommit

\* A statement fails, and the transaction with it.
SeedRollback ==
  /\ lock' = released_by_seed
  /\ seed' = NotSeeding
  /\ UNCHANGED <<committed, requests, console, served, gone, runs>>

SeedFail ==
  /\ seed # NotSeeding
  /\ failures < MaxFailures
  /\ failures' = failures + 1
  /\ SeedRollback

-----------------------------------------------------------------------------
\* PostgreSQL ends a transaction of every circle it finds.

blockers(x) == IF x = SEED THEN seed_waits_for ELSE waits_for(x)

waiters == {x \in Clients \cup {SEED} : blockers(x) # {}}

Circles ==
  {S \in (SUBSET waiters) \ {{}} :
     \A x \in S : blockers(x) \cap S # {} /\ \E y \in S : x \in blockers(y)}

BreakCircle ==
  \E x \in UNION Circles :
    \/ x = SEED /\ SeedRollback /\ UNCHANGED failures
    \/ /\ x \in Clients
       /\ lock' = released(x)
       /\ ends(x)
       /\ UNCHANGED <<committed, console, served, failures, seed, gone, runs>>

-----------------------------------------------------------------------------
Begin ==
  \/ \E c \in Clients, kind \in Kind : Beside(Load(c, kind))
  \/ \E passes \in {1, 2} : SeedLoad(passes)

SeedNext ==
  \/ Begin
  \/ \E c \in Clients : Advance(c) \/ Beside(Fail(c))
  \/ SeedStep
  \/ SeedFail
  \/ BreakCircle

SeedSpec == SeedInit /\ [][SeedNext]_seed_vars

\* The event loop resumes every request that can run, the script's process
\* runs, PostgreSQL grants a row lock in the order it was asked for and breaks
\* every circle; nobody has to send a request or to start the script.
Fairness ==
  /\ \A c \in Clients : SF_seed_vars(Advance(c))
  /\ SF_seed_vars(SeedStep)
  /\ WF_seed_vars(BreakCircle)

FairSpec == SeedSpec /\ Fairness

nothing_in_flight == at_rest /\ seed = NotSeeding

\* Nothing begins while something is in flight.
SerialSpec == SeedInit /\ [][SeedNext /\ (Begin => nothing_in_flight)]_seed_vars

-----------------------------------------------------------------------------
\* Properties.

\* The script's transaction ends, whatever it meets on its way.
SeedEnds == seed # NotSeeding ~> seed = NotSeeding

\* A decision on a proposal that says the same already: it locks no row before
\* the incident, and only refers to the proposal.
decides_again(q) ==
  q.kind \in {"approve", "reject"} /\ q.phase = "decided" /\ q.proposal = decided_status(q)

\* The purge deletes children before it writes the parent, an approval works
\* from the proposal to the incident to the parts.  That is the only crossing:
\* in every circle are the script and one approval that has the incident, and
\* what else the script waits for in it are requests that decide again and
\* queue for the incident (demo.py: _purge_incident; approval.py: approve).
OnlyApprovalsCrossThePurge ==
  \A S \in Circles :
    \E c \in S \cap Clients :
      /\ SEED \in S /\ requests[c].kind = "approve" /\ lock["incident"] = c
      /\ \A d \in S \ {SEED, c} : decides_again(requests[d])

\* Requests and scripts that do not overlap do what IncidentLifecycle says,
\* and nothing else.
ImplementsLifecycle == Lifecycle!Spec

\* The script leaves the incident as its scenario has it (README, "running it
\* repeatedly replaces each scenario in place").
SeedRestores ==
  [][seed.phase = "written" /\ seed' = NotSeeding /\ audit' # audit
       => incident'.workflow_status = row.incident.workflow_status]_seed_vars
=============================================================================
