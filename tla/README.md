# Verification of the maintenance incident workflow

The program is the backend of a predictive-maintenance demo (`backend/app`): a
FastAPI service over PostgreSQL that walks an incident from a sensor alarm to a
resolved work order, with one rule at its centre: no part is reserved and no
work order is raised before a person has approved the proposal. These modules
model that workflow as it is written, the requests, the seed script, the realtime
channel and the connection pool around it, check them with TLC on small instances
and prove their safety properties with TLAPS for every instance.

## The system

### Components

| Component | State it keeps | Operations | What makes it correct |
|---|---|---|---|
| Incident state machine, `services/workflow.py` | `incidents.workflow_status`, `resolved_at`, `human_review_reason`; the audit rows of the moves | `transition`, `guard_cloud_available`, `record_blocked_cloud_action` | only listed moves; every move audited once, in an unbroken chain; the review reason lives exactly as long as the review |
| Approval gate, `services/approval.py` | `approval_decisions`, the proposal's status, `part_checks`, `work_orders` | `approve`, `reject` | nothing irreversible on the locked side of the gate; the trail shows the approval first; one approval per round |
| Guided simulation, `services/simulation.py` | `agent_runs`, planned part checks, the review reason | `next_step`: escalate, diagnose, route, dispatch; parked states | never crosses the gate; an untrusted diagnosis goes to review; an incident under watch reaches a person |
| Technician outcome, `services/outcome.py` | `technician_outcomes`, `work_orders.status` | `capture` | order completed and incident resolved together |
| Demo seed, `seed/demo.py`, `seed/scenarios.py` | every row of three incidents, except the trail | `seed` (first run, rerun, `--reset`) | a rerun leaves the scenario's rows, beside requests too; the trail is kept |
| Workflow migration, `alembic/versions/20260821_0713_…` | rows of the first schema | `upgrade`, `downgrade` | a migrated incident can go on, and is not trusted more than before |
| Request transactions, `db/session.py`, `api/deps.py`, `api/v1/incidents.py` | one session and transaction per request, row locks in the database | load, handle, publish, answer, commit or roll back | overlapping requests do what some serial order would; nobody waits in a circle; what is published is what is committed |
| Realtime channel, `realtime/manager.py`, `api/v1/websocket.py` | subscribers by incident, one lock | `connect`, `disconnect`, `broadcast`, snapshot | every event once and in order; no dead socket stays; a dead console stalls nobody |
| Connection pool, `db/session.py` | five connections and ten more | check out, return, time out | no connection is lost; nobody waits for ever |
| Append-only trail, `models/audit.py`, first migration | `audit_events` and the trigger that refuses changes | append | grows only |
| Read endpoints, tokens, application shell | none of their own, or none that is read | rendering, configuration, logging | see "Not modelled" |

### Interaction

A write request is a chain of calls in one coroutine: the dependency
`get_incident` loads the incident, the handler calls one service, the service
calls `WorkflowService.transition` once or twice and writes the child rows, the
handler re-reads the incident (`IncidentViewService.detail`), publishes its
events through the connection manager, one console after another, and returns;
the response is sent; then `get_session` commits. Requests share the database,
the pool and the manager. A refused cloud action writes its audit row in a second
session, so on a second connection, while the first is still open. The seed
script is another process with one transaction over all three incidents.

### What is hard about it

- The status is the only guard. It is checked on a copy read before the handler
  starts, without a lock, and written back without a version check.
- A rejection returns the incident to `watch` and keeps proposal, part checks
  and orders, so the same rows go through the gate again.
- Four helpers write the trail of one approval, and nothing but their order
  says that the approval came first.
- Events and response go out before the commit, with the incident row locked:
  a console can hold up a request, and the request whoever wants its row.
- The seed deletes rows that requests are working on, in the other order, and
  writes the incident from what it read before; it keeps the trail. The migration
  gives old rows values that nobody computed.
- A socket reads its snapshot, and registers later.

`PROJECT.json` lists each hazard at its line with the properties about it.

## The modules

```
Workflow                      the state machine, as operators
  IncidentRecords             the rows and the services' decisions, as operators
    Scenarios, Migration      where rows come from
    IncidentLifecycle         the endpoints and the seed, one request at a time
      IncidentLifecycleProofs
        AuditTrailProofs
          TrailChainProofs
    ApiTransactions           the endpoints as overlapping transactions
      ApiTransactionsProofs
      SeedReset               the same with the seed script's transaction;
                              INSTANCE IncidentLifecycle is what it implements
        SeedResetProofs       extends ApiTransactionsProofs
          SerialProofs
  RealtimeChannel             consoles, sockets, broadcast;
    RealtimeChannelProofs     INSTANCE EventFeed is what it implements
EventFeed                     what a console is promised
ConnectionPool                sessions on pooled connections
  ConnectionPoolProofs
```

The `MC…` modules add the instances for TLC.

**Workflow** is `workflow.py`: the transition table as a set of pairs, the cloud
guard, `may_move` (the refusals of `transition`), `moved` (what it does to the
row) and `transition_events` (what it appends to the trail).

**IncidentRecords** holds the row types and the decisions of the services as
pure operators, so that they can be applied to committed rows or to copies. An
absent row is a null record. The numeric confidence is kept as its band; evidence
is counted up to the minimum the code compares it with.

**IncidentLifecycle** is one incident (incidents share no row) with one variable
per table. Each action is a whole request:

| Action | Code |
|---|---|
| `Approve`, `Reject` | `ApprovalService.approve`, `reject`, with reservation, order, both moves and the trail in its order |
| `Escalate`, `Diagnose`, `RouteToReview`, `RouteToApproval`, `DispatchWorkOrder` | the handlers of `next_step`; `NextStep` is their disjunction |
| `BlockedApproval`, `BlockedStep` | the cloud refusals, whose audit row is committed apart |
| `CaptureOutcome` | `OutcomeService.capture` |
| `Reseed` | a rerun of the seed script for this incident |

Other refusals roll back and are the negated guards. `part_checks` is a function
from the constant `Parts`, the part-check rows a proposal may hold. `row` never
changes: it remembers which row the incident began as, for the seed.

**ApiTransactions** splits the four endpoints where another request can make a
difference. A request goes through *loaded* (the incident is read), *read*
(proposal with part checks, or order), *decided* (proposal or order row locked),
*moved* (incident row locked: the first `transition` is flushed), *written* (part
checks locked, the rest flushed; an approval looks for an existing order here),
*answered* (events and response out), and ends with `Commit`; `Refuse`,
`RefuseOffline` and `Fail` end it before that. `Decide`, `Move` and `Write` wait for
the rows they lock, so an approval that waits for its part checks already has the
proposal and the incident. Its variables
have the names of IncidentLifecycle's, so `Serial == INSTANCE IncidentLifecycle`
reads the committed rows directly.

**SeedReset** adds the seed script's transaction on an incident that is already
seeded, statement by statement:

| Action | Code (`seed/demo.py`) |
|---|---|
| `SeedLoad` | the SELECT of the incident, before anything is deleted; one purge to come, or two with `--reset` |
| `SeedReload` | with `--reset`, the SELECT before the second purge: it brings a new copy, except of the incident the first loop ended with, which `existing` still refers to |
| `PurgeOrders`, `PurgeParts`, `PurgeProposal` | `_purge_incident`: outcomes and orders, then part checks, then proposals |
| `WriteIncident` | the UPDATE of the incident: `detected_at` is counted from the start of the process (`scenarios.py:28`), so it is always sent, and waits for whoever has the row; of the workflow's columns it writes those that differ from what was read |
| `SeedCommit` | the commit; `surviving_orders` are the rows the purge did not see |
| `SeedFail`, `BreakCircle` | a statement that fails; PostgreSQL ending one transaction of a circle |

A request's actions get the script's locks as guards, and `RowsGone` is the
request whose proposal or order is deleted under it (`gone`). `Begin`, `Advance`
and the script's steps make up `SeedNext`; `SerialSpec` lets nothing begin while
something is in flight.

**RealtimeChannel** is one event loop and the consoles of one incident, so an
action is what happens between two awaits that can suspend. `handler` is where
`incident_channel` is: `LoadSnapshot`, then `Connect` (accept, register, send the
snapshot) or `AcceptFails`, then `Leave` by its `finally`. A request goes from
`Begin` through `Publish`, `PickSocket`, `SendReturns` or `SendRaises`, and
`DropStale` for each event to `Commit` or `CommitFails`. Consoles `Read`, `HangUp`
or stop reading until `PingTimeout`. `sent` is what was handed to the server and
`seen` how much of it was read: a send waits while the difference is `MaxUnread`.
The lock of the manager is no state: nothing suspends while it is held. One
request at a time is enough, because a request publishes with the incident row
locked, which is what ApiTransactions shows.

**EventFeed** is what the docstring of `websocket.py` promises: a snapshot, then
every later event once and in order, or the end of the connection; a console that
is behind is served or dropped. `RealtimeChannel!Feed` maps `stream` to `sent` and
computes `feed` from the handler and the registry.

**ConnectionPool** has the clients' requests as the holders of connections:
`CheckOut` at the first statement, `MeetOutage` and `CheckOutAudit` for a refused
cloud action and its second session, `CommitAudit`, `AnswerUnavailable`, `Finish`,
and `TimeOut` or `AuditFails`, by which a request ends with everything returned.
The size of the pool is the constant `Connections`.

**Scenarios** and **Migration** are the initial rows: the three scenarios of the
seed, and `upgrade` as a function of a row of the first schema.

### What is assumed of libraries

These facts are not in the repository and are modelled from how its code relies
on them:

- PostgreSQL at READ COMMITTED: a statement sees what is committed when it
  starts; an UPDATE or DELETE waits for the row's last writer and then goes on
  with the new row; a row that a new row refers to cannot be deleted before that
  transaction ends, and the other way round; of a circle of waiting transactions
  one is ended. A request that is not the first in the queue for a row waits, here,
  for whoever has the row, and in PostgreSQL for the one ahead of it. So a circle of
  PostgreSQL's runs along one of these and through those ahead in the queue, who
  wait for the same row; if it ends one of them first, that is a `Fail`.
- SQLAlchemy writes only the columns whose value differs from the loaded one
  (`overwritten`, `written_rows`, `incident_reseeded`), and an `AsyncSession`
  cannot lazy-load. A session keeps a clean object only as long as the program
  refers to it, and does not refresh what it has (`SeedReload`). The pool makes a
  request wait and throws it out in the end.
- FastAPI 0.141.1, pinned in `uv.lock`, runs the exit code of a dependency after
  the response is sent.
- The ASGI server writes to a socket in the order of the calls, makes a send wait
  while the console has too much left to read, and closes a connection whose
  pings are not answered.

## Model checking

`tlc -config MC…_<run>.cfg MC…`. A passing run satisfies its properties; the
other runs show that the code does not do what a comment, test or document of
the repository says.

| Run | Checks | Shows |
|---|---|---|
| `all` | `TypeOK`, `NothingHeldBeforeApproval`, `ApprovalPrecedesIrreversible`, `TrailExplainsStatus`, `OneApprovalPerRound`, `ReviewReasonIffInReview`, `OrderFollowsIncident`, `WatchReachesAPerson` | serial requests keep every promise, for seeded and migrated rows; stepping brings a seeded incident to a person |
| `overlap` | `TypeOK`, `AtMostOneStandingOrder`, `NoDeadlock`, `ConsolesFollowCommits`, `TrailEndsAtStatus` | what survives any overlap of three clients, one of which may die |
| `serial` | `ImplementsLifecycle` | requests and scripts that do not overlap implement IncidentLifecycle; a failed one is a stutter |
| `seed` | `SeedTypeOK`, `OnlyApprovalsCrossThePurge`, `AtMostOneStandingOrder`, `EveryRequestEnds`, `SeedEnds` | the script crosses with an approval that has the incident, and only requests that decide again join that circle; everybody ends, and one order is open at most |
| `channel` | `ChannelTypeOK`, `NoSocketLeaks`, `UpdatedConsolesAgree`, `ImplementsEventFeed`, `EveryPublisherEnds` | consoles that connect, stall and vanish get the feed they are promised, leak nothing and hold nobody up for ever |
| `pool` | `PoolTypeOK`, `ConnectionsFollowSessions`, `OnlyRefusalsStallThePool`, `RefusalsToldAreAudited`, `EveryClientIsServed` | no connection is lost; the pool locks up only on cloud refusals, and gets out by its time-out |
| `low_score` | `LowScoreNeverReachesGate` violated | the upgrade forgets that a diagnosis was not to be trusted |
| `unplanned` | `DiagnosisIsRouted` violated | an incident without a proposal can never be planned |
| `approve_reject` | `NothingHeldBeforeApproval` violated | an overlapping rejection leaves parts held under `watch` |
| `phantom` | `ConsolesAgree` violated | a failed commit after the events went out |
| `missed` | `ConsolesCatchUp` violated | an event between snapshot and registration is lost to that console |
| `stale` | `SeedRestores` violated | a request that commits between the script's read and its purge keeps its status, without its rows |

`approve_reject` stands for several consequences of one cause, the copy that
guards a request being read early and unlocked: two overlapping approvals both
succeed, a delayed one takes an incident out of `resolved`, a step that is
retried early is recorded twice, and two overlapping steps both add a part check.
`missed` and `UpdatedConsolesAgree` belong together: only a console that has heard
no event since its snapshot can be wrong, and the next event corrects it. No
endpoint leads out of `human_review`: `WatchReachesAPerson` ends there.
`PROJECT.json` "findings" quotes the sentence each run contradicts.

### Bounds

- `MaxRejections` 3: the second rejection decides again on a proposal that is
  already rejected, the first case in which an UPDATE has no column to write.
  `MaxBlocked` 2 and `MaxSeeds` 2: a refusal before and after a move, a reseed of
  an incident that was already reseeded.
- `Parts`: one is enough where parts are treated alike; in `overlap` three, because
  as many requests can overlap and each may plan a check, and in `serial` two.
  `OldRows` has one row for each way the routing can take after the upgrade.
- `overlap`: `Clients` 3 and `MaxRequests` 5, a third client can commit between
  the read and the write of one that waits for a second, and two clients have a
  second request. The clients are symmetric. `MaxFailures` 1: one death at any
  point; what follows is again a run without.
- `seed`: four transactions, two runs of the script beside two requests or one
  beside three, and one failure: enough for a request that the purge does not see,
  one whose rows are deleted under it, and a circle that is broken on either side.
  The third request is a rejection that meets an approval and another rejection
  (`MeetsTwoDecisions`), the shortest way to a circle of three: the first rejection
  commits, the approval takes the proposal and the incident with a copy from
  before, the third request decides again on what was rejected and queues for the
  incident, and the script has the part checks and wants the proposal. Request n
  comes from client n (`InTurn`), which loses only names; there are liveness
  properties, so no symmetry.
- `channel`: two consoles, so that one can fail or stall beside a good one; a
  buffer of one message, which is full after the snapshot; four events, an
  approval with a reservation or three requests; one failed commit. `missed` needs
  one console and no more.
- `pool`: three clients on two connections, so that refusals can hold the whole
  pool while a third client waits; five requests, so that clients come back.

The bounds are constants of the models, the theorems below hold for all of them.
Deadlock checking is off because the system does stop: a resolved incident, an
incident in review, or clients that have sent all they may.

### Fairness

- `IncidentLifecycle!FairSpec`: someone keeps pressing "next step". Nothing is
  assumed about approvals, rejections, outcomes or reseeds.
- `SeedReset!FairSpec`: the event loop resumes a request that can run and
  PostgreSQL grants a row lock in the order of its queue, so a step that is
  enabled again and again is taken (strong fairness of `Advance` and `SeedStep`);
  the deadlock detector runs (weak fairness of `BreakCircle`). Sending a request,
  starting the script and failing are never fair. `MCSeedReset!CrossingSpec` is the
  same with the bounds on what begins.
- `RealtimeChannel!FairChannelSpec`: the event loop resumes what can run, and the
  server closes a connection that does not answer pings. No console has to
  connect, to read or to hang up. Without the ping time-out `EveryPublisherEnds`
  does not hold: `broadcast` has no time-out of its own.
- `ConnectionPool!PoolSpec`: whoever has its connection goes on, and a wait ends
  with a connection or the time-out. Nobody is promised the next connection.

## Proofs

`tlapm <module>.tla` for the eight `…Proofs` modules. Everything is for every value
of the constants within the assumptions that the modules name and TLC evaluates
on the instances: bounds are natural numbers, `FREE` and `NOBODY` are nobody, and

- `RowsAssumption` (IncidentLifecycle): a row that starts on the locked side of
  the gate holds nothing, a review reason is there exactly in review, a seeded row
  without a reason is not one that routing sends to review, and a seeded row starts
  on the locked side;
- `ApiRowsAssumption` (ApiTransactions): of the orders a row starts with only the
  last may still be worked on;
- `SeedRowsAssumption` (SeedReset), as in `seed/scenarios.py`: a seeded proposal
  comes with its part checks and is not approved before they are reserved, and
  nothing is ordered (only `_create_work_order` makes a `WorkOrder`). It is needed:
  an approval of a proposal that is already approved and has parts to reserve does
  not lock the proposal, so a rejection that does can be in the circle.

| Theorem | Argument |
|---|---|
| `TypeCorrect` (IncidentLifecycle `TypeOK`) | inductive as it stands, one step per action |
| `GateSafe` (`NothingHeldBeforeApproval`) | from typing: only `Approve` reserves or orders, and it leaves the incident past the gate; nothing returns from past the gate except `Reseed`, which restores rows that hold nothing |
| `ReasonMatchesReview` (`ReviewReasonIffInReview`) | not inductive: a reseed keeps the old reason when the scenario names none. Strengthened with `SeedNeverInReview`: such an incident is never in review |
| `OrderAndStatusAgree` (`OrderFollowsIncident`) | not inductive: it does not say which order stands. `OrdersInStep`: before the approval every order is cancelled, while the incident is live the last one stands and the others are cancelled, and the one outcome comes with the end |
| `ApprovalComesFirst` (`ApprovalPrecedesIrreversible`) | lemmas about concatenated trails carry the property over; what an approval appends begins with the approval |
| `ApprovedAtMostOnce` (`OneApprovalPerRound`) | not inductive: a trail says nothing of the status. Strengthened with `ApprovedIsPastTheGate`: an approved incident is in `work_order_live` or `resolved`, where `Approve` is refused |
| `StatusIsExplained` (`TrailExplainsStatus`) | inductive; the property is restated of any sequence (`Explains`) and carried over one row at a time: an event, a move from where the trail ends, a run of the seed script |
| `ApiTyped` (ApiTransactions `TypeOK`) | needs that a request past its guard is one that was accepted (`Going`), else what it commits has no type |
| `NobodyWaitsInACircle` (`NoDeadlock`) | `Holders`: who has decided and not moved holds only rows that come before the incident. So of a set of waiting requests the one that is furthest waits for rows nobody in the set can hold: part checks come after the incident, which only it has |
| `TrailEndsWithTheIncident` (`TrailEndsAtStatus`) | an accepted request moves its copy, and its trail ends with that move (`RequestMoves`); only changed columns are written, and the status is one of them |
| `ConsolesFollow` (`ConsolesFollowCommits`) | `Flushed`: who has answered holds the incident, so only one has; `Told`: the consoles show what it will commit |
| `OneStandingOrder` (`AtMostOneStandingOrder`) | `OneOrder`: an approval that holds the incident knows the orders there are, so it adds one only if none is open, and what is open is the last |
| `SeedTypesHold` (SeedReset `SeedTypeOK`) | the agent runs that the purge takes away are there (`SeedReads`), and what is still under way was accepted (`NoneRefused`) |
| `OneWayToDeadlock` (`OnlyApprovalsCrossThePurge`) | see below |
| `OneStandingOrderBesideTheScript` (SeedReset, `AtMostOneStandingOrder`) | `OrdersKnown`: `OneOrder`, and a seeded incident has one order at most, never cancelled. So the purge takes all orders or none, and `NoApprovalAtTheEnd`: no approval that has looked for an order is under way when it takes them |
| `OneAtATimeImplementsLifecycle` (`ImplementsLifecycle`) | see below |
| `ChannelTyped`, `SocketsDoNotLeak` | one invariant: who is registered, copied by a broadcast or set aside has a living handler or is dead, and each stream is as long as the log since it joined, up to the event under way (`Registered`, `Copied`, `Position`) |
| `UpdatesTellTheTruth` (`UpdatedConsolesAgree`) | the last event of the log is the update of what was committed last (`LastPublished`), and each stream ends with the last event it was due |
| `ChannelFeeds` | each step of the channel is a step of EventFeed under the mapping of `Feed`, or changes nothing that it sees; the safety half of `ImplementsEventFeed` |
| `PoolTyped`, `NothingLeaks`, `StallsAreRefusals`, `ToldIsAudited` | the open sessions and the connections in use correspond one to one; a request that is past its audit has its row in the trail |

`OneWayToDeadlock` says nothing of what anybody holds, so it is not inductive.
`SeedInv` adds it, in two halves that need each other. `LockInv`: a request holds
rows only from its first flush on, at first only those that come before the
incident, and from then on the incident (`RequestsHold`, `HoldWhatTheyNeed`); the
script holds the incident only at its end (`ScriptHolds`); no approval or rejection
that has decided is under way once the script has the proposal, and the script has
it, if there is one, once it is past it, in a second purge from the start
(`ProposalTaken`). `Stocked`: proposal and part checks, committed or copied, are
there exactly if the scenario has them, and an approved proposal has nothing left
to reserve. From the first half (`CircleHasAMover`): who waits in a circle wants the
incident or its part checks, and the script does not wait while it has the incident,
so one request has the incident and waits for part checks that the script has; the
others want the incident, hold nothing it or they wait for, and the script waits for
them. The one in front is an approval with parts to reserve. From the second half,
its proposal was not approved before, so it has the proposal locked; so the script
has not been at the proposals, it is on its way there from the part checks, and the
others refer to the proposal without locking it: they decide again.

`OneAtATimeImplementsLifecycle` is the whole refinement, as IncidentLifecycle's
`Spec` has no fairness: initial states map to initial states, each commit to the
action of its kind (one lemma per kind: `ApprovalCommits`, `RejectionCommits`,
`OutcomeCommits`, `StepCommits`, `RefusalImplements`, `SeedCommitImplements`) and
each other statement to a stutter. The invariant `SerialInv` says what makes it
so: one transaction is under way (`Alone`), its copies are the committed rows
(`Current`), and what the trail counts is bounded by what was begun (`Counted`),
so that the bounds of IncidentLifecycle, here those of the requests, never refuse
a step that the requests take.

Every safety invariant of the passing runs is stated by a theorem. Only
model-checked are the liveness properties (`WatchReachesAPerson`,
`EveryRequestEnds`, `SeedEnds`, `EveryPublisherEnds`, `EveryClientIsServed`) and
the fairness that `ImplementsEventFeed` adds to `ChannelFeeds`: the prover does
not do liveness under fairness. That the scenarios and the migrated rows satisfy
the assumptions on rows is what TLC evaluates on the instances.

## Not modelled

- Times. Rows are in commit order. The code orders `latest_*` by the start of
  the transaction and the displayed trail by `occurred_at`; under overlap they
  can differ from the commit order.
- Reads that are several statements: a snapshot or a detail is its incident row
  here, which is one; its children can be newer.
- Tokens are minted and spent within one approval and no endpoint redeems one,
  so expiry and verification have no caller.
- `downgrade`: nothing of the program runs on its result. The trigger that
  protects the trail is SQL; the trail here only grows.
- The rendering of lists, assets, timelines and health, configuration, logging,
  request ids, error envelopes: no state that these properties are about. The
  frontend of this repository is a README.
- A socket to an unknown incident is closed before it is registered. Two
  incidents, and the seed's three, share no row, so one incident is enough.

## Plan

Done: Workflow, IncidentRecords, IncidentLifecycle; ApiTransactions; SeedReset
and its refinement of IncidentLifecycle; RealtimeChannel with EventFeed;
ConnectionPool; the proofs above.

Left, in this order:

1. A clock in ApiTransactions, for `created_at` at the start of a transaction and
   `occurred_at` before its commit: which decision a detail shows as the latest.
2. The children of a snapshot as reads of their own.
