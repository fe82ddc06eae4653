---------------------------- MODULE MCSeedReset -----------------------------
(***************************************************************************)
(* Instances of SeedReset for TLC.                                         *)
(***************************************************************************)
EXTENDS SeedReset, MCApiTransactions

\* The last of seed/scenarios.py, ALL_SCENARIOS.
Last == SeedsOf!SCENARIO_C

\* With the clients 1, 2 and 3 and a request for each: request n is sent by
\* client n.  Only names are lost, an idle client is as good as a new one.
InTurn == requests[served'] = Idle /\ requests'[served'] # Idle

\* Bound: the third request is a rejection that meets an approval and another
\* rejection, the shortest way to a circle of three.
MeetsTwoDecisions ==
  /\ requests'[3].kind = "reject"
  /\ requests[1] # Idle /\ requests[2] # Idle
  /\ {requests[1].kind, requests[2].kind} = {"approve", "reject"}

\* Bound: four transactions, so the script runs twice beside two requests, or
\* once beside three.
MaxTransactions == 4

Bounded ==
  /\ served' # served => InTurn
  /\ served' = 3 /\ served = 2 => MeetsTwoDecisions
  /\ served' + runs' <= MaxTransactions

CrossingSpec == SeedInit /\ [][SeedNext /\ Bounded]_seed_vars /\ Fairness
=============================================================================
