------------------------- MODULE ConnectionPoolProofs ------------------------
(***************************************************************************)
(* Proofs about ConnectionPool, for any number of requests and any size of *)
(* the pool.                                                               *)
(***************************************************************************)
EXTENDS ConnectionPool, TLAPS

Session == {"request", "audit"}

\* A session that is open has a connection.
SessionsHaveConnections ==
  \A c \in Clients, session \in Session :
    session \in sessions_in(phase[c]) <=> \E k \in Connections : use[k] = <<c, session>>

\* No two connections belong to the same session.
ConnectionsAreExclusive ==
  \A k, l \in Connections : use[k] = use[l] /\ use[k] # FREE => k = l

\* What is audited before it is told: the rest of RefusalsToldAreAudited.
AuditedFirst == \A c \in Clients : phase[c] = "audited" => number[c] \in audit

-----------------------------------------------------------------------------
LEMMA InitTyped == PoolInit => PoolTypeOK
  BY FreeAssumption, PoolBoundsAssumption DEF PoolInit, PoolTypeOK, Phase, Use

\* Every step keeps the types.  A request has a number from the moment it
\* arrives, which is what the records of the trail are made of.
NumbersGiven == \A c \in Clients : phase[c] # "idle" => number[c] \in 1..MaxRequests

LEMMA InitNumbers == PoolInit => NumbersGiven
  BY DEF PoolInit, NumbersGiven

LEMMA ReturnsTyped ==
  ASSUME use \in [Connections -> Use \cup {FREE}], NEW c, NEW S, returns(c, S)
  PROVE  use' \in [Connections -> Use \cup {FREE}]
  BY DEF returns

LEMMA TakesTyped ==
  ASSUME use \in [Connections -> Use \cup {FREE}], NEW c \in Clients,
         NEW session \in Session, takes(c, session)
  PROVE  use' \in [Connections -> Use \cup {FREE}]
<1>1. <<c, session>> \in Use
  BY DEF Use, Session
<1>2. QED BY <1>1 DEF takes

LEMMA GoesTyped ==
  ASSUME phase \in [Clients -> Phase], NEW c, NEW to \in Phase, goes_to(c, to)
  PROVE  phase' \in [Clients -> Phase]
  BY DEF goes_to

LEMMA NextTyped ==
  ASSUME PoolTypeOK, NumbersGiven, [PoolNext]_pool_vars
  PROVE  PoolTypeOK' /\ NumbersGiven'
<1> USE DEF PoolTypeOK, NumbersGiven
<1>1. CASE UNCHANGED pool_vars
  BY <1>1 DEF pool_vars
<1>2. ASSUME NEW c \in Clients, Arrive(c) PROVE PoolTypeOK' /\ NumbersGiven'
  BY <1>2, PoolBoundsAssumption DEF Arrive, goes_to, Phase
<1>3. ASSUME NEW c \in Clients, CheckOut(c) PROVE PoolTypeOK' /\ NumbersGiven'
  <2>1. use' \in [Connections -> Use \cup {FREE}]
    BY <1>3, TakesTyped DEF CheckOut, Session
  <2>2. QED BY <1>3, <2>1 DEF CheckOut, goes_to, Phase
<1>4. ASSUME NEW c \in Clients, Finish(c) PROVE PoolTypeOK' /\ NumbersGiven'
  BY <1>4, ReturnsTyped DEF Finish, goes_to, Phase
<1>5. ASSUME NEW c \in Clients, MeetOutage(c) PROVE PoolTypeOK' /\ NumbersGiven'
  BY <1>5 DEF MeetOutage, goes_to, refused, Phase
<1>6. ASSUME NEW c \in Clients, CheckOutAudit(c) PROVE PoolTypeOK' /\ NumbersGiven'
  <2>1. use' \in [Connections -> Use \cup {FREE}]
    BY <1>6, TakesTyped DEF CheckOutAudit, Session
  <2>2. QED BY <1>6, <2>1 DEF CheckOutAudit, goes_to, Phase
<1>7. ASSUME NEW c \in Clients, CommitAudit(c) PROVE PoolTypeOK' /\ NumbersGiven'
  BY <1>7, ReturnsTyped DEF CommitAudit, goes_to, Phase
<1>8. ASSUME NEW c \in Clients, AnswerUnavailable(c) PROVE PoolTypeOK' /\ NumbersGiven'
  BY <1>8, ReturnsTyped DEF AnswerUnavailable, goes_to, Phase
<1>9. ASSUME NEW c \in Clients, breaks_off(c) PROVE PoolTypeOK' /\ NumbersGiven'
  BY <1>9, ReturnsTyped DEF breaks_off, goes_to, Phase
<1>10. QED
  BY <1>1, <1>2, <1>3, <1>4, <1>5, <1>6, <1>7, <1>8, <1>9
     DEF PoolNext, Proceed, TimeOut, AuditFails

-----------------------------------------------------------------------------
\* The two ways in which the connections change.

\* A session that takes a connection had none, and is the only one that has it.
LEMMA TakesKeeps ==
  ASSUME NEW c \in Clients, NEW session \in Session, takes(c, session),
         use \in [Connections -> Use \cup {FREE}], ConnectionsAreExclusive,
         \A k \in Connections : use[k] # <<c, session>>
  PROVE  /\ ConnectionsAreExclusive'
         /\ \A d \in Clients, s \in Session :
              (\E k \in Connections : use'[k] = <<d, s>>)
                <=> (\E k \in Connections : use[k] = <<d, s>>) \/ <<d, s>> = <<c, session>>
<1>1. PICK j \in free : use' = [use EXCEPT ![j] = <<c, session>>]
  BY DEF takes
<1>2. j \in Connections /\ use[j] = FREE
  BY <1>1 DEF free
<1>3. use'[j] = <<c, session>> /\ \A k \in Connections \ {j} : use'[k] = use[k]
  BY <1>1, <1>2
<1>4. \A d \in Clients, s \in Session : <<d, s>> # FREE
  BY FreeAssumption DEF Session
<1>5. ConnectionsAreExclusive'
  BY <1>2, <1>3 DEF ConnectionsAreExclusive
<1>6. ASSUME NEW d \in Clients, NEW s \in Session
      PROVE  (\E k \in Connections : use'[k] = <<d, s>>)
               <=> (\E k \in Connections : use[k] = <<d, s>>) \/ <<d, s>> = <<c, session>>
  <2>1. use[j] # <<d, s>>
    BY <1>2, <1>4
  <2>2. QED BY <1>2, <1>3, <2>1
<1>7. QED BY <1>5, <1>6

\* What is returned is free, and nothing else changes hands.
LEMMA ReturnsKeeps ==
  ASSUME NEW c \in Clients, NEW S \in SUBSET Session, returns(c, S),
         use \in [Connections -> Use \cup {FREE}], ConnectionsAreExclusive
  PROVE  /\ ConnectionsAreExclusive'
         /\ \A d \in Clients, s \in Session :
              (\E k \in Connections : use'[k] = <<d, s>>)
                <=> (\E k \in Connections : use[k] = <<d, s>>) /\ <<d, s>> \notin {c} \X S
<1>1. \A k \in Connections :
        use'[k] = IF use[k] \in {c} \X S THEN FREE ELSE use[k]
  BY DEF returns
<1>2. \A d \in Clients, s \in Session : <<d, s>> # FREE
  BY FreeAssumption DEF Session
<1>3. ConnectionsAreExclusive'
  BY <1>1 DEF ConnectionsAreExclusive
<1>4. ASSUME NEW d \in Clients, NEW s \in Session
      PROVE  (\E k \in Connections : use'[k] = <<d, s>>)
               <=> (\E k \in Connections : use[k] = <<d, s>>) /\ <<d, s>> \notin {c} \X S
  BY <1>1, <1>2
<1>5. QED BY <1>3, <1>4

-----------------------------------------------------------------------------
IInv == PoolTypeOK /\ SessionsHaveConnections /\ ConnectionsAreExclusive

LEMMA InitConnections == PoolInit => SessionsHaveConnections /\ ConnectionsAreExclusive
  BY FreeAssumption
     DEF PoolInit, SessionsHaveConnections, ConnectionsAreExclusive, sessions_in, Session

\* Client c has the sessions of phase `to` now, the others what they had.
SessionsOfOnly(c, to) ==
  \A d \in Clients, s \in Session :
    (\E k \in Connections : use'[k] = <<d, s>>)
      <=> IF d = c THEN s \in sessions_in(to)
                   ELSE \E k \in Connections : use[k] = <<d, s>>

LEMMA PhaseStep ==
  ASSUME PoolTypeOK, SessionsHaveConnections, NEW c \in Clients, NEW to, goes_to(c, to),
         SessionsOfOnly(c, to)
  PROVE  SessionsHaveConnections'
<1>1. \A d \in Clients : phase'[d] = IF d = c THEN to ELSE phase[d]
  BY DEF goes_to, PoolTypeOK
<1>2. ASSUME NEW d \in Clients, NEW s \in Session
      PROVE  s \in sessions_in(phase'[d]) <=> \E k \in Connections : use'[k] = <<d, s>>
  <2>1. CASE d = c
    BY <1>1, <2>1 DEF SessionsOfOnly
  <2>2. CASE d # c
    BY <1>1, <2>2 DEF SessionsHaveConnections, SessionsOfOnly
  <2>3. QED BY <2>1, <2>2
<1>3. QED BY <1>2 DEF SessionsHaveConnections

\* The sessions of each phase, one fact per phase.
LEMMA SessionsByPhase ==
  /\ sessions_in("idle") = {} /\ sessions_in("asking") = {}
  /\ sessions_in("running") = {"request"} /\ sessions_in("refused") = {"request"}
  /\ sessions_in("audited") = {"request"}
  /\ sessions_in("auditing") = {"request", "audit"}
  BY DEF sessions_in

\* A session is taken by a client that does not have it.
LEMMA TakingStep ==
  ASSUME IInv, NEW c \in Clients, NEW to, NEW session \in Session,
         takes(c, session), goes_to(c, to), session \notin sessions_in(phase[c]),
         sessions_in(to) = sessions_in(phase[c]) \cup {session}
  PROVE  (SessionsHaveConnections /\ ConnectionsAreExclusive)'
<1>1. \A s \in Session :
        s \in sessions_in(phase[c]) <=> \E k \in Connections : use[k] = <<c, s>>
  BY DEF IInv, SessionsHaveConnections
<1>2. \A k \in Connections : use[k] # <<c, session>>
  BY <1>1
<1>3. use \in [Connections -> Use \cup {FREE}] /\ ConnectionsAreExclusive
  BY DEF IInv, PoolTypeOK
<1>4. /\ ConnectionsAreExclusive'
      /\ \A d \in Clients, s \in Session :
           (\E k \in Connections : use'[k] = <<d, s>>)
             <=> (\E k \in Connections : use[k] = <<d, s>>) \/ <<d, s>> = <<c, session>>
  BY <1>2, <1>3, TakesKeeps
<1>5. ASSUME NEW d \in Clients, NEW s \in Session
      PROVE  (\E k \in Connections : use'[k] = <<d, s>>)
               <=> IF d = c THEN s \in sessions_in(to)
                            ELSE \E k \in Connections : use[k] = <<d, s>>
  BY <1>1, <1>4
<1>6. SessionsOfOnly(c, to)
  BY <1>5 DEF SessionsOfOnly
<1>7. SessionsHaveConnections'
  BY <1>6, PhaseStep DEF IInv
<1>8. QED BY <1>4, <1>7

LEMMA ReturningStep ==
  ASSUME IInv, NEW c \in Clients, NEW to, NEW S \in SUBSET Session,
         returns(c, S), goes_to(c, to), sessions_in(to) = sessions_in(phase[c]) \ S
  PROVE  (SessionsHaveConnections /\ ConnectionsAreExclusive)'
<1>1. \A s \in Session :
        s \in sessions_in(phase[c]) <=> \E k \in Connections : use[k] = <<c, s>>
  BY DEF IInv, SessionsHaveConnections
<1>2. /\ ConnectionsAreExclusive'
      /\ \A d \in Clients, s \in Session :
           (\E k \in Connections : use'[k] = <<d, s>>)
             <=> (\E k \in Connections : use[k] = <<d, s>>) /\ <<d, s>> \notin {c} \X S
  BY ReturnsKeeps DEF IInv, PoolTypeOK
<1>3. ASSUME NEW d \in Clients, NEW s \in Session
      PROVE  (\E k \in Connections : use'[k] = <<d, s>>)
               <=> IF d = c THEN s \in sessions_in(to)
                            ELSE \E k \in Connections : use[k] = <<d, s>>
  <2>1. <<d, s>> \in {c} \X S <=> d = c /\ s \in S
    OBVIOUS
  <2>2. CASE d = c
    BY <1>1, <1>2, <2>1, <2>2
  <2>3. CASE d # c
    BY <1>2, <2>1, <2>3
  <2>4. QED BY <2>2, <2>3
<1>4. SessionsOfOnly(c, to)
  BY <1>3 DEF SessionsOfOnly
<1>5. SessionsHaveConnections'
  BY <1>4, PhaseStep DEF IInv
<1>6. QED BY <1>2, <1>5

\* A step that leaves the connections where they are.
LEMMA KeepingStep ==
  ASSUME IInv, NEW c \in Clients, NEW to, goes_to(c, to), UNCHANGED use,
         sessions_in(to) = sessions_in(phase[c])
  PROVE  (SessionsHaveConnections /\ ConnectionsAreExclusive)'
<1>1. SessionsOfOnly(c, to)
  BY DEF IInv, SessionsHaveConnections, SessionsOfOnly
<1>2. SessionsHaveConnections'
  BY <1>1, PhaseStep DEF IInv
<1>3. QED BY <1>2 DEF IInv, ConnectionsAreExclusive

LEMMA NextConnections ==
  ASSUME IInv, [PoolNext]_pool_vars
  PROVE  (SessionsHaveConnections /\ ConnectionsAreExclusive)'
<1> DEFINE Goal == (SessionsHaveConnections /\ ConnectionsAreExclusive)'
<1>1. CASE UNCHANGED pool_vars
  BY <1>1 DEF IInv, pool_vars, SessionsHaveConnections, ConnectionsAreExclusive
<1>2. ASSUME NEW c \in Clients, Arrive(c) PROVE Goal
  BY <1>2, KeepingStep, SessionsByPhase DEF Arrive, Phase
<1>3. ASSUME NEW c \in Clients, CheckOut(c) PROVE Goal
  BY <1>3, TakingStep, SessionsByPhase DEF CheckOut, Phase, Session
<1>4. ASSUME NEW c \in Clients, Finish(c) PROVE Goal
  BY <1>4, ReturningStep, SessionsByPhase, {"request"} \in SUBSET Session
     DEF Finish, Phase, Session
<1>5. ASSUME NEW c \in Clients, MeetOutage(c) PROVE Goal
  BY <1>5, KeepingStep, SessionsByPhase DEF MeetOutage, refused, Phase
<1>6. ASSUME NEW c \in Clients, CheckOutAudit(c) PROVE Goal
  BY <1>6, TakingStep, SessionsByPhase DEF CheckOutAudit, Phase, Session
<1>7. ASSUME NEW c \in Clients, CommitAudit(c) PROVE Goal
  BY <1>7, ReturningStep, SessionsByPhase, {"audit"} \in SUBSET Session
     DEF CommitAudit, Phase, Session
<1>8. ASSUME NEW c \in Clients, AnswerUnavailable(c) PROVE Goal
  BY <1>8, ReturningStep, SessionsByPhase, {"request"} \in SUBSET Session
     DEF AnswerUnavailable, Phase, Session
<1>9. ASSUME NEW c \in Clients, breaks_off(c) PROVE Goal
  <2>1. sessions_in(phase[c]) \in SUBSET Session
    BY SessionsByPhase DEF IInv, PoolTypeOK, Phase, Session
  <2>2. sessions_in("idle") = sessions_in(phase[c]) \ {"request", "audit"}
    BY <2>1, SessionsByPhase DEF Session
  <2>3. QED BY <1>9, <2>2, ReturningStep, {"request", "audit"} \in SUBSET Session
           DEF breaks_off, Phase, Session
<1>10. QED
  BY <1>1, <1>2, <1>3, <1>4, <1>5, <1>6, <1>7, <1>8, <1>9
     DEF PoolNext, Proceed, TimeOut, AuditFails

-----------------------------------------------------------------------------
\* Every variable stays in its set.
THEOREM PoolTyped == PoolSpec => []PoolTypeOK
<1>1. PoolInit => PoolTypeOK /\ NumbersGiven
  BY InitTyped, InitNumbers
<1>2. PoolTypeOK /\ NumbersGiven /\ [PoolNext]_pool_vars => (PoolTypeOK /\ NumbersGiven)'
  BY NextTyped
<1>3. QED BY <1>1, <1>2, PTL DEF PoolSpec

\* No connection leaks and none is shared, in a pool of any size: however a
\* request ends, its connections are returned (ConnectionPool's returns).
THEOREM NothingLeaks == PoolSpec => []ConnectionsFollowSessions
<1>1. PoolInit => IInv
  BY InitTyped, InitConnections DEF IInv
<1>2. IInv /\ PoolTypeOK' /\ [PoolNext]_pool_vars => IInv'
  BY NextConnections DEF IInv
<1>3. IInv => ConnectionsFollowSessions
  BY DEF IInv, SessionsHaveConnections, ConnectionsAreExclusive,
         ConnectionsFollowSessions, Session
<1>4. QED BY <1>1, <1>2, <1>3, PoolTyped, PTL DEF PoolSpec

\* When nobody with a connection can go on, every connection is held by a
\* refused cloud action: the pool never locks up for any other reason.
THEOREM StallsAreRefusals == PoolSpec => []OnlyRefusalsStallThePool
<1>1. ASSUME PoolTypeOK, ConnectionsFollowSessions PROVE OnlyRefusalsStallThePool
  <2>1. SUFFICES ASSUME stalled, NEW k \in Connections
                 PROVE  \E c \in Clients : use[k] = <<c, "request">> /\ phase[c] = "refused"
    BY DEF OnlyRefusalsStallThePool
  <2>2. PICK c \in Clients, session \in Session : use[k] = <<c, session>>
    BY <1>1, <2>1 DEF stalled, free, PoolTypeOK, Use, Session
  <2>3. session \in sessions_in(phase[c])
    BY <1>1, <2>2 DEF ConnectionsFollowSessions, Session
  <2>4. phase[c] = "refused" /\ session = "request"
    BY <2>1, <2>3, SessionsByPhase DEF stalled
  <2>5. QED BY <2>2, <2>4
<1>2. QED BY <1>1, PoolTyped, NothingLeaks, PTL

\* No client is told of an outage that the trail does not show: the refusal is
\* committed on its own session before it is raised.
THEOREM ToldIsAudited == PoolSpec => []RefusalsToldAreAudited
<1> DEFINE Inv == RefusalsToldAreAudited /\ AuditedFirst
<1>1. PoolInit => Inv
  BY DEF PoolInit, RefusalsToldAreAudited, AuditedFirst
<1>2. ASSUME PoolTypeOK, Inv, [PoolNext]_pool_vars PROVE Inv'
  <2> USE <1>2 DEF PoolTypeOK, RefusalsToldAreAudited, AuditedFirst
  <2>1. CASE UNCHANGED pool_vars
    BY <2>1 DEF pool_vars
  <2>2. ASSUME NEW c \in Clients, Arrive(c) PROVE Inv'
    BY <2>2 DEF Arrive, goes_to
  <2>3. ASSUME NEW c \in Clients, CommitAudit(c) PROVE Inv'
    BY <2>3 DEF CommitAudit, goes_to
  <2>4. ASSUME NEW c \in Clients, AnswerUnavailable(c) PROVE Inv'
    BY <2>4 DEF AnswerUnavailable, goes_to
  <2>5. ASSUME NEW c \in Clients, NEW to \in Phase \ {"audited"}, goes_to(c, to),
               UNCHANGED <<number, audit, told>>
        PROVE  Inv'
    BY <2>5 DEF goes_to
  <2>6. QED
    BY <2>1, <2>2, <2>3, <2>4, <2>5
       DEF PoolNext, Proceed, TimeOut, AuditFails, CheckOut, Finish, MeetOutage,
           CheckOutAudit, breaks_off, refused, Phase
<1>3. QED BY <1>1, <1>2, PoolTyped, PTL DEF PoolSpec
=============================================================================
