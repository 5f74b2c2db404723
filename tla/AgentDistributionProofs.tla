----------------------- MODULE AgentDistributionProofs ------------------------
(***************************************************************************)
(* AgentDistribution, proved for any sets of attempts and agents, any mix  *)
(* of queue kinds, any attempts whose statements fail and any bound on     *)
(* missed offers: its types; the inductive invariant HandoffInv, which     *)
(* follows every agent from the booking to the ring, and the properties it *)
(* implies; and that the first agent of a predictive attempt is not lost.  *)
(***************************************************************************)
EXTENDS AgentDistribution, TLAPS

USE AgentsAssumption, FlagsAssumption, MaxMissAssumption

\* Whatever the queue, its prelude commits the row once.
LEMMA PreludeCommitsOnce ==
    \A a \in Attempts, i, j \in 1..3 : Prelude(a)[i] = "db" /\ Prelude(a)[j] = "db" => i = j
BY DEF Prelude

\* A goroutine in its prelude still has a step to do.
StepBound == \A a \in Attempts : pc[a] = "prelude" => step[a] \in 1..3

\* Every step keeps the variables in their types.
LEMMA TypeStep == TypeOK /\ StepBound /\ [Next]_vars => TypeOK' /\ StepBound'
<1> SUFFICES ASSUME TypeOK, StepBound, [Next]_vars PROVE TypeOK' /\ StepBound'
  BY Zenon
<1>1. ASSUME NEW a \in Attempts, NEW g \in Agents, Assign(a, g) PROVE TypeOK' /\ StepBound'
  BY <1>1 DEF Assign, TypeOK, StepBound, MemStates, Pcs, AnyAgent, Handoffs, Idle, Goto, memory,
     run
<1>2. CASE ReservedForAttemptByNode
  BY <1>2 DEF ReservedForAttemptByNode, TypeOK, StepBound, RowStates, MemStates, AnyAgent,
     Handoffs, Idle, memory, run
<1>3. ASSUME NEW h \in picked, RouteAgentToAttempt(h) PROVE TypeOK' /\ StepBound'
  BY Zenon, <1>3 DEF RouteAgentToAttempt, TypeOK, StepBound, Handoffs, Idle, memory, run
<1>4. ASSUME NEW h \in picked, RouteError(h) PROVE TypeOK' /\ StepBound'
  BY Zenon, <1>4 DEF RouteError, TypeOK, StepBound, memory, run
<1>5. CASE DistributeAgentSet
  BY Zenon, <1>5 DEF DistributeAgentSet, TypeOK, StepBound, AnyAgent, Handoffs, Idle, run
<1>6. CASE DistributeAgentEmit
  BY <1>6 DEF DistributeAgentEmit, TypeOK, StepBound, run
<1>7. ASSUME NEW a \in Attempts, PreludeStep(a) PROVE TypeOK' /\ StepBound'
  BY SMTT(20), <1>7 DEF PreludeStep, KeptAgent, TypeOK, StepBound, RowStates, MemStates, Pcs, AnyAgent,
     Handoffs, Idle, Goto, memory, run
<1>8. ASSUME NEW a \in Attempts, PreludeError(a) PROVE TypeOK' /\ StepBound'
  BY Zenon, <1>8 DEF PreludeError, TypeOK, StepBound, Pcs, Goto, memory
<1>9. ASSUME NEW a \in Attempts, TakeAgent(a) PROVE TypeOK' /\ StepBound'
  BY <1>9 DEF TakeAgent, TypeOK, StepBound, RowStates, Pcs, AnyAgent, Handoffs, Goto
<1>10. ASSUME NEW a \in Attempts, TakeError(a) PROVE TypeOK' /\ StepBound'
  BY <1>10 DEF TakeError, TypeOK, StepBound, Pcs, Goto
<1>11. ASSUME NEW a \in Attempts, Offering(a) PROVE TypeOK' /\ StepBound'
  <2>1. row' \in [Attempts -> [state : RowStates, agent : AnyAgent]]
    <3>1. row \in [Attempts -> [state : RowStates, agent : AnyAgent]]
      BY Zenon DEF TypeOK
    <3>2. "offering" \in RowStates /\ "bridged" \in RowStates
      BY Zenon DEF RowStates
    <3> QED
      BY Zenon, <1>11, <3>1, <3>2 DEF Offering
  <2>2. pc' \in [Attempts -> Pcs] /\ state' \in [Attempts -> MemStates] /\ StepBound'
    BY Zenon, <1>11 DEF Offering, TypeOK, StepBound, MemStates, run
  <2> QED
    BY Zenon, <1>11, <2>1, <2>2 DEF Offering, TypeOK, run
<1>12. ASSUME NEW a \in Attempts, Bridged(a) PROVE TypeOK' /\ StepBound'
  <2>1. row' \in [Attempts -> [state : RowStates, agent : AnyAgent]]
    <3>1. row \in [Attempts -> [state : RowStates, agent : AnyAgent]]
      BY Zenon DEF TypeOK
    <3>2. "offering" \in RowStates /\ "bridged" \in RowStates
      BY Zenon DEF RowStates
    <3> QED
      BY Zenon, <1>12, <3>1, <3>2 DEF Bridged
  <2>2. pc' \in [Attempts -> Pcs] /\ state' \in [Attempts -> MemStates] /\ StepBound'
    BY <1>12 DEF Bridged, TypeOK, StepBound, RowStates, MemStates, Pcs, Goto
  <2> QED
    BY Zenon, <1>12, <2>1, <2>2 DEF Bridged, TypeOK
<1>13. ASSUME NEW a \in Attempts, MissedCommit(a) PROVE TypeOK' /\ StepBound'
  <2>1. row' \in [Attempts -> [state : RowStates, agent : AnyAgent]]
    BY Zenon, <1>13 DEF MissedCommit, TypeOK, RowStates, AnyAgent
  <2>2. pc' \in [Attempts -> Pcs] /\ StepBound'
    BY <1>13 DEF MissedCommit, TypeOK, StepBound, RowStates, Pcs, Goto
  <2>3. misses' \in [Attempts -> 0..MaxMiss]
    BY <1>13 DEF MissedCommit, TypeOK
  <2> QED
    BY Zenon, <1>13, <2>1, <2>2, <2>3 DEF MissedCommit, TypeOK, memory
<1>14. ASSUME NEW a \in Attempts, MissedError(a) PROVE TypeOK' /\ StepBound'
  BY <1>14 DEF MissedError, TypeOK, StepBound, Pcs, Goto, memory
<1>15. ASSUME NEW a \in Attempts, MissedAgent(a) \/ DropAgent(a) \/ Rewait(a)
       PROVE TypeOK' /\ StepBound'
  <2>1. CASE MissedAgent(a)
    BY Zenon, <2>1 DEF MissedAgent, TypeOK, StepBound, MemStates, Pcs, Goto
  <2>2. CASE DropAgent(a)
    BY Zenon, <2>2 DEF DropAgent, TypeOK, StepBound, MemStates, Pcs, AnyAgent, Handoffs, Idle, Goto,
       memory, run
  <2>3. CASE Rewait(a)
    BY <2>3 DEF Rewait, TypeOK, StepBound, RowStates, MemStates, Pcs, AnyAgent, Goto
  <2> QED
    BY Zenon, <1>15, <2>1, <2>2, <2>3
<1>16. ASSUME NEW a \in Attempts, StopWaiting(a) \/ EndAttempt(a) \/ EndError(a)
       PROVE TypeOK' /\ StepBound'
  <2>1. CASE StopWaiting(a)
    BY Zenon, <2>1 DEF StopWaiting, TypeOK, StepBound, RowStates, Pcs, Goto, memory
  <2>2. CASE EndAttempt(a)
    BY <2>2 DEF EndAttempt, TypeOK, StepBound, RowStates, Pcs, Handoffs, Goto, memory
  <2>3. CASE EndError(a)
    BY Zenon, <2>3 DEF EndError, TypeOK, StepBound, RowStates, MemStates, Pcs, Goto, memory
  <2> QED
    BY Zenon, <1>16, <2>1, <2>2, <2>3 DEF AnyAgent, Handoffs, Idle
<1>17. ASSUME NEW a \in Attempts, LeavingMember(a) PROVE TypeOK' /\ StepBound'
  BY Zenon, <1>17 DEF LeavingMember, TypeOK, StepBound, MemStates, Pcs, Goto
<1>18. CASE UNCHANGED vars
  BY Zenon, <1>18 DEF vars, TypeOK, StepBound, memory, run
<1> QED
  BY ZenonT(60), <1>1, <1>2, <1>3, <1>4, <1>5, <1>6, <1>7, <1>8, <1>9, <1>10, <1>11, <1>12, <1>13,
     <1>14, <1>15, <1>16, <1>17, <1>18 DEF Next, Dispatcher, Run, Quiet

\* The variables stay in their types in every queue, with or without errors.
THEOREM TypeCorrect == Spec => []TypeOK
<1>1. Init => TypeOK /\ StepBound
  BY DEF Init, TypeOK, StepBound, RowStates, MemStates, Pcs, AnyAgent, Handoffs, Idle
<1> QED
  BY <1>1, TypeStep, PTL DEF Spec

------------------------------------------------------------------------------
\* The inductive invariant behind the safety properties.

\* A handoff for attempt a is on its way, at whatever stage.
InFlight(a) == Picked(a) \/ Routing(a) \/ events[a] > 0

\* Once the row left 'waiting', the prelude has no commit left to do.
CommitOnce ==
    \A a \in Attempts :
        (pc[a] = "prelude" /\ row[a].state # "waiting") =>
            \A i \in step[a]..3 : Prelude(a)[i] # "db"

\* Where the run goroutine is while its row is in a given state.
RowMatchesRun ==
    \A a \in Attempts :
        /\ pc[a] \in {"offer", "talk"} => row[a].state \in {"active", "offering", "bridged"}
        /\ row[a].state = "leaving" => pc[a] \in {"leave", "left"}

\* A handoff on its way belongs to a row that was flipped to 'active' (and
\* may have left since), while run is not busy with another agent.
HandoffOfActiveRow ==
    \A a \in Attempts :
        InFlight(a) => row[a].state \in {"active", "leaving"} /\ pc[a] \notin {"offer", "talk"}

\* Every stage of a handoff carries the agent of the row; only DropAgent, after
\* a missed offer, can erase it from the attempt.
Carries(a) == agent[a] = row[a].agent \/ (agent[a] = NoAgent /\ misses[a] > 0)

HandoffCarriesAgent ==
    /\ \A h, k \in picked : h.attempt = k.attempt => h = k
    /\ \A h \in picked : row[h.attempt].agent = h.agent
    /\ route # Idle => row[route.attempt].agent = route.agent
    /\ (route # Idle /\ route.step = "emit") => Carries(route.attempt)
    /\ \A a \in Attempts : events[a] > 0 => Carries(a) /\ row[a].agent # NoAgent

\* The way back to waiting is only taken after a missed offer.
MissedFirst ==
    \A a \in Attempts : pc[a] \in {"missed", "waiting", "rewait", "panic"} => misses[a] > 0

HandoffInv ==
    /\ CommitOnce
    /\ RowMatchesRun
    /\ HandoffOfActiveRow
    /\ HandoffCarriesAgent
    /\ MissedFirst
    /\ OneHandoff
    /\ RingsBookedAgent
    /\ OneLiveRowPerAgent

\* Every step preserves the invariant.
LEMMA HandoffStep == TypeOK /\ StepBound /\ HandoffInv /\ [Next]_vars => HandoffInv'
<1> SUFFICES ASSUME TypeOK, StepBound, HandoffInv, [Next]_vars PROVE HandoffInv'
  BY Zenon
<1>1. ASSUME NEW a \in Attempts, NEW g \in Agents, Assign(a, g) PROVE HandoffInv'
  BY <1>1 DEF Assign, Unbooked, Goto, memory, run, HandoffInv, CommitOnce, RowMatchesRun,
     HandoffOfActiveRow, InFlight, Picked, Routing, Carries, HandoffCarriesAgent, MissedFirst,
     OneHandoff, RingsBookedAgent, OneLiveRowPerAgent
<1>2. CASE ReservedForAttemptByNode
  <2>10. PICK S \in SUBSET {a \in Attempts : row[a].state = "wait_agent" /\ row[a].agent # NoAgent} :
           /\ row' = [a \in Attempts |-> IF a \in S THEN [row[a] EXCEPT !.state = "active"] ELSE row[a]]
           /\ picked' = {[attempt |-> a, agent |-> row[a].agent] : a \in S}
    BY Zenon, <1>2 DEF ReservedForAttemptByNode
  <2>11. route = Idle /\ route' = Idle /\ events' = events /\ pc' = pc
    BY Zenon, <1>2 DEF ReservedForAttemptByNode, memory, run
  <2>1. CommitOnce'
    BY Zenon, <1>2 DEF ReservedForAttemptByNode, run, StepBound, HandoffInv, CommitOnce
  <2>2. RowMatchesRun'
    BY <1>2 DEF ReservedForAttemptByNode, run, HandoffInv, RowMatchesRun
  <2>3. HandoffOfActiveRow'
    <3>3. ASSUME NEW a \in Attempts, InFlight(a)'
          PROVE  row'[a].state \in {"active", "leaving"} /\ pc'[a] \notin {"offer", "talk"}
      <4>1. CASE a \in S
        <5>1. row[a].state = "wait_agent" /\ row'[a].state = "active"
          BY <2>10, <4>1 DEF TypeOK
        <5> QED
          BY Zenon, <2>11, <5>1 DEF HandoffInv, RowMatchesRun
      <4>2. CASE a \notin S
        <5>1. row'[a] = row[a]
          BY Zenon, <2>10, <4>2
        <5>2. InFlight(a)
          BY <2>10, <2>11, <3>3, <4>2 DEF InFlight, Picked, Routing
        <5> QED
          BY Zenon, <2>11, <5>1, <5>2 DEF HandoffInv, HandoffOfActiveRow
      <4> QED
        BY Zenon, <4>1, <4>2
    <3> QED
      BY Zenon, <3>3 DEF HandoffOfActiveRow
  <2>4. HandoffCarriesAgent'
    BY <1>2 DEF ReservedForAttemptByNode, memory, run, HandoffInv, Carries, HandoffCarriesAgent
  <2>5. MissedFirst'
    BY Zenon, <1>2 DEF ReservedForAttemptByNode, run, HandoffInv, MissedFirst
  <2>6. OneHandoff'
    <3>1. ASSUME NEW a \in Attempts, Picked(a)' PROVE events[a] = 0
      <4>1. row[a].state = "wait_agent"
        BY <2>10, <3>1 DEF Picked
      <4> QED
        BY <4>1 DEF TypeOK, HandoffInv, HandoffOfActiveRow, InFlight
    <3> QED
      BY Zenon, <2>11, <3>1 DEF HandoffInv, OneHandoff, Routing
  <2>7. RingsBookedAgent'
    BY <1>2 DEF ReservedForAttemptByNode, run, HandoffInv, RingsBookedAgent
  <2>8. OneLiveRowPerAgent'
    BY <1>2 DEF ReservedForAttemptByNode, Live, HandoffInv, OneLiveRowPerAgent
  <2> QED
    BY Zenon, <2>1, <2>2, <2>3, <2>4, <2>5, <2>6, <2>7, <2>8 DEF HandoffInv
<1>3. ASSUME NEW h \in picked, RouteAgentToAttempt(h) PROVE HandoffInv'
  <2>1. CommitOnce'
    BY Zenon, <1>3 DEF RouteAgentToAttempt, run, HandoffInv, CommitOnce
  <2>2. RowMatchesRun'
    BY Zenon, <1>3 DEF RouteAgentToAttempt, run, HandoffInv, RowMatchesRun
  <2>3. HandoffOfActiveRow'
    BY Zenon, <1>3 DEF RouteAgentToAttempt, memory, run, HandoffInv, HandoffOfActiveRow, InFlight, Picked,
       Routing
  <2>4. HandoffCarriesAgent'
    BY Zenon, <1>3 DEF RouteAgentToAttempt, memory, run, HandoffInv, Routing, Carries,
       HandoffCarriesAgent, MissedFirst, OneHandoff
  <2>5. MissedFirst'
    BY Zenon, <1>3 DEF RouteAgentToAttempt, run, HandoffInv, MissedFirst
  <2>6. OneHandoff'
    BY <1>3 DEF RouteAgentToAttempt, memory, HandoffInv, Picked, Routing, HandoffCarriesAgent,
       OneHandoff
  <2>7. RingsBookedAgent'
    BY Zenon, <1>3 DEF RouteAgentToAttempt, run, HandoffInv, RingsBookedAgent
  <2>8. OneLiveRowPerAgent'
    BY Zenon, <1>3 DEF RouteAgentToAttempt, HandoffInv, CommitOnce, RingsBookedAgent, OneLiveRowPerAgent
  <2> QED
    BY Zenon, <2>1, <2>2, <2>3, <2>4, <2>5, <2>6, <2>7, <2>8 DEF HandoffInv
<1>4. ASSUME NEW h \in picked, RouteError(h) PROVE HandoffInv'
  BY <1>4 DEF RouteError, memory, run, HandoffInv, CommitOnce, RowMatchesRun, HandoffOfActiveRow,
     InFlight, Picked, Routing, Carries, HandoffCarriesAgent, MissedFirst, OneHandoff,
     RingsBookedAgent, OneLiveRowPerAgent
<1>5. CASE DistributeAgentSet
  BY <1>5 DEF DistributeAgentSet, TypeOK, Goto, run, HandoffInv, CommitOnce, RowMatchesRun,
     HandoffOfActiveRow, InFlight, Picked, Routing, Carries, HandoffCarriesAgent, MissedFirst,
     OneHandoff, RingsBookedAgent, OneLiveRowPerAgent
<1>6. CASE DistributeAgentEmit
  BY <1>6 DEF DistributeAgentEmit, TypeOK, run, StepBound, HandoffInv, CommitOnce, RowMatchesRun,
     HandoffOfActiveRow, InFlight, Picked, Routing, Carries, HandoffCarriesAgent, MissedFirst,
     OneHandoff, RingsBookedAgent, OneLiveRowPerAgent
<1>7. ASSUME NEW a \in Attempts, PreludeStep(a) PROVE HandoffInv'
  <2>1. step[a] \in 1..3
    BY Zenon, <1>7 DEF PreludeStep, StepBound
  <2>2. CASE Prelude(a)[step[a]] = "db"
    <3>1. row[a].state = "waiting" /\ ~InFlight(a)
      <4>1. row[a].state = "waiting"
        BY <1>7, <2>1, <2>2 DEF PreludeStep, HandoffInv, CommitOnce
      <4> QED
        BY Zenon, <4>1 DEF HandoffInv, HandoffOfActiveRow
    <3>2. PICK g \in KeptAgent(a) : row' = [row EXCEPT ![a] = [state |-> "wait_agent", agent |-> g]]
      BY Zenon, <1>7, <2>2 DEF PreludeStep
    <3>3. g \in AnyAgent
      BY <3>2 DEF KeptAgent, TypeOK, AnyAgent
    <3>4. CommitOnce'
      <4> SUFFICES ASSUME NEW b \in Attempts, pc'[b] = "prelude", row'[b].state # "waiting",
                          NEW i \in step'[b]..3
                   PROVE Prelude(b)[i] # "db"
        BY Zenon DEF CommitOnce
      <4>1. CASE b = a
        <5>1. step'[a] = step[a] + 1
          BY Zenon, <1>7 DEF PreludeStep, TypeOK
        <5>2. i \in 1..3 /\ i # step[a]
          BY <2>1, <4>1, <5>1
        <5> QED
          BY Zenon, <2>1, <2>2, <4>1, <5>2, PreludeCommitsOnce
      <4>2. CASE b # a
        BY Zenon, <1>7, <3>2, <4>2 DEF PreludeStep, TypeOK, RowStates, Goto, memory, run, StepBound,
           HandoffInv, CommitOnce, RingsBookedAgent, OneLiveRowPerAgent
      <4> QED
        BY Zenon, <4>1, <4>2
    <3>5. RowMatchesRun'
      BY <1>7, <3>2, <3>3 DEF PreludeStep, Goto, HandoffInv, RowMatchesRun
    <3>6. HandoffOfActiveRow'
      BY SMTT(20), <1>7, <3>1, <3>2, <3>3 DEF PreludeStep, Goto, HandoffInv, HandoffOfActiveRow, InFlight,
         Picked, Routing
    <3>7. HandoffCarriesAgent'
      BY <1>7, <3>1, <3>2, <3>3 DEF PreludeStep, HandoffInv, CommitOnce, HandoffOfActiveRow,
         InFlight, Picked, Routing, Carries, HandoffCarriesAgent
    <3>8. MissedFirst' /\ OneHandoff' /\ RingsBookedAgent'
      BY <1>7, <3>2, <3>3 DEF PreludeStep, Goto, run, StepBound, HandoffInv, CommitOnce, Picked,
         Routing, MissedFirst, OneHandoff, RingsBookedAgent
    <3>9. OneLiveRowPerAgent'
      BY <1>7, <3>2, <3>3 DEF KeptAgent, Unbooked, HandoffInv, OneLiveRowPerAgent
    <3> QED
      BY Zenon, <3>4, <3>5, <3>6, <3>7, <3>8, <3>9 DEF HandoffInv
  <2>3. CASE Prelude(a)[step[a]] # "db"
    <3>1. row' = row
      BY Zenon, <1>7, <2>3 DEF PreludeStep
    <3>2. CommitOnce'
      BY <1>7, <2>1, <3>1 DEF PreludeStep, Goto, HandoffInv, CommitOnce
    <3>3. RowMatchesRun' /\ HandoffOfActiveRow' /\ MissedFirst'
      BY SMTT(20), <1>7, <3>1 DEF PreludeStep, Goto, memory, run, StepBound, HandoffInv, CommitOnce,
         RowMatchesRun, HandoffOfActiveRow, InFlight, Picked, Routing, Carries,
         HandoffCarriesAgent, MissedFirst, OneHandoff
    <3>4. HandoffCarriesAgent' /\ OneHandoff' /\ RingsBookedAgent' /\ OneLiveRowPerAgent'
      BY Zenon, <1>7, <3>1 DEF PreludeStep, TypeOK, RowStates, Goto, run, StepBound, HandoffInv, Picked,
         Routing, Carries, HandoffCarriesAgent, MissedFirst, OneHandoff, RingsBookedAgent,
         OneLiveRowPerAgent
    <3> QED
      BY Zenon, <3>2, <3>3, <3>4 DEF HandoffInv
  <2> QED
    BY Zenon, <2>2, <2>3
<1>8. ASSUME NEW a \in Attempts, PreludeError(a) PROVE HandoffInv'
  <2>1. CommitOnce' /\ RowMatchesRun'
    BY Zenon, <1>8 DEF PreludeError, TypeOK, StepBound, Goto, memory, HandoffInv, CommitOnce, RowMatchesRun
  <2>2. HandoffOfActiveRow'
    BY Zenon, <1>8 DEF PreludeError, TypeOK, Goto, memory, HandoffInv, RowMatchesRun, HandoffOfActiveRow,
       InFlight, Picked, Routing
  <2>3. HandoffCarriesAgent' /\ OneHandoff'
    BY Zenon, <1>8 DEF PreludeError, TypeOK, memory, HandoffInv, MissedFirst, HandoffCarriesAgent, OneHandoff,
       Picked, Routing, Carries
  <2>4. MissedFirst' /\ RingsBookedAgent' /\ OneLiveRowPerAgent'
    BY Zenon, <1>8 DEF PreludeError, TypeOK, Goto, memory, Live, HandoffInv, MissedFirst, RingsBookedAgent,
       OneLiveRowPerAgent
  <2> QED
    BY Zenon, <2>1, <2>2, <2>3, <2>4 DEF HandoffInv
<1>9. ASSUME NEW a \in Attempts, TakeAgent(a) PROVE HandoffInv'
  <2>1. CommitOnce'
    BY <1>9 DEF TakeAgent, TypeOK, RowStates, Handoffs, Live, Goto, memory, run, HandoffInv,
       CommitOnce, RowMatchesRun, HandoffOfActiveRow, InFlight, Routing, Carries,
       HandoffCarriesAgent, MissedFirst, OneHandoff, RingsBookedAgent, OneLiveRowPerAgent
  <2>2. RowMatchesRun'
    BY <1>9 DEF TakeAgent, TypeOK, Handoffs, Idle, Goto, run, StepBound, HandoffInv, RowMatchesRun,
       HandoffOfActiveRow, InFlight, Routing, HandoffCarriesAgent, OneLiveRowPerAgent
  <2>3. HandoffOfActiveRow'
    BY <1>9 DEF TakeAgent, TypeOK, Pcs, AnyAgent, Goto, memory, StepBound, HandoffInv, CommitOnce,
       RowMatchesRun, HandoffOfActiveRow, InFlight, Picked, Routing, OneHandoff
  <2>4. HandoffCarriesAgent'
    BY <1>9 DEF TakeAgent, StepBound, HandoffInv, Carries, HandoffCarriesAgent, MissedFirst
  <2>5. MissedFirst'
    BY <1>9 DEF TakeAgent, TypeOK, RowStates, Goto, memory, run, StepBound, HandoffInv, Carries,
       HandoffCarriesAgent, MissedFirst
  <2>6. OneHandoff'
    BY <1>9 DEF TakeAgent, TypeOK, run, StepBound, HandoffInv, RowMatchesRun, Picked, Routing,
       OneHandoff
  <2>7. RingsBookedAgent'
    BY SMTT(20), <1>9 DEF TakeAgent, TypeOK, Goto, run, StepBound, HandoffInv, Picked, Routing, Carries,
       HandoffCarriesAgent, RingsBookedAgent
  <2>8. OneLiveRowPerAgent'
    BY Zenon, <1>9 DEF TakeAgent, HandoffInv, RingsBookedAgent, OneLiveRowPerAgent
  <2> QED
    BY Zenon, <2>1, <2>2, <2>3, <2>4, <2>5, <2>6, <2>7, <2>8 DEF HandoffInv
<1>10. ASSUME NEW a \in Attempts, TakeError(a) PROVE HandoffInv'
  <2>1. CommitOnce' /\ RowMatchesRun'
    BY Zenon, <1>10 DEF TakeError, TypeOK, StepBound, Goto, memory, HandoffInv, CommitOnce, RowMatchesRun
  <2>2. HandoffOfActiveRow'
    BY Zenon, <1>10 DEF TakeError, TypeOK, Goto, memory, HandoffInv, HandoffOfActiveRow, InFlight, Picked,
       Routing
  <2>3. HandoffCarriesAgent'
    BY Zenon, <1>10 DEF TakeError, TypeOK, memory, HandoffInv, HandoffOfActiveRow, HandoffCarriesAgent,
       InFlight, Picked, Routing, Carries
  <2>4. OneHandoff'
    BY <1>10 DEF TakeError, TypeOK, memory, HandoffInv, OneHandoff, Picked, Routing
  <2>5. MissedFirst'
    BY Zenon, <1>10 DEF TakeError, TypeOK, Goto, memory, HandoffInv, MissedFirst
  <2>6. RingsBookedAgent' /\ OneLiveRowPerAgent'
    BY Zenon, <1>10 DEF TakeError, TypeOK, Goto, memory, HandoffInv, RingsBookedAgent, OneLiveRowPerAgent
  <2> QED
    BY Zenon, <2>1, <2>2, <2>3, <2>4, <2>5, <2>6 DEF HandoffInv
<1>11. ASSUME NEW a \in Attempts, Offering(a) PROVE HandoffInv'
  BY <1>11 DEF Offering, TypeOK, RowStates, Handoffs, Live, Goto, memory, run, HandoffInv,
     CommitOnce, RowMatchesRun, HandoffOfActiveRow, InFlight, Picked, Routing, Carries,
     HandoffCarriesAgent, MissedFirst, OneHandoff, RingsBookedAgent, OneLiveRowPerAgent
<1>12. ASSUME NEW a \in Attempts, Bridged(a) PROVE HandoffInv'
  <2>1. CASE row' = [row EXCEPT ![a].state = "bridged"]
    <3>1. CommitOnce' /\ RowMatchesRun' /\ HandoffOfActiveRow' /\ MissedFirst'
      BY <1>12, <2>1 DEF Bridged, Goto, HandoffInv, CommitOnce, RowMatchesRun, HandoffOfActiveRow,
         InFlight, Picked, Routing, MissedFirst
    <3>2. \A b \in Attempts : row'[b].agent = row[b].agent
      BY <2>1
    <3>3. HandoffCarriesAgent'
      BY Zenon, <1>12, <3>2 DEF Bridged, TypeOK, Handoffs, HandoffInv, Carries, HandoffCarriesAgent
    <3>4. OneHandoff' /\ RingsBookedAgent'
      BY <1>12, <3>2 DEF Bridged, Goto, HandoffInv, Picked, Routing, OneHandoff, RingsBookedAgent
    <3>5. \A b \in Attempts : row'[b].state \in Live => row[b].state \in Live
      BY <1>12, <2>1 DEF Bridged, Live, HandoffInv, RowMatchesRun
    <3>6. OneLiveRowPerAgent'
      BY Zenon, <3>2, <3>5 DEF HandoffInv, OneLiveRowPerAgent
    <3> QED
      BY Zenon, <3>1, <3>3, <3>4, <3>6 DEF HandoffInv
  <2>2. CASE row' = row
    BY <1>12, <2>2 DEF Bridged, Goto, memory, run, HandoffInv, CommitOnce, RowMatchesRun,
       HandoffOfActiveRow, InFlight, Picked, Routing, Carries, HandoffCarriesAgent, MissedFirst,
       OneHandoff, RingsBookedAgent, OneLiveRowPerAgent
  <2> QED
    BY Zenon, <1>12, <2>1, <2>2 DEF Bridged
<1>13. ASSUME NEW a \in Attempts, MissedCommit(a) PROVE HandoffInv'
  <2>1. CommitOnce' /\ RowMatchesRun'
    BY <1>13 DEF MissedCommit, TypeOK, StepBound, Goto, memory, HandoffInv, CommitOnce, RowMatchesRun
  <2>2. HandoffOfActiveRow'
    BY Zenon, <1>13 DEF MissedCommit, TypeOK, Goto, memory, HandoffInv, HandoffOfActiveRow, InFlight, Picked,
       Routing
  <2>3. HandoffCarriesAgent'
    BY <1>13 DEF MissedCommit, TypeOK, memory, HandoffInv, HandoffOfActiveRow, HandoffCarriesAgent,
       InFlight, Picked, Routing, Carries
  <2>4. OneHandoff'
    BY Zenon, <1>13 DEF MissedCommit, TypeOK, memory, HandoffInv, OneHandoff, Picked, Routing
  <2>5. MissedFirst'
    BY <1>13 DEF MissedCommit, TypeOK, Goto, memory, HandoffInv, MissedFirst
  <2>6. RingsBookedAgent' /\ OneLiveRowPerAgent'
    BY <1>13 DEF MissedCommit, TypeOK, Goto, memory, HandoffInv, RingsBookedAgent, OneLiveRowPerAgent
  <2> QED
    BY Zenon, <2>1, <2>2, <2>3, <2>4, <2>5, <2>6 DEF HandoffInv
<1>14. ASSUME NEW a \in Attempts, MissedError(a) PROVE HandoffInv'
  <2>1. CommitOnce' /\ RowMatchesRun'
    BY Zenon, <1>14 DEF MissedError, TypeOK, StepBound, Goto, memory, HandoffInv, CommitOnce, RowMatchesRun
  <2>2. HandoffOfActiveRow'
    BY Zenon, <1>14 DEF MissedError, TypeOK, Goto, memory, HandoffInv, HandoffOfActiveRow, InFlight, Picked,
       Routing
  <2>3. HandoffCarriesAgent'
    BY Zenon, <1>14 DEF MissedError, TypeOK, memory, HandoffInv, HandoffOfActiveRow, HandoffCarriesAgent,
       InFlight, Picked, Routing, Carries
  <2>4. OneHandoff'
    BY Zenon, <1>14 DEF MissedError, TypeOK, memory, HandoffInv, OneHandoff, Picked, Routing
  <2>5. MissedFirst'
    BY <1>14 DEF MissedError, TypeOK, Goto, memory, HandoffInv, MissedFirst
  <2>6. RingsBookedAgent' /\ OneLiveRowPerAgent'
    BY Zenon, <1>14 DEF MissedError, TypeOK, Goto, memory, HandoffInv, RingsBookedAgent, OneLiveRowPerAgent
  <2> QED
    BY Zenon, <2>1, <2>2, <2>3, <2>4, <2>5, <2>6 DEF HandoffInv
<1>15. ASSUME NEW a \in Attempts, MissedAgent(a) PROVE HandoffInv'
  <2>1. CommitOnce' /\ RowMatchesRun'
    BY Zenon, <1>15 DEF MissedAgent, TypeOK, StepBound, Goto, memory, HandoffInv, CommitOnce, RowMatchesRun
  <2>2. HandoffOfActiveRow'
    BY Zenon, <1>15 DEF MissedAgent, TypeOK, Goto, memory, HandoffInv, RowMatchesRun, HandoffOfActiveRow,
       InFlight, Picked, Routing
  <2>3. HandoffCarriesAgent' /\ OneHandoff'
    BY Zenon, <1>15 DEF MissedAgent, TypeOK, memory, HandoffInv, MissedFirst, HandoffCarriesAgent, OneHandoff,
       Picked, Routing, Carries
  <2>4. MissedFirst' /\ RingsBookedAgent' /\ OneLiveRowPerAgent'
    BY Zenon, <1>15 DEF MissedAgent, TypeOK, Goto, memory, Live, HandoffInv, MissedFirst, RingsBookedAgent,
       OneLiveRowPerAgent
  <2> QED
    BY Zenon, <2>1, <2>2, <2>3, <2>4 DEF HandoffInv
<1>16. ASSUME NEW a \in Attempts, DropAgent(a) PROVE HandoffInv'
  <2>1. CommitOnce' /\ RowMatchesRun'
    BY Zenon, <1>16 DEF DropAgent, TypeOK, StepBound, Goto, memory, HandoffInv, CommitOnce, RowMatchesRun
  <2>2. HandoffOfActiveRow'
    BY Zenon, <1>16 DEF DropAgent, TypeOK, Goto, memory, HandoffInv, RowMatchesRun, HandoffOfActiveRow,
       InFlight, Picked, Routing
  <2>3. HandoffCarriesAgent' /\ OneHandoff'
    BY Zenon, <1>16 DEF DropAgent, TypeOK, memory, HandoffInv, MissedFirst, HandoffCarriesAgent, OneHandoff,
       Picked, Routing, Carries
  <2>4. MissedFirst' /\ RingsBookedAgent' /\ OneLiveRowPerAgent'
    BY Zenon, <1>16 DEF DropAgent, TypeOK, Goto, memory, Live, HandoffInv, MissedFirst, RingsBookedAgent,
       OneLiveRowPerAgent
  <2> QED
    BY Zenon, <2>1, <2>2, <2>3, <2>4 DEF HandoffInv
<1>17. ASSUME NEW a \in Attempts, Rewait(a) PROVE HandoffInv'
  <2>1. CommitOnce'
    BY <1>17 DEF Rewait, TypeOK, RowStates, Handoffs, Idle, Live, Goto, memory, run, HandoffInv,
       CommitOnce, HandoffCarriesAgent, MissedFirst, OneHandoff, RingsBookedAgent,
       OneLiveRowPerAgent
  <2>2. RowMatchesRun'
    BY <1>17 DEF Rewait, TypeOK, RowStates, Goto, memory, StepBound, HandoffInv, CommitOnce,
       RowMatchesRun, InFlight, Routing, Carries, MissedFirst, OneHandoff, RingsBookedAgent
  <2>3. HandoffOfActiveRow'
    BY Zenon, <1>17 DEF Rewait, TypeOK, Pcs, Goto, memory, StepBound, HandoffInv, HandoffOfActiveRow,
       InFlight, Picked, Routing
  <2>4. HandoffCarriesAgent'
    BY Zenon, <1>17 DEF Rewait, HandoffInv, Carries, HandoffCarriesAgent
  <2>5. MissedFirst'
    BY Zenon, <1>17 DEF Rewait, TypeOK, Goto, HandoffInv, MissedFirst
  <2>6. OneHandoff'
    BY Zenon, <1>17 DEF Rewait, HandoffInv, Picked, Routing, OneHandoff
  <2>7. RingsBookedAgent'
    BY Zenon, <1>17 DEF Rewait, TypeOK, Goto, HandoffInv, RingsBookedAgent
  <2>8. OneLiveRowPerAgent'
    BY Zenon, <1>17 DEF Rewait, HandoffInv, OneLiveRowPerAgent
  <2> QED
    BY Zenon, <2>1, <2>2, <2>3, <2>4, <2>5, <2>6, <2>7, <2>8 DEF HandoffInv
<1>18. ASSUME NEW a \in Attempts, StopWaiting(a) PROVE HandoffInv'
  <2>1. CommitOnce' /\ RowMatchesRun'
    BY Zenon, <1>18 DEF StopWaiting, TypeOK, StepBound, Goto, memory, HandoffInv, CommitOnce, RowMatchesRun
  <2>2. HandoffOfActiveRow'
    BY Zenon, <1>18 DEF StopWaiting, TypeOK, Goto, memory, HandoffInv, RowMatchesRun, HandoffOfActiveRow,
       InFlight, Picked, Routing
  <2>3. HandoffCarriesAgent' /\ OneHandoff'
    BY Zenon, <1>18 DEF StopWaiting, TypeOK, memory, HandoffInv, HandoffCarriesAgent, OneHandoff, Picked,
       Routing, Carries
  <2>4. MissedFirst' /\ RingsBookedAgent' /\ OneLiveRowPerAgent'
    BY Zenon, <1>18 DEF StopWaiting, TypeOK, Goto, memory, Live, HandoffInv, MissedFirst, RingsBookedAgent,
       OneLiveRowPerAgent
  <2> QED
    BY Zenon, <2>1, <2>2, <2>3, <2>4 DEF HandoffInv
<1>19. ASSUME NEW a \in Attempts, EndAttempt(a) PROVE HandoffInv'
  <2>1. CommitOnce' /\ RowMatchesRun'
    BY Zenon, <1>19 DEF EndAttempt, TypeOK, StepBound, Goto, memory, HandoffInv, CommitOnce, RowMatchesRun
  <2>2. HandoffOfActiveRow'
    BY <1>19 DEF EndAttempt, TypeOK, Goto, memory, HandoffInv, RowMatchesRun, HandoffOfActiveRow,
       InFlight, Picked, Routing
  <2>3. HandoffCarriesAgent' /\ OneHandoff'
    BY <1>19 DEF EndAttempt, TypeOK, memory, HandoffInv, HandoffCarriesAgent, OneHandoff, Picked,
       Routing, Carries
  <2>4. MissedFirst' /\ RingsBookedAgent' /\ OneLiveRowPerAgent'
    BY <1>19 DEF EndAttempt, TypeOK, Goto, memory, Live, HandoffInv, MissedFirst, RingsBookedAgent,
       OneLiveRowPerAgent
  <2> QED
    BY Zenon, <2>1, <2>2, <2>3, <2>4 DEF HandoffInv
<1>20. ASSUME NEW a \in Attempts, EndError(a) PROVE HandoffInv'
  <2>1. CommitOnce' /\ RowMatchesRun'
    BY Zenon, <1>20 DEF EndError, TypeOK, StepBound, Goto, memory, HandoffInv, CommitOnce, RowMatchesRun
  <2>2. HandoffOfActiveRow'
    BY Zenon, <1>20 DEF EndError, TypeOK, Goto, memory, HandoffInv, RowMatchesRun, HandoffOfActiveRow,
       InFlight, Picked, Routing
  <2>3. HandoffCarriesAgent' /\ OneHandoff'
    BY Zenon, <1>20 DEF EndError, TypeOK, memory, HandoffInv, HandoffCarriesAgent, OneHandoff, Picked,
       Routing, Carries
  <2>4. MissedFirst' /\ RingsBookedAgent' /\ OneLiveRowPerAgent'
    BY Zenon, <1>20 DEF EndError, TypeOK, Goto, memory, Live, HandoffInv, MissedFirst, RingsBookedAgent,
       OneLiveRowPerAgent
  <2> QED
    BY Zenon, <2>1, <2>2, <2>3, <2>4 DEF HandoffInv
<1>21. ASSUME NEW a \in Attempts, LeavingMember(a) PROVE HandoffInv'
  <2>1. CommitOnce' /\ RowMatchesRun'
    BY Zenon, <1>21 DEF LeavingMember, TypeOK, StepBound, Goto, memory, HandoffInv, CommitOnce, RowMatchesRun
  <2>2. HandoffOfActiveRow'
    BY <1>21 DEF LeavingMember, TypeOK, Goto, memory, HandoffInv, RowMatchesRun, HandoffOfActiveRow,
       InFlight, Picked, Routing
  <2>3. HandoffCarriesAgent' /\ OneHandoff'
    BY <1>21 DEF LeavingMember, TypeOK, memory, HandoffInv, HandoffCarriesAgent, OneHandoff, Picked,
       Routing, Carries
  <2>4. MissedFirst' /\ RingsBookedAgent' /\ OneLiveRowPerAgent'
    BY Zenon, <1>21 DEF LeavingMember, TypeOK, Goto, memory, Live, HandoffInv, MissedFirst, RingsBookedAgent,
       OneLiveRowPerAgent
  <2> QED
    BY Zenon, <2>1, <2>2, <2>3, <2>4 DEF HandoffInv
<1>22. CASE UNCHANGED vars
  <2>1. CommitOnce' /\ RowMatchesRun'
    BY Zenon, <1>22 DEF vars, run, HandoffInv, CommitOnce, RowMatchesRun
  <2>2. HandoffOfActiveRow'
    BY Zenon, <1>22 DEF vars, memory, run, HandoffInv, HandoffOfActiveRow, InFlight, Picked, Routing
  <2>3. HandoffCarriesAgent' /\ OneHandoff'
    BY Zenon, <1>22 DEF vars, memory, run, HandoffInv, HandoffCarriesAgent, OneHandoff, Picked, Routing,
       Carries
  <2>4. MissedFirst' /\ RingsBookedAgent' /\ OneLiveRowPerAgent'
    BY Zenon, <1>22 DEF vars, memory, run, HandoffInv, MissedFirst, RingsBookedAgent, OneLiveRowPerAgent
  <2> QED
    BY Zenon, <2>1, <2>2, <2>3, <2>4 DEF HandoffInv
<1> QED
  BY ZenonT(60), <1>1, <1>2, <1>3, <1>4, <1>5, <1>6, <1>7, <1>8, <1>9, <1>10, <1>11, <1>12, <1>13,
     <1>14, <1>15, <1>16, <1>17, <1>18, <1>19, <1>20, <1>21, <1>22 DEF Next, Dispatcher, Run,
     Quiet

\* Initially nothing is on its way.
LEMMA HandoffInit == Init => HandoffInv
<1>1. Init => CommitOnce /\ RowMatchesRun
  BY DEF Init, Idle, Live, AnyAgent, CommitOnce, RowMatchesRun
<1>2. Init => HandoffOfActiveRow /\ HandoffCarriesAgent /\ OneHandoff
  BY DEF Init, Idle, Live, AnyAgent, HandoffOfActiveRow, InFlight, Picked, Routing, Carries, HandoffCarriesAgent, OneHandoff
<1>3. Init => MissedFirst /\ RingsBookedAgent /\ OneLiveRowPerAgent
  BY Zenon DEF Init, Idle, Live, AnyAgent, MissedFirst, RingsBookedAgent, OneLiveRowPerAgent
<1> QED
  BY Zenon, <1>1, <1>2, <1>3 DEF HandoffInv

\* The invariant holds in every behaviour.
LEMMA HandoffInvariant == Spec => [](TypeOK /\ StepBound /\ HandoffInv)
<1>1. Init => TypeOK /\ StepBound
  BY DEF Init, TypeOK, StepBound, RowStates, MemStates, Pcs, AnyAgent, Handoffs, Idle
<1> QED
  BY <1>1, HandoffInit, TypeStep, HandoffStep, PTL DEF Spec

\* An agent is booked on at most one live attempt, in every queue, for any
\* number of attempts and agents and with failing statements.
THEOREM AgentBookedOnce == Spec => []OneLiveRowPerAgent
BY HandoffInvariant, PTL DEF HandoffInv

\* A reserved agent is handed over at most once, through dispatcher, attempt
\* and emitter.
THEOREM HandedOverOnce == Spec => []OneHandoff
BY HandoffInvariant, PTL DEF HandoffInv

\* run rings the agent its row books.
THEOREM RingsTheBookedAgent == Spec => []RingsBookedAgent
BY HandoffInvariant, PTL DEF HandoffInv

\* run never dereferences a nil agent before the first missed offer.
THEOREM FirstAgentIsKnown == Spec => []FirstAgentKnown
<1>1. TypeOK /\ HandoffInv => FirstAgentKnown
  BY DEF TypeOK, HandoffInv, MissedFirst, FirstAgentKnown
<1> QED
  BY <1>1, HandoffInvariant, PTL

------------------------------------------------------------------------------
\* The first agent of a predictive attempt.

\* What the prelude of a predictive queue has set up so far.
Subscribed ==
    \A a \in Reliable :
        /\ pc[a] # "left" => cached[a]
        /\ (pc[a] = "prelude" /\ step[a] >= 2) => listening[a]
        /\ (pc[a] = "prelude" /\ step[a] = 3) => state[a] = "wait_agent"
        /\ (pc[a] = "select" /\ misses[a] = 0) => listening[a] /\ state[a] = "wait_agent"

\* Until the first missed offer an active row has its handoff on the way, or
\* run is past waiting.
FirstHandoffAlive ==
    \A a \in Reliable :
        /\ pc[a] = "prelude" => row[a].state = "waiting"
        /\ (pc[a] = "select" /\ misses[a] = 0 /\ row[a].state = "active") => InFlight(a)

\* The commit is the last step of the predictive prelude.
LEMMA PredictPrelude == \A a \in Reliable : Prelude(a) = <<"on", "state", "db">>
BY Zenon DEF Prelude, Reliable

\* Every step, of whatever attempt, keeps the first handoffs of the reliable
\* predictive attempts alive.
LEMMA FirstHandoffStep ==
    ASSUME TypeOK, StepBound, HandoffInv, Subscribed, FirstHandoffAlive, [Next]_vars
    PROVE  Subscribed' /\ FirstHandoffAlive'
<1>20. pc \in [Attempts -> Pcs] /\ misses \in [Attempts -> 0..MaxMiss]
  BY Zenon DEF TypeOK
<1>21. state \in [Attempts -> MemStates] /\ listening \in [Attempts -> BOOLEAN] /\ step \in [Attempts -> 1..4]
  BY Zenon DEF TypeOK
<1>22. row \in [Attempts -> [state : RowStates, agent : AnyAgent]]
  BY Zenon DEF TypeOK
<1>1. ASSUME NEW a \in Attempts, NEW g \in Agents, Assign(a, g)
     PROVE Subscribed' /\ FirstHandoffAlive'
  BY <1>1 DEF Assign, memory, run, InFlight, Picked, Routing, Subscribed, FirstHandoffAlive
<1>2. CASE ReservedForAttemptByNode
  <2>1. PICK S \in SUBSET {a \in Attempts : row[a].state = "wait_agent" /\ row[a].agent # NoAgent} :
           /\ row' = [a \in Attempts |-> IF a \in S THEN [row[a] EXCEPT !.state = "active"] ELSE row[a]]
           /\ picked' = {[attempt |-> a, agent |-> row[a].agent] : a \in S}
    BY Zenon, <1>2 DEF ReservedForAttemptByNode
  <2>2. ASSUME NEW a \in S PROVE Picked(a)'
    <3>1. [attempt |-> a, agent |-> row[a].agent] \in picked'
      BY Zenon, <2>1
    <3>2. [attempt |-> a, agent |-> row[a].agent].attempt = a
      BY Zenon
    <3> QED
      BY Zenon, <3>1, <3>2 DEF Picked
  <2>3. Subscribed'
    BY Zenon, <1>2 DEF ReservedForAttemptByNode, memory, run, Subscribed
  <2>4. FirstHandoffAlive'
    <3> SUFFICES ASSUME NEW a \in Reliable
                 PROVE /\ pc'[a] = "prelude" => row'[a].state = "waiting"
                       /\ (pc'[a] = "select" /\ misses'[a] = 0 /\ row'[a].state = "active") => InFlight(a)'
      BY Zenon DEF FirstHandoffAlive
    <3>1. CASE a \in S
      BY Zenon, <1>2, <2>1, <2>2, <3>1 DEF ReservedForAttemptByNode, run, StepBound, HandoffOfActiveRow,
         HandoffCarriesAgent, RowMatchesRun, MissedFirst, InFlight, FirstHandoffAlive
    <3>2. CASE a \notin S
      BY Zenon, <1>2, <2>1, <3>2 DEF ReservedForAttemptByNode, TypeOK, memory, run, MissedFirst, InFlight,
         Picked, Routing, Subscribed, FirstHandoffAlive, Reliable
    <3> QED
      BY Zenon, <3>1, <3>2
  <2> QED
    BY Zenon, <2>3, <2>4
<1>3. ASSUME NEW h \in picked, RouteAgentToAttempt(h)
     PROVE Subscribed' /\ FirstHandoffAlive'
  BY <1>3 DEF RouteAgentToAttempt, Idle, Goto, memory, run, StepBound, MissedFirst, InFlight,
     Picked, Routing, Subscribed, FirstHandoffAlive
<1>4. CASE DistributeAgentSet
  BY <1>4 DEF DistributeAgentSet, Idle, run, InFlight, Picked, Routing, Subscribed,
     FirstHandoffAlive
<1>5. CASE DistributeAgentEmit
  BY <1>5 DEF DistributeAgentEmit, TypeOK, RowStates, Pcs, run, HandoffInv, HandoffOfActiveRow,
     RowMatchesRun, MissedFirst, InFlight, Picked, Routing, Subscribed, FirstHandoffAlive
<1>6. ASSUME NEW a \in Attempts, PreludeStep(a)
     PROVE Subscribed' /\ FirstHandoffAlive'
  <2>1. CASE a \in Reliable
    <3>1. Prelude(a) = <<"on", "state", "db">>
      BY Zenon, <2>1, PredictPrelude
    <3>2. step[a] \in {1, 2, 3} /\ row[a].state = "waiting"
      BY <1>6, <2>1 DEF PreludeStep, StepBound, FirstHandoffAlive
    <3>3. CASE step[a] = 1
      <4>0. Prelude(a)[step[a]] = "on"
        BY <3>1, <3>3
      <4>1. pc' = pc /\ UNCHANGED <<row, misses, picked, route, events>>
        BY <1>6, <1>20, <3>3, <4>0 DEF PreludeStep, Goto
      <4>2. listening' = [listening EXCEPT ![a] = TRUE] /\ cached' = cached
        BY <1>6, <4>0, Zenon DEF PreludeStep
      <4>20. step' = [step EXCEPT ![a] = 2]
        BY <1>6, <3>3 DEF PreludeStep
      <4>21. state' = state
        BY Zenon, <1>6, <1>21, <4>0 DEF PreludeStep
      <4>22. Subscribed'
        BY <1>21, <4>1, <4>2, <4>20, <4>21 DEF Subscribed
      <4>3. FirstHandoffAlive'
        BY Zenon, <4>1 DEF InFlight, Picked, Routing, FirstHandoffAlive
      <4> QED
        BY Zenon, <4>22, <4>3
    <3>4. CASE step[a] = 2
      <4>0. Prelude(a)[step[a]] = "state"
        BY <3>1, <3>4
      <4>1. pc' = pc /\ UNCHANGED <<row, misses, picked, route, events>>
        BY SMTT(20), <1>6, <1>20, <3>4, <4>0 DEF PreludeStep, Goto
      <4>2. Subscribed'
        BY SMTT(20), <1>6, <1>21, <3>4, <4>0, <4>1 DEF PreludeStep, Subscribed, Reliable
      <4>3. FirstHandoffAlive'
        BY Zenon, <4>1 DEF InFlight, Picked, Routing, FirstHandoffAlive
      <4> QED
        BY Zenon, <4>2, <4>3
    <3>5. CASE step[a] = 3
      <4>1. PICK g \in KeptAgent(a) : row' = [row EXCEPT ![a] = [state |-> "wait_agent", agent |-> g]]
        BY <1>6, <3>1, <3>5 DEF PreludeStep
      <4>2. /\ pc' = [pc EXCEPT ![a] = "select"]
            /\ UNCHANGED <<state, listening, cached, misses, picked, route, events>>
        BY SMTT(20), <1>6, <1>20, <1>21, <3>1, <3>5 DEF PreludeStep, Goto
      <4>3. Subscribed'
        BY SMTT(20), <1>6, <1>20, <1>21, <3>5, <4>2 DEF PreludeStep, Subscribed, Reliable
      <4>4. FirstHandoffAlive'
        BY <1>20, <1>22, <4>1, <4>2 DEF InFlight, Picked, Routing, FirstHandoffAlive
      <4> QED
        BY Zenon, <4>3, <4>4
    <3> QED
      BY Zenon, <3>2, <3>3, <3>4, <3>5
  <2>2. CASE a \notin Reliable
    <3>1. \A b \in Reliable : b # a
      BY Zenon, <2>2
    <3>2. /\ UNCHANGED <<misses, cached, picked, route, events>>
          /\ \A b \in Reliable : /\ pc'[b] = pc[b] /\ step'[b] = step[b]
                                 /\ listening'[b] = listening[b] /\ state'[b] = state[b]
      BY Zenon, <1>6, <1>20, <1>21, <3>1 DEF PreludeStep, Goto, Reliable
    <3>3. \A b \in Reliable : row'[b] = row[b]
      BY Zenon, <1>6, <1>22, <3>1 DEF PreludeStep, Reliable
    <3>4. Subscribed'
      BY Zenon, <3>2 DEF Subscribed
    <3>5. FirstHandoffAlive'
      BY Zenon, <3>2, <3>3 DEF InFlight, Picked, Routing, FirstHandoffAlive
    <3> QED
      BY Zenon, <3>4, <3>5
  <2> QED
    BY Zenon, <2>1, <2>2
<1>7. ASSUME NEW a \in Attempts, TakeAgent(a)
     PROVE Subscribed' /\ FirstHandoffAlive'
  <2>1. Subscribed'
    BY Zenon, <1>7, <1>20 DEF TakeAgent, Goto, Subscribed, Reliable
  <2>2. events \in [Attempts -> Nat]
    BY Zenon DEF TypeOK
  <2>3. FirstHandoffAlive'
    BY Zenon, <1>7, <1>20, <2>2 DEF TakeAgent, Goto, InFlight, Picked, Routing, FirstHandoffAlive, Reliable
  <2> QED
    BY Zenon, <2>1, <2>3
<1>8. ASSUME NEW a \in Attempts, Offering(a)
     PROVE Subscribed' /\ FirstHandoffAlive'
  BY <1>8 DEF Offering, TypeOK, RowStates, run, InFlight, Picked, Routing, Subscribed,
     FirstHandoffAlive
<1>9. ASSUME NEW a \in Attempts, Bridged(a)
     PROVE Subscribed' /\ FirstHandoffAlive'
  <2>1. Subscribed'
    BY Zenon, <1>9, <1>20, <1>21 DEF Bridged, Goto, Subscribed, Reliable
  <2>2. FirstHandoffAlive'
    BY Zenon, <1>9, <1>20, <1>22 DEF Bridged, Goto, InFlight, Picked, Routing, FirstHandoffAlive, Reliable
  <2> QED
    BY Zenon, <2>1, <2>2
<1>10. ASSUME NEW a \in Attempts, MissedCommit(a)
     PROVE Subscribed' /\ FirstHandoffAlive'
  <2>1. Subscribed'
    BY Zenon, <1>10, <1>20 DEF MissedCommit, Goto, memory, Subscribed, Reliable
  <2>2. FirstHandoffAlive'
    BY Zenon, <1>10, <1>20, <1>22 DEF MissedCommit, Goto, memory, InFlight, Picked, Routing,
       FirstHandoffAlive, Reliable
  <2> QED
    BY Zenon, <2>1, <2>2
<1>11. ASSUME NEW a \in Attempts, MissedAgent(a)
     PROVE Subscribed' /\ FirstHandoffAlive'
  BY <1>11 DEF MissedAgent, Goto, memory, RowMatchesRun, InFlight, Picked, Routing, Subscribed,
     FirstHandoffAlive
<1>12. ASSUME NEW a \in Attempts, DropAgent(a)
     PROVE Subscribed' /\ FirstHandoffAlive'
  BY <1>12 DEF DropAgent, Goto, InFlight, Picked, Routing, Subscribed, FirstHandoffAlive
<1>13. ASSUME NEW a \in Attempts, Rewait(a)
     PROVE Subscribed' /\ FirstHandoffAlive'
  <2>1. misses[a] # 0
    BY <1>13 DEF Rewait, TypeOK, HandoffInv, MissedFirst
  <2>2. Subscribed'
    BY <1>13, <2>1 DEF Rewait, TypeOK, Goto, Subscribed, Reliable
  <2>3. FirstHandoffAlive'
    BY Zenon, <1>13, <2>1 DEF Rewait, TypeOK, Goto, InFlight, Picked, Routing, FirstHandoffAlive, Reliable
  <2> QED
    BY Zenon, <2>2, <2>3
<1>14. ASSUME NEW a \in Attempts, StopWaiting(a)
     PROVE Subscribed' /\ FirstHandoffAlive'
  <2>11. Subscribed'
    BY <1>14 DEF StopWaiting, Goto, memory, Subscribed
  <2>12. FirstHandoffAlive'
    BY <1>14 DEF StopWaiting, Goto, memory, InFlight, Picked, Routing, FirstHandoffAlive
  <2> QED
    BY Zenon, <2>11, <2>12
<1>15. ASSUME NEW a \in Attempts, EndAttempt(a)
     PROVE Subscribed' /\ FirstHandoffAlive'
  BY SMTT(20), <1>15 DEF EndAttempt, Goto, memory, InFlight, Picked, Routing, Subscribed, FirstHandoffAlive
<1>16. ASSUME NEW a \in Attempts, LeavingMember(a)
     PROVE Subscribed' /\ FirstHandoffAlive'
  BY SMTT(20), <1>16 DEF LeavingMember, TypeOK, Pcs, AnyAgent, Idle, Goto, memory, RowMatchesRun, InFlight,
     Picked, Routing, Subscribed, FirstHandoffAlive
<1>17. ASSUME NEW h \in picked, RouteError(h)
     PROVE Subscribed' /\ FirstHandoffAlive'
  BY Zenon, <1>17 DEF RouteError, memory, run, InFlight, Picked, Routing, Subscribed, FirstHandoffAlive,
     Reliable
<1>18. ASSUME NEW a \in Attempts, PreludeError(a) \/ TakeError(a) \/ MissedError(a) \/ EndError(a)
     PROVE Subscribed' /\ FirstHandoffAlive'
  <2>1. \A b \in Reliable : b # a
    BY Zenon, <1>18 DEF PreludeError, TakeError, MissedError, EndError, Reliable
  <2>2. UNCHANGED <<row, state, listening, cached, step, picked, route>>
    BY Zenon, <1>18 DEF PreludeError, TakeError, MissedError, EndError, memory
  <2>3. \A b \in Reliable : pc'[b] = pc[b]
    BY Zenon, <1>18, <2>1 DEF PreludeError, TakeError, MissedError, EndError, TypeOK, Goto, Reliable
  <2>4. \A b \in Reliable : misses'[b] = misses[b] /\ events'[b] = events[b]
    BY Zenon, <1>18, <2>1 DEF PreludeError, TakeError, MissedError, EndError, TypeOK, memory, Reliable
  <2>5. Subscribed'
    BY Zenon, <2>2, <2>3, <2>4 DEF Subscribed
  <2>6. FirstHandoffAlive'
    BY Zenon, <2>2, <2>3, <2>4 DEF InFlight, Picked, Routing, FirstHandoffAlive
  <2> QED
    BY Zenon, <2>5, <2>6
<1>19. CASE UNCHANGED vars
  BY Zenon, <1>19 DEF vars, TypeOK, Idle, memory, run, MissedFirst, InFlight, Picked, Routing, Subscribed,
     FirstHandoffAlive
<1> QED
  BY ZenonT(60), <1>1, <1>2, <1>3, <1>4, <1>5, <1>6, <1>7, <1>8, <1>9, <1>10, <1>11, <1>12, <1>13,
     <1>14, <1>15, <1>16, <1>17, <1>18, <1>19 DEF Next, Dispatcher, Run, Quiet

\* The first agent reserved for a predictive attempt whose statements succeed
\* is never lost between the row and the run goroutine, whatever the attempts
\* of other queues do and whichever of their statements fail: the claim of the
\* comment at call_predict.go:328-331.
THEOREM PredictKeepsFirstAgent == Spec => []PredictAgentNotLost
<1>1. Init => Subscribed /\ FirstHandoffAlive
  BY DEF Init, Subscribed, FirstHandoffAlive, Reliable
<1>2. TypeOK /\ HandoffInv /\ FirstHandoffAlive => PredictAgentNotLost
  BY DEF FirstHandoffAlive, PredictAgentNotLost, Reliable, Stranded, InFlight, TypeOK
<1>3. TypeOK /\ StepBound /\ HandoffInv /\ Subscribed /\ FirstHandoffAlive /\ [Next]_vars
        => Subscribed' /\ FirstHandoffAlive'
  BY Zenon, FirstHandoffStep
<1> QED
  BY <1>1, <1>2, <1>3, HandoffInvariant, PTL DEF Spec

==============================================================================
