--------------------------- MODULE AgentDistribution ---------------------------
(***************************************************************************)
(* How an agent picked by the distribution reaches the goroutine that owns *)
(* the attempt.  Three parties share one attempt:                          *)
(*                                                                         *)
(*   - its row in cc_member_attempt: cc_distribute (or an agent who        *)
(*     intercepts the attempt) writes agent_id into a row that has none;   *)
(*   - the dispatcher, the one watcher goroutine of queue/dialing.go: it   *)
(*     flips rows that wait for an agent and have one to 'active', and     *)
(*     hands each agent to the attempt (check, store, emit);               *)
(*   - the run goroutine of the queue: it subscribes, declares the attempt *)
(*     waiting in memory and in the row, takes the agent, rings it, and on *)
(*     a missed offer goes back to waiting.                                *)
(*                                                                         *)
(* Every statement sent to the database is one atomic step.                *)
(***************************************************************************)
EXTENDS Naturals, Sequences, FiniteSets

CONSTANTS
    Attempts,     \* attempts of this node
    Agents,       \* agents of the teams
    NoAgent,      \* agent_id null / a nil AgentObject
    Kind,         \* per attempt, which queue's run goroutine: see Kinds
    HoldAgent,    \* payload.hold_reserved_agent of a predictive queue
    Failing,      \* attempts whose statements and cache lookups may fail
    MaxMiss       \* bound: missed offers per attempt

Kinds == {"predict", "inbound", "chat", "im"}

ASSUME AttemptsAssumption == IsFiniteSet(Attempts)
ASSUME AgentsAssumption == NoAgent \notin Agents
ASSUME KindAssumption == Kind \in [Attempts -> Kinds]
ASSUME FlagsAssumption == HoldAgent \in BOOLEAN /\ Failing \subseteq Attempts
ASSUME MaxMissAssumption == MaxMiss \in Nat

VARIABLES
    row,        \* the attempt's row: state and agent_id
    picked,     \* rows returned by the last ReservedForAttemptByNode, not yet routed
    route,      \* what DistributeAgent is doing: step, attempt, agent
    state,      \* Attempt.state
    agent,      \* Attempt.agent
    listening,  \* the run goroutine has called On(AttemptHookDistributeAgent)
    events,     \* agent events emitted to the listener and not yet received
    cached,     \* the attempt is in Manager.membersCache
    pc,         \* where the run goroutine is
    step,       \* next step of the prelude
    offered,    \* the run goroutine's local variable agent
    misses      \* missed offers so far

memory == <<state, agent, listening, events, cached>>
run    == <<pc, step, offered, misses>>
vars   == <<row, picked, route, memory, run>>

-----------------------------------------------------------------------------
RowStates == {"waiting", "wait_agent", "active", "offering", "bridged", "leaving"}
Live      == {"wait_agent", "active", "offering", "bridged"}
MemStates == {"idle", "wait_agent", "offering", "bridged", "missed", "leaving"}
Pcs       == {"prelude", "select", "offer", "missed", "waiting", "rewait",
              "talk", "end", "leave", "left", "dead", "panic"}
AnyAgent  == Agents \cup {NoAgent}
Handoffs  == [attempt : Attempts, agent : Agents]
Idle      == [step |-> "idle"]

\* Mutant: the row is committed before the subscription.
MutPreludeDbFirst(a) == <<"db", "on", "state">>

\* The order in which the run goroutine subscribes to the agent event, sets
\* the state in memory and commits the row.
Prelude(a) ==
    CASE Kind[a] = "predict" -> <<"on", "state", "db">>
      [] Kind[a] = "inbound" -> <<"db", "on", "state">>
      [] OTHER               -> <<"db", "state", "on">>

TypeOK ==
    /\ row \in [Attempts -> [state : RowStates, agent : AnyAgent]]
    /\ picked \in SUBSET Handoffs
    /\ route \in {Idle} \cup [step : {"set", "emit"}, attempt : Attempts, agent : Agents]
    /\ state \in [Attempts -> MemStates]
    /\ agent \in [Attempts -> AnyAgent]
    /\ listening \in [Attempts -> BOOLEAN]
    /\ events \in [Attempts -> Nat]
    /\ cached \in [Attempts -> BOOLEAN]
    /\ pc \in [Attempts -> Pcs]
    /\ step \in [Attempts -> 1..4]
    /\ offered \in [Attempts -> AnyAgent]
    /\ misses \in [Attempts -> 0..MaxMiss]

\* A predictive attempt dials with an agent already written into its row.
Init ==
    /\ row \in [Attempts -> [state : {"waiting"}, agent : AnyAgent]]
    /\ \A a \in Attempts : row[a].agent # NoAgent => Kind[a] = "predict"
    /\ picked = {}
    /\ route = Idle
    /\ state = [a \in Attempts |-> "idle"]
    /\ agent = [a \in Attempts |-> row[a].agent]
    /\ listening = [a \in Attempts |-> FALSE]
    /\ events = [a \in Attempts |-> 0]
    /\ cached = [a \in Attempts |-> TRUE]
    /\ pc = [a \in Attempts |-> "prelude"]
    /\ step = [a \in Attempts |-> 1]
    /\ offered = [a \in Attempts |-> NoAgent]
    /\ misses = [a \in Attempts |-> 0]

-----------------------------------------------------------------------------
\* The database.

\* No other attempt has the agent in a live state.
Unbooked(g, a) == \A b \in Attempts \ {a} : ~(row[b].agent = g /\ row[b].state \in Live)

\* Mutant: an agent booked elsewhere is assigned.
MutAssignBooked(a, g) ==
    /\ row[a].state = "wait_agent"
    /\ row[a].agent = NoAgent
    /\ row' = [row EXCEPT ![a].agent = g]
    /\ UNCHANGED <<picked, route, memory, run>>

\* Mutant: the update lost its condition agent_id isnull.
MutAssignOver(a, g) ==
    /\ row[a].state \in {"wait_agent", "active"}
    /\ Unbooked(g, a)
    /\ row' = [row EXCEPT ![a].agent = g]
    /\ UNCHANGED <<picked, route, memory, run>>

\* cc_distribute, and Intercept for manual distribution: an agent for a row
\* that waits for one and has none.
Assign(a, g) ==
    /\ row[a].state = "wait_agent"
    /\ row[a].agent = NoAgent
    /\ Unbooked(g, a)
    /\ row' = [row EXCEPT ![a].agent = g]
    /\ UNCHANGED <<picked, route, memory, run>>

\* The agents AnswerPredictAndFindAgent and SetAttemptFindAgent may leave in
\* the row: the reserved one stays only in a queue that holds it, and only
\* when no other attempt has it (and its channel and device are free).
KeptAgent(a) ==
    {NoAgent} \cup (IF Kind[a] = "predict" /\ HoldAgent /\ Unbooked(row[a].agent, a)
                    THEN {row[a].agent} ELSE {})

-----------------------------------------------------------------------------
\* The dispatcher.

\* Mutant: the rows are selected but not flipped to 'active'.
MutReservedTwice ==
    /\ route = Idle
    /\ picked = {}
    /\ picked' = {[attempt |-> a, agent |-> row[a].agent] :
                     a \in {b \in Attempts : row[b].state = "wait_agent" /\ row[b].agent # NoAgent}}
    /\ UNCHANGED <<row, route, memory, run>>

\* One statement moves rows that wait and have an agent to 'active' and
\* returns them; rows locked by another transaction are skipped.
ReservedForAttemptByNode ==
    /\ route = Idle
    /\ picked = {}
    /\ \E S \in SUBSET {a \in Attempts : row[a].state = "wait_agent" /\ row[a].agent # NoAgent} :
          /\ S # {}
          /\ row' = [a \in Attempts |->
                        IF a \in S THEN [row[a] EXCEPT !.state = "active"] ELSE row[a]]
          /\ picked' = {[attempt |-> a, agent |-> row[a].agent] : a \in S}
    /\ UNCHANGED <<route, memory, run>>

\* Mutant: DistributeAgent emits without storing the agent.
MutRouteWithoutSet(h) ==
    /\ route = Idle
    /\ h \in picked
    /\ picked' = picked \ {h}
    /\ route' = IF cached[h.attempt] /\ state[h.attempt] = "wait_agent"
                THEN [step |-> "emit", attempt |-> h.attempt, agent |-> h.agent]
                ELSE Idle
    /\ UNCHANGED <<row, memory, run>>

\* routeAgentToAttempt and the first test of DistributeAgent: an attempt that
\* left the cache or is not waiting in memory loses the agent silently.
RouteAgentToAttempt(h) ==
    /\ route = Idle
    /\ h \in picked
    /\ picked' = picked \ {h}
    /\ route' = IF cached[h.attempt] /\ state[h.attempt] = "wait_agent"
                THEN [step |-> "set", attempt |-> h.attempt, agent |-> h.agent]
                ELSE Idle
    /\ UNCHANGED <<row, memory, run>>

\* GetAgent or GetQueue fails: the handoff is logged and dropped.
RouteError(h) ==
    /\ h.attempt \in Failing
    /\ route = Idle
    /\ h \in picked
    /\ picked' = picked \ {h}
    /\ UNCHANGED <<row, route, memory, run>>

DistributeAgentSet ==
    /\ route # Idle
    /\ route.step = "set"
    /\ agent' = [agent EXCEPT ![route.attempt] = route.agent]
    /\ route' = [route EXCEPT !.step = "emit"]
    /\ UNCHANGED <<row, picked, state, listening, events, cached, run>>

\* Emit reaches only the listeners there are at that moment.
DistributeAgentEmit ==
    /\ route # Idle
    /\ route.step = "emit"
    /\ events' = [events EXCEPT ![route.attempt] = IF listening[route.attempt] THEN @ + 1 ELSE @]
    /\ route' = Idle
    /\ UNCHANGED <<row, picked, state, agent, listening, cached, run>>

-----------------------------------------------------------------------------
\* The run goroutine.

Goto(a, l) == pc' = [pc EXCEPT ![a] = l]

\* On, SetState(wait_agent), or the commit that makes the row wait for an
\* agent, in the order of the queue.
PreludeStep(a) ==
    /\ pc[a] = "prelude"
    /\ listening' = [listening EXCEPT ![a] = @ \/ Prelude(a)[step[a]] = "on"]
    /\ state' = [state EXCEPT ![a] = IF Prelude(a)[step[a]] = "state" THEN "wait_agent" ELSE @]
    /\ \/ /\ Prelude(a)[step[a]] = "db"
          /\ \E g \in KeptAgent(a) :
                row' = [row EXCEPT ![a] = [state |-> "wait_agent", agent |-> g]]
       \/ /\ Prelude(a)[step[a]] # "db"
          /\ UNCHANGED row
    /\ step' = [step EXCEPT ![a] = @ + 1]
    /\ Goto(a, IF step[a] = 3 THEN "select" ELSE "prelude")
    /\ UNCHANGED <<picked, route, agent, events, cached, offered, misses>>

\* The commit fails: the goroutine returns (chat: panics) and nobody calls
\* LeavingMember.
PreludeError(a) ==
    /\ a \in Failing
    /\ pc[a] = "prelude"
    /\ Prelude(a)[step[a]] = "db"
    /\ Goto(a, "dead")
    /\ UNCHANGED <<row, picked, route, memory, step, offered, misses>>

\* Mutant: the loop offers Attempt.agent without waiting for the event.
MutTakeWithoutEvent(a) ==
    /\ pc[a] = "select"
    /\ events' = [events EXCEPT ![a] = @ - 1]
    /\ offered' = [offered EXCEPT ![a] = agent[a]]
    /\ IF agent[a] = NoAgent THEN Goto(a, "panic") ELSE Goto(a, "offer")
    /\ UNCHANGED <<row, picked, route, state, agent, listening, cached, step, misses>>

\* case <-ags: the agent is read from the attempt, not from the event; a nil
\* agent is dereferenced.  A member who hung up meanwhile ends the loop.
TakeAgent(a) ==
    /\ pc[a] = "select"
    /\ events[a] > 0
    /\ events' = [events EXCEPT ![a] = @ - 1]
    /\ offered' = [offered EXCEPT ![a] = agent[a]]
    /\ IF agent[a] = NoAgent THEN Goto(a, "panic") ELSE Goto(a, "offer") \/ Goto(a, "end")
    /\ UNCHANGED <<row, picked, route, state, agent, listening, cached, step, misses>>

\* GetTeam fails: a call queue goes on waiting, the others return.
TakeError(a) ==
    /\ a \in Failing
    /\ pc[a] = "select"
    /\ events[a] > 0
    /\ events' = [events EXCEPT ![a] = @ - 1]
    /\ Goto(a, IF Kind[a] = "inbound" THEN "select" ELSE "dead")
    /\ UNCHANGED <<row, picked, route, state, agent, listening, cached, step, offered, misses>>

\* The agent's leg rings: team.Offering.
Offering(a) ==
    /\ pc[a] = "offer"
    /\ state[a] # "offering"
    /\ row' = [row EXCEPT ![a].state = "offering"]
    /\ state' = [state EXCEPT ![a] = "offering"]
    /\ UNCHANGED <<picked, route, agent, listening, events, cached, run>>

\* The agent's leg is bridged to the member: team.Bridged, whose failed
\* statement leaves row and state as they are.
Bridged(a) ==
    /\ pc[a] = "offer"
    /\ \/ /\ row' = [row EXCEPT ![a].state = "bridged"]
          /\ state' = [state EXCEPT ![a] = "bridged"]
       \/ a \in Failing /\ UNCHANGED <<row, state>>
    /\ Goto(a, "talk")
    /\ UNCHANGED <<picked, route, agent, listening, events, cached, step, offered, misses>>

\* The leg ended unanswered: the commit of SetAttemptMissedAgent or of
\* SetAttemptWaitingAgent (an agent who was not at fault; calls only).  Both
\* make the row wait for another agent.
MissedCommit(a) ==
    /\ pc[a] = "offer"
    /\ misses[a] < MaxMiss
    /\ misses' = [misses EXCEPT ![a] = @ + 1]
    /\ row' = [row EXCEPT ![a] = [state |-> "wait_agent", agent |-> NoAgent]]
    /\ \/ Goto(a, "missed")
       \/ Kind[a] \in {"predict", "inbound"} /\ Goto(a, "waiting")
    /\ UNCHANGED <<picked, route, memory, step, offered>>

\* The same statement fails: the agent stays in the row and in the attempt.
MissedError(a) ==
    /\ a \in Failing
    /\ pc[a] = "offer"
    /\ misses[a] < MaxMiss
    /\ misses' = [misses EXCEPT ![a] = @ + 1]
    /\ Goto(a, "rewait")
    /\ UNCHANGED <<row, picked, route, memory, step, offered>>

\* MissedAgent: SetState(HookMissed).
MissedAgent(a) ==
    /\ pc[a] = "missed"
    /\ state' = [state EXCEPT ![a] = "missed"]
    /\ Goto(a, "waiting")
    /\ UNCHANGED <<row, picked, route, agent, listening, events, cached, step, offered, misses>>

\* attempt.agent = nil, the end of both team functions.
DropAgent(a) ==
    /\ pc[a] = "waiting"
    /\ agent' = [agent EXCEPT ![a] = NoAgent]
    /\ Goto(a, "rewait")
    /\ UNCHANGED <<row, picked, route, state, listening, events, cached, step, offered, misses>>

\* SetState(wait_agent), and the loop condition: the member is still there or not.
Rewait(a) ==
    /\ pc[a] = "rewait"
    /\ state' = [state EXCEPT ![a] = "wait_agent"]
    /\ offered' = [offered EXCEPT ![a] = NoAgent]
    /\ Goto(a, "select") \/ Goto(a, "end")
    /\ UNCHANGED <<row, picked, route, agent, listening, events, cached, step, misses>>

\* max_wait_time, a cancelled attempt or context, or the member hung up.
StopWaiting(a) ==
    /\ pc[a] = "select"
    /\ Goto(a, "end")
    /\ UNCHANGED <<row, picked, route, memory, step, offered, misses>>

\* The conversation ended: Reporting.  Nobody answered: Abandoned.
EndAttempt(a) ==
    /\ pc[a] \in {"talk", "end"}
    /\ row' = [row EXCEPT ![a].state = "leaving"]
    /\ Goto(a, "leave")
    /\ UNCHANGED <<picked, route, memory, step, offered, misses>>

\* The statement of Abandoned fails: it is logged, and the attempt leaves.
EndError(a) ==
    /\ a \in Failing
    /\ pc[a] = "end"
    /\ Goto(a, "leave")
    /\ UNCHANGED <<row, picked, route, memory, step, offered, misses>>

\* LeavingMember and Off("*").
LeavingMember(a) ==
    /\ pc[a] = "leave"
    /\ state' = [state EXCEPT ![a] = "leaving"]
    /\ cached' = [cached EXCEPT ![a] = FALSE]
    /\ listening' = [listening EXCEPT ![a] = FALSE]
    /\ events' = [events EXCEPT ![a] = 0]
    /\ Goto(a, "left")
    /\ UNCHANGED <<row, picked, route, agent, step, offered, misses>>

-----------------------------------------------------------------------------
Dispatcher ==
    \/ ReservedForAttemptByNode
    \/ \E h \in picked : RouteAgentToAttempt(h) \/ RouteError(h)
    \/ DistributeAgentSet
    \/ DistributeAgentEmit

Run(a) ==
    \/ PreludeStep(a) \/ PreludeError(a)
    \/ TakeAgent(a) \/ TakeError(a)
    \/ Offering(a) \/ Bridged(a)
    \/ MissedCommit(a) \/ MissedError(a)
    \/ MissedAgent(a) \/ DropAgent(a) \/ Rewait(a)
    \/ StopWaiting(a)
    \/ EndAttempt(a) \/ EndError(a)
    \/ LeavingMember(a)

\* Every attempt has left, or its goroutine is gone, and the dispatcher has
\* nothing to route: the system waits for new attempts.
Quiet ==
    /\ route = Idle /\ picked = {}
    /\ \A a \in Attempts : pc[a] \in {"left", "dead", "panic"}
    /\ UNCHANGED vars

Next ==
    \/ \E a \in Attempts, g \in Agents : Assign(a, g)
    \/ Dispatcher
    \/ \E a \in Attempts : Run(a)
    \/ Quiet

Spec == Init /\ [][Next]_vars

\* The dispatcher polls every 400 ms and runs its list to the end; the run
\* goroutine is scheduled whenever it does not wait.  Nothing is assumed of
\* members, agents or the distribution.
Busy(a) ==
    \/ PreludeStep(a) \/ TakeAgent(a)
    \/ MissedAgent(a) \/ DropAgent(a) \/ Rewait(a)
    \/ EndAttempt(a) \/ LeavingMember(a)

FairSpec ==
    /\ Spec
    /\ WF_vars(Dispatcher)
    /\ \A a \in Attempts : WF_vars(Busy(a))

-----------------------------------------------------------------------------
\* A handoff of attempt a is on its way from the row to the run goroutine.
Picked(a)  == \E h \in picked : h.attempt = a
Routing(a) == route # Idle /\ route.attempt = a

\* The row says the agent is being offered the attempt, but no handoff is on
\* its way and the run goroutine is waiting for one: the agent rings nowhere.
Stranded(a) ==
    /\ row[a].state = "active"
    /\ ~Picked(a) /\ ~Routing(a) /\ events[a] = 0
    /\ pc[a] \in {"prelude", "select"}

\* An agent is booked on at most one live attempt: cc_distribute, the
\* predictive answer that keeps its reserved agent, and the return of missed
\* attempts never leave one agent on two rows.
OneLiveRowPerAgent ==
    \A a, b \in Attempts :
        (/\ row[a].state \in Live /\ row[b].state \in Live
         /\ row[a].agent = row[b].agent /\ row[a].agent # NoAgent) => a = b

\* A row flipped to 'active' is handed over once: between the dispatcher's
\* list, DistributeAgent and the emitter there is never a second handoff for
\* the same attempt, so that a later agent cannot overtake an earlier one.
OneHandoff ==
    \A a \in Attempts :
        /\ events[a] <= 1
        /\ ~(Picked(a) /\ Routing(a))
        /\ (Picked(a) \/ Routing(a)) => events[a] = 0

\* The agent the run goroutine rings or talks to is the agent the row books:
\* Attempt.agent, which run reads instead of the event's argument, has not
\* been overwritten since.
RingsBookedAgent ==
    \A a \in Attempts : pc[a] \in {"offer", "talk"} => row[a].agent = offered[a]

\* The attempts the comment of call_predict.go:328-340 speaks of: predictive,
\* and every statement of theirs succeeds.
Reliable == {a \in Attempts \ Failing : Kind[a] = "predict"}

\* The first agent reserved for such an attempt is never lost between the row
\* and the run goroutine, whatever the attempts of the other queues do.
PredictAgentNotLost == \A a \in Reliable : misses[a] = 0 => ~Stranded(a)

\* The same of every attempt whose statements succeed.
FirstAgentNotLost == \A a \in Attempts \ Failing : misses[a] = 0 => ~Stranded(a)

\* run never dereferences a nil agent on the first offer.
FirstAgentKnown == \A a \in Attempts : misses[a] = 0 => pc[a] # "panic"

\* The first agent reserved for a predictive attempt is rung, or the attempt
\* ends: its row does not stay 'active'.
FirstAgentOffered ==
    \A a \in Reliable :
        (row[a].state = "active" /\ misses[a] = 0)
            ~> (row[a].state # "active" \/ pc[a] \in {"offer", "end"})

=============================================================================
