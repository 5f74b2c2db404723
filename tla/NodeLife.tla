----------------------------- MODULE NodeLife ------------------------------
(***************************************************************************)
(* A node from its start to its end: app.New and Shutdown, the engine that *)
(* reserves members, the dispatcher that takes the reserved rows, and the  *)
(* loop of the queue manager that receives the attempts over an unbuffered *)
(* channel.  Nodes share the rows of cc_member_attempt.  What an attempt   *)
(* does once it is distributed is the subject of other modules.            *)
(***************************************************************************)
EXTENDS Naturals, FiniteSets

CONSTANTS
    Nodes,
    Rows,       \* attempts
    MaxEnds     \* bound on the shutdowns, crashes and lost switches of all nodes

ASSUME NodeLifeAssumption ==
    IsFiniteSet(Nodes) /\ IsFiniteSet(Rows) /\ MaxEnds \in Nat /\ "none" \notin Nodes \cup Rows

VARIABLES
    attempt,   \* [Rows -> [state, node]], cc_member_attempt
    ready,     \* App.IsReady: the node has a connection to a switch
    app,       \* where the main goroutine is
    engine,    \* the engine's watcher runs
    dispatch,  \* where the dispatcher's watcher is
    taken,     \* rows routeIdleAttempts has still to create and send
    input,     \* the attempt offered to Manager.input
    loop,      \* the goroutine of Manager.Start runs; it closes input at its end
    cache,     \* membersCache, and the wait group that counts it
    reserved,  \* rows reserved by the process that runs now
    kept,      \* rows UnReserveMembers failed to release
    clash,     \* CreateAttemptIfNotExists has found the attempt in the cache
    ends

nodeVars == <<attempt, ready, app, engine, dispatch, taken, input, loop, cache,
              reserved, kept, clash, ends>>

Nobody == "none"

NodeInit ==
    /\ attempt = [a \in Rows |-> [state |-> "none", node |-> Nobody]]
    /\ ready = [n \in Nodes |-> FALSE] /\ app = [n \in Nodes |-> "down"]
    /\ engine = [n \in Nodes |-> FALSE] /\ dispatch = [n \in Nodes |-> "off"]
    /\ taken = [n \in Nodes |-> {}] /\ input = [n \in Nodes |-> Nobody]
    /\ loop = [n \in Nodes |-> FALSE] /\ cache = [n \in Nodes |-> {}]
    /\ reserved = [n \in Nodes |-> {}] /\ kept = {} /\ clash = FALSE /\ ends = 0

At(f, n, v) == [f EXCEPT ![n] = v]

\* The process is gone, and its memory.
ProcessEnds(n) ==
    /\ ready' = At(ready, n, FALSE) /\ app' = At(app, n, "down")
    /\ engine' = At(engine, n, FALSE) /\ dispatch' = At(dispatch, n, "off")
    /\ taken' = At(taken, n, {}) /\ input' = At(input, n, Nobody)
    /\ loop' = At(loop, n, FALSE) /\ cache' = At(cache, n, {})
    /\ reserved' = At(reserved, n, {})

----------------------------------------------------------------------------
(* The statements. *)

ReserveMembersByNode(n, a) ==
    attempt' = [attempt EXCEPT ![a] = [state |-> "idle", node |-> n]]

\* Idle rows of the node, and only these, are left.
UnReserveMembersByNode(n) == [a \in Rows |->
    IF attempt[a] = [state |-> "idle", node |-> n] THEN [attempt[a] EXCEPT !.state = "over"]
    ELSE attempt[a]]

\* cc_set_active_members takes the idle rows of all nodes.  The forms that take those
\* of this node only, and this node's rows in any state:
MutOwnMembers(n) == {a \in Rows : attempt[a] = [state |-> "idle", node |-> n]}

MutAnyMembers(n) == {a \in Rows : attempt[a].state = "idle" \/ attempt[a] = [state |-> "live", node |-> n]}

ActiveMembers(n) == {a \in Rows : attempt[a].state = "idle"}

\* The taken rows become the node's; those whose member is gone are cancelled.  The
\* form that leaves the state alone:
MutGetActiveMembersAttempt(n, gone) == [a \in Rows |->
    IF a \notin ActiveMembers(n) THEN attempt[a]
    ELSE [attempt[a] EXCEPT !.state = IF a \in gone THEN "over" ELSE @]]

GetActiveMembersAttempt(n, gone) == [a \in Rows |->
    IF a \notin ActiveMembers(n) THEN attempt[a]
    ELSE [state |-> IF a \in gone THEN "over" ELSE "live", node |-> n]]

\* UnReserveMembers, at the start and at the end of the engine, logs an error.
UnReserveMembers(n) ==
    \/ attempt' = UnReserveMembersByNode(n) /\ UNCHANGED kept
    \/ /\ kept' = kept \cup {a \in Rows : attempt[a] = [state |-> "idle", node |-> n]}
       /\ UNCHANGED attempt

----------------------------------------------------------------------------
(* The start. *)

\* EngineImp.Start.  The form without the clean-up, and the whole one:
MutEngineStart(n) ==
    /\ app[n] = "down" /\ app' = At(app, n, "engine") /\ engine' = At(engine, n, TRUE)
    /\ UNCHANGED <<attempt, kept, ready, dispatch, taken, input, loop, cache, reserved, clash, ends>>

EngineStart(n) ==
    /\ app[n] = "down" /\ UnReserveMembers(n)
    /\ app' = At(app, n, "engine") /\ engine' = At(engine, n, TRUE)
    /\ UNCHANGED <<ready, dispatch, taken, input, loop, cache, reserved, clash, ends>>

\* DialingImpl.Start: the watcher and the loop of the manager.
DialingStart(n) ==
    /\ app[n] = "engine" /\ app' = At(app, n, "up")
    /\ dispatch' = At(dispatch, n, "wait") /\ loop' = At(loop, n, TRUE)
    /\ UNCHANGED <<attempt, ready, engine, taken, input, cache, reserved, kept, clash, ends>>

\* Connections to the switches come and go.
Connected(n) ==
    /\ app[n] # "down" /\ ~ready[n] /\ ready' = At(ready, n, TRUE)
    /\ UNCHANGED <<attempt, app, engine, dispatch, taken, input, loop, cache, reserved, kept, clash, ends>>

Disconnected(n) ==
    /\ ready[n] /\ ready' = At(ready, n, FALSE)
    /\ ends < MaxEnds /\ ends' = ends + 1
    /\ UNCHANGED <<attempt, app, engine, dispatch, taken, input, loop, cache, reserved, kept, clash>>

----------------------------------------------------------------------------
(* The engine, the dispatcher and the manager. *)

ReserveMembers(n, a) ==
    /\ engine[n] /\ ready[n] /\ attempt[a].state = "none"
    /\ ReserveMembersByNode(n, a)
    /\ reserved' = At(reserved, n, reserved[n] \cup {a})
    /\ UNCHANGED <<ready, app, engine, dispatch, taken, input, loop, cache, kept, clash, ends>>

\* routeIdleAttempts, up to the loop over the members; without idle rows it does
\* nothing.
RouteIdleAttempts(n) ==
    /\ dispatch[n] = "wait" /\ ready[n] /\ ActiveMembers(n) # {}
    /\ \E gone \in SUBSET ActiveMembers(n) :
          /\ attempt' = GetActiveMembersAttempt(n, gone)
          /\ taken' = At(taken, n, ActiveMembers(n) \ gone)
    /\ dispatch' = At(dispatch, n, "route")
    /\ UNCHANGED <<ready, app, engine, input, loop, cache, reserved, kept, clash, ends>>

\* CreateAttemptIfNotExists: an attempt that is in the cache is a panic.
CreateAttempt(n) ==
    /\ dispatch[n] = "route" /\ input[n] = Nobody
    /\ IF taken[n] = {}
       THEN /\ dispatch' = At(dispatch, n, "wait")
            /\ UNCHANGED <<taken, input, cache, clash>>
       ELSE \E a \in taken[n] :
              /\ taken' = At(taken, n, taken[n] \ {a}) /\ input' = At(input, n, a)
              /\ cache' = At(cache, n, cache[n] \cup {a})
              /\ clash' = (clash \/ a \in cache[n])
              /\ UNCHANGED dispatch
    /\ UNCHANGED <<attempt, ready, app, engine, loop, reserved, kept, ends>>

\* The loop receives: the attempt is distributed, or its queue cannot be loaded and
\* it stays in the cache, or the queue refuses it and it leaves.
Receive(n) ==
    /\ loop[n] /\ input[n] # Nobody
    /\ \/ UNCHANGED <<cache, attempt>>
       \/ /\ cache' = At(cache, n, cache[n] \ {input[n]})
          /\ attempt' = [attempt EXCEPT ![input[n]].state = "over"]
    /\ input' = At(input, n, Nobody)
    /\ UNCHANGED <<ready, app, engine, dispatch, taken, loop, reserved, kept, clash, ends>>

\* A send on the closed channel ends the process; on one that was not closed it
\* would block for ever:
MutSendPanics(n) == FALSE

SendPanics(n) ==
    /\ app[n] # "down" /\ ~loop[n] /\ input[n] # Nobody
    /\ ProcessEnds(n) /\ UNCHANGED <<attempt, kept, clash, ends>>

\* A distributed attempt ends, or a flow joins one: the gRPC server has no stop.
AttemptEnds(n, a) ==
    /\ a \in cache[n] /\ a # input[n]
    /\ cache' = At(cache, n, cache[n] \ {a})
    /\ attempt' = [attempt EXCEPT ![a].state = "over"]
    /\ UNCHANGED <<ready, app, engine, dispatch, taken, input, loop, reserved, kept, clash, ends>>

Join(n, a) ==
    /\ app[n] \notin {"down", "engine"} /\ attempt[a].state = "none"
    /\ attempt' = [attempt EXCEPT ![a] = [state |-> "live", node |-> n]]
    /\ cache' = At(cache, n, cache[n] \cup {a})
    /\ UNCHANGED <<ready, app, engine, dispatch, taken, input, loop, reserved, kept, clash, ends>>

----------------------------------------------------------------------------
(* Shutdown: EngineImp.Stop, then DialingImpl.Stop. *)

\* The engine's watcher is between two polls.
EngineStop(n) ==
    /\ app[n] = "up" /\ ends < MaxEnds /\ ends' = ends + 1
    /\ engine' = At(engine, n, FALSE) /\ app' = At(app, n, "unreserve")
    /\ UNCHANGED <<attempt, ready, dispatch, taken, input, loop, cache, reserved, kept, clash>>

EngineStopped(n) ==
    /\ app[n] = "unreserve" /\ UnReserveMembers(n) /\ app' = At(app, n, "drain")
    /\ UNCHANGED <<ready, engine, dispatch, taken, input, loop, cache, reserved, clash, ends>>

\* waitTimeout: the wait group is empty, or the time is over and closeAttempts
\* reports what is in the cache; a report may fail.
WaitTimeout(n) ==
    /\ app[n] = "drain"
    /\ \E failing \in SUBSET cache[n] :
          LET closed == cache[n] \ (failing \cup {input[n]})
          IN /\ cache' = At(cache, n, cache[n] \ closed)
             /\ attempt' = [a \in Rows |-> IF a \in closed THEN [attempt[a] EXCEPT !.state = "over"]
                                           ELSE attempt[a]]
    /\ app' = At(app, n, "signal")
    /\ UNCHANGED <<ready, engine, dispatch, taken, input, loop, reserved, kept, clash, ends>>

\* The loop sees the stop signal, closes input and returns.
LoopStops(n) ==
    /\ app[n] = "signal" /\ loop[n]
    /\ loop' = At(loop, n, FALSE) /\ app' = At(app, n, "dispatcher")
    /\ UNCHANGED <<attempt, ready, engine, dispatch, taken, input, cache, reserved, kept, clash, ends>>

\* The dispatcher's watcher stops between two polls, and the process ends.
DispatcherStops(n) ==
    /\ app[n] = "dispatcher" /\ dispatch[n] = "wait"
    /\ ProcessEnds(n) /\ UNCHANGED <<attempt, kept, clash, ends>>

Crash(n) ==
    /\ app[n] # "down" /\ ends < MaxEnds /\ ends' = ends + 1
    /\ ProcessEnds(n) /\ UNCHANGED <<attempt, kept, clash>>

MainStep(n) ==
    \/ DialingStart(n) \/ EngineStopped(n) \/ WaitTimeout(n) \/ LoopStops(n) \/ DispatcherStops(n)
DispatcherStep(n) == RouteIdleAttempts(n) \/ CreateAttempt(n) \/ SendPanics(n)

NodeNext ==
    \E n \in Nodes :
        \/ EngineStart(n) \/ MainStep(n) \/ DispatcherStep(n) \/ Receive(n)
        \/ Connected(n) \/ Disconnected(n) \/ EngineStop(n) \/ Crash(n)
        \/ \E a \in Rows : ReserveMembers(n, a) \/ AttemptEnds(n, a) \/ Join(n, a)

NodeSpec == NodeInit /\ [][NodeNext]_nodeVars

\* The goroutines of a node run, and a switch comes back.  Nobody need start a node.
NodeFairness ==
    \A n \in Nodes : /\ WF_nodeVars(MainStep(n)) /\ WF_nodeVars(DispatcherStep(n))
                     /\ WF_nodeVars(Receive(n)) /\ WF_nodeVars(Connected(n))

NodeTypeOK ==
    /\ attempt \in [Rows -> [state : {"none", "idle", "live", "over"}, node : Nodes \cup {Nobody}]]
    /\ ready \in [Nodes -> BOOLEAN] /\ engine \in [Nodes -> BOOLEAN] /\ loop \in [Nodes -> BOOLEAN]
    /\ app \in [Nodes -> {"down", "engine", "up", "unreserve", "drain", "signal", "dispatcher"}]
    /\ dispatch \in [Nodes -> {"off", "wait", "route"}]
    /\ taken \in [Nodes -> SUBSET Rows] /\ cache \in [Nodes -> SUBSET Rows]
    /\ reserved \in [Nodes -> SUBSET Rows] /\ input \in [Nodes -> Rows \cup {Nobody}]
    /\ kept \subseteq Rows /\ clash \in BOOLEAN /\ ends \in 0..MaxEnds

\* The panic in CreateAttemptIfNotExists is never reached: a row is taken by one
\* process once, whatever other nodes reserve, take, crash or restart.
NoDuplicateAttempt == ~clash

\* An idle row belongs to the process that reserved it, or that node is down: a
\* restart releases what the last process had reserved.  Excepted are rows whose
\* release failed.
ReservedByTheLiving ==
    \A a \in Rows \ kept : attempt[a].state = "idle" =>
        LET n == attempt[a].node IN a \in reserved[n] \/ app[n] = "down"

\* A row is held by one process at most, which has to create, send or run it.
HeldByOne ==
    \A m, n \in Nodes : m # n => (taken[m] \cup cache[m]) \cap (taken[n] \cup cache[n]) = {}

\* A reserved row does not stay idle: some dispatcher takes it, or it is released,
\* although nodes stop, crash and lose their switches, unless all of them are down.
IdleIsTaken ==
    \A a \in Rows : attempt[a].state = "idle" ~>
        attempt[a].state # "idle" \/ \A n \in Nodes : app[n] = "down"

\* Shutdown ends the process: the dispatcher, which Stop waits for, is not left
\* blocked on a channel nobody receives from (it panics instead).
ShutdownEnds == \A n \in Nodes : app[n] = "unreserve" ~> app[n] = "down"
============================================================================
