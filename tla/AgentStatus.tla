------------------------------- MODULE AgentStatus -------------------------------
(***************************************************************************)
(* The status of an agent: online, on pause, offline, or broken out after  *)
(* too many missed offers.  It is changed by the agent's desktop           *)
(* (app/agent.go), by the team when offers are missed (team.go) and by the *)
(* watcher that logs out agents without a connection (agent_manager.go).   *)
(* Each of them changes the database, then the cached agent, then tells    *)
(* the desktop and starts the team's hook, and they may overlap.           *)
(* The distribution books, rings and frees the same agents: it is modelled *)
(* in AgentDistribution, and here only by what it does to one agent's row  *)
(* and channel.                                                            *)
(***************************************************************************)
EXTENDS Naturals, FiniteSets

CONSTANTS
    Agents,       \* agents of one team
    Requests,     \* concurrent calls of the desktops
    Watcher,      \* the goroutine of changeDeadlineState
    MaxNoAnswer,  \* missed offers in a row until break_out
    MinOnline,    \* values of min_online_agents of the agents' queue
    Faults        \* a message to the broker may be lost

ASSUME ActorsAssumption == Watcher \notin Requests /\ IsFiniteSet(Agents) /\ IsFiniteSet(Requests)
ASSUME NumbersAssumption == MaxNoAnswer \in Nat \ {0} /\ MinOnline \subseteq Nat
ASSUME FaultsAssumption == Faults \in BOOLEAN

VARIABLES
    agent,   \* row of cc_agent: status, and the online flag of its channels
    chan,    \* row of cc_agent_channel: state, timeout set, no_answers
    row,     \* the attempt that has the agent
    sock,    \* the agent has a connection (sip, web or push)
    known,   \* who has the status: the cached agent, the desktop, the team's hook
    call,    \* the calls in progress
    gone,    \* what the watcher has still to log out
    apart    \* the last change of status overlapped with no other and took effect

data == <<agent, chan, row, sock>>
vars == <<data, known, call, gone, apart>>

Statuses   == {"online", "offline", "pause", "break_out"}
AgentRow   == [status : Statuses, online : BOOLEAN]
RowStates  == {"none", "wait_agent", "active", "offering", "bridged", "leaving"}
ChanStates == {"waiting", "offering", "bridged", "missed", "wrap_time"}
AgentChannel == [state : ChanStates, timeout : BOOLEAN, missed : 0..MaxNoAnswer]
Views      == {"cache", "desktop", "hook"}
Procs      == Requests \cup {Watcher} \cup {<<"attempt", g>> : g \in Agents}
NoCall     == [pc |-> "idle"]
Begun      == [pc : {"check", "cut", "set", "store", "publish"}, kind : Statuses \cup {"auto"},
               agent : Agents]

TypeOK ==
    /\ agent \in [Agents -> AgentRow]
    /\ chan \in [Agents -> AgentChannel]
    /\ row \in [Agents -> [state : RowStates, direct : BOOLEAN, cut : BOOLEAN]]
    /\ sock \in [Agents -> BOOLEAN]
    /\ known \in [Agents -> SUBSET Views]
    /\ call \in [Procs -> Begun \cup {NoCall}]
    /\ gone \subseteq Agents
    /\ apart \in [Agents -> BOOLEAN]

NoRow == [state |-> "none", direct |-> FALSE, cut |-> FALSE]

\* Agents start offline and unbooked.
Init ==
    /\ agent = [g \in Agents |-> [status |-> "offline", online |-> FALSE]]
    /\ chan = [g \in Agents |-> [state |-> "waiting", timeout |-> FALSE, missed |-> 0]]
    /\ row = [g \in Agents |-> NoRow]
    /\ sock \in [Agents -> BOOLEAN]
    /\ known = [g \in Agents |-> Views]
    /\ call = [p \in Procs |-> NoCall]
    /\ gone = {}
    /\ apart = [g \in Agents |-> TRUE]

-----------------------------------------------------------------------------
\* Statements.

\* cc_set_agent_online: the channels go online, those without an attempt become
\* free.
SetOnlineAtomic(g) ==
    /\ agent' = [agent EXCEPT ![g].status = "online", ![g].online = TRUE]
    /\ chan' = [chan EXCEPT ![g] =
                   [state |-> IF row[g].state = "none" THEN "waiting" ELSE @.state,
                    timeout |-> IF row[g].state = "none" THEN FALSE ELSE @.timeout,
                    missed |-> 0]]

\* Mutant: an agent who has been booked may leave.
MutSetStatus(g, s) ==
    agent' = [agent EXCEPT ![g].status = s, ![g].online = FALSE]

\* Mutant: the channels stay open.
MutSetStatusChannels(g, s) ==
    agent' = IF row[g].state = "wait_agent" THEN agent ELSE [agent EXCEPT ![g].status = s]

\* SqlAgentStore.SetStatus: changes nothing if the agent has just been booked,
\* and reports no error then.
SetStatus(g, s) ==
    agent' = IF row[g].state = "wait_agent" THEN agent
             ELSE [agent EXCEPT ![g].status = s, ![g].online = FALSE]

\* SqlAgentStore.CheckAllowPause, with the minimum of the queue.
CheckAllowPause(g, min) ==
    LET on == {x \in Agents : agent[x].status = "online" \/ (x = g /\ agent[x].status = "offline")}
    IN  ~(min > 0 /\ g \in on /\ Cardinality(on) <= min)

\* SqlAgentStore.GetNoAnswerChannels and hangupNoAnswerChannels: the offers that
\* ring are hung up, or their attempt is cancelled.
HangupNoAnswer(g) ==
    row' = [row EXCEPT ![g].cut = @ \/ row[g].state = "offering"]

\* Mutant: agents in break_out are not looked at.
MutOnlineWithOutActive == {g \in Agents : agent[g].status = "online" /\ ~sock[g]}

\* SqlAgentStore.OnlineWithOutActive.
OnlineWithOutActive == {g \in Agents : agent[g].status \in {"online", "break_out"} /\ ~sock[g]}

-----------------------------------------------------------------------------
\* The calls.

Busy(g, p) == \E q \in Procs \ {p} : call[q] # NoCall /\ call[q].agent = g
\* The views v of agent g are given the status s.
Show(g, s, v) ==
    known' = [known EXCEPT ![g] = IF s = agent[g].status THEN @ \cup v ELSE @ \ v]

Target(k)  == IF k = "auto" THEN "offline" ELSE k
Step(p, l) == call' = [call EXCEPT ![p].pc = l]
Return(p)  == call' = [call EXCEPT ![p] = NoCall]

Begin(p, g, k, l) == call' = [call EXCEPT ![p] = [pc |-> l, kind |-> k, agent |-> g]]

\* AgentGoOnline: needs a connection, and is refused if the agent is online
\* already with the same settings.  PutAgentCache follows.
AgentGoOnline(r, g) ==
    /\ call[r] = NoCall
    /\ sock[g]
    /\ SetOnlineAtomic(g)
    /\ Begin(r, g, "online", "store")
    /\ apart' = [apart EXCEPT ![g] = ~Busy(g, r)]
    /\ known' = [known EXCEPT ![g] = {}]
    /\ UNCHANGED <<row, sock, gone>>

\* SetAgentLogout: reads the agent.
SetAgentLogout(r, g) ==
    /\ call[r] = NoCall
    /\ agent[g].status # "offline"
    /\ Begin(r, g, "offline", "cut")
    /\ apart' = [apart EXCEPT ![g] = @ /\ ~Busy(g, r)]
    /\ UNCHANGED <<data, known, gone>>

\* SetAgentPause: reads the agent; a pause may only be changed for another reason.
SetAgentPause(r, g) ==
    /\ call[r] = NoCall
    /\ Begin(r, g, "pause", "check")
    /\ apart' = [apart EXCEPT ![g] = @ /\ ~Busy(g, r)]
    /\ UNCHANGED <<data, known, gone>>

PauseCheck(r) ==
    /\ call[r].pc = "check"
    /\ \E min \in MinOnline :
          IF CheckAllowPause(call[r].agent, min) THEN Step(r, "cut") ELSE Return(r)
    /\ UNCHANGED <<data, known, gone, apart>>

\* A logout hangs up the offers of progressive queues only: whether this one is.
\* GetAgent follows.
HangupNoAnswerChannels(r) ==
    /\ call[r].pc = "cut"
    /\ \/ HangupNoAnswer(call[r].agent)
       \/ call[r].kind = "offline" /\ UNCHANGED row
    /\ Step(r, "set")
    /\ UNCHANGED <<agent, chan, sock, known, gone, apart>>

\* setAgentStatus; a failed statement ends the call.
setAgentStatus(p, s) ==
    /\ call[p].pc = "set"
    /\ LET g == call[p].agent
       IN  \/ /\ SetStatus(g, s)
              /\ apart' = [apart EXCEPT ![g] = ~Busy(g, p) /\ row[g].state # "wait_agent"]
              /\ known' = [known EXCEPT ![g] = {}]
              /\ Step(p, "store")
           \/ Faults /\ Return(p) /\ UNCHANGED <<agent, apart, known>>
    /\ UNCHANGED <<chan, row, sock, gone>>

SetOffline(p)  == call[p] # NoCall /\ Target(call[p].kind) = "offline" /\ setAgentStatus(p, "offline")
SetPause(p)    == call[p] # NoCall /\ call[p].kind = "pause" /\ setAgentStatus(p, "pause")
SetBreakOut(p) == call[p] # NoCall /\ call[p].kind = "break_out" /\ setAgentStatus(p, "break_out")

StoreStatus(p) ==
    /\ call[p].pc = "store"
    /\ Show(call[p].agent, Target(call[p].kind), {"cache"})
    /\ Step(p, "publish")
    /\ UNCHANGED <<data, gone, apart>>

\* The flow gets the status of the cached agent.
HookAgent(g) == IF "cache" \in known[g] THEN {"hook"} ELSE {}

\* Mutant: an automatic logout is not published.
MutAgentChangeStatus(p) ==
    /\ call[p].pc = "publish"
    /\ LET k == call[p].kind
           g == call[p].agent
       IN  Show(g, Target(k), HookAgent(g) \cup (IF k = "auto" THEN {} ELSE {"desktop"}))
    /\ Return(p)
    /\ UNCHANGED <<data, gone, apart>>

\* AgentChangeStatus tells the desktop, and AgentTeamHook starts the team's flow.
\* If the event fails, a login goes on, and the other calls return without a hook.
AgentChangeStatus(p) ==
    /\ call[p].pc = "publish"
    /\ LET k == call[p].kind
           g == call[p].agent
       IN  \/ Show(g, Target(k), {"desktop"} \cup HookAgent(g)) /\ UNCHANGED apart
           \/ /\ Faults
              /\ Show(g, Target(k), IF k = "online" THEN HookAgent(g) ELSE {})
              /\ apart' = [apart EXCEPT ![g] = FALSE]
    /\ Return(p)
    /\ UNCHANGED <<data, gone>>

\* changeDeadlineState: lists the agents, then logs them out one by one.
ListGone ==
    /\ gone = {} /\ call[Watcher] = NoCall
    /\ OnlineWithOutActive # {}
    /\ gone' = OnlineWithOutActive
    /\ UNCHANGED <<data, known, call, apart>>

LogoutGone(g) ==
    /\ g \in gone /\ call[Watcher] = NoCall
    /\ Begin(Watcher, g, "auto", "set")
    /\ gone' = gone \ {g}
    /\ apart' = [apart EXCEPT ![g] = @ /\ ~Busy(g, Watcher)]
    /\ UNCHANGED <<data, known>>

-----------------------------------------------------------------------------
\* The distribution and the attempts.

SetRow(g, s)  == row' = [row EXCEPT ![g].state = s]
Free(g)       == row' = [row EXCEPT ![g] = NoRow]

\* cc_distribute, and cc_distribute_inbound_call_to_agent.
Book(g) ==
    /\ row[g].state = "none"
    /\ agent[g].status = "online" /\ agent[g].online /\ chan[g].state = "waiting"
    /\ SetRow(g, "wait_agent")
    /\ UNCHANGED <<agent, chan, sock, known, call, gone, apart>>

\* ReservedForAttemptByNode and routeAgentToAttempt.
Handoff(g) ==
    /\ row[g].state = "wait_agent"
    /\ SetRow(g, "active")
    /\ UNCHANGED <<agent, chan, sock, known, call, gone, apart>>

\* DistributeTaskToAgent: asks neither for the status nor for the channel.
DirectTask(g) ==
    /\ row[g].state = "none"
    /\ row' = [row EXCEPT ![g] = [state |-> "active", direct |-> TRUE, cut |-> FALSE]]
    /\ UNCHANGED <<agent, chan, sock, known, call, gone, apart>>

\* Mutant: the channel takes the state the attempt has in memory.
MutOffering(g) ==
    /\ row[g].state = "active"
    /\ SetRow(g, "offering")
    /\ chan' = [chan EXCEPT ![g].state = row[g].state]
    /\ UNCHANGED <<agent, sock, known, call, gone, apart>>

\* cc_attempt_offering keeps the channel's timeout.
Offering(g) ==
    /\ row[g].state = "active"
    /\ SetRow(g, "offering")
    /\ chan' = [chan EXCEPT ![g].state = "offering"]
    /\ UNCHANGED <<agent, sock, known, call, gone, apart>>

Bridged(g) ==
    /\ row[g].state = "offering" /\ ~row[g].cut
    /\ SetRow(g, "bridged")
    /\ chan' = [chan EXCEPT ![g].state = "bridged", ![g].missed = 0]
    /\ UNCHANGED <<agent, sock, known, call, gone, apart>>

\* MissedAgent: the last miss allowed sends the agent into break_out, whatever
\* the status is by now.  One break-out of an agent at a time.
Missed(g) ==
    LET p == <<"attempt", g>>
        n == IF chan[g].missed < MaxNoAnswer THEN chan[g].missed + 1 ELSE MaxNoAnswer
    IN  /\ row[g].state \in {"active", "offering"}
        /\ call[p] = NoCall
        /\ chan' = [chan EXCEPT ![g] = [state |-> "missed", timeout |-> TRUE, missed |-> n]]
        /\ Free(g)
        /\ IF n >= MaxNoAnswer
           THEN /\ Begin(p, g, "break_out", "set")
                /\ apart' = [apart EXCEPT ![g] = @ /\ ~Busy(g, p)]
           ELSE UNCHANGED <<call, apart>>
        /\ UNCHANGED <<agent, sock, known, gone>>

\* WaitingAgentAndWaitingAttempt: the agent was not at fault.
NotNeeded(g) ==
    /\ row[g].state \in {"active", "offering"}
    /\ Free(g)
    /\ chan' = [chan EXCEPT ![g] = [state |-> "waiting", timeout |-> FALSE, missed |-> 0]]
    /\ UNCHANGED <<agent, sock, known, call, gone, apart>>

\* SetAttemptResult, with or without wrap-up time.
Ended(g) ==
    /\ row[g].state = "bridged"
    /\ SetRow(g, "leaving")
    /\ \E wrap \in BOOLEAN :
          chan' = [chan EXCEPT ![g] = [state |-> IF wrap THEN "wrap_time" ELSE "waiting",
                                       timeout |-> wrap, missed |-> 0]]
    /\ UNCHANGED <<agent, sock, known, call, gone, apart>>

SaveToHistory(g) ==
    /\ row[g].state = "leaving"
    /\ Free(g)
    /\ UNCHANGED <<agent, chan, sock, known, call, gone, apart>>

\* Mutant: the desktop may free the channel at any time.
MutWaitingChannel(g) ==
    /\ chan[g].state # "waiting"
    /\ chan' = [chan EXCEPT ![g].state = "waiting", ![g].timeout = FALSE]
    /\ UNCHANGED <<agent, row, sock, known, call, gone, apart>>

\* WaitingAgentChannel: cc_agent_set_channel_waiting fails while the agent has an
\* attempt that is not over.
WaitingChannel(g) ==
    /\ row[g].state \in {"none", "leaving"}
    /\ chan[g].state \in {"wrap_time", "missed"}
    /\ chan' = [chan EXCEPT ![g].state = "waiting", ![g].timeout = FALSE]
    /\ UNCHANGED <<agent, row, sock, known, call, gone, apart>>

\* GetChannelTimeout, called by the dispatcher: whatever the channel's state is.
ChannelTimeout(g) ==
    /\ chan[g].timeout
    /\ chan' = [chan EXCEPT ![g].state = "waiting", ![g].timeout = FALSE]
    /\ UNCHANGED <<agent, row, sock, known, call, gone, apart>>

-----------------------------------------------------------------------------
\* The surroundings: connections come and go.

Socket(g) ==
    /\ sock' = [sock EXCEPT ![g] = ~@]
    /\ UNCHANGED <<agent, chan, row, known, call, gone, apart>>

Continue(p) ==
    \/ SetOffline(p) \/ SetPause(p) \/ SetBreakOut(p)
    \/ StoreStatus(p) \/ AgentChangeStatus(p)

Request(r) ==
    \/ \E g \in Agents : AgentGoOnline(r, g) \/ SetAgentLogout(r, g) \/ SetAgentPause(r, g)
    \/ PauseCheck(r) \/ HangupNoAnswerChannels(r)

Distribution(g) ==
    \/ Book(g) \/ Handoff(g) \/ DirectTask(g) \/ Offering(g) \/ Bridged(g) \/ Missed(g)
    \/ NotNeeded(g) \/ Ended(g) \/ SaveToHistory(g) \/ WaitingChannel(g) \/ ChannelTimeout(g)

Next ==
    \/ \E r \in Requests : Request(r)
    \/ ListGone
    \/ \E p \in Procs : Continue(p)
    \/ \E g \in Agents : LogoutGone(g) \/ Distribution(g) \/ Socket(g)

Spec == Init /\ [][Next]_vars

\* The watcher runs for ever, a goroutine that waits for nobody goes on, and the
\* watcher's statement does not fail for ever.
FairSpec ==
    /\ Spec
    /\ WF_vars(ListGone)
    /\ \A g \in Agents : WF_vars(LogoutGone(g))
    /\ \A p \in Procs : WF_vars(Continue(p))
    /\ SF_vars(SetOffline(Watcher) /\ call'[Watcher] # NoCall)

-----------------------------------------------------------------------------
\* Properties.

\* An agent the distribution has just booked is online, and so are the
\* channels: nobody takes the agent away until the booking is handed over.
BookedIsOnline ==
    \A g \in Agents : row[g].state = "wait_agent" => agent[g].status = "online" /\ agent[g].online

\* The channels are open for the distribution exactly while the agent is online.
ChannelsFollowStatus == \A g \in Agents : agent[g].online <=> agent[g].status = "online"

\* The channel of an agent who is rung or talks shows it, so the agent is not
\* booked again, whatever logins, time-outs and the desktop do meanwhile.  A task
\* sent to the agent directly is excepted: it may begin during a wrap-up, and the
\* wrap-up's timeout frees the channel.
BusyIsNotFree ==
    \A g \in Agents :
        row[g].state \in {"offering", "bridged"} /\ ~row[g].direct => chan[g].state = row[g].state

\* When nothing is in progress, the desktop, the cached agent and the team's hook
\* have the agent's status, unless two changes overlapped, a message was lost, or
\* the agent had been booked when the status should have changed.
ViewsAgree ==
    \A g \in Agents :
        apart[g] /\ (\A p \in Procs : call[p] = NoCall \/ call[p].agent # g)
            => known[g] = Views

\* An agent who has lost the connection for good and is no longer booked is
\* logged out, also from break_out, and as often as a missed task brings the
\* agent back to it.
GoneGoesOffline ==
    \A g \in Agents :
        <>[](~sock[g] /\ row[g].state # "wait_agent")
            => []<>(agent[g].status \in {"offline", "pause"})
=============================================================================
