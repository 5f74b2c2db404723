------------------------------- MODULE BridgeQueue -------------------------------
(***************************************************************************)
(* The run goroutine of the queues that connect a member's call with an    *)
(* agent's: inbound (call_inbound.go), predictive (call_predict.go),       *)
(* progressive (call_progressive.go) and the direct distribution of a call *)
(* to an agent (call_agent.go).  kind says which of them runs.             *)
(*                                                                         *)
(* The goroutine waits for an agent, rings it, and connects the two legs;  *)
(* meanwhile the handlers of the switch's events change the legs and post  *)
(* their states.  The inner loop reads the posted states one by one, but   *)
(* its condition looks at the legs themselves: a leg that hangs up while a *)
(* state is handled ends the loop before its hangup is read.  One turn of  *)
(* the loop, with the statements of its handler, is one step; the handover *)
(* from the dispatcher in detail is AgentDistribution's, a report during   *)
(* the call AttemptReporting's, the leg CallLeg's.                         *)
(***************************************************************************)
EXTENDS QueueLeg, FiniteSets

CONSTANTS
    Kinds,        \* the queues of this instance
    Amd,          \* the queue detects answering machines
    AfterSchema,  \* answers of the after-schema
    Faults,       \* what may fail: commands to the switch, statements
    MaxAgents,    \* bound: agents handed over, and transfers of either leg
    MaxTransfers, \* bound: the transfers among them
    MaxRetry      \* maxRetryCount of the predictive queue

AllKinds == {"inbound", "predict", "progressive", "agent"}

ASSUME KindsAssumption == Kinds \subseteq AllKinds /\ Amd \in BOOLEAN
ASSUME SchemaAssumption == AfterSchema \subseteq SchemaReply
ASSUME FaultsAssumption == Faults \subseteq {"command", "statement"}
ASSUME BoundsAssumption == {MaxAgents, MaxTransfers, MaxRetry} \subseteq Nat

VARIABLES
    kind,      \* the queue of the attempt
    pc,        \* where the goroutine is
    back,      \* where it goes on when the member's leg it waits for has hung up
    t,         \* the attempt: see Team
    leg,       \* the member's and the agent's leg
    cur,       \* the goroutine's local variable agent
    offer,     \* an agent event waits in the channel ags
    timer,     \* the wait timer is armed
    canceled,  \* Attempt.Cancel() is closed
    stray,     \* agents whose leg the goroutine dropped while it was up
    count      \* offers, transfers and retries so far, and lastExec

vars == <<kind, pc, back, t, leg, cur, offer, timer, canceled, stray, count>>

M == leg["member"]
L == leg["agent"]

Commands   == IF "command" \in Faults THEN BOOLEAN ELSE {TRUE}
Statements == IF "statement" \in Faults THEN BOOLEAN ELSE {TRUE}

-----------------------------------------------------------------------------
Pcs == {"start", "dial", "park", "last", "answered", "wait", "callwait", "top", "select",
        "legwait", "after", "linger", "finish", "done"}

\* The buffer of a leg holds five states.
TypeOK ==
    /\ kind \in Kinds
    /\ {pc, back} \subseteq Pcs
    /\ t \in AttemptType
    /\ leg \in [{"member", "agent"} -> LegType]
    /\ \A s \in DOMAIN leg : Len(leg[s].q) <= 5
    /\ cur \in AnyAgent
    /\ {offer, timer, canceled} \subseteq BOOLEAN
    /\ stray \subseteq Agents
    /\ count \in [offers : 0..MaxAgents, moves : 0..MaxTransfers, tries : 1..MaxRetry, last : BOOLEAN]

\* DistributeAttempt of the four queues: the caller is already there in an
\* inbound queue and a direct distribution, the others dial; a progressive
\* attempt and a direct one come with their agent, a predictive one with an
\* agent reserved.
Init ==
    /\ kind \in Kinds
    /\ pc = "start"
    /\ back = "done"
    /\ \E g \in AnyAgent :
          /\ kind = "inbound" => g = NoAgent
          /\ kind \in {"progressive", "agent"} => g # NoAgent
          /\ t = NewAttempt(g)
          /\ cur = IF kind \in {"progressive", "agent"} THEN g ELSE NoAgent
    /\ leg = [member |-> IF kind \in {"inbound", "agent"}
                         THEN [ConnectedLeg(NoAgent, FALSE) EXCEPT !.wired = FALSE]
                         ELSE NoLeg,
              agent  |-> NoLeg]
    /\ offer = FALSE
    /\ timer = TRUE
    /\ canceled = FALSE
    /\ stray = {}
    /\ count = [offers |-> 0, moves |-> 0, tries |-> 1, last |-> FALSE]
-----------------------------------------------------------------------------
\* The switch and the handlers of its events.

loop == <<kind, pc, back, t, cur, offer, timer, canceled, stray, count>>

SetLeg(s, x) == leg' = [leg EXCEPT ![s] = x]

\* Mutant: the state is posted at every event.
MutLegRinging ==
    /\ L.up /\ ~L.rung
    /\ SetLeg("agent", Post(L, "ringing"))
    /\ UNCHANGED loop

\* Every event has a goroutine of its own: the order in which they are handled
\* is not the order of the events.
\* Ringing of a member's leg is ignored by the loops, and left out.
LegRinging ==
    /\ L.up /\ ~L.rung
    /\ SetLeg("agent", Post([L EXCEPT !.rung = TRUE], "ringing"))
    /\ UNCHANGED loop

LegActive(s) ==
    /\ leg[s].up /\ ~leg[s].acc
    /\ SetLeg(s, Post([leg[s] EXCEPT !.acc = TRUE], "accept"))
    /\ UNCHANGED loop

\* Both legs of a bridge get the event; the agent's leg counts as bridged
\* since the command.
LegBridge(s) ==
    /\ leg[s].up /\ leg[s].wired
    /\ SetLeg(s, Post([leg[s] EXCEPT !.wired = FALSE, !.brg = TRUE], "bridge"))
    /\ UNCHANGED loop

\* A leg ends by itself or as asked.  An agent who talks may transfer the call
\* to another agent or to a number, a caller of a queue to another attempt;
\* "from": the caller's leg was replaced by the one that transferred it.
LegHangup(s) ==
    /\ leg[s].up
    /\ \E c \in IF leg[s].asked = "" THEN {"normal", "missed"} ELSE {leg[s].asked},
          r \in {"", "agent", "number", "attempt", "from"} :
          /\ r \in {"agent", "number"} => s = "agent" /\ L.brg /\ M.up
          /\ r \in {"attempt", "from"} => s = "member" /\ M.brg /\ kind \in {"inbound", "agent"}
          /\ r # "" => /\ c = "normal" /\ leg[s].asked = "" /\ t.cached
                      /\ count.moves < MaxTransfers /\ count.offers + count.moves < MaxAgents
          /\ c = "missed" => ~leg[s].brg
          /\ SetLeg(s, SetHangup(leg[s], c, r))
          /\ count' = [count EXCEPT !.moves = IF r = "" THEN @ ELSE @ + 1]
    /\ UNCHANGED <<kind, pc, back, t, cur, offer, timer, canceled, stray>>

\* A leg the goroutine no longer looks at ends, too.
StrayHangup(g) ==
    /\ g \in stray
    /\ stray' = stray \ {g}
    /\ UNCHANGED <<kind, pc, back, t, leg, cur, offer, timer, canceled, count>>

\* What the legs do once the goroutine has ended is CallLeg's.
Switch ==
    /\ pc # "done"
    /\ \/ LegRinging
       \/ \E s \in {"member", "agent"} : LegActive(s) \/ LegBridge(s) \/ LegHangup(s)
       \/ \E g \in Agents : StrayHangup(g)

-----------------------------------------------------------------------------
\* Other parties.

\* The dispatcher hands over the agent the distribution booked.
DistributeAgent(g) ==
    /\ t.row = "wait_agent" /\ t.st = "wait_agent" /\ t.cached
    /\ t.rowAgent = g \/ (t.rowAgent = NoAgent /\ t.chan[g] = "waiting")
    /\ ~offer /\ count.offers + count.moves < MaxAgents
    /\ t' = [t EXCEPT !.row = "active", !.rowAgent = g, !.agent = g]
    /\ offer' = TRUE
    /\ count' = [count EXCEPT !.offers = @ + 1]
    /\ UNCHANGED <<kind, pc, back, leg, cur, timer, canceled, stray>>

\* GetChannelTimeout: the pause after a missed call, or the wrap-up, is over.
ChannelTimeout(g) ==
    /\ t.chan[g] \in {"missed", "wrap_time"}
    /\ t' = Tell([t EXCEPT !.chan[g] = "waiting"], g, "waiting")
    /\ UNCHANGED <<kind, pc, back, leg, cur, offer, timer, canceled, stray, count>>

\* Attempt.SetCancel: SetAttemptCancel, CancelAgentDistribute, a closed stream.
SetCancel ==
    /\ ~canceled /\ t.cached
    /\ canceled' = TRUE
    /\ UNCHANGED <<kind, pc, back, t, leg, cur, offer, timer, stray, count>>

\* Manager.ReportingAttempt by an agent who talks: the row ends, the leg is
\* hung up with the mark that there is a report, the attempt leaves.  A report
\* before the bridge of both legs is known is AttemptReporting's early one.
ReportingAttempt ==
    /\ t.row = "bridged" /\ t.cached /\ L.up /\ L.brg /\ L.rung /\ L.acc
    /\ \A s \in DOMAIN leg : ~leg[s].wired /\ (pc = "select" => leg[s].q = <<>>)
    /\ pc \in {"select", "park"}
    /\ t' = LeavingMember(Tell([SetAttemptResult(t, WrapUp) EXCEPT !.result = "success"],
                               t.rowAgent, "wrap_time"))
    /\ SetLeg("agent", [Hangup(L, "normal", TRUE) EXCEPT !.rep = TRUE])
    /\ UNCHANGED <<kind, pc, back, cur, offer, timer, canceled, stray, count>>

-----------------------------------------------------------------------------
\* From the start of the goroutine to the wait for an agent.

fixed == <<kind, canceled, stray>>

Goto(l) == pc' = l
Done(u) == t' = u /\ Goto("done")
Pop(s)  == [leg[s] EXCEPT !.q = Tail(@)]

\* The statement comes first; when it fails the goroutine just returns.
InboundStart ==
    /\ kind = "inbound" /\ pc = "start"
    /\ \E ok \in Statements :
          IF ok
          THEN /\ t' = SetState(SetAttemptFindAgent(t), "wait_agent")
               /\ Goto(IF M.up THEN "wait" ELSE "finish")
          ELSE Done(SetState(t, "joined"))
    /\ UNCHANGED <<fixed, back, leg, cur, offer, timer, count>>

\* A direct distribution rings its agent also when the caller has hung up.
AgentStart ==
    /\ kind = "agent" /\ pc = "start"
    /\ \E ok \in Statements :
          IF ok
          THEN /\ t' = Distribute(SetState(t, "joined"), cur)
               /\ SetLeg("agent", NewLeg(cur))
               /\ Goto("top")
          ELSE Done(SetState(t, "joined")) /\ UNCHANGED leg
    /\ UNCHANGED <<fixed, back, cur, offer, timer, count>>

\* DoDistributeSchema of the queues that dial.
DistributeSchema ==
    /\ kind \in {"predict", "progressive"} /\ pc = "start"
    /\ \/ Goto("dial") /\ UNCHANGED t
       \/ \E ok \in Statements : Done(DistributeCancelled(t, ok))
    /\ UNCHANGED <<fixed, back, leg, cur, offer, timer, count>>

\* cleanup: no slot at the resource, or no connection to a switch.
DialError ==
    /\ pc = "dial"
    /\ canceled \/ "command" \in Faults
    /\ \E ok \in Statements : Done(LeavingMember(SetAbandonedWithParams(t, ok)))
    /\ UNCHANGED <<fixed, back, leg, cur, offer, timer, count>>

\* A retry dials the member again.
PredictDial ==
    /\ kind = "predict" /\ pc = "dial"
    /\ SetLeg("member", NewLeg(NoAgent))
    /\ Goto("park")
    /\ UNCHANGED <<fixed, back, t, cur, offer, timer, count>>

ProgressiveDial ==
    /\ kind = "progressive" /\ pc = "dial"
    /\ ~canceled
    /\ t' = Distribute(t, cur)
    /\ SetLeg("member", NewLeg(NoAgent))
    /\ Goto("park")
    /\ UNCHANGED <<fixed, back, cur, offer, timer, count>>

\* WaitForHangup of the member's leg.
WaitForHangup ==
    /\ pc = "callwait" /\ ~M.up
    /\ Goto(back)
    /\ UNCHANGED <<fixed, back, t, leg, cur, offer, timer, count>>

\* The member's leg is hung up, and waited for.
CancelMember(to) ==
    /\ \E ok \in Commands : SetLeg("member", Hangup(M, "canceled", ok))
    /\ Goto("callwait")
    /\ back' = to

\* hasProcessAmd, with the detection taken together with the answer: a machine
\* is left to the switch.
HasProcessAmd == IF Amd THEN BOOLEAN ELSE {FALSE}

\* Mutant: the hangup of the member is not listened to.
MutPredictPark ==
    /\ kind = "predict" /\ pc = "park"
    /\ \/ /\ canceled
          /\ CancelMember("park")
       \/ /\ M.q # <<>>
          /\ SetLeg("member", Pop("member"))
          /\ Goto(IF Head(M.q) = "accept" THEN "answered" ELSE "park")
          /\ UNCHANGED back
    /\ UNCHANGED <<fixed, t, cur, offer, timer, count>>

\* A predictive call: when the member answers, an agent is looked for.
PredictPark ==
    /\ kind = "predict" /\ pc = "park"
    /\ \/ /\ canceled
          /\ CancelMember("park")
       \/ /\ M.q # <<>>
          /\ SetLeg("member", Pop("member"))
          /\ \E skip \in HasProcessAmd :
                Goto(IF Head(M.q) = "accept" /\ ~skip THEN "answered" ELSE "park")
          /\ UNCHANGED back
       \/ /\ ~M.up
          /\ Goto("last")
          /\ UNCHANGED <<back, leg>>
    /\ UNCHANGED <<fixed, t, cur, offer, timer, count>>

\* last_: the member did not answer.  The after-schema may ask for a retry over
\* another resource; without one it is asked once more, for the last time.
PredictLast ==
    /\ kind = "predict" /\ pc = "last"
    /\ \E sch \in AfterSchema, ok \in Statements, flip \in BOOLEAN :
          IF sch = "retry" /\ count.tries < MaxRetry /\ (flip \/ ~count.last)
          THEN /\ count' = [count EXCEPT !.tries = @ + 1, !.last = @ \/ ~flip]
               /\ Goto(IF flip THEN "dial" ELSE "last")
               /\ UNCHANGED t
          ELSE /\ Done(LeavingMember(IF sch = "success" THEN SetAttemptSuccess(t, ok)
                                     ELSE SetAbandonedWithParams(t, ok)))
               /\ UNCHANGED count
    /\ UNCHANGED <<fixed, back, leg, cur, offer, timer>>

\* The subscription and the state come before the statement; after an error the
\* goroutine returns.  The reserved agent may stay in the row.
PredictAnswered ==
    /\ kind = "predict" /\ pc = "answered"
    /\ \E ok \in Statements, keep \in BOOLEAN :
          IF ok
          THEN /\ t' = SetState(AnswerPredictAndFindAgent(t, keep /\ t.rowAgent # NoAgent), "wait_agent")
               /\ Goto(IF M.up THEN "wait" ELSE "linger")
          ELSE Done(SetState(t, "wait_agent"))
    /\ UNCHANGED <<fixed, back, leg, cur, offer, timer, count>>

-----------------------------------------------------------------------------
\* The wait for an agent.

\* The agent's leg is created and invited.
InviteAgent(g) ==
    /\ SetLeg("agent", NewLeg(g))
    /\ t' = Distribute(t, g)
    /\ cur' = g
    /\ Goto("top")

\* An agent event: without a team (an error) the attempt goes on waiting, after
\* the caller's hangup it ends.
InboundAgent ==
    /\ offer /\ offer' = FALSE
    /\ \/ /\ "statement" \in Faults
          /\ cur' = t.agent
          /\ UNCHANGED <<pc, t, leg>>
       \/ /\ ~M.up
          /\ cur' = t.agent
          /\ Goto("finish")
          /\ UNCHANGED <<t, leg>>
       \/ /\ M.up
          /\ InviteAgent(t.agent)

\* The caller's leg has no agent's leg here: an agent's leg that is not bridged
\* has been forgotten, and with one that is the loop ends.
InboundWait ==
    /\ kind = "inbound" /\ pc = "wait"
    /\ \/ /\ timer \/ canceled
          /\ Goto("finish")
          /\ UNCHANGED <<t, leg, cur, offer>>
       \/ /\ M.q # <<>>
          /\ SetLeg("member", Pop("member"))
          /\ Goto(IF Head(M.q) = "hangup" THEN "finish" ELSE "wait")
          /\ UNCHANGED <<t, cur, offer>>
       \/ InboundAgent
    /\ UNCHANGED <<fixed, back, timer, count>>

\* As in the inbound queue, but an error of the team makes the goroutine return.
PredictAgent ==
    /\ offer /\ offer' = FALSE
    /\ \/ /\ "statement" \in Faults
          /\ cur' = t.agent
          /\ Done(t) /\ UNCHANGED leg
       \/ /\ ~M.up
          /\ cur' = t.agent
          /\ Goto("linger")
          /\ UNCHANGED <<t, leg>>
       \/ /\ M.up
          /\ InviteAgent(t.agent)

\* A cancelled attempt hangs up and looks at the leg again, a late one ends.
PredictWait ==
    /\ kind = "predict" /\ pc = "wait"
    /\ \/ /\ canceled
          /\ CancelMember("wait")
          /\ UNCHANGED <<t, cur, offer, timer>>
       \/ /\ timer
          /\ CancelMember("linger")
          /\ UNCHANGED <<t, cur, offer, timer>>
       \/ /\ M.q # <<>>
          /\ SetLeg("member", Pop("member"))
          /\ Goto(IF Head(M.q) = "hangup" THEN "linger" ELSE "wait")
          /\ timer' = (timer /\ Head(M.q) # "bridge")
          /\ UNCHANGED <<back, t, cur, offer>>
       \/ PredictAgent /\ UNCHANGED <<back, timer>>
    /\ UNCHANGED <<fixed, count>>

\* The outer loop of the progressive queue.  A cancelled attempt hangs up again
\* and again until the leg is down; an answer confirms the agent, which may
\* be gone to another member of the same agent.
ProgressivePark ==
    /\ kind = "progressive" /\ pc = "park"
    /\ \/ /\ canceled /\ M.up
          /\ \E ok \in Commands : SetLeg("member", Hangup(M, "canceled", ok))
          /\ UNCHANGED <<pc, back>>
       \/ /\ M.q # <<>> /\ (Head(M.q) # "accept" \/ TRUE \in HasProcessAmd)
          /\ SetLeg("member", Pop("member"))
          /\ UNCHANGED <<pc, back>>
       \/ /\ M.q # <<>> /\ Head(M.q) = "accept"
          /\ \E ok \in Commands : SetLeg("member", Hangup(Pop("member"), "canceled", ok))
          /\ UNCHANGED <<pc, back>>
       \/ /\ M.q # <<>> /\ Head(M.q) = "accept"
          /\ leg' = [member |-> Pop("member"), agent |-> [NewLeg(cur) EXCEPT !.up = M.up]]
          /\ Goto(IF M.up THEN "top" ELSE "finish")
          /\ back' = "park"
       \/ /\ ~M.up
          /\ Goto("finish")
          /\ UNCHANGED <<back, leg>>
    /\ UNCHANGED <<fixed, t, cur, offer, timer, count>>

-----------------------------------------------------------------------------
\* The loop over the states of both legs.

\* Where the goroutine goes when the loop is left; the progressive queue's back
\* is "park" while its variable calling is true.
AfterTop ==
    CASE kind = "progressive" -> back
      [] kind = "agent"       -> "finish"
      [] OTHER                -> "after"

\* The loop condition looks at the legs, not at the states they posted.
Top ==
    /\ pc = "top"
    /\ Goto(IF L.up /\ M.up THEN "select" ELSE AfterTop)
    /\ UNCHANGED <<fixed, back, t, leg, cur, offer, timer, count>>

\* The next state of a leg.
Reads(s, c) == leg[s].q # <<>> /\ Head(leg[s].q) = c

\* agentCall: RINGING.
AgentRinging ==
    /\ Reads("agent", "ringing")
    /\ \E ok \in Statements : t' = Offering(t, cur, ok)
    /\ SetLeg("agent", Pop("agent"))
    /\ Goto("top")
    /\ UNCHANGED <<back, cur, timer>>

\* agentCall: ACCEPT, with CallImpl.Bridge; an error hangs the agent's leg up.
\* A queue joined by a call to the outside takes the answer for the bridge.
AgentAccept ==
    /\ Reads("agent", "accept")
    /\ \/ /\ L.up /\ M.up
          /\ leg' = [member |-> [M EXCEPT !.wired = ~M.brg],
                     agent  |-> [Pop("agent") EXCEPT !.brg = TRUE, !.wired = TRUE]]
          /\ \E ok \in Statements, outbound \in BOOLEAN :
                IF outbound /\ kind \in {"inbound", "agent"} /\ t.st # "bridged"
                THEN t' = Bridged(t, cur, ok) /\ timer' = FALSE
                ELSE UNCHANGED <<t, timer>>
          /\ UNCHANGED back
       \/ /\ ~(L.up /\ M.up) \/ "command" \in Faults
          /\ \E ok \in Commands : SetLeg("agent", Hangup(Pop("agent"), "canceled", ok))
          /\ back' = IF kind = "progressive" THEN "finish" ELSE back
          /\ UNCHANGED <<t, timer>>
    /\ Goto("top")
    /\ UNCHANGED cur

\* BRIDGE of a leg that makes the attempt bridged: the inbound queues take the
\* first of either leg, the others that of the member.
TeamBridged(s) ==
    /\ Reads(s, "bridge")
    /\ SetLeg(s, Pop(s))
    /\ \E ok \in Statements :
          IF IF kind \in {"inbound", "agent"} THEN t.st # "bridged" ELSE s = "member"
          THEN t' = Bridged(t, cur, ok) /\ timer' = FALSE
          ELSE UNCHANGED <<t, timer>>
    /\ Goto("top")
    /\ UNCHANGED <<back, cur>>

\* agentCall: HANGUP with a transfer to another agent, whose leg is found and
\* up.  When that agent is not found the old one stays.
AgentTransferred(to) ==
    /\ Reads("agent", "hangup") /\ L.tr = "agent"
    /\ \E g \in Agents \ {L.who}, found \in Statements, ok \in Statements, b \in BOOLEAN :
          /\ t' = IF found THEN TransferFrom(t, g, ok) ELSE t
          /\ cur' = IF found THEN g ELSE cur
          /\ SetLeg("agent", ConnectedLeg(g, b))
    /\ Goto(to)
    /\ UNCHANGED <<back, timer>>

\* agentCall: HANGUP without transfer, to a number, or to a leg that is not
\* found or down.
AgentGone ==
    /\ Reads("agent", "hangup")
    /\ L.tr # "agent" \/ "command" \in Faults
    /\ SetLeg("agent", Pop("agent"))
    /\ Goto(AfterTop)
    /\ UNCHANGED <<back, t, cur, timer>>

\* mCall: HANGUP, the agent's leg is hung up and waited for.
MemberGone ==
    /\ Reads("member", "hangup")
    /\ M.tr = "" \/ (M.tr = "from" /\ "command" \in Faults)
    /\ \E ok \in Commands :
          leg' = [member |-> Pop("member"),
                  agent  |-> Hangup(L, IF M.brg THEN "normal" ELSE "canceled", ok)]
    /\ Goto("legwait")
    /\ UNCHANGED <<back, t, cur, timer>>

\* WaitForHangup of the agent's leg.
LegWait ==
    /\ pc = "legwait" /\ ~L.up
    /\ Goto(AfterTop)
    /\ UNCHANGED <<fixed, back, t, leg, cur, offer, timer, count>>

\* transferResult: the caller goes on in another attempt, which ends this one,
\* or is replaced by another leg; otherwise, or when that leg is not found,
\* the hangup stands.
TransferResult ==
    /\ Reads("member", "hangup")
    /\ \/ /\ M.tr = "attempt"
          /\ \E ok \in Statements : Done(TransferTo(t, ok))
          /\ UNCHANGED leg
       \/ /\ M.tr = "from"
          /\ \E b \in BOOLEAN : SetLeg("member", ConnectedLeg(NoAgent, b))
          /\ Goto("top")
          /\ UNCHANGED t
    /\ UNCHANGED <<back, cur, timer>>

\* The inbound queue leaves the agent's leg alone when the caller, whom it had
\* called itself, was transferred and the new leg is not found.
MemberMoved ==
    /\ Reads("member", "hangup")
    /\ M.tr = "from" /\ "command" \in Faults
    /\ SetLeg("member", Pop("member"))
    /\ Goto(AfterTop)
    /\ UNCHANGED <<back, t, cur, timer>>

\* Of the member's states only the bridge and the hangup matter here.
Skipped(s, c) ==
    /\ Reads(s, c)
    /\ SetLeg(s, Pop(s))
    /\ Goto("top")
    /\ UNCHANGED <<back, t, cur, timer>>

InboundSelect ==
    /\ kind = "inbound" /\ pc = "select"
    /\ \/ canceled /\ Goto("after") /\ UNCHANGED <<back, t, leg, cur, timer>>
       \/ AgentRinging \/ AgentAccept \/ AgentTransferred("top") \/ AgentGone
       \/ TeamBridged("agent") \/ TeamBridged("member")
       \/ TransferResult \/ MemberGone \/ MemberMoved
    /\ UNCHANGED <<fixed, offer, count>>

AgentSelect ==
    /\ kind = "agent" /\ pc = "select"
    /\ \/ AgentRinging \/ AgentAccept \/ AgentTransferred("top") \/ AgentGone
       \/ TeamBridged("agent") \/ TeamBridged("member")
       \/ TransferResult \/ MemberGone
    /\ UNCHANGED <<fixed, offer, count>>

PredictSelect ==
    /\ kind = "predict" /\ pc = "select"
    /\ \/ canceled /\ CancelMember("top") /\ UNCHANGED <<t, cur, timer>>
       \/ AgentRinging \/ AgentAccept \/ AgentTransferred("top") \/ AgentGone
       \/ TeamBridged("member") \/ MemberGone \/ Skipped("agent", "bridge")
    /\ UNCHANGED <<fixed, offer, count>>

\* An agent's leg that ended before anybody talked ends the member's too.
ProgressiveAgentGone ==
    /\ Reads("agent", "hangup")
    /\ L.tr # "agent" \/ "command" \in Faults
    /\ \E ok \in Commands, short \in BOOLEAN :
          leg' = [agent  |-> Pop("agent"),
                  member |-> IF L.tr = "" /\ (~L.brg \/ short) THEN Hangup(M, "canceled", ok) ELSE M]
    /\ Goto("finish")
    /\ UNCHANGED <<back, t, cur, timer>>

\* After a transfer the goroutine only waits for the end of the member's leg.
ProgressiveSelect ==
    /\ kind = "progressive" /\ pc = "select"
    /\ \/ AgentRinging \/ AgentAccept \/ AgentTransferred(back) \/ ProgressiveAgentGone
       \/ TeamBridged("member") \/ MemberGone \/ Skipped("agent", "bridge")
    /\ UNCHANGED <<fixed, offer, count>>

-----------------------------------------------------------------------------
\* After the loop.

\* The agent is missed or released, and both it and its leg forgotten.
ForgetAgent(ok) ==
    /\ t' = SetState(IF ShouldMarkAsMissed(L) THEN MissedAndWaiting(t, cur, ok)
                     ELSE WaitingAndWaiting(t, cur, ok), "wait_agent")
    /\ leg' = [leg EXCEPT !["agent"] = NoLeg]
    /\ cur' = NoAgent
    /\ stray' = IF L.up /\ L.asked = "" THEN stray \cup {L.who} ELSE stray

\* Mutant: the agent is freed also when it was bridged.
MutInboundAfter ==
    /\ kind = "inbound" /\ pc = "after"
    /\ \E ok \in Statements : ForgetAgent(ok)
    /\ Goto(IF M.up /\ ~M.brg THEN "wait" ELSE "finish")
    /\ UNCHANGED <<kind, back, offer, timer, canceled, count>>

\* A leg that was never bridged frees its agent, and the attempt waits again.
InboundAfter ==
    /\ kind = "inbound" /\ pc = "after"
    /\ IF L.brg THEN UNCHANGED <<t, leg, cur, stray>> ELSE \E ok \in Statements : ForgetAgent(ok)
    /\ Goto(IF M.up /\ ~M.brg /\ ~L.brg THEN "wait" ELSE "finish")
    /\ UNCHANGED <<kind, back, offer, timer, canceled, count>>

\* The predictive queue hangs up a leg that is still up first.
PredictHangup ==
    /\ kind = "predict" /\ pc = "after"
    /\ ~t.talked /\ L.up /\ L.asked = ""
    /\ \E ok \in Commands : SetLeg("agent", Hangup(L, "canceled", ok))
    /\ UNCHANGED <<fixed, pc, back, t, cur, offer, timer, count>>

\* Mutant: the leg is not hung up before it is forgotten.
MutPredictAfter ==
    /\ kind = "predict" /\ pc = "after"
    /\ IF L.brg THEN UNCHANGED <<t, leg, cur, stray>> ELSE \E ok \in Statements : ForgetAgent(ok)
    /\ Goto(IF M.up /\ ~M.brg /\ ~L.brg THEN "wait" ELSE "linger")
    /\ UNCHANGED <<kind, back, offer, timer, canceled, count>>

PredictAfter ==
    /\ kind = "predict" /\ pc = "after"
    /\ t.talked \/ ~L.up \/ L.asked # ""
    /\ IF L.brg THEN UNCHANGED <<t, leg, cur, stray>> ELSE \E ok \in Statements : ForgetAgent(ok)
    /\ Goto(IF M.up /\ ~M.brg /\ ~L.brg THEN "wait" ELSE "linger")
    /\ UNCHANGED <<kind, back, offer, timer, canceled, count>>

\* The goroutine waits at most a second for the member's hangup.
PredictLinger ==
    /\ kind = "predict" /\ pc = "linger"
    /\ Goto("finish")
    /\ UNCHANGED <<fixed, back, t, leg, cur, offer, timer, count>>

ended == <<fixed, back, leg, cur, offer, timer, count>>

\* The agent has reported before its leg ended.
Reported == L.rep /\ ~L.up

InboundFinish ==
    /\ kind = "inbound" /\ pc = "finish"
    /\ \E ok \in Statements, sch \in AfterSchema :
          Done(IF L.on /\ L.brg THEN Reporting(t, cur, Reported, ok) ELSE SchemaOrAbandoned(t, sch, ok))
    /\ UNCHANGED ended

\* LosePredictAgent only counts, RetryAbandoned chooses the statement.
PredictFinish ==
    /\ kind = "predict" /\ pc = "finish"
    /\ \E ok \in Statements, sch \in AfterSchema, again \in BOOLEAN :
          Done(IF L.on /\ L.brg THEN Reporting(t, cur, Reported, ok)
               ELSE IF sch = "none" /\ again THEN LeavingMember(SetAbandonedWithParams(t, ok))
               ELSE SchemaOrAbandoned(t, sch, ok))
    /\ UNCHANGED ended

AgentFinish ==
    /\ kind = "agent" /\ pc = "finish"
    /\ \E ok \in Statements :
          Done(IF L.brg THEN Reporting(t, cur, Reported, ok)
               ELSE LeavingMember(IF ShouldMarkAsMissed(L) THEN Missed(t, cur, ok)
                                  ELSE ReleaseAgent(t, cur, ok)))
    /\ UNCHANGED ended

\* Without an agent's leg the agent was never rung; a leg that was not bridged
\* and is still up is hung up.
ProgressiveFinish ==
    /\ kind = "progressive" /\ pc = "finish"
    /\ \E ok \in Statements, cmd \in Commands :
          LET x == IF ~L.brg /\ L.tr = "" /\ ~M.up THEN Hangup(L, "canceled", cmd) ELSE L
          IN  /\ SetLeg("agent", IF L.on THEN x ELSE L)
              /\ Done(IF ~L.on THEN LeavingMember(Cancel(t, cur, ok))
                      ELSE IF L.brg THEN Reporting(t, cur, Reported, ok)
                      ELSE LeavingMember(IF ShouldMarkAsMissed(x) THEN Missed(t, cur, ok)
                                         ELSE ReleaseAgent(t, cur, ok)))
    /\ UNCHANGED <<fixed, back, cur, offer, timer, count>>

Goroutine ==
    \/ InboundStart \/ AgentStart \/ DistributeSchema
    \/ DialError \/ PredictDial \/ ProgressiveDial
    \/ PredictPark \/ PredictLast \/ PredictAnswered \/ ProgressivePark
    \/ InboundWait \/ PredictWait \/ WaitForHangup
    \/ Top \/ LegWait
    \/ InboundSelect \/ AgentSelect \/ PredictSelect \/ ProgressiveSelect
    \/ InboundAfter \/ PredictHangup \/ PredictAfter \/ PredictLinger
    \/ InboundFinish \/ PredictFinish \/ AgentFinish \/ ProgressiveFinish

Others ==
    \/ \E g \in Agents : DistributeAgent(g) \/ ChannelTimeout(g)
    \/ SetCancel
    \/ ReportingAttempt

Next == Goroutine \/ Switch \/ Others

Spec == Init /\ [][Next]_vars

\* The goroutine is scheduled, and the switch hangs up a leg it is told to hang
\* up.  Nobody need answer or hang up by itself.  A Go select with several cases
\* ready chooses at random: a cancelled attempt, whose cancel case stays ready, in
\* the end sees that the leg is down.
FairSpec ==
    /\ Spec
    /\ WF_vars(Goroutine)
    /\ SF_vars((PredictPark \/ PredictWait) /\ pc' # "callwait")
    /\ \A s \in {"member", "agent"} : WF_vars(pc # "done" /\ leg[s].asked # "" /\ LegHangup(s))

-----------------------------------------------------------------------------
\* Properties.

\* The goroutine returned at a failed statement without ending the attempt.
Early == "statement" \in Faults

\* A goroutine that ends leaves an attempt that has left the queue, in the row
\* and in the cache, or one that waits for its agent's report.
EndsAccounted ==
    pc = "done" /\ ~Early =>
       \/ t.row = "leaving" /\ ~t.cached
       \/ t.row = "processing" /\ t.st = "processing" /\ t.cached

\* When the goroutine has ended no channel still says that an agent is being
\* offered this attempt or talks in it, unless the agent goes on in the attempt
\* the caller was transferred to.
AgentLetGo ==
    pc = "done" /\ ~Early /\ M.tr # "attempt" =>
       \A g \in Agents : t.chan[g] \notin {"offering", "bridged"}

\* The agent the goroutine works with is the one of the attempt and of the row,
\* and the one whose leg it listens to, through all transfers.
OneAgent ==
    pc \in {"top", "select", "legwait"} /\ ~Early => t.agent = cur /\ t.rowAgent = cur /\ L.who = cur

\* The predictive queue does not forget an agent's leg that is up and that it
\* has not hung up, unless it took the leg over in a transfer: otherwise the phone
\* of an agent who is free again would go on ringing.
NoStray == stray # {} => kind = "inbound" \/ count.moves > 0

\* The same for every queue.  The inbound one has a TODO in its place.
LegsHungUp == stray = {}

\* When the goroutine has ended the desktop shows what the channel says; a row that
\* was over before the report was asked has left its state in the channel.
DesktopInStep ==
    pc = "done" /\ ~Early /\ M.tr # "attempt" =>
       \A g \in Agents : t.told[g] \in {"missed", "processing", "wrap_time", "offering", "bridged"} =>
           t.chan[g] \in {t.told[g], "leaving"}

\* A member who has hung up is not kept waiting: the goroutine ends.
MemberGoneEnds == (M.on /\ ~M.up) ~> (pc = "done" \/ M.up)

\* The row of the attempt: a goroutine that returned at a failed statement is not
\* considered.
Phase ==
    CASE t.row = "leaving"    -> "closed"
      [] t.row = "processing" -> "reporting"
      [] OTHER                -> "open"

Life == INSTANCE AttemptLife WITH
    phase <- Phase, agent <- t.rowAgent, served <- t.talked \/ L.brg, moved <- count.moves > 0

\* The loops keep the promise of AttemptLife: through missed offers, transfers
\* and reports the row is closed once, by an agent who has served if there is one.
Implements == Life!Spec
=============================================================================
