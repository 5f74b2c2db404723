---------------------------------- MODULE Team ----------------------------------
(***************************************************************************)
(* What the queue loops do to an attempt: the statements of the attempt's  *)
(* row and of its agent's channel (member_store.go), and the handlers      *)
(* built on them (team.go, queue.go, queue_manager.go, schema.go).  They   *)
(* are operators on a record t of the attempt:                             *)
(*                                                                         *)
(*   row, rowAgent   state and agent_id of the row                         *)
(*   chan            cc_agent_channel.state of each agent                  *)
(*   st, agent       Attempt.state, Attempt.agent                          *)
(*   result          Attempt.result                                        *)
(*   talked          Attempt.bridgedAt is set                              *)
(*   cached          the attempt is in Manager.membersCache                *)
(*   told            the last event sent to each agent's desktop           *)
(*                                                                         *)
(* ok says whether the statement of a handler succeeds, sch what the       *)
(* after-schema answered.                                                  *)
(***************************************************************************)
EXTENDS Naturals

CONSTANTS
    Agents,       \* agents of the team
    NoAgent,      \* agent_id null / a nil AgentObject
    Processing,   \* queue.Processing(): agents report after the call
    WrapUp        \* the team has a wrap-up time

ASSUME TeamAssumption == NoAgent \notin Agents /\ {Processing, WrapUp} \subseteq BOOLEAN

RowStates   == {"idle", "wait_agent", "active", "offering", "bridged", "processing", "leaving"}
ChanStates  == {"waiting", "offering", "bridged", "missed", "processing", "wrap_time", "leaving"}
MemStates   == {"idle", "joined", "wait_agent", "offering", "active", "bridged", "missed",
                "processing", "leaving"}
Results     == {"", "success", "abandoned", "failed", "cancel", "processing"}
SchemaReply == {"none", "success", "abandoned", "retry"}
Desktop     == {"waiting", "distribute", "offering", "answered", "bridged", "missed",
                "processing", "wrap_time", "transfer"}
AnyAgent    == Agents \cup {NoAgent}

AttemptType ==
    [row : RowStates, rowAgent : AnyAgent, chan : [Agents -> ChanStates],
     st : MemStates, agent : AnyAgent, result : Results, talked : BOOLEAN,
     cached : BOOLEAN, told : [Agents -> Desktop]]

\* NewAttempt and Manager.createAttempt, with the agent of a row that is
\* distributed together with one.
NewAttempt(g) ==
    [row |-> "idle", rowAgent |-> g, chan |-> [a \in Agents |-> "waiting"],
     st |-> "idle", agent |-> g, result |-> "", talked |-> FALSE,
     cached |-> TRUE, told |-> [a \in Agents |-> "waiting"]]

-----------------------------------------------------------------------------
\* Statements.

\* The channel of the row's agent.
SetChan(t, s) == IF t.rowAgent = NoAgent THEN t ELSE [t EXCEPT !.chan[t.rowAgent] = s]

\* The row waits for an agent and has none; a row with a result is left alone.
SetAttemptFindAgent(t) ==
    IF t.row = "leaving" THEN t
    ELSE [t EXCEPT !.row = "wait_agent", !.rowAgent = NoAgent]

\* The member of a predictive queue has answered: its reserved agent is kept
\* or given up.
AnswerPredictAndFindAgent(t, keep) ==
    IF t.row = "leaving" THEN t
    ELSE [t EXCEPT !.row = "wait_agent", !.rowAgent = IF keep THEN @ ELSE NoAgent]

SetAttemptOffering(t, g) ==
    SetChan([t EXCEPT !.row = "offering", !.rowAgent = IF @ = NoAgent THEN g ELSE @], "offering")

SetAttemptBridged(t) == SetChan([t EXCEPT !.row = "bridged"], "bridged")

\* Also the rows of SetDistributeCancel and TransferredTo: none of these
\* touches the channel.
SetAttemptAbandoned(t) == [t EXCEPT !.row = "leaving"]

\* Mutant: the statement forgets the channel.
MutMissedKeepsChan(t) == [t EXCEPT !.row = "wait_agent", !.rowAgent = NoAgent]

SetAttemptMissedAgent(t) ==
    [SetChan(t, "missed") EXCEPT !.row = "wait_agent", !.rowAgent = NoAgent]

SetAttemptWaitingAgent(t) ==
    [SetChan(t, "waiting") EXCEPT !.row = "wait_agent", !.rowAgent = NoAgent]

\* The deadline of the report; a row that is over stays over, and its agent's
\* channel gets the row's state.
SetAttemptReporting(t) ==
    LET r == IF t.row = "leaving" THEN "leaving" ELSE "processing"
    IN  SetChan([t EXCEPT !.row = r], r)

\* Mutant: the agent is not released.
MutCancelKeepsAgent(t) == [t EXCEPT !.row = "leaving"]

\* cc_attempt_leaving of SetAttemptMissed, and CancelAgentAttempt.
SetAttemptMissed(t) == SetChan([t EXCEPT !.row = "leaving"], "missed")

CancelAgentAttempt(t) == SetChan([t EXCEPT !.row = "leaving"], "missed")

SetAttemptResult(t, hold) ==
    SetChan([t EXCEPT !.row = "leaving"], IF hold THEN "wrap_time" ELSE "waiting")

CancelAttemptAndRelease(t) == SetChan([t EXCEPT !.row = "leaving"], "waiting")

\* The call was handed to agent g: the old agent goes to wrap-up or is free.
TransferredFrom(t, g) ==
    [SetChan(t, IF WrapUp THEN "wrap_time" ELSE "waiting") EXCEPT !.rowAgent = g]

-----------------------------------------------------------------------------
\* The attempt in memory.

\* Attempt.SetState: bridgedAt is set by the first bridged state.
SetState(t, s) == [t EXCEPT !.st = s, !.talked = @ \/ s = "bridged"]

\* AgentChannelEvent to the desktop of agent g.
Tell(t, g, e) == [t EXCEPT !.told[g] = e]

SetResultIfNone(t, r) == [t EXCEPT !.result = IF @ = "" THEN r ELSE @]

\* Mutant: the attempt stays in the cache.
MutLeavingKeepsCache(t) == [SetResultIfNone(t, "abandoned") EXCEPT !.st = "leaving"]

\* Manager.LeavingMember: only who finds the attempt in the cache ends it.
LeavingMember(t) ==
    LET r == SetResultIfNone(t, "abandoned")
    IN  IF t.cached THEN [SetState(r, "leaving") EXCEPT !.cached = FALSE] ELSE r

-----------------------------------------------------------------------------
\* Handlers.

\* BaseQueue.Distribute.
Distribute(t, g) == Tell(t, g, "distribute")

\* agentTeam.Offering.
Offering(t, g, ok) ==
    IF ~ok THEN t ELSE Tell(SetState(SetAttemptOffering(t, g), "offering"), g, "offering")

\* agentTeam.Answered: no statement.
Answered(t, g) == Tell(SetState(t, "active"), g, "answered")

\* agentTeam.Bridged.
Bridged(t, g, ok) ==
    IF ~ok THEN t ELSE Tell(SetState(SetAttemptBridged(t), "bridged"), g, "bridged")

\* agentTeam.SetWrap: a failing statement is logged, the attempt leaves anyway.
SetWrap(t, g, ok) ==
    LeavingMember(IF ok THEN Tell([SetAttemptResult(t, WrapUp) EXCEPT !.result = "success"], g, "wrap_time")
                  ELSE t)

\* agentTeam.Reporting: sent, the agent has reported before the leg ended, so
\* that report ends the attempt.  Drafts are AttemptReporting's; that the leg was
\* transferred makes no difference, as ProcessingTransfer() is false.
Reporting(t, g, sent, ok) ==
    IF sent THEN SetResultIfNone(t, "success")
    ELSE IF ~Processing THEN SetWrap(t, g, ok)
    ELSE IF ~ok THEN SetResultIfNone(t, "processing")
    ELSE Tell(SetState(SetAttemptReporting(SetResultIfNone(t, "processing")), "processing"),
              g, "processing")

\* agentTeam.MissedAgent.
MissedAgent(t, g) == Tell(SetState(t, "missed"), g, "missed")

\* agentTeam.Missed.
Missed(t, g, ok) ==
    IF ~ok THEN t ELSE MissedAgent([SetAttemptMissed(t) EXCEPT !.result = "cancel"], g)

\* agentTeam.CancelAgentAttempt.
CancelAgent(t, g, ok) ==
    IF ok THEN MissedAgent([CancelAgentAttempt(t) EXCEPT !.result = "cancel"], g)
    ELSE [t EXCEPT !.result = "cancel"]

\* agentTeam.CancelAttemptAndReleaseAgent.
ReleaseAgent(t, g, ok) ==
    IF ~ok THEN t
    ELSE Tell([CancelAttemptAndRelease(t) EXCEPT !.result = "cancel"], g, "waiting")

\* agentTeam.Cancel: the member's call failed before the agent was rung.
Cancel(t, g, ok) == IF ~ok THEN t ELSE Tell(SetAttemptAbandoned(t), g, "waiting")

\* agentTeam.MissedAgentAndWaitingAttempt.
MissedAndWaiting(t, g, ok) ==
    IF ~ok THEN t ELSE [MissedAgent(SetAttemptMissedAgent(t), g) EXCEPT !.agent = NoAgent]

\* agentTeam.WaitingAgentAndWaitingAttempt.
WaitingAndWaiting(t, g, ok) ==
    IF ~ok THEN t ELSE [Tell(SetAttemptWaitingAgent(t), g, "waiting") EXCEPT !.agent = NoAgent]

\* Manager.SetAttemptAbandonedWithParams: after an error the row stays.
SetAbandonedWithParams(t, ok) ==
    IF ok THEN [SetAttemptAbandoned(t) EXCEPT !.result = "abandoned"] ELSE t

\* Manager.Abandoned: leaves also when the statement fails.
Abandoned(t, ok) == LeavingMember(IF ok THEN SetAttemptAbandoned(t) ELSE t)

\* Manager.SetAttemptSuccess.
SetAttemptSuccess(t, ok) ==
    IF ok THEN [SetAttemptResult(t, FALSE) EXCEPT !.result = "success"] ELSE t

\* Manager.SendAfterDistributeSchema, with the Abandoned call its users make
\* when there is no schema or no answer.
SchemaOrAbandoned(t, sch, ok) ==
    CASE sch = "none"    -> Abandoned(t, ok)
      [] sch = "success" -> LeavingMember(SetAttemptSuccess(t, ok))
      [] OTHER           -> LeavingMember(SetAbandonedWithParams(t, ok))

\* Manager.DoDistributeSchema: a schema that cancels ends the row, also in
\* memory when its statement fails.
DistributeCancelled(t, ok) == LeavingMember(IF ok THEN SetAttemptAbandoned(t) ELSE t)

\* Manager.TransferTo: the member goes on in another attempt.
TransferTo(t, ok) ==
    LeavingMember([(IF ok THEN SetAttemptAbandoned(t) ELSE t) EXCEPT !.result = "abandoned"])

\* Mutant: the row keeps the old agent.
MutTransferKeepsRow(t, g, ok) ==
    LET o == IF t.agent # NoAgent THEN Tell(t, t.agent, "wrap_time") ELSE t
    IN  Tell([o EXCEPT !.agent = g], g, "transfer")

\* Manager.TransferFrom: agent g of another attempt takes over.
TransferFrom(t, g, ok) ==
    LET r == IF ok THEN TransferredFrom(t, g) ELSE t
        o == IF t.agent # NoAgent THEN Tell(r, t.agent, "wrap_time") ELSE r
    IN  Tell([o EXCEPT !.agent = g], g, "transfer")
=============================================================================
