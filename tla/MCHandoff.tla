------------------------------ MODULE MCHandoff -------------------------------
(***************************************************************************)
(* Agents for attempts, in one run: the handoff of MCAgentDistribution's   *)
(* instance, and the invitations of one chat.  The initial state chooses   *)
(* the part that moves, the other stays in its initial state.              *)
(***************************************************************************)
EXTENDS MCAgentDistribution

CONSTANT None

VARIABLES part,
    chatPc, conv, sess, chatAgent, chatRow, timer, offers, outcome, store, newest, consumer,
    chatEvents, invite, open, leaves

chatVars == <<chatPc, conv, sess, chatAgent, chatRow, timer, offers, outcome, store, newest, consumer,
              chatEvents, invite, open, leaves>>

Chat == INSTANCE ChatConversation WITH
    Attempts <- {"chat"}, Capacity <- 1, Burst <- 3,
    Causes <- {"client_leave", "agent_leave", "transfer"}, Cancels <- TRUE, Failures <- TRUE,
    TransferAbandons <- TRUE, MaxOffers <- 2, MaxLeaves <- 2,
    pc <- chatPc, agent <- chatAgent, row <- chatRow, events <- chatEvents

MCInit ==
    /\ part \in {"handoff", "chat"}
    /\ Init /\ Chat!Init
    /\ part # "handoff" => \A a \in Attempts : row[a].agent = NoAgent

HandoffPart ==
    /\ part = "handoff" /\ Next
    /\ UNCHANGED <<part, chatVars>>
ChatPart ==
    /\ part = "chat" /\ Chat!Next
    /\ UNCHANGED <<part, vars>>

MCNext == HandoffPart \/ ChatPart

\* The fairness of both modules, for the part that moves.
MCFairness ==
    /\ WF_vars(part = "handoff" /\ Dispatcher)
    /\ \A a \in Attempts : WF_vars(part = "handoff" /\ Busy(a))
    /\ WF_chatVars(part = "chat" /\ Chat!Consume)
    /\ WF_chatVars(part = "chat" /\ Chat!Process("chat"))

MCSpec == MCInit /\ [][MCNext]_<<part, vars, chatVars>> /\ MCFairness

(* AgentAccounted: an attempt on a chat is abandoned exactly when its row  *)
(* holds no agent, through declines, failed invitations and closed chats.  *)
ChatAgentAccounted == Chat!AgentAccounted

(* ConsumerComesBack: the consumer of chat events always comes back for    *)
(* the next one, whatever the reader of a conversation does.               *)
ChatConsumerComesBack == part = "chat" => Chat!ConsumerComesBack

(* ClosedEnds: a chat that is over ends its attempt, whatever its          *)
(* goroutine was doing when the leave event arrived.                       *)
ChatClosedEnds == part = "chat" => Chat!ClosedEnds
===============================================================================
