-------------------------- MODULE ChatConversation ---------------------------
(***************************************************************************)
(* The chats of an inbound chat queue: chat/conversation.go, manager.go,   *)
(* store.go, events.go and the process goroutine of queue/chat_inbound.go. *)
(*                                                                         *)
(* Every attempt drives one Conversation object in a goroutine of its own. *)
(* A single goroutine, the consumer, handles the events of all chats: it   *)
(* finds the object stored for the conversation's id, changes it and hands *)
(* the state over on a buffered channel (pushState).  The attempts here    *)
(* are attempts on one conversation id, as a chat that returns to a queue  *)
(* makes them.  The messages service that owns the conversation and its    *)
(* invitations is external; events reach the consumer in its order.        *)
(***************************************************************************)
EXTENDS Integers, Sequences, FiniteSets

CONSTANTS
    Attempts,         \* attempts on the conversation
    None,             \* no attempt
    Capacity,         \* STATE_BUFFER_SIZE
    Burst,            \* events of one leave: one per participant
    Causes,           \* causes of the leaves: client_leave, agent_leave, transfer
    Cancels,          \* BOOLEAN: attempts may be cancelled
    Failures,         \* BOOLEAN: store and service calls may fail
    TransferAbandons, \* BOOLEAN: the queue counts a transfer as abandoned
    MaxOffers,        \* bound on the invitations of one attempt
    MaxLeaves         \* bound on the leaves

ASSUME ChatAssumption ==
    /\ None \notin Attempts
    /\ Capacity \in Nat \ {0} /\ Burst \in Nat \ {0}
    /\ Causes \subseteq {"client_leave", "agent_leave", "transfer"}
    /\ Cancels \in BOOLEAN /\ Failures \in BOOLEAN /\ TransferAbandons \in BOOLEAN
    /\ MaxOffers \in Nat /\ MaxLeaves \in Nat

VARIABLES
    pc,        \* where the process goroutine of each attempt is
    conv,      \* its Conversation
    sess,      \* the agent's session of the conversation
    agent,     \* BOOLEAN: the goroutine's agent variable is set
    row,       \* the attempt's row: waiting for an agent, or holding one
    timer,     \* BOOLEAN: the wait or idle timer is armed
    offers,    \* invitations made
    outcome,   \* how the attempt was closed
    store,     \* the attempt whose Conversation is in the cache
    newest,    \* history: the last attempt that stored its Conversation
    consumer,  \* the goroutine of ChatManager
    events,    \* events on their way to the consumer
    invite,    \* the invitation at the messages service
    open,      \* BOOLEAN: the conversation is open at the messages service
    leaves     \* leaves so far

run == <<pc, agent, row, timer, offers, outcome>>
chats == <<conv, sess, store, newest>>
service == <<events, invite, open, leaves>>
vars == <<run, chats, consumer, service>>

NewConv == [closed |-> FALSE, cause |-> "", bridged |-> FALSE, stalled |-> FALSE, state |-> <<>>]
NoSession == [invited |-> FALSE, joined |-> FALSE, stopped |-> FALSE]
Idle == [at |-> "idle", a |-> None, state |-> ""]

(* Every variable keeps its type, and no buffer exceeds its capacity. *)
TypeOK ==
    /\ pc \in [Attempts -> {"new", "wait", "invite", "invited", "push", "full", "check",
                            "select", "outer", "end", "remove", "gone"}]
    /\ \A a \in Attempts : /\ DOMAIN conv[a] = DOMAIN NewConv
                           /\ Len(conv[a].state) <= Capacity
    /\ sess \in [Attempts -> [invited : BOOLEAN, joined : BOOLEAN, stopped : BOOLEAN]]
    /\ agent \in [Attempts -> BOOLEAN] /\ row \in [Attempts -> {"waiting", "agent"}]
    /\ timer \in [Attempts -> BOOLEAN] /\ offers \in [Attempts -> 0..MaxOffers]
    /\ outcome \in [Attempts -> {"", "reported", "released", "missed", "abandoned"}]
    /\ store \in Attempts \cup {None} /\ newest \in Attempts \cup {None}
    /\ consumer.at \in {"idle", "push", "full"}
    /\ invite \in [Attempts -> {"none", "open", "joined", "over"}]
    /\ open \in BOOLEAN /\ leaves \in 0..MaxLeaves

Init ==
    /\ pc = [a \in Attempts |-> "new"] /\ conv = [a \in Attempts |-> NewConv]
    /\ sess = [a \in Attempts |-> NoSession] /\ agent = [a \in Attempts |-> FALSE]
    /\ row = [a \in Attempts |-> "waiting"] /\ timer = [a \in Attempts |-> FALSE]
    /\ offers = [a \in Attempts |-> 0] /\ outcome = [a \in Attempts |-> ""]
    /\ store = None /\ newest = None
    /\ consumer = Idle
    /\ events = <<>> /\ invite = [a \in Attempts |-> "none"] /\ open = TRUE /\ leaves = 0

Goto(a, p) == pc' = [pc EXCEPT ![a] = p]
SetStop(a) == conv' = [conv EXCEPT ![a].closed = TRUE]
Room(a) == Len(conv[a].state) < Capacity
Send(a, s) == conv' = [conv EXCEPT ![a].state = Append(@, s)]

-----------------------------------------------------------------------------
(* The messages service. *)

Event(n, a, c) == [name |-> n, a |-> a, offer |-> offers[a], cause |-> c]
Copies(e) == [i \in 1..Burst |-> e]

(* The invited agent joins or declines. *)
Answer(a, s) ==
    /\ invite[a] = "open"
    /\ invite' = [invite EXCEPT ![a] = IF s = "joined" THEN "joined" ELSE "over"]
    /\ events' = Append(events, Event(s, a, ""))
    /\ UNCHANGED <<run, chats, consumer, open, leaves>>

Left(c) == events \o Copies([name |-> "close", a |-> None, offer |-> 0, cause |-> c])

(* Somebody leaves: the client, who closes the conversation, an agent that *)
(* had joined, or everybody in a transfer.                                 *)
Leave(c) ==
    /\ open /\ leaves < MaxLeaves /\ c \in Causes
    /\ c = "agent_leave" => \E a \in Attempts : invite[a] = "joined"
    /\ leaves' = leaves + 1
    /\ open' = (c # "client_leave")
    /\ invite' = [a \in Attempts |-> IF invite[a] = "none" THEN "none" ELSE "over"]
    /\ events' = Left(c)
    /\ UNCHANGED <<run, chats, consumer>>

-----------------------------------------------------------------------------
(* The consumer. *)

MutHandleEvent ==
    /\ consumer.at = "idle" /\ events # <<>>
    /\ events' = Tail(events)
    /\ LET e == Head(events)
           known == e.a = store /\ e.offer = offers[store] /\ sess[store].invited /\ ~sess[store].stopped
           Push(s) == consumer' = [at |-> "push", a |-> store, state |-> s]
       IN CASE store # None /\ e.name = "close" ->
                 /\ conv' = [conv EXCEPT ![store].closed = TRUE, ![store].cause = e.cause]
                 /\ UNCHANGED <<sess, consumer>>
            [] store # None /\ e.name = "declined" /\ known ->
                 /\ sess' = [sess EXCEPT ![store].stopped = TRUE]
                 /\ Push("declined") /\ UNCHANGED conv
            [] store # None /\ e.name = "joined" /\ known ->
                 /\ sess' = [sess EXCEPT ![store].joined = TRUE]
                 /\ conv' = [conv EXCEPT ![store].bridged = TRUE]
                 /\ Push("bridge")
            [] OTHER -> UNCHANGED <<conv, sess, consumer>>
    /\ UNCHANGED <<run, store, newest, invite, open, leaves>>

(* handleEvent: an event changes the stored object, then its state is      *)
(* pushed; an event for a session the object does not know is dropped.     *)
HandleEvent ==
    /\ consumer.at = "idle" /\ events # <<>>
    /\ events' = Tail(events)
    /\ LET e == Head(events)
           known == e.a = store /\ e.offer = offers[store] /\ sess[store].invited /\ ~sess[store].stopped
           Push(s) == consumer' = [at |-> "push", a |-> store, state |-> s]
       IN CASE store # None /\ e.name = "close" ->
                 /\ conv' = [conv EXCEPT ![store].closed = TRUE, ![store].cause = e.cause]
                 /\ Push("close") /\ UNCHANGED sess
            [] store # None /\ e.name = "declined" /\ known ->
                 /\ sess' = [sess EXCEPT ![store].stopped = TRUE]
                 /\ Push("declined") /\ UNCHANGED conv
            [] store # None /\ e.name = "joined" /\ known ->
                 /\ sess' = [sess EXCEPT ![store].joined = TRUE]
                 /\ conv' = [conv EXCEPT ![store].bridged = TRUE]
                 /\ Push("bridge")
            [] OTHER -> UNCHANGED <<conv, sess, consumer>>
    /\ UNCHANGED <<run, store, newest, invite, open, leaves>>

MutPushState ==
    /\ consumer.at = "push" /\ Room(consumer.a)
    /\ Send(consumer.a, consumer.state) /\ consumer' = Idle
    /\ UNCHANGED <<run, sess, store, newest, service>>

MutPushStateUnbounded ==
    /\ consumer.at = "push"
    /\ Send(consumer.a, consumer.state) /\ consumer' = Idle
    /\ UNCHANGED <<run, sess, store, newest, service>>

(* pushState: into the buffer, or dropped when the reader is known to be   *)
(* gone, or a wait ...                                                     *)
PushState ==
    /\ consumer.at = "push"
    /\ LET a == consumer.a
       IN \/ Room(a) /\ Send(a, consumer.state) /\ consumer' = Idle
          \/ ~Room(a) /\ conv[a].stalled /\ consumer' = Idle /\ UNCHANGED conv
          \/ /\ ~Room(a) /\ ~conv[a].stalled
             /\ consumer' = [consumer EXCEPT !.at = "full"]
             /\ UNCHANGED conv
    /\ UNCHANGED <<run, sess, store, newest, service>>

(* ... that ends when the reader makes room ... *)
PushRoom ==
    /\ consumer.at = "full" /\ Room(consumer.a)
    /\ Send(consumer.a, consumer.state)
    /\ consumer' = Idle
    /\ UNCHANGED <<run, sess, store, newest, service>>

(* ... or after STATE_SEND_TIMEOUT, which marks the conversation stalled. *)
PushTimeout ==
    /\ consumer.at = "full"
    /\ conv' = [conv EXCEPT ![consumer.a].stalled = TRUE]
    /\ consumer' = Idle
    /\ UNCHANGED <<run, sess, store, newest, service>>

-----------------------------------------------------------------------------
(* The process goroutine of an attempt. *)

(* NewConversation: the object replaces one stored for the same id. *)
NewConversation(a) ==
    /\ pc[a] = "new"
    /\ \/ /\ store' = a /\ newest' = a
          /\ timer' = [timer EXCEPT ![a] = TRUE]
          /\ Goto(a, "wait") /\ UNCHANGED outcome
       \/ /\ Failures
          /\ outcome' = [outcome EXCEPT ![a] = "abandoned"]
          /\ Goto(a, "gone") /\ UNCHANGED <<store, newest, timer>>
    /\ UNCHANGED <<agent, row, offers, conv, sess, consumer, service>>

(* The attempt is cancelled, or its context is. *)
Cancel(a) ==
    /\ Cancels
    /\ \/ pc[a] = "wait" /\ Goto(a, "outer")
       \/ pc[a] = "select" /\ Goto(a, "check")
    /\ SetStop(a)
    /\ UNCHANGED <<agent, row, timer, offers, outcome, sess, store, newest, consumer, service>>

(* An agent arrives: a session is added for it.  Without its team the      *)
(* goroutine returns.                                                      *)
DistributeAgent(a) ==
    /\ pc[a] = "wait" /\ row[a] = "waiting" /\ offers[a] < MaxOffers
    /\ row' = [row EXCEPT ![a] = "agent"]
    /\ agent' = [agent EXCEPT ![a] = TRUE]
    /\ \/ /\ offers' = [offers EXCEPT ![a] = @ + 1]
          /\ sess' = [sess EXCEPT ![a] = NoSession]
          /\ Goto(a, "invite")
       \/ Failures /\ Goto(a, "gone") /\ UNCHANGED <<offers, sess>>
    /\ UNCHANGED <<timer, outcome, conv, store, newest, consumer, service>>

(* InviteToConversation reaches the service.  A closed conversation stops  *)
(* the attempt, another error sends it back to wait for an agent, without  *)
(* a look at the conversation.                                             *)
InviteInternal(a) ==
    /\ pc[a] = "invite"
    /\ \/ /\ open
          /\ invite' = [invite EXCEPT ![a] = "open"]
          /\ Goto(a, "invited") /\ UNCHANGED <<conv, agent, row>>
       \/ /\ ~open
          /\ SetStop(a) /\ agent' = [agent EXCEPT ![a] = FALSE] /\ row' = [row EXCEPT ![a] = "waiting"]
          /\ Goto(a, "end") /\ UNCHANGED invite
       \/ /\ Failures
          /\ agent' = [agent EXCEPT ![a] = FALSE] /\ row' = [row EXCEPT ![a] = "waiting"]
          /\ Goto(a, "wait") /\ UNCHANGED <<conv, invite>>
    /\ UNCHANGED <<timer, offers, outcome, sess, store, newest, consumer, events, open, leaves>>

(* Its answer: only now events about the invitation find the session. *)
Invited(a) ==
    /\ pc[a] = "invited"
    /\ sess' = [sess EXCEPT ![a].invited = TRUE]
    /\ Goto(a, "push")
    /\ UNCHANGED <<agent, row, timer, offers, outcome, conv, store, newest, consumer, service>>

(* pushState(ChatStateInvite), by the goroutine that reads the channel. *)
PushInvite(a) ==
    /\ \/ pc[a] = "push" /\ Room(a) /\ Send(a, "invite") /\ Goto(a, "check")
       \/ pc[a] = "push" /\ ~Room(a) /\ Goto(a, IF conv[a].stalled THEN "check" ELSE "full") /\ UNCHANGED conv
       \/ pc[a] = "full" /\ conv' = [conv EXCEPT ![a].stalled = TRUE] /\ Goto(a, "check")
    /\ UNCHANGED <<agent, row, timer, offers, outcome, sess, store, newest, consumer, service>>

(* The conditions of the inner and of the outer loop. *)
Check(a) ==
    /\ \/ pc[a] = "check" /\ Goto(a, IF conv[a].closed \/ sess[a].stopped THEN "outer" ELSE "select")
       \/ pc[a] = "outer" /\ Goto(a, IF conv[a].closed THEN "end" ELSE "wait")
    /\ UNCHANGED <<agent, row, timer, offers, outcome, chats, consumer, service>>

MutReadState(a) ==
    /\ pc[a] = "select" /\ conv[a].state # <<>>
    /\ LET s == Head(conv[a].state)
       IN /\ conv' = [conv EXCEPT ![a].state = Tail(@), ![a].closed = @ \/ s = "close"]
          /\ agent' = [agent EXCEPT ![a] = @ /\ s # "declined"]
          /\ timer' = [timer EXCEPT ![a] = @ \/ s = "bridge"]
          /\ Goto(a, IF s = "declined" THEN "outer" ELSE "check")
    /\ UNCHANGED <<row, offers, outcome, sess, store, newest, consumer, service>>

(* The goroutine reads a state: offered, declined (MissedAgentAndWaiting-  *)
(* Attempt), bridged, closed.                                              *)
ReadState(a) ==
    /\ pc[a] = "select" /\ conv[a].state # <<>>
    /\ LET s == Head(conv[a].state)
       IN /\ conv' = [conv EXCEPT ![a].state = Tail(@), ![a].closed = @ \/ s = "close"]
          /\ row' = [row EXCEPT ![a] = IF s = "declined" THEN "waiting" ELSE @]
          /\ agent' = [agent EXCEPT ![a] = @ /\ s # "declined"]
          /\ timer' = [timer EXCEPT ![a] = @ \/ s = "bridge"]
          /\ Goto(a, IF s = "declined" THEN "outer" ELSE "check")
    /\ UNCHANGED <<offers, outcome, sess, store, newest, consumer, service>>

(* The wait timer: the chat was not bridged in time. *)
WaitTimeout(a) ==
    /\ timer[a] /\ ~conv[a].bridged
    /\ \/ pc[a] = "wait" /\ Goto(a, "outer")
       \/ pc[a] = "select" /\ Goto(a, "check")
    /\ timer' = [timer EXCEPT ![a] = FALSE]
    /\ SetStop(a)
    /\ UNCHANGED <<agent, row, offers, outcome, sess, store, newest, consumer, service>>

(* The idle timer: the agent is made to leave; the timer is not armed      *)
(* again, and an error of the call is not looked at.                       *)
IdleTimeout(a) ==
    /\ timer[a] /\ conv[a].bridged /\ pc[a] = "select"
    /\ timer' = [timer EXCEPT ![a] = FALSE]
    /\ Goto(a, "check")
    /\ \/ /\ invite[a] = "joined"
          /\ invite' = [invite EXCEPT ![a] = "over"] /\ events' = Left("agent_leave")
       \/ /\ invite[a] # "joined" \/ Failures
          /\ UNCHANGED <<invite, events>>
    /\ UNCHANGED <<agent, row, offers, outcome, chats, consumer, open, leaves>>

-----------------------------------------------------------------------------
(* After the loop the agent's session is closed, unless the service ended  *)
(* the conversation, and the attempt is reported, released, missed or      *)
(* abandoned.                                                              *)
Finish(a) ==
    /\ pc[a] = "end"
    /\ LET c == conv[a]
           closes == agent[a] /\ ~sess[a].stopped /\ c.cause = ""
       IN /\ outcome' = [outcome EXCEPT ![a] =
                CASE ~agent[a] -> "abandoned"
                  [] agent[a] /\ c.bridged /\ ~(c.cause = "transfer" /\ TransferAbandons) -> "reported"
                  [] agent[a] /\ ~c.bridged /\ c.cause = "client_leave" -> "released"
                  [] OTHER -> "missed"]
          /\ events' = CASE closes /\ sess[a].joined /\ invite[a] = "joined" -> Left("agent_leave")
                          [] closes /\ ~sess[a].joined /\ invite[a] = "open" -> Append(events, Event("declined", a, ""))
                          [] OTHER -> events
          /\ invite' = [invite EXCEPT ![a] = IF closes /\ events' # events THEN "over" ELSE @]
    /\ Goto(a, "remove")
    /\ UNCHANGED <<agent, row, timer, offers, chats, consumer, open, leaves>>

MutRemoveConversation(a) ==
    /\ pc[a] = "remove"
    /\ store' = None
    /\ Goto(a, "gone")
    /\ UNCHANGED <<agent, row, timer, offers, outcome, conv, sess, newest, consumer, service>>

(* RemoveConversation takes out this object, never another of the same id. *)
RemoveConversation(a) ==
    /\ pc[a] = "remove"
    /\ store' = IF store = a THEN None ELSE store
    /\ Goto(a, "gone")
    /\ UNCHANGED <<agent, row, timer, offers, outcome, conv, sess, newest, consumer, service>>

-----------------------------------------------------------------------------
Process(a) ==
    \/ NewConversation(a) \/ InviteInternal(a) \/ Invited(a) \/ PushInvite(a) \/ Check(a)
    \/ ReadState(a) \/ WaitTimeout(a) \/ Finish(a) \/ RemoveConversation(a)

Consume == HandleEvent \/ PushState \/ PushRoom \/ PushTimeout

Next ==
    \/ \E a \in Attempts : Process(a) \/ Cancel(a) \/ DistributeAgent(a) \/ IdleTimeout(a)
    \/ \E a \in Attempts, s \in {"joined", "declined"} : Answer(a, s)
    \/ \E c \in Causes : Leave(c)
    \/ Consume

Spec == Init /\ [][Next]_vars

(* Goroutines run, and the wait timer fires; nobody has to answer, leave,  *)
(* be cancelled or be found as an agent, and a bridged chat may never idle.*)
FairSpec == Spec /\ WF_vars(Consume) /\ \A a \in Attempts : WF_vars(Process(a))

-----------------------------------------------------------------------------
(* The consumer always comes back for the next event, whatever the reader  *)
(* of a conversation does: one chat whose goroutine is gone must not stop  *)
(* the events of all others (pushState's wait and drop).                   *)
ConsumerComesBack == (consumer.at # "idle") ~> (consumer.at = "idle")

(* A chat that is over ends its attempt: whatever the goroutine was doing  *)
(* when the leave event arrived, process leaves its loops and closes the   *)
(* attempt.                                                                *)
ClosedEnds == \A a \in Attempts : conv[a].closed ~> (pc[a] = "gone")

(* The cache holds what is running: while the last attempt that stored a   *)
(* conversation runs, events reach its object and not an older one's, no   *)
(* matter when the older one is removed; when no attempt runs, nothing is  *)
(* left in the cache.                                                      *)
StoreExact ==
    /\ newest # None /\ pc[newest] # "gone" => store = newest
    /\ (\A a \in Attempts : pc[a] \in {"new", "gone"}) => store = None

(* An attempt that ends accounts for its agent: it is abandoned only when  *)
(* its row holds no agent, and reports, releases or misses an agent only   *)
(* when the row still holds it (the agent variable follows the row through *)
(* declines, failed invitations and closed conversations).                 *)
AgentAccounted ==
    \A a \in Attempts : outcome[a] # "" => (outcome[a] = "abandoned") = (row[a] = "waiting")
=============================================================================
