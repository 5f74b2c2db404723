------------------------------ MODULE Joining ------------------------------
(***************************************************************************)
(* How calls, chats, threads, tasks and members join this node by a        *)
(* request: the handlers of grpc_api/member.go, the Distribute functions   *)
(* of queue/queue_manager.go, and their statements.  A request inserts a   *)
(* row, makes lookups, takes over the call, creates the attempt, starts    *)
(* its queue, and then streams the events of the attempt to the client.    *)
(* The queue itself is only a goroutine that runs, bridges and ends        *)
(* (BridgeQueue, SoloQueue, ChatConversation and ImTransfer model them).   *)
(***************************************************************************)
EXTENDS Naturals, Sequences, FiniteSets

CONSTANTS
    Requests,   \* requests to join, each becomes the attempt of the same name
    Mixes,      \* the kinds of request that come together, or "absent"
    Queued      \* attempts of queues for the agent the requests ask for

Kinds == {"queue_call", "queue_chat", "queue_im",
          "agent_call", "agent_task", "outbound", "direct"}

ASSUME JoiningAssumption ==
    /\ IsFiniteSet(Requests) /\ IsFiniteSet(Queued) /\ Requests \cap Queued = {}
    /\ "none" \notin Queued
    /\ Mixes \subseteq [Requests -> Kinds \cup {"absent"}]

VARIABLES
    Kind,     \* what each request asks for
    Forced,   \* the requests with CancelDistribute
    Ringing,  \* attempts of Queued whose agent leg exists already
    row,      \* cc_member_attempt: is the attempt's row there, live, or over
    result,   \* rows CancelAgentDistribute has stamped with the result cancel
    cached,   \* Manager.membersCache
    h,        \* position of the request's handler
    q,        \* position of the attempt's queue goroutine
    open,     \* channels of the handler's On(...)
    shut,     \* those of them that Off("*") has closed
    mail,     \* events of Emit that are on their way to the handler
    toCancel, \* attempts a forced request still has to cancel
    seen,     \* one of them, found in the cache and not canceled
    closes,   \* how often Attempt.cancel was closed
    canceled, \* Attempt.canceled
    client,   \* is the client of the stream there
    failed,   \* a lookup after the insert, or a statement that ends the row, failed
    alive     \* the process has not panicked

joinVars == <<Kind, Forced, Ringing, row, result, cached, h, q, open, shut, mail, toCancel, seen,
              closes, canceled, client, failed, alive>>

Attempts == Requests \cup Queued
None == "none"
QueueKinds == {"queue_call", "queue_chat", "queue_im", "direct"}
AgentKinds == {"agent_call", "agent_task", "outbound"}
Streams == {"queue_call", "queue_chat", "agent_call", "agent_task"}

\* The streams of grpc_api: the order in which each handler calls On for its hooks.
CallJoinToQueue == <<"bridged", "leaving", "offering">>
ChatJoinToQueue == <<"bridged", "leaving", "offering", "missed">>
CallJoinToAgent == <<"bridged", "leaving">>
TaskJoinToAgent == <<"bridged", "leaving">>

Hooks(kind) ==
    CASE kind = "queue_call" -> CallJoinToQueue
      [] kind = "queue_chat" -> ChatJoinToQueue
      [] kind = "agent_call" -> CallJoinToAgent
      [] kind = "agent_task" -> TaskJoinToAgent

JoinInit ==
    /\ Kind \in Mixes
    /\ Forced \in SUBSET {r \in Requests : Kind[r] \in AgentKinds}
    /\ Ringing \in SUBSET {a \in Queued : Forced # {}}
    /\ row = [a \in Attempts |-> IF a \in Queued THEN "live" ELSE "none"]
    /\ result = {} /\ cached = Queued
    /\ h = [r \in Requests |-> "idle"]
    /\ q = [a \in Attempts |-> IF a \in Queued THEN "runs" ELSE "none"]
    /\ open = [r \in Requests |-> {}] /\ shut = [r \in Requests |-> {}]
    /\ mail = [r \in Requests |-> {}]
    /\ toCancel = [r \in Requests |-> {}] /\ seen = [r \in Requests |-> None]
    /\ closes = [a \in Attempts |-> 0] /\ canceled = {}
    /\ client = [r \in Requests |-> TRUE]
    /\ failed = {} /\ alive = TRUE

GoTo(r, pc) == h' = [h EXCEPT ![r] = pc]
streamVars == <<open, shut, mail, client>>
cancelVars == <<result, toCancel, seen, closes, canceled>>

----------------------------------------------------------------------------
(* The statements. *)

\* cc_distribute_inbound_call_to_queue inserts the row, or refuses (disabled,
\* closed, banned, "MAXWS") and inserts nothing.
CallToQueueRow(r, ok) == row' = [row EXCEPT ![r] = IF ok THEN "live" ELSE @]
ChatToQueueRow(r, ok) == row' = [row EXCEPT ![r] = IF ok THEN "live" ELSE @]
IMToQueueRow(r, ok) == row' = [row EXCEPT ![r] = IF ok THEN "live" ELSE @]

\* The function is called only if the request is forced or the agent has no
\* call attempt that is not leaving.
CallToAgentRow(r, ok) ==
    /\ ok => r \in Forced \/ \A a \in Queued : row[a] # "live"
    /\ row' = [row EXCEPT ![r] = IF ok THEN "live" ELSE @]

\* The same condition over attempts of every channel.
TaskToAgentRow(r, ok) ==
    /\ ok => r \in Forced \/ \A a \in Queued : row[a] # "live"
    /\ row' = [row EXCEPT ![r] = IF ok THEN "live" ELSE @]

\* No condition: the agent has dialled the call.
OutboundCallRow(r, ok) == row' = [row EXCEPT ![r] = IF ok THEN "live" ELSE @]

\* The member must have no attempt, and the communication a resource.
DirectRow(r, ok) == row' = [row EXCEPT ![r] = IF ok THEN "live" ELSE @]

Statement(r, ok) ==
    CASE Kind[r] = "queue_call" -> CallToQueueRow(r, ok)
      [] Kind[r] = "queue_chat" -> ChatToQueueRow(r, ok)
      [] Kind[r] = "queue_im"   -> IMToQueueRow(r, ok)
      [] Kind[r] = "agent_call" -> CallToAgentRow(r, ok)
      [] Kind[r] = "agent_task" -> TaskToAgentRow(r, ok)
      [] Kind[r] = "outbound"   -> OutboundCallRow(r, ok)
      [] Kind[r] = "direct"     -> DirectRow(r, ok)

\* DistributeCallToQueueCancel ends the row; printfIfErr only logs a failure.
DistributeCallToQueueCancel(r, ok) ==
    /\ row' = [row EXCEPT ![r] = IF ok THEN "over" ELSE @]
    /\ failed' = IF ok THEN failed ELSE failed \cup {r}

\* The statement of CancelAgentDistribute: the agent's attempts of queues get
\* the result cancel, unless one of the agent's attempts has an agent leg.
CancelAgentRows ==
    IF \E a \in Ringing : row[a] = "live" THEN {}
    ELSE {a \in Queued : row[a] = "live"}

----------------------------------------------------------------------------
(* The request up to the start of its queue. *)

\* The Distribute functions of the manager: what each does next, once its row is
\* there, the agent's other attempts are cancelled, and the agent or the queue is
\* looked up.  A call is taken over ("connect") before the attempt is created.
CancelFirst(forced) == IF forced THEN "cancel" ELSE "agent"
DistributeCall == [row |-> "queue", queue |-> "connect"]
DistributeCallToAgent(forced) == [row |-> CancelFirst(forced), cancel |-> "agent", agent |-> "connect"]
OutboundCall(forced) == [row |-> CancelFirst(forced), cancel |-> "agent", agent |-> "connect"]
DistributeTaskToAgent(forced) == [row |-> CancelFirst(forced), cancel |-> "agent", agent |-> "create"]
DistributeChatToQueue == [row |-> "create"]
DistributeIMToQueue == [row |-> "create"]
DistributeDirectMember == [row |-> "create"]

Function(r) ==
    CASE Kind[r] = "queue_call" -> DistributeCall
      [] Kind[r] = "queue_chat" -> DistributeChatToQueue
      [] Kind[r] = "queue_im"   -> DistributeIMToQueue
      [] Kind[r] = "agent_call" -> DistributeCallToAgent(r \in Forced)
      [] Kind[r] = "agent_task" -> DistributeTaskToAgent(r \in Forced)
      [] Kind[r] = "outbound"   -> OutboundCall(r \in Forced)
      [] Kind[r] = "direct"     -> DistributeDirectMember


Insert(r) ==
    /\ h[r] = "idle" /\ Kind[r] # "absent"
    /\ \E ok \in BOOLEAN :
          Statement(r, ok) /\ GoTo(r, IF ok THEN Function(r).row ELSE "done")
    /\ UNCHANGED <<cached, q, streamVars, cancelVars, failed, alive>>

\* DistributeIMToQueue: a thread that is bridged on this node keeps its attempt.
Rejoin(r) ==
    /\ h[r] = "idle" /\ Kind[r] = "queue_im"
    /\ \E s \in Requests \ {r} : /\ Kind[s] = "queue_im" /\ q[s] = "bridged"
                                 /\ s \in cached
    /\ GoTo(r, "done")
    /\ UNCHANGED <<row, cached, q, streamVars, cancelVars, failed, alive>>

\* CancelAgentDistribute: its statement; a failure is logged and the join goes on.
CancelRows(r) ==
    /\ h[r] = "cancel"
    /\ \E ok \in BOOLEAN :
          /\ toCancel' = [toCancel EXCEPT ![r] = IF ok THEN CancelAgentRows ELSE {}]
          /\ result' = result \cup (IF ok THEN CancelAgentRows ELSE {})
    /\ GoTo(r, "cancelling")
    /\ UNCHANGED <<row, cached, q, streamVars, seen, closes, canceled, failed, alive>>

\* The loop of CancelAgentDistribute: GetAttempt, and a read of canceled
\* without the lock.  The form that reads it the wrong way round:
MutFindToCancel(r) ==
    /\ h[r] = "cancelling" /\ seen[r] = None
    /\ \/ /\ toCancel[r] = {} /\ GoTo(r, Function(r).cancel) /\ UNCHANGED <<seen, toCancel>>
       \/ \E a \in toCancel[r] :
             /\ toCancel' = [toCancel EXCEPT ![r] = @ \ {a}]
             /\ seen' = [seen EXCEPT ![r] = IF a \in cached \cap canceled THEN a ELSE None]
             /\ UNCHANGED h
    /\ UNCHANGED <<row, cached, q, streamVars, result, closes, canceled, failed, alive>>

FindToCancel(r) ==
    /\ h[r] = "cancelling" /\ seen[r] = None
    /\ \/ /\ toCancel[r] = {} /\ GoTo(r, Function(r).cancel) /\ UNCHANGED <<seen, toCancel>>
       \/ \E a \in toCancel[r] :
             /\ toCancel' = [toCancel EXCEPT ![r] = @ \ {a}]
             /\ seen' = [seen EXCEPT ![r] = IF a \in cached /\ a \notin canceled
                                             THEN a ELSE None]
             /\ UNCHANGED h
    /\ UNCHANGED <<row, cached, q, streamVars, result, closes, canceled, failed, alive>>

\* Attempt.SetCancel closes the channel of an attempt that is not canceled.
\* The form without the test under the lock:
MutSetCancel(a) ==
    /\ canceled' = canceled \cup {a}
    /\ closes' = [closes EXCEPT ![a] = @ + 1]

SetCancel(a) ==
    IF a \in canceled THEN UNCHANGED <<canceled, closes>>
    ELSE /\ canceled' = canceled \cup {a}
         /\ closes' = [closes EXCEPT ![a] = @ + 1]

CancelSeen(r) ==
    /\ seen[r] # None
    /\ SetCancel(seen[r])
    /\ seen' = [seen EXCEPT ![r] = None]
    /\ UNCHANGED <<row, cached, h, q, streamVars, result, toCancel, failed, alive>>

\* GetAgent, or GetQueue for a call that joins a queue.  A failure returns and
\* leaves the row behind.
Lookup(r) ==
    /\ h[r] \in {"agent", "queue"}
    /\ \/ /\ GoTo(r, IF h[r] = "agent" THEN Function(r).agent ELSE Function(r).queue)
          /\ UNCHANGED failed
       \/ /\ failed' = failed \cup {r} /\ GoTo(r, "done")
    /\ UNCHANGED <<row, cached, q, streamVars, cancelVars, alive>>

\* InboundCallQueue or ConnectCall takes the call over; if that fails the row is
\* cancelled.  The form that forgets the cancellation:
MutConnect(r) ==
    /\ h[r] = "connect"
    /\ \E ok \in BOOLEAN : GoTo(r, IF ok THEN "create" ELSE "done")
    /\ UNCHANGED <<row, failed, cached, q, streamVars, cancelVars, alive>>

Connect(r) ==
    /\ h[r] = "connect"
    /\ \/ GoTo(r, "create") /\ UNCHANGED <<row, failed>>
       \/ /\ GoTo(r, "done")
          /\ \E ok \in BOOLEAN : DistributeCallToQueueCancel(r, ok)
    /\ UNCHANGED <<cached, q, streamVars, cancelVars, alive>>

\* CreateAttemptIfNotExists caches the attempt and panics if its agent cannot be
\* read: a direct member's agent is read here for the first time.
Create(r) ==
    /\ h[r] = "create"
    /\ \/ alive' = alive
       \/ Kind[r] = "direct" /\ alive' = FALSE
    /\ cached' = cached \cup {r}
    /\ GoTo(r, "start")
    /\ UNCHANGED <<row, q, streamVars, cancelVars, failed>>

----------------------------------------------------------------------------
(* DistributeAttempt. *)

\* Abandoned: a statement that ends the row, and LeavingMember in any case.
Abandoned(r, ok) ==
    /\ row' = [row EXCEPT ![r] = IF ok THEN "over" ELSE @]
    /\ failed' = IF ok THEN failed ELSE failed \cup {r}
    /\ cached' = cached \ {r}

\* Where a handler goes after its queue has started, or has been refused.
Started(r) == IF Kind[r] \in Streams THEN "on" ELSE "done"
Refused(r) == IF Kind[r] \in QueueKinds \ {"direct"} THEN "refused" ELSE "done"

\* GetQueue fails: the attempt stays in the cache and never starts.
DistributeNoQueue(r) ==
    /\ h[r] = "start" /\ Kind[r] \in QueueKinds
    /\ failed' = failed \cup {r}
    /\ GoTo(r, Refused(r))
    /\ UNCHANGED <<row, cached, q, streamVars, cancelVars, alive>>

\* IsBarred: the row is barred and the attempt leaves; no error is returned.
DistributeBarred(r) ==
    /\ h[r] = "start" /\ Kind[r] \in {"queue_chat", "queue_im", "direct"}
    /\ \E ok \in BOOLEAN : Abandoned(r, ok)
    /\ GoTo(r, Started(r))
    /\ UNCHANGED <<q, streamVars, cancelVars, alive>>

\* queue.DistributeAttempt starts the goroutine, or returns an error that
\* abandons the attempt.  The form that returns without doing so:
MutDistributeAttempt(r) ==
    /\ h[r] = "start"
    /\ \/ /\ q' = [q EXCEPT ![r] = "runs"] /\ GoTo(r, Started(r))
          /\ UNCHANGED <<row, cached, failed>>
       \/ GoTo(r, "done") /\ UNCHANGED <<q, row, cached, failed>>
    /\ UNCHANGED <<streamVars, cancelVars, alive>>

DistributeAttempt(r) ==
    /\ h[r] = "start"
    /\ \/ /\ q' = [q EXCEPT ![r] = "runs"] /\ GoTo(r, Started(r))
          /\ UNCHANGED <<row, cached, failed>>
       \/ /\ \E ok \in BOOLEAN : Abandoned(r, ok)
          /\ GoTo(r, Refused(r)) /\ UNCHANGED q
    /\ UNCHANGED <<streamVars, cancelVars, alive>>

\* The callers for queues cancel the row after an error, also when it is over.
CancelRefused(r) ==
    /\ h[r] = "refused"
    /\ \E ok \in BOOLEAN : DistributeCallToQueueCancel(r, ok)
    /\ GoTo(r, "done")
    /\ UNCHANGED <<cached, q, streamVars, cancelVars, alive>>

----------------------------------------------------------------------------
(* The attempt's queue, as far as the stream sees it. *)

\* Emit reaches the listeners of the event that are not closed; the form that does
\* not look at the event:
MutEmit(a, hook) ==
    mail' = IF a \in Requests /\ open[a] # {} THEN [mail EXCEPT ![a] = @ \cup {hook}] ELSE mail

Emit(a, hook) ==
    mail' = IF a \in Requests /\ hook \in open[a] \ shut[a]
            THEN [mail EXCEPT ![a] = @ \cup {hook}] ELSE mail

\* Offers, misses and the bridge.
QueueEvent(a) ==
    /\ q[a] = "runs"
    /\ \E hook \in {"offering", "missed", "bridged"} :
          /\ Emit(a, hook)
          /\ q' = [q EXCEPT ![a] = IF hook = "bridged" THEN "bridged" ELSE @]
    /\ UNCHANGED <<row, cached, h, open, shut, client, cancelVars, failed, alive>>

\* The end: the statement, LeavingMember, and then Emit(leaving).  The queue of
\* a direct task emits nothing.
QueueEnds(a) ==
    /\ q[a] \in {"runs", "bridged"}
    /\ \E ok \in BOOLEAN : Abandoned(a, ok)
    /\ IF a \in Requests /\ Kind[a] = "agent_task"
       THEN q' = [q EXCEPT ![a] = "off"] /\ UNCHANGED mail
       ELSE q' = [q EXCEPT ![a] = "emitted"] /\ Emit(a, "leaving")
    /\ UNCHANGED <<h, open, shut, client, cancelVars, alive>>

\* Off("*") closes the channels; what is still on its way is dropped.
QueueOff(a) ==
    /\ q[a] = "emitted"
    /\ q' = [q EXCEPT ![a] = "off"]
    /\ IF a \in Requests
       THEN /\ shut' = [shut EXCEPT ![a] = open[a]]
            /\ mail' = [mail EXCEPT ![a] = {}]
       ELSE UNCHANGED <<shut, mail>>
    /\ UNCHANGED <<row, cached, h, open, client, cancelVars, failed, alive>>

----------------------------------------------------------------------------
(* The stream. *)

\* One On(...) after the other, and then the event Joined; a failed send returns
\* (the streams to an agent ignore it).
Subscribe(r) ==
    LET hooks == Hooks(Kind[r]) n == Cardinality(open[r])
    IN /\ h[r] = "on"
       /\ IF n < Len(hooks)
          THEN open' = [open EXCEPT ![r] = @ \cup {hooks[n + 1]}] /\ UNCHANGED h
          ELSE /\ \/ GoTo(r, "stream")
                  \/ /\ ~client[r] /\ Kind[r] \in {"queue_call", "queue_chat"}
                     /\ GoTo(r, "done")
               /\ UNCHANGED open
       /\ UNCHANGED <<row, cached, q, shut, mail, client, cancelVars, failed, alive>>

\* case <-leaving: an event or a closed channel, both end the stream.  The form
\* that insists on an event:
MutReceiveLeaving(r) ==
    /\ h[r] = "stream" /\ "leaving" \in mail[r]
    /\ GoTo(r, "done")
    /\ UNCHANGED <<row, cached, q, streamVars, cancelVars, failed, alive>>

ReceiveLeaving(r) ==
    /\ h[r] = "stream" /\ "leaving" \in mail[r] \cup shut[r]
    /\ GoTo(r, "done")
    /\ UNCHANGED <<row, cached, q, streamVars, cancelVars, failed, alive>>

\* The other cases send what they get and ignore a closed channel.
ReceiveOther(r) ==
    /\ h[r] = "stream"
    /\ \E hook \in mail[r] \ {"leaving"} : mail' = [mail EXCEPT ![r] = @ \ {hook}]
    /\ UNCHANGED <<row, cached, h, q, open, shut, client, cancelVars, failed, alive>>

ClientGoes(r) ==
    /\ client[r] /\ h[r] \notin {"idle", "done"} /\ Kind[r] \in Streams
    /\ client' = [client EXCEPT ![r] = FALSE]
    /\ UNCHANGED <<row, cached, h, q, open, shut, mail, cancelVars, failed, alive>>

\* Only the stream of a chat watches its context.
ContextDone(r) ==
    /\ h[r] = "stream" /\ Kind[r] = "queue_chat" /\ ~client[r]
    /\ SetCancel(r) /\ GoTo(r, "done")
    /\ UNCHANGED <<row, cached, q, streamVars, result, toCancel, seen, failed, alive>>

\* The request CancelAttempt: SetAttemptCancel.
CancelAttempt(a) ==
    /\ a \in cached
    /\ SetCancel(a)
    /\ UNCHANGED <<row, cached, h, q, streamVars, result, toCancel, seen, failed, alive>>

----------------------------------------------------------------------------
HandlerStep(r) ==
    \/ Insert(r) \/ Rejoin(r) \/ CancelRows(r) \/ FindToCancel(r) \/ CancelSeen(r)
    \/ Lookup(r) \/ Connect(r) \/ Create(r) \/ DistributeNoQueue(r)
    \/ DistributeBarred(r) \/ DistributeAttempt(r) \/ CancelRefused(r)
    \/ Subscribe(r) \/ ReceiveOther(r)

JoinNext ==
    /\ alive /\ UNCHANGED <<Kind, Forced, Ringing>>
    /\ \/ \E r \in Requests : \/ HandlerStep(r) \/ ReceiveLeaving(r)
                              \/ ClientGoes(r) \/ ContextDone(r)
       \/ \E a \in Attempts : \/ QueueEvent(a) \/ QueueEnds(a) \/ QueueOff(a)
                              \/ CancelAttempt(a)

JoinSpec == JoinInit /\ [][JoinNext]_joinVars

\* Handlers and queue goroutines run, and a select takes a case that stays ready.
\* Nobody need join, end a call or leave.
JoinFairness ==
    LET Fair(A) == alive /\ A /\ UNCHANGED <<Kind, Forced, Ringing>> IN
    \A r \in Requests : /\ WF_joinVars(Fair(ReceiveLeaving(r)))
                        /\ WF_joinVars(Fair(Subscribe(r)))
                        /\ WF_joinVars(Fair(QueueOff(r)))

JoinTypeOK ==
    /\ row \in [Attempts -> {"none", "live", "over"}]
    /\ result \subseteq Queued /\ cached \subseteq Attempts
    /\ h \in [Requests -> {"idle", "cancel", "cancelling", "agent", "queue", "connect",
                           "create", "start", "refused", "on", "stream", "done"}]
    /\ q \in [Attempts -> {"none", "runs", "bridged", "emitted", "off"}]
    /\ \A r \in Requests : shut[r] \subseteq open[r] /\ mail[r] \subseteq open[r]
    /\ toCancel \in [Requests -> SUBSET Queued]
    /\ seen \in [Requests -> Queued \cup {None}]
    /\ canceled \subseteq Attempts /\ client \in [Requests -> BOOLEAN]
    /\ failed \subseteq Attempts /\ alive \in BOOLEAN

\* A live row and a cached attempt have somebody who works for them: the handler
\* that has not returned yet, or the queue's goroutine.  A connection that cannot
\* be made and a queue that refuses leave nothing behind.  Excepted are requests
\* for which a lookup, or a statement that ends a row, has failed: the
\* Distribute functions then return and leave the row or the cached attempt.
JoinsAreOwned ==
    \A r \in Requests \ failed :
        row[r] = "live" \/ r \in cached =>
            h[r] \notin {"idle", "done", "on", "stream"} \/ q[r] \in {"runs", "bridged"}

\* The cancel channel of an attempt is closed once (a second close panics),
\* although forced requests, clients and the stream of a chat cancel it at the
\* same time and CancelAgentDistribute reads canceled without the lock.
CancelClosedOnce == \A a \in Attempts : closes[a] =< 1

\* A row that a forced request stamped with the result cancel belongs to an attempt
\* that has been told, or is about to be, or has left.
CancelledIsTold ==
    \A a \in result :
        \/ a \in canceled \/ a \notin cached
        \/ \E r \in Requests : a \in toCancel[r] \cup {seen[r]}

\* A stream whose handler is subscribed to leaving when the queue emits it ends,
\* whether the event arrives or Off("*") closes the channel first.
StreamEnds ==
    \A r \in Requests :
        ("leaving" \in open[r] /\ q[r] = "emitted") ~> (h[r] = "done" \/ ~alive)
============================================================================
