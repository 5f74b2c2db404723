----------------------------- MODULE ImTransfer ------------------------------
(***************************************************************************)
(* A conversation in an inbound messaging queue and its transfer from one  *)
(* operator to the next: queue/im_inbound.go, the transfer of              *)
(* queue_manager.go and attempt.go, the agent's task channel and the       *)
(* sessions of the im client.                                              *)
(*                                                                         *)
(* A conversation is one thread at the gateway (external).  Every attempt  *)
(* on it runs its own goroutine with a session of the shared thread.       *)
(* TransferIM reserves the transfer on the source attempt, starts a target *)
(* attempt, and only afterwards writes the target's id into the source.    *)
(* When the target's agent accepts, the target replaces the source's agent *)
(* at the gateway and completes the source.  Meanwhile the gateway's events*)
(* about removed members go to every session of the thread.                *)
(*                                                                         *)
(* The queue has no processing: an attempt leaves the cache of attempts    *)
(* when finalizeAttempt returns.  Calls that take back a preview or a      *)
(* membership succeed.                                                     *)
(***************************************************************************)
EXTENDS Integers, Sequences, FiniteSets

CONSTANTS
    Attempts,   \* the attempts on the thread
    First,      \* the attempt the conversation starts with
    Agents,     \* the operators
    None,       \* no attempt, no agent
    Failures,   \* BOOLEAN: gateway and store calls of a transfer may fail
    Direct,     \* may a transfer name the next agent, or name a queue: a set of BOOLEAN
    Sources,    \* the attempts that agents transfer
    Calls,      \* what the agents and the client do by themselves
    MaxOffers   \* bound on the offers of one attempt

Members == Agents \X Attempts

ASSUME ImAssumption ==
    /\ First \in Attempts /\ None \notin Attempts /\ None \notin Agents
    /\ None \notin Members /\ {"idle", "reserved"} \cap Attempts = {}
    /\ Failures \in BOOLEAN /\ Direct \subseteq BOOLEAN /\ Sources \subseteq Attempts
    /\ Calls \subseteq {"accept", "close", "report", "client leaves", "agent leaves"}
    /\ MaxOffers \in Nat

VARIABLES
    phase,      \* where the run goroutine of each attempt is
    origin,     \* source attempt, transfer initiator and named agent of an attempt
    agent,      \* attempt.agent
    offered,    \* the run goroutine's own agent variable: it survives a missed offer
    task,       \* the TaskChannel of the offer
    cancel,     \* attempt.cancel: no, set, or seen by the interaction loop
    transfer,   \* imTransferPending, imTransferTo, imTransferred closed
    sess,       \* the session: listed, cancelled, member, user, preview
    rpc,        \* the TransferIM call on an attempt: idle, reserved, or the new attempt
    tidy,       \* what is left of a finished attempt: release, cleanup
    offers,     \* offers made so far
    thread,     \* members at the gateway: the agent and the attempt that added it
    previews,   \* previews at the gateway
    client,     \* the client is in the thread
    events      \* events of the gateway, in the order im.Client reads them

queue == <<phase, origin, agent, offered, task, cancel, transfer, rpc, tidy, offers>>
gateway == <<thread, previews, client, events>>
vars == <<queue, sess, gateway>>

Phases == {"none", "wait", "offer", "close", "join", "complete", "talk", "final", "over", "stuck"}
NoTask == [bridged |-> FALSE, closed |-> FALSE, reporting |-> FALSE, states |-> <<>>]
NoSession == [listed |-> FALSE, done |-> FALSE, member |-> None, user |-> None, preview |-> None]

OriginSet == [source : Attempts \cup {None}, initiator : Agents \cup {None}, named : BOOLEAN]
TaskSet == [bridged : BOOLEAN, closed : BOOLEAN, reporting : BOOLEAN, states : Seq({"bridged", "closed"})]
TransferSet == [pending : BOOLEAN, to : Attempts \cup {None}, done : BOOLEAN]
SessionSet == [listed : BOOLEAN, done : BOOLEAN, member : Members \cup {None},
               user : Agents \cup {None}, preview : Agents \cup {None}]
EventSet == [client : BOOLEAN, member : Members \cup {None}]

(* Every variable keeps its type. *)
TypeOK ==
    /\ phase \in [Attempts -> Phases]
    /\ origin \in [Attempts -> OriginSet]
    /\ agent \in [Attempts -> Agents \cup {None}] /\ offered \in [Attempts -> Agents \cup {None}]
    /\ task \in [Attempts -> TaskSet]
    /\ cancel \in [Attempts -> {"no", "set", "seen"}]
    /\ transfer \in [Attempts -> TransferSet]
    /\ sess \in [Attempts -> SessionSet]
    /\ rpc \in [Attempts -> {"idle", "reserved"} \cup Attempts]
    /\ tidy \in [Attempts -> SUBSET {"release", "cleanup"}]
    /\ offers \in [Attempts -> 0..MaxOffers]
    /\ thread \subseteq Members /\ previews \subseteq Members
    /\ client \in BOOLEAN
    /\ events \in Seq(EventSet)

(* startIMAttempt: DistributeAttempt opens the session and starts run. *)
Fresh(p, a) == [p EXCEPT ![a] = "wait"]
Opened(s, a) == [s EXCEPT ![a].listed = TRUE]

Init ==
    /\ phase = Fresh([a \in Attempts |-> "none"], First)
    /\ sess = Opened([a \in Attempts |-> NoSession], First)
    /\ origin = [a \in Attempts |-> [source |-> None, initiator |-> None, named |-> FALSE]]
    /\ agent = [a \in Attempts |-> None] /\ offered = [a \in Attempts |-> None]
    /\ task = [a \in Attempts |-> NoTask]
    /\ cancel = [a \in Attempts |-> "no"]
    /\ transfer = [a \in Attempts |-> [pending |-> FALSE, to |-> None, done |-> FALSE]]
    /\ rpc = [a \in Attempts |-> "idle"]
    /\ tidy = [a \in Attempts |-> {}]
    /\ offers = [a \in Attempts |-> 0]
    /\ thread = {} /\ previews = {} /\ client = TRUE /\ events = <<>>

(* qm.GetAttempt finds an attempt until LeavingMember removed it. *)
GetAttempt(a) == a # None /\ phase[a] \notin {"none", "over"}

Goto(a, p) == phase' = [phase EXCEPT ![a] = p]

-----------------------------------------------------------------------------
(* The task channel.  setState sends on a channel of one place while it    *)
(* holds the lock: with one unread state a second sender waits, and until  *)
(* the run goroutine reads, every other method of the task waits for it.   *)

Free(t) == Len(t.states) <= 1
Answered(t) == [t EXCEPT !.bridged = TRUE, !.states = Append(@, "bridged")]
Closed(t) == [t EXCEPT !.closed = TRUE, !.states = Append(@, "closed")]

(* AcceptAgentTask: refused when the task is already answered. *)
AcceptAgentTask(a) ==
    /\ "accept" \in Calls /\ GetAttempt(a) /\ offers[a] > 0 /\ Free(task[a]) /\ ~task[a].bridged
    /\ task' = [task EXCEPT ![a] = Answered(@)]
    /\ UNCHANGED <<phase, origin, agent, offered, cancel, transfer, rpc, tidy, offers, sess, gateway>>

(* CloseAgentTask: refused when the task is already closed. *)
CloseAgentTask(a) ==
    /\ "close" \in Calls /\ GetAttempt(a) /\ offers[a] > 0 /\ Free(task[a]) /\ ~task[a].closed
    /\ task' = [task EXCEPT ![a] = Closed(@)]
    /\ UNCHANGED <<phase, origin, agent, offered, cancel, transfer, rpc, tidy, offers, sess, gateway>>

(* setChannelReporting: the agent's report closes the task. *)
ReportTask(a) ==
    /\ "report" \in Calls /\ GetAttempt(a) /\ offers[a] > 0 /\ Free(task[a]) /\ ~task[a].reporting
    /\ task' = [task EXCEPT ![a] = IF @.closed THEN [@ EXCEPT !.reporting = TRUE]
                                              ELSE [Closed(@) EXCEPT !.reporting = TRUE]]
    /\ UNCHANGED <<phase, origin, agent, offered, cancel, transfer, rpc, tidy, offers, sess, gateway>>

-----------------------------------------------------------------------------
(* The gateway and the sessions. *)

Contacts == {m[1] : m \in thread}
Removed(m) == [client |-> FALSE, member |-> m]
ClientRemoved == [client |-> TRUE, member |-> None]

(* im.Client.handleEvent for every session of the thread: a session is     *)
(* cancelled when its client or its agent left.                            *)
HandleEvent ==
    /\ events # <<>>
    /\ LET e == Head(events)
           Affects(a) == sess[a].listed /\ (e.client \/ (e.member # None /\ e.member = sess[a].member))
       IN sess' = [a \in Attempts |-> [sess[a] EXCEPT !.done = @ \/ Affects(a)]]
    /\ events' = Tail(events)
    /\ UNCHANGED <<queue, thread, previews, client>>

(* The client, or an agent on its own account, leaves the thread. *)
ClientLeaves ==
    /\ "client leaves" \in Calls /\ client
    /\ client' = FALSE
    /\ events' = Append(events, ClientRemoved)
    /\ UNCHANGED <<queue, sess, thread, previews>>

AgentLeaves(m) ==
    /\ "agent leaves" \in Calls /\ m \in thread
    /\ thread' = thread \ {m}
    /\ events' = Append(events, Removed(m))
    /\ UNCHANGED <<queue, sess, previews, client>>

-----------------------------------------------------------------------------
(* The run goroutine. *)

(* The distribution picks the initiator of the transfer: skipped. *)
SkipInitiator(a) ==
    /\ phase[a] = "wait" /\ origin[a].initiator # None /\ ~origin[a].named
    /\ offered' = [offered EXCEPT ![a] = origin[a].initiator]
    /\ UNCHANGED <<phase, origin, agent, task, cancel, transfer, rpc, tidy, offers, sess, gateway>>

(* What becomes of an offer: an agent that is in the thread already is     *)
(* taken as accepted, ...                                                  *)
TakenAsAccepted(a, x) ==
    /\ x \in Contacts
    /\ sess' = [sess EXCEPT ![a].user = x]
    /\ task' = [task EXCEPT ![a] = Answered(NoTask)]
    /\ agent' = [agent EXCEPT ![a] = x] /\ offered' = [offered EXCEPT ![a] = x]
    /\ Goto(a, "offer") /\ UNCHANGED previews

(* ... another one gets a preview, ... *)
Previewed(a, x) ==
    /\ x \notin Contacts
    /\ previews' = previews \cup {<<x, a>>}
    /\ sess' = [sess EXCEPT ![a].preview = x]
    /\ task' = [task EXCEPT ![a] = NoTask]
    /\ agent' = [agent EXCEPT ![a] = x] /\ offered' = [offered EXCEPT ![a] = x]
    /\ Goto(a, "offer")

(* ... and without a preview it is missed: a transfer to a named agent is over. *)
NotPreviewed(a, x) ==
    /\ Failures
    /\ task' = [task EXCEPT ![a] = NoTask]
    /\ agent' = [agent EXCEPT ![a] = None]
    /\ offered' = [offered EXCEPT ![a] = IF origin[a].named THEN None ELSE x]
    /\ Goto(a, IF origin[a].named THEN "final" ELSE "wait")
    /\ UNCHANGED <<sess, previews>>

(* An agent for the attempt: preview, invite, offer. *)
TakeAgent(a, x) ==
    /\ phase[a] = "wait" /\ x # origin[a].initiator /\ offers[a] < MaxOffers
    /\ offers' = [offers EXCEPT ![a] = @ + 1]
    /\ TakenAsAccepted(a, x) \/ Previewed(a, x) \/ NotPreviewed(a, x)
    /\ UNCHANGED <<origin, cancel, transfer, rpc, tidy, thread, client, events>>

(* The invite timer and a cancelled attempt close a task that is not       *)
(* answered: bridgedAt is read here, without the lock ...                  *)
InviteTimeout(a) ==
    /\ phase[a] = "offer" /\ ~task[a].bridged
    /\ Goto(a, "close")
    /\ UNCHANGED <<origin, agent, offered, task, cancel, transfer, rpc, tidy, offers, sess, gateway>>

SeeCancel(a) ==
    /\ phase[a] \in {"offer", "talk"} /\ cancel[a] = "set"
    /\ cancel' = [cancel EXCEPT ![a] = "seen"]
    /\ Goto(a, IF task[a].bridged THEN phase[a] ELSE "close")
    /\ UNCHANGED <<origin, agent, offered, task, transfer, rpc, tidy, offers, sess, gateway>>

(* ... and SetClosed runs now.  If the agent accepted in between, the      *)
(* channel's place is taken and its only reader waits for itself.          *)
CloseTask(a) ==
    /\ phase[a] = "close"
    /\ \/ /\ Free(task[a]) /\ task[a].closed
          /\ Goto(a, "offer") /\ UNCHANGED task
       \/ /\ Free(task[a]) /\ ~task[a].closed
          /\ task' = [task EXCEPT ![a] = Closed(@)]
          /\ Goto(a, IF task[a].states = <<>> THEN "offer" ELSE "stuck")
       \/ /\ ~Free(task[a])
          /\ Goto(a, "stuck") /\ UNCHANGED task
    /\ UNCHANGED <<origin, agent, offered, cancel, transfer, rpc, tidy, offers, sess, gateway>>

MutMissed(a) ==
    /\ agent' = [agent EXCEPT ![a] = None]
    /\ offered' = [offered EXCEPT ![a] = IF origin[a].named THEN None ELSE @]
    /\ Goto(a, IF origin[a].named THEN "final" ELSE "wait")
    /\ sess' = [sess EXCEPT ![a].preview = None]
    /\ UNCHANGED <<previews, thread>>

(* removePreview and MissedAgentAndWaitingAttempt; a transfer to a named   *)
(* agent does not look for another one.                                    *)
Missed(a) ==
    /\ agent' = [agent EXCEPT ![a] = None]
    /\ offered' = [offered EXCEPT ![a] = IF origin[a].named THEN None ELSE @]
    /\ Goto(a, IF origin[a].named THEN "final" ELSE "wait")
    /\ sess' = [sess EXCEPT ![a].preview = None]
    /\ previews' = previews \ {<<agent[a], a>>}
    /\ UNCHANGED thread

(* The interaction loop reads the task's state. *)
ReadTask(a) ==
    /\ phase[a] \in {"offer", "talk"} /\ task[a].states # <<>>
    /\ task' = [task EXCEPT ![a].states = Tail(@)]
    /\ CASE Head(task[a].states) = "bridged" ->
               Goto(a, "join") /\ UNCHANGED <<agent, offered, sess, previews, thread>>
         [] Head(task[a].states) = "closed" /\ ~task[a].bridged -> Missed(a)
         [] OTHER -> /\ Goto(a, "final")
                     /\ offered' = [offered EXCEPT ![a] = agent[a]]
                     /\ UNCHANGED <<agent, sess, previews, thread>>
    /\ UNCHANGED <<origin, cancel, transfer, rpc, tidy, offers, client, events>>

Joined(a) ==
    sess' = [sess EXCEPT ![a] = [@ EXCEPT !.member = <<agent[a], a>>, !.user = agent[a], !.preview = None]]

(* joinAgent: the accepted agent becomes a member: it is one already, its  *)
(* preview is upgraded, or it is added.                                    *)
JoinAgent(a) ==
    /\ phase[a] = "join" /\ origin[a].initiator = None
    /\ \/ /\ sess[a].user = agent[a]
          /\ Goto(a, "talk") /\ UNCHANGED <<agent, offered, sess, previews, thread>>
       \/ /\ sess[a].user # agent[a] /\ agent[a] \notin Contacts
          /\ Joined(a)
          /\ thread' = thread \cup {<<agent[a], a>>}
          /\ previews' = previews \ {<<agent[a], a>>}
          /\ Goto(a, "talk") /\ UNCHANGED <<agent, offered>>
       \/ /\ sess[a].user # agent[a] /\ (agent[a] \in Contacts \/ Failures)
          /\ Missed(a)
    /\ UNCHANGED <<origin, task, cancel, transfer, rpc, tidy, offers, client, events>>

(* transferAgent: the gateway replaces the initiator by the new agent in   *)
(* one call, which fails when the initiator has left.                      *)
TransferAgent(a) ==
    /\ phase[a] = "join" /\ origin[a].initiator # None
    /\ \/ \E m \in thread :
             /\ m[1] = origin[a].initiator /\ agent[a] \notin Contacts
             /\ Joined(a)
             /\ thread' = (thread \ {m}) \cup {<<agent[a], a>>}
             /\ previews' = previews \ {<<agent[a], a>>}
             /\ events' = Append(events, Removed(m))
             /\ Goto(a, "complete") /\ UNCHANGED <<agent, offered>>
       \/ /\ origin[a].initiator \notin Contacts \/ agent[a] \in Contacts \/ Failures
          /\ Missed(a)
          /\ UNCHANGED events
    /\ UNCHANGED <<origin, task, cancel, transfer, rpc, tidy, offers, client>>

(* completeIMTransfer on the source attempt, if it is still there. *)
CompleteIMTransfer(a) ==
    /\ phase[a] = "complete"
    /\ transfer' = IF GetAttempt(origin[a].source)
                     THEN [transfer EXCEPT ![origin[a].source] = [@ EXCEPT !.done = TRUE, !.pending = FALSE]]
                     ELSE transfer
    /\ Goto(a, "talk")
    /\ UNCHANGED <<origin, agent, offered, task, cancel, rpc, tidy, offers, sess, gateway>>

Leave(a) ==
    /\ offered' = IF phase[a] = "wait" THEN offered ELSE [offered EXCEPT ![a] = agent[a]]
    /\ Goto(a, "final")
    /\ UNCHANGED <<origin, agent, task, cancel, transfer, rpc, tidy, offers, sess, gateway>>

(* The ways out of the two loops: the attempt was transferred, its session *)
(* was cancelled, it was cancelled itself while it waited for an agent, or *)
(* the wait or idle timer ran out.                                         *)
Transferred(a) == phase[a] \in {"offer", "talk"} /\ transfer[a].done /\ Leave(a)
SessionDone(a) == phase[a] \in {"wait", "offer", "talk"} /\ sess[a].done /\ Leave(a)
CancelWait(a) == phase[a] = "wait" /\ cancel[a] # "no" /\ Leave(a)
CheckIdleTimeouts(a) == phase[a] \in {"wait", "offer", "talk"} /\ Leave(a)

(* finalizeAttempt: a source that was not transferred cancels its target.  *)
(* It asks the task, and waits for ever for a task whose lock is held.     *)
FinalizeAttempt(a) ==
    /\ phase[a] = "final"
    /\ LET to == transfer[a].to
       IN cancel' = IF ~transfer[a].done /\ GetAttempt(to) /\ cancel[to] = "no"
                      THEN [cancel EXCEPT ![to] = "set"] ELSE cancel
    /\ IF offered[a] # None /\ ~Free(task[a])
          THEN Goto(a, "stuck") /\ UNCHANGED tidy
          ELSE Goto(a, "over") /\ tidy' = [tidy EXCEPT ![a] = {"release", "cleanup"}]
    /\ UNCHANGED <<origin, agent, offered, task, transfer, rpc, offers, sess, gateway>>

MutCleanupSession(a) ==
    /\ "cleanup" \in tidy[a]
    /\ tidy' = [tidy EXCEPT ![a] = @ \ {"cleanup"}]
    /\ previews' = previews \ {<<sess[a].preview, a>>}
    /\ sess' = [sess EXCEPT ![a] = NoSession] /\ task' = [task EXCEPT ![a] = NoTask]
    /\ offered' = [offered EXCEPT ![a] = None] /\ cancel' = [cancel EXCEPT ![a] = "no"]
    /\ UNCHANGED <<phase, origin, agent, transfer, rpc, offers, client, thread, events>>

(* cleanupSession: the preview and the membership of an agent that was not *)
(* transferred are taken back, the session is closed.  What the attempt    *)
(* still has in memory is garbage from here on.                            *)
CleanupSession(a) ==
    /\ "cleanup" \in tidy[a]
    /\ tidy' = [tidy EXCEPT ![a] = @ \ {"cleanup"}]
    /\ previews' = IF offered[a] = None THEN previews ELSE previews \ {<<sess[a].preview, a>>}
    /\ sess' = [sess EXCEPT ![a] = NoSession] /\ task' = [task EXCEPT ![a] = NoTask]
    /\ offered' = [offered EXCEPT ![a] = None] /\ cancel' = [cancel EXCEPT ![a] = "no"]
    /\ IF offered[a] # None /\ ~transfer[a].done /\ sess[a].member \in thread
          THEN thread' = thread \ {sess[a].member} /\ events' = Append(events, Removed(sess[a].member))
          ELSE UNCHANGED <<thread, events>>
    /\ UNCHANGED <<phase, origin, agent, transfer, rpc, offers, client>>

-----------------------------------------------------------------------------
(* The transfer. *)

(* releaseIMTransfer(toId): only the target the source knows releases it. *)
Released(t, a) == IF t.to = None \/ t.to = a THEN [t EXCEPT !.pending = FALSE, !.to = None] ELSE t

(* The deferred release when the target's run goroutine returns. *)
ReleaseIMTransfer(a) ==
    /\ "release" \in tidy[a]
    /\ tidy' = [tidy EXCEPT ![a] = @ \ {"release"}]
    /\ LET s == origin[a].source
       IN transfer' = IF GetAttempt(s) THEN [transfer EXCEPT ![s] = Released(@, a)] ELSE transfer
    /\ UNCHANGED <<phase, origin, agent, offered, task, cancel, rpc, offers, sess, gateway>>

MutReserveIMTransfer(a) ==
    /\ a \in Sources /\ phase[a] = "talk" /\ rpc[a] = "idle"
    /\ ~transfer[a].done
    /\ transfer' = [transfer EXCEPT ![a].pending = TRUE]
    /\ rpc' = [rpc EXCEPT ![a] = "reserved"]
    /\ UNCHANGED <<phase, origin, agent, offered, task, cancel, tidy, offers, sess, gateway>>

(* TransferIM: only a bridged attempt without a pending transfer. *)
ReserveIMTransfer(a) ==
    /\ a \in Sources /\ phase[a] = "talk" /\ rpc[a] = "idle"
    /\ ~transfer[a].pending /\ ~transfer[a].done
    /\ transfer' = [transfer EXCEPT ![a].pending = TRUE]
    /\ rpc' = [rpc EXCEPT ![a] = "reserved"]
    /\ UNCHANGED <<phase, origin, agent, offered, task, cancel, tidy, offers, sess, gateway>>

(* distributeIMTransfer starts the target attempt, or fails. *)
DistributeIMTransfer(a) ==
    /\ rpc[a] = "reserved"
    /\ \/ \E b \in Attempts, direct \in Direct :
             /\ phase[b] = "none"
             /\ phase' = Fresh(phase, b) /\ sess' = Opened(sess, b)
             /\ origin' = [origin EXCEPT ![b] = [source |-> a, initiator |-> agent[a], named |-> direct]]
             /\ rpc' = [rpc EXCEPT ![a] = b]
             /\ UNCHANGED transfer
       \/ /\ Failures
          /\ transfer' = [transfer EXCEPT ![a] = Released(@, None)]
          /\ rpc' = [rpc EXCEPT ![a] = "idle"]
          /\ UNCHANGED <<phase, sess, origin>>
    /\ UNCHANGED <<agent, offered, task, cancel, tidy, offers, gateway>>

MutSetIMTransferTo(a) ==
    /\ rpc[a] # "idle"
    /\ transfer' = [transfer EXCEPT ![a].to = rpc[a]]
    /\ rpc' = [rpc EXCEPT ![a] = "idle"]
    /\ UNCHANGED <<phase, origin, agent, offered, task, cancel, tidy, offers, sess, gateway>>

(* setIMTransferTo, after the target is already running. *)
SetIMTransferTo(a) ==
    /\ rpc[a] \in Attempts
    /\ transfer' = [transfer EXCEPT ![a].to = rpc[a]]
    /\ rpc' = [rpc EXCEPT ![a] = "idle"]
    /\ UNCHANGED <<phase, origin, agent, offered, task, cancel, tidy, offers, sess, gateway>>

-----------------------------------------------------------------------------
Task(a) == AcceptAgentTask(a) \/ CloseAgentTask(a) \/ ReportTask(a)

Run(a) ==
    \/ SkipInitiator(a) \/ \E x \in Agents : TakeAgent(a, x)
    \/ InviteTimeout(a) \/ SeeCancel(a) \/ CloseTask(a) \/ ReadTask(a)
    \/ JoinAgent(a) \/ TransferAgent(a) \/ CompleteIMTransfer(a)
    \/ Transferred(a) \/ SessionDone(a) \/ CancelWait(a) \/ CheckIdleTimeouts(a)
    \/ FinalizeAttempt(a) \/ CleanupSession(a) \/ ReleaseIMTransfer(a)

Transfer(a) == ReserveIMTransfer(a) \/ DistributeIMTransfer(a) \/ SetIMTransferTo(a)

Next ==
    \/ \E a \in Attempts : Task(a) \/ Run(a) \/ Transfer(a)
    \/ HandleEvent \/ ClientLeaves \/ \E m \in thread : AgentLeaves(m)

Spec == Init /\ [][Next]_vars

-----------------------------------------------------------------------------
(* An attempt has at most one transfer under way or done: although the     *)
(* reservation, the start of the target and the note of its id are three   *)
(* steps, no second target of the same attempt runs beside the first, and  *)
(* no conversation is handed to two successors.                            *)
OneTarget ==
    \A s \in Attempts :
        LET targets == {b \in Attempts : origin[b].source = s}
            running == {b \in targets : phase[b] # "over" \/ "release" \in tidy[b]}
        IN \A b, c \in running : b = c

(* A preview lasts as long as its offer: an agent that declined, timed out *)
(* or lost the attempt keeps no access to the thread (removePreview on     *)
(* every way out, synchronously before the next agent's preview).          *)
PreviewsRevoked ==
    \A p \in previews :
        \/ agent[p[2]] = p[1] /\ phase[p[2]] \in {"offer", "close", "join", "final", "stuck"}
        \/ "cleanup" \in tidy[p[2]]

(* Nobody stays in the thread for an attempt that is cleaned up: its agent *)
(* was removed by cleanupSession or replaced by the transfer.              *)
NoAgentLeft ==
    \A m \in thread : phase[m[2]] # "over" \/ "cleanup" \in tidy[m[2]]

(* A session is cancelled only because its client left the thread: the     *)
(* comment in handleEvent (client.go:146) says that a removed agent leaves *)
(* the session running.                                                    *)
SessionEndsWithClient == \A a \in Attempts : sess[a].done => ~client
=============================================================================
