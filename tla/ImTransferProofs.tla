-------------------------- MODULE ImTransferProofs ---------------------------
(***************************************************************************)
(* ImTransfer, proved for any attempts and agents, with and without        *)
(* failures, whatever the agents and the client do: a conversation has one *)
(* successor, and nobody keeps a preview or a membership for an attempt    *)
(* that is over.                                                           *)
(***************************************************************************)
EXTENDS ImTransfer, TLAPS

(* The queue of a task's states: no state twice. *)
Distinct(s) == \A i, j \in 1..Len(s) : s[i] = s[j] => i = j
Queue(s) == {s[i] : i \in 1..Len(s)}

(* What an attempt that has not begun, or is not over, looks like. *)
LifeOK(a) ==
    /\ phase[a] = "none" => origin[a].source = None /\ sess[a].user = None
    /\ tidy[a] # {} => phase[a] = "over"
    /\ origin[a].source = None <=> origin[a].initiator = None
    /\ phase[a] \in {"offer", "close", "join", "complete", "talk"} => agent[a] # None

(* A task is answered once: the answer is read before the agent joins. *)
TaskKept(t) ==
    /\ t \in TaskSet /\ Distinct(t.states)
    /\ "bridged" \in Queue(t.states) => t.bridged
    /\ "closed" \in Queue(t.states) => t.closed
TaskOK(a) ==
    /\ TaskKept(task[a])
    /\ phase[a] \in {"join", "complete", "talk"} => task[a].bridged /\ "bridged" \notin Queue(task[a].states)

(* The agent of the attempt has joined the thread. *)
Bridged(s) == phase[s] \in {"talk", "final", "stuck", "over"} /\ agent[s] # None

(* A target that still has a way to go. *)
Running(b, s) == origin[b].source = s /\ (phase[b] # "over" \/ "release" \in tidy[b])

(* What the source knows of its targets. *)
SourceOK(s) ==
    /\ \A b, c \in Attempts : Running(b, s) /\ Running(c, s) => b = c
    /\ rpc[s] = "reserved" => \A b \in Attempts : ~Running(b, s)
    /\ rpc[s] \in Attempts => \A b \in Attempts : Running(b, s) => b = rpc[s]
    /\ ~transfer[s].pending /\ ~transfer[s].done => rpc[s] # "reserved" /\ \A b \in Attempts : ~Running(b, s)
    /\ rpc[s] # "idle" \/ transfer[s].done => Bridged(s)
    /\ \A b \in Attempts : origin[b].source = s => Bridged(s) /\ origin[b].initiator = agent[s]

(* Who has an attempt's membership, and for how long. *)
Joins(m) ==
    LET a == m[2] IN
    /\ m[1] = agent[a] /\ sess[a].member = m
    /\ phase[a] \in {"complete", "talk", "final", "stuck"} \/ (phase[a] = "over" /\ "cleanup" \in tidy[a])
    /\ phase[a] \in {"final", "over"} => offered[a] # None

ThreadOK ==
    /\ \A m, n \in thread : m[1] = n[1] => m = n
    /\ \A m \in thread : Joins(m)
    /\ \A b \in Attempts : phase[b] = "complete" =>
          origin[b].source # None /\ \A m \in thread : m[2] # origin[b].source
    /\ \A s \in Attempts : transfer[s].done => \A m \in thread : m[2] # s

(* Who has a preview of an attempt, and for how long. *)
Sees(p) ==
    LET a == p[2] IN
    /\ p[1] = agent[a] /\ sess[a].preview = p[1]
    /\ phase[a] \in {"offer", "close", "join", "final", "stuck"} \/ (phase[a] = "over" /\ "cleanup" \in tidy[a])
    /\ phase[a] \in {"final", "over"} => offered[a] # None

PreviewsOK ==
    /\ \A p \in previews : Sees(p)
    /\ \A a \in Attempts : origin[a].initiator = None /\ sess[a].user # None =>
          /\ phase[a] \notin {"none", "wait", "close"} /\ (phase[a] # "over" => task[a].bridged)
          /\ sess[a].user = agent[a] /\ \A p \in previews : p[2] # a

(* The inductive invariant. *)
ImInv ==
    /\ TypeOK /\ ThreadOK /\ PreviewsOK
    /\ \A a \in Attempts : LifeOK(a) /\ TaskOK(a) /\ SourceOK(a)

------------------------------------------------------------------------------
(* The queue of a task. *)

(* Reading the task's next state. *)
LEMMA Received ==
    ASSUME NEW S, NEW s \in Seq(S), s # <<>>, Distinct(s)
    PROVE  /\ Tail(s) \in Seq(S) /\ Head(s) \in S /\ Distinct(Tail(s))
           /\ Head(s) \in Queue(s) /\ Head(s) \notin Queue(Tail(s))
           /\ Queue(Tail(s)) \subseteq Queue(s)
  <1>1. /\ Len(s) \in Nat /\ Len(s) > 0 /\ Head(s) = s[1]
        /\ Tail(s) \in Seq(S) /\ Len(Tail(s)) = Len(s) - 1
        /\ \A i \in 1..Len(s) - 1 : Tail(s)[i] = s[i + 1]
        /\ \A i \in 1..Len(s) : s[i] \in S
    OBVIOUS
  <1>2. Distinct(Tail(s)) /\ Head(s) \in Queue(s)
    BY <1>1 DEF Distinct, Queue
  <1>3. ASSUME NEW x \in Queue(Tail(s)) PROVE x \in Queue(s) /\ x # Head(s)
    <2>1. PICK i \in 1..Len(s) - 1 : x = s[i + 1]
      BY Zenon, <1>1, <1>3 DEF Queue
    <2>2. i + 1 \in 1..Len(s) /\ 1 \in 1..Len(s) /\ i + 1 # 1
      BY <1>1
    <2> QED BY Zenon, <1>1, <2>1, <2>2 DEF Queue, Distinct
  <1> QED BY <1>1, <1>2, <1>3

(* Setting a state the task has not had. *)
LEMMA Sent ==
    ASSUME NEW S, NEW s \in Seq(S), NEW x \in S
    PROVE  /\ Append(s, x) \in Seq(S)
           /\ Queue(Append(s, x)) = Queue(s) \cup {x}
           /\ Distinct(s) /\ x \notin Queue(s) => Distinct(Append(s, x))
  <1>1. /\ Len(s) \in Nat /\ Append(s, x) \in Seq(S) /\ Len(Append(s, x)) = Len(s) + 1
        /\ \A i \in 1..Len(s) : Append(s, x)[i] = s[i]
        /\ Append(s, x)[Len(s) + 1] = x
    OBVIOUS
  <1>2. 1..Len(s) + 1 = (1..Len(s)) \cup {Len(s) + 1}
    BY <1>1
  <1>3. Queue(Append(s, x)) = Queue(s) \cup {x}
    BY Zenon, <1>1, <1>2 DEF Queue
  <1>4. ASSUME Distinct(s), x \notin Queue(s) PROVE Distinct(Append(s, x))
    BY Zenon, <1>1, <1>2, <1>4 DEF Distinct, Queue
  <1> QED BY Zenon, <1>1, <1>3, <1>4

(* The states of a new task. *)
LEMMA Empty ==
    ASSUME NEW S
    PROVE  <<>> \in Seq(S) /\ Queue(<<>>) = {} /\ Distinct(<<>>)
  BY DEF Queue, Distinct

(* What the methods of a task do to it. *)
LEMMA NewTask == TaskKept(NoTask) /\ NoTask.states = <<>>
  BY Zenon, Empty DEF TaskKept, NoTask, TaskSet

LEMMA AnsweredTask ==
    ASSUME NEW t, TaskKept(t), ~t.bridged
    PROVE  TaskKept(Answered(t)) /\ Answered(t).bridged
  <1> DEFINE s == Append(t.states, "bridged")
  <1>1. t.states \in Seq({"bridged", "closed"})
    BY Zenon DEF TaskKept, TaskSet
  <1>2. s \in Seq({"bridged", "closed"}) /\ Queue(s) = Queue(t.states) \cup {"bridged"} /\ Distinct(s)
    BY <1>1, Sent DEF TaskKept
  <1>3. /\ Answered(t).states = s /\ Answered(t).bridged = TRUE
        /\ Answered(t).closed = t.closed /\ Answered(t) \in TaskSet
    BY Zenon, <1>2 DEF Answered, TaskKept, TaskSet
  <1> QED BY Zenon, <1>2, <1>3 DEF TaskKept

LEMMA ClosedTask ==
    ASSUME NEW t, TaskKept(t), ~t.closed
    PROVE  /\ TaskKept(Closed(t)) /\ Closed(t).bridged = t.bridged
           /\ "bridged" \notin Queue(t.states) => "bridged" \notin Queue(Closed(t).states)
  <1> DEFINE s == Append(t.states, "closed")
  <1>1. t.states \in Seq({"bridged", "closed"})
    BY Zenon DEF TaskKept, TaskSet
  <1>2. s \in Seq({"bridged", "closed"}) /\ Queue(s) = Queue(t.states) \cup {"closed"} /\ Distinct(s)
    BY <1>1, Sent DEF TaskKept
  <1>3. /\ Closed(t).states = s /\ Closed(t).bridged = t.bridged
        /\ Closed(t).closed = TRUE /\ Closed(t) \in TaskSet
    BY Zenon, <1>2 DEF Closed, TaskKept, TaskSet
  <1> QED BY Zenon, <1>2, <1>3 DEF TaskKept

LEMMA ReadTaskState ==
    ASSUME NEW t, TaskKept(t), t.states # <<>>
    PROVE  /\ TaskKept([t EXCEPT !.states = Tail(@)])
           /\ [t EXCEPT !.states = Tail(@)].bridged = t.bridged
           /\ Head(t.states) \in {"bridged", "closed"}
           /\ Head(t.states) = "bridged" => t.bridged /\ "bridged" \in Queue(t.states)
           /\ Head(t.states) = "bridged" => "bridged" \notin Queue(Tail(t.states))
  <1> DEFINE u == [t EXCEPT !.states = Tail(@)]
  <1>1. t.states \in Seq({"bridged", "closed"}) /\ Distinct(t.states)
    BY Zenon DEF TaskKept, TaskSet
  <1>2. /\ Tail(t.states) \in Seq({"bridged", "closed"}) /\ Distinct(Tail(t.states))
        /\ Head(t.states) \in {"bridged", "closed"} /\ Head(t.states) \in Queue(t.states)
        /\ Head(t.states) \notin Queue(Tail(t.states)) /\ Queue(Tail(t.states)) \subseteq Queue(t.states)
    BY Zenon, <1>1, Received
  <1>3. /\ u.states = Tail(t.states) /\ u.bridged = t.bridged /\ u.closed = t.closed /\ u \in TaskSet
    BY Zenon, <1>2 DEF TaskKept, TaskSet
  <1> QED BY Zenon, <1>2, <1>3 DEF TaskKept

------------------------------------------------------------------------------
(* Types. *)


(* A session's fields. *)
LEMMA SessionFields ==
    ASSUME NEW s \in SessionSet
    PROVE  /\ [s EXCEPT !.listed = TRUE] \in SessionSet
           /\ \A d \in BOOLEAN : [s EXCEPT !.done = d] \in SessionSet
           /\ \A x \in Agents \cup {None} : [s EXCEPT !.user = x] \in SessionSet
           /\ \A x \in Agents \cup {None} : [s EXCEPT !.preview = x] \in SessionSet
           /\ \A m \in Members, x \in Agents :
                 [s EXCEPT !.member = m, !.user = x, !.preview = None] \in SessionSet
           /\ NoSession \in SessionSet
  BY Zenon DEF SessionSet, NoSession

(* A transfer's fields. *)
LEMMA TransferFields ==
    ASSUME NEW t \in TransferSet, NEW a \in Attempts \cup {None}
    PROVE  /\ Released(t, a) \in TransferSet
           /\ [t EXCEPT !.done = TRUE, !.pending = FALSE] \in TransferSet
           /\ [t EXCEPT !.pending = TRUE] \in TransferSet
           /\ [t EXCEPT !.to = a] \in TransferSet
  BY Zenon DEF TransferSet, Released

(* The events of the gateway. *)
LEMMA EventAdded ==
    ASSUME NEW s \in Seq(EventSet), NEW e \in EventSet
    PROVE  Append(s, e) \in Seq(EventSet)
  OBVIOUS

LEMMA EventsRead ==
    ASSUME NEW s \in Seq(EventSet), s # <<>>
    PROVE  Head(s) \in EventSet /\ Tail(s) \in Seq(EventSet)
  OBVIOUS

(* The initial states have the types. *)
LEMMA InitTyped == Init => TypeOK
  <1> SUFFICES ASSUME Init PROVE TypeOK
    BY Zenon
  <1>1. phase \in [Attempts -> Phases]
    BY Zenon DEF Init, Fresh, Phases
  <1>2. sess \in [Attempts -> SessionSet]
    <2>1. NoSession \in SessionSet /\ [NoSession EXCEPT !.listed = TRUE] \in SessionSet
      BY Zenon DEF NoSession, SessionSet
    <2> QED BY Zenon, <2>1, ImAssumption DEF Init, Opened
  <1>3. origin \in [Attempts -> OriginSet] /\ transfer \in [Attempts -> TransferSet]
    BY Zenon DEF Init, OriginSet, TransferSet
  <1>4. task \in [Attempts -> TaskSet] /\ events \in Seq(EventSet)
    BY Zenon, NewTask, Empty DEF Init, TaskKept
  <1>5. MaxOffers \in Nat
    BY Zenon, ImAssumption
  <1>6. 0 \in 0..MaxOffers
    BY <1>5
  <1> QED BY Zenon, <1>1, <1>2, <1>3, <1>4, <1>6 DEF Init, TypeOK

(* Every step of the task channel keeps the types. *)
LEMMA TaskTyped ==
    ASSUME ImInv, NEW a \in Attempts, Task(a)
    PROVE  TypeOK'
  <1>1. TypeOK /\ TaskKept(task[a]) /\ task[a] \in TaskSet
    BY Zenon DEF ImInv, TaskOK, TaskKept
  <1>2. CASE AcceptAgentTask(a)
    <2>1. Answered(task[a]) \in TaskSet
      BY Zenon, <1>1, <1>2, AnsweredTask DEF AcceptAgentTask, TaskKept
    <2> QED BY Zenon, <1>1, <1>2, <2>1 DEF AcceptAgentTask, TypeOK, gateway
  <1>3. CASE CloseAgentTask(a)
    <2>1. Closed(task[a]) \in TaskSet
      BY Zenon, <1>1, <1>3, ClosedTask DEF CloseAgentTask, TaskKept
    <2> QED BY Zenon, <1>1, <1>3, <2>1 DEF CloseAgentTask, TypeOK, gateway
  <1>4. CASE ReportTask(a)
    <2>1. /\ ~task[a].closed => [Closed(task[a]) EXCEPT !.reporting = TRUE] \in TaskSet
          /\ [task[a] EXCEPT !.reporting = TRUE] \in TaskSet
      BY Zenon, <1>1, ClosedTask DEF TaskKept, TaskSet
    <2> QED BY Zenon, <1>1, <1>4, <2>1 DEF ReportTask, TypeOK, gateway
  <1> QED BY Zenon, <1>2, <1>3, <1>4 DEF Task

(* Every step of the gateway, the client and the agents does. *)
Outside == HandleEvent \/ ClientLeaves \/ \E m \in thread : AgentLeaves(m)

LEMMA OutsideTyped ==
    ASSUME ImInv, Outside
    PROVE  TypeOK'
  <1>1. TypeOK
    BY Zenon DEF ImInv
  <1>2. CASE HandleEvent
    <2>1. Tail(events) \in Seq(EventSet) /\ Head(events) \in EventSet
      BY Zenon, <1>1, <1>2, EventsRead DEF HandleEvent, TypeOK
    <2>2. PICK S : sess' = [b \in Attempts |-> [sess[b] EXCEPT !.done = @ \/ S[b]]]
                   /\ S \in [Attempts -> BOOLEAN]
      <3> DEFINE S == [b \in Attempts |-> sess[b].listed /\ (Head(events).client \/
                          (Head(events).member # None /\ Head(events).member = sess[b].member))]
      <3>1. S \in [Attempts -> BOOLEAN]
        BY Zenon, <1>1, <2>1 DEF TypeOK, SessionSet, EventSet
      <3>2. sess' = [b \in Attempts |-> [sess[b] EXCEPT !.done = @ \/ S[b]]]
        BY Zenon, <1>2 DEF HandleEvent
      <3> QED BY Zenon, <3>1, <3>2
    <2>3. ASSUME NEW b \in Attempts PROVE [sess[b] EXCEPT !.done = @ \/ S[b]] \in SessionSet
      <3>1. sess[b] \in SessionSet
        BY Zenon, <1>1 DEF TypeOK
      <3>2. (sess[b].done \/ S[b]) \in BOOLEAN
        BY Zenon
      <3> QED BY Zenon, <3>1, <3>2, SessionFields
    <2>4. sess' \in [Attempts -> SessionSet]
      BY Zenon, <2>2, <2>3
    <2> QED BY Zenon, <1>1, <1>2, <2>1, <2>4 DEF HandleEvent, TypeOK, queue
  <1>3. CASE ClientLeaves
    <2>1. ClientRemoved \in EventSet
      BY Zenon DEF ClientRemoved, EventSet
    <2>2. events' \in Seq(EventSet)
      BY Zenon, <1>1, <1>3, <2>1, EventAdded DEF ClientLeaves, TypeOK
    <2> QED BY Zenon, <1>1, <1>3, <2>2 DEF ClientLeaves, TypeOK, queue
  <1>4. ASSUME NEW m \in thread, AgentLeaves(m) PROVE TypeOK'
    <2>1. Removed(m) \in EventSet
      BY Zenon, <1>1 DEF Removed, EventSet, TypeOK
    <2>2. events' \in Seq(EventSet)
      BY Zenon, <1>1, <1>4, <2>1, EventAdded DEF AgentLeaves, TypeOK
    <2> QED BY Zenon, <1>1, <1>4, <2>2 DEF AgentLeaves, TypeOK, queue
  <1> QED BY Zenon, <1>2, <1>3, <1>4 DEF Outside

(* The steps of a transfer do. *)
LEMMA TransferTyped ==
    ASSUME ImInv, NEW a \in Attempts, Transfer(a)
    PROVE  TypeOK'
  <1>1. TypeOK /\ transfer[a] \in TransferSet
    BY Zenon DEF ImInv, TypeOK
  <1>2. CASE ReserveIMTransfer(a)
    BY Zenon, <1>1, <1>2, TransferFields DEF ReserveIMTransfer, TypeOK, gateway
  <1>3. CASE DistributeIMTransfer(a)
    <2>1. ASSUME NEW b \in Attempts, NEW direct \in Direct,
                 phase' = Fresh(phase, b) /\ sess' = Opened(sess, b),
                 origin' = [origin EXCEPT ![b] = [source |-> a, initiator |-> agent[a], named |-> direct]],
                 rpc' = [rpc EXCEPT ![a] = b], UNCHANGED transfer
          PROVE  TypeOK'
      <3>1. [source |-> a, initiator |-> agent[a], named |-> direct] \in OriginSet
        BY Zenon, <1>1, ImAssumption DEF TypeOK, OriginSet
      <3>2. sess' \in [Attempts -> SessionSet]
        BY Zenon, <1>1, <2>1, SessionFields DEF TypeOK, Opened
      <3> QED BY Zenon, <1>1, <1>3, <2>1, <3>1, <3>2 DEF DistributeIMTransfer, TypeOK, gateway, Fresh, Phases
    <2>2. CASE transfer' = [transfer EXCEPT ![a] = Released(@, None)] /\ rpc' = [rpc EXCEPT ![a] = "idle"]
               /\ UNCHANGED <<phase, sess, origin>>
      BY Zenon, <1>1, <1>3, <2>2, TransferFields DEF DistributeIMTransfer, TypeOK, gateway
    <2> QED BY Zenon, <1>3, <2>1, <2>2 DEF DistributeIMTransfer
  <1>4. CASE SetIMTransferTo(a)
    BY Zenon, <1>1, <1>4, TransferFields DEF SetIMTransferTo, TypeOK, gateway
  <1> QED BY Zenon, <1>2, <1>3, <1>4 DEF Transfer

(* The steps of the run goroutine do: the wait and the offer, ... *)
LEMMA WaitTyped ==
    ASSUME ImInv, NEW a \in Attempts,
           \/ SkipInitiator(a) \/ (\E x \in Agents : TakeAgent(a, x))
           \/ InviteTimeout(a) \/ SeeCancel(a) \/ CloseTask(a)
    PROVE  TypeOK'
  <1>1. TypeOK /\ TaskKept(task[a]) /\ task[a] \in TaskSet /\ origin[a] \in OriginSet
    BY Zenon DEF ImInv, TaskOK, TaskKept, TypeOK
  <1>2. CASE SkipInitiator(a)
    BY Zenon, <1>1, <1>2 DEF SkipInitiator, TypeOK, gateway, OriginSet
  <1>3. ASSUME NEW x \in Agents, TakeAgent(a, x) PROVE TypeOK'
    <2>1. offers' \in [Attempts -> 0..MaxOffers]
      <3>1. MaxOffers \in Nat /\ offers[a] \in 0..MaxOffers /\ offers[a] < MaxOffers
        BY Zenon, <1>1, <1>3, ImAssumption DEF TypeOK, TakeAgent
      <3>2. offers[a] + 1 \in 0..MaxOffers
        BY <3>1
      <3> QED BY Zenon, <1>1, <1>3, <3>2 DEF TakeAgent, TypeOK
    <2>2. NoTask \in TaskSet /\ Answered(NoTask) \in TaskSet
      <3>1. NoTask.bridged = FALSE
        BY Zenon DEF NoTask
      <3> QED BY Zenon, <3>1, NewTask, AnsweredTask DEF TaskKept
    <2>3. \A p \in {"offer", "final", "wait"} : Goto(a, p) => phase' \in [Attempts -> Phases]
      BY Zenon, <1>1 DEF TypeOK, Goto, Phases
    <2>4. <<x, a>> \in Members
      BY Zenon DEF Members
    <2>5. CASE TakenAsAccepted(a, x)
      <3>1. sess' \in [Attempts -> SessionSet]
        BY Zenon, <1>1, <2>5, SessionFields DEF TakenAsAccepted, TypeOK
      <3> QED BY Zenon, <1>1, <1>3, <2>1, <2>2, <2>3, <2>5, <3>1 DEF TakenAsAccepted, TakeAgent, TypeOK
    <2>6. CASE Previewed(a, x)
      <3>1. sess' \in [Attempts -> SessionSet]
        BY Zenon, <1>1, <2>6, SessionFields DEF Previewed, TypeOK
      <3> QED BY Zenon, <1>1, <1>3, <2>1, <2>2, <2>3, <2>4, <2>6, <3>1 DEF Previewed, TakeAgent, TypeOK
    <2>7. CASE NotPreviewed(a, x)
      <3>1. phase' \in [Attempts -> Phases]
        BY Zenon, <1>1, <2>7 DEF NotPreviewed, TypeOK, Goto, Phases
      <3> QED BY Zenon, <1>1, <1>3, <2>1, <2>2, <2>7, <3>1 DEF NotPreviewed, TakeAgent, TypeOK
    <2> QED BY Zenon, <1>3, <2>5, <2>6, <2>7 DEF TakeAgent
  <1>4. CASE InviteTimeout(a)
    BY Zenon, <1>1, <1>4 DEF InviteTimeout, TypeOK, gateway, Goto, Phases
  <1>5. CASE SeeCancel(a)
    BY Zenon, <1>1, <1>5 DEF SeeCancel, TypeOK, gateway, Goto, Phases
  <1>6. CASE CloseTask(a)
    <2>1. ~task[a].closed => Closed(task[a]) \in TaskSet
      BY Zenon, <1>1, ClosedTask DEF TaskKept
    <2>2. task' \in [Attempts -> TaskSet]
      BY Zenon, <1>1, <1>6, <2>1 DEF CloseTask, TypeOK
    <2>3. PICK p \in {"offer", "stuck"} : Goto(a, p)
      BY Zenon, <1>6 DEF CloseTask
    <2>4. phase' \in [Attempts -> Phases]
      BY Zenon, <1>1, <2>3 DEF TypeOK, Goto, Phases
    <2> QED BY Zenon, <1>1, <1>6, <2>2, <2>4 DEF CloseTask, TypeOK, gateway
  <1> QED BY Zenon, <1>2, <1>3, <1>4, <1>5, <1>6

(* What a missed offer changes. *)
LEMMA MissedTyped ==
    ASSUME TypeOK, NEW a \in Attempts, Missed(a)
    PROVE  /\ agent' \in [Attempts -> Agents \cup {None}] /\ offered' \in [Attempts -> Agents \cup {None}]
           /\ phase' \in [Attempts -> Phases] /\ sess' \in [Attempts -> SessionSet]
           /\ previews' \subseteq Members /\ thread' \subseteq Members
  <1>1. sess' \in [Attempts -> SessionSet]
    BY Zenon, SessionFields DEF Missed, TypeOK
  <1> QED BY Zenon, <1>1 DEF Missed, TypeOK, Goto, Phases

(* What a joining agent changes. *)
LEMMA JoinedTyped ==
    ASSUME TypeOK, NEW a \in Attempts, agent[a] # None, Joined(a)
    PROVE  <<agent[a], a>> \in Members /\ sess' \in [Attempts -> SessionSet]
  <1>1. agent[a] \in Agents /\ sess[a] \in SessionSet
    BY Zenon DEF TypeOK
  <1>2. <<agent[a], a>> \in Members
    BY Zenon, <1>1 DEF Members
  <1>3. [sess[a] EXCEPT !.member = <<agent[a], a>>, !.user = agent[a], !.preview = None] \in SessionSet
    BY Zenon, <1>1, <1>2, SessionFields
  <1> QED BY Zenon, <1>2, <1>3 DEF Joined, TypeOK

(* ... the answer and the join, ... *)
LEMMA AnswerTyped ==
    ASSUME ImInv, NEW a \in Attempts,
           ReadTask(a) \/ JoinAgent(a) \/ TransferAgent(a) \/ CompleteIMTransfer(a)
    PROVE  TypeOK'
  <1>1. TypeOK /\ TaskKept(task[a]) /\ LifeOK(a)
    BY Zenon DEF ImInv, TaskOK
  <1>2. CASE ReadTask(a)
    <2>1. [task[a] EXCEPT !.states = Tail(@)] \in TaskSet
      BY Zenon, <1>1, <1>2, ReadTaskState DEF ReadTask, TaskKept
    <2>2. task' \in [Attempts -> TaskSet]
      BY Zenon, <1>1, <1>2, <2>1 DEF ReadTask, TypeOK
    <2>3. CASE Missed(a)
      BY Zenon, <1>1, <1>2, <2>2, <2>3, MissedTyped DEF ReadTask, TypeOK
    <2>4. CASE Goto(a, "join") /\ UNCHANGED <<agent, offered, sess, previews, thread>>
      BY Zenon, <1>1, <1>2, <2>2, <2>4 DEF ReadTask, TypeOK, Goto, Phases
    <2>5. CASE Goto(a, "final") /\ offered' = [offered EXCEPT ![a] = agent[a]]
               /\ UNCHANGED <<agent, sess, previews, thread>>
      BY Zenon, <1>1, <1>2, <2>2, <2>5 DEF ReadTask, TypeOK, Goto, Phases
    <2> QED BY Zenon, <1>2, <2>3, <2>4, <2>5 DEF ReadTask
  <1>3. CASE JoinAgent(a)
    <2>1. CASE Missed(a)
      BY Zenon, <1>1, <1>3, <2>1, MissedTyped DEF JoinAgent, TypeOK
    <2>2. CASE Goto(a, "talk") /\ UNCHANGED <<agent, offered, sess, previews, thread>>
      BY Zenon, <1>1, <1>3, <2>2 DEF JoinAgent, TypeOK, Goto, Phases
    <2>3. CASE Joined(a) /\ thread' = thread \cup {<<agent[a], a>>} /\ previews' = previews \ {<<agent[a], a>>}
               /\ Goto(a, "talk") /\ UNCHANGED <<agent, offered>>
      <3>1. agent[a] # None
        BY Zenon, <1>1, <1>3 DEF JoinAgent, LifeOK
      <3> QED BY Zenon, <1>1, <1>3, <2>3, <3>1, JoinedTyped DEF JoinAgent, TypeOK, Goto, Phases
    <2> QED BY Zenon, <1>3, <2>1, <2>2, <2>3 DEF JoinAgent
  <1>4. CASE TransferAgent(a)
    <2>1. CASE Missed(a) /\ UNCHANGED events
      BY Zenon, <1>1, <1>4, <2>1, MissedTyped DEF TransferAgent, TypeOK
    <2>2. ASSUME NEW m \in thread, Joined(a), thread' = (thread \ {m}) \cup {<<agent[a], a>>},
                 previews' = previews \ {<<agent[a], a>>}, events' = Append(events, Removed(m)),
                 Goto(a, "complete") /\ UNCHANGED <<agent, offered>>
          PROVE  TypeOK'
      <3>1. agent[a] # None /\ m \in Members
        BY Zenon, <1>1, <1>4 DEF TransferAgent, LifeOK, TypeOK
      <3>2. Removed(m) \in EventSet
        BY Zenon, <3>1 DEF Removed, EventSet
      <3>3. events' \in Seq(EventSet)
        BY Zenon, <1>1, <2>2, <3>2, EventAdded DEF TypeOK
      <3> QED BY Zenon, <1>1, <1>4, <2>2, <3>1, <3>3, JoinedTyped DEF TransferAgent, TypeOK, Goto, Phases
    <2> QED BY Zenon, <1>4, <2>1, <2>2 DEF TransferAgent
  <1>5. CASE CompleteIMTransfer(a)
    <2>1. transfer' \in [Attempts -> TransferSet]
      BY Zenon, <1>1, <1>5, TransferFields, ImAssumption DEF CompleteIMTransfer, TypeOK, GetAttempt, OriginSet
    <2> QED BY Zenon, <1>1, <1>5, <2>1 DEF CompleteIMTransfer, TypeOK, Goto, Phases, gateway
  <1> QED BY Zenon, <1>2, <1>3, <1>4, <1>5

(* ... and the end. *)
LEMMA EndTyped ==
    ASSUME ImInv, NEW a \in Attempts,
           Leave(a) \/ FinalizeAttempt(a) \/ CleanupSession(a) \/ ReleaseIMTransfer(a)
    PROVE  TypeOK'
  <1>1. TypeOK
    BY Zenon DEF ImInv
  <1>2. CASE Leave(a)
    BY Zenon, <1>1, <1>2 DEF Leave, TypeOK, Goto, Phases, gateway
  <1>3. CASE FinalizeAttempt(a)
    <2>1. cancel' \in [Attempts -> {"no", "set", "seen"}]
      BY Zenon, <1>1, <1>3 DEF FinalizeAttempt, TypeOK
    <2>2. phase' \in [Attempts -> Phases] /\ tidy' \in [Attempts -> SUBSET {"release", "cleanup"}]
      BY Zenon, <1>1, <1>3 DEF FinalizeAttempt, TypeOK, Goto, Phases
    <2> QED BY Zenon, <1>1, <1>3, <2>1, <2>2 DEF FinalizeAttempt, TypeOK, gateway
  <1>4. CASE CleanupSession(a)
    <2>1. sess[a] \in SessionSet /\ NoTask \in TaskSet /\ NoSession \in SessionSet
      BY Zenon, <1>1, NewTask, SessionFields DEF TypeOK, TaskKept
    <2>2. sess[a].member \in thread => Removed(sess[a].member) \in EventSet
      BY Zenon, <1>1, <2>1 DEF Removed, EventSet, TypeOK
    <2>3. events' \in Seq(EventSet)
      BY ZenonT(30), <1>1, <1>4, <2>2, EventAdded DEF CleanupSession, TypeOK
    <2> QED BY Zenon, <1>1, <1>4, <2>1, <2>3 DEF CleanupSession, TypeOK
  <1>5. CASE ReleaseIMTransfer(a)
    <2>1. transfer' \in [Attempts -> TransferSet]
      BY Zenon, <1>1, <1>5, TransferFields DEF ReleaseIMTransfer, TypeOK, GetAttempt, OriginSet
    <2> QED BY Zenon, <1>1, <1>5, <2>1 DEF ReleaseIMTransfer, TypeOK, gateway
  <1> QED BY Zenon, <1>2, <1>3, <1>4, <1>5

------------------------------------------------------------------------------
(* The life of an attempt and its task. *)

(* The methods of the task. *)
LEMMA LifeOfTask ==
    ASSUME ImInv, NEW a \in Attempts, Task(a)
    PROVE  \A b \in Attempts : LifeOK(b)' /\ TaskOK(b)'
  <1>1. TypeOK /\ TaskKept(task[a]) /\ TaskOK(a)
    BY Zenon DEF ImInv, TaskOK
  <1>2. /\ UNCHANGED <<phase, origin, agent, sess, tidy>>
        /\ \A b \in Attempts \ {a} : task'[b] = task[b]
    BY Zenon, <1>1 DEF Task, AcceptAgentTask, CloseAgentTask, ReportTask, TypeOK
  <1>3. TaskOK(a)'
    <2>1. CASE AcceptAgentTask(a)
      <3>1. task'[a] = Answered(task[a]) /\ ~task[a].bridged
        BY Zenon, <1>1, <2>1 DEF AcceptAgentTask, TypeOK
      <3> QED BY Zenon, <1>1, <1>2, <3>1, AnsweredTask DEF TaskOK
    <2>2. CASE CloseAgentTask(a)
      <3>1. task'[a] = Closed(task[a]) /\ ~task[a].closed
        BY Zenon, <1>1, <2>2 DEF CloseAgentTask, TypeOK
      <3> QED BY Zenon, <1>1, <1>2, <3>1, ClosedTask DEF TaskOK
    <2>3. CASE ReportTask(a)
      <3>1. PICK t : task'[a] = [t EXCEPT !.reporting = TRUE]
                     /\ (t = task[a] \/ (t = Closed(task[a]) /\ ~task[a].closed))
        BY Zenon, <1>1, <2>3 DEF ReportTask, TypeOK
      <3>2. TaskKept(t) /\ (phase[a] \in {"join", "complete", "talk"} => t.bridged /\ "bridged" \notin Queue(t.states))
        BY Zenon, <1>1, <3>1, ClosedTask DEF TaskOK
      <3>3. task'[a] \in TaskSet /\ task'[a].states = t.states
            /\ task'[a].bridged = t.bridged /\ task'[a].closed = t.closed
        BY Zenon, <3>1, <3>2 DEF TaskKept, TaskSet
      <3> QED BY Zenon, <1>2, <3>2, <3>3 DEF TaskOK, TaskKept
    <2> QED BY Zenon, <2>1, <2>2, <2>3 DEF Task
  <1>4. ASSUME NEW b \in Attempts PROVE LifeOK(b)' /\ (b # a => TaskOK(b)')
    BY Zenon, <1>2 DEF ImInv, LifeOK, TaskOK, TaskKept
  <1> QED BY Zenon, <1>3, <1>4

(* A step of the run goroutine of one attempt changes no other attempt, *)
(* but for the cancel flag and the transfer record.                     *)
Same(b) ==
    /\ phase'[b] = phase[b] /\ agent'[b] = agent[b] /\ offered'[b] = offered[b]
    /\ task'[b] = task[b] /\ sess'[b] = sess[b] /\ tidy'[b] = tidy[b]

LEMMA Elsewhere ==
    ASSUME TypeOK, NEW a \in Attempts, Run(a)
    PROVE  UNCHANGED <<origin, rpc>> /\ \A b \in Attempts \ {a} : Same(b)
  <1> SUFFICES ASSUME NEW b \in Attempts \ {a} PROVE UNCHANGED <<origin, rpc>> /\ Same(b)
    BY Zenon DEF Run, SkipInitiator, TakeAgent, InviteTimeout, SeeCancel, CloseTask, ReadTask, JoinAgent,
       TransferAgent, CompleteIMTransfer, Transferred, SessionDone, CancelWait, CheckIdleTimeouts, Leave,
       FinalizeAttempt, CleanupSession, ReleaseIMTransfer
  <1>1. ASSUME Missed(a)
        PROVE  phase'[b] = phase[b] /\ agent'[b] = agent[b] /\ offered'[b] = offered[b] /\ sess'[b] = sess[b]
    BY Zenon, <1>1 DEF Missed, Goto, TypeOK
  <1>2. CASE SkipInitiator(a)
    BY Zenon, <1>2 DEF SkipInitiator, Same, TypeOK
  <1>3. ASSUME NEW x \in Agents, TakeAgent(a, x) PROVE UNCHANGED <<origin, rpc>> /\ Same(b)
    <2>1. CASE TakenAsAccepted(a, x)
      BY Zenon, <1>3, <2>1 DEF TakenAsAccepted, TakeAgent, Goto, Same, TypeOK
    <2>2. CASE Previewed(a, x)
      BY Zenon, <1>3, <2>2 DEF Previewed, TakeAgent, Goto, Same, TypeOK
    <2>3. CASE NotPreviewed(a, x)
      BY Zenon, <1>3, <2>3 DEF NotPreviewed, TakeAgent, Goto, Same, TypeOK
    <2> QED BY Zenon, <1>3, <2>1, <2>2, <2>3 DEF TakeAgent
  <1>4. CASE InviteTimeout(a)
    BY Zenon, <1>4 DEF InviteTimeout, Goto, Same, TypeOK, gateway
  <1>5. CASE SeeCancel(a)
    BY Zenon, <1>5 DEF SeeCancel, Goto, Same, TypeOK, gateway
  <1>6. CASE CloseTask(a)
    BY Zenon, <1>6 DEF CloseTask, Goto, Same, TypeOK, gateway
  <1>7. CASE ReadTask(a)
    BY Zenon, <1>1, <1>7 DEF ReadTask, Goto, Same, TypeOK
  <1>8. CASE JoinAgent(a)
    BY <1>1, <1>8 DEF JoinAgent, Joined, Goto, Same, TypeOK
  <1>9. CASE TransferAgent(a)
    BY Zenon, <1>1, <1>9 DEF TransferAgent, Joined, Goto, Same, TypeOK
  <1>10. CASE CompleteIMTransfer(a)
    BY Zenon, <1>10 DEF CompleteIMTransfer, Goto, Same, TypeOK, gateway
  <1>11. CASE Leave(a)
    BY Zenon, <1>11 DEF Leave, Goto, Same, TypeOK, gateway
  <1>12. CASE FinalizeAttempt(a)
    BY Zenon, <1>12 DEF FinalizeAttempt, Goto, Same, TypeOK, gateway
  <1>13. CASE CleanupSession(a)
    BY Zenon, <1>13 DEF CleanupSession, Same, TypeOK
  <1>14. CASE ReleaseIMTransfer(a)
    BY Zenon, <1>14 DEF ReleaseIMTransfer, Same, TypeOK, gateway
  <1> QED BY Zenon, <1>2, <1>3, <1>4, <1>5, <1>6, <1>7, <1>8, <1>9, <1>10, <1>11, <1>12, <1>13, <1>14
          DEF Run, Transferred, SessionDone, CancelWait, CheckIdleTimeouts

(* The steps of the run goroutine. *)
LEMMA LifeOfRun ==
    ASSUME ImInv, NEW a \in Attempts, Run(a)
    PROVE  \A b \in Attempts : LifeOK(b)' /\ TaskOK(b)'
  <1>1. TypeOK /\ TaskOK(a) /\ LifeOK(a) /\ TaskKept(task[a]) /\ phase[a] \in Phases
    BY Zenon DEF ImInv, TaskOK, TypeOK
  <1>2. UNCHANGED <<origin, rpc>> /\ \A b \in Attempts \ {a} : Same(b)
    BY Zenon, <1>1, Elsewhere
  <1>3. ASSUME NEW b \in Attempts \ {a} PROVE LifeOK(b)' /\ TaskOK(b)'
    BY ZenonT(30), <1>2, <1>3 DEF ImInv, LifeOK, TaskOK, TaskKept, Same
  <1> SUFFICES LifeOK(a)' /\ TaskOK(a)'
    BY Zenon, <1>3
  <1>4. ASSUME Missed(a), phase[a] \in {"offer", "talk", "join"}
        PROVE  phase'[a] \in {"wait", "final"}
    BY Zenon, <1>1, <1>4 DEF Missed, Goto, TypeOK
  <1>5. CASE SkipInitiator(a)
    BY <1>1, <1>2, <1>5 DEF SkipInitiator, gateway, LifeOK, TaskOK, TaskKept
  <1>6. ASSUME NEW x \in Agents, TakeAgent(a, x) PROVE LifeOK(a)' /\ TaskOK(a)'
    <2>1. tidy'[a] = {} /\ x # None
      BY Zenon, <1>1, <1>6, ImAssumption DEF TakeAgent, LifeOK
    <2>2. TaskKept(NoTask) /\ TaskKept(Answered(NoTask))
      <3>1. NoTask.bridged = FALSE
        BY Zenon DEF NoTask
      <3> QED BY Zenon, <3>1, NewTask, AnsweredTask
    <2>3. task'[a] \in {NoTask, Answered(NoTask)} /\ phase'[a] \in {"offer", "wait", "final"}
          /\ (phase'[a] = "offer" => agent'[a] = x)
      BY <1>1, <1>6 DEF TakeAgent, TakenAsAccepted, Previewed, NotPreviewed, Goto, TypeOK
    <2> QED BY Zenon, <1>1, <1>2, <2>1, <2>2, <2>3 DEF LifeOK, TaskOK
  <1>7. CASE InviteTimeout(a)
    BY Zenon, <1>1, <1>2, <1>7 DEF InviteTimeout, Goto, gateway, LifeOK, TaskOK, TaskKept, TypeOK
  <1>8. CASE SeeCancel(a)
    BY Zenon, <1>1, <1>2, <1>8 DEF SeeCancel, Goto, gateway, LifeOK, TaskOK, TaskKept, TypeOK
  <1>9. CASE CloseTask(a)
    <2>1. phase'[a] \in {"offer", "stuck"} /\ agent'[a] = agent[a] /\ tidy'[a] = tidy[a]
          /\ (task'[a] = task[a] \/ (~task[a].closed /\ task'[a] = Closed(task[a])))
      BY Zenon, <1>1, <1>9 DEF CloseTask, Goto, TypeOK
    <2>2. TaskKept(task'[a])
      BY Zenon, <1>1, <2>1, ClosedTask
    <2> QED BY Zenon, <1>1, <1>2, <1>9, <2>1, <2>2 DEF LifeOK, TaskOK, CloseTask
  <1>10. CASE ReadTask(a)
    <2>1. task'[a] = [task[a] EXCEPT !.states = Tail(@)] /\ tidy'[a] = tidy[a]
      BY Zenon, <1>1, <1>10 DEF ReadTask, TypeOK
    <2>2. task[a].states # <<>> /\ phase[a] \in {"offer", "talk"}
      BY Zenon, <1>10 DEF ReadTask
    <2>3. TaskKept(task'[a])
      BY Zenon, <1>1, <2>1, <2>2, ReadTaskState
    <2>4. CASE Goto(a, "join") /\ Head(task[a].states) = "bridged" /\ UNCHANGED agent
      <3>1. task'[a].bridged /\ "bridged" \notin Queue(task'[a].states)
        <4>1. task'[a].states = Tail(task[a].states)
          BY Zenon, <1>1, <2>1 DEF TaskKept, TaskSet
        <4> QED BY Zenon, <1>1, <2>1, <2>2, <2>4, <4>1, ReadTaskState
      <3>2. phase'[a] = "join"
        BY Zenon, <1>1, <2>4 DEF Goto, TypeOK
      <3> QED BY Zenon, <1>1, <1>2, <2>1, <2>2, <2>3, <2>4, <3>1, <3>2 DEF LifeOK, TaskOK
    <2>5. CASE phase'[a] \in {"wait", "final"}
      BY Zenon, <1>1, <1>2, <2>1, <2>2, <2>3, <2>5 DEF LifeOK, TaskOK
    <2>6. Goto(a, "final") => phase'[a] = "final"
      BY Zenon, <1>1 DEF Goto, TypeOK
    <2> QED BY Zenon, <1>4, <1>10, <2>2, <2>4, <2>5, <2>6 DEF ReadTask
  <1>11. CASE JoinAgent(a)
    <2>1. task'[a] = task[a] /\ tidy'[a] = tidy[a] /\ phase[a] = "join"
      BY Zenon, <1>11 DEF JoinAgent
    <2>2. phase'[a] \in {"wait", "final"} \/ (phase'[a] = "talk" /\ agent'[a] = agent[a])
      BY Zenon, <1>1, <1>4, <1>11 DEF JoinAgent, Goto, TypeOK
    <2> QED BY Zenon, <1>1, <1>2, <2>1, <2>2 DEF LifeOK, TaskOK, TaskKept
  <1>12. CASE TransferAgent(a)
    <2>1. task'[a] = task[a] /\ tidy'[a] = tidy[a] /\ phase[a] = "join"
      BY Zenon, <1>12 DEF TransferAgent
    <2>2. phase'[a] \in {"wait", "final"} \/ (phase'[a] = "complete" /\ agent'[a] = agent[a])
      BY Zenon, <1>1, <1>4, <1>12 DEF TransferAgent, Goto, TypeOK
    <2> QED BY Zenon, <1>1, <1>2, <2>1, <2>2 DEF LifeOK, TaskOK, TaskKept
  <1>13. CASE CompleteIMTransfer(a)
    BY Zenon, <1>1, <1>2, <1>13 DEF CompleteIMTransfer, Goto, gateway, LifeOK, TaskOK, TaskKept, TypeOK
  <1>14. ASSUME Leave(a), phase[a] \in {"wait", "offer", "talk"} PROVE LifeOK(a)' /\ TaskOK(a)'
    BY Zenon, <1>1, <1>2, <1>14 DEF Leave, Goto, gateway, LifeOK, TaskOK, TaskKept, TypeOK
  <1>15. CASE FinalizeAttempt(a)
    BY Zenon, <1>1, <1>2, <1>15 DEF FinalizeAttempt, Goto, gateway, LifeOK, TaskOK, TaskKept, TypeOK
  <1>16. CASE CleanupSession(a)
    <2>1. phase[a] = "over" /\ phase' = phase /\ task'[a] = NoTask
      BY Zenon, <1>1, <1>16 DEF CleanupSession, LifeOK, TypeOK
    <2> QED BY Zenon, <1>1, <1>2, <2>1, NewTask DEF LifeOK, TaskOK
  <1>17. CASE ReleaseIMTransfer(a)
    <2>1. phase[a] = "over" /\ phase' = phase /\ task' = task
      BY Zenon, <1>1, <1>17 DEF ReleaseIMTransfer, LifeOK, TypeOK
    <2> QED BY Zenon, <1>1, <1>2, <2>1 DEF LifeOK, TaskOK
  <1> QED BY Zenon, <1>5, <1>6, <1>7, <1>8, <1>9, <1>10, <1>11, <1>12, <1>13, <1>14, <1>15, <1>16, <1>17
          DEF Run, Transferred, SessionDone, CancelWait, CheckIdleTimeouts

(* The steps of a transfer: only the start of the target matters. *)
Starts(a, b) ==
    /\ rpc[a] = "reserved" /\ phase[b] = "none"
    /\ phase' = Fresh(phase, b) /\ sess' = Opened(sess, b) /\ rpc' = [rpc EXCEPT ![a] = b]
    /\ origin'[b].source = a /\ origin'[b].initiator = agent[a]
    /\ \A c \in Attempts \ {b} : origin'[c] = origin[c]
    /\ UNCHANGED <<transfer, agent, offered, task, cancel, tidy, offers, gateway>>

LEMMA TransferSteps ==
    ASSUME TypeOK, NEW a \in Attempts, Transfer(a)
    PROVE  \/ UNCHANGED <<phase, origin, agent, offered, task, cancel, tidy, offers, sess, gateway>>
           \/ \E b \in Attempts : Starts(a, b)
  <1>1. CASE ReserveIMTransfer(a) \/ SetIMTransferTo(a)
    BY Zenon, <1>1 DEF ReserveIMTransfer, SetIMTransferTo
  <1>2. CASE DistributeIMTransfer(a)
    <2>1. ASSUME NEW b \in Attempts, NEW direct \in Direct, phase[b] = "none",
                 phase' = Fresh(phase, b) /\ sess' = Opened(sess, b),
                 origin' = [origin EXCEPT ![b] = [source |-> a, initiator |-> agent[a], named |-> direct]],
                 rpc' = [rpc EXCEPT ![a] = b], UNCHANGED transfer
          PROVE  Starts(a, b)
      BY Zenon, <1>2, <2>1 DEF DistributeIMTransfer, Starts, TypeOK
    <2> QED BY Zenon, <1>2, <2>1 DEF DistributeIMTransfer
  <1> QED BY Zenon, <1>1, <1>2 DEF Transfer

LEMMA LifeOfTransfer ==
    ASSUME ImInv, NEW a \in Attempts, Transfer(a)
    PROVE  \A b \in Attempts : LifeOK(b)' /\ TaskOK(b)'
  <1>1. TypeOK
    BY Zenon DEF ImInv
  <1>2. CASE UNCHANGED <<phase, origin, agent, offered, task, cancel, tidy, offers, sess, gateway>>
    BY Zenon, <1>2 DEF ImInv, LifeOK, TaskOK, TaskKept
  <1>3. ASSUME NEW b \in Attempts, Starts(a, b) PROVE \A c \in Attempts : LifeOK(c)' /\ TaskOK(c)'
    <2>1. LifeOK(b) /\ TaskOK(b) /\ Bridged(a)
      BY Zenon, <1>3 DEF ImInv, SourceOK, Starts
    <2>2. /\ phase'[b] = "wait" /\ tidy' = tidy /\ task' = task /\ agent' = agent
          /\ origin'[b].source = a /\ origin'[b].initiator # None
          /\ \A c \in Attempts \ {b} : phase'[c] = phase[c] /\ origin'[c] = origin[c] /\ sess'[c] = sess[c]
      BY Zenon, <1>1, <1>3, <2>1 DEF Starts, Fresh, Opened, TypeOK, Bridged
    <2>3. LifeOK(b)' /\ TaskOK(b)'
      BY Zenon, <1>3, <2>1, <2>2, ImAssumption DEF LifeOK, TaskOK, TaskKept, Starts
    <2>4. ASSUME NEW c \in Attempts \ {b} PROVE LifeOK(c)' /\ TaskOK(c)'
      BY <2>2, <2>4 DEF ImInv, LifeOK, TaskOK, TaskKept
    <2> QED BY Zenon, <2>3, <2>4
  <1> QED BY Zenon, <1>1, <1>2, <1>3, TransferSteps

(* The gateway, the client and the agents: the session is only marked. *)
LEMMA OutsideSteps ==
    ASSUME TypeOK, Outside
    PROVE  /\ UNCHANGED <<queue, previews>> /\ thread' \subseteq thread
           /\ \A a \in Attempts : /\ sess'[a].user = sess[a].user /\ sess'[a].member = sess[a].member
                                  /\ sess'[a].preview = sess[a].preview
  <1>1. CASE HandleEvent
    <2>1. ASSUME NEW a \in Attempts
          PROVE  /\ sess'[a].user = sess[a].user /\ sess'[a].member = sess[a].member
                 /\ sess'[a].preview = sess[a].preview
      BY Zenon, <1>1 DEF HandleEvent, TypeOK, SessionSet
    <2> QED BY Zenon, <1>1, <2>1 DEF HandleEvent
  <1>2. CASE ClientLeaves \/ \E m \in thread : AgentLeaves(m)
    BY Zenon, <1>2 DEF ClientLeaves, AgentLeaves
  <1> QED BY Zenon, <1>1, <1>2 DEF Outside

LEMMA LifeOutside ==
    ASSUME ImInv, Outside
    PROVE  \A a \in Attempts : LifeOK(a)' /\ TaskOK(a)' /\ SourceOK(a)'
  <1>1. UNCHANGED queue /\ \A a \in Attempts : sess'[a].user = sess[a].user
    BY Zenon, OutsideSteps DEF ImInv
  <1>2. ASSUME NEW a \in Attempts PROVE LifeOK(a)' /\ TaskOK(a)'
    BY Zenon, <1>1 DEF ImInv, queue, LifeOK, TaskOK, TaskKept
  <1>3. ASSUME NEW a \in Attempts PROVE SourceOK(a)'
    BY <1>1 DEF ImInv, queue, SourceOK, Bridged, Running
  <1> QED BY Zenon, <1>2, <1>3

------------------------------------------------------------------------------
(* The source and its targets. *)

(* An agent that joined stays the attempt's agent. *)
LEMMA BridgedStays ==
    ASSUME ImInv, NEW a \in Attempts, Run(a), NEW s \in Attempts, Bridged(s)
    PROVE  Bridged(s)' /\ agent'[s] = agent[s]
  <1>1. TypeOK /\ TaskOK(a) /\ TaskKept(task[a])
    BY Zenon DEF ImInv, TaskOK
  <1>2. CASE s # a
    <2>1. Same(s)
      BY Zenon, <1>1, <1>2, Elsewhere
    <2> QED BY Zenon, <2>1 DEF Bridged, Same
  <1>3. CASE s = a
    <2>1. phase[a] \in {"talk", "final", "stuck", "over"}
      BY Zenon, <1>3 DEF Bridged
    <2>2. CASE SeeCancel(a)
      BY Zenon, <1>1, <1>3, <2>1, <2>2 DEF SeeCancel, Goto, TypeOK, TaskOK, Bridged
    <2>3. CASE ReadTask(a)
      <3>1. phase[a] = "talk" /\ task[a].states # <<>>
        BY Zenon, <2>1, <2>3 DEF ReadTask
      <3>2. Head(task[a].states) # "bridged" /\ task[a].bridged
        BY Zenon, <1>1, <3>1, ReadTaskState DEF TaskOK
      <3>3. Goto(a, "final") /\ UNCHANGED agent
        BY Zenon, <2>3, <3>2 DEF ReadTask
      <3> QED BY Zenon, <1>1, <1>3, <3>3 DEF Goto, TypeOK, Bridged
    <2>4. CASE Leave(a)
      BY Zenon, <1>1, <1>3, <2>1, <2>4 DEF Leave, Goto, TypeOK, Bridged
    <2>5. CASE FinalizeAttempt(a)
      BY Zenon, <1>1, <1>3, <2>1, <2>5 DEF FinalizeAttempt, Goto, TypeOK, Bridged
    <2>6. CASE CleanupSession(a) \/ ReleaseIMTransfer(a) \/ SkipInitiator(a)
      BY Zenon, <1>3, <2>1, <2>6 DEF CleanupSession, ReleaseIMTransfer, SkipInitiator, Bridged
    <2> QED BY Zenon, <2>1, <2>2, <2>3, <2>4, <2>5, <2>6
            DEF Run, TakeAgent, InviteTimeout, CloseTask, JoinAgent, TransferAgent, CompleteIMTransfer,
                Transferred, SessionDone, CancelWait, CheckIdleTimeouts
  <1> QED BY Zenon, <1>2, <1>3

(* A finished target does not run again. *)
LEMMA OverStays ==
    ASSUME ImInv, NEW a \in Attempts, Run(a), NEW b \in Attempts, phase[b] = "over"
    PROVE  phase'[b] = "over" /\ ("release" \in tidy'[b] => "release" \in tidy[b])
  <1>1. TypeOK
    BY Zenon DEF ImInv
  <1>2. CASE b # a
    <2>1. Same(b)
      BY Zenon, <1>1, <1>2, Elsewhere
    <2> QED BY Zenon, <2>1 DEF Same
  <1>3. CASE b = a
    <2>1. CASE CleanupSession(a) \/ ReleaseIMTransfer(a)
      BY <1>1, <1>3, <2>1 DEF CleanupSession, ReleaseIMTransfer, TypeOK
    <2> QED BY Zenon, <1>3, <2>1
            DEF Run, SkipInitiator, TakeAgent, InviteTimeout, SeeCancel, CloseTask, ReadTask, JoinAgent,
                TransferAgent, CompleteIMTransfer, FinalizeAttempt,
                Transferred, SessionDone, CancelWait, CheckIdleTimeouts
  <1> QED BY Zenon, <1>2, <1>3

(* The steps of the run goroutine. *)
LEMMA SourceOfRun ==
    ASSUME ImInv, NEW a \in Attempts, Run(a), NEW s \in Attempts
    PROVE  SourceOK(s)'
  <1>1. TypeOK /\ SourceOK(s) /\ LifeOK(a)
    BY Zenon DEF ImInv
  <1>2. UNCHANGED <<origin, rpc>>
    BY Zenon, <1>1, Elsewhere
  <1>3. Bridged(s) => Bridged(s)' /\ agent'[s] = agent[s]
    BY Zenon, BridgedStays
  <1>4. \A b \in Attempts : Running(b, s)' => Running(b, s)
    BY Zenon, <1>2, OverStays DEF Running
  <1>5. \A b, c \in Attempts : Running(b, s)' /\ Running(c, s)' => b = c
    BY Zenon, <1>1, <1>4 DEF SourceOK
  <1>6. /\ rpc'[s] = "reserved" => \A b \in Attempts : ~Running(b, s)'
        /\ rpc'[s] \in Attempts => \A b \in Attempts : Running(b, s)' => b = rpc'[s]
    BY Zenon, <1>1, <1>2, <1>4 DEF SourceOK
  <1>7. \A b \in Attempts : origin'[b].source = s => Bridged(s)' /\ origin'[b].initiator = agent'[s]
    BY Zenon, <1>1, <1>2, <1>3 DEF SourceOK
  <1>8. /\ ~transfer'[s].pending /\ ~transfer'[s].done =>
              rpc'[s] # "reserved" /\ \A b \in Attempts : ~Running(b, s)'
        /\ rpc'[s] # "idle" \/ transfer'[s].done => Bridged(s)'
    <2>1. CASE transfer'[s] = transfer[s]
      BY Zenon, <1>1, <1>2, <1>3, <1>4, <2>1 DEF SourceOK
    <2>2. CASE CompleteIMTransfer(a) /\ transfer'[s] # transfer[s]
      <3>1. origin[a].source = s /\ transfer'[s].done
        BY <1>1, <2>2 DEF CompleteIMTransfer, TypeOK, TransferSet, GetAttempt
      <3> QED BY Zenon, <1>1, <1>2, <1>7, <3>1 DEF SourceOK
    <2>3. CASE ReleaseIMTransfer(a) /\ transfer'[s] # transfer[s]
      <3>1. origin[a].source = s /\ transfer'[s] = Released(transfer[s], a)
        BY Zenon, <1>1, <2>3 DEF ReleaseIMTransfer, TypeOK, GetAttempt
      <3>2. transfer'[s].done = transfer[s].done
        BY Zenon, <1>1, <3>1 DEF Released, TypeOK, TransferSet
      <3>3. Running(a, s) /\ ~Running(a, s)'
        BY Zenon, <1>1, <1>2, <2>3, <3>1 DEF ReleaseIMTransfer, Running, LifeOK, TypeOK
      <3>4. rpc[s] # "reserved" /\ \A b \in Attempts : ~Running(b, s)'
        BY Zenon, <1>1, <1>4, <3>3 DEF SourceOK
      <3> QED BY Zenon, <1>1, <1>2, <1>3, <3>2, <3>4 DEF SourceOK
    <2> QED BY Zenon, <2>1, <2>2, <2>3
            DEF Run, SkipInitiator, TakeAgent, InviteTimeout, SeeCancel, CloseTask, ReadTask, JoinAgent,
                TransferAgent, Leave, FinalizeAttempt, CleanupSession,
                Transferred, SessionDone, CancelWait, CheckIdleTimeouts
  <1> QED BY Zenon, <1>5, <1>6, <1>7, <1>8 DEF SourceOK

(* The methods of the task do not concern the source. *)
LEMMA SourceOfTask ==
    ASSUME ImInv, NEW a \in Attempts, Task(a), NEW s \in Attempts
    PROVE  SourceOK(s)'
  <1>1. UNCHANGED <<phase, origin, agent, transfer, rpc, tidy>> /\ SourceOK(s)
    BY Zenon DEF ImInv, Task, AcceptAgentTask, CloseAgentTask, ReportTask
  <1> QED BY Zenon, <1>1 DEF SourceOK, Bridged, Running

(* The steps of a transfer. *)
LEMMA SourceOfTransfer ==
    ASSUME ImInv, NEW a \in Attempts, Transfer(a), NEW s \in Attempts
    PROVE  SourceOK(s)'
  <1>1. TypeOK /\ SourceOK(s) /\ SourceOK(a) /\ LifeOK(a)
    BY Zenon DEF ImInv
  <1>2. "idle" \notin Attempts /\ "reserved" \notin Attempts /\ None \notin Attempts
    BY Zenon, ImAssumption
  <1>3. CASE ReserveIMTransfer(a)
    <2>1. UNCHANGED <<phase, origin, agent, tidy>>
      BY Zenon, <1>3 DEF ReserveIMTransfer
    <2>2. CASE s # a
      <3>1. rpc'[s] = rpc[s] /\ transfer'[s] = transfer[s]
        BY Zenon, <1>1, <1>3, <2>2 DEF ReserveIMTransfer, TypeOK
      <3> QED BY Zenon, <1>1, <2>1, <3>1 DEF SourceOK, Bridged, Running
    <2>3. CASE s = a
      <3>1. /\ rpc'[s] = "reserved" /\ transfer'[s].pending /\ Bridged(s)
            /\ \A b \in Attempts : ~Running(b, s)
        BY <1>1, <1>3, <2>3 DEF ReserveIMTransfer, TypeOK, TransferSet, SourceOK, Bridged, LifeOK
      <3> QED BY Zenon, <1>1, <1>2, <2>1, <3>1 DEF SourceOK, Bridged, Running
    <2> QED BY Zenon, <2>2, <2>3
  <1>4. CASE SetIMTransferTo(a)
    <2>1. UNCHANGED <<phase, origin, agent, tidy>>
      BY Zenon, <1>4 DEF SetIMTransferTo
    <2>2. CASE s # a
      <3>1. rpc'[s] = rpc[s] /\ transfer'[s] = transfer[s]
        BY Zenon, <1>1, <1>4, <2>2 DEF SetIMTransferTo, TypeOK
      <3> QED BY Zenon, <1>1, <2>1, <3>1 DEF SourceOK, Bridged, Running
    <2>3. CASE s = a
      <3>1. /\ rpc'[s] = "idle"
            /\ transfer'[s].pending = transfer[s].pending /\ transfer'[s].done = transfer[s].done
        BY Zenon, <1>1, <1>4, <2>3 DEF SetIMTransferTo, TypeOK, TransferSet
      <3> QED BY Zenon, <1>1, <1>2, <2>1, <3>1 DEF SourceOK, Bridged, Running
    <2> QED BY Zenon, <2>2, <2>3
  <1>5. CASE DistributeIMTransfer(a) /\ UNCHANGED <<phase, origin>>
    <2>1. UNCHANGED <<agent, tidy>>
      BY Zenon, <1>5 DEF DistributeIMTransfer
    <2>2. /\ rpc[a] = "reserved" /\ transfer' = [transfer EXCEPT ![a] = Released(@, None)]
          /\ rpc' = [rpc EXCEPT ![a] = "idle"]
      <3>1. ASSUME NEW b \in Attempts, phase[b] = "none", phase' = Fresh(phase, b) PROVE FALSE
        BY Zenon, <1>1, <1>5, <3>1 DEF Fresh, TypeOK
      <3> QED BY Zenon, <1>5, <3>1 DEF DistributeIMTransfer
    <2>3. CASE s # a
      <3>1. rpc'[s] = rpc[s] /\ transfer'[s] = transfer[s]
        BY Zenon, <1>1, <2>2, <2>3 DEF TypeOK
      <3> QED BY Zenon, <1>1, <1>5, <2>1, <3>1 DEF SourceOK, Bridged, Running
    <2>4. CASE s = a
      <3>1. rpc'[s] = "idle" /\ transfer'[s].done = transfer[s].done
        BY <1>1, <2>2, <2>4 DEF TypeOK, TransferSet, Released
      <3>2. \A b \in Attempts : ~Running(b, s)
        BY Zenon, <1>1, <2>2, <2>4 DEF SourceOK
      <3> QED BY Zenon, <1>1, <1>2, <1>5, <2>1, <3>1, <3>2 DEF SourceOK, Bridged, Running
    <2> QED BY Zenon, <2>3, <2>4
  <1>6. ASSUME NEW b \in Attempts, Starts(a, b) PROVE SourceOK(s)'
    <2>1. /\ Bridged(a) /\ phase'[b] = "wait" /\ rpc'[a] = b /\ UNCHANGED <<agent, tidy, transfer>>
          /\ \A c \in Attempts \ {b} : phase'[c] = phase[c] /\ origin'[c] = origin[c]
          /\ \A c \in Attempts \ {a} : rpc'[c] = rpc[c]
          /\ origin'[b].source = a /\ origin'[b].initiator = agent[a]
      BY Zenon, <1>1, <1>2, <1>6 DEF Starts, Fresh, TypeOK, SourceOK
    <2>2. phase[b] = "none" /\ origin[b].source = None /\ rpc[a] = "reserved"
      BY Zenon, <1>6 DEF Starts, ImInv, LifeOK
    <2>3. \A c \in Attempts : Running(c, s)' => (Running(c, s) /\ c # b) \/ (s = a /\ c = b)
      BY Zenon, <2>1 DEF Running
    <2>4. Bridged(s) => Bridged(s)' /\ agent'[s] = agent[s]
      BY Zenon, <2>1, <2>2 DEF Bridged
    <2>5. CASE s # a
      BY ZenonT(30), <1>1, <1>2, <2>1, <2>3, <2>4, <2>5 DEF SourceOK
    <2>6. CASE s = a
      <3>1. \A c \in Attempts : ~Running(c, s)
        BY Zenon, <1>1, <2>2, <2>6 DEF SourceOK
      <3> QED BY <1>1, <1>2, <2>1, <2>2, <2>3, <2>4, <2>6, <3>1 DEF SourceOK
    <2> QED BY Zenon, <2>5, <2>6
  <1>7. DistributeIMTransfer(a) => (UNCHANGED <<phase, origin>> \/ \E b \in Attempts : Starts(a, b))
    BY Zenon, <1>1, TransferSteps
  <1> QED BY Zenon, <1>3, <1>4, <1>5, <1>6, <1>7 DEF Transfer

------------------------------------------------------------------------------
(* The members of the thread. *)

(* A step of the run goroutine adds its own agent, or nobody. *)
Adds(a) ==
    LET m == <<agent[a], a>> IN
    /\ phase[a] = "join" /\ agent[a] \notin Contacts
    /\ m \in Members /\ m[1] = agent[a] /\ m[2] = a
    /\ thread' \subseteq thread \cup {m} /\ previews' = previews \ {m}
    /\ phase'[a] \in {"talk", "complete"} /\ agent'[a] = agent[a]
    /\ sess'[a].member = m /\ sess'[a].user = agent[a] /\ UNCHANGED transfer

LEMMA Additions ==
    ASSUME ImInv, NEW a \in Attempts, Run(a)
    PROVE  thread' \subseteq thread \/ Adds(a)
  <1>1. TypeOK /\ LifeOK(a)
    BY Zenon DEF ImInv
  <1>2. ASSUME phase[a] = "join", agent[a] \notin Contacts, Joined(a), previews' = previews \ {<<agent[a], a>>},
               UNCHANGED <<agent, transfer>>, thread' \subseteq thread \cup {<<agent[a], a>>},
               Goto(a, "talk") \/ Goto(a, "complete")
        PROVE  Adds(a)
    <2>1. agent[a] # None /\ agent[a] \in Agents /\ sess[a] \in SessionSet
      BY Zenon, <1>1, <1>2 DEF LifeOK, TypeOK
    <2>2. <<agent[a], a>> \in Members
      BY Zenon, <1>1, <1>2, <2>1, JoinedTyped
    <2>3. sess'[a].member = <<agent[a], a>> /\ sess'[a].user = agent[a]
      BY Zenon, <1>1, <1>2, <2>1 DEF Joined, TypeOK, SessionSet
    <2>4. phase'[a] \in {"talk", "complete"}
      BY Zenon, <1>1, <1>2 DEF Goto, TypeOK
    <2> QED BY Zenon, <1>2, <2>1, <2>2, <2>3, <2>4 DEF Adds
  <1>3. CASE JoinAgent(a)
    BY Zenon, <1>2, <1>3 DEF JoinAgent, Missed
  <1>4. CASE TransferAgent(a)
    BY Zenon, <1>2, <1>4 DEF TransferAgent, Missed
  <1>5. CASE ReadTask(a)
    BY Zenon, <1>5 DEF ReadTask, Missed
  <1> QED BY Zenon, <1>3, <1>4, <1>5
          DEF Run, SkipInitiator, TakeAgent, InviteTimeout, SeeCancel, CloseTask, CompleteIMTransfer, Leave,
              FinalizeAttempt, CleanupSession, ReleaseIMTransfer, gateway,
              Transferred, SessionDone, CancelWait, CheckIdleTimeouts

(* A membership is kept until the attempt gives it back. *)
LEMMA MembersStay ==
    ASSUME ImInv, NEW a \in Attempts, Run(a), NEW m \in thread, m \in thread'
    PROVE  Joins(m)'
  <1>1. TypeOK /\ LifeOK(a) /\ TaskOK(a) /\ TaskKept(task[a]) /\ Joins(m) /\ m \in Members
    BY Zenon DEF ImInv, ThreadOK, TaskOK, TypeOK
  <1>2. m[1] \in Agents /\ m[2] \in Attempts /\ m[1] # None
    BY Zenon, <1>1, ImAssumption DEF Members
  <1>3. CASE m[2] # a
    <2>1. Same(m[2])
      BY Zenon, <1>1, <1>2, <1>3, Elsewhere
    <2> QED BY Zenon, <1>1, <2>1 DEF Joins, Same
  <1>4. CASE m[2] = a
    <2>1. /\ m[1] = agent[a] /\ sess[a].member = m
          /\ phase[a] \in {"complete", "talk", "final", "stuck"} \/ (phase[a] = "over" /\ "cleanup" \in tidy[a])
          /\ phase[a] \in {"final", "over"} => offered[a] # None
      BY Zenon, <1>1, <1>4 DEF Joins
    <2> SUFFICES
          /\ m[1] = agent'[a] /\ sess'[a].member = m
          /\ phase'[a] \in {"complete", "talk", "final", "stuck"} \/ (phase'[a] = "over" /\ "cleanup" \in tidy'[a])
          /\ phase'[a] \in {"final", "over"} => offered'[a] # None
      BY Zenon, <1>4 DEF Joins
    <2>2. CASE SeeCancel(a)
      BY Zenon, <1>1, <2>1, <2>2 DEF SeeCancel, Goto, TypeOK, TaskOK
    <2>3. CASE ReadTask(a)
      <3>1. phase[a] = "talk" /\ task[a].states # <<>>
        BY Zenon, <2>1, <2>3 DEF ReadTask
      <3>2. Head(task[a].states) # "bridged" /\ task[a].bridged
        BY Zenon, <1>1, <3>1, ReadTaskState DEF TaskOK
      <3>3. Goto(a, "final") /\ UNCHANGED <<agent, sess>> /\ offered' = [offered EXCEPT ![a] = agent[a]]
        BY Zenon, <2>3, <3>2 DEF ReadTask
      <3> QED BY Zenon, <1>1, <1>2, <2>1, <3>3 DEF Goto, TypeOK
    <2>4. CASE Leave(a) /\ phase[a] # "wait"
      BY Zenon, <1>1, <1>2, <2>1, <2>4 DEF Leave, Goto, TypeOK
    <2>5. CASE FinalizeAttempt(a)
      BY <1>1, <2>1, <2>5 DEF FinalizeAttempt, Goto, TypeOK
    <2>6. CASE CleanupSession(a)
      <3>1. phase[a] = "over" /\ sess[a].member = m
        BY Zenon, <1>1, <2>1, <2>6 DEF CleanupSession, LifeOK
      <3>2. offered[a] # None /\ ~transfer[a].done
        BY Zenon, <1>4, <2>1, <3>1 DEF ImInv, ThreadOK
      <3>3. thread' = thread \ {m}
        BY Zenon, <2>6, <3>1, <3>2 DEF CleanupSession
      <3> QED BY Zenon, <3>3
    <2>7. CASE ReleaseIMTransfer(a)
      BY Zenon, <1>1, <2>1, <2>7 DEF ReleaseIMTransfer, TypeOK
    <2>8. CASE CompleteIMTransfer(a)
      BY Zenon, <1>1, <2>1, <2>8 DEF CompleteIMTransfer, Goto, TypeOK
    <2> QED BY Zenon, <2>1, <2>2, <2>3, <2>4, <2>5, <2>6, <2>7, <2>8
            DEF Run, SkipInitiator, TakeAgent, InviteTimeout, CloseTask, JoinAgent, TransferAgent,
                Transferred, SessionDone, CancelWait, CheckIdleTimeouts
  <1> QED BY Zenon, <1>3, <1>4

(* The steps of the run goroutine. *)
LEMMA ThreadOfRun ==
    ASSUME ImInv, NEW a \in Attempts, Run(a)
    PROVE  ThreadOK'
  <1>1. TypeOK /\ ThreadOK /\ LifeOK(a)
    BY Zenon DEF ImInv
  <1>2. UNCHANGED <<origin, rpc>> /\ \A b \in Attempts \ {a} : Same(b)
    BY Zenon, <1>1, Elsewhere
  <1>3. thread' \subseteq thread \/ Adds(a)
    BY Zenon, Additions
  <1>4. \A m, n \in thread' : m[1] = n[1] => m = n
    BY <1>1, <1>3 DEF ThreadOK, Adds, Contacts
  <1>5. ASSUME NEW m \in thread' PROVE Joins(m)'
    <2>1. CASE m \in thread
      BY Zenon, <1>5, <2>1, MembersStay
    <2>2. CASE m \notin thread
      <3>1. Adds(a) /\ m = <<agent[a], a>> /\ m[1] = agent[a] /\ m[2] = a
        BY Zenon, <1>3, <1>5, <2>2 DEF Adds
      <3> QED BY Zenon, <3>1 DEF Adds, Joins
    <2> QED BY Zenon, <2>1, <2>2
  <1>6. ASSUME NEW b \in Attempts, phase'[b] = "complete"
        PROVE  origin'[b].source # None /\ \A m \in thread' : m[2] # origin'[b].source
    <2>1. CASE phase[b] = "complete"
      <3>1. origin[b].source # None /\ \A m \in thread : m[2] # origin[b].source
        BY Zenon, <1>1, <2>1 DEF ThreadOK
      <3>2. Adds(a) => origin[b].source # a
        <4>1. origin[b].source = a => Bridged(a)
          BY Zenon DEF ImInv, SourceOK
        <4> QED BY Zenon, <4>1 DEF Adds, Bridged
      <3> QED BY Zenon, <1>2, <1>3, <3>1, <3>2 DEF Adds
    <2>2. CASE phase[b] # "complete"
      <3>1. b = a
        BY Zenon, <1>2, <1>6, <2>2 DEF Same
      <3>2. TransferAgent(a) /\ ~Missed(a)
        <4>1. Missed(a) => phase'[a] # "complete"
          BY Zenon, <1>1 DEF Missed, Goto, TypeOK
        <4>2. \A p \in Phases \ {"complete"} : Goto(a, p) => phase'[a] # "complete"
          BY <1>1 DEF Goto, TypeOK
        <4>3. /\ {"offer", "wait", "final", "talk", "join", "close", "stuck", "over"} \subseteq Phases \ {"complete"}
              /\ phase[a] \in Phases \ {"complete"}
          BY Zenon, <1>1, <2>2, <3>1 DEF Phases, TypeOK
        <4>4. ~SeeCancel(a) /\ ~CloseTask(a) /\ ~FinalizeAttempt(a)
          BY Zenon, <1>6, <3>1, <4>2, <4>3 DEF SeeCancel, CloseTask, FinalizeAttempt
        <4>5. \A x \in Agents : ~TakeAgent(a, x)
          BY Zenon, <1>6, <3>1, <4>2, <4>3 DEF TakeAgent, TakenAsAccepted, Previewed, NotPreviewed
        <4>6. ~ReadTask(a) /\ ~JoinAgent(a) /\ ~Leave(a) /\ ~CompleteIMTransfer(a) /\ ~InviteTimeout(a)
          BY Zenon, <1>6, <3>1, <4>1, <4>2, <4>3 DEF ReadTask, JoinAgent, Leave, CompleteIMTransfer, InviteTimeout
        <4>7. ~SkipInitiator(a) /\ ~CleanupSession(a) /\ ~ReleaseIMTransfer(a)
          BY Zenon, <1>6, <2>2, <3>1 DEF SkipInitiator, CleanupSession, ReleaseIMTransfer
        <4> QED BY Zenon, <1>6, <3>1, <4>1, <4>4, <4>5, <4>6, <4>7
                DEF Run, Transferred, SessionDone, CancelWait, CheckIdleTimeouts
      <3>3. PICK m \in thread : m[1] = origin[a].initiator /\ thread' = (thread \ {m}) \cup {<<agent[a], a>>}
        BY Zenon, <3>2 DEF TransferAgent
      <3>4. PICK s \in Attempts : s = origin[a].source
        BY Zenon, <1>1, <3>2 DEF TransferAgent, LifeOK, TypeOK, OriginSet
      <3>5. Bridged(s) /\ origin[a].initiator = agent[s]
        BY Zenon, <3>4 DEF ImInv, SourceOK
      <3>6. s # a
        BY Zenon, <3>2, <3>5 DEF TransferAgent, Bridged
      <3>7. \A n \in thread : n[2] = s => n = m
        BY <1>1, <3>3, <3>5 DEF ThreadOK, Joins
      <3>8. \A n \in thread' : n[2] # s
        BY <3>3, <3>6, <3>7
      <3> QED BY Zenon, <1>2, <3>1, <3>4, <3>8, ImAssumption
    <2> QED BY Zenon, <2>1, <2>2
  <1>7. ASSUME NEW s \in Attempts, transfer'[s].done, NEW m \in thread' PROVE m[2] # s
    <2>1. CASE transfer[s].done
      <3>1. Bridged(s)
        BY Zenon, <2>1 DEF ImInv, SourceOK
      <3> QED BY Zenon, <1>1, <1>3, <2>1, <3>1 DEF ThreadOK, Adds, Bridged
    <2>2. CASE ~transfer[s].done
      <3>1. CASE CompleteIMTransfer(a)
        <4>1. origin[a].source = s /\ phase[a] = "complete" /\ thread' = thread
          BY Zenon, <1>1, <1>7, <2>2, <3>1 DEF CompleteIMTransfer, TypeOK, GetAttempt, TransferSet, gateway
        <4> QED BY Zenon, <1>1, <4>1 DEF ThreadOK
      <3>2. CASE ReleaseIMTransfer(a)
        BY <1>1, <1>7, <2>2, <3>2 DEF ReleaseIMTransfer, Released, TypeOK, TransferSet
      <3> QED BY Zenon, <1>7, <2>2, <3>1, <3>2
              DEF Run, SkipInitiator, TakeAgent, InviteTimeout, SeeCancel, CloseTask, ReadTask, JoinAgent,
                  TransferAgent, Leave, FinalizeAttempt, CleanupSession,
                  Transferred, SessionDone, CancelWait, CheckIdleTimeouts
    <2> QED BY Zenon, <2>1, <2>2
  <1> QED BY Zenon, <1>4, <1>5, <1>6, <1>7 DEF ThreadOK

(* The other steps. *)
LEMMA ThreadOfOthers ==
    ASSUME ImInv, (\E a \in Attempts : Task(a) \/ Transfer(a)) \/ Outside
    PROVE  ThreadOK'
  <1>1. TypeOK /\ ThreadOK
    BY Zenon DEF ImInv
  <1>2. CASE Outside
    <2>1. /\ UNCHANGED queue /\ thread' \subseteq thread
          /\ \A a \in Attempts : sess'[a].member = sess[a].member
      BY Zenon, <1>1, <1>2, OutsideSteps
    <2>2. ASSUME NEW m \in thread' PROVE Joins(m)'
      <3>1. m \in thread /\ m[2] \in Attempts
        BY <1>1, <2>1 DEF TypeOK, Members
      <3> QED BY Zenon, <1>1, <2>1, <3>1 DEF ThreadOK, Joins, queue
    <2> QED BY Zenon, <1>1, <2>1, <2>2 DEF ThreadOK, queue
  <1>3. ASSUME NEW a \in Attempts, Task(a) PROVE ThreadOK'
    <2>1. UNCHANGED <<phase, origin, agent, offered, transfer, tidy, sess, thread>>
      BY Zenon, <1>3 DEF Task, AcceptAgentTask, CloseAgentTask, ReportTask, gateway
    <2> QED BY Zenon, <1>1, <2>1 DEF ThreadOK, Joins
  <1>4. ASSUME NEW a \in Attempts, Transfer(a) PROVE ThreadOK'
    <2>1. UNCHANGED thread /\ \A s \in Attempts : transfer'[s].done = transfer[s].done
      <3>1. UNCHANGED thread
        BY Zenon, <1>4 DEF Transfer, ReserveIMTransfer, DistributeIMTransfer, SetIMTransferTo, gateway
      <3>2. PICK t : \/ transfer' = transfer
                     \/ transfer' = [transfer EXCEPT ![a] = t] /\ t.done = transfer[a].done
        <4>1. transfer[a] \in TransferSet
          BY Zenon, <1>1 DEF TypeOK
        <4>2. /\ [transfer[a] EXCEPT !.pending = TRUE].done = transfer[a].done
              /\ [transfer[a] EXCEPT !.to = rpc[a]].done = transfer[a].done
              /\ Released(transfer[a], None).done = transfer[a].done
          BY Zenon, <4>1 DEF TransferSet, Released
        <4> QED BY Zenon, <1>4, <4>2 DEF Transfer, ReserveIMTransfer, DistributeIMTransfer, SetIMTransferTo
      <3> QED BY Zenon, <1>1, <3>1, <3>2 DEF TypeOK
    <2>2. CASE UNCHANGED <<phase, origin, agent, offered, tidy, sess>>
      BY Zenon, <1>1, <2>1, <2>2 DEF ThreadOK, Joins
    <2>3. ASSUME NEW b \in Attempts, Starts(a, b) PROVE ThreadOK'
      <3>1. /\ phase[b] = "none" /\ phase'[b] = "wait" /\ UNCHANGED <<agent, offered, tidy>>
            /\ \A c \in Attempts \ {b} : phase'[c] = phase[c] /\ origin'[c] = origin[c] /\ sess'[c] = sess[c]
        BY Zenon, <1>1, <2>3 DEF Starts, Fresh, Opened, TypeOK
      <3>2. ASSUME NEW m \in thread PROVE Joins(m)'
        <4>1. m \in Members /\ Joins(m)
          BY Zenon, <1>1 DEF TypeOK, ThreadOK
        <4>2. m[2] \in Attempts /\ m[2] # b
          BY <3>1, <4>1 DEF Members, Joins
        <4> QED BY <3>1, <4>1, <4>2 DEF Joins
      <3> QED BY <1>1, <2>1, <3>1, <3>2 DEF ThreadOK
    <2> QED BY Zenon, <1>1, <1>4, <2>2, <2>3, TransferSteps
  <1> QED BY Zenon, <1>2, <1>3, <1>4

------------------------------------------------------------------------------
(* The previews. *)

(* What a missed offer leaves: no preview of the attempt. *)
LEMMA MissedPreview ==
    ASSUME TypeOK, \A p \in previews : Sees(p), NEW a \in Attempts, Missed(a)
    PROVE  /\ previews' \subseteq previews /\ \A p \in previews' : p[2] # a
           /\ sess'[a].user = sess[a].user /\ phase'[a] \in {"wait", "final"}
  <1>1. ASSUME NEW p \in previews, p[2] = a PROVE p = <<agent[a], a>>
    BY <1>1 DEF TypeOK, Members, Sees
  <1>2. sess'[a].user = sess[a].user /\ phase'[a] \in {"wait", "final"}
    BY DEF Missed, Goto, TypeOK, SessionSet
  <1> QED BY Zenon, <1>1, <1>2 DEF Missed

(* A preview is kept until the offer is answered or given up. *)
LEMMA PreviewsStay ==
    ASSUME ImInv, NEW a \in Attempts, Run(a), NEW p \in previews, p \in previews'
    PROVE  Sees(p)'
  <1>1. TypeOK /\ LifeOK(a) /\ PreviewsOK /\ Sees(p) /\ p \in Members
    BY Zenon DEF ImInv, PreviewsOK, TypeOK
  <1>2. p[1] \in Agents /\ p[2] \in Attempts /\ p[1] # None
    BY Zenon, <1>1, ImAssumption DEF Members
  <1>3. CASE p[2] # a
    <2>1. Same(p[2])
      BY Zenon, <1>1, <1>2, <1>3, Elsewhere
    <2> QED BY Zenon, <1>1, <2>1 DEF Sees, Same
  <1>4. CASE p[2] = a
    <2>1. /\ p[1] = agent[a] /\ sess[a].preview = p[1] /\ p = <<agent[a], a>> /\ p = <<sess[a].preview, a>>
          /\ phase[a] \in {"offer", "close", "join", "final", "stuck"} \/ (phase[a] = "over" /\ "cleanup" \in tidy[a])
          /\ phase[a] \in {"final", "over"} => offered[a] # None
      BY <1>1, <1>4 DEF Sees, Members
    <2> SUFFICES
          /\ p[1] = agent'[a] /\ sess'[a].preview = p[1]
          /\ phase'[a] \in {"offer", "close", "join", "final", "stuck"}
             \/ (phase'[a] = "over" /\ "cleanup" \in tidy'[a])
          /\ phase'[a] \in {"final", "over"} => offered'[a] # None
      BY Zenon, <1>4 DEF Sees
    <2>2. ~Missed(a)
      BY Zenon, <1>1, <1>4, MissedPreview DEF PreviewsOK
    <2>3. CASE InviteTimeout(a) \/ SeeCancel(a) \/ CloseTask(a)
      BY <1>1, <2>1, <2>3 DEF InviteTimeout, SeeCancel, CloseTask, Goto, TypeOK
    <2>4. CASE ReadTask(a)
      <3>1. \/ Goto(a, "join") /\ UNCHANGED <<agent, offered, sess>>
            \/ Goto(a, "final") /\ offered' = [offered EXCEPT ![a] = agent[a]] /\ UNCHANGED <<agent, sess>>
        BY Zenon, <2>2, <2>4 DEF ReadTask
      <3> QED BY Zenon, <1>1, <1>2, <2>1, <3>1 DEF Goto, TypeOK
    <2>5. CASE JoinAgent(a) \/ TransferAgent(a)
      <3>1. JoinAgent(a) /\ sess[a].user = agent[a] /\ phase[a] = "join" /\ origin[a].initiator = None
        BY Zenon, <2>1, <2>2, <2>5 DEF JoinAgent, TransferAgent
      <3>2. sess[a].user # None
        BY Zenon, <1>1, <3>1 DEF LifeOK
      <3> QED BY Zenon, <1>1, <1>4, <3>1, <3>2 DEF PreviewsOK
    <2>6. CASE Leave(a) /\ phase[a] # "wait"
      BY Zenon, <1>1, <1>2, <2>1, <2>6 DEF Leave, Goto, TypeOK
    <2>7. CASE FinalizeAttempt(a)
      BY <1>1, <2>1, <2>7 DEF FinalizeAttempt, Goto, TypeOK
    <2>8. CASE CleanupSession(a)
      <3>1. offered[a] # None
        BY Zenon, <1>1, <2>1, <2>8 DEF CleanupSession, LifeOK
      <3> QED BY Zenon, <2>1, <2>8, <3>1 DEF CleanupSession
    <2>9. CASE ReleaseIMTransfer(a)
      BY Zenon, <1>1, <2>1, <2>9 DEF ReleaseIMTransfer, TypeOK
    <2> QED BY Zenon, <2>1, <2>3, <2>4, <2>5, <2>6, <2>7, <2>8, <2>9
            DEF Run, SkipInitiator, TakeAgent, CompleteIMTransfer,
                Transferred, SessionDone, CancelWait, CheckIdleTimeouts
  <1> QED BY Zenon, <1>3, <1>4

(* An agent that is taken as accepted, or has joined, sees no preview. *)
Accepted(a) ==
    origin[a].initiator = None /\ sess[a].user # None =>
        /\ phase[a] \notin {"none", "wait", "close"} /\ (phase[a] # "over" => task[a].bridged)
        /\ sess[a].user = agent[a] /\ \A p \in previews : p[2] # a

(* A step of the run goroutine gives a preview only in an offer. *)
LEMMA NewPreviews ==
    ASSUME TypeOK, NEW a \in Attempts, Run(a)
    PROVE  \/ previews' \subseteq previews
           \/ \E x \in Agents : TakeAgent(a, x) /\ Previewed(a, x)
  <1>1. ASSUME NEW x \in Agents, TakeAgent(a, x)
        PROVE  previews' \subseteq previews \/ Previewed(a, x)
    BY Zenon, <1>1 DEF TakeAgent, TakenAsAccepted, NotPreviewed
  <1> QED BY Zenon, <1>1
          DEF Run, SkipInitiator, InviteTimeout, SeeCancel, CloseTask, ReadTask, Missed, JoinAgent, TransferAgent,
              CompleteIMTransfer, Leave, FinalizeAttempt, CleanupSession, ReleaseIMTransfer, gateway,
              Transferred, SessionDone, CancelWait, CheckIdleTimeouts

LEMMA AcceptedOfRun ==
    ASSUME ImInv, NEW a \in Attempts, Run(a)
    PROVE  Accepted(a)'
  <1>1. /\ TypeOK /\ PreviewsOK /\ LifeOK(a) /\ TaskOK(a) /\ TaskKept(task[a]) /\ Accepted(a)
        /\ sess[a] \in SessionSet
    BY Zenon DEF ImInv, TaskOK, PreviewsOK, Accepted, TypeOK
  <1>2. UNCHANGED origin
    BY Zenon, <1>1, Elsewhere
  <1>3. CASE origin[a].initiator # None
    BY Zenon, <1>2, <1>3 DEF Accepted
  <1>4. CASE origin[a].initiator = None /\ sess[a].user = None
    <2>1. CASE sess'[a].user = None
      BY Zenon, <2>1 DEF Accepted
    <2>2. ASSUME NEW x \in Agents, TakeAgent(a, x), sess'[a].user # None PROVE Accepted(a)'
      <3>1. TakenAsAccepted(a, x)
        BY <1>1, <1>4, <2>2 DEF TakeAgent, Previewed, NotPreviewed, TypeOK, SessionSet
      <3>2. task'[a].bridged /\ phase'[a] = "offer" /\ sess'[a].user = x /\ agent'[a] = x
        <4>1. Answered(NoTask).bridged
          BY Zenon DEF Answered, NoTask
        <4> QED BY Zenon, <1>1, <3>1, <4>1 DEF TakenAsAccepted, Goto, TypeOK, SessionSet
      <3>3. \A p \in previews : p[2] # a
        BY Zenon, <1>1, <2>2 DEF PreviewsOK, Sees, TakeAgent
      <3> QED BY Zenon, <3>1, <3>2, <3>3 DEF Accepted, TakenAsAccepted
    <2>3. CASE Adds(a) /\ task' = task
      <3>1. task[a].bridged
        BY Zenon, <1>1, <2>3 DEF Adds, TaskOK
      <3>2. \A p \in previews' : p[2] # a
        <4>1. ASSUME NEW p \in previews, p[2] = a PROVE p = <<agent[a], a>>
          BY <1>1, <4>1 DEF PreviewsOK, Sees, TypeOK, Members
        <4> QED BY Zenon, <2>3, <4>1 DEF Adds
      <3> QED BY Zenon, <2>3, <3>1, <3>2 DEF Adds, Accepted
    <2>4. Missed(a) => sess'[a].user = None
      BY <1>1, <1>4 DEF Missed, TypeOK, SessionSet
    <2>5. CleanupSession(a) => sess'[a].user = None
      BY <1>1 DEF CleanupSession, TypeOK, NoSession
    <2>6. CASE ReadTask(a)
      BY Zenon, <1>4, <2>1, <2>4, <2>6 DEF ReadTask
    <2>7. CASE JoinAgent(a)
      <3>1. thread' \subseteq thread \/ Adds(a)
        BY Zenon, Additions
      <3>2. sess' = sess \/ Missed(a) \/ ~(thread' \subseteq thread)
        <4>1. agent[a] \notin Contacts => <<agent[a], a>> \notin thread
          BY DEF Contacts
        <4> QED BY Zenon, <2>7, <4>1 DEF JoinAgent
      <3> QED BY Zenon, <1>4, <2>1, <2>3, <2>4, <2>7, <3>1, <3>2 DEF JoinAgent
    <2> QED BY Zenon, <1>4, <2>1, <2>2, <2>5, <2>6, <2>7
            DEF Run, SkipInitiator, InviteTimeout, SeeCancel, CloseTask, TransferAgent,
                CompleteIMTransfer, Leave, FinalizeAttempt, ReleaseIMTransfer,
                Transferred, SessionDone, CancelWait, CheckIdleTimeouts
  <1>5. CASE origin[a].initiator = None /\ sess[a].user # None
    <2>1. /\ phase[a] \notin {"none", "wait", "close"} /\ (phase[a] # "over" => task[a].bridged)
          /\ sess[a].user = agent[a] /\ \A p \in previews : p[2] # a
      BY Zenon, <1>1, <1>5 DEF Accepted
    <2>2. previews' \subseteq previews
      BY Zenon, <1>1, <2>1, NewPreviews DEF TakeAgent
    <2>3. CASE /\ phase'[a] \notin {"none", "wait", "close"} /\ (phase'[a] # "over" => task'[a].bridged)
               /\ sess'[a] = sess[a] /\ agent'[a] = agent[a]
      BY Zenon, <2>1, <2>2, <2>3 DEF Accepted
    <2>4. CASE SeeCancel(a)
      BY Zenon, <1>1, <2>1, <2>3, <2>4 DEF SeeCancel, Goto, TypeOK
    <2>5. CASE ReadTask(a)
      <3>1. \/ Goto(a, "join") /\ UNCHANGED <<agent, sess>>
            \/ Goto(a, "final") /\ UNCHANGED <<agent, sess>>
        BY Zenon, <2>1, <2>5 DEF ReadTask
      <3>2. task'[a].bridged
        BY <1>1, <2>1, <2>5 DEF ReadTask, TypeOK, TaskSet
      <3> QED BY Zenon, <1>1, <2>3, <3>1, <3>2 DEF Goto, TypeOK
    <2>6. CASE JoinAgent(a)
      <3>1. Goto(a, "talk") /\ UNCHANGED <<agent, sess, task>> /\ phase[a] = "join"
        BY Zenon, <2>1, <2>6 DEF JoinAgent
      <3> QED BY Zenon, <1>1, <2>1, <2>3, <3>1 DEF Goto, TypeOK
    <2>7. CASE CompleteIMTransfer(a)
      BY Zenon, <1>1, <2>1, <2>3, <2>7 DEF CompleteIMTransfer, Goto, TypeOK
    <2>8. CASE Leave(a) /\ phase[a] \in {"wait", "offer", "talk"}
      BY Zenon, <1>1, <2>1, <2>3, <2>8 DEF Leave, Goto, TypeOK
    <2>9. CASE FinalizeAttempt(a)
      BY Zenon, <1>1, <2>1, <2>3, <2>9 DEF FinalizeAttempt, Goto, TypeOK
    <2>10. CASE CleanupSession(a)
      <3>1. sess'[a].user = None
        BY Zenon, <1>1, <2>10 DEF CleanupSession, TypeOK, NoSession
      <3> QED BY Zenon, <3>1 DEF Accepted
    <2>11. CASE ReleaseIMTransfer(a)
      BY Zenon, <2>1, <2>3, <2>11 DEF ReleaseIMTransfer
    <2> QED BY Zenon, <1>5, <2>1, <2>4, <2>5, <2>6, <2>7, <2>8, <2>9, <2>10, <2>11
            DEF Run, SkipInitiator, TakeAgent, InviteTimeout, CloseTask, TransferAgent,
                Transferred, SessionDone, CancelWait, CheckIdleTimeouts
  <1> QED BY Zenon, <1>3, <1>4, <1>5

(* The steps of the run goroutine. *)
LEMMA PreviewsOfRun ==
    ASSUME ImInv, NEW a \in Attempts, Run(a)
    PROVE  PreviewsOK'
  <1>1. TypeOK /\ PreviewsOK
    BY Zenon DEF ImInv
  <1>2. UNCHANGED <<origin, rpc>> /\ \A b \in Attempts \ {a} : Same(b)
    BY Zenon, <1>1, Elsewhere
  <1>3. ASSUME NEW p \in previews' PROVE Sees(p)' /\ (p \in previews \/ p[2] = a)
    <2>1. CASE p \in previews
      BY Zenon, <1>3, <2>1, PreviewsStay
    <2>2. CASE p \notin previews
      <3>1. PICK x \in Agents : TakeAgent(a, x) /\ Previewed(a, x)
        BY Zenon, <1>1, <1>3, <2>2, NewPreviews
      <3>2. p = <<x, a>> /\ p[1] = x /\ p[2] = a
        BY <1>3, <2>2, <3>1 DEF Previewed
      <3>3. phase'[a] = "offer" /\ agent'[a] = x /\ sess'[a].preview = x
        BY <1>1, <3>1 DEF Previewed, Goto, TypeOK, SessionSet
      <3> QED BY Zenon, <3>2, <3>3 DEF Sees
    <2> QED BY Zenon, <2>1, <2>2
  <1>4. ASSUME NEW b \in Attempts \ {a} PROVE Accepted(b)'
    <2>1. Accepted(b) /\ Same(b)
      BY Zenon, <1>1, <1>2 DEF PreviewsOK, Accepted
    <2> QED BY Zenon, <1>2, <1>3, <2>1 DEF Accepted, Same
  <1>5. Accepted(a)'
    BY Zenon, AcceptedOfRun
  <1> QED BY Zenon, <1>3, <1>4, <1>5 DEF PreviewsOK, Accepted

(* The other steps. *)
LEMMA PreviewsOfOthers ==
    ASSUME ImInv, (\E a \in Attempts : Task(a) \/ Transfer(a)) \/ Outside
    PROVE  PreviewsOK'
  <1>1. TypeOK /\ PreviewsOK /\ previews \subseteq Members
    BY Zenon DEF ImInv, TypeOK
  <1>2. CASE Outside
    <2>1. /\ UNCHANGED <<queue, previews>>
          /\ \A a \in Attempts : sess'[a].preview = sess[a].preview /\ sess'[a].user = sess[a].user
      BY Zenon, <1>1, <1>2, OutsideSteps
    <2>2. ASSUME NEW p \in previews PROVE Sees(p)'
      <3>1. p[2] \in Attempts
        BY Zenon, <1>1 DEF Members
      <3> QED BY Zenon, <1>1, <2>1, <3>1 DEF PreviewsOK, Sees, queue
    <2> QED BY Zenon, <1>1, <2>1, <2>2 DEF PreviewsOK, queue
  <1>3. ASSUME NEW a \in Attempts, Task(a) PROVE PreviewsOK'
    <2>1. UNCHANGED <<phase, origin, agent, offered, tidy, sess, previews>>
      BY Zenon, <1>3 DEF Task, AcceptAgentTask, CloseAgentTask, ReportTask, gateway
    <2>2. \A b \in Attempts : task[b].bridged => task'[b].bridged
      <3>1. task[a] \in TaskSet
        BY Zenon, <1>1 DEF TypeOK
      <3>2. /\ Answered(task[a]).bridged = TRUE /\ Closed(task[a]).bridged = task[a].bridged
            /\ [task[a] EXCEPT !.reporting = TRUE].bridged = task[a].bridged
            /\ [Closed(task[a]) EXCEPT !.reporting = TRUE].bridged = task[a].bridged
        BY Zenon, <3>1 DEF Answered, Closed, TaskSet
      <3>3. PICK t : task' = [task EXCEPT ![a] = t] /\ (task[a].bridged => t.bridged)
        BY Zenon, <1>3, <3>2 DEF Task, AcceptAgentTask, CloseAgentTask, ReportTask
      <3> QED BY Zenon, <1>1, <3>3 DEF TypeOK
    <2> QED BY Zenon, <1>1, <2>1, <2>2 DEF PreviewsOK, Sees
  <1>4. ASSUME NEW a \in Attempts, Transfer(a) PROVE PreviewsOK'
    <2>1. CASE UNCHANGED <<phase, origin, agent, offered, task, tidy, sess, previews>>
      BY Zenon, <1>1, <2>1 DEF PreviewsOK, Sees
    <2>2. ASSUME NEW b \in Attempts, Starts(a, b) PROVE PreviewsOK'
      <3>1. Bridged(a) /\ LifeOK(b)
        BY Zenon, <2>2 DEF ImInv, SourceOK, Starts
      <3>2. /\ phase[b] = "none" /\ phase'[b] = "wait" /\ UNCHANGED <<agent, offered, tidy, task, previews>>
            /\ origin'[b].initiator # None
            /\ \A c \in Attempts \ {b} : phase'[c] = phase[c] /\ origin'[c] = origin[c] /\ sess'[c] = sess[c]
        BY Zenon, <1>1, <2>2, <3>1 DEF Starts, Fresh, Opened, TypeOK, Bridged, gateway
      <3>3. ASSUME NEW p \in previews PROVE Sees(p)'
        <4>1. p[2] \in Attempts /\ p[2] # b
          BY Zenon, <1>1, <3>2 DEF Members, PreviewsOK, Sees
        <4> QED BY <1>1, <3>2, <4>1 DEF PreviewsOK, Sees
      <3> QED BY <1>1, <3>2, <3>3 DEF PreviewsOK
    <2> QED BY Zenon, <1>1, <1>4, <2>1, <2>2, TransferSteps DEF gateway
  <1> QED BY Zenon, <1>2, <1>3, <1>4

------------------------------------------------------------------------------
(* The results. *)

LEMMA InitInv == Init => ImInv
  <1> SUFFICES ASSUME Init PROVE ImInv
    BY Zenon
  <1>1. TypeOK
    BY Zenon, InitTyped
  <1>2. ASSUME NEW a \in Attempts
        PROVE  /\ phase[a] \in {"none", "wait"} /\ sess[a].user = None /\ tidy[a] = {} /\ task[a] = NoTask
               /\ origin[a].source = None /\ origin[a].initiator = None
               /\ rpc[a] = "idle" /\ transfer[a].done = FALSE
    BY Zenon DEF Init, Fresh, Opened, NoSession
  <1>3. None \notin Attempts /\ "idle" \notin Attempts
    BY Zenon, ImAssumption
  <1>4. ASSUME NEW a \in Attempts PROVE LifeOK(a) /\ TaskOK(a) /\ SourceOK(a)
    BY Zenon, <1>2, <1>3, NewTask DEF LifeOK, TaskOK, SourceOK, Running
  <1>5. ThreadOK /\ PreviewsOK
    BY Zenon, <1>2 DEF Init, ThreadOK, PreviewsOK
  <1> QED BY Zenon, <1>1, <1>4, <1>5 DEF ImInv

LEMMA NextInv == ImInv /\ [Next]_vars => ImInv'
  <1> SUFFICES ASSUME ImInv, [Next]_vars PROVE ImInv'
    BY Zenon
  <1>1. ASSUME NEW a \in Attempts, Task(a) PROVE ImInv'
    BY Zenon, <1>1, TaskTyped, LifeOfTask, SourceOfTask, ThreadOfOthers, PreviewsOfOthers DEF ImInv
  <1>2. ASSUME NEW a \in Attempts, Run(a) PROVE ImInv'
    <2>1. TypeOK'
      BY Zenon, <1>2, WaitTyped, AnswerTyped, EndTyped
         DEF Run, Transferred, SessionDone, CancelWait, CheckIdleTimeouts
    <2> QED BY Zenon, <1>2, <2>1, LifeOfRun, SourceOfRun, ThreadOfRun, PreviewsOfRun DEF ImInv
  <1>3. ASSUME NEW a \in Attempts, Transfer(a) PROVE ImInv'
    BY Zenon, <1>3, TransferTyped, LifeOfTransfer, SourceOfTransfer, ThreadOfOthers, PreviewsOfOthers DEF ImInv
  <1>4. CASE Outside
    BY Zenon, <1>4, OutsideTyped, LifeOutside, ThreadOfOthers, PreviewsOfOthers DEF ImInv
  <1>5. CASE UNCHANGED vars
    <2>1. TypeOK'
      BY Zenon, <1>5 DEF ImInv, TypeOK, vars, queue, gateway
    <2>2. \A a \in Attempts : LifeOK(a)' /\ TaskOK(a)' /\ SourceOK(a)'
      BY <1>5 DEF ImInv, vars, queue, LifeOK, TaskOK, TaskKept, SourceOK, Bridged, Running
    <2>3. ThreadOK' /\ PreviewsOK'
      BY Zenon, <1>5 DEF ImInv, vars, queue, gateway, ThreadOK, Joins, PreviewsOK, Sees
    <2> QED BY Zenon, <2>1, <2>2, <2>3 DEF ImInv
  <1> QED BY Zenon, <1>1, <1>2, <1>3, <1>4, <1>5 DEF Next, Outside

(* Every behaviour keeps the types. *)
THEOREM TypeCorrect == Spec => []TypeOK
  <1>1. ImInv => TypeOK
    BY Zenon DEF ImInv
  <1> QED BY <1>1, InitInv, NextInv, PTL DEF Spec

(* TransferIM reserves the source, starts the target and only then tells   *)
(* the source which one it is, while the target may already be over: a     *)
(* source still has at most one transfer that runs.                        *)
THEOREM OneSuccessor == Spec => []OneTarget
  <1>1. ImInv => OneTarget
    BY DEF ImInv, SourceOK, Running, OneTarget
  <1> QED BY <1>1, InitInv, NextInv, PTL DEF Spec

(* An agent keeps the preview of a conversation only as long as the offer  *)
(* to that agent lasts: missed, answered, transferred or cleaned up, the   *)
(* preview is removed on every way out.                                    *)
THEOREM PreviewsAreRevoked == Spec => []PreviewsRevoked
  <1>1. ImInv => PreviewsRevoked
    BY Zenon DEF ImInv, PreviewsOK, Sees, PreviewsRevoked
  <1> QED BY <1>1, InitInv, NextInv, PTL DEF Spec

(* Whatever ended the attempt, a transfer, the client, a timer or a        *)
(* cancel, no agent is left in the thread for an attempt that is over and  *)
(* cleaned up.                                                             *)
THEOREM NoMemberLeft == Spec => []NoAgentLeft
  <1>1. ImInv => NoAgentLeft
    BY Zenon DEF ImInv, ThreadOK, Joins, NoAgentLeft
  <1> QED BY <1>1, InitInv, NextInv, PTL DEF Spec
==============================================================================
