---------------------------- MODULE JoiningProofs ----------------------------
(***************************************************************************)
(* Joining, proved for any requests of any kinds and any rows to cancel:   *)
(* who works for a request that joins, and who is told of a cancellation.  *)
(***************************************************************************)
EXTENDS Joining, TLAPS

(* The types the argument about Joining needs. *)
Handler == {"idle", "cancel", "cancelling", "agent", "queue", "connect", "create", "start",
            "refused", "on", "stream", "done"}
JoinPlain ==
    /\ Kind \in [Requests -> Kinds \cup {"absent"}]
    /\ row \in [Attempts -> {"none", "live", "over"}]
    /\ result \subseteq Queued /\ cached \subseteq Attempts
    /\ h \in [Requests -> Handler]
    /\ q \in [Attempts -> {"none", "runs", "bridged", "emitted", "off"}]
    /\ toCancel \in [Requests -> SUBSET Queued] /\ seen \in [Requests -> Queued \cup {None}]
    /\ closes \in [Attempts -> Nat] /\ canceled \subseteq Attempts /\ failed \subseteq Attempts

(* Which steps a request makes depends on its kind. *)
StepsOfKind ==
    \A r \in Requests :
        /\ h[r] \in {"cancel", "cancelling"} => Kind[r] \in AgentKinds /\ r \in Forced
        /\ h[r] = "agent" => Kind[r] \in AgentKinds
        /\ h[r] = "queue" => Kind[r] = "queue_call"

(* Before its attempt is created a request has no more than its row. *)
NotCreated ==
    \A r \in Requests :
        /\ h[r] \in {"idle", "cancel", "cancelling", "agent", "queue", "connect", "create"} =>
               r \notin cached /\ q[r] = "none"
        /\ h[r] = "idle" => row[r] = "none"
        /\ h[r] = "refused" /\ r \notin failed => r \notin cached

(* A request has attempts to cancel only while it is cancelling. *)
CancelsInLoop == \A r \in Requests : toCancel[r] # {} \/ seen[r] # None => h[r] = "cancelling"

(* The channel is closed as often as canceled was set. *)
ClosesCount == \A a \in Attempts : closes[a] = IF a \in canceled THEN 1 ELSE 0

(* The inductive invariant behind the theorems about Joining. *)
JoinInv ==
    /\ JoinPlain /\ StepsOfKind /\ NotCreated /\ CancelsInLoop /\ ClosesCount
    /\ JoinsAreOwned /\ CancelledIsTold

(* Requests and the attempts of queues are different attempts. *)
LEMMA Apart ==
    Requests \subseteq Attempts /\ Queued \subseteq Attempts /\ Requests \cap Queued = {} /\ None \notin Queued
  BY Zenon, JoiningAssumption DEF Attempts, None

(* Initially no request has begun. *)
LEMMA JoinInitial == JoinInit => JoinInv
  <1> SUFFICES ASSUME JoinInit PROVE JoinInv
    BY Zenon
  <1>1. /\ Kind \in [Requests -> Kinds \cup {"absent"}] /\ cached = Queued /\ result = {}
        /\ row = [a \in Attempts |-> IF a \in Queued THEN "live" ELSE "none"]
        /\ h = [r \in Requests |-> "idle"]
        /\ q = [a \in Attempts |-> IF a \in Queued THEN "runs" ELSE "none"]
        /\ toCancel = [r \in Requests |-> {}] /\ seen = [r \in Requests |-> None]
        /\ closes = [a \in Attempts |-> 0] /\ canceled = {} /\ failed = {}
    BY Zenon, JoiningAssumption DEF JoinInit
  <1>2. JoinPlain
    BY Zenon, <1>1, Apart DEF JoinPlain, Handler
  <1>3. \A r \in Requests : /\ h[r] = "idle" /\ row[r] = "none" /\ q[r] = "none" /\ r \notin cached
                            /\ toCancel[r] = {} /\ seen[r] = None
    BY Zenon, <1>1, Apart
  <1>4. StepsOfKind /\ NotCreated /\ CancelsInLoop
    BY Zenon, <1>3 DEF StepsOfKind, NotCreated, CancelsInLoop
  <1>5. ClosesCount /\ CancelledIsTold
    BY Zenon, <1>1 DEF ClosesCount, CancelledIsTold
  <1>6. JoinsAreOwned
    BY Zenon, <1>3 DEF JoinsAreOwned
  <1> QED BY Zenon, <1>2, <1>4, <1>5, <1>6 DEF JoinInv

(* What the Distribute functions do next. *)
LEMMA NextStep ==
    ASSUME JoinPlain, NEW r \in Requests, Kind[r] # "absent"
    PROVE  /\ Function(r).row \in {"cancel", "agent", "queue", "create"}
           /\ Function(r).row = "cancel" => Kind[r] \in AgentKinds /\ r \in Forced
           /\ Function(r).row = "agent" => Kind[r] \in AgentKinds
           /\ Function(r).row = "queue" => Kind[r] = "queue_call"
           /\ Kind[r] \in AgentKinds => Function(r).cancel = "agent" /\ Function(r).agent \in {"connect", "create"}
           /\ Kind[r] = "queue_call" => Function(r).queue = "connect"
  <1>1. Kind[r] \in Kinds
    BY Zenon DEF JoinPlain
  <1>2. CASE Kind[r] \in {"queue_call", "queue_chat", "queue_im", "direct"}
    BY Zenon, <1>2 DEF AgentKinds, Function, DistributeCall, DistributeChatToQueue, DistributeIMToQueue, DistributeDirectMember
  <1>3. CASE Kind[r] \in AgentKinds
    BY Zenon, <1>3 DEF AgentKinds, Function, DistributeCallToAgent, DistributeTaskToAgent, OutboundCall, CancelFirst
  <1> QED BY Zenon, <1>1, <1>2, <1>3 DEF Kinds, AgentKinds

(* What a step needs to keep the parts of the invariant that speak of one request. *)
OneRequest(r) ==
    /\ h' \in [Requests -> Handler] /\ \A s \in Requests \ {r} : h'[s] = h[s]
    /\ row' \in [Attempts -> {"none", "live", "over"}] /\ \A a \in Attempts \ {r} : row'[a] = row[a]
    /\ q' \in [Attempts -> {"none", "runs", "bridged", "emitted", "off"}]
    /\ \A a \in Attempts \ {r} : q'[a] = q[a]
    /\ cached' \subseteq Attempts /\ \A a \in Attempts \ {r} : a \in cached' <=> a \in cached
    /\ failed' \subseteq Attempts /\ \A a \in Attempts \ {r} : a \in failed' <=> a \in failed

(* The conjuncts of the invariant for one request. *)
RequestOK(r) ==
    /\ h[r] \in {"cancel", "cancelling"} => Kind[r] \in AgentKinds /\ r \in Forced
    /\ h[r] = "agent" => Kind[r] \in AgentKinds
    /\ h[r] = "queue" => Kind[r] = "queue_call"
    /\ h[r] \in {"idle", "cancel", "cancelling", "agent", "queue", "connect", "create"} =>
           r \notin cached /\ q[r] = "none"
    /\ h[r] = "idle" => row[r] = "none"
    /\ h[r] = "refused" /\ r \notin failed => r \notin cached
    /\ (row[r] = "live" \/ r \in cached) /\ r \notin failed =>
           h[r] \notin {"idle", "done", "on", "stream"} \/ q[r] \in {"runs", "bridged"}

(* The invariant is a matter of every request and of what is cancelled. *)
LEMMA ByRequest ==
    JoinInv <=> /\ JoinPlain /\ CancelsInLoop /\ ClosesCount /\ CancelledIsTold
                /\ \A r \in Requests : RequestOK(r)
  BY Zenon DEF JoinInv, StepsOfKind, NotCreated, JoinsAreOwned, RequestOK

(* A step of one handler, or of the queue of its attempt, that cancels nothing. *)
LEMMA RequestStep ==
    ASSUME JoinInv, NEW r \in Requests, OneRequest(r), RequestOK(r)',
           UNCHANGED <<Kind, Forced, Ringing, cancelVars>>, h[r] = "cancelling" => h'[r] = "cancelling"
    PROVE  JoinInv'
  <1>1. UNCHANGED <<result, toCancel, seen, closes, canceled>>
    BY Zenon DEF cancelVars
  <1>2. JoinPlain'
    BY Zenon, <1>1 DEF JoinInv, JoinPlain, OneRequest
  <1>3. CancelsInLoop' /\ ClosesCount'
    BY Zenon, <1>1 DEF JoinInv, CancelsInLoop, ClosesCount, OneRequest
  <1>4. CancelledIsTold'
    <2> SUFFICES ASSUME NEW a \in result, a \notin canceled, a \in cached'
                 PROVE  \E s \in Requests : a \in toCancel[s] \cup {seen[s]}
      BY Zenon, <1>1 DEF CancelledIsTold
    <2>1. a \in Attempts \ {r}
      BY Zenon, Apart DEF JoinInv, JoinPlain
    <2>2. a \in cached
      BY Zenon, <2>1 DEF OneRequest
    <2> QED BY Zenon, <2>2 DEF JoinInv, CancelledIsTold
  <1>5. \A s \in Requests : RequestOK(s)'
    <2> SUFFICES ASSUME NEW s \in Requests \ {r} PROVE RequestOK(s)'
      BY Zenon
    <2>1. RequestOK(s)
      BY Zenon, ByRequest
    <2>2. s \in Attempts \ {r}
      BY Zenon, Apart
    <2>3. /\ h'[s] = h[s] /\ row'[s] = row[s] /\ q'[s] = q[s]
          /\ (s \in cached' <=> s \in cached) /\ (s \in failed' <=> s \in failed)
      BY Zenon, <2>2 DEF OneRequest
    <2> QED BY Zenon, <2>1, <2>3 DEF RequestOK
  <1>6. StepsOfKind' /\ NotCreated' /\ JoinsAreOwned'
    BY Zenon, <1>5 DEF RequestOK, StepsOfKind, NotCreated, JoinsAreOwned
  <1> QED BY Zenon, <1>2, <1>3, <1>4, <1>6 DEF JoinInv

(* The request inserts its row and begins. *)
LEMMA JoinInsert ==
    ASSUME JoinInv, NEW r \in Requests, Insert(r) \/ Rejoin(r), UNCHANGED <<Kind, Forced, Ringing>>
    PROVE  JoinInv'
  <1>0. h \in [Requests -> Handler] /\ row \in [Attempts -> {"none", "live", "over"}] /\ r \in Attempts
    BY Zenon, Apart DEF JoinInv, JoinPlain
  <1>1. h[r] = "idle" /\ UNCHANGED <<cached, q, failed, cancelVars>>
    BY Zenon DEF Insert, Rejoin
  <1>2. RequestOK(r)
    BY Zenon, ByRequest
  <1>3. CASE h' = [h EXCEPT ![r] = "done"] /\ row' = row
    <2>1. OneRequest(r) /\ h'[r] = "done"
      BY Zenon, <1>0, <1>1, <1>3 DEF OneRequest, Handler, JoinInv, JoinPlain
    <2>2. RequestOK(r)'
      BY Zenon, <1>1, <1>2, <1>3, <2>1 DEF RequestOK
    <2> QED BY Zenon, <1>1, <2>1, <2>2, RequestStep
  <1>4. CASE Insert(r) /\ h' = [h EXCEPT ![r] = Function(r).row] /\ row' = [row EXCEPT ![r] = "live"]
    <2>1. /\ Function(r).row \in {"cancel", "agent", "queue", "create"}
          /\ Function(r).row = "cancel" => Kind[r] \in AgentKinds /\ r \in Forced
          /\ Function(r).row = "agent" => Kind[r] \in AgentKinds
          /\ Function(r).row = "queue" => Kind[r] = "queue_call"
      BY Zenon, <1>4, NextStep DEF Insert, JoinInv
    <2>2. OneRequest(r) /\ h'[r] = Function(r).row
      BY Zenon, <1>0, <1>1, <1>4, <2>1 DEF OneRequest, Handler, JoinInv, JoinPlain
    <2>3. RequestOK(r)'
      BY Zenon, <1>1, <1>2, <2>1, <2>2 DEF RequestOK
    <2> QED BY Zenon, <1>1, <2>2, <2>3, RequestStep
  <1>5. CASE Insert(r)
    <2>1. PICK ok \in BOOLEAN : Statement(r, ok) /\ GoTo(r, IF ok THEN Function(r).row ELSE "done")
      BY Zenon, <1>5 DEF Insert
    <2>2. row' = [row EXCEPT ![r] = IF ok THEN "live" ELSE @]
      <3>1. Kind[r] \in Kinds
        BY Zenon, <1>5 DEF Insert, JoinInv, JoinPlain
      <3> QED BY Zenon, <2>1, <3>1 DEF Kinds, Statement, CallToQueueRow, ChatToQueueRow, IMToQueueRow, CallToAgentRow,
                 TaskToAgentRow, OutboundCallRow, DirectRow
    <2>3. CASE ok
      BY Zenon, <1>4, <1>5, <2>1, <2>2, <2>3 DEF GoTo
    <2>4. CASE ~ok
      BY Zenon, <1>0, <1>3, <2>1, <2>2, <2>4 DEF GoTo
    <2> QED BY Zenon, <2>3, <2>4
  <1>6. CASE Rejoin(r)
    BY Zenon, <1>3, <1>6 DEF Rejoin, GoTo
  <1> QED BY Zenon, <1>5, <1>6

(* Lookup, Connect and Create. *)
LEMMA JoinLookup ==
    ASSUME JoinInv, NEW r \in Requests, Lookup(r) \/ Connect(r) \/ Create(r), UNCHANGED <<Kind, Forced, Ringing>>
    PROVE  JoinInv'
  <1>0. /\ h \in [Requests -> Handler] /\ row \in [Attempts -> {"none", "live", "over"}] /\ r \in Attempts
        /\ failed \subseteq Attempts /\ cached \subseteq Attempts
        /\ q \in [Attempts -> {"none", "runs", "bridged", "emitted", "off"}]
    BY Zenon, Apart DEF JoinInv, JoinPlain
  <1>1. UNCHANGED <<q, cancelVars>> /\ h[r] \in {"agent", "queue", "connect", "create"}
    BY Zenon DEF Lookup, Connect, Create
  <1>2. RequestOK(r)
    BY Zenon, ByRequest
  <1>3. CASE Lookup(r)
    <2>1. UNCHANGED <<row, cached>>
      BY Zenon, <1>3 DEF Lookup
    <2>2. CASE failed' = failed \cup {r} /\ h' = [h EXCEPT ![r] = "done"]
      <3>1. OneRequest(r) /\ h'[r] = "done" /\ r \in failed'
        BY Zenon, <1>0, <1>1, <2>1, <2>2 DEF OneRequest, Handler
      <3>2. RequestOK(r)'
        BY Zenon, <3>1 DEF RequestOK
      <3> QED BY Zenon, <1>1, <3>1, <3>2, RequestStep
    <2>3. CASE failed' = failed /\ h' = [h EXCEPT ![r] = IF h[r] = "agent" THEN Function(r).agent ELSE Function(r).queue]
      <3>1. /\ h[r] = "agent" => Kind[r] \in AgentKinds
            /\ h[r] = "queue" => Kind[r] = "queue_call"
        BY Zenon, <1>2 DEF RequestOK
      <3>2. Kind[r] # "absent" /\ h[r] \in {"agent", "queue"}
        BY Zenon, <1>3, <3>1 DEF Lookup, AgentKinds
      <3>3. (IF h[r] = "agent" THEN Function(r).agent ELSE Function(r).queue) \in {"connect", "create"}
        BY Zenon, <3>1, <3>2, NextStep DEF JoinInv
      <3>4. OneRequest(r) /\ h'[r] \in {"connect", "create"}
        BY Zenon, <1>0, <1>1, <2>1, <2>3, <3>3 DEF OneRequest, Handler
      <3>5. RequestOK(r)'
        BY Zenon, <1>1, <1>2, <2>1, <2>3, <3>4 DEF RequestOK
      <3> QED BY Zenon, <1>1, <3>4, <3>5, RequestStep
    <2> QED BY Zenon, <1>3, <2>2, <2>3 DEF Lookup, GoTo
  <1>4. CASE Connect(r)
    <2>1. UNCHANGED cached /\ h[r] = "connect"
      BY Zenon, <1>4 DEF Connect
    <2>2. CASE h' = [h EXCEPT ![r] = "create"] /\ UNCHANGED <<row, failed>>
      <3>1. OneRequest(r) /\ h'[r] = "create"
        BY Zenon, <1>0, <1>1, <2>1, <2>2 DEF OneRequest, Handler
      <3>2. RequestOK(r)'
        BY Zenon, <1>1, <1>2, <2>1, <2>2, <3>1 DEF RequestOK
      <3> QED BY Zenon, <1>1, <3>1, <3>2, RequestStep
    <2>3. ASSUME h' = [h EXCEPT ![r] = "done"], NEW ok \in BOOLEAN, DistributeCallToQueueCancel(r, ok)
          PROVE  JoinInv'
      <3>1. OneRequest(r) /\ h'[r] = "done" /\ (row'[r] = "over" \/ r \in failed')
        BY Zenon, <1>0, <1>1, <2>1, <2>3 DEF OneRequest, Handler, DistributeCallToQueueCancel
      <3>2. RequestOK(r)'
        BY Zenon, <1>2, <2>1, <3>1 DEF RequestOK
      <3> QED BY Zenon, <1>1, <3>1, <3>2, RequestStep
    <2> QED BY Zenon, <1>4, <2>2, <2>3 DEF Connect, GoTo
  <1>5. CASE Create(r)
    <2>1. UNCHANGED <<row, failed>> /\ cached' = cached \cup {r} /\ h' = [h EXCEPT ![r] = "start"]
      BY Zenon, <1>5 DEF Create, GoTo
    <2>2. OneRequest(r) /\ h'[r] = "start"
      BY Zenon, <1>0, <1>1, <2>1 DEF OneRequest, Handler
    <2>3. RequestOK(r)'
      BY Zenon, <2>2 DEF RequestOK
    <2> QED BY Zenon, <1>1, <1>5, <2>2, <2>3, RequestStep
  <1> QED BY Zenon, <1>3, <1>4, <1>5

(* DistributeAttempt and what the callers do after an error. *)
LEMMA JoinDistribute ==
    ASSUME JoinInv, NEW r \in Requests, UNCHANGED <<Kind, Forced, Ringing>>,
           DistributeNoQueue(r) \/ DistributeBarred(r) \/ DistributeAttempt(r) \/ CancelRefused(r)
    PROVE  JoinInv'
  <1>0. /\ h \in [Requests -> Handler] /\ row \in [Attempts -> {"none", "live", "over"}] /\ r \in Attempts
        /\ failed \subseteq Attempts /\ cached \subseteq Attempts
        /\ q \in [Attempts -> {"none", "runs", "bridged", "emitted", "off"}]
    BY Zenon, Apart DEF JoinInv, JoinPlain
  <1>1. UNCHANGED cancelVars /\ h[r] \in {"start", "refused"}
    BY Zenon DEF DistributeNoQueue, DistributeBarred, DistributeAttempt, CancelRefused
  <1>2. RequestOK(r)
    BY Zenon, ByRequest
  <1>3. Started(r) \in {"on", "done"} /\ Refused(r) \in {"refused", "done"}
    BY Zenon DEF Started, Refused
  <1>4. CASE DistributeNoQueue(r)
    <2>1. OneRequest(r) /\ h'[r] \in {"refused", "done"} /\ r \in failed'
      BY Zenon, <1>0, <1>3, <1>4 DEF DistributeNoQueue, GoTo, OneRequest, Handler
    <2>2. RequestOK(r)'
      BY Zenon, <2>1 DEF RequestOK
    <2> QED BY Zenon, <1>1, <2>1, <2>2, RequestStep
  <1>5. ASSUME NEW ok \in BOOLEAN, Abandoned(r, ok), NEW l \in {"on", "done", "refused"},
               h' = [h EXCEPT ![r] = l], UNCHANGED q
        PROVE  JoinInv'
    <2>1. OneRequest(r) /\ h'[r] = l /\ r \notin cached' /\ (row'[r] = "over" \/ r \in failed')
      BY Zenon, <1>0, <1>5 DEF Abandoned, OneRequest, Handler
    <2>2. RequestOK(r)'
      BY Zenon, <2>1 DEF RequestOK
    <2> QED BY Zenon, <1>1, <2>1, <2>2, RequestStep
  <1>6. CASE DistributeBarred(r)
    BY Zenon, <1>3, <1>5, <1>6 DEF DistributeBarred, GoTo
  <1>7. CASE DistributeAttempt(r)
    <2>1. CASE q' = [q EXCEPT ![r] = "runs"] /\ GoTo(r, Started(r)) /\ UNCHANGED <<row, cached, failed>>
      <3>1. OneRequest(r) /\ h'[r] \in {"on", "done"} /\ q'[r] = "runs"
        BY Zenon, <1>0, <1>3, <2>1 DEF GoTo, OneRequest, Handler
      <3>2. RequestOK(r)'
        BY Zenon, <3>1 DEF RequestOK
      <3> QED BY Zenon, <1>1, <3>1, <3>2, RequestStep
    <2>2. CASE (\E ok \in BOOLEAN : Abandoned(r, ok)) /\ GoTo(r, Refused(r)) /\ UNCHANGED q
      BY Zenon, <1>3, <1>5, <2>2 DEF GoTo
    <2> QED BY Zenon, <1>7, <2>1, <2>2 DEF DistributeAttempt
  <1>8. CASE CancelRefused(r)
    <2>1. PICK ok \in BOOLEAN : DistributeCallToQueueCancel(r, ok)
      BY Zenon, <1>8 DEF CancelRefused
    <2>2. h[r] = "refused" /\ h' = [h EXCEPT ![r] = "done"] /\ UNCHANGED <<cached, q>>
      BY Zenon, <1>8 DEF CancelRefused, GoTo
    <2>3. /\ OneRequest(r) /\ h'[r] = "done" /\ (row'[r] = "over" \/ r \in failed') /\ failed \subseteq failed'
      BY Zenon, <1>0, <2>1, <2>2 DEF DistributeCallToQueueCancel, OneRequest, Handler
    <2>4. RequestOK(r)'
      BY Zenon, <1>2, <2>2, <2>3 DEF RequestOK
    <2> QED BY Zenon, <1>1, <2>3, <2>4, RequestStep
  <1> QED BY Zenon, <1>4, <1>6, <1>7, <1>8

(* The steps of a stream. *)
LEMMA JoinStream ==
    ASSUME JoinInv, NEW r \in Requests, UNCHANGED <<Kind, Forced, Ringing>>,
           Subscribe(r) \/ ReceiveOther(r) \/ ReceiveLeaving(r) \/ ClientGoes(r)
    PROVE  JoinInv'
  <1>0. /\ h \in [Requests -> Handler] /\ row \in [Attempts -> {"none", "live", "over"}] /\ r \in Attempts
        /\ failed \subseteq Attempts /\ cached \subseteq Attempts
        /\ q \in [Attempts -> {"none", "runs", "bridged", "emitted", "off"}]
    BY Zenon, Apart DEF JoinInv, JoinPlain
  <1>1. /\ UNCHANGED <<row, cached, q, cancelVars, failed>>
        /\ UNCHANGED h \/ (h[r] \in {"on", "stream"} /\ \E l \in {"stream", "done"} : h' = [h EXCEPT ![r] = l])
    BY Zenon DEF Subscribe, ReceiveOther, ReceiveLeaving, ClientGoes, GoTo
  <1>2. OneRequest(r) /\ (h'[r] = h[r] \/ (h[r] \in {"on", "stream"} /\ h'[r] \in {"stream", "done"}))
    BY Zenon, <1>0, <1>1 DEF OneRequest, Handler
  <1>3. RequestOK(r)
    BY Zenon, ByRequest
  <1>4. RequestOK(r)'
    BY Zenon, <1>1, <1>2, <1>3 DEF RequestOK
  <1> QED BY Zenon, <1>1, <1>2, <1>4, RequestStep

(* The steps of a queue. *)
LEMMA JoinQueue ==
    ASSUME JoinInv, NEW a \in Attempts, UNCHANGED <<Kind, Forced, Ringing>>,
           QueueEvent(a) \/ QueueEnds(a) \/ QueueOff(a)
    PROVE  JoinInv'
  <1>0. /\ row \in [Attempts -> {"none", "live", "over"}] /\ failed \subseteq Attempts /\ cached \subseteq Attempts
        /\ q \in [Attempts -> {"none", "runs", "bridged", "emitted", "off"}]
    BY Zenon DEF JoinInv, JoinPlain
  <1>1. UNCHANGED <<h, result, toCancel, seen, closes, canceled>> /\ q[a] \in {"runs", "bridged", "emitted"}
    BY Zenon DEF QueueEvent, QueueEnds, QueueOff, cancelVars
  <1>2. /\ q' \in [Attempts -> {"none", "runs", "bridged", "emitted", "off"}]
        /\ \A b \in Attempts \ {a} : q'[b] = q[b] /\ row'[b] = row[b]
        /\ row' \in [Attempts -> {"none", "live", "over"}]
        /\ cached' \subseteq cached /\ cached \ {a} \subseteq cached'
        /\ failed' \subseteq Attempts /\ failed \subseteq failed' /\ failed' \subseteq failed \cup {a}
        /\ \/ /\ row' = row /\ cached' = cached /\ failed' = failed
              /\ q'[a] \in {"runs", "bridged"} \/ (q[a] = "emitted" /\ q'[a] = "off")
           \/ a \notin cached' /\ (row'[a] = "over" \/ a \in failed')
    <2>1. CASE QueueEvent(a)
      <3>1. PICK l \in {"runs", "bridged"} : q' = [q EXCEPT ![a] = l]
        BY Zenon, <1>0, <2>1 DEF QueueEvent
      <3> QED BY Zenon, <1>0, <2>1, <3>1 DEF QueueEvent
    <2>2. CASE QueueEnds(a)
      BY Zenon, <1>0, <2>2 DEF QueueEnds, Abandoned
    <2>3. CASE QueueOff(a)
      BY Zenon, <1>0, <2>3 DEF QueueOff
    <2> QED BY Zenon, <2>1, <2>2, <2>3
  <1>3. JoinPlain'
    BY Zenon, <1>0, <1>1, <1>2 DEF JoinInv, JoinPlain
  <1>4. CancelsInLoop' /\ ClosesCount'
    BY Zenon, <1>1 DEF JoinInv, CancelsInLoop, ClosesCount
  <1>5. CancelledIsTold'
    BY Zenon, <1>1, <1>2 DEF JoinInv, CancelledIsTold
  <1>6. \A r \in Requests : RequestOK(r)'
    <2> SUFFICES ASSUME NEW r \in Requests PROVE RequestOK(r)'
      BY Zenon
    <2>0. RequestOK(r) /\ r \in Attempts
      BY Zenon, ByRequest, Apart
    <2>1. CASE r = a
      BY Zenon, <1>1, <1>2, <2>0, <2>1 DEF RequestOK
    <2>2. CASE r # a
      <3>1. /\ h'[r] = h[r] /\ row'[r] = row[r] /\ q'[r] = q[r]
            /\ (r \in cached' <=> r \in cached) /\ (r \in failed' <=> r \in failed)
        BY Zenon, <1>1, <1>2, <2>0, <2>2
      <3> QED BY Zenon, <2>0, <3>1 DEF RequestOK
    <2> QED BY Zenon, <2>1, <2>2
  <1>7. StepsOfKind' /\ NotCreated' /\ JoinsAreOwned'
    BY Zenon, <1>6 DEF RequestOK, StepsOfKind, NotCreated, JoinsAreOwned
  <1> QED BY Zenon, <1>3, <1>4, <1>5, <1>7 DEF JoinInv

(* SetCancel closes the channel only once. *)
LEMMA SetCancelIs ==
    ASSUME JoinInv, NEW a \in Attempts, SetCancel(a)
    PROVE  /\ closes' \in [Attempts -> Nat] /\ canceled' = canceled \cup {a} /\ ClosesCount'
  <1>1. closes \in [Attempts -> Nat] /\ canceled \subseteq Attempts /\ ClosesCount
    BY Zenon DEF JoinInv, JoinPlain
  <1>2. CASE a \in canceled
    BY Zenon, <1>1, <1>2 DEF SetCancel, ClosesCount
  <1>3. CASE a \notin canceled
    <2>1. canceled' = canceled \cup {a} /\ closes' = [closes EXCEPT ![a] = @ + 1] /\ closes[a] = 0
      BY Zenon, <1>1, <1>3 DEF SetCancel, ClosesCount
    <2> QED BY <1>1, <2>1 DEF ClosesCount
  <1> QED BY Zenon, <1>2, <1>3

(* Requests that cancel an attempt: a client, or the stream of a chat. *)
LEMMA JoinCancelOne ==
    ASSUME JoinInv, NEW a \in Attempts, CancelAttempt(a) \/ (a \in Requests /\ ContextDone(a)),
           UNCHANGED <<Kind, Forced, Ringing>>
    PROVE  JoinInv'
  <1>1. /\ closes' \in [Attempts -> Nat] /\ canceled' = canceled \cup {a} /\ ClosesCount'
        /\ UNCHANGED <<row, cached, q, result, toCancel, seen, failed>>
    BY Zenon, SetCancelIs DEF CancelAttempt, ContextDone
  <1>2. UNCHANGED h \/ (a \in Requests /\ h[a] = "stream" /\ h' = [h EXCEPT ![a] = "done"])
    BY Zenon DEF CancelAttempt, ContextDone, GoTo
  <1>3. h' \in [Requests -> Handler] /\ \A r \in Requests : h'[r] = h[r] \/ (h[r] = "stream" /\ h'[r] = "done")
    BY Zenon, <1>2 DEF JoinInv, JoinPlain, Handler
  <1>4. JoinPlain'
    BY Zenon, <1>1, <1>3 DEF JoinInv, JoinPlain
  <1>5. CancelsInLoop' /\ CancelledIsTold'
    BY Zenon, <1>1, <1>3 DEF JoinInv, CancelsInLoop, CancelledIsTold
  <1>6. \A r \in Requests : RequestOK(r)'
    <2> SUFFICES ASSUME NEW r \in Requests PROVE RequestOK(r)'
      BY Zenon
    <2>1. RequestOK(r)
      BY Zenon, ByRequest
    <2> QED BY Zenon, <1>1, <1>3, <2>1 DEF RequestOK
  <1>7. StepsOfKind' /\ NotCreated' /\ JoinsAreOwned'
    BY Zenon, <1>6 DEF RequestOK, StepsOfKind, NotCreated, JoinsAreOwned
  <1> QED BY Zenon, <1>1, <1>4, <1>5, <1>7 DEF JoinInv

(* CancelAgentDistribute. *)
LEMMA JoinCancelAgent ==
    ASSUME JoinInv, NEW r \in Requests, CancelRows(r) \/ FindToCancel(r) \/ CancelSeen(r),
           UNCHANGED <<Kind, Forced, Ringing>>
    PROVE  JoinInv'
  <1>0. /\ h \in [Requests -> Handler] /\ toCancel \in [Requests -> SUBSET Queued]
        /\ seen \in [Requests -> Queued \cup {None}] /\ result \subseteq Queued
    BY Zenon DEF JoinInv, JoinPlain
  <1>1. UNCHANGED <<row, cached, q, failed>>
    BY Zenon DEF CancelRows, FindToCancel, CancelSeen
  <1>2. ASSUME h' \in [Requests -> Handler], \A s \in Requests \ {r} : h'[s] = h[s], RequestOK(r)',
               closes' \in [Attempts -> Nat], canceled' \subseteq Attempts, ClosesCount',
               toCancel' \in [Requests -> SUBSET Queued], seen' \in [Requests -> Queued \cup {None}],
               result' \subseteq Queued, CancelsInLoop', CancelledIsTold'
        PROVE  JoinInv'
    <2>1. JoinPlain'
      BY Zenon, <1>1, <1>2 DEF JoinInv, JoinPlain
    <2>2. \A s \in Requests : RequestOK(s)'
      <3> SUFFICES ASSUME NEW s \in Requests \ {r} PROVE RequestOK(s)'
        BY Zenon, <1>2
      <3>1. RequestOK(s)
        BY Zenon, ByRequest
      <3> QED BY Zenon, <1>1, <1>2, <3>1 DEF RequestOK
    <2>3. StepsOfKind' /\ NotCreated' /\ JoinsAreOwned'
      BY Zenon, <2>2 DEF RequestOK, StepsOfKind, NotCreated, JoinsAreOwned
    <2> QED BY Zenon, <1>2, <2>1, <2>3 DEF JoinInv
  <1>3. RequestOK(r)
    BY Zenon, ByRequest
  <1>4. CASE CancelRows(r)
    <2>1. PICK T \in SUBSET Queued : toCancel' = [toCancel EXCEPT ![r] = T] /\ result' = result \cup T
      <3>1. PICK ok \in BOOLEAN : /\ toCancel' = [toCancel EXCEPT ![r] = IF ok THEN CancelAgentRows ELSE {}]
                                  /\ result' = result \cup (IF ok THEN CancelAgentRows ELSE {})
        BY Zenon, <1>4 DEF CancelRows
      <3>2. (IF ok THEN CancelAgentRows ELSE {}) \in SUBSET Queued
        BY Zenon DEF CancelAgentRows
      <3> QED BY Zenon, <3>1, <3>2
    <2>2. /\ h[r] = "cancel" /\ h' = [h EXCEPT ![r] = "cancelling"] /\ UNCHANGED <<seen, closes, canceled>>
      BY Zenon, <1>4 DEF CancelRows, GoTo
    <2>3. toCancel[r] = {} /\ seen[r] = None
      BY Zenon, <2>2 DEF JoinInv, CancelsInLoop
    <2>4. /\ h' \in [Requests -> Handler] /\ h'[r] = "cancelling" /\ \A s \in Requests \ {r} : h'[s] = h[s]
      BY Zenon, <1>0, <2>2 DEF Handler
    <2>5. /\ toCancel' \in [Requests -> SUBSET Queued] /\ toCancel'[r] = T
          /\ \A s \in Requests \ {r} : toCancel'[s] = toCancel[s]
      BY Zenon, <1>0, <2>1
    <2>6. RequestOK(r)'
      BY Zenon, <1>1, <1>3, <2>2, <2>4 DEF RequestOK
    <2>7. CancelsInLoop' /\ ClosesCount'
      BY Zenon, <2>2, <2>4, <2>5 DEF JoinInv, CancelsInLoop, ClosesCount
    <2>8. CancelledIsTold'
      <3> SUFFICES ASSUME NEW a \in result', a \notin canceled, a \in cached
                   PROVE  \E s \in Requests : a \in toCancel'[s] \cup {seen[s]}
        BY Zenon, <1>1, <2>2 DEF CancelledIsTold
      <3>1. CASE a \in T
        BY Zenon, <2>5, <3>1
      <3>2. CASE a \in result
        <4>1. PICK s \in Requests : a \in toCancel[s] \cup {seen[s]}
          BY Zenon, <3>2 DEF JoinInv, CancelledIsTold
        <4>2. a # None
          BY Zenon, <3>2, Apart DEF JoinInv, JoinPlain
        <4>3. s # r
          BY Zenon, <2>3, <4>1, <4>2
        <4> QED BY Zenon, <2>5, <4>1, <4>3
      <3> QED BY Zenon, <2>1, <3>1, <3>2
    <2>9. closes' \in [Attempts -> Nat] /\ canceled' \subseteq Attempts /\ seen' \in [Requests -> Queued \cup {None}]
          /\ result' \subseteq Queued
      BY Zenon, <1>0, <2>1, <2>2 DEF JoinInv, JoinPlain
    <2> QED BY Zenon, <1>2, <2>4, <2>5, <2>6, <2>7, <2>8, <2>9
  <1>5. CASE FindToCancel(r)
    <2>1. h[r] = "cancelling" /\ seen[r] = None /\ UNCHANGED <<result, closes, canceled>>
      BY Zenon, <1>5 DEF FindToCancel
    <2>2. /\ closes' \in [Attempts -> Nat] /\ canceled' \subseteq Attempts /\ result' \subseteq Queued /\ ClosesCount'
      BY Zenon, <2>1 DEF JoinInv, JoinPlain, ClosesCount
    <2>3. CASE toCancel[r] = {} /\ h' = [h EXCEPT ![r] = Function(r).cancel] /\ UNCHANGED <<seen, toCancel>>
      <3>1. Kind[r] \in AgentKinds /\ Kind[r] # "absent"
        BY Zenon, <1>3, <2>1 DEF RequestOK, AgentKinds
      <3>2. Function(r).cancel = "agent"
        BY Zenon, <3>1, NextStep DEF JoinInv
      <3>3. h' \in [Requests -> Handler] /\ h'[r] = "agent" /\ \A s \in Requests \ {r} : h'[s] = h[s]
        BY Zenon, <1>0, <2>3, <3>2 DEF Handler
      <3>4. RequestOK(r)'
        BY Zenon, <1>1, <1>3, <2>1, <3>1, <3>3 DEF RequestOK
      <3>5. CancelsInLoop' /\ CancelledIsTold'
        BY Zenon, <1>1, <2>1, <2>3, <3>3 DEF JoinInv, CancelsInLoop, CancelledIsTold
      <3> QED BY Zenon, <1>0, <1>2, <2>2, <2>3, <3>3, <3>4, <3>5
    <2>4. ASSUME NEW a \in toCancel[r], toCancel' = [toCancel EXCEPT ![r] = @ \ {a}],
                 seen' = [seen EXCEPT ![r] = IF a \in cached /\ a \notin canceled THEN a ELSE None],
                 UNCHANGED h
          PROVE  JoinInv'
      <3>1. /\ toCancel' \in [Requests -> SUBSET Queued] /\ toCancel'[r] = toCancel[r] \ {a}
            /\ \A s \in Requests \ {r} : toCancel'[s] = toCancel[s] /\ seen'[s] = seen[s]
            /\ seen' \in [Requests -> Queued \cup {None}]
            /\ seen'[r] = IF a \in cached /\ a \notin canceled THEN a ELSE None
        BY Zenon, <1>0, <2>4
      <3>2. RequestOK(r)'
        BY Zenon, <1>1, <1>3, <2>4 DEF RequestOK
      <3>3. CancelsInLoop'
        BY Zenon, <2>1, <2>4, <3>1 DEF JoinInv, CancelsInLoop
      <3>4. CancelledIsTold'
        <4> SUFFICES ASSUME NEW b \in result, b \notin canceled, b \in cached
                     PROVE  \E s \in Requests : b \in toCancel'[s] \cup {seen'[s]}
          BY Zenon, <1>1, <2>1 DEF CancelledIsTold
        <4>1. PICK s \in Requests : b \in toCancel[s] \cup {seen[s]}
          BY Zenon DEF JoinInv, CancelledIsTold
        <4>2. b # None
          BY Zenon, Apart DEF JoinInv, JoinPlain
        <4> QED BY Zenon, <2>1, <3>1, <4>1, <4>2
      <3> QED BY Zenon, <1>0, <1>2, <2>2, <2>4, <3>1, <3>2, <3>3, <3>4
    <2> QED BY Zenon, <1>5, <2>3, <2>4 DEF FindToCancel, GoTo
  <1>6. CASE CancelSeen(r)
    <2> DEFINE b == seen[r]
    <2>1. b # None /\ SetCancel(b) /\ seen' = [seen EXCEPT ![r] = None] /\ UNCHANGED <<h, result, toCancel>>
      BY Zenon, <1>6 DEF CancelSeen
    <2>2. b \in Attempts
      BY Zenon, <1>0, <2>1, Apart
    <2> HIDE DEF b
    <2>3. closes' \in [Attempts -> Nat] /\ canceled' = canceled \cup {b} /\ ClosesCount'
      BY Zenon, <2>1, <2>2, SetCancelIs
    <2>4. seen' \in [Requests -> Queued \cup {None}] /\ seen'[r] = None /\ \A s \in Requests \ {r} : seen'[s] = seen[s]
      BY Zenon, <1>0, <2>1
    <2>5. RequestOK(r)'
      BY Zenon, <1>1, <1>3, <2>1 DEF RequestOK
    <2>6. CancelsInLoop'
      BY Zenon, <2>1, <2>4 DEF JoinInv, CancelsInLoop
    <2>7. CancelledIsTold'
      BY Zenon, <1>1, <2>1, <2>3, <2>4 DEF JoinInv, CancelledIsTold, b
    <2>8. canceled' \subseteq Attempts
      BY Zenon, <2>2, <2>3 DEF JoinInv, JoinPlain
    <2> QED BY Zenon, <1>0, <1>2, <2>1, <2>3, <2>4, <2>5, <2>6, <2>7, <2>8
  <1> QED BY Zenon, <1>4, <1>5, <1>6

(* Every step of a request or of a queue keeps the invariant. *)
LEMMA JoinStep == JoinInv /\ [JoinNext]_joinVars => JoinInv'
  <1> SUFFICES ASSUME JoinInv, [JoinNext]_joinVars PROVE JoinInv'
    BY Zenon
  <1>1. CASE UNCHANGED joinVars
    <2>1. UNCHANGED <<Kind, Forced, row, result, cached, h, q, toCancel, seen, closes, canceled, failed>>
      BY Zenon, <1>1 DEF joinVars
    <2>2. JoinPlain' /\ StepsOfKind' /\ NotCreated'
      BY Zenon, <2>1 DEF JoinInv, JoinPlain, StepsOfKind, NotCreated
    <2>3. CancelsInLoop' /\ ClosesCount' /\ JoinsAreOwned' /\ CancelledIsTold'
      BY Zenon, <2>1 DEF JoinInv, CancelsInLoop, ClosesCount, JoinsAreOwned, CancelledIsTold
    <2> QED BY Zenon, <2>2, <2>3 DEF JoinInv
  <1>2. CASE JoinNext
    <2>0. UNCHANGED <<Kind, Forced, Ringing>>
      BY Zenon, <1>2 DEF JoinNext
    <2>1. ASSUME NEW r \in Requests, HandlerStep(r) \/ ReceiveLeaving(r) \/ ClientGoes(r) \/ ContextDone(r)
          PROVE  JoinInv'
      <3>1. CASE Insert(r) \/ Rejoin(r)
        BY Zenon, <2>0, <3>1, JoinInsert
      <3>2. CASE CancelRows(r) \/ FindToCancel(r) \/ CancelSeen(r)
        BY Zenon, <2>0, <3>2, JoinCancelAgent
      <3>3. CASE Lookup(r) \/ Connect(r) \/ Create(r)
        BY Zenon, <2>0, <3>3, JoinLookup
      <3>4. CASE DistributeNoQueue(r) \/ DistributeBarred(r) \/ DistributeAttempt(r) \/ CancelRefused(r)
        BY Zenon, <2>0, <3>4, JoinDistribute
      <3>5. CASE Subscribe(r) \/ ReceiveOther(r) \/ ReceiveLeaving(r) \/ ClientGoes(r)
        BY Zenon, <2>0, <3>5, JoinStream
      <3>6. CASE ContextDone(r)
        BY Zenon, <2>0, <3>6, JoinCancelOne, Apart
      <3> QED BY Zenon, <2>1, <3>1, <3>2, <3>3, <3>4, <3>5, <3>6 DEF HandlerStep
    <2>2. ASSUME NEW a \in Attempts, QueueEvent(a) \/ QueueEnds(a) \/ QueueOff(a) \/ CancelAttempt(a)
          PROVE  JoinInv'
      <3>1. CASE QueueEvent(a) \/ QueueEnds(a) \/ QueueOff(a)
        BY Zenon, <2>0, <3>1, JoinQueue
      <3>2. CASE CancelAttempt(a)
        BY Zenon, <2>0, <3>2, JoinCancelOne
      <3> QED BY Zenon, <2>2, <3>1, <3>2
    <2> QED BY Zenon, <1>2, <2>1, <2>2 DEF JoinNext
  <1> QED BY Zenon, <1>1, <1>2

(* The invariant holds of every behaviour of the requests. *)
LEMMA JoinInvariant == JoinSpec => []JoinInv
  BY JoinInitial, JoinStep, PTL DEF JoinSpec

(* The cancel channel of an attempt is closed at most once, whoever cancels it. *)
THEOREM CancelClosed == JoinSpec => []CancelClosedOnce
  <1>1. JoinInv => CancelClosedOnce
    BY DEF JoinInv, ClosesCount, CancelClosedOnce
  <1> QED BY <1>1, JoinInvariant, PTL

(* A row stamped with the result cancel belongs to an attempt that was told, or is about *)
(* to be, or has left, with any number of forced requests for the same agent.             *)
THEOREM CancelTold == JoinSpec => []CancelledIsTold
  <1>1. JoinInv => CancelledIsTold
    BY Zenon DEF JoinInv
  <1> QED BY <1>1, JoinInvariant, PTL

(* Live rows and cached attempts have a handler or a queue that works for them, unless a  *)
(* lookup or a statement has failed.                                                        *)
THEOREM JoinsOwned == JoinSpec => []JoinsAreOwned
  <1>1. JoinInv => JoinsAreOwned
    BY Zenon DEF JoinInv
  <1> QED BY <1>1, JoinInvariant, PTL

==============================================================================
