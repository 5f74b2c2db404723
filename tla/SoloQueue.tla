-------------------------------- MODULE SoloQueue --------------------------------
(***************************************************************************)
(* The run goroutine of the queues whose attempt has at most one channel   *)
(* of its own: preview (call_preview.go) and offline (call_offline.go)     *)
(* call the agent and let the switch dial the member; outbound             *)
(* (call_outbound.go) follows a call the agent has made; IVR (call_ivr.go) *)
(* calls the member without an agent; the task queues (task_inbound.go,    *)
(* task_agent.go) have a TaskChannel; the outbound task (task_outbound.go) *)
(* runs a schema.                                                          *)
(*                                                                         *)
(* A Go select with several cases ready takes any of them: these loops     *)
(* listen to the leg's states and to its hangup channel, so a hangup may   *)
(* be seen before the states posted earlier.  The methods of TaskChannel   *)
(* send with its lock held: the desktop's calls accept, close and report   *)
(* are threads that may wait with the lock.                                *)
(***************************************************************************)
EXTENDS QueueLeg, FiniteSets

CONSTANTS
    Kinds,        \* the queues of this instance
    AfterSchema,  \* answers of the after-schema
    Faults,       \* what may fail: commands to the switch, one statement
    MaxTransfers  \* bound: transfers of the leg

CallKinds == {"preview", "offline", "outbound", "always", "ivr"}
AllKinds  == CallKinds \cup {"task", "taskout"}

ASSUME KindsAssumption == Kinds \subseteq AllKinds
ASSUME SchemaAssumption == AfterSchema \subseteq SchemaReply
ASSUME FaultsAssumption == Faults \subseteq {"command", "statement"}
ASSUME BoundAssumption == MaxTransfers \in Nat

VARIABLES
    kind,      \* the queue; "always" is an outbound one that reports without answer
    pc,        \* where the goroutine is
    t,         \* the attempt: see Team
    leg,       \* the leg of the agent, or of the member of an IVR queue
    cur,       \* the goroutine's local variable agent
    task,      \* the TaskChannel
    desk,      \* where the desktop's calls on the task are
    timer,     \* the accept timer is armed
    late,      \* it ended the loop
    canceled,  \* Attempt.Cancel() is closed
    moves,     \* transfers so far
    failed     \* a statement has failed

vars == <<kind, pc, t, leg, cur, task, desk, timer, late, canceled, moves, failed>>

Calls == {"accept", "close", "report"}

TypeOK ==
    /\ kind \in Kinds
    /\ pc \in {"start", "dial", "invited", "loop", "finish", "done", "returned"}
    /\ t \in AttemptType
    /\ leg \in LegType /\ Len(leg.q) <= 5
    /\ cur \in AnyAgent
    /\ task \in [buf : Seq({"bridged", "closed"}), bridged : BOOLEAN, closed : BOOLEAN,
                 rep : BOOLEAN, lock : Calls \cup {""}]
    /\ Len(task.buf) <= 1
    /\ desk \in [Calls -> {"idle", "mark", "set", "send", "leave", "done"}]
    /\ {timer, late, canceled, failed} \subseteq BOOLEAN
    /\ moves \in 0..MaxTransfers

\* DistributeAttempt: all but the IVR queue and the outbound task have an agent; an
\* outbound attempt follows a call that the agent has made.
Init ==
    /\ kind \in Kinds
    /\ pc = "start"
    /\ cur \in IF kind \in {"ivr", "taskout"} THEN {NoAgent} ELSE Agents
    /\ t = NewAttempt(cur)
    /\ leg \in IF kind \in {"outbound", "always"}
               THEN {NewLeg(cur), ConnectedLeg(cur, FALSE), ConnectedLeg(cur, TRUE)} ELSE {NoLeg}
    /\ task = [buf |-> <<>>, bridged |-> FALSE, closed |-> FALSE, rep |-> FALSE, lock |-> ""]
    /\ desk = [c \in Calls |-> "idle"]
    /\ timer = FALSE
    /\ late = FALSE
    /\ canceled = FALSE
    /\ moves = 0
    /\ failed = FALSE

Commands   == IF "command" \in Faults THEN BOOLEAN ELSE {TRUE}
Statements == IF "statement" \in Faults /\ ~failed THEN BOOLEAN ELSE {TRUE}

Goto(l)     == pc' = l
Note(ok)    == failed' = (failed \/ ~ok)
NextIs(c)   == leg.q # <<>> /\ Head(leg.q) = c
Pop         == [leg EXCEPT !.q = Tail(@)]

-----------------------------------------------------------------------------
\* The switch.

loop == <<kind, pc, t, cur, task, desk, timer, late, canceled, failed>>

LegRinging ==
    /\ leg.up /\ ~leg.rung
    /\ leg' = Post([leg EXCEPT !.rung = TRUE], "ringing")
    /\ UNCHANGED <<loop, moves>>

\* The switch goes on to bridge the leg of an agent with the member.
LegActive ==
    /\ leg.up /\ ~leg.acc
    /\ leg' = Post([leg EXCEPT !.acc = TRUE, !.wired = kind # "ivr"], "accept")
    /\ UNCHANGED <<loop, moves>>

LegBridge ==
    /\ leg.up /\ leg.wired
    /\ leg' = Post([leg EXCEPT !.wired = FALSE, !.brg = TRUE], "bridge")
    /\ UNCHANGED <<loop, moves>>

LegHangup ==
    /\ leg.up
    /\ \E r \in {"", "agent"} :
          /\ r # "" => leg.brg /\ leg.asked = "" /\ t.cached /\ moves < MaxTransfers /\ kind # "ivr"
          /\ leg' = SetHangup(leg, "normal", r)
          /\ moves' = IF r = "" THEN moves ELSE moves + 1
    /\ UNCHANGED loop

Switch == pc # "done" /\ (LegRinging \/ LegActive \/ LegBridge \/ LegHangup)

-----------------------------------------------------------------------------
\* Other parties.

SetCancel ==
    /\ ~canceled /\ t.cached
    /\ canceled' = TRUE
    /\ UNCHANGED <<kind, pc, t, leg, cur, task, desk, timer, late, moves, failed>>

\* ReportingAttempt during or after the call.  A report before the bridge is
\* read is AttemptReporting's early one.
ReportingAttempt ==
    /\ kind \in CallKinds \ {"ivr"}
    /\ t.cached /\ leg.rung /\ leg.acc
    /\ \/ t.row = "bridged" /\ pc = "loop" /\ leg.up /\ ~leg.wired /\ leg.q = <<>>
       \/ t.row = "processing" /\ pc = "done"
    /\ t' = LeavingMember(Tell([SetAttemptResult(t, WrapUp) EXCEPT !.result = "success"],
                               t.rowAgent, "wrap_time"))
    /\ leg' = [Hangup(leg, "normal", TRUE) EXCEPT !.rep = leg.up]
    /\ UNCHANGED <<kind, pc, cur, task, desk, timer, late, canceled, moves, failed>>

\* Calls of the desktop on a task find it by the cached attempt.
TaskBegin(c) ==
    /\ kind = "task" /\ pc # "start" /\ t.cached
    /\ desk[c] = "idle"
    /\ c = "report" => t.row \in {"bridged", "processing"}
    /\ desk' = [desk EXCEPT ![c] = IF c = "report" THEN "mark" ELSE "set"]
    /\ t' = IF c = "report"
            THEN Tell([SetAttemptResult(t, WrapUp) EXCEPT !.result = "success"], t.rowAgent, "wrap_time")
            ELSE t
    /\ UNCHANGED <<kind, pc, leg, cur, task, timer, late, canceled, moves, failed>>

\* TaskChannel.Reporting: the mark, then SetClosed if the task is not closed.
TaskMark ==
    /\ desk["report"] = "mark" /\ task.lock = ""
    /\ IF t.cached
       THEN /\ task' = [task EXCEPT !.rep = TRUE]
            /\ desk' = [desk EXCEPT !["report"] = IF task.closed THEN "leave" ELSE "set"]
       ELSE /\ desk' = [desk EXCEPT !["report"] = "leave"]
            /\ UNCHANGED task
    /\ UNCHANGED <<kind, pc, t, leg, cur, timer, late, canceled, moves, failed>>

After(c) == IF c = "report" THEN "leave" ELSE "done"

\* SetAnswered and SetClosed: an error if already done; the send follows with the
\* lock held.
TaskSet(c) ==
    /\ desk[c] = "set" /\ task.lock = ""
    /\ IF IF c = "accept" THEN task.bridged ELSE task.closed
       THEN desk' = [desk EXCEPT ![c] = After(c)] /\ UNCHANGED task
       ELSE /\ desk' = [desk EXCEPT ![c] = "send"]
            /\ task' = IF c = "accept" THEN [task EXCEPT !.bridged = TRUE, !.lock = c]
                       ELSE [task EXCEPT !.closed = TRUE, !.lock = c]
    /\ UNCHANGED <<kind, pc, t, leg, cur, timer, late, canceled, moves, failed>>

\* Mutant: the states are not limited to one.
MutTaskSend(c) ==
    /\ desk[c] = "send"
    /\ task' = [task EXCEPT !.buf = Append(@, IF c = "accept" THEN "bridged" ELSE "closed"), !.lock = ""]
    /\ desk' = [desk EXCEPT ![c] = After(c)]
    /\ UNCHANGED <<kind, pc, t, leg, cur, timer, late, canceled, moves, failed>>

\* setState: the channel holds one state.
TaskSend(c) ==
    /\ desk[c] = "send" /\ task.buf = <<>>
    /\ task' = [task EXCEPT !.buf = <<IF c = "accept" THEN "bridged" ELSE "closed">>, !.lock = ""]
    /\ desk' = [desk EXCEPT ![c] = After(c)]
    /\ UNCHANGED <<kind, pc, t, leg, cur, timer, late, canceled, moves, failed>>

\* doLeavingReporting.
TaskLeave ==
    /\ desk["report"] = "leave"
    /\ t' = LeavingMember(t)
    /\ desk' = [desk EXCEPT !["report"] = "done"]
    /\ UNCHANGED <<kind, pc, leg, cur, task, timer, late, canceled, moves, failed>>

DesktopCalls == TaskMark \/ TaskLeave \/ \E c \in Calls : TaskSet(c) \/ TaskSend(c)

-----------------------------------------------------------------------------
\* From the start to the loop.

side == <<kind, task, desk, canceled, late>>

\* DoDistributeSchema.
DistributeSchema ==
    /\ kind \in {"preview", "offline", "ivr", "task", "taskout"} /\ pc = "start"
    /\ \/ Goto("dial") /\ UNCHANGED <<t, failed>>
       \/ \E ok \in Statements : t' = DistributeCancelled(t, ok) /\ Note(ok) /\ Goto("done")
    /\ UNCHANGED <<side, leg, cur, timer, moves>>

\* No connection to a switch, or, in the IVR queue, no slot at the resource.
DialError ==
    /\ kind \in {"preview", "offline", "ivr"} /\ pc = "dial"
    /\ "command" \in Faults \/ (kind = "ivr" /\ canceled)
    /\ \E ok \in Statements : t' = LeavingMember(SetAbandonedWithParams(t, ok)) /\ Note(ok)
    /\ Goto("done")
    /\ UNCHANGED <<side, leg, cur, timer, moves>>

Dial(k) ==
    /\ kind = k /\ pc = "dial"
    /\ t' = Distribute(t, cur)
    /\ leg' = NewLeg(cur)
    /\ Goto("loop")
    /\ UNCHANGED <<side, cur, timer, moves, failed>>

PreviewDial == Dial("preview")
OfflineDial == Dial("offline")

IvrDial ==
    /\ kind = "ivr" /\ pc = "dial"
    /\ t' = SetState(t, "joined")
    /\ leg' = NewLeg(NoAgent)
    /\ Goto("invited")
    /\ UNCHANGED <<side, cur, timer, moves, failed>>

\* call.Err() right after Invite: the originate command runs in a goroutine of its
\* own and may have failed by now; run returns and ends nothing.
IvrInvited ==
    /\ kind = "ivr" /\ pc = "invited"
    /\ Goto(IF leg.up THEN "loop" ELSE "returned")
    /\ UNCHANGED <<side, t, leg, cur, timer, moves, failed>>

OutboundStart ==
    /\ kind \in {"outbound", "always"} /\ pc = "start"
    /\ \E ok \in Statements :
          LET o == Offering(Distribute(t, cur), cur, ok)
          IN  /\ t' = IF leg.brg \/ kind = "always" THEN Bridged(o, cur, TRUE) ELSE o
              /\ Note(ok)
    /\ Goto("loop")
    /\ UNCHANGED <<side, leg, cur, timer, moves>>

TaskStart ==
    /\ kind = "task" /\ pc = "dial"
    /\ \E ok \in Statements : t' = Offering(Distribute(t, cur), cur, ok) /\ Note(ok)
    /\ timer' = TRUE
    /\ Goto("loop")
    /\ UNCHANGED <<side, leg, cur, moves>>

\* The schema of an outbound task runs to its end; without an answer of the
\* after-schema the last try is a success.
TaskOutbound ==
    /\ kind = "taskout" /\ pc = "dial"
    /\ \E ok \in Statements, sch \in AfterSchema, last \in BOOLEAN :
          LET b == SetState(SetAttemptBridged(SetState(t, "joined")), "bridged")
          IN  /\ t' = LeavingMember(IF sch = "success" \/ (sch = "none" /\ last)
                                    THEN SetAttemptSuccess(b, ok) ELSE SetAbandonedWithParams(b, ok))
              /\ Note(ok)
    /\ Goto("done")
    /\ UNCHANGED <<side, leg, cur, timer, moves>>

-----------------------------------------------------------------------------
\* The loops.

\* HANGUP with a transfer to an agent whose leg is found and up.  When the agent is
\* not found the leg is replaced all the same.
Transferred ==
    /\ leg.tr = "agent"
    /\ \E g \in Agents \ {leg.who}, b \in BOOLEAN :
          /\ leg' = ConnectedLeg(g, b)
          /\ \/ \E ok \in Statements : t' = TransferFrom(t, g, ok) /\ Note(ok) /\ cur' = g
             \/ FALSE \in Statements /\ Note(FALSE) /\ UNCHANGED <<t, cur>>
    /\ UNCHANGED pc

\* The states of the agent's leg in the preview and offline queues, each with its
\* handler.
AgentState ==
    /\ leg.q # <<>>
    /\ leg' = Pop
    /\ \E ok \in Statements :
          /\ t' = CASE NextIs("ringing") -> Offering(t, cur, ok)
                    [] NextIs("accept")  -> Answered(t, cur)
                    [] NextIs("bridge")  -> Bridged(t, cur, ok)
                    [] OTHER            -> t
          /\ Note(ok)
    /\ UNCHANGED <<pc, cur>>

\* Mutant: only a transfer is looked for when the leg is down.
MutAgentSelect(k) ==
    /\ kind = k /\ pc = "loop"
    /\ AgentState \/ (~leg.up /\ Transferred)
    /\ UNCHANGED <<side, timer, moves>>

AgentSelect(k) ==
    /\ kind = k /\ pc = "loop"
    /\ \/ AgentState
       \/ ~leg.up /\ Transferred
       \/ /\ ~leg.up
          /\ leg.tr = "" \/ "command" \in Faults
          /\ Goto("finish")
          /\ UNCHANGED <<t, leg, cur, failed>>
    /\ UNCHANGED <<side, timer, moves>>

PreviewSelect == AgentSelect("preview")
OfflineSelect == AgentSelect("offline")

\* The condition of this loop looks at the leg before the states are read.
OutboundSelect ==
    /\ kind \in {"outbound", "always"} /\ pc = "loop"
    /\ \/ /\ ~leg.up \/ canceled
          /\ Goto("finish")
          /\ UNCHANGED <<t, leg, cur, failed>>
       \/ /\ NextIs("accept") \/ NextIs("bridge")
          /\ leg' = Pop
          /\ \E ok \in Statements :
                /\ t' = IF t.st # "bridged" THEN Bridged(t, cur, ok) ELSE t
                /\ Note(ok)
          /\ UNCHANGED <<pc, cur>>
       \/ /\ NextIs("ringing")
          /\ leg' = Pop
          /\ UNCHANGED <<pc, t, cur, failed>>
       \/ NextIs("hangup") /\ Transferred
    /\ UNCHANGED <<side, timer, moves>>

\* The statement may fail, the state in memory is set before it.
IvrSelect ==
    /\ kind = "ivr" /\ pc = "loop"
    /\ \/ /\ ~leg.up
          /\ Goto("finish")
          /\ UNCHANGED <<t, leg, failed>>
       \/ /\ leg.q # <<>>
          /\ leg' = Pop
          /\ \E ok \in Statements :
                /\ t' = CASE NextIs("ringing") ->
                               SetState(IF ok THEN SetAttemptOffering(t, NoAgent) ELSE t, "offering")
                          [] NextIs("accept")  ->
                               SetState(IF ok THEN SetAttemptBridged(t) ELSE t, "bridged")
                          [] OTHER            -> t
                /\ Note(ok)
          /\ Goto(IF NextIs("hangup") THEN "finish" ELSE "loop")
    /\ UNCHANGED <<side, cur, timer, moves>>

TaskTimer ==
    /\ timer
    /\ timer' = FALSE
    /\ late' = TRUE
    /\ Goto("finish")
    /\ UNCHANGED <<t, task, failed>>

TaskState(l) ==
    /\ task.buf # <<>>
    /\ task' = [task EXCEPT !.buf = <<>>]
    /\ timer' = FALSE
    /\ \E ok \in Statements :
          /\ t' = IF task.buf = <<"bridged">> THEN Bridged(t, cur, ok) ELSE t
          /\ Note(ok)
    /\ Goto(IF task.buf = <<"closed">> THEN l ELSE "loop")
    /\ UNCHANGED late

\* Mutant: the cancel ends the loop.
MutTaskCancel ==
    /\ kind = "task" /\ pc = "loop"
    /\ \/ TaskState("finish")
       \/ TaskTimer
       \/ canceled /\ Goto("finish") /\ UNCHANGED <<t, task, timer, late, failed>>
    /\ UNCHANGED <<kind, leg, cur, desk, canceled, moves>>

\* Mutant: a closed task does not end the loop.
MutTaskLoop ==
    /\ kind = "task" /\ pc = "loop"
    /\ TaskState("loop") \/ TaskTimer
    /\ UNCHANGED <<kind, leg, cur, desk, canceled, moves>>

TaskSelect ==
    /\ kind = "task" /\ pc = "loop"
    /\ TaskState("finish") \/ TaskTimer
    /\ UNCHANGED <<kind, leg, cur, desk, canceled, moves>>

-----------------------------------------------------------------------------
\* The ends.

ended == <<side, leg, cur, timer, moves>>

Reported == leg.rep /\ ~leg.up

\* Mutant: an agent who did not answer is asked for a report.
MutPreviewFinish ==
    /\ kind = "preview" /\ pc = "finish"
    /\ \E ok \in Statements : t' = Reporting(t, cur, Reported, ok) /\ Note(ok)
    /\ Goto("done")
    /\ UNCHANGED ended

PreviewFinish ==
    /\ kind = "preview" /\ pc = "finish"
    /\ \E ok \in Statements :
          /\ t' = IF leg.acc /\ ~leg.brg /\ ~Processing THEN SetWrap(t, cur, ok)
                  ELSE IF leg.acc THEN Reporting(t, cur, Reported, ok)
                  ELSE LeavingMember(CancelAgent(t, cur, ok))
          /\ Note(ok)
    /\ Goto("done")
    /\ UNCHANGED ended

\* An agent who was missed: nobody calls LeavingMember.
OfflineFinish ==
    /\ kind = "offline" /\ pc = "finish"
    /\ \E ok \in Statements :
          /\ t' = IF leg.acc THEN Reporting(t, cur, Reported, ok) ELSE Missed(t, cur, ok)
          /\ Note(ok)
    /\ Goto("done")
    /\ UNCHANGED ended

OutboundFinish ==
    /\ kind \in {"outbound", "always"} /\ pc = "finish"
    /\ \E ok \in Statements, sch \in AfterSchema :
          /\ t' = IF leg.acc \/ kind = "always" THEN Reporting(t, cur, Reported, ok)
                  ELSE IF sch = "none" THEN SetWrap(t, cur, ok)
                  ELSE SchemaOrAbandoned(t, sch, ok)
          /\ Note(ok)
    /\ Goto("done")
    /\ UNCHANGED ended

\* A call that was long enough is a success; the answer of the after-schema goes
\* before.
IvrFinish ==
    /\ kind = "ivr" /\ pc = "finish"
    /\ \E ok \in Statements, sch \in AfterSchema, long \in BOOLEAN :
          LET good == t.st = "bridged" /\ leg.acc /\ long
              r    == [t EXCEPT !.result = IF good THEN "success" ELSE "abandoned"]
          IN  /\ t' = LeavingMember(IF sch = "success" \/ (sch = "none" /\ good)
                                    THEN SetAttemptSuccess(r, ok) ELSE SetAbandonedWithParams(r, ok))
              /\ Note(ok)
    /\ Goto("done")
    /\ UNCHANGED ended

\* IsDeclined and ReportingAt take the lock.
TaskFinish ==
    /\ kind = "task" /\ pc = "finish"
    /\ task.lock = ""
    /\ \E ok \in Statements :
          /\ t' = IF ~task.bridged /\ ~task.rep THEN LeavingMember(CancelAgent(t, cur, ok))
                  ELSE Reporting(t, cur, task.rep, ok)
          /\ Note(ok)
    /\ Goto("done")
    /\ UNCHANGED ended

Goroutine ==
    \/ DistributeSchema \/ DialError \/ PreviewDial \/ OfflineDial \/ IvrDial \/ IvrInvited
    \/ OutboundStart \/ TaskStart \/ TaskOutbound
    \/ PreviewSelect \/ OfflineSelect \/ OutboundSelect \/ IvrSelect \/ TaskSelect
    \/ PreviewFinish \/ OfflineFinish \/ OutboundFinish \/ IvrFinish \/ TaskFinish

Next ==
    \/ Goroutine \/ Switch
    \/ SetCancel \/ ReportingAttempt
    \/ \E c \in Calls : TaskBegin(c)
    \/ DesktopCalls

Spec == Init /\ [][Next]_vars

\* The goroutine and the calls under way are scheduled.  Nobody need answer.
FairSpec == Spec /\ WF_vars(Goroutine) /\ WF_vars(DesktopCalls)

-----------------------------------------------------------------------------
\* Properties.

\* A goroutine that ends leaves an attempt that has left the queue, one that waits
\* for its agent's report, or one whose report is on its way.  An offline attempt
\* whose agent did not answer stays in the cache.
EndsAccounted ==
    pc = "done" /\ ~failed =>
       \/ t.row = "leaving" /\ (t.cached => desk["report"] \notin {"idle", "done"})
       \/ t.row = "processing" /\ t.st = "processing" /\ t.cached
       \/ t.row = "leaving" /\ kind = "offline" /\ t.result = "cancel"

\* When the goroutine has ended no channel still says that an agent is being
\* offered this attempt or talks in it.  Except: an outbound call nobody answered
\* with an after-schema that says abandoned, whose statement leaves the channel.
AgentLetGo ==
    pc = "done" /\ ~failed /\ ~(kind = "outbound" /\ t.result = "abandoned") =>
       \A g \in Agents : t.chan[g] \notin {"offering", "bridged"}

\* The agent of the goroutine is the one of the attempt and of the row, through
\* transfers, also when a statement fails before the transfer.
OneAgent == ~failed => t.agent = cur /\ t.rowAgent = cur

\* A call of the desktop waits for ever with the task's lock only if the accept
\* timer ended the loop: nobody reads the second state then.
DesktopWaits ==
    pc \in {"finish", "done"} /\ task.buf # <<>> /\ task.lock # "" => late

\* A leg that is down ends the goroutine, or is replaced in a transfer.
LegGoneEnds == (leg.on /\ ~leg.up) ~> (pc \in {"done", "returned"} \/ leg.up)

\* A task that is closed by the desktop ends, and so does the call that closes it,
\* unless the accept timer was faster.
CloseEnds == (desk["close"] # "idle") ~> ((desk["close"] = "done" /\ pc = "done") \/ late)

Life == INSTANCE AttemptLife WITH
    phase  <- CASE t.row = "leaving"    -> "closed"
                [] t.row = "processing" -> "reporting"
                [] OTHER                -> "open",
    agent  <- t.rowAgent,
    served <- pc # "start" /\ t.rowAgent # NoAgent
              /\ (kind = "always" \/ t.talked \/ leg.acc \/ task.bridged),
    moved  <- moves > 0

\* These queues keep the promise of AttemptLife.
Implements == Life!Spec
=============================================================================
