--------------------------- MODULE AttemptReporting ----------------------------
(***************************************************************************)
(* How an attempt that was offered to an agent ends.  Four kinds of actor  *)
(* work on the same attempt, each sending its statements to the same row:  *)
(*                                                                         *)
(*   - the run goroutine of the queue, when the agent's leg hangs up       *)
(*     (team.Reporting, or back to waiting when nobody answered);          *)
(*   - Manager.ReportingAttempt calls of the agent's desktop, and the one  *)
(*     closeAttempts makes for every attempt at shutdown;                  *)
(*   - the watcher of queue/dialing.go: processing timeouts, and the move  *)
(*     of finished rows to the history table;                              *)
(*   - the watchers of other nodes, which move finished rows of any node.  *)
(*                                                                         *)
(* Whoever ends the attempt calls LeavingMember, which looks the attempt   *)
(* up in the cache, removes it and calls wg.Done.                          *)
(***************************************************************************)
EXTENDS Naturals

CONSTANTS
    Reporters,         \* calls of ReportingAttempt from outside the run goroutine
    Drafters,          \* those among them that may be sent as a draft
    Run, Watcher,      \* the run goroutine, the watcher of this node
    Processing,        \* Queue.Processing: the agent reports after the call
    Deadline,          \* Queue.ProcessingSec > 0
    MaxRenew,          \* bound: prolongation_repeats_number
    Prolongation,      \* prolongation is enabled and its timeout is not retried
    AfterSchema,       \* the queue has an after_schema_id
    Autosave,          \* Queue.ProcessingAutosave
    WrapTime,          \* the team's wrap_up_time > 0
    WaitChannelClose,  \* Manager.waitChannelClose
    Transfers,         \* may the agent transfer the call, in a queue that processes transfers?
    EarlyReports,      \* may a report arrive while the agent is still offered the call?
    StoreErrors        \* may a statement fail?

ASSUME ReportersAssumption ==
    Drafters \subseteq Reporters /\ Run # Watcher /\ {Run, Watcher} \cap Reporters = {}
ASSUME MaxRenewAssumption == MaxRenew \in Nat
ASSUME FeaturesAssumption ==
    {Processing, Deadline, Prolongation, AfterSchema, Autosave, WrapTime,
     WaitChannelClose, Transfers, EarlyReports, StoreErrors} \subseteq BOOLEAN

VARIABLES
    row,       \* the attempt's row in cc_member_attempt
    channel,   \* the agent's row in cc_agent_channel
    cached,    \* the attempt is in Manager.membersCache
    done,      \* calls of wg.Done for this attempt
    leg,       \* the agent's leg
    callback,  \* Attempt.callback # nil
    draft,     \* Attempt.draft # nil
    known,     \* the GetAttempt of a ReportingAttempt call found the attempt
    pc         \* where each actor is

memory == <<cached, done, callback, draft, known>>
vars   == <<row, channel, memory, leg, pc>>

-----------------------------------------------------------------------------
Callers   == Reporters \cup {Run}
Procs     == Callers \cup {Watcher}
Over      == {"leaving", "gone"}
RowStates == {"offering", "bridged", "wait_agent", "processing"} \cup Over
Results   == {"none", "reported", "draft", "timeout", "wrap", "abandoned"}
ChStates  == {"offering", "bridged", "processing", "missed", "wrap_time", "waiting", "leaving"}
Pcs       == {"idle", "callback", "commit", "close", "leave", "remove", "done",
              "talk", "wrap", "mark", "missed", "waiting",
              "timeouts", "route", "schema", "history"}

RowType     == [state : RowStates, result : Results, agent : BOOLEAN, schema : BOOLEAN,
                timeout : {"none", "armed", "expired"}, renewals : 0..MaxRenew]
ChannelType == [state : ChStates, timeout : BOOLEAN]
LegType     == [state : {"ringing", "up", "closing", "down"}, bridged : BOOLEAN,
                marked : BOOLEAN, reported : BOOLEAN, transferred : BOOLEAN]

\* The types of the variables: rows of the two tables, the attempt in memory,
\* the agent's leg and the program counters of the actors.
TypeOK ==
    /\ row \in RowType
    /\ channel \in ChannelType
    /\ leg \in LegType
    /\ cached \in BOOLEAN /\ done \in Nat
    /\ callback \in BOOLEAN /\ draft \in BOOLEAN
    /\ known \in [Callers -> BOOLEAN]
    /\ pc \in [Procs -> Pcs]

\* The agent is being offered the call.
Init ==
    /\ row = [state |-> "offering", result |-> "none", agent |-> TRUE, schema |-> FALSE,
              timeout |-> "none", renewals |-> 0]
    /\ channel = [state |-> "offering", timeout |-> FALSE]
    /\ cached = TRUE
    /\ done = 0
    /\ leg = [state |-> "ringing", bridged |-> FALSE, marked |-> FALSE,
              reported |-> FALSE, transferred |-> FALSE]
    /\ callback = FALSE
    /\ draft = FALSE
    /\ known = [p \in Callers |-> FALSE]
    /\ pc = [p \in Procs |-> IF p = Run THEN "talk"
                             ELSE IF p = Watcher THEN "timeouts" ELSE "idle"]

Goto(p, l) == pc' = [pc EXCEPT ![p] = l]

\* The agent's channel when the attempt is over: wrap time or ready at once.
\* An attempt without agent leaves every channel alone.
Released ==
    IF ~row.agent THEN channel
    ELSE IF WrapTime THEN [state |-> "wrap_time", timeout |-> TRUE]
    ELSE [state |-> "waiting", timeout |-> FALSE]

-----------------------------------------------------------------------------
\* The agent's leg, driven by the switch.

\* The agent answers and the legs are bridged: team.Bridged.  The statement
\* has no condition on the state of the row.
Bridged ==
    /\ leg.state = "ringing"
    /\ pc[Run] = "talk"
    /\ leg' = [leg EXCEPT !.state = "up", !.bridged = TRUE]
    /\ IF row.state = "gone" THEN UNCHANGED <<row, channel>>
       ELSE /\ row' = [row EXCEPT !.state = "bridged"]
            /\ channel' = IF row.agent THEN [channel EXCEPT !.state = "bridged"] ELSE channel
    /\ UNCHANGED <<memory, pc>>

\* The hangup event arrives.  It carries reporting_at only when the mark
\* reached the switch before the leg went down.
Hangup ==
    /\ leg.state # "down"
    /\ \E reported \in {FALSE, leg.marked}, transferred \in {FALSE, Transfers /\ leg.bridged} :
          leg' = [leg EXCEPT !.state = "down", !.reported = reported,
                             !.transferred = transferred]
    /\ UNCHANGED <<row, channel, memory, pc>>

-----------------------------------------------------------------------------
\* The run goroutine after the leg is down.

\* Mutant: team.Reporting forgets that the queue processes results.
MutRunEndAlwaysWraps ==
    /\ pc[Run] = "talk"
    /\ leg.state = "down"
    /\ Goto(Run, IF ~leg.bridged THEN "missed"
                 ELSE IF leg.reported /\ ~draft THEN "done"
                 ELSE "wrap")
    /\ UNCHANGED <<row, channel, memory, leg>>

\* team.Reporting, or a missed offer when the legs were never bridged.
RunEnd ==
    /\ pc[Run] = "talk"
    /\ leg.state = "down"
    /\ IF leg.bridged /\ WaitChannelClose /\ callback
       THEN /\ known' = [known EXCEPT ![Run] = cached]
            /\ draft' = (draft /\ ~cached)
            /\ Goto(Run, "callback")
       ELSE /\ UNCHANGED <<known, draft>>
            /\ Goto(Run, IF ~leg.bridged THEN "missed"
                         ELSE IF leg.reported /\ ~draft THEN "done"
                         ELSE IF ~Processing \/ leg.transferred THEN "wrap"
                         ELSE "mark")
    /\ UNCHANGED <<row, channel, cached, done, callback, leg>>

\* SetWrap: the result is stored whatever the row's state; an error is only
\* logged.
SetWrap ==
    /\ pc[Run] = "wrap"
    /\ \/ /\ row.state # "gone"
          /\ row' = [row EXCEPT !.state = "leaving", !.result = "wrap"]
          /\ channel' = Released
       \/ /\ row.state = "gone" \/ StoreErrors
          /\ UNCHANGED <<row, channel>>
    /\ Goto(Run, "leave")
    /\ UNCHANGED <<memory, leg>>

\* Mutant: the state is set to processing whatever it was.
MutSetReportingAnyState ==
    /\ pc[Run] = "mark"
    /\ row.state # "gone"
    /\ row' = [row EXCEPT !.state = "processing", !.timeout = IF Deadline THEN "armed" ELSE "none"]
    /\ channel' = [channel EXCEPT !.state = "processing"]
    /\ Goto(Run, "done")
    /\ UNCHANGED <<memory, leg>>

\* Mutant: the channel is always set to processing.
MutSetReportingBusyChannel ==
    /\ pc[Run] = "mark"
    /\ IF row.state = "gone" THEN UNCHANGED row
       ELSE row' = [row EXCEPT !.state = IF @ = "leaving" THEN @ ELSE "processing",
                               !.timeout = IF Deadline THEN "armed" ELSE "none"]
    /\ channel' = [channel EXCEPT !.state = "processing"]
    /\ Goto(Run, "done")
    /\ UNCHANGED <<memory, leg>>

\* SetAttemptReporting: the agent fills in the form.  A row that is leaving
\* stays so; the agent's channel gets the state of the row.
SetAttemptReporting ==
    /\ pc[Run] = "mark"
    /\ \/ /\ row.state # "gone"
          /\ row' = [row EXCEPT !.state = IF @ = "leaving" THEN @ ELSE "processing",
                                !.timeout = IF Deadline THEN "armed" ELSE "none"]
          /\ channel' = IF row.agent THEN [channel EXCEPT !.state = row'.state] ELSE channel
       \/ /\ row.state = "gone" \/ StoreErrors
          /\ UNCHANGED <<row, channel>>
    /\ Goto(Run, "done")
    /\ UNCHANGED <<memory, leg>>

\* MissedAgentAndWaitingAttempt: the attempt waits for another agent, again
\* with no condition on the state of the row.
MissedAgent ==
    /\ pc[Run] = "missed"
    /\ \/ /\ row.state # "gone"
          /\ row' = [row EXCEPT !.state = "wait_agent", !.agent = FALSE]
          /\ channel' = IF row.agent THEN [state |-> "missed", timeout |-> TRUE] ELSE channel
       \/ /\ row.state = "gone" \/ StoreErrors
          /\ UNCHANGED <<row, channel>>
    /\ Goto(Run, "waiting")
    /\ UNCHANGED <<memory, leg>>

\* The member hangs up while waiting: Abandoned, or the after-schema's result.
Abandoned ==
    /\ pc[Run] = "waiting"
    /\ \/ /\ row.state # "gone"
          /\ row' = [row EXCEPT !.state = "leaving", !.result = "abandoned"]
       \/ /\ row.state = "gone" \/ StoreErrors
          /\ UNCHANGED row
    /\ Goto(Run, "leave")
    /\ UNCHANGED <<channel, memory, leg>>

-----------------------------------------------------------------------------
\* ReportingAttempt.

Reportable == EarlyReports \/ leg.bridged

\* GetAttempt, DropDraftResult.
Report(p) ==
    /\ pc[p] = "idle"
    /\ Reportable
    /\ known' = [known EXCEPT ![p] = cached]
    /\ draft' = (draft /\ ~cached)
    /\ Goto(p, "callback")
    /\ UNCHANGED <<row, channel, cached, done, callback, leg>>

\* A draft is kept in memory; the leg gets cc_reporting_at.
ReportDraft(p) ==
    /\ pc[p] = "idle"
    /\ Reportable
    /\ cached
    /\ draft' = TRUE
    /\ leg' = IF leg.state = "up" THEN [leg EXCEPT !.marked = TRUE] ELSE leg
    /\ Goto(p, "done")
    /\ UNCHANGED <<row, channel, cached, done, callback, known>>

\* processAttemptCallback.
ProcessCallback(p) ==
    /\ pc[p] = "callback"
    /\ callback' = (callback \/ known[p])
    /\ leg' = IF known[p] /\ WaitChannelClose /\ p # Run /\ leg.state = "up"
              THEN [leg EXCEPT !.marked = TRUE] ELSE leg
    /\ Goto(p, "commit")
    /\ UNCHANGED <<row, channel, cached, done, draft, known>>

\* Mutant: cc_attempt_end_reporting lost its condition state != 'leaving'.
MutReportAnyState(p) ==
    /\ pc[p] = "commit"
    /\ row.state # "gone"
    /\ row' = [row EXCEPT !.state = "leaving", !.result = "reported"]
    /\ channel' = Released
    /\ Goto(p, IF p # Run THEN "close" ELSE IF known[p] THEN "leave" ELSE "done")
    /\ UNCHANGED <<memory, leg>>

\* Mutant: the row is accepted but not marked as leaving.
MutReportKeepsState(p) ==
    /\ pc[p] = "commit"
    /\ row.state \notin Over
    /\ row' = [row EXCEPT !.result = "reported"]
    /\ channel' = Released
    /\ Goto(p, IF p # Run THEN "close" ELSE IF known[p] THEN "leave" ELSE "done")
    /\ UNCHANGED <<memory, leg>>

\* CallbackReporting: accepted unless the row is leaving or gone ("too many
\* reporting function calls").
CallbackReporting(p) ==
    /\ pc[p] = "commit"
    /\ \/ /\ row.state \notin Over
          /\ row' = [row EXCEPT !.state = "leaving", !.result = "reported"]
          /\ channel' = Released
          /\ Goto(p, IF p # Run THEN "close" ELSE IF known[p] THEN "leave" ELSE "done")
       \/ /\ row.state \in Over \/ StoreErrors
          /\ Goto(p, "done")
          /\ UNCHANGED <<row, channel>>
    /\ UNCHANGED <<memory, leg>>

\* closeBeforeReporting: hang the agent's leg up, marked as reported.
CloseBeforeReporting(p) ==
    /\ pc[p] = "close"
    /\ leg' = IF leg.state \in {"ringing", "up"}
              THEN [leg EXCEPT !.state = "closing", !.marked = TRUE] ELSE leg
    /\ Goto(p, IF known[p] THEN "leave" ELSE "done")
    /\ UNCHANGED <<row, channel, memory>>

\* Mutant: one renewal too many.
MutRenewal ==
    /\ row.state = "processing"
    /\ row.renewals <= MaxRenew
    /\ row' = [row EXCEPT !.renewals = @ + 1, !.timeout = "armed"]
    /\ UNCHANGED <<channel, memory, leg, pc>>

\* RenewalAttempt: at most MaxRenew times, and only while processing.
RenewalAttempt ==
    /\ row.state = "processing"
    /\ row.renewals < MaxRenew
    /\ row' = [row EXCEPT !.renewals = @ + 1, !.timeout = "armed"]
    /\ UNCHANGED <<channel, memory, leg, pc>>

-----------------------------------------------------------------------------
\* LeavingMember: look up, then save the draft, remove and count down.

Left(p) == IF p = Watcher THEN "history" ELSE "done"

LeavingMember(p) ==
    /\ pc[p] = "leave"
    /\ Goto(p, IF cached THEN "remove" ELSE Left(p))
    /\ UNCHANGED <<row, channel, memory, leg>>

LeavingRemove(p) ==
    /\ pc[p] = "remove"
    /\ \/ /\ Autosave /\ draft /\ row.state # "gone"
          /\ row' = [row EXCEPT !.result = "draft", !.schema = FALSE]
       \/ /\ ~(Autosave /\ draft) \/ row.state = "gone" \/ StoreErrors
          /\ UNCHANGED row
    /\ cached' = FALSE
    /\ done' = done + 1
    /\ Goto(p, Left(p))
    /\ UNCHANGED <<channel, callback, draft, known, leg>>

-----------------------------------------------------------------------------
\* The watchers.

\* The deadline of the row passes.
Expire ==
    /\ row.timeout = "armed"
    /\ row' = [row EXCEPT !.timeout = "expired"]
    /\ UNCHANGED <<channel, memory, leg, pc>>

\* GetChannelTimeout: wrap time and missed time run out.
ChannelTimeout ==
    /\ channel.timeout
    /\ channel' = [state |-> "waiting", timeout |-> FALSE]
    /\ UNCHANGED <<row, memory, leg, pc>>

TimedOut == row.state # "gone" /\ row.agent /\ row.timeout = "expired" /\ ~row.schema

\* GetTimeouts, with cc_attempt_timeout on the rows it returns.
GetTimeouts ==
    /\ pc[Watcher] = "timeouts"
    /\ \/ /\ TimedOut
          /\ row' = [row EXCEPT !.state = "leaving", !.result = "timeout", !.schema = AfterSchema]
          /\ channel' = [state |-> "waiting", timeout |-> FALSE]
          /\ Goto(Watcher, "route")
       \/ /\ ~TimedOut \/ StoreErrors
          /\ Goto(Watcher, "history")
          /\ UNCHANGED <<row, channel>>
    /\ UNCHANGED <<memory, leg>>

\* Mutant: the timed out attempt is not looked for in the cache.
MutRouteTimeout ==
    /\ pc[Watcher] = "route"
    /\ row' = IF row.state = "gone" THEN row ELSE [row EXCEPT !.schema = FALSE]
    /\ Goto(Watcher, "history")
    /\ UNCHANGED <<channel, memory, leg>>

\* routeIdleAgents for one timed out attempt.
RouteTimeout ==
    /\ pc[Watcher] = "route"
    /\ \/ /\ cached
          /\ Goto(Watcher, IF AfterSchema \/ Prolongation THEN "schema" ELSE "leave")
          /\ UNCHANGED row
       \/ /\ ~cached
          /\ row' = IF row.state = "gone" THEN row ELSE [row EXCEPT !.schema = FALSE]
          /\ Goto(Watcher, "history")
    /\ UNCHANGED <<channel, memory, leg>>

\* TimeoutLeavingMember: a schema that answers replaces the draft; without a
\* draft its result is stored, and an error (the row may be gone) ends the
\* handling of the attempt.
TimeoutLeavingMember ==
    /\ pc[Watcher] = "schema"
    /\ \E answered \in {FALSE, AfterSchema} :
          /\ draft' = (draft /\ ~answered)
          /\ \/ /\ draft'
                /\ Goto(Watcher, "leave")
                /\ UNCHANGED row
             \/ /\ ~draft'
                /\ row.state # "gone"
                /\ row' = [row EXCEPT !.schema = FALSE]
                /\ Goto(Watcher, "leave")
             \/ /\ ~draft'
                /\ row.state = "gone" \/ StoreErrors
                /\ Goto(Watcher, "history")
                /\ UNCHANGED row
    /\ UNCHANGED <<channel, cached, done, callback, known, leg>>

Finished == row.state = "leaving" /\ ~row.schema

\* SaveToHistory of this node, after the timeouts in the same tick.
SaveToHistory ==
    /\ pc[Watcher] = "history"
    /\ row' = IF Finished THEN [row EXCEPT !.state = "gone"] ELSE row
    /\ Goto(Watcher, "timeouts")
    /\ UNCHANGED <<channel, memory, leg>>

\* SaveToHistory has no condition on the node: any node may move the row.
SaveToHistoryElsewhere ==
    /\ Finished
    /\ row' = [row EXCEPT !.state = "gone"]
    /\ UNCHANGED <<channel, memory, leg, pc>>

-----------------------------------------------------------------------------
Reporting(p) == ProcessCallback(p) \/ CallbackReporting(p)
Leaving(p)   == LeavingMember(p) \/ LeavingRemove(p)

RunStep ==
    \/ RunEnd \/ SetWrap \/ SetAttemptReporting \/ MissedAgent \/ Abandoned
    \/ Reporting(Run) \/ Leaving(Run)

ReporterStep(p) == Reporting(p) \/ CloseBeforeReporting(p) \/ Leaving(p)

WatcherStep ==
    \/ GetTimeouts \/ RouteTimeout \/ TimeoutLeavingMember \/ SaveToHistory
    \/ Leaving(Watcher)

Next ==
    \/ Bridged \/ Hangup \/ RunStep
    \/ \E p \in Reporters : Report(p) \/ ReporterStep(p)
    \/ \E p \in Drafters : ReportDraft(p)
    \/ RenewalAttempt
    \/ Expire \/ ChannelTimeout \/ WatcherStep \/ SaveToHistoryElsewhere

Spec == Init /\ [][Next]_vars

\* Goroutines and calls that started go on, clocks run, and every leg hangs
\* up in the end.  Nothing obliges an agent to answer, report or renew.
FairSpec ==
    /\ Spec
    /\ WF_vars(Hangup) /\ WF_vars(RunStep) /\ WF_vars(WatcherStep)
    /\ WF_vars(Expire) /\ WF_vars(ChannelTimeout)
    /\ \A p \in Reporters : WF_vars(ReporterStep(p))

-----------------------------------------------------------------------------
\* An attempt leaves the manager once: LeavingMember counts the wait group
\* down at most once per attempt, although several actors call it and it
\* looks the attempt up before it removes it (queue_manager.go:1295-1322).
\* What decides the race is the condition state != 'leaving' of
\* cc_attempt_end_reporting.
LeavesOnce == done <= 1

\* A report that was accepted stands: nothing stores another result over it
\* (queue_manager.go:1651, cc_attempt_end_reporting).
ReportStands ==
    [][row.result = "reported" => row'.result = "reported"]_vars

\* A row that is leaving or was moved to the history is never live again,
\* although the late SetAttemptReporting of the run goroutine writes to it
\* (member_store.go:645-653).
OverIsFinal ==
    [][row.state \in Over => row'.state \in Over]_vars

\* An attempt that left the manager has no live row: no goroutine would end
\* it, and its agent would stay booked (queue_manager.go:1281-1322).
NoOrphan == ~cached => row.state \in Over

\* When everybody is through and the row is in the history, the agent's
\* channel does not say that the agent is busy with the attempt
\* (member_store.go:655-659, cc_attempt_end_reporting, cc_attempt_timeout).
AgentReleased ==
    /\ row.state = "gone"
    /\ \A p \in Callers : pc[p] \in {"idle", "done"}
    => channel.state \notin {"offering", "bridged", "processing"}

\* Every attempt for which no draft is saved leaves the manager and reaches
\* the history, whoever ends it: the processing deadline catches an agent who
\* never reports (dialing.go:118-162, team.go:241-322).
Ends == []~draft => <>[](~cached /\ row.state = "gone")
=============================================================================
