------------------------ MODULE AttemptReportingProofs ------------------------
(* Proofs about the end of an attempt: for every number of reports, the      *)
(* types, and under the named features of the queue the finality of a row    *)
(* that is over, the absence of orphans and the single LeavingMember.        *)
EXTENDS AttemptReporting, TLAPS

\* Goto keeps the type of pc and moves one actor.
LEMMA GotoType ==
    ASSUME NEW p \in Procs, NEW l \in Pcs, pc \in [Procs -> Pcs], Goto(p, l)
    PROVE  pc' \in [Procs -> Pcs]
BY DEF Goto

\* The actors are distinct members of Procs.
LEMMA Actors == /\ Run \in Procs /\ Watcher \in Procs /\ Run # Watcher
                /\ Run \in Callers /\ Watcher \notin Callers
                /\ \A p \in Reporters : p \in Callers /\ p \in Procs /\ p # Run /\ p # Watcher
BY ReportersAssumption DEF Procs, Callers

\* A channel put together from its columns is a channel.
LEMMA ChannelRecord ==
    ASSUME NEW s \in ChStates, NEW b \in BOOLEAN
    PROVE  [state |-> s, timeout |-> b] \in ChannelType
BY DEF ChannelType

\* The channel left behind by an attempt that ends is a channel.
LEMMA ReleasedType == TypeOK => Released \in ChannelType
BY DEF TypeOK, Released, ChannelType, ChStates

\* Every step keeps the types.
LEMMA TypeStep == TypeOK /\ [Next]_vars => TypeOK'
<1> SUFFICES ASSUME TypeOK, [Next]_vars PROVE TypeOK'
  OBVIOUS
<1> USE DEF TypeOK, memory
<1>a. \A p \in Callers : p \in Procs
  BY DEF Procs
<1>1. CASE Bridged
  <2>1. row' \in RowType
    BY <1>1 DEF Bridged, RowType, RowStates, Over
  <2>2. channel' \in ChannelType
    BY <1>1 DEF Bridged, ChannelType, ChStates
  <2>3. leg' \in LegType
    BY Zenon, <1>1 DEF Bridged, LegType
  <2> QED
    BY <1>1, <2>1, <2>2, <2>3 DEF Bridged
<1>2. CASE Hangup
  <2>1. leg' \in LegType
    BY Zenon, <1>2, FeaturesAssumption DEF Hangup, LegType
  <2> QED
    BY <1>2, <2>1 DEF Hangup
<1>3. CASE RunEnd
  <2>1. pc' \in [Procs -> Pcs]
    BY <1>3, Actors DEF RunEnd, Goto, Pcs
  <2>2. known' \in [Callers -> BOOLEAN] /\ draft' \in BOOLEAN
    BY Zenon, <1>3, Actors DEF RunEnd
  <2> QED
    BY <1>3, <2>1, <2>2 DEF RunEnd
<1>4. CASE SetWrap
  <2>1. row' \in RowType
    BY Zenon, <1>4 DEF SetWrap, RowType, RowStates, Over, Results
  <2>2. channel' \in ChannelType
    BY <1>4, ReleasedType DEF SetWrap
  <2>3. pc' \in [Procs -> Pcs]
    BY <1>4, Actors DEF SetWrap, Goto, Pcs
  <2> QED
    BY <1>4, <2>1, <2>2, <2>3 DEF SetWrap
<1>5. CASE SetAttemptReporting
  <2>1. row' \in RowType
    BY Zenon, <1>5 DEF SetAttemptReporting, RowType, RowStates, Over
  <2>2. row'.state \in {"leaving", "processing"} \/ UNCHANGED channel
    BY Zenon, <1>5 DEF SetAttemptReporting, RowType
  <2>3. channel' \in ChannelType
    BY <1>5, <2>2 DEF SetAttemptReporting, ChannelType, ChStates
  <2>4. pc' \in [Procs -> Pcs]
    BY <1>5, Actors DEF SetAttemptReporting, Goto, Pcs
  <2> QED
    BY <1>5, <2>1, <2>3, <2>4 DEF SetAttemptReporting
<1>6. CASE MissedAgent
  <2>1. row' \in RowType
    BY Zenon, <1>6 DEF MissedAgent, RowType, RowStates, Over
  <2>2. channel' \in ChannelType
    <3>1. [state |-> "missed", timeout |-> TRUE] \in ChannelType
      BY Zenon, ChannelRecord DEF ChStates
    <3> QED
      BY Zenon, <1>6, <3>1 DEF MissedAgent
  <2>3. pc' \in [Procs -> Pcs]
    BY <1>6, Actors DEF MissedAgent, Goto, Pcs
  <2> QED
    BY <1>6, <2>1, <2>2, <2>3 DEF MissedAgent
<1>7. CASE Abandoned
  <2>1. row' \in RowType
    BY Zenon, <1>7 DEF Abandoned, RowType, RowStates, Over, Results
  <2>2. pc' \in [Procs -> Pcs]
    BY <1>7, Actors DEF Abandoned, Goto, Pcs
  <2> QED
    BY <1>7, <2>1, <2>2 DEF Abandoned
<1>8. ASSUME NEW p \in Reporters, Report(p) PROVE TypeOK'
  <2>1. pc' \in [Procs -> Pcs]
    BY <1>8, Actors DEF Report, Goto, Pcs
  <2>2. known' \in [Callers -> BOOLEAN] /\ draft' \in BOOLEAN
    BY <1>8, Actors DEF Report
  <2> QED
    BY <1>8, <2>1, <2>2 DEF Report
<1>9. ASSUME NEW p \in Reporters, ReportDraft(p) PROVE TypeOK'
  <2>1. pc' \in [Procs -> Pcs]
    BY <1>9, Actors DEF ReportDraft, Goto, Pcs
  <2>2. leg' \in LegType
    BY Zenon, <1>9 DEF ReportDraft, LegType
  <2> QED
    BY <1>9, <2>1, <2>2 DEF ReportDraft
<1>10. ASSUME NEW p \in Callers, ProcessCallback(p) PROVE TypeOK'
  <2>1. pc' \in [Procs -> Pcs]
    BY <1>10, <1>a DEF ProcessCallback, Goto, Pcs
  <2>2. leg' \in LegType
    BY Zenon, <1>10 DEF ProcessCallback, LegType
  <2>3. callback' \in BOOLEAN
    BY <1>10 DEF ProcessCallback
  <2> QED
    BY <1>10, <2>1, <2>2, <2>3 DEF ProcessCallback
<1>11. ASSUME NEW p \in Callers, CallbackReporting(p) PROVE TypeOK'
  <2>1. pc' \in [Procs -> Pcs]
    BY <1>11, <1>a DEF CallbackReporting, Goto, Pcs
  <2>2. row' \in RowType
    BY Zenon, <1>11 DEF CallbackReporting, RowType, RowStates, Over, Results
  <2>3. channel' \in ChannelType
    BY <1>11, ReleasedType DEF CallbackReporting
  <2> QED
    BY <1>11, <2>1, <2>2, <2>3 DEF CallbackReporting
<1>12. ASSUME NEW p \in Reporters, CloseBeforeReporting(p) PROVE TypeOK'
  <2>1. pc' \in [Procs -> Pcs]
    BY <1>12, Actors DEF CloseBeforeReporting, Goto, Pcs
  <2>2. leg' \in LegType
    BY Zenon, <1>12 DEF CloseBeforeReporting, LegType
  <2> QED
    BY <1>12, <2>1, <2>2 DEF CloseBeforeReporting
<1>13. ASSUME NEW p \in Procs, LeavingMember(p) PROVE TypeOK'
  <2>1. pc' \in [Procs -> Pcs]
    BY <1>13 DEF LeavingMember, Left, Goto, Pcs
  <2> QED
    BY <1>13, <2>1 DEF LeavingMember
<1>14. ASSUME NEW p \in Procs, LeavingRemove(p) PROVE TypeOK'
  <2>1. pc' \in [Procs -> Pcs]
    BY <1>14 DEF LeavingRemove, Left, Goto, Pcs
  <2>2. row' \in RowType
    BY Zenon, <1>14 DEF LeavingRemove, RowType, Results
  <2>3. done' \in Nat
    BY <1>14 DEF LeavingRemove
  <2>5. cached' \in BOOLEAN
    BY Zenon, <1>14 DEF LeavingRemove
  <2>4. UNCHANGED <<channel, callback, draft, known, leg>>
    BY <1>14 DEF LeavingRemove
  <2> QED
    BY <2>1, <2>2, <2>3, <2>4, <2>5
<1>15. CASE RenewalAttempt
  <2>1. row' \in RowType
    <3>1. row.renewals \in 0..MaxRenew /\ row.renewals < MaxRenew
      BY <1>15 DEF RenewalAttempt, RowType
    <3>2. row.renewals + 1 \in 0..MaxRenew
      BY <3>1, MaxRenewAssumption
    <3> QED
      BY Zenon, <1>15, <3>2 DEF RenewalAttempt, RowType
  <2> QED
    BY <1>15, <2>1 DEF RenewalAttempt
<1>16. CASE Expire
  <2>1. row' \in RowType
    BY <1>16 DEF Expire, RowType
  <2> QED
    BY <1>16, <2>1 DEF Expire
<1>17. CASE ChannelTimeout
  BY <1>17 DEF ChannelTimeout, ChannelType, ChStates
<1>18. CASE GetTimeouts
  <2>1. row' \in RowType
    BY Zenon, <1>18, FeaturesAssumption DEF GetTimeouts, RowType, RowStates, Over, Results
  <2>2. channel' \in ChannelType
    <3>1. [state |-> "waiting", timeout |-> FALSE] \in ChannelType
      BY Zenon, ChannelRecord DEF ChStates
    <3> QED
      BY Zenon, <1>18, <3>1 DEF GetTimeouts
  <2>3. pc' \in [Procs -> Pcs]
    BY <1>18, Actors DEF GetTimeouts, Goto, Pcs
  <2> QED
    BY <1>18, <2>1, <2>2, <2>3 DEF GetTimeouts
<1>19. CASE RouteTimeout
  <2>1. row' \in RowType
    BY Zenon, <1>19 DEF RouteTimeout, RowType
  <2>2. pc' \in [Procs -> Pcs]
    BY <1>19, Actors DEF RouteTimeout, Goto, Pcs
  <2> QED
    BY <1>19, <2>1, <2>2 DEF RouteTimeout
<1>20. CASE TimeoutLeavingMember
  <2>1. row' \in RowType
    BY Zenon, <1>20 DEF TimeoutLeavingMember, RowType
  <2>2. pc' \in [Procs -> Pcs]
    BY <1>20, Actors DEF TimeoutLeavingMember, Goto, Pcs
  <2>3. draft' \in BOOLEAN
    BY <1>20 DEF TimeoutLeavingMember
  <2> QED
    BY <1>20, <2>1, <2>2, <2>3 DEF TimeoutLeavingMember
<1>21. CASE SaveToHistory
  <2>1. row' \in RowType
    BY <1>21 DEF SaveToHistory, RowType, RowStates, Over
  <2>2. pc' \in [Procs -> Pcs]
    BY <1>21, Actors DEF SaveToHistory, Goto, Pcs
  <2> QED
    BY <1>21, <2>1, <2>2 DEF SaveToHistory
<1>22. CASE SaveToHistoryElsewhere
  <2>1. row' \in RowType
    BY <1>22 DEF SaveToHistoryElsewhere, RowType, RowStates, Over
  <2> QED
    BY <1>22, <2>1 DEF SaveToHistoryElsewhere
<1>23. CASE UNCHANGED vars
  BY <1>23 DEF vars
<1> HIDE DEF TypeOK, memory
<1> QED
  BY <1>1, <1>2, <1>3, <1>4, <1>5, <1>6, <1>7, <1>8, <1>9, <1>10, <1>11, <1>12,
     <1>13, <1>14, <1>15, <1>16, <1>17, <1>18, <1>19, <1>20, <1>21, <1>22, <1>23,
     Actors, ReportersAssumption
     DEF Next, RunStep, ReporterStep, WatcherStep, Reporting, Leaving

\* The initial state has the types.
LEMMA InitType == Init => TypeOK
<1> SUFFICES ASSUME Init PROVE TypeOK
  OBVIOUS
<1>1. row \in RowType
  BY MaxRenewAssumption DEF Init, RowType, RowStates, Results
<1>2. channel \in ChannelType
  BY Zenon, ChannelRecord DEF Init, ChStates
<1>3. leg \in LegType
  BY DEF Init, LegType
<1>4. pc \in [Procs -> Pcs]
  BY DEF Init, Pcs
<1> QED
  BY Zenon, <1>1, <1>2, <1>3, <1>4 DEF Init, TypeOK

\* The variables keep their types, for every set of reporters.
THEOREM TypeCorrect == Spec => []TypeOK
BY InitType, TypeStep, PTL DEF Spec

-----------------------------------------------------------------------------
(* A row that is over stays over, when no report arrives before the answer.  *)

\* Before the answer only the run goroutine works on the attempt, and the
\* row is as the offer left it until the run goroutine gives up.
Unanswered ==
    ~leg.bridged =>
        /\ \A p \in Reporters : pc[p] = "idle"
        /\ row.timeout = "none" /\ row.state # "processing"
        /\ pc[Watcher] \in {"timeouts", "history"}
        /\ pc[Run] \in {"talk", "missed", "waiting", "leave", "remove", "done"}
        /\ pc[Run] \in {"talk", "missed"} => row.state = "offering"

\* After it nobody looks for another agent.
Answered ==
    leg.bridged => leg.state # "ringing" /\ pc[Run] \notin {"missed", "waiting"}

OverInv == TypeOK /\ Unanswered /\ Answered

\* No step changes one actor's program counter but its own.
LEMMA OthersStay ==
    ASSUME NEW p \in Procs, NEW l, pc \in [Procs -> Pcs], Goto(p, l)
    PROVE  pc'[p] = l /\ \A q \in Procs : q # p => pc'[q] = pc[q]
BY DEF Goto

\* The inductive step for the phases of the offer.
LEMMA OverStep ==
    ASSUME ~EarlyReports, OverInv, [Next]_vars
    PROVE  OverInv'
<1>t. TypeOK /\ TypeOK'
  BY TypeStep DEF OverInv
<1> USE DEF OverInv, Unanswered, Answered, TypeOK, memory
<1>1. CASE Bridged
  BY <1>1, <1>t DEF Bridged, LegType
<1>2. CASE Hangup
  BY <1>2, <1>t DEF Hangup, LegType
<1>3. CASE RunEnd
  BY <1>3, <1>t, Actors, OthersStay DEF RunEnd, Goto
<1>4. CASE SetWrap
  BY <1>4, <1>t, Actors DEF SetWrap, Goto
<1>5. CASE SetAttemptReporting
  BY <1>5, <1>t, Actors DEF SetAttemptReporting, Goto
<1>6. CASE MissedAgent
  BY Zenon, <1>6, <1>t, Actors DEF MissedAgent, Goto, RowType
<1>7. CASE Abandoned
  BY Zenon, <1>7, <1>t, Actors DEF Abandoned, Goto, RowType
<1>8. ASSUME NEW p \in Reporters, Report(p) \/ ReportDraft(p) PROVE OverInv'
  BY <1>8, <1>t, Actors DEF Report, ReportDraft, Goto, Reportable, LegType
<1>9. ASSUME NEW p \in Callers, ProcessCallback(p) PROVE OverInv'
  BY <1>9, <1>t, Actors DEF ProcessCallback, Goto, Callers, LegType
<1>10. ASSUME NEW p \in Callers, CallbackReporting(p) PROVE OverInv'
  BY <1>10, <1>t, Actors DEF CallbackReporting, Goto, Callers
<1>11. ASSUME NEW p \in Reporters, CloseBeforeReporting(p) PROVE OverInv'
  BY <1>11, <1>t, Actors DEF CloseBeforeReporting, Goto, LegType
<1>12. ASSUME NEW p \in Procs, LeavingMember(p) PROVE OverInv'
  BY <1>12, <1>t, Actors DEF LeavingMember, Left, Goto, Procs, Callers
<1>13. ASSUME NEW p \in Procs, LeavingRemove(p) PROVE OverInv'
  BY Zenon, <1>13, <1>t, Actors DEF LeavingRemove, Left, Goto, Procs, Callers, RowType
<1>14. CASE RenewalAttempt
  BY <1>14, <1>t DEF RenewalAttempt
<1>15. CASE Expire \/ ChannelTimeout \/ SaveToHistoryElsewhere
  BY <1>15, <1>t DEF Expire, ChannelTimeout, SaveToHistoryElsewhere, Finished, RowType
<1>16. CASE GetTimeouts
  BY <1>16, <1>t, Actors DEF GetTimeouts, TimedOut, Goto
<1>17. CASE RouteTimeout
  BY <1>17, <1>t, Actors DEF RouteTimeout, Goto
<1>18. CASE TimeoutLeavingMember
  BY <1>18, <1>t, Actors DEF TimeoutLeavingMember, Goto
<1>19. CASE SaveToHistory
  BY <1>19, <1>t, Actors DEF SaveToHistory, Finished, Goto, RowType
<1>20. CASE UNCHANGED vars
  BY <1>20 DEF vars
<1> HIDE DEF OverInv, Unanswered, Answered, TypeOK, memory
<1> QED
  BY <1>1, <1>2, <1>3, <1>4, <1>5, <1>6, <1>7, <1>8, <1>9, <1>10, <1>11, <1>12,
     <1>13, <1>14, <1>15, <1>16, <1>17, <1>18, <1>19, <1>20, Actors, ReportersAssumption
     DEF Next, RunStep, ReporterStep, WatcherStep, Reporting, Leaving

\* The offer starts in the first phase.
LEMMA OverInit == Init => OverInv
<1> SUFFICES ASSUME Init PROVE OverInv
  OBVIOUS
<1>1. TypeOK
  BY InitType
<1>2. Unanswered /\ Answered
  BY Actors DEF Init, Unanswered, Answered
<1> QED
  BY <1>1, <1>2 DEF OverInv

\* No step makes a row live that is over.
LEMMA OverKept ==
    ASSUME OverInv, [Next]_vars, row.state \in Over
    PROVE  row'.state \in Over
<1>t. row \in RowType
  BY DEF OverInv, TypeOK
<1> USE DEF Over, RowType
<1>1. CASE Bridged
  BY <1>1 DEF Bridged, OverInv, Unanswered, Answered
<1>2. CASE Hangup \/ RunEnd
  BY <1>2 DEF Hangup, RunEnd
<1>3. CASE SetWrap \/ SetAttemptReporting
  BY Zenon, <1>3, <1>t DEF SetWrap, SetAttemptReporting
<1>4. CASE MissedAgent
  BY <1>4 DEF MissedAgent, OverInv, Unanswered, Answered
<1>5. CASE Abandoned
  BY Zenon, <1>5, <1>t DEF Abandoned
<1>6. ASSUME NEW p \in Procs,
             Report(p) \/ ReportDraft(p) \/ ProcessCallback(p) \/ CloseBeforeReporting(p)
             \/ LeavingMember(p)
      PROVE  row'.state \in Over
  BY <1>6 DEF Report, ReportDraft, ProcessCallback, CloseBeforeReporting, LeavingMember
<1>7. ASSUME NEW p \in Procs, CallbackReporting(p) \/ LeavingRemove(p)
      PROVE  row'.state \in Over
  BY Zenon, <1>7, <1>t DEF CallbackReporting, LeavingRemove
<1>8. CASE RenewalAttempt \/ Expire \/ ChannelTimeout \/ SaveToHistoryElsewhere
  BY <1>8, <1>t DEF RenewalAttempt, Expire, ChannelTimeout, SaveToHistoryElsewhere
<1>9. CASE GetTimeouts \/ RouteTimeout
  BY Zenon, <1>9, <1>t DEF GetTimeouts, RouteTimeout
<1>10. CASE TimeoutLeavingMember \/ SaveToHistory
  BY <1>10, <1>t DEF TimeoutLeavingMember, SaveToHistory
<1>11. CASE UNCHANGED vars
  BY <1>11 DEF vars
<1> HIDE DEF Over, RowType
<1> QED
  BY <1>1, <1>2, <1>3, <1>4, <1>5, <1>6, <1>7, <1>8, <1>9, <1>10, <1>11, Actors,
     ReportersAssumption
     DEF Next, RunStep, ReporterStep, WatcherStep, Reporting, Leaving

\* Where agents report only after they answered, a row that is leaving or
\* in the history never becomes live again, whatever fails and whoever is
\* late (the condition in SetAttemptReporting, member_store.go:651).
THEOREM RowStaysOver == ASSUME ~EarlyReports PROVE Spec => OverIsFinal
<1>1. OverInv /\ [Next]_vars => OverInv'
  BY OverStep
<1>2. OverInv /\ [Next]_vars => [row.state \in Over => row'.state \in Over]_vars
  BY OverKept
<1> QED
  BY <1>1, <1>2, OverInit, PTL DEF Spec, OverIsFinal

-----------------------------------------------------------------------------
(* No orphan: an attempt that left the manager has a row that is over.       *)

\* Whoever is on the way to LeavingMember made the row leave before.
LeaversAreOver ==
    /\ \A p \in Callers : pc[p] \in {"close", "leave", "remove"} => row.state \in Over
    /\ pc[Watcher] \in {"route", "schema", "leave", "remove"} => row.state \in Over

OrphanInv == OverInv /\ LeaversAreOver /\ NoOrphan

\* The inductive step for the absence of orphans.
LEMMA OrphanStep ==
    ASSUME ~EarlyReports, ~StoreErrors, OrphanInv, [Next]_vars
    PROVE  OrphanInv'
<1>t. OverInv /\ OverInv' /\ row \in RowType /\ pc \in [Procs -> Pcs]
  BY OverStep DEF OrphanInv, OverInv, TypeOK
<1>k. row.state \in Over => row'.state \in Over
  BY <1>t, OverKept
<1>s. SUFFICES LeaversAreOver' /\ NoOrphan'
  BY <1>t DEF OrphanInv
<1>c. \A p \in Callers : p \in Procs
  BY DEF Procs
<1> USE DEF OrphanInv, LeaversAreOver, NoOrphan, memory
<1>1. CASE Bridged \/ Hangup \/ RenewalAttempt \/ Expire \/ ChannelTimeout
           \/ SaveToHistoryElsewhere \/ UNCHANGED vars
  BY <1>1, <1>k DEF Bridged, Hangup, RenewalAttempt, Expire, ChannelTimeout,
     SaveToHistoryElsewhere, vars
<1>2. CASE RunEnd
  BY <1>2, <1>t, <1>c, <1>k, Actors DEF RunEnd, Goto
<1>3. CASE SetWrap
  BY Zenon, <1>3, <1>t, <1>c, <1>k, Actors DEF SetWrap, Goto, RowType, Over
<1>4. CASE SetAttemptReporting
  BY <1>4, <1>t, <1>c, <1>k, Actors DEF SetAttemptReporting, Goto
<1>5. CASE MissedAgent
  BY <1>5, <1>t, <1>c, <1>k, Actors DEF MissedAgent, Goto
<1>6. CASE Abandoned
  BY Zenon, <1>6, <1>t, <1>c, <1>k, Actors DEF Abandoned, Goto, RowType, Over
<1>7. ASSUME NEW p \in Callers, Report(p) \/ ReportDraft(p) \/ ProcessCallback(p)
             \/ CloseBeforeReporting(p)
      PROVE  LeaversAreOver' /\ NoOrphan'
  BY <1>7, <1>t, <1>c, <1>k, Actors
     DEF Report, ReportDraft, ProcessCallback, CloseBeforeReporting, Goto
<1>8. ASSUME NEW p \in Callers, CallbackReporting(p) PROVE LeaversAreOver' /\ NoOrphan'
  BY Zenon, <1>8, <1>t, <1>c, <1>k, Actors DEF CallbackReporting, Goto, RowType, Over
<1>9. ASSUME NEW p \in Procs, LeavingMember(p) \/ LeavingRemove(p)
      PROVE  LeaversAreOver' /\ NoOrphan'
  BY <1>9, <1>t, <1>c, <1>k, Actors DEF LeavingMember, LeavingRemove, Left, Goto, Procs
<1>10. CASE GetTimeouts
  BY Zenon, <1>10, <1>t, <1>c, <1>k, Actors DEF GetTimeouts, Goto, RowType, Over
<1>11. CASE RouteTimeout \/ TimeoutLeavingMember \/ SaveToHistory
  BY <1>11, <1>t, <1>c, <1>k, Actors DEF RouteTimeout, TimeoutLeavingMember, SaveToHistory, Goto
<1> HIDE DEF OrphanInv, LeaversAreOver, NoOrphan, memory
<1> QED
  BY <1>1, <1>2, <1>3, <1>4, <1>5, <1>6, <1>7, <1>8, <1>9, <1>10, <1>11, Actors,
     ReportersAssumption
     DEF Next, RunStep, ReporterStep, WatcherStep, Reporting, Leaving

\* Where agents report only after they answered and no statement fails, an
\* attempt that is no longer in memory has no live row, with or without
\* processing, deadlines, drafts and transfers.
THEOREM NoAttemptIsOrphaned == ASSUME ~EarlyReports, ~StoreErrors PROVE Spec => []NoOrphan
<1>1. Init => OrphanInv
  BY Zenon, OverInit, Actors, ReportersAssumption
     DEF Init, OrphanInv, LeaversAreOver, NoOrphan, Callers, Procs
<1>2. OrphanInv /\ [Next]_vars => OrphanInv'
  BY OrphanStep
<1>3. OrphanInv => NoOrphan
  BY DEF OrphanInv
<1> QED
  BY <1>1, <1>2, <1>3, PTL DEF Spec

-----------------------------------------------------------------------------
(* One leaving per attempt, in a queue that processes results, without a     *)
(* deadline and without transfers.                                           *)

\* Neither the watcher nor SetWrap ends an attempt.
NoOtherEnd ==
    /\ row.timeout = "none"
    /\ pc[Watcher] \in {"timeouts", "history"}
    /\ ~leg.transferred
    /\ pc[Run] # "wrap"

\* p has ended the attempt and goes on to LeavingMember.
Owner(p) == pc[p] \in {"close", "leave", "remove"}

\* At most one actor owns the end of the attempt, and none while a bridged
\* attempt's row is live: the row decides who it is.
OneOwner ==
    /\ \A p, q \in Callers : Owner(p) /\ Owner(q) => p = q
    /\ \A p \in Callers : Owner(p) => done = 0
    /\ leg.bridged /\ row.state \notin Over => done = 0 /\ \A p \in Callers : ~Owner(p)
    /\ ~leg.bridged /\ pc[Run] \in {"talk", "missed", "waiting"} => done = 0
    /\ done <= 1

OnceInv == OverInv /\ NoOtherEnd /\ OneOwner

\* The inductive step for the single end.
LEMMA OnceStep ==
    ASSUME ~EarlyReports, Processing, ~Deadline, MaxRenew = 0, ~Transfers,
           OnceInv, [Next]_vars
    PROVE  OnceInv'
<1>t. OverInv /\ OverInv' /\ row \in RowType /\ leg \in LegType /\ pc \in [Procs -> Pcs]
      /\ done \in Nat
  BY OverStep DEF OnceInv, OverInv, TypeOK
<1>k. row.state \in Over => row'.state \in Over
  BY <1>t, OverKept DEF OnceInv
<1>s. SUFFICES NoOtherEnd' /\ OneOwner'
  BY <1>t DEF OnceInv
<1>c. \A p \in Callers : p \in Procs /\ p # Watcher
  BY Actors DEF Procs
<1>u. Unanswered /\ Answered
  BY <1>t DEF OverInv
<1> USE DEF OnceInv, NoOtherEnd, OneOwner, Owner, memory
<1>1. CASE Bridged
  <2>1. ~leg.bridged /\ pc[Run] = "talk" /\ \A p \in Reporters : pc[p] = "idle"
    BY <1>1, <1>u DEF Bridged, Unanswered, Answered
  <2>2. done = 0 /\ \A p \in Callers : ~Owner(p)
    BY <2>1 DEF Callers
  <2>3. NoOtherEnd'
    BY <1>1, <1>t DEF Bridged, LegType, RowType
  <2> QED
    BY <1>1, <2>2, <2>3 DEF Bridged
<1>2. CASE Hangup
  BY Zenon, <1>2, <1>t DEF Hangup, LegType
<1>3. CASE RunEnd
  BY <1>3, <1>t, <1>c, Actors DEF RunEnd, Goto
<1>4. CASE SetWrap
  BY <1>4 DEF SetWrap
<1>5. CASE SetAttemptReporting
  BY Zenon, <1>5, <1>t, <1>c, <1>k, Actors DEF SetAttemptReporting, Goto, RowType
<1>6. CASE MissedAgent
  BY Zenon, <1>6, <1>t, <1>u, <1>c, Actors DEF MissedAgent, Goto, RowType, Answered
<1>7. CASE Abandoned
  BY Zenon, <1>7, <1>t, <1>u, <1>c, Actors DEF Abandoned, Goto, RowType, Unanswered, Answered, Callers
<1>8. ASSUME NEW p \in Reporters, Report(p) \/ ReportDraft(p) \/ CloseBeforeReporting(p)
      PROVE  NoOtherEnd' /\ OneOwner'
  <2>1. CASE Report(p)
    BY <1>t, <1>c, <2>1, Actors DEF Report, Goto, LegType
  <2>2. CASE ReportDraft(p)
    BY <1>t, <1>c, <2>2, Actors DEF ReportDraft, Goto, LegType
  <2>3. CASE CloseBeforeReporting(p)
    BY <1>t, <1>c, <2>3, Actors DEF CloseBeforeReporting, Goto, LegType
  <2> QED
    BY <1>8, <2>1, <2>2, <2>3
<1>9. ASSUME NEW p \in Callers, ProcessCallback(p) PROVE NoOtherEnd' /\ OneOwner'
  BY <1>9, <1>t, <1>c, Actors DEF ProcessCallback, Goto, LegType
<1>10. ASSUME NEW p \in Callers, CallbackReporting(p) PROVE NoOtherEnd' /\ OneOwner'
  <2>1. leg.bridged
    BY <1>10, <1>u DEF CallbackReporting, Unanswered, Callers
  <2> QED
    <3>1. NoOtherEnd' /\ UNCHANGED <<done, leg>>
      BY Zenon, <1>10, <1>t, <1>c, Actors DEF CallbackReporting, Goto, RowType
    <3>2. \A q \in Callers : q # p => pc'[q] = pc[q]
      BY <1>10, <1>t, <1>c DEF CallbackReporting, Goto
    <3>3. CASE row.state \in Over \/ pc'[p] = "done"
      <4>1. pc'[p] = "done"
        BY <1>10, <1>t, <1>c, <3>3 DEF CallbackReporting, Goto
      <4>2. row.state \notin Over \/ row'.state \in Over
        BY <1>k
      <4> QED
        BY <2>1, <3>1, <3>2, <4>1, <4>2
    <3>4. CASE row.state \notin Over /\ pc'[p] # "done"
      <4>1. done = 0 /\ \A q \in Callers : ~Owner(q)
        BY <2>1, <3>4
      <4>2. row'.state \in Over
        BY Zenon, <1>10, <1>t, <1>c, <3>4 DEF CallbackReporting, Goto, RowType, Over
      <4>3. \A q \in Callers : q # p => ~Owner(q)'
        BY <3>2, <4>1
      <4> QED
        BY <2>1, <3>1, <4>1, <4>2, <4>3
    <3> QED
      BY <3>3, <3>4
<1>11. ASSUME NEW p \in Callers, LeavingMember(p) PROVE NoOtherEnd' /\ OneOwner'
  BY <1>11, <1>t, <1>c, Actors DEF LeavingMember, Left, Goto
<1>12. ASSUME NEW p \in Callers, LeavingRemove(p) PROVE NoOtherEnd' /\ OneOwner'
  <2>0. done = 0
    BY <1>12 DEF LeavingRemove
  <2>1. done' = 1
    <3>1. done' = done + 1
      BY <1>12 DEF LeavingRemove
    <3> QED
      BY <2>0, <3>1
  <2>2. \A q \in Callers : ~Owner(q)'
    BY <1>12, <1>t, <1>c, Actors DEF LeavingRemove, Left, Goto
  <2>3. NoOtherEnd'
    BY Zenon, <1>12, <1>t, <1>c, Actors DEF LeavingRemove, Left, Goto, RowType
  <2>4. leg'.bridged => row'.state \in Over
    BY <1>12, <1>k DEF LeavingRemove
  <2>5. ~leg'.bridged => pc'[Run] = "done"
    BY <1>12, <1>t, <1>u, <1>c, Actors DEF LeavingRemove, Left, Goto, Unanswered, Callers
  <2> QED
    BY <2>1, <2>2, <2>3, <2>4, <2>5
<1>13. CASE RenewalAttempt
  BY <1>13, <1>t DEF RenewalAttempt, RowType
<1>14. CASE Expire \/ ChannelTimeout \/ SaveToHistoryElsewhere
  BY <1>14, <1>t, <1>k DEF Expire, ChannelTimeout, SaveToHistoryElsewhere, RowType
<1>15. CASE GetTimeouts \/ RouteTimeout \/ TimeoutLeavingMember
  BY <1>15, <1>t, <1>c, Actors DEF GetTimeouts, TimedOut, RouteTimeout, TimeoutLeavingMember, Goto
<1>16. CASE SaveToHistory
  BY <1>16, <1>t, <1>c, <1>k, Actors DEF SaveToHistory, Goto, RowType
<1>17. CASE LeavingMember(Watcher) \/ LeavingRemove(Watcher)
  BY <1>17 DEF LeavingMember, LeavingRemove
<1>18. CASE UNCHANGED vars
  BY <1>18 DEF vars
<1> HIDE DEF OnceInv, NoOtherEnd, OneOwner, Owner, memory
<1> QED
  BY <1>1, <1>2, <1>3, <1>4, <1>5, <1>6, <1>7, <1>8, <1>9, <1>10, <1>11, <1>12,
     <1>13, <1>14, <1>15, <1>16, <1>17, <1>18, Actors, ReportersAssumption
     DEF Next, RunStep, ReporterStep, WatcherStep, Reporting, Leaving

\* In a queue that processes results, without deadline and transfers, an
\* attempt is counted down once however many reports arrive and whatever
\* fails: the condition of cc_attempt_end_reporting elects the one actor
\* that calls LeavingMember for an answered attempt.
THEOREM AttemptLeavesOnce ==
    ASSUME ~EarlyReports, Processing, ~Deadline, MaxRenew = 0, ~Transfers
    PROVE  Spec => []LeavesOnce
<1>1. Init => OnceInv
  <2> SUFFICES ASSUME Init PROVE OnceInv
    OBVIOUS
  <2>1. \A p \in Callers : pc[p] \in {"talk", "idle"}
    BY Zenon, Actors DEF Init, Procs
  <2>2. NoOtherEnd
    BY Actors DEF Init, NoOtherEnd
  <2>3. OneOwner
    BY <2>1 DEF Init, OneOwner, Owner
  <2> QED
    BY <2>2, <2>3, OverInit DEF OnceInv
<1>2. OnceInv /\ [Next]_vars => OnceInv'
  BY OnceStep
<1>3. OnceInv => LeavesOnce
  BY DEF OnceInv, OneOwner, LeavesOnce
<1> QED
  BY <1>1, <1>2, <1>3, PTL DEF Spec
=============================================================================
