---------------------------- MODULE CallLegProofs ----------------------------
(***************************************************************************)
(* The end of a call leg, proved for every set of events the switch may    *)
(* send and every set of parties that may hang up, except HangupManyCall   *)
(* on a leg that is still being invited.                                   *)
(***************************************************************************)
EXTENDS CallLeg, TLAPS

(* The types the argument needs. *)
PlainType ==
    /\ switch \in {"idle", "dialing", "ringing", "active", "over"}
    /\ timer \in {"nil", "armed", "stopped"}
    /\ state \in CallState
    /\ closed \in Nat
    /\ pc \in [Goroutines -> Steps]

(* The leg is not in the cache yet, or not invited yet. *)
Early == pc["invite"] \in {"join", "save", "invite"}

(* While a leg is early nobody can end it: an originated leg is unknown to *)
(* the switch and a joined one is unknown to the manager.                  *)
EarlyIsQuiet ==
    Early => /\ ~hungup /\ closed = 0 /\ timer = "nil"
             /\ \A g \in Hangers : pc[g] = "none"
             /\ \A e \in Events : pc[e] \in {"none", "delivered", "dropped"}
             /\ Joined => ~cached
             /\ ~Joined => switch = "idle" /\ \A e \in Events : pc[e] = "none"

(* After that its state is past NEW, so Hangup never takes the shortcut. *)
PastNew ==
    /\ state = STATE_NEW => Early /\ ~Joined
    /\ pc["invite"] = "join" => Joined
    /\ pc["invite"] \in {"invite", "originate"} => ~Joined
    /\ \A g \in Goroutines : pc[g] # "cancel"
    /\ \A g \in Goroutines \ {"invite"} : pc[g] \notin {"join", "save", "invite", "originate"}

Ended == \/ hungup /\ closed = 1 /\ ~cached
         \/ ~hungup /\ closed = 0

(* The inductive invariant behind the theorems. *)
LegInv == PlainType /\ EarlyIsQuiet /\ PastNew /\ Ended

NoEarlyRival == Joined \/ "rival" \notin Callers

(* A goroutine moves to a legal step. *)
LEMMA GotoType ==
    ASSUME pc \in [Goroutines -> Steps], NEW g \in Goroutines, NEW l \in Steps, Goto(g, l)
    PROVE  /\ pc' \in [Goroutines -> Steps]
           /\ pc'[g] = l
           /\ \A h \in Goroutines \ {g} : pc'[h] = pc[h]
  BY DEF Goto

(* The states are numbers, and NEW is the only one below INVITE. *)
LEMMA StateOrder ==
    /\ \A s \in CallState : s < INVITE => s = STATE_NEW
    /\ \A g \in Goroutines : Sets(g) \in CallState /\ Sets(g) # STATE_NEW
    /\ INVITE \in CallState /\ INVITE # STATE_NEW /\ ACCEPT \in CallState /\ ACCEPT # STATE_NEW
  <1>1. \A s \in CallState : s < INVITE => s = STATE_NEW
    BY DEF CallState, STATE_NEW, INVITE, RINGING, ACCEPT, BRIDGE, HOLD, DETECT_AMD, HANGUP
  <1>2. \A g \in Goroutines : Sets(g) \in CallState /\ Sets(g) # STATE_NEW
    BY DEF Sets, CallState, STATE_NEW, INVITE, RINGING, ACCEPT, BRIDGE, HOLD, DETECT_AMD, HANGUP
  <1> QED BY <1>1, <1>2 DEF CallState, STATE_NEW, INVITE, ACCEPT

(* The goroutines of the model, by name. *)
LEMMA Names ==
    /\ Events \subseteq Goroutines /\ Hangers \subseteq Goroutines /\ "invite" \in Goroutines
    /\ "invite" \notin Events /\ "invite" \notin Hangers
    /\ \A e \in Events : e \notin Hangers
    /\ {"ringing", "progress", "active", "amd", "bridge", "hold", "unhold", "hangup"} \subseteq Events
    /\ {"timer", "run", "rival"} \subseteq Hangers
  BY DEF Events, Hangers, Goroutines

(* Initially the leg is quiet. *)
LEMMA LegInit == Init => LegInv
  <1> SUFFICES ASSUME Init PROVE LegInv
    OBVIOUS
  <1>1. PlainType
    BY Zenon, StateOrder DEF Init, PlainType, Steps, CallState
  <1>2. /\ \A g \in Goroutines \ {"invite"} : pc[g] = "none"
        /\ pc["invite"] = IF Joined THEN "join" ELSE "save"
    BY Zenon, Names DEF Init
  <1>3. EarlyIsQuiet
    BY Zenon, <1>2, Names DEF Init, EarlyIsQuiet, Early
  <1>4. PastNew
    BY Zenon, <1>2, StateOrder, Names DEF Init, PastNew, Early
  <1>5. ~hungup /\ closed = 0
    BY Zenon DEF Init
  <1>6. Ended
    BY <1>5 DEF Ended
  <1> QED BY <1>1, <1>3, <1>4, <1>6 DEF LegInv

(* The steps a goroutine may take once the leg is no longer early. *)
LaterSteps == {"found", "lock", "state", "send", "hangup", "command", "done", "dropped", "delivered"}

(* A step of a later goroutine that neither ends nor saves the leg. *)
LEMMA LaterStep ==
    ASSUME LegInv, ~Early,
           NEW g \in Goroutines, NEW l \in LaterSteps, Goto(g, l),
           state' = state \/ (state' \in CallState /\ state' # STATE_NEW),
           timer' \in {"nil", "armed", "stopped"},
           switch' \in {"idle", "dialing", "ringing", "active", "over"},
           hungup' = hungup, closed' = closed, cached' = cached
    PROVE  LegInv'
  <1>1. pc' \in [Goroutines -> Steps] /\ pc'[g] = l /\ \A h \in Goroutines \ {g} : pc'[h] = pc[h]
    BY GotoType DEF LegInv, PlainType, LaterSteps, Steps
  <1>2. PlainType'
    BY <1>1 DEF LegInv, PlainType
  <1>3. ~Early'
    BY <1>1, Names DEF Early, LaterSteps
  <1>4. EarlyIsQuiet'
    BY <1>3 DEF EarlyIsQuiet
  <1>5. PastNew'
    BY <1>1, <1>3, Names DEF LegInv, PastNew, LaterSteps
  <1>6. Ended'
    BY DEF LegInv, Ended
  <1> QED BY <1>2, <1>4, <1>5, <1>6 DEF LegInv

(* The steps that create the leg and bring it into the cache. *)
LEMMA CreateStep ==
    ASSUME LegInv, JoinQueue \/ SaveToCacheCall \/ Invite \/ InviteError
    PROVE  LegInv'
  <1> USE Names, StateOrder DEF LegInv
  <1>1. CASE JoinQueue
    <2>1. PlainType'
      BY <1>1, GotoType DEF JoinQueue, PlainType, Steps, leg
    <2>2. EarlyIsQuiet'
      BY <1>1, GotoType DEF JoinQueue, PlainType, EarlyIsQuiet, PastNew, Early, Steps, leg
    <2>3. PastNew'
      BY <1>1, GotoType DEF JoinQueue, PlainType, PastNew, EarlyIsQuiet, Early, Steps, leg
    <2>4. Ended'
      BY <1>1 DEF JoinQueue, Ended, leg
    <2> QED BY <2>1, <2>2, <2>3, <2>4
  <1>2. CASE SaveToCacheCall
    <2>1. PlainType'
      BY <1>2, GotoType DEF SaveToCacheCall, PlainType, Steps, leg
    <2>2. EarlyIsQuiet'
      BY <1>2, GotoType DEF SaveToCacheCall, PlainType, EarlyIsQuiet, PastNew, Early, Steps, leg
    <2>3. PastNew'
      BY <1>2, GotoType DEF SaveToCacheCall, PlainType, PastNew, EarlyIsQuiet, Early, Steps, leg
    <2>4. Ended'
      BY <1>2 DEF SaveToCacheCall, Ended, leg, EarlyIsQuiet, Early
    <2> QED BY <2>1, <2>2, <2>3, <2>4
  <1>3. CASE Invite
    <2>1. PlainType'
      BY <1>3, GotoType DEF Invite, PlainType, Steps, leg
    <2>2. EarlyIsQuiet'
      BY <1>3, GotoType DEF Invite, PlainType, EarlyIsQuiet, PastNew, Early, Steps, leg
    <2>3. PastNew'
      BY <1>3, GotoType DEF Invite, PlainType, PastNew, EarlyIsQuiet, Early, Steps, leg
    <2>4. Ended'
      BY <1>3 DEF Invite, Ended, leg
    <2> QED BY <2>1, <2>2, <2>3, <2>4
  <1>4. CASE InviteError
    <2>1. PlainType'
      BY <1>4, GotoType DEF InviteError, PlainType, Steps, leg
    <2>2. EarlyIsQuiet'
      BY <1>4, GotoType DEF InviteError, PlainType, EarlyIsQuiet, PastNew, Early, Steps, leg
    <2>3. PastNew'
      BY <1>4, GotoType DEF InviteError, PlainType, PastNew, EarlyIsQuiet, Early, Steps, leg
    <2>4. Ended'
      BY <1>4 DEF InviteError, Ended, leg
    <2> QED BY <2>1, <2>2, <2>3, <2>4
  <1> QED BY <1>1, <1>2, <1>3, <1>4

(* A goroutine that got past the lookup works on a leg that is not early. *)
LEMMA WorksLater ==
    ASSUME LegInv, NEW g \in Goroutines,
           pc[g] \in {"found", "lock", "state", "send", "hangup", "command"}
    PROVE  ~Early
  BY Names DEF LegInv, EarlyIsQuiet, Early, Goroutines

(* The handlers and the callers of Hangup. *)
LEMMA HandleStep ==
    ASSUME LegInv, NEW g \in Goroutines, Handle(g)
    PROVE  LegInv'
  <1> USE Names, StateOrder
  <1>0. timer \in {"nil", "armed", "stopped"} /\ Stopped \in {"nil", "armed", "stopped"}
        /\ switch \in {"idle", "dialing", "ringing", "active", "over"} /\ state \in CallState
    BY DEF LegInv, PlainType, Stopped
  <1>1. CASE Lookup(g)
    <2>1. CASE Early
      <3>1. g \in Events /\ ~cached
        BY <1>1, <2>1 DEF LegInv, EarlyIsQuiet, Lookup, Early, Goroutines
      <3>2. Goto(g, "dropped")
        BY <1>1, <3>1 DEF Lookup
      <3>3. /\ pc' \in [Goroutines -> Steps] /\ pc'[g] = "dropped"
            /\ \A h \in Goroutines \ {g} : pc'[h] = pc[h]
        BY <3>2, GotoType DEF LegInv, PlainType, Steps
      <3>4. PlainType'
        BY <1>1, <3>3 DEF LegInv, PlainType, Lookup, leg
      <3>5. EarlyIsQuiet'
        BY <1>1, <2>1, <3>1, <3>3 DEF LegInv, EarlyIsQuiet, Early, Lookup, leg
      <3>6. PastNew'
        BY <1>1, <2>1, <3>1, <3>3 DEF LegInv, PastNew, Early, Lookup, leg
      <3>7. Ended'
        BY <1>1 DEF LegInv, Ended, Lookup, leg
      <3> QED BY <3>4, <3>5, <3>6, <3>7 DEF LegInv
    <2>2. CASE ~Early
      BY <1>0, <1>1, <2>2, LaterStep DEF Lookup, LaterSteps, leg
    <2> QED BY <2>1, <2>2
  <1>2. CASE SetActiveTest(g)
    BY <1>0, <1>2, WorksLater, LaterStep DEF SetActiveTest, LaterSteps, leg
  <1>3. CASE SetActive(g)
    BY <1>0, <1>3, WorksLater, LaterStep DEF SetActive, LaterSteps
  <1>4. CASE SetAmdOrHold(g)
    BY <1>0, <1>4, WorksLater, LaterStep DEF SetAmdOrHold, LaterSteps, leg
  <1>5. CASE SetHangup(g)
    <2>0. ~Early
      BY Zenon, <1>5, WorksLater DEF SetHangup
    <2>1. CASE hungup
      BY <1>0, <1>5, <2>0, <2>1, LaterStep DEF SetHangup, LaterSteps
    <2>2. CASE ~hungup
      <3>1. /\ hungup' = TRUE /\ closed' = closed + 1 /\ cached' = FALSE /\ timer' = Stopped
            /\ Goto(g, "state") /\ switch' = switch /\ state' = state
        BY Zenon, <1>5, <2>2 DEF SetHangup
      <3>2. /\ pc' \in [Goroutines -> Steps] /\ pc'[g] = "state"
            /\ \A h \in Goroutines \ {g} : pc'[h] = pc[h]
        BY <3>1, GotoType DEF LegInv, PlainType, Steps
      <3>3. PlainType'
        BY <1>0, <3>1, <3>2 DEF LegInv, PlainType
      <3>4. ~Early'
        BY <2>0, <3>2 DEF Early
      <3>5. EarlyIsQuiet'
        BY <3>4 DEF EarlyIsQuiet
      <3>6. PastNew'
        BY <2>0, <3>1, <3>2 DEF LegInv, PastNew
      <3>7. closed' = 1
        BY <2>2, <3>1 DEF LegInv, Ended
      <3>8. Ended'
        BY <3>1, <3>7 DEF Ended
      <3> QED BY <3>3, <3>5, <3>6, <3>8 DEF LegInv
    <2> QED BY <2>1, <2>2
  <1>6. CASE SetState(g)
    BY <1>0, <1>6, WorksLater, LaterStep DEF SetState, LaterSteps, leg
  <1>7. CASE SendState(g)
    BY <1>0, <1>7, WorksLater, LaterStep DEF SendState, LaterSteps, leg
  <1>8. CASE HangupTest(g)
    <2>1. ~Early
      BY <1>8, WorksLater DEF HangupTest
    <2>2. ~(state < INVITE)
      BY <1>0, <2>1 DEF LegInv, PastNew
    <2> QED BY <1>0, <1>8, <2>1, <2>2, LaterStep DEF HangupTest, LaterSteps, leg
  <1>9. CASE CancelNew(g)
    BY <1>9 DEF CancelNew, LegInv, PastNew
  <1>10. CASE HangupCommand(g)
    <2>0. ~Early
      BY Zenon, <1>10, WorksLater DEF HangupCommand
    <2>1. CASE Goto(g, IF cause = "" THEN "found" ELSE "done") /\ UNCHANGED switch
      BY Zenon, <1>0, <1>10, <2>0, <2>1, LaterStep DEF HangupCommand, LaterSteps, leg
    <2>2. CASE switch' = "over" /\ pc' = [pc EXCEPT ![g] = "done", !["hangup"] = "delivered"]
      <3>1. /\ pc' \in [Goroutines -> Steps]
            /\ \A h \in Goroutines : pc'[h] = pc[h] \/ pc'[h] \in {"done", "delivered"}
        BY <2>2 DEF LegInv, PlainType, Steps
      <3>2. UNCHANGED <<cached, state, hungup, closed, timer>>
        BY Zenon, <1>10 DEF HangupCommand, leg
      <3>3. PlainType'
        BY <2>2, <3>1, <3>2 DEF LegInv, PlainType
      <3>4. ~Early'
        BY <2>0, <3>1 DEF Early
      <3>5. EarlyIsQuiet'
        BY <3>4 DEF EarlyIsQuiet
      <3>6. PastNew'
        BY <2>0, <3>1, <3>2 DEF LegInv, PastNew
      <3>7. Ended'
        BY <3>2 DEF LegInv, Ended
      <3> QED BY <3>3, <3>5, <3>6, <3>7 DEF LegInv
    <2> QED BY Zenon, <1>10, <2>1, <2>2 DEF HangupCommand
  <1> QED
    BY <1>1, <1>2, <1>3, <1>4, <1>5, <1>6, <1>7, <1>8, <1>9, <1>10 DEF Handle

(* What the switch does to the leg. *)
LEMMA SwitchStep ==
    ASSUME LegInv, SwitchEvent
    PROVE  LegInv'
  <1> USE Names
  <1>1. UNCHANGED <<cached, state, hungup, closed, timer>>
    BY DEF SwitchEvent, leg
  <1>2. CASE pc["invite"] = "join"
    <2>1. switch' = "over" /\ UNCHANGED pc /\ Joined
      BY <1>2 DEF SwitchEvent, LegInv, PastNew
    <2> QED
      BY <1>1, <2>1 DEF LegInv, PlainType, EarlyIsQuiet, Early, PastNew, Ended
  <1>3. CASE pc["invite"] # "join"
    <2>1. PICK e \in Events : /\ Goto(e, "delivered") /\ pc[e] = "none"
                              /\ switch \in {"dialing", "ringing", "active"}
                              /\ switch' \in {"ringing", "active", "over"}
      BY <1>3 DEF SwitchEvent, Deliver
    <2>2. CASE ~Early
      BY <1>1, <2>1, <2>2, LaterStep DEF LaterSteps, LegInv, PlainType
    <2>3. CASE Early
      <3>1. Joined
        BY <2>1, <2>3 DEF LegInv, EarlyIsQuiet
      <3>2. /\ pc' \in [Goroutines -> Steps] /\ pc'[e] = "delivered"
            /\ \A h \in Goroutines \ {e} : pc'[h] = pc[h]
        BY <2>1, GotoType DEF LegInv, PlainType, Steps
      <3>3. PlainType'
        BY <1>1, <2>1, <3>2 DEF LegInv, PlainType
      <3>4. EarlyIsQuiet'
        BY <1>1, <2>1, <2>3, <3>1, <3>2 DEF LegInv, EarlyIsQuiet, Early
      <3>5. PastNew'
        BY <1>1, <2>1, <2>3, <3>1, <3>2 DEF LegInv, PastNew, Early
      <3>6. Ended'
        BY <1>1 DEF LegInv, Ended
      <3> QED BY <3>3, <3>4, <3>5, <3>6 DEF LegInv
    <2> QED BY <2>2, <2>3
  <1> QED BY <1>2, <1>3

(* Every step keeps the invariant. *)
LEMMA LegStep ==
    ASSUME NoEarlyRival, LegInv, [Next]_vars
    PROVE  LegInv'
  <1> USE Names
  <1>0. timer \in {"nil", "armed", "stopped"} /\ Stopped \in {"nil", "armed", "stopped"}
        /\ switch \in {"idle", "dialing", "ringing", "active", "over"} /\ state \in CallState
    BY DEF LegInv, PlainType, Stopped
  <1>1. CASE JoinQueue \/ SaveToCacheCall \/ Invite \/ InviteError
    BY <1>1, CreateStep
  <1>2. CASE SwitchEvent
    BY <1>2, SwitchStep
  <1>3. CASE SetRinging
    BY <1>0, <1>3, WorksLater, LaterStep DEF SetRinging, LaterSteps
  <1>4. CASE SetProgress
    BY <1>0, <1>4, WorksLater, LaterStep DEF SetProgress, LaterSteps
  <1>5. CASE SetBridge
    BY <1>0, <1>5, WorksLater, LaterStep DEF SetBridge, LaterSteps
  <1>6. CASE \E g \in Goroutines : Handle(g)
    BY <1>6, HandleStep
  <1>7. CASE \E g \in Goroutines : CallHangup(g)
    <2>1. PICK g \in Goroutines : CallHangup(g)
      BY <1>7
    <2>2. ~Early
      BY <2>1 DEF CallHangup, NoEarlyRival, LegInv, EarlyIsQuiet, PastNew, Early
    <2> QED BY <1>0, <2>1, <2>2, LaterStep DEF CallHangup, LaterSteps, leg
  <1>8. CASE RingTimeout
    <2>1. ~Early
      BY <1>8 DEF RingTimeout, LegInv, EarlyIsQuiet
    <2> QED BY <1>0, <1>8, <2>1, LaterStep DEF RingTimeout, LaterSteps
  <1>9. CASE ReadState \/ HangupChan \/ ResetBridge \/ UNCHANGED vars
    <2>1. UNCHANGED <<switch, cached, state, hungup, closed, timer, pc>>
      BY <1>9 DEF ReadState, HangupChan, ResetBridge, vars, leg
    <2> QED
      BY <2>1 DEF LegInv, PlainType, EarlyIsQuiet, Early, PastNew, Ended
  <1> HIDE DEF LegInv
  <1> QED
    BY <1>1, <1>2, <1>3, <1>4, <1>5, <1>6, <1>7, <1>8, <1>9 DEF Next

(* The invariant holds in every reachable state. *)
LEMMA LegCorrect == ASSUME NoEarlyRival PROVE Spec => []LegInv
  BY LegInit, LegStep, PTL DEF Spec

(* close(call.hangupCh) runs at most once, whoever ends the leg: no party  *)
(* of setHangup and Hangup can make the manager panic.                     *)
THEOREM HangupClosedOnce == ASSUME NoEarlyRival PROVE Spec => []ClosedOnce
  <1>1. LegInv => ClosedOnce
    BY DEF LegInv, Ended, ClosedOnce
  <1> QED BY <1>1, LegCorrect, PTL

(* The leg is over exactly when hangupCh is closed, and then the manager's *)
(* cache has no entry for it (setHangup, removeFromCacheCall).             *)
THEOREM EndedLegForgotten == ASSUME NoEarlyRival PROVE Spec => []EndedIsForgotten
  <1>1. LegInv => EndedIsForgotten
    BY DEF LegInv, Ended, EndedIsForgotten
  <1> QED BY <1>1, LegCorrect, PTL

(* The first caller of setHangup decides the cause, and the leg stays      *)
(* ended, whatever event, timer or command comes later.                    *)
THEOREM LegEndsOnce == Spec => EndIsFinal
  <1>1. ASSUME [Next]_vars, hungup PROVE hungup' /\ cause' = cause
    BY Zenon, <1>1 DEF Next, vars, leg, JoinQueue, SaveToCacheCall, Invite, InviteError, SwitchEvent,
       SetRinging, SetProgress, SetBridge, Handle, Lookup, SetActiveTest, SetActive, SetAmdOrHold,
       SetHangup, SetState, SendState, HangupTest, CancelNew, HangupCommand, CallHangup,
       RingTimeout, ReadState, HangupChan, ResetBridge
  <1> QED BY <1>1, PTL DEF Spec, EndIsFinal
=============================================================================
