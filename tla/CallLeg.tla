------------------------------- MODULE CallLeg -------------------------------
(***************************************************************************)
(* One leg of a call: call_manager/call.go (CallImpl) with the manager's   *)
(* event loop, its cache of calls and the ring timer.                      *)
(*                                                                         *)
(* The switch (FreeSWITCH, external) sends an event for everything that    *)
(* happens to the leg.  CallManagerImpl.Start runs handleCallAction for    *)
(* every event in a goroutine of its own, so the handlers of one leg run   *)
(* concurrently and in any order.  A handler looks the leg up in the cache,*)
(* changes the leg under its lock, then, outside the lock, sets the state  *)
(* and sends it on a buffered channel, which the run goroutine of the      *)
(* attempt reads.  The leg ends in setHangup, which four parties reach: the*)
(* hangup event, the goroutine of Invite whose originate failed, and every *)
(* caller of Hangup whose command failed (ring timer, run goroutine, a     *)
(* rival attempt that hangs up the legs it found in the database).         *)
(***************************************************************************)
EXTENDS Integers, Sequences

CONSTANTS
    Sent,      \* the events the switch sends for this leg
    Callers,   \* who may call Hangup
    Joined,    \* BOOLEAN: a leg taken over from the switch, not originated
    Failures,  \* BOOLEAN: commands to the switch may fail on a live leg
    Reads      \* BOOLEAN: the run goroutine reads the states of the leg

(* The events of the switch; an unhold is a second active event. *)
Events == {"ringing", "progress", "active", "amd", "bridge", "hold", "unhold", "hangup"}
Hangers == {"timer", "run", "rival"}
Goroutines == Events \cup Hangers \cup {"invite"}

ASSUME CallLegAssumption ==
    /\ Sent \subseteq Events /\ "hangup" \in Sent
    /\ Callers \subseteq Hangers
    /\ Joined \in BOOLEAN /\ Failures \in BOOLEAN /\ Reads \in BOOLEAN

(* CallState, in the order the comparisons of the code rely on. *)
STATE_NEW == 0
INVITE == 1
RINGING == 2
ACCEPT == 4
BRIDGE == 7
HOLD == 8
DETECT_AMD == 9
HANGUP == 10
CallState == {STATE_NEW, INVITE, RINGING, ACCEPT, BRIDGE, HOLD, DETECT_AMD, HANGUP}

MutSets(g) == CASE g = "ringing" -> RINGING
                [] g \in {"active", "unhold"} -> ACCEPT
                [] OTHER -> HANGUP + 1

(* The state a goroutine sets and sends once it has changed the leg. *)
Sets(g) == CASE g = "ringing" -> RINGING
             [] g \in {"active", "unhold"} -> ACCEPT
             [] g = "amd" -> DETECT_AMD
             [] g = "bridge" -> BRIDGE
             [] g = "hold" -> HOLD
             [] OTHER -> HANGUP

MutCapacity == 4

(* NewCall, InboundCallQueue, ConnectCall: make(chan CallState, 5). *)
Capacity == 5

VARIABLES
    switch,    \* the leg at the switch: idle, dialing, ringing, active, over
    cached,    \* the leg is in cm.calls
    state,     \* call.state
    accepted,  \* call.acceptAt > 0
    bridged,   \* call.bridgeAt > 0
    hungup,    \* call.hangupAt > 0
    cause,     \* who ended the leg; "" while call.HangupCause() is empty
    closed,    \* how often close(call.hangupCh) ran; the second one panics
    timer,     \* call.ringTimeout: nil, armed, stopped
    chState,   \* call.chState
    reader,    \* the run goroutine: reads, or told (it saw hangupCh closed)
    pc         \* where each goroutine is

leg == <<accepted, bridged, hungup, cause, closed, timer>>
vars == <<switch, cached, state, leg, chState, reader, pc>>

Steps == {"none", "delivered", "dropped", "found", "lock", "state", "send",
          "hangup", "cancel", "command", "join", "save", "invite",
          "originate", "done"}

(* Every variable keeps its type. *)
TypeOK ==
    /\ switch \in {"idle", "dialing", "ringing", "active", "over"}
    /\ cached \in BOOLEAN /\ accepted \in BOOLEAN /\ bridged \in BOOLEAN /\ hungup \in BOOLEAN
    /\ state \in CallState
    /\ cause \in Goroutines \cup {""}
    /\ closed \in Nat
    /\ timer \in {"nil", "armed", "stopped"}
    /\ chState \in Seq(CallState) /\ Len(chState) <= Capacity
    /\ reader \in {"reads", "told"}
    /\ pc \in [Goroutines -> Steps]

Goto(g, l) == pc' = [pc EXCEPT ![g] = l]

(* NewCall leaves the leg in NEW; a joined leg is already answered. *)
Init ==
    /\ switch = IF Joined THEN "active" ELSE "idle"
    /\ state = IF Joined THEN ACCEPT ELSE STATE_NEW
    /\ accepted = Joined
    /\ cached = FALSE /\ bridged = FALSE /\ hungup = FALSE
    /\ cause = "" /\ closed = 0 /\ timer = "nil"
    /\ chState = <<>> /\ reader = "reads"
    /\ pc = [g \in Goroutines |-> IF g = "invite" THEN IF Joined THEN "join" ELSE "save" ELSE "none"]

-----------------------------------------------------------------------------
(* How the leg comes into the cache. *)

(* InboundCallQueue / ConnectCall: JoinQueue makes the switch send the     *)
(* leg's events to this node; only then is the leg saved.  A failed call   *)
(* saves nothing; the switch's refusal, in the answer of a call that went  *)
(* through, is not read, so that a leg it no longer has may be saved.      *)
JoinQueue ==
    /\ pc["invite"] = "join"
    /\ \/ Goto("invite", "save")
       \/ Failures /\ Goto("invite", "done")
    /\ UNCHANGED <<switch, cached, state, leg, chState, reader>>

(* saveToCacheCall, the first thing Invite and the last JoinQueue does. *)
SaveToCacheCall ==
    /\ pc["invite"] = "save"
    /\ cached' = TRUE
    /\ IF Joined THEN Goto("invite", "done") ELSE Goto("invite", "invite")
    /\ UNCHANGED <<switch, state, leg, chState, reader>>

(* Invite: the state, then the originate in a goroutine. *)
Invite ==
    /\ pc["invite"] = "invite"
    /\ state' = INVITE
    /\ switch' = "dialing"
    /\ Goto("invite", "originate")
    /\ UNCHANGED <<cached, leg, chState, reader>>

(* Invite's goroutine: the originate failed, or its transport did, and     *)
(* then the leg may go on ringing at the switch.                           *)
InviteError ==
    /\ pc["invite"] = "originate" /\ pc["active"] = "none"
    /\ switch \in {"dialing", "over"} \/ Failures
    /\ Goto("invite", "found")
    /\ switch' = IF switch = "dialing" THEN "over" ELSE switch
    /\ UNCHANGED <<cached, state, leg, chState, reader>>

-----------------------------------------------------------------------------
(* The switch (external). *)

Deliver(e, from, to) ==
    /\ e \in Sent /\ pc[e] = "none" /\ switch \in from
    /\ switch' = to
    /\ Goto(e, "delivered")

(* What may happen to the leg at the switch.  Before JoinQueue the events  *)
(* of a joined leg do not go to this node.                                 *)
SwitchEvent ==
    /\ IF pc["invite"] = "join"
          THEN switch = "active" /\ switch' = "over" /\ UNCHANGED pc
          ELSE \/ Deliver("ringing", {"dialing"}, "ringing")
               \/ Deliver("progress", {"ringing"}, "ringing")
               \/ Deliver("active", {"dialing", "ringing"}, "active")
               \/ Deliver("amd", {"active"}, "active")
               \/ Deliver("bridge", {"active"}, "active")
               \/ pc["bridge"] # "none" /\ Deliver("hold", {"active"}, "active")
               \/ pc["hold"] # "none" /\ Deliver("unhold", {"active"}, "active")
               \/ Deliver("hangup", {"dialing", "ringing", "active"}, "over")
    /\ UNCHANGED <<cached, state, leg, chState, reader>>

-----------------------------------------------------------------------------
(* The handlers of the events. *)

(* handleCallAction: an event of a leg that is not cached is dropped. *)
Lookup(e) ==
    /\ pc[e] = "delivered"
    /\ Goto(e, IF cached THEN "found" ELSE "dropped")
    /\ UNCHANGED <<switch, cached, state, leg, chState, reader>>

Stopped == IF timer = "nil" THEN "nil" ELSE "stopped"

(* setRinging arms the ring timer of the request, once. *)
SetRinging ==
    /\ pc["ringing"] = "found"
    /\ timer' = IF timer = "nil" /\ "timer" \in Callers THEN "armed" ELSE timer
    /\ Goto("ringing", "state")
    /\ UNCHANGED <<switch, cached, state, accepted, bridged, hungup, cause, closed, chState, reader>>

(* setProgress: Reset arms the timer again, even a stopped one. *)
SetProgress ==
    /\ pc["progress"] = "found"
    /\ timer' = IF timer # "nil" THEN "armed" ELSE timer
    /\ Goto("progress", "done")
    /\ UNCHANGED <<switch, cached, state, accepted, bridged, hungup, cause, closed, chState, reader>>

(* setActive tests acceptAt before it takes the lock. *)
SetActiveTest(e) ==
    /\ e \in {"active", "unhold"} /\ pc[e] = "found"
    /\ Goto(e, IF accepted THEN "done" ELSE "lock")
    /\ UNCHANGED <<switch, cached, state, leg, chState, reader>>

SetActive(e) ==
    /\ e \in {"active", "unhold"} /\ pc[e] = "lock"
    /\ accepted' = TRUE
    /\ timer' = Stopped
    /\ Goto(e, "state")
    /\ UNCHANGED <<switch, cached, state, bridged, hungup, cause, closed, chState, reader>>

SetBridge ==
    /\ pc["bridge"] = "found"
    /\ bridged' = TRUE
    /\ timer' = Stopped
    /\ Goto("bridge", "state")
    /\ UNCHANGED <<switch, cached, state, accepted, hungup, cause, closed, chState, reader>>

(* setAmd and setHold only pass the state on. *)
SetAmdOrHold(e) ==
    /\ e \in {"amd", "hold"} /\ pc[e] = "found"
    /\ Goto(e, "state")
    /\ UNCHANGED <<switch, cached, state, leg, chState, reader>>

MutSetHangupAgain(g) ==
    /\ g \in {"hangup", "invite"} \cup Hangers /\ pc[g] = "found"
    /\ hungup' = TRUE /\ closed' = closed + 1 /\ cached' = FALSE /\ timer' = Stopped
    /\ cause' \in IF g = "invite" /\ Failures THEN {"", g} ELSE {g}
    /\ Goto(g, "state")
    /\ UNCHANGED <<switch, state, accepted, bridged, chState, reader>>

MutSetHangupCached(g) ==
    /\ g \in {"hangup", "invite"} \cup Hangers /\ pc[g] = "found"
    /\ IF hungup
          THEN Goto(g, "done") /\ UNCHANGED <<cached, hungup, cause, closed, timer>>
          ELSE /\ hungup' = TRUE /\ closed' = closed + 1 /\ timer' = Stopped
               /\ cause' \in IF g = "invite" /\ Failures THEN {"", g} ELSE {g}
               /\ Goto(g, "state")
               /\ UNCHANGED cached
    /\ UNCHANGED <<switch, state, accepted, bridged, chState, reader>>

(* setHangup: the first caller ends the leg and closes hangupCh.  After a  *)
(* transport error of the originate the recorded cause is empty.           *)
SetHangup(g) ==
    /\ g \in {"hangup", "invite"} \cup Hangers /\ pc[g] = "found"
    /\ IF hungup
          THEN Goto(g, "done") /\ UNCHANGED <<cached, hungup, cause, closed, timer>>
          ELSE /\ hungup' = TRUE /\ closed' = closed + 1 /\ cached' = FALSE /\ timer' = Stopped
               /\ cause' \in IF g = "invite" /\ Failures THEN {"", g} ELSE {g}
               /\ Goto(g, "state")
    /\ UNCHANGED <<switch, state, accepted, bridged, chState, reader>>

(* setState, outside the lock: first the field ... *)
SetState(g) ==
    /\ pc[g] = "state"
    /\ state' = Sets(g)
    /\ Goto(g, "send")
    /\ UNCHANGED <<switch, cached, leg, chState, reader>>

(* ... then the channel, which blocks while its buffer is full. *)
SendState(g) ==
    /\ pc[g] = "send" /\ Len(chState) < Capacity
    /\ chState' = Append(chState, Sets(g))
    /\ Goto(g, "done")
    /\ UNCHANGED <<switch, cached, state, leg, reader>>

-----------------------------------------------------------------------------
(* Hangup and its callers. *)

(* The callback of time.AfterFunc hangs up unless the leg is answered. *)
RingTimeout ==
    /\ timer = "armed" /\ pc["timer"] \in {"none", "done"}
    /\ timer' = "stopped"
    /\ Goto("timer", IF state < ACCEPT THEN "hangup" ELSE "done")
    /\ UNCHANGED <<switch, cached, state, accepted, bridged, hungup, cause, closed, chState, reader>>

(* The run goroutine hangs up after Invite; HangupManyCall hangs up what   *)
(* it finds in the cache.                                                  *)
CallHangup(g) ==
    /\ g \in Callers \ {"timer"} /\ pc[g] = "none"
    /\ \/ g = "run" /\ pc["invite"] \notin {"join", "save", "invite"}
       \/ g = "rival" /\ cached
    /\ Goto(g, "hangup")
    /\ UNCHANGED <<switch, cached, state, leg, chState, reader>>

(* Hangup: a leg that was not invited yet has no one to hang up. *)
HangupTest(g) ==
    /\ g \in Hangers /\ pc[g] = "hangup"
    /\ Goto(g, IF state < INVITE THEN "cancel" ELSE "command")
    /\ UNCHANGED <<switch, cached, state, leg, chState, reader>>

CancelNew(g) ==
    /\ g \in Hangers /\ pc[g] = "cancel"
    /\ closed' = IF state = STATE_NEW THEN closed + 1 ELSE closed
    /\ Goto(g, "done")
    /\ UNCHANGED <<switch, cached, state, accepted, bridged, hungup, cause, timer, chState, reader>>

(* HangupCall at the switch; if it fails, the leg is ended here. *)
HangupCommand(g) ==
    /\ g \in Hangers /\ pc[g] = "command"
    /\ \/ /\ switch \in {"dialing", "ringing", "active"}
          /\ switch' = "over"
          /\ pc' = [pc EXCEPT ![g] = "done", !["hangup"] = "delivered"]
       \/ /\ switch = "over" \/ Failures
          /\ Goto(g, IF cause = "" THEN "found" ELSE "done")
          /\ UNCHANGED switch
    /\ UNCHANGED <<cached, state, leg, chState, reader>>

-----------------------------------------------------------------------------
(* The run goroutine. *)

(* select over State() and HangupChan(). *)
ReadState ==
    /\ Reads /\ reader = "reads" /\ chState # <<>>
    /\ chState' = Tail(chState)
    /\ UNCHANGED <<switch, cached, state, leg, reader, pc>>

HangupChan ==
    /\ Reads /\ reader = "reads" /\ closed > 0
    /\ reader' = "told"
    /\ UNCHANGED <<switch, cached, state, leg, chState, pc>>

(* A cached leg that joins a queue again forgets its last bridge. *)
ResetBridge ==
    /\ cached /\ bridged
    /\ bridged' = FALSE
    /\ UNCHANGED <<switch, cached, state, accepted, hungup, cause, closed, timer, chState, reader, pc>>

Handle(g) ==
    \/ Lookup(g)
    \/ SetActiveTest(g) \/ SetActive(g) \/ SetAmdOrHold(g) \/ SetHangup(g)
    \/ SetState(g) \/ SendState(g)
    \/ HangupTest(g) \/ CancelNew(g) \/ HangupCommand(g)

Next ==
    \/ JoinQueue \/ SaveToCacheCall \/ Invite \/ InviteError
    \/ SwitchEvent
    \/ SetRinging \/ SetProgress \/ SetBridge
    \/ \E g \in Goroutines : Handle(g) \/ CallHangup(g)
    \/ RingTimeout
    \/ ReadState \/ HangupChan \/ ResetBridge

Spec == Init /\ [][Next]_vars

(* Goroutines run on, the switch ends every leg, the run goroutine reads.  *)
FairSpec ==
    /\ Spec
    /\ \A g \in Goroutines : WF_vars(Handle(g))
    /\ WF_vars(SetRinging) /\ WF_vars(SetProgress) /\ WF_vars(SetBridge)
    /\ WF_vars(JoinQueue) /\ WF_vars(SaveToCacheCall) /\ WF_vars(Invite)
    /\ WF_vars(ReadState) /\ WF_vars(HangupChan)

-----------------------------------------------------------------------------
(* Safety. *)

(* hangupCh is closed at most once, although the hangup event, the failed  *)
(* originate and every failed Hangup end the leg: a second close panics.   *)
ClosedOnce == closed <= 1

(* A leg is ended exactly when hangupCh is closed, and an ended leg is no  *)
(* longer in the manager's cache: WaitForHangup cannot wait for ever and   *)
(* no later attempt finds a dead leg.                                      *)
EndedIsForgotten == (hungup <=> closed > 0) /\ (hungup => ~cached)

(* The leg is ended by one party: a late event, timer or failed command    *)
(* never changes the recorded cause, nor brings the leg back to life.      *)
EndIsFinal == [][hungup => hungup' /\ cause' = cause]_vars

(* The five states a leg without hold can post fit the buffer, in whatever *)
(* order and by whomever they are posted: no handler blocks in setState    *)
(* even when nobody reads the leg any more.                                *)
NeverBlocks == \A g \in Goroutines : pc[g] = "send" => Len(chState) < Capacity

-----------------------------------------------------------------------------
(* Liveness. *)

(* A leg that is over at the switch is forgotten: it leaves the cache for  *)
(* good, and its reader learns of the end.                                 *)
ForgetsEndedLegs ==
    switch = "over" ~> [](~cached /\ (Reads /\ hungup => reader = "told"))
=============================================================================
