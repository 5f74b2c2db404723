-------------------------- MODULE MCAttemptReporting --------------------------
(***************************************************************************)
(* How attempts and legs end, in one run.  The initial state chooses the   *)
(* part that moves:                                                        *)
(*   - "ends": the instance of the configuration, whose goroutines, timers *)
(*     and calls keep going;                                               *)
(*   - "races": one more caller, failing statements, and no deadline;      *)
(*   - "leg": an originated leg with a timer and a rival that hang up.     *)
(***************************************************************************)
EXTENDS AttemptReporting

VARIABLES part,
    row2, channel2, cached2, done2, leg2, callback2, draft2, known2, pc2,
    switch, legCached, state, accepted, bridged, hungup, cause, closed, timer, chState, reader, legPc

vars2 == <<row2, channel2, cached2, done2, leg2, callback2, draft2, known2, pc2>>
legVars == <<switch, legCached, state, accepted, bridged, hungup, cause, closed, timer, chState, reader, legPc>>

Races == INSTANCE AttemptReporting WITH
    Reporters <- {"r1", "r2", "r3"}, Drafters <- {"r3"},
    Deadline <- FALSE, MaxRenew <- 0, Prolongation <- FALSE, Autosave <- FALSE, WrapTime <- FALSE,
    Transfers <- FALSE, StoreErrors <- TRUE,
    row <- row2, channel <- channel2, cached <- cached2, done <- done2, leg <- leg2,
    callback <- callback2, draft <- draft2, known <- known2, pc <- pc2

Leg == INSTANCE CallLeg WITH
    Sent <- {"ringing", "active", "hangup"}, Callers <- {"timer", "rival"},
    Joined <- FALSE, Failures <- FALSE, Reads <- TRUE, cached <- legCached, pc <- legPc

MCInit == part \in {"ends", "races", "leg"} /\ Init /\ Races!Init /\ Leg!Init

EndsPart ==
    /\ part = "ends" /\ Next
    /\ UNCHANGED <<part, vars2, legVars>>
RacesPart ==
    /\ part = "races" /\ Races!Next
    /\ UNCHANGED <<part, vars, legVars>>
LegPart ==
    /\ part = "leg" /\ Leg!Next
    /\ UNCHANGED <<part, vars, vars2>>

MCNext == EndsPart \/ RacesPart \/ LegPart

\* Every goroutine of the leg keeps running: the handlers of the events and of the hangups, the
\* originate and the reader.
LegRuns(g) ==
    \/ Leg!Handle(g)
    \/ g = "ringing" /\ Leg!SetRinging
    \/ g = "invite" /\ (Leg!SaveToCacheCall \/ Leg!Invite)

\* The fairness of FairSpec and of CallLeg, for the part that moves.
MCFairness ==
    /\ WF_vars(part = "ends" /\ Hangup) /\ WF_vars(part = "ends" /\ RunStep)
    /\ WF_vars(part = "ends" /\ WatcherStep)
    /\ WF_vars(part = "ends" /\ Expire) /\ WF_vars(part = "ends" /\ ChannelTimeout)
    /\ \A p \in Reporters : WF_vars(part = "ends" /\ ReporterStep(p))
    /\ \A g \in {"ringing", "active", "hangup", "timer", "rival", "invite"} :
           WF_legVars(part = "leg" /\ LegRuns(g))
    /\ WF_legVars(part = "leg" /\ (Leg!ReadState \/ Leg!HangupChan))

MCSpec == MCInit /\ [][MCNext]_<<part, vars, vars2, legVars>> /\ MCFairness

(* Ends: every attempt for which no draft is saved leaves the manager and  *)
(* reaches the history, whoever ends it.                                   *)
AttemptEnds == part = "ends" => Ends

(* LeavesOnce, where no deadline runs: LeavingMember counts the wait group *)
(* down at most once, whoever races for the attempt and whatever fails.    *)
LeavesOnceInRaces == Races!LeavesOnce

(* ForgetsEndedLegs: an originated leg that is over at the switch leaves   *)
(* the cache of calls for good, and its reader learns of the end.          *)
LegIsForgotten == part = "leg" => Leg!ForgetsEndedLegs
=============================================================================
