------------------------------ MODULE MCServices ------------------------------
(***************************************************************************)
(* What a node runs beside its bridging queues, checked in one run: the    *)
(* broker's client, the pool of switches and the queues with one leg.  The *)
(* initial state chooses the part that moves; the others stay in their     *)
(* initial states.                                                         *)
(***************************************************************************)
EXTENDS Broker, Switches, SoloQueue

VARIABLE part

MCInit ==
    /\ part \in {"broker", "switches", "solo"}
    /\ BrokerInit /\ SwitchesInit /\ Init
    /\ part # "broker" => ~useIM
    /\ part # "switches" => listed = {} /\ answers = {}
    /\ part # "solo" => kind = "ivr"

BrokerPart ==
    /\ part = "broker" /\ BrokerNext
    /\ UNCHANGED <<part, poolVars, vars>>
SwitchesPart ==
    /\ part = "switches" /\ SwitchesNext
    /\ UNCHANGED <<part, brokerVars, vars>>
SoloPart ==
    /\ part = "solo" /\ Next
    /\ UNCHANGED <<part, brokerVars, poolVars>>

MCNext == BrokerPart \/ SwitchesPart \/ SoloPart

\* The fairness of each part, for the part that moves.
MCFairness ==
    /\ WF_brokerVars(part = "broker" /\ Listen) /\ WF_brokerVars(part = "broker" /\ CloseReturns)
    /\ \A r \in Readers : WF_brokerVars(part = "broker" /\ ReaderIM(r))
    /\ WF_brokerVars(part = "broker" /\ Consume("im"))
    /\ WF_poolVars(part = "switches" /\ WakeUp)
    /\ WF_poolVars(part = "switches" /\ (StopWatcherReturns \/ CloseAllConnections))
    /\ WF_vars(part = "solo" /\ Goroutine) /\ WF_vars(part = "solo" /\ DesktopCalls)

MCSpec == MCInit /\ [][MCNext]_<<part, brokerVars, poolVars, vars>> /\ MCFairness

\* Every part has its type: what its struct fields, rows and program counters may be.
MCTypeOK == BrokerTypeOK /\ SwitchesTypeOK /\ TypeOK
===============================================================================
