------------------------------- MODULE MCNode ------------------------------
(***************************************************************************)
(* The parts of a node that do not touch each other's state, checked in    *)
(* one run: the initial state chooses the part that moves, the others stay *)
(* in their initial states, in which no fair action of theirs is enabled.  *)
(***************************************************************************)
EXTENDS Joining, Triggers, NodeLife, Expiry, Cluster

CONSTANTS r1, r2, a1, n1, n2, j1, j2, m1, m2, m3, m4

VARIABLE part

vars == <<part, joinVars, triggerVars, nodeVars, expiryVars, clusterVars>>

\* Every kind of request alone, and the pairs that meet on a thread or on an agent.
Alone(k) == [r \in {r1, r2} |-> IF r = r1 THEN k ELSE "absent"]
MCMixes == {Alone(k) : k \in Kinds} \cup {[r \in {r1, r2} |-> k] : k \in {"queue_im", "outbound"}}

Init ==
    /\ part \in {"joining", "triggers", "life", "expiry", "cluster"}
    /\ JoinInit /\ (part # "joining" => Kind = Alone("queue_call"))
    /\ Kind[r2] = "outbound" => Forced = {r1, r2} /\ Ringing = {}
    /\ TriggersInit /\ NodeInit /\ ExpiryInit /\ ClusterInit

JoinPart ==
    /\ part = "joining" /\ JoinNext
    /\ UNCHANGED <<part, triggerVars, nodeVars, expiryVars, clusterVars>>
TriggersPart ==
    /\ part = "triggers" /\ TriggersNext
    /\ UNCHANGED <<part, joinVars, nodeVars, expiryVars, clusterVars>>
LifePart ==
    /\ part = "life" /\ NodeNext
    /\ UNCHANGED <<part, joinVars, triggerVars, expiryVars, clusterVars>>
ExpiryPart ==
    /\ part = "expiry" /\ ExpiryNext
    /\ UNCHANGED <<part, joinVars, triggerVars, nodeVars, clusterVars>>
ClusterPart ==
    /\ part = "cluster" /\ ClusterNext
    /\ UNCHANGED <<part, joinVars, triggerVars, nodeVars, expiryVars>>

Next == JoinPart \/ TriggersPart \/ LifePart \/ ExpiryPart \/ ClusterPart

Spec == /\ Init /\ [][Next]_vars
        /\ JoinFairness /\ TriggersFairness /\ NodeFairness /\ ExpiryFairness /\ ClusterFairness

\* Every part has its type: what its struct fields, rows and program counters may be.
MCNodeTypeOK == JoinTypeOK /\ TriggersTypeOK /\ NodeTypeOK /\ ExpiryTypeOK /\ ClusterTypeOK
============================================================================
