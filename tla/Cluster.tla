------------------------------ MODULE Cluster ------------------------------
(***************************************************************************)
(* The election of a master: cluster/ and store/sqlstore/cluster_store.go. *)
(* Every node writes the time of its heartbeat into its row of cc_cluster; *)
(* the statement also elects a master when no row of a master is fresh.    *)
(* Ages are classes: 0 is less than 30 seconds, 1 less than 40, 2 more.    *)
(***************************************************************************)
EXTENDS Naturals, Sequences, FiniteSets, SequencesExt

CONSTANTS
    Peers,       \* nodes
    MaxDeaths    \* bound on the ends of all processes

ASSUME ClusterAssumption == IsFiniteSet(Peers) /\ MaxDeaths \in Nat

VARIABLES
    age,      \* class of the time since updated_at
    recent,   \* nodes with a row, by updated_at, the last one first
    master,   \* nodes whose row says master
    process,  \* "down", "setup" (between its two statements), "up"
    believes, \* cluster.info.Master of a process
    deaths

clusterVars == <<age, recent, master, process, believes, deaths>>

ClusterInit ==
    /\ age = [n \in Peers |-> 0] /\ recent = <<>> /\ master = {}
    /\ process = [n \in Peers |-> "down"] /\ believes = [n \in Peers |-> FALSE] /\ deaths = 0

Rowed == Range(recent)

\* updated_at becomes now.
Touch(n) ==
    /\ age' = [age EXCEPT ![n] = 0]
    /\ recent' = <<n>> \o SelectSeq(recent, LAMBDA m : m # n)

\* A new row is no master; an old one becomes master unless a master is stale.
CreateOrUpdate(n) ==
    /\ Touch(n)
    /\ master' = IF n \in Rowed /\ \A m \in master : age[m] = 0 THEN master \cup {n} ELSE master \ {n}

\* No master younger than 40 seconds: the row that was written last becomes the only
\* one.  The form that prefers any master, however old:
MutUpdateClusterInfo(n) ==
    /\ Touch(n)
    /\ master' = IF master # {} THEN master ELSE {Head(recent)}

UpdateClusterInfo(n) ==
    /\ Touch(n)
    /\ master' = IF \E m \in master : age[m] < 2 THEN master ELSE {Head(recent)}

Learn(n) == believes' = [believes EXCEPT ![n] = n \in master']

\* Setup: two statements.
SetupRow(n) ==
    /\ process[n] = "down" /\ CreateOrUpdate(n) /\ Learn(n)
    /\ process' = [process EXCEPT ![n] = "setup"] /\ UNCHANGED deaths

SetupInfo(n) ==
    /\ process[n] = "setup" /\ UpdateClusterInfo(n) /\ Learn(n)
    /\ process' = [process EXCEPT ![n] = "up"] /\ UNCHANGED deaths

\* Heartbeat; after an error the node believes what it believed.
Heartbeat(n) ==
    /\ process[n] = "up" /\ UpdateClusterInfo(n) /\ Learn(n)
    /\ UNCHANGED <<process, deaths>>

\* Stop, or a crash: the row stays.
Die(n) ==
    /\ process[n] # "down" /\ deaths < MaxDeaths /\ deaths' = deaths + 1
    /\ process' = [process EXCEPT ![n] = "down"] /\ believes' = [believes EXCEPT ![n] = FALSE]
    /\ UNCHANGED <<age, recent, master>>

\* Ten seconds or more pass for a row that nobody writes: its process is down.
GrowOld(n) ==
    /\ process[n] = "down" /\ n \in Rowed /\ age[n] < 2
    /\ age' = [age EXCEPT ![n] = @ + 1]
    /\ UNCHANGED <<recent, master, process, believes, deaths>>

ClusterNext ==
    \E n \in Peers : SetupRow(n) \/ SetupInfo(n) \/ Heartbeat(n) \/ Die(n) \/ GrowOld(n)

\* Heartbeats go on, time passes; a node that is down need not come back.
ClusterFairness ==
    \A n \in Peers : /\ WF_clusterVars(SetupInfo(n) \/ Heartbeat(n))
                     /\ WF_clusterVars(GrowOld(n))

ClusterTypeOK ==
    /\ age \in [Peers -> 0..2] /\ master \subseteq Rowed /\ Rowed \subseteq Peers
    /\ Len(recent) = Cardinality(Rowed)
    /\ process \in [Peers -> {"down", "setup", "up"}]
    /\ believes \in [Peers -> BOOLEAN] /\ deaths \in 0..MaxDeaths

\* If a node stays, then in the end some running node knows that it is the master,
\* although the election may first choose the row of a node that has just died.
MasterLives ==
    \A n \in Peers : process[n] = "up" ~> \/ process[n] # "up"
                                          \/ \E m \in Peers : process[m] = "up" /\ believes[m]
============================================================================
