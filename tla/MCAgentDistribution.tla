-------------------------- MODULE MCAgentDistribution --------------------------
(* Instances of AgentDistribution for TLC: see the .cfg files. *)
EXTENDS AgentDistribution, TLC

CONSTANTS a1, a2

\* A predictive attempt beside an attempt of an inbound call queue: the two
\* queues draw on the same agents.
PredictAndInbound == (a1 :> "predict") @@ (a2 :> "inbound")
=============================================================================
