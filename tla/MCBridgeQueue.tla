----------------------------- MODULE MCBridgeQueue -----------------------------
(* Instances of BridgeQueue for TLC: see the .cfg files. *)
EXTENDS BridgeQueue
=============================================================================
