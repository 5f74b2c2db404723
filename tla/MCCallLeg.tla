------------------------------ MODULE MCCallLeg ------------------------------
(***************************************************************************)
(* Two kinds of legs in one run: a leg the node originates, whose states   *)
(* nobody reads any more, and a leg it takes over from the switch, with    *)
(* holds, failing commands and rivals.  The constants of the configuration *)
(* are those of the first.                                                 *)
(***************************************************************************)
EXTENDS CallLeg

VARIABLE part

Taken == INSTANCE CallLeg WITH
    Sent <- {"bridge", "hold", "unhold", "hangup"}, Callers <- {"run", "rival"},
    Joined <- TRUE, Failures <- TRUE, Reads <- TRUE

MCInit ==
    \/ part = "originated" /\ Init
    \/ part = "taken" /\ Taken!Init

MCNext ==
    \/ part = "originated" /\ Next /\ UNCHANGED part
    \/ part = "taken" /\ Taken!Next /\ UNCHANGED part

MCSpec == MCInit /\ [][MCNext]_<<part, vars>>

(* NeverBlocks, of the leg without hold: a leg the node originates posts   *)
(* at most five states, and they fit the buffer although nobody reads it.  *)
OriginatedNeverBlocks == part = "originated" => NeverBlocks
=============================================================================
