---------------------------- MODULE MCImTransfer -----------------------------
(***************************************************************************)
(* Two instances of ImTransfer in one run: a conversation and one transfer *)
(* in which everything may fail, and a chain of transfers between agents   *)
(* who only accept.  The constants of the configuration are those of the   *)
(* first.  The operators, and the attempts after the first, are            *)
(* interchangeable.                                                        *)
(***************************************************************************)
EXTENDS ImTransfer, TLC

VARIABLE part

Chain == INSTANCE ImTransfer WITH
    Failures <- FALSE, Direct <- {TRUE}, Sources <- Attempts, Calls <- {"accept"}, MaxOffers <- 1

Symmetry == Permutations(Agents) \cup Permutations(Attempts \ {First})

MCInit == part \in {"transfer", "chain"} /\ Init

TransferPart ==
    /\ part = "transfer" /\ Next
    /\ Cardinality({a \in Attempts : phase'[a] # "none"}) <= 2
    /\ UNCHANGED part
ChainPart == part = "chain" /\ Chain!Next /\ UNCHANGED part

MCNext == TransferPart \/ ChainPart

MCSpec == MCInit /\ [][MCNext]_<<part, vars>>
=============================================================================
