------------------------------ MODULE ExpiringMap ------------------------------
(***************************************************************************)
(* What a cache promises to those who call it (ObjectCache interface of    *)
(* utils/lru.go): a map of at most Size keys.  A key has the value that    *)
(* was last added under it, or none; it may lose the value at any time (it *)
(* expired, was removed or evicted), but only a Put gives it another.      *)
(***************************************************************************)
EXTENDS Naturals, FiniteSets

CONSTANTS Keys, Values, Size, None

VARIABLE map

MapInit == map = [k \in Keys |-> None]

Kept(m) == {k \in Keys : m[k] # None}

\* Keys lose their values, whatever the reason.
Lose == \E K \in SUBSET Keys : map' = [k \in Keys |-> IF k \in K THEN None ELSE map[k]]

\* One key gets a value, and at most one other loses its own.
Put ==
    \E k \in Keys, v \in Values, lost \in Keys \cup {None} :
        map' = [j \in Keys |-> IF j = k THEN v ELSE IF j = lost THEN None ELSE map[j]]

MapSpec == MapInit /\ [][(Lose \/ Put) /\ Cardinality(Kept(map')) <= Size]_map
================================================================================
