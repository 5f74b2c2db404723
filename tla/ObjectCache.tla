------------------------------ MODULE ObjectCache ------------------------------
(***************************************************************************)
(* The LRU cache of utils/lru.go and model/lru.go.  The two files are the  *)
(* same code, but only the second has RemoveFunc: the operators are mapped *)
(* to the first, the actions that call them under the lock to the second.  *)
(*                                                                         *)
(* A cache c has the list of its keys, newest first (evictList), the entry *)
(* of each key (items), the number of entries it reports (len) and the     *)
(* generation that Purge raises.  An entry of an earlier generation, or    *)
(* one that has expired, is still in the list but is not found.            *)
(***************************************************************************)
EXTENDS Naturals, Sequences, SequencesExt, FiniteSets

CONSTANTS
    Keys,           \* ids of the cached objects
    Values,         \* objects
    Size,           \* size: how many entries the list keeps
    Lifetimes,      \* expireAtSecs of an Add; 0 is "never"
    MaxTime,        \* bound of the clock
    MaxGeneration,  \* bound of currentGeneration
    None            \* nothing found

ASSUME CacheAssumption ==
    /\ Size \in Nat \ {0} /\ IsFiniteSet(Keys) /\ None \notin Values
    /\ Lifetimes \subseteq Nat /\ MaxTime \in Nat /\ MaxGeneration \in Nat

Entry == [value : Values, expire : Nat, gen : Nat]

NewLru == [list |-> <<>>, items |-> <<>>, len |-> 0, gen |-> 0]

\* The list without a key.
Unlink(c, k) == SelectSeq(c.list, LAMBDA j : j # k)

\* Mutant: an entry of an earlier generation is counted too.
MutRemoveElement(c, k) ==
    [c EXCEPT !.list  = Unlink(c, k),
              !.items = [j \in DOMAIN c.items \ {k} |-> c.items[j]],
              !.len   = IF @ > 0 THEN @ - 1 ELSE 0]

removeElement(c, k) ==
    [c EXCEPT !.list  = Unlink(c, k),
              !.items = [j \in DOMAIN c.items \ {k} |-> c.items[j]],
              !.len   = IF c.items[k].gen = c.gen THEN @ - 1 ELSE @]

\* Mutant: a use does not bring the entry to the front.
MutMoveToFront(c, k) == c

MoveToFront(c, k) == [c EXCEPT !.list = <<k>> \o Unlink(c, k)]

\* Mutant: the list keeps one entry too many.
MutAddWithExpiresInSecs(c, k, v, secs, time) ==
    LET e == [value |-> v, expire |-> IF secs > 0 THEN time + secs ELSE 0, gen |-> c.gen]
        d == [MoveToFront(c, k) EXCEPT
                  !.items = [j \in DOMAIN @ \cup {k} |-> IF j = k THEN e ELSE @[j]],
                  !.len   = IF k \in DOMAIN c.items /\ c.items[k].gen = c.gen THEN @ ELSE @ + 1]
    IN  IF Len(d.list) > Size + 1 THEN removeElement(d, Last(d.list)) ELSE d

\* An entry that is there is rewritten and brought to the front; a purged one
\* counts again.  A new one is pushed, and the oldest leaves a full list.
AddWithExpiresInSecs(c, k, v, secs, time) ==
    LET e == [value |-> v, expire |-> IF secs > 0 THEN time + secs ELSE 0, gen |-> c.gen]
    IN  IF k \in DOMAIN c.items
        THEN [MoveToFront(c, k) EXCEPT
                  !.items[k] = e,
                  !.len      = IF c.items[k].gen # c.gen THEN @ + 1 ELSE @]
        ELSE LET d == [c EXCEPT !.list  = <<k>> \o @,
                                !.items = [j \in DOMAIN @ \cup {k} |-> IF j = k THEN e ELSE @[j]],
                                !.len   = @ + 1]
             IN  IF Len(d.list) > Size THEN removeElement(d, Last(d.list)) ELSE d

Live(c, k, time) ==
    /\ k \in DOMAIN c.items
    /\ c.items[k].gen = c.gen
    /\ c.items[k].expire > 0 => time <= c.items[k].expire

\* The cache after a Get; a dead entry is removed by it.
GetFrom(c, k, time) ==
    IF k \notin DOMAIN c.items THEN c
    ELSE IF Live(c, k, time) THEN MoveToFront(c, k) ELSE removeElement(c, k)

RemoveFrom(c, k) == IF k \in DOMAIN c.items THEN removeElement(c, k) ELSE c

PurgeAll(c) == [c EXCEPT !.len = 0, !.gen = @ + 1]

\* The loop of Keys: it fills a slice of c.len places, oldest first.
KeysOf(c) == SelectSeq(Reverse(c.list), LAMBDA k : c.items[k].gen = c.gen)

-----------------------------------------------------------------------------
VARIABLES
    cache,    \* the Cache
    clock,    \* time.Now() in seconds
    since     \* history: the keys used after the last use of each key

cvars == <<cache, clock, since>>

CacheInit ==
    /\ cache = NewLru
    /\ clock = 0
    /\ since = [k \in Keys |-> {}]

Used(k) == since' = [j \in Keys |-> IF j = k THEN {} ELSE since[j] \cup {k}]

Add(k) ==
    \E v \in Values, secs \in Lifetimes :
        /\ cache' = AddWithExpiresInSecs(cache, k, v, secs, clock)
        /\ Used(k)
        /\ UNCHANGED clock

Get(k) ==
    /\ cache' = GetFrom(cache, k, clock)
    /\ IF Live(cache, k, clock) THEN Used(k) ELSE UNCHANGED since
    /\ UNCHANGED clock

RemoveKey(k) ==
    /\ cache' = RemoveFrom(cache, k)
    /\ UNCHANGED <<clock, since>>

\* The chat store removes a conversation only if it is still the cached one;
\* unlike Get, RemoveFunc looks at neither generation nor expiry.
RemoveFunc(k, v) ==
    /\ k \in DOMAIN cache.items
    /\ cache.items[k].value = v
    /\ cache' = removeElement(cache, k)
    /\ UNCHANGED <<clock, since>>

Purge ==
    /\ cache.gen < MaxGeneration
    /\ cache' = PurgeAll(cache)
    /\ UNCHANGED <<clock, since>>

Tick ==
    /\ clock < MaxTime
    /\ clock' = clock + 1
    /\ UNCHANGED <<cache, since>>

CacheNext ==
    \/ \E k \in Keys : Add(k) \/ Get(k) \/ RemoveKey(k) \/ \E v \in Values : RemoveFunc(k, v)
    \/ Purge
    \/ Tick

CacheSpec == CacheInit /\ [][CacheNext]_cvars

CacheTypeOK ==
    /\ cache.list \in Seq(Keys)
    /\ DOMAIN cache.items \subseteq Keys
    /\ \A k \in DOMAIN cache.items : cache.items[k] \in Entry
    /\ cache.len \in Nat /\ cache.gen \in 0..MaxGeneration
    /\ clock \in 0..MaxTime
    /\ since \in [Keys -> SUBSET Keys]

\* What the users of the cache see: the entries that Get would find.
Visible == [k \in Keys |-> IF Live(cache, k, clock) THEN cache.items[k].value ELSE None]

-----------------------------------------------------------------------------
\* lru.go, Keys: the slice of c.len places is filled exactly, neither past its
\* end nor with empty places, after any sequence of adds, removals, evictions
\* and purges.  For that the list and the map must hold the same keys, once.
KeysExact ==
    /\ IsInjective(cache.list)
    /\ ToSet(cache.list) = DOMAIN cache.items
    /\ cache.len = Len(KeysOf(cache))

\* lru.go, AddWithExpiresInSecs: an entry that could be found is pushed out by
\* the Add of another key only after as many other keys as the cache holds have
\* been used since its own last use.
KeepsRecent ==
    [][\A k \in Keys :
          /\ k \in DOMAIN cache.items
          /\ k \notin DOMAIN cache'.items
          /\ Len(cache.list) = Len(cache'.list)
          => Cardinality(since'[k]) >= Size]_cvars
================================================================================
