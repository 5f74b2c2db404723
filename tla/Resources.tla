------------------------------- MODULE Resources -------------------------------
(***************************************************************************)
(* An outbound resource: the count of its successive errors, which stops   *)
(* it, and its rate limit.  Attempts get the resource's object from the    *)
(* cache or through a shared request (Settings models the versions; here   *)
(* the version stays the same), take a place under the rate limit, dial,   *)
(* and report how the call went.  The count lives in the database; every   *)
(* object has the copy it was made with, and its own rate limiter.         *)
(***************************************************************************)
EXTENDS Naturals, Sequences, FiniteSets

CONSTANTS
    Attempts,     \* attempts that dial through the resource
    Objs,         \* Resource objects, more than can be in use
    NoObj,        \* none
    MaxErrors,    \* max_successively_errors
    ErrorMasks,   \* error_ids, sequences of digits and "X"
    Codes         \* hangup cause codes, sequences of digits

ASSUME ResourcesAssumption ==
    /\ NoObj \notin Objs \cup Attempts /\ IsFiniteSet(Attempts)
    /\ Cardinality(Objs) > Cardinality(Attempts)
    /\ MaxErrors \in Nat

VARIABLES
    count,      \* successively_errors
    enabled,    \* enabled
    cached,     \* object in resourcesCache
    errs,       \* successivelyErrors of each object
    token,      \* the objects whose rate limiter lets a call through
    at,         \* position of each attempt
    obj,        \* object of each attempt
    leader,     \* the attempt that runs the shared request
    botched,    \* history: objects that may be cached and differ from the row: read
                \* before an error and cached after it, or reset when the row was not
    old,        \* history: the objects read before the last counted error
    clear,      \* history: the attempts that asked after the last error was dealt
                \* with, when no older read was under way
    unreset     \* history: a success of such an attempt left the count standing

rvars == <<count, enabled, cached, errs, token, at, obj, leader, botched, old, clear, unreset>>

\* The fields of a Resource that change.
store   == <<count, enabled>>
history == <<botched, old, clear, unreset>>

Stages == {"idle", "load", "end", "wait", "answer", "take", "dial", "remove", "reset",
           "cancelled", "done"}

ResourcesInit ==
    /\ count = 0 /\ enabled = TRUE
    /\ cached = NoObj /\ errs = [o \in Objs |-> 0] /\ token = {}
    /\ at = [a \in Attempts |-> "idle"] /\ obj = [a \in Attempts |-> NoObj]
    /\ leader = NoObj
    /\ botched = {} /\ old = {} /\ clear = {} /\ unreset = FALSE

Go(a, s) == at' = [at EXCEPT ![a] = s]

-----------------------------------------------------------------------------
\* The handler of an error has not removed the object yet, a read is under way
\* that is older than the last counted error, or such an object is cached.
Unsettled ==
    \/ \E a \in Attempts :
          at[a] = "remove" \/ (at[a] \in {"end", "answer"} /\ obj[a] \in old \cup botched)
    \/ cached \in botched

\* GetAttemptResource and ResourceManager.Get, the lookup: the object of the
\* cache, or a request that is shared with those who come while it runs.
GetAttemptResource(a) ==
    /\ at[a] \in {"idle", "done", "cancelled"} /\ enabled
    /\ clear' = IF Unsettled THEN clear \ {a} ELSE clear \cup {a}
    /\ \/ /\ cached # NoObj
          /\ obj' = [obj EXCEPT ![a] = cached] /\ Go(a, "take") /\ UNCHANGED leader
       \/ /\ cached = NoObj /\ leader = NoObj
          /\ leader' = a /\ Go(a, "load") /\ obj' = [obj EXCEPT ![a] = NoObj]
       \/ /\ cached = NoObj /\ leader # NoObj
          /\ Go(a, "wait") /\ obj' = [obj EXCEPT ![a] = NoObj] /\ UNCHANGED leader
    /\ UNCHANGED <<store, cached, errs, token, botched, old, unreset>>

\* The request: NewResource copies the count, and has a limiter of its own.
NewResource(a) ==
    LET free == Objs \ ({cached} \cup {obj[b] : b \in Attempts})
        o    == CHOOSE x \in free : TRUE
    IN  /\ at[a] = "load"
        /\ obj' = [obj EXCEPT ![a] = o]
        /\ errs' = [errs EXCEPT ![o] = count]
        /\ token' = token \cup {o}
        /\ old' = old \ {o} /\ botched' = botched \ {o}
        /\ Go(a, "end")
        /\ UNCHANGED <<store, cached, leader, clear, unreset>>

\* The request ends; an object that was shared is not cached.
EndGet(a) ==
    LET waiting == {b \in Attempts : at[b] = "wait"}
    IN  /\ at[a] = "end"
        /\ leader' = NoObj
        /\ obj' = [b \in Attempts |-> IF b \in waiting THEN obj[a] ELSE obj[b]]
        /\ at' = [b \in Attempts |->
                     IF b \in waiting THEN "take"
                     ELSE IF b = a THEN (IF waiting = {} THEN "answer" ELSE "take") ELSE at[b]]
        /\ UNCHANGED <<store, cached, errs, token, history>>

CacheObject(a) ==
    /\ at[a] = "answer"
    /\ cached' = obj[a]
    /\ botched' = IF obj[a] \in old THEN botched \cup {obj[a]} ELSE botched
    /\ Go(a, "take")
    /\ UNCHANGED <<store, errs, obj, leader, token, old, clear, unreset>>

\* Resource.Take: wait for the limiter of this object, or for the cancel.
Take(a) ==
    /\ at[a] = "take" /\ obj[a] \in token
    /\ token' = token \ {obj[a]}
    /\ Go(a, "dial")
    /\ UNCHANGED <<store, cached, errs, obj, leader, history>>

TakeCancelled(a) ==
    /\ at[a] = "take"
    /\ Go(a, "cancelled")
    /\ UNCHANGED <<store, cached, errs, obj, leader, token, history>>

\* The limiters earn one call each.
Second ==
    /\ token' = Objs
    /\ UNCHANGED <<store, cached, errs, at, obj, leader, history>>

-----------------------------------------------------------------------------
\* checkCodeMask: TRUE if the mask is as long as the code and differs from it.
checkCodeMask(mask, code) ==
    /\ Len(mask) = Len(code)
    /\ \E i \in 1..Len(mask) : mask[i] # "X" /\ mask[i] # code[i]

\* CheckCodeError: some mask does not differ.
CheckCodeError(code) ==
    /\ MaxErrors > 0
    /\ \E m \in ErrorMasks : ~checkCodeMask(m, code)

\* Mutant: the count goes on when the resource stops.
MutSetError ==
    IF ~enabled THEN UNCHANGED store
    ELSE count' = count + 1 /\ enabled' = (count + 1 < MaxErrors)

\* cc_resource_set_error: the count rises, or starts again and the resource
\* stops; a stopped resource is left alone.
SetError ==
    IF ~enabled THEN UNCHANGED store
    ELSE IF count + 1 >= MaxErrors THEN count' = 0 /\ enabled' = FALSE
    ELSE count' = count + 1 /\ UNCHANGED enabled

\* SetResourceError, a code that counts: the statement, then the removal from
\* the cache.  A failed statement is logged.
SetResourceError(a) ==
    /\ at[a] = "dial"
    /\ \E code \in Codes : CheckCodeError(code)
    /\ \/ /\ SetError
          /\ old' = Objs /\ clear' = {}
          /\ Go(a, "remove")
       \/ /\ UNCHANGED <<store, old, clear>>
          /\ Go(a, "done")
    /\ UNCHANGED <<cached, errs, obj, leader, token, botched, unreset>>

\* Mutant: the object stays in the cache.
MutRemoveFromCacheById(a) ==
    /\ at[a] = "remove"
    /\ Go(a, "done")
    /\ UNCHANGED <<store, cached, errs, obj, leader, token, history>>

RemoveFromCacheById(a) ==
    /\ at[a] = "remove"
    /\ cached' = NoObj
    /\ Go(a, "done")
    /\ UNCHANGED <<store, errs, obj, leader, token, history>>

\* CallCheckResourceError without error, or with a code that does not count:
\* only an object that knows of errors resets the count.
CallCheckResourceError(a) ==
    /\ at[a] = "dial"
    /\ IF errs[obj[a]] > 0
       THEN Go(a, "reset") /\ UNCHANGED unreset
       ELSE /\ Go(a, "done")
            /\ unreset' = (unreset \/ (a \in clear /\ count > 0))
    /\ UNCHANGED <<store, cached, errs, obj, leader, token, botched, old, clear>>

SetSuccessivelyErrorsById(n) == count' = n

SetSuccessivelyErrors(o, n) == errs' = [errs EXCEPT ![o] = n]

\* SetResourceSuccessful: the statement may fail, the object is reset anyhow.
SetResourceSuccessful(a) ==
    /\ at[a] = "reset"
    /\ \/ SetSuccessivelyErrorsById(0) /\ UNCHANGED <<botched, clear>>
       \/ UNCHANGED count /\ botched' = botched \cup {obj[a]} /\ clear' = {}
    /\ SetSuccessivelyErrors(obj[a], 0)
    /\ Go(a, "done")
    /\ UNCHANGED <<enabled, cached, obj, leader, token, old, unreset>>

\* The operator switches the resource on again.
Enable ==
    /\ ~enabled
    /\ enabled' = TRUE
    /\ UNCHANGED <<count, cached, errs, token, at, obj, leader, history>>

ResourcesStep(a) ==
    \/ NewResource(a) \/ EndGet(a) \/ CacheObject(a) \/ Take(a)
    \/ SetResourceError(a) \/ RemoveFromCacheById(a)
    \/ CallCheckResourceError(a) \/ SetResourceSuccessful(a)

ResourcesNext ==
    \/ \E a \in Attempts : GetAttemptResource(a) \/ TakeCancelled(a) \/ ResourcesStep(a)
    \/ Second \/ Enable

ResourcesSpec == ResourcesInit /\ [][ResourcesNext]_rvars

ResourcesTypeOK ==
    /\ count \in 0..MaxErrors /\ enabled \in BOOLEAN
    /\ cached \in Objs \cup {NoObj} /\ errs \in [Objs -> 0..MaxErrors]
    /\ token \subseteq Objs
    /\ at \in [Attempts -> Stages] /\ obj \in [Attempts -> Objs \cup {NoObj}]
    /\ leader \in Attempts \cup {NoObj}
    /\ botched \subseteq Objs /\ old \subseteq Objs /\ clear \subseteq Attempts
    /\ unreset \in BOOLEAN

\* SetResourceError, SetResourceSuccessful: the errors that stop a resource are
\* successive.  A call that succeeds resets the count, if the attempt got its
\* object after the last error had been dealt with, no older read of the resource
\* was under way then, and none had been cached since.
SuccessResets == ~unreset
================================================================================
