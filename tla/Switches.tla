------------------------------ MODULE Switches -------------------------------
(***************************************************************************)
(* The connections to the switches (FreeSWITCH): the pool of the call      *)
(* manager, call_manager/call_manager.go, and the gRPC client of one       *)
(* switch, external_commands/grpc/call_connection.go.                      *)
(*                                                                         *)
(* Start registers every switch that service discovery lists.  Then a      *)
(* watcher wakes up: it lists the switches, registers the ones that are    *)
(* not in the pool, one remote call after the other, and drops from the    *)
(* pool what was not in that list.  New calls take the next connection of  *)
(* the pool.                                                               *)
(*                                                                         *)
(* Service discovery, the pool's own module and the switches are external: *)
(* a switch that does not answer fails every call to it.                   *)
(***************************************************************************)
EXTENDS Naturals, Sequences, FiniteSets, SequencesExt

CONSTANTS
    Switches,    \* the switches
    NoSwitch,    \* no value read from a switch yet
    Rates,       \* sessions per second a switch may report
    Errors,      \* error codes of the switch
    MaxChanges   \* bound on what changes around the node

ASSUME SwitchesAssumption ==
    /\ NoSwitch \notin Switches /\ Rates \subseteq Nat /\ Errors \subseteq Nat /\ MaxChanges \in Nat

VARIABLES
    listed,     \* the switches service discovery lists
    answers,    \* the switches that answer
    pool,       \* poolConnections: the switches, in order
    marker,     \* the round-robin position of the pool
    limit,      \* the rate limiter of each pooled connection; 0: none
    uris,       \* cm.cdr, cm.flowSocketUri, cm.proxy: the switch they were read from
    wake,       \* where Start or the watcher is
    halt,       \* CallManager.Stop: starting, no, watcher, close, done
    origin,     \* the last originate: the switch, cause and code of the leg it ended
    changes     \* changes so far

poolVars == <<listed, answers, pool, marker, limit, uris, wake, halt, origin, changes>>

(* registerConnection, one remote call after the other. *)
RegisterConnection == <<"dial", "version", "sps", "cdr", "proxy", "flow", "append">>
Idle == [at |-> "idle", todo |-> {}, ids |-> {}, switch |-> NoSwitch, step |-> 0]
NoCall == [switch |-> NoSwitch, failed |-> FALSE, cause |-> "", code |-> 0]

SwitchesTypeOK ==
    /\ listed \subseteq Switches /\ answers \subseteq Switches
    /\ \A i \in DOMAIN pool : pool[i] \in Switches
    /\ marker \in 0..Cardinality(Switches)
    /\ limit \in [Switches -> 0..(2^16 - 1)]
    /\ uris \in [{"cdr", "flow", "proxy"} -> Switches \cup {NoSwitch}]
    /\ wake.at \in {"start", "idle", "next", "register", "recheck", "over", "panic"}
    /\ wake.step \in 0..Len(RegisterConnection)
    /\ halt \in {"starting", "no", "watcher", "close", "done"}
    /\ changes \in 0..MaxChanges

(* NewCallManager. *)
SwitchesInit ==
    /\ listed \in SUBSET Switches /\ answers \in SUBSET Switches
    /\ pool = <<>> /\ marker = 0
    /\ limit = [s \in Switches |-> 0]
    /\ uris = [u \in {"cdr", "flow", "proxy"} |-> NoSwitch]
    /\ wake = [Idle EXCEPT !.at = "start"]
    /\ halt = "starting" /\ origin = NoCall /\ changes = 0

-----------------------------------------------------------------------------
(* Start, and wakeUp. *)

Wakes(w) == wake' = w
(* GetByName.  A poll that would change nothing is not a step.  A poll that *)
(* races with the stop is one that began just before it.                   *)
GetByName ==
    /\ wake.at = "start" \/ (wake.at = "idle" /\ halt = "no" /\ listed # ToSet(pool))
    /\ Wakes([Idle EXCEPT !.at = "next", !.todo = listed, !.ids = listed])
    /\ UNCHANGED <<listed, answers, pool, marker, limit, uris, halt, origin, changes>>

MutMissing(s) == TRUE
Missing(s) == s \notin ToSet(pool)

(* The loop over the list. *)
NextSwitch ==
    /\ wake.at = "next"
    /\ \/ \E s \in wake.todo :
            Wakes(IF Missing(s) THEN [wake EXCEPT !.at = "register", !.switch = s, !.step = 1, !.todo = @ \ {s}]
                                ELSE [wake EXCEPT !.todo = @ \ {s}])
       \/ wake.todo = {} /\ Wakes([wake EXCEPT !.at = "recheck"])
    /\ UNCHANGED <<listed, answers, pool, marker, limit, uris, halt, origin, changes>>

(* The queries of a switch: NewCallConnection, GetServerVersion,           *)
(* GetRemoteSps, GetCdrUri, GetParameter, GetSocketUri.  The flow address  *)
(* is asked for only while none is known.                                  *)
Queries(s) == s \in answers
MutNeedless(k) == k = "flow"
Needless(k) == k = "append" \/ (k = "flow" /\ uris.flow # NoSwitch)

(* A call of registerConnection failed: the switch is left out, the loop   *)
(* goes on.  The proxy is assigned before its error is looked at.          *)
RegisterFails ==
    /\ wake.at = "register"
    /\ LET k == RegisterConnection[wake.step]
       IN /\ ~Needless(k) /\ ~Queries(wake.switch)
          /\ uris' = IF k = "proxy" THEN [uris EXCEPT !.proxy = NoSwitch] ELSE uris
    /\ Wakes([wake EXCEPT !.at = "next", !.switch = NoSwitch, !.step = 0])
    /\ UNCHANGED <<listed, answers, pool, marker, limit, halt, origin, changes>>

(* What a switch told is kept: the first cdr and flow address, the last    *)
(* proxy.                                                                  *)
Learn(k) ==
    CASE k = "cdr" /\ uris.cdr = NoSwitch -> [uris EXCEPT !.cdr = wake.switch]
      [] k = "flow" /\ ~Needless(k) -> [uris EXCEPT !.flow = wake.switch]
      [] k = "proxy" -> [uris EXCEPT !.proxy = wake.switch]
      [] OTHER -> uris

RegisterStep ==
    /\ wake.at = "register"
    /\ LET k == RegisterConnection[wake.step]
       IN /\ k \notin {"cdr", "append"} /\ (Needless(k) \/ Queries(wake.switch))
          /\ uris' = Learn(k)
    /\ Wakes([wake EXCEPT !.step = @ + 1])
    /\ UNCHANGED <<listed, answers, pool, marker, limit, halt, origin, changes>>

(* SetConnectionSps, once the cdr address is known, with the rate that was *)
(* read before: it is cut to 16 bits, and the limiter divides by it.       *)
SetConnectionSps(sps) ==
    /\ wake.at = "register" /\ RegisterConnection[wake.step] = "cdr" /\ Queries(wake.switch)
    /\ uris' = Learn("cdr")
    /\ IF sps > 0 /\ sps % 2^16 = 0
         THEN Wakes([wake EXCEPT !.at = "panic"]) /\ UNCHANGED limit
         ELSE Wakes([wake EXCEPT !.step = @ + 1]) /\ limit' = [limit EXCEPT ![wake.switch] = sps % 2^16]
    /\ UNCHANGED <<listed, answers, pool, marker, halt, origin, changes>>

AppendConnection ==
    /\ wake.at = "register" /\ RegisterConnection[wake.step] = "append"
    /\ pool' = Append(pool, wake.switch)
    /\ Wakes([wake EXCEPT !.at = "next", !.switch = NoSwitch, !.step = 0])
    /\ UNCHANGED <<listed, answers, marker, limit, uris, halt, origin, changes>>

(* RecheckConnections with the list the round began with.  Start does not  *)
(* call it: nothing is in the pool then but what was in its list.          *)
MutRecheck(p, ids) == p
Recheck(p, ids) == SelectSeq(p, LAMBDA s : s \in ids)
RecheckConnections ==
    /\ wake.at = "recheck"
    /\ pool' = Recheck(pool, wake.ids)
    /\ Wakes(Idle)
    /\ halt' = IF halt = "starting" THEN "no" ELSE halt
    /\ UNCHANGED <<listed, answers, marker, limit, uris, origin, changes>>

-----------------------------------------------------------------------------
(* Stop: the watcher first, which waits for the round it is in, then the   *)
(* connections.                                                            *)

Stop ==
    /\ halt = "no" /\ wake.at # "panic"
    /\ halt' = "watcher"
    /\ UNCHANGED <<listed, answers, pool, marker, limit, uris, wake, origin, changes>>

MutWatcherStopped == wake.at # "over"
WatcherStopped == wake.at = "idle"
StopWatcherReturns ==
    /\ halt = "watcher" /\ WatcherStopped
    /\ halt' = "close"
    /\ Wakes(IF wake.at = "idle" THEN [Idle EXCEPT !.at = "over"] ELSE wake)
    /\ UNCHANGED <<listed, answers, pool, marker, limit, uris, origin, changes>>

CloseAllConnections ==
    /\ halt = "close"
    /\ pool' = <<>> /\ halt' = "done"
    /\ UNCHANGED <<listed, answers, marker, limit, uris, wake, origin, changes>>

-----------------------------------------------------------------------------
(* NewCall takes the next connection, NewCallContext originates the leg.   *)

(* switchErrToSipCode: what the table does not know is 500. *)
KnownCodes == {0, 1, 2, 3, 6, 7, 16, 17, 18, 19, 20, 21, 22, 23, 25, 27, 28, 29, 30, 31, 34, 38, 41, 42, 43,
               44, 45, 47, 50, 52, 54, 57, 58, 63, 65, 66, 69, 79, 81, 88, 95, 96, 97, 98, 99, 100, 101, 102,
               103, 111, 127, 487, 500, 501, 502, 503, 600, 601, 602, 603, 604, 605, 606, 607, 609}
SipCode(e) ==
    CASE e \in {0} -> 500 [] e \in {1, 2, 3} -> 404 [] e \in {6, 7} -> 405 [] e = 16 -> 200 [] e = 17 -> 486
      [] e = 18 -> 408 [] e \in {19, 20, 31} -> 480 [] e = 21 -> 603 [] e \in {22, 23} -> 410 [] e = 25 -> 483
      [] e \in {27, 38} -> 502 [] e = 28 -> 484 [] e \in {29, 30, 69, 79, 81} -> 501
      [] e \in {34, 41, 42, 43, 44, 45, 47, 50, 58, 63} -> 503 [] e \in {52, 54, 57} -> 403
      [] e \in {65, 66} \cup (88..101) -> 488 [] e \in {102, 103, 111, 127} -> 504
      [] OTHER -> 487
MutSwitchErrToSipCode(e) == IF e \in KnownCodes THEN SipCode(e) ELSE 0
SwitchErrToSipCode(e) == IF e \in KnownCodes THEN SipCode(e) ELSE 500

(* NewCallContext: a transport error has no cause, an error of the switch  *)
(* has its text.                                                           *)
TransportError == [cause |-> "", code |-> 500]
SwitchError(e) == [cause |-> "message", code |-> SwitchErrToSipCode(e)]

GetApiConnection == (marker % Len(pool)) + 1

NewCallContext(result) ==
    /\ pool # <<>> /\ origin.switch = NoSwitch
    /\ marker' = GetApiConnection
    /\ origin' = [switch |-> pool[GetApiConnection], failed |-> TRUE, cause |-> result.cause, code |-> result.code]
    /\ UNCHANGED <<listed, answers, pool, limit, uris, wake, halt, changes>>

Originated ==
    /\ pool # <<>> /\ origin.switch = NoSwitch
    /\ marker' = GetApiConnection
    /\ origin' = [NoCall EXCEPT !.switch = pool[GetApiConnection]]
    /\ UNCHANGED <<listed, answers, pool, limit, uris, wake, halt, changes>>

-----------------------------------------------------------------------------
(* Service discovery and the network. *)

Listing(s) ==
    /\ changes < MaxChanges /\ changes' = changes + 1
    /\ listed' = IF s \in listed THEN listed \ {s} ELSE listed \cup {s}
    /\ UNCHANGED <<answers, pool, marker, limit, uris, wake, halt, origin>>

Answering(s) ==
    /\ changes < MaxChanges /\ changes' = changes + 1
    /\ answers' = IF s \in answers THEN answers \ {s} ELSE answers \cup {s}
    /\ UNCHANGED <<listed, pool, marker, limit, uris, wake, halt, origin>>

-----------------------------------------------------------------------------
WakeUp ==
    \/ GetByName \/ NextSwitch \/ RegisterFails \/ RegisterStep \/ AppendConnection \/ RecheckConnections
    \/ \E sps \in Rates : SetConnectionSps(sps)

SwitchesNext ==
    \/ WakeUp
    \/ Stop \/ StopWatcherReturns \/ CloseAllConnections
    \/ NewCallContext(TransportError) \/ Originated
    \/ \E e \in Errors : NewCallContext(SwitchError(e))
    \/ \E s \in Switches : Listing(s) \/ Answering(s)

(* The watcher polls, a remote call returns, Stop goes on. *)
SwitchesFairness == WF_poolVars(WakeUp) /\ WF_poolVars(StopWatcherReturns \/ CloseAllConnections)

-----------------------------------------------------------------------------
(* No switch is in the pool twice: neither Start nor a later round adds a  *)
(* switch that is there, so the round robin of new calls favours none and  *)
(* the rate of a switch is limited by one limiter.                         *)
NoTwins == \A i, j \in DOMAIN pool : pool[i] = pool[j] => i = j

(* Once Stop closed the connections, none is added: it waits for the round *)
(* of the watcher that may be registering one.                             *)
StoppedIsClosed == halt = "done" => pool = <<>>

(* When there is a connection to call through, the addresses that every    *)
(* call needs are known.                                                   *)
UrisKnown == pool # <<>> => uris.cdr # NoSwitch /\ uris.flow # NoSwitch

(* A leg whose originate failed shows it: Err(), which the queues look at, *)
(* takes 0 and 200 for no error, and 200 is the switch's normal clearing.  *)
FailureIsSeen == origin.failed => origin.code # 0 /\ (origin.code = 200 => origin.cause # "")

(* A switch that stays listed and answers gets into the pool, and one that *)
(* stays unlisted gets out, whatever the other switches do.                *)
PoolFollowsList ==
    \A s \in Switches :
        /\ <>[](s \in listed /\ s \in answers) => <>(s \in ToSet(pool) \/ halt = "watcher" \/ wake.at = "panic")
        /\ <>[](s \notin listed) => <>[](s \notin ToSet(pool) \/ wake.at = "panic")
=============================================================================
