-------------------------------- MODULE Settings --------------------------------
(***************************************************************************)
(* How a node gets the settings of a queue, a team, an outbound resource,  *)
(* an agent, or of a domain: from a cache, or from the database through a  *)
(* singleflight group.  The users of one object run side by side.  An      *)
(* attempt's row names the version of the object (updated_at) it was       *)
(* distributed with, and that is what its goroutine asks for.              *)
(*                                                                         *)
(*   kind      which object this behaviour is about; the five loaders      *)
(*             differ in what they share, check and keep                   *)
(*   latest    the version of the object in the database                   *)
(*   replica   the version each replica has; behind it only if replicas    *)
(*             are configured (lagging)                                    *)
(*   held      the object in the cache                                     *)
(*   flight    the caller that runs the shared request of each key         *)
(*                                                                         *)
(* An object has the version of the row it was made from (ver) and the     *)
(* oldest version among the rows its contents come from (body).  A version *)
(* stands for all the columns of its row.                                  *)
(***************************************************************************)
EXTENDS Integers, FiniteSets

CONSTANTS
    Callers,    \* goroutines that need the object
    NoCaller,   \* no such caller
    Replicas,   \* database replicas
    MaxEdits,   \* bound: how often the object is edited
    Kinds       \* the kinds of object, a subset of AllKinds

AllKinds == {"queue", "resource", "team", "agent", "record_all"}

ASSUME SettingsAssumption ==
    /\ NoCaller \notin Callers /\ IsFiniteSet(Callers)
    /\ Kinds \subseteq AllKinds /\ MaxEdits \in Nat

Versions == 0..MaxEdits
AnyVersion == -1                          \* updatedAt = 0: the caller takes any version
Objects  == [ver : Versions, body : Versions]
Nothing  == [ver |-> -1, body |-> -1]   \* not in the cache, or an error

VARIABLES
    kind, lagging, latest, replica,
    stamp,    \* updated_at of each version, as the store computes it
    news,     \* a message about a changed setting is under way
    held, flight,
    pc,       \* position of each caller
    want,     \* version each caller asks for
    got,      \* object each caller has received
    of,       \* the caller whose request each caller waits for
    shared    \* singleflight's answer: the result went to several callers

dbvars  == <<kind, lagging, latest, replica, stamp, news>>
callers == <<pc, want, got, of, shared>>
svars   == <<dbvars, held, flight, callers>>

Positions == {"idle", "ask", "miss", "load", "gateway", "end", "wait", "answer", "login", "done"}

SettingsInit ==
    /\ kind \in Kinds /\ lagging \in BOOLEAN
    /\ latest = 0 /\ replica = [r \in Replicas |-> 0]
    /\ stamp = [v \in Versions |-> 1]
    /\ news = FALSE
    /\ held = Nothing
    /\ flight = [v \in Versions \cup {AnyVersion} |-> NoCaller]
    /\ pc = [c \in Callers |-> "idle"]
    /\ want = [c \in Callers |-> 0]
    /\ got = [c \in Callers |-> Nothing]
    /\ of = [c \in Callers |-> NoCaller]
    /\ shared = [c \in Callers |-> FALSE]

-----------------------------------------------------------------------------
\* The database.

\* The object is edited.  For an agent updated_at is the time of the agent in
\* milliseconds less the time of its user in seconds, so an edit of the user
\* makes it a little smaller.  A changed setting is announced.
Edit ==
    /\ latest < MaxEdits
    /\ latest' = latest + 1
    /\ replica' = IF lagging THEN replica ELSE [r \in Replicas |-> latest + 1]
    /\ \E by \in IF kind = "agent" THEN {MaxEdits + 1, -1} ELSE {1} :
          stamp' = [stamp EXCEPT ![latest + 1] = stamp[latest] + by]
    /\ news' = (kind = "record_all")
    /\ UNCHANGED <<kind, lagging, held, flight, callers>>

Replicate(r) ==
    /\ replica[r] < latest
    /\ replica' = [replica EXCEPT ![r] = @ + 1]
    /\ UNCHANGED <<kind, lagging, latest, stamp, news, held, flight, callers>>

\* The reads of one row: they go to any replica.
Read(res)         == \E r \in Replicas : res = [ver |-> replica[r], body |-> replica[r]]
QueueGetById(res) == kind = "queue" /\ Read(res)
TeamGet(res)      == kind = "team" /\ Read(res)
AgentGet(res)     == kind = "agent" /\ Read(res)
RecordAllCallsOf(res) == kind = "record_all" /\ Read(res)
ResourceGetById(res)  == kind = "resource" /\ Read(res)

\* The gateway of a resource is a row of its own, read after the resource and
\* perhaps from another replica; updated_at covers both.
GatewayGet(res, old) ==
    \E r \in Replicas :
        res = [old EXCEPT !.body = IF replica[r] < @ THEN replica[r] ELSE @]

-----------------------------------------------------------------------------
\* Whether the cached object will do for a caller that wants version w.

QueueIsExpire(o, w)    == stamp[o.ver] # stamp[w]
ResourceIsExpire(o, w) == stamp[o.ver] # stamp[w]
AgentIsExpire(o, w)    == w = AnyVersion \/ stamp[o.ver] # stamp[w]

Hit(w) ==
    /\ held # Nothing
    /\ \/ kind = "queue" /\ ~QueueIsExpire(held, w)
       \/ kind = "resource" /\ ~ResourceIsExpire(held, w)
       \/ kind = "agent" /\ ~AgentIsExpire(held, w)
       \/ kind = "team" /\ (w = AnyVersion \/ stamp[held.ver] = stamp[w])
       \/ kind = "record_all"

\* Mutant: a cached setting stays until the message about its change.
MutExpire ==
    /\ kind \notin {"queue", "record_all"} /\ held # Nothing
    /\ held' = Nothing
    /\ UNCHANGED <<dbvars, flight, callers>>

\* The caches of teams, resources, agents and settings forget an entry after a
\* while, that of queues does not.
Expire ==
    /\ kind # "queue" /\ held # Nothing
    /\ held' = Nothing
    /\ UNCHANGED <<dbvars, flight, callers>>

-----------------------------------------------------------------------------
\* A caller asks, for the version its attempt was distributed with.  Only teams
\* and agents are asked for in any version, and a setting has none.
Ask(c) ==
    /\ pc[c] \in {"idle", "done"}
    /\ \E w \in IF kind = "record_all" THEN {latest}
                ELSE 0..latest \cup (IF kind \in {"team", "agent"} THEN {AnyVersion} ELSE {}) :
          want' = [want EXCEPT ![c] = w]
    /\ pc' = [pc EXCEPT ![c] = "ask"]
    /\ got' = [got EXCEPT ![c] = Nothing]
    /\ shared' = [shared EXCEPT ![c] = FALSE]
    /\ UNCHANGED <<dbvars, held, flight, of>>

\* teamManager holds its lock from the lookup to the end of GetTeam.
TeamLock(c) == kind = "team" => \A d \in Callers \ {c} : pc[d] \in {"idle", "ask", "done"}

Lookup(c) ==
    /\ pc[c] = "ask" /\ TeamLock(c)
    /\ IF Hit(want[c])
       THEN got' = [got EXCEPT ![c] = held] /\ pc' = [pc EXCEPT ![c] = "done"]
       ELSE pc' = [pc EXCEPT ![c] = "miss"] /\ UNCHANGED got
    /\ UNCHANGED <<dbvars, held, flight, want, of, shared>>

\* Mutant: one request for all versions of an object.
MutFlightKey(w) == 0

\* The keys of the singleflight groups: queues, resources and teams share a
\* request for the same version, agents and settings for the same object.
FlightKey(w) == IF kind \in {"agent", "record_all"} THEN 0 ELSE w

\* singleflight.Group.Do: run the request, or wait for the one that is running.
Do(c) ==
    LET k == FlightKey(want[c])
    IN  /\ pc[c] = "miss"
        /\ \/ /\ flight[k] = NoCaller
              /\ flight' = [flight EXCEPT ![k] = c]
              /\ pc' = [pc EXCEPT ![c] = "load"]
              /\ UNCHANGED of
           \/ /\ flight[k] # NoCaller
              /\ of' = [of EXCEPT ![c] = flight[k]]
              /\ pc' = [pc EXCEPT ![c] = "wait"]
              /\ UNCHANGED flight
        /\ UNCHANGED <<dbvars, held, want, got, shared>>

\* The functions run by the group.
Loaded(c, res, next) ==
    /\ pc[c] = "load"
    /\ got' = [got EXCEPT ![c] = res]
    /\ pc' = [pc EXCEPT ![c] = next]
    /\ UNCHANGED <<dbvars, flight, want, of, shared>>

LoadQueue(c)  == \E res \in Objects : QueueGetById(res) /\ Loaded(c, res, "end") /\ UNCHANGED held
LoadTeam(c)   == \E res \in Objects : TeamGet(res) /\ Loaded(c, res, "end") /\ UNCHANGED held
LoadRecord(c) == \E res \in Objects : RecordAllCallsOf(res) /\ Loaded(c, res, "end") /\ UNCHANGED held

\* The agent's request looks into the cache once more, and fills it itself.
LoadAgent(c) ==
    /\ kind = "agent"
    /\ \/ Hit(want[c]) /\ Loaded(c, held, "end") /\ UNCHANGED held
       \/ /\ ~Hit(want[c])
          /\ \E res \in Objects : AgentGet(res) /\ Loaded(c, res, "end") /\ held' = res

LoadResource(c) ==
    \E res \in Objects : ResourceGetById(res) /\ Loaded(c, res, "gateway") /\ UNCHANGED held

LoadGateway(c) ==
    /\ pc[c] = "gateway"
    /\ \E res \in Objects : GatewayGet(res, got[c]) /\ got' = [got EXCEPT ![c] = res]
    /\ pc' = [pc EXCEPT ![c] = "end"]
    /\ UNCHANGED <<dbvars, held, flight, want, of, shared>>

\* A read fails: those who share the request get the error.
LoadFails(c) ==
    /\ pc[c] \in {"load", "gateway"}
    /\ got' = [got EXCEPT ![c] = Nothing]
    /\ pc' = [pc EXCEPT ![c] = "end"]
    /\ UNCHANGED <<dbvars, held, flight, want, of, shared>>

\* The request is over and everybody has its result.
EndFlight(c) ==
    LET waiting == {d \in Callers : pc[d] = "wait" /\ of[d] = c}
        served  == waiting \cup {c}
    IN  /\ pc[c] = "end"
        /\ flight' = [k \in DOMAIN flight |-> IF flight[k] = c THEN NoCaller ELSE flight[k]]
        /\ got' = [d \in Callers |-> IF d \in waiting THEN got[c] ELSE got[d]]
        /\ pc' = [d \in Callers |->
                     IF d \notin served THEN pc[d]
                     ELSE IF got[c] = Nothing THEN "done" ELSE "answer"]
        /\ of' = [d \in Callers |-> IF d \in served THEN NoCaller ELSE of[d]]
        /\ shared' = [d \in Callers |-> IF d \in served THEN waiting # {} ELSE shared[d]]
        /\ UNCHANGED <<dbvars, held, want>>

\* What a caller does with the result of the request.
Answer(c) ==
    /\ pc[c] = "answer"
    /\ pc' = [pc EXCEPT ![c] = "done"]
    /\ UNCHANGED <<dbvars, flight, want, got, of, shared>>

GetQueue(c)       == kind = "queue" /\ Answer(c) /\ held' = got[c]
RecordAllCalls(c) == kind = "record_all" /\ Answer(c) /\ held' = got[c]
GetResource(c)    == kind = "resource" /\ Answer(c) /\ held' = IF shared[c] THEN held ELSE got[c]
GetTeam(c)        == kind = "team" /\ Answer(c) /\ held' = IF shared[c] THEN held ELSE got[c]
GetAgent(c)       == kind = "agent" /\ Answer(c) /\ UNCHANGED held

\* An agent logs in: the statement runs on the master and returns the agent.
OnlineAnswer(c) ==
    /\ kind = "agent" /\ pc[c] \in {"idle", "done"}
    /\ want' = [want EXCEPT ![c] = latest]
    /\ got' = [got EXCEPT ![c] = [ver |-> latest, body |-> latest]]
    /\ pc' = [pc EXCEPT ![c] = "login"]
    /\ UNCHANGED <<dbvars, held, flight, of, shared>>

\* The cached agent is kept if its updated_at is not smaller.
PutAgentCache(c) ==
    /\ pc[c] = "login"
    /\ LET keep == held # Nothing /\ stamp[held.ver] >= stamp[got[c].ver]
       IN  IF keep THEN got' = [got EXCEPT ![c] = held] /\ UNCHANGED held
           ELSE held' = got[c] /\ UNCHANGED got
    /\ pc' = [pc EXCEPT ![c] = "done"]
    /\ UNCHANGED <<dbvars, flight, want, of, shared>>

\* The message about a changed setting removes it and forgets the request that
\* is running; the message may be lost.
listenSystemSettingEvents ==
    /\ news
    /\ news' = FALSE
    /\ held' = Nothing
    /\ flight' = [flight EXCEPT ![FlightKey(0)] = NoCaller]
    /\ UNCHANGED <<kind, lagging, latest, replica, stamp, callers>>

LoseNews ==
    /\ news
    /\ news' = FALSE
    /\ UNCHANGED <<kind, lagging, latest, replica, stamp, held, flight, callers>>

-----------------------------------------------------------------------------
LoaderStep(c) ==
    \/ Lookup(c) \/ Do(c)
    \/ LoadQueue(c) \/ LoadTeam(c) \/ LoadRecord(c) \/ LoadAgent(c)
    \/ LoadResource(c) \/ LoadGateway(c) \/ LoadFails(c) \/ EndFlight(c)
    \/ GetQueue(c) \/ GetTeam(c) \/ GetResource(c) \/ GetAgent(c) \/ RecordAllCalls(c)
    \/ PutAgentCache(c)

SettingsNext ==
    \/ Edit \/ Expire \/ listenSystemSettingEvents \/ LoseNews
    \/ \E r \in Replicas : Replicate(r)
    \/ \E c \in Callers : Ask(c) \/ OnlineAnswer(c) \/ LoaderStep(c)

\* Goroutines run, replicas catch up, entries with a lifetime expire.
SettingsFairness ==
    /\ \A c \in Callers : WF_svars(LoaderStep(c))
    /\ \A r \in Replicas : WF_svars(Replicate(r))
    /\ WF_svars(Expire)

SettingsSpec == SettingsInit /\ [][SettingsNext]_svars /\ SettingsFairness

SettingsTypeOK ==
    /\ kind \in Kinds /\ lagging \in BOOLEAN /\ news \in BOOLEAN
    /\ latest \in Versions /\ replica \in [Replicas -> 0..latest]
    /\ stamp \in [Versions -> Int]
    /\ held \in Objects \cup {Nothing}
    /\ flight \in [Versions \cup {AnyVersion} -> Callers \cup {NoCaller}]
    /\ pc \in [Callers -> Positions]
    /\ want \in [Callers -> Versions \cup {AnyVersion}]
    /\ got \in [Callers -> Objects \cup {Nothing}]
    /\ of \in [Callers -> Callers \cup {NoCaller}]
    /\ shared \in [Callers -> BOOLEAN]

\* GetQueue, ResourceManager.Get, GetTeam: without replicas, whoever gets an
\* object gets it at least as new as the version asked for, in all its parts,
\* whichever requests were shared and in whichever order results were cached.
\* (The shared request of an agent may have been started for an older version.)
NotOlderThanAsked ==
    ~lagging /\ kind \in {"queue", "resource", "team"} =>
        \A c \in Callers :
            pc[c] = "done" /\ got[c] # Nothing => got[c].body >= want[c]

\* All loaders: edits are seen.  Whatever stale objects requests, replicas,
\* lost messages and logins have left in a cache, from some point on every
\* answer is as new as the version asked for.
EditsAreSeen ==
    <>[][\A c \in Callers :
            pc[c] # "done" /\ pc'[c] = "done" /\ got'[c] # Nothing
            => got'[c].body >= want'[c]]_svars
================================================================================
