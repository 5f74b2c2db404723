------------------------------- MODULE Expiry ------------------------------
(***************************************************************************)
(* Members whose time is over: queue/expired.go on utils/watcher.go and    *)
(* utils/pool.go.  The watcher's goroutine stops a limited number of       *)
(* members with one statement and hands those that have a hook to a pool   *)
(* of workers over a buffered channel.  SetExpired is one atomic statement *)
(* and the only node's; a poll in which it fails or finds nobody is no     *)
(* step.                                                                   *)
(***************************************************************************)
EXTENDS Naturals, Sequences, FiniteSets

CONSTANTS
    Members,
    Hooked,         \* members of queues with a "leaving" hook
    ExpiredLimit,   \* members stopped by one statement
    ExpiredWorkers, \* goroutines of the pool
    ExpiredQueue    \* buffer of the pool

ASSUME ExpiryAssumption ==
    /\ IsFiniteSet(Members) /\ Hooked \subseteq Members
    /\ {ExpiredLimit, ExpiredWorkers, ExpiredQueue} \subseteq Nat \ {0}

VARIABLES
    member,   \* "open", "late" (expire_at has passed), "stopped"
    poll,     \* the watcher's goroutine: "off", "idle", "job", "exec", "ended"
    batch,    \* hooks job() has still to hand over
    count,    \* len(hooks) of the last statement
    poolJobs, \* Pool.jobs
    workers,  \* what the busy workers execute
    hooks,    \* how often a member's hook was started
    halt      \* Watcher.Stop was called

expiryVars == <<member, poll, batch, count, poolJobs, workers, hooks, halt>>

ExpiryInit ==
    /\ member = [m \in Members |-> "open"] /\ poll = "off" /\ batch = {} /\ count = 0
    /\ poolJobs = <<>> /\ workers = {} /\ hooks = [m \in Members |-> 0] /\ halt = FALSE

\* A member's time is over.
Late(m) ==
    /\ member[m] = "open" /\ member' = [member EXCEPT ![m] = "late"]
    /\ UNCHANGED <<poll, batch, count, poolJobs, workers, hooks, halt>>

\* ExpiredManager.Start.
WatcherStart ==
    /\ poll = "off" /\ poll' = "idle"
    /\ UNCHANGED <<member, batch, count, poolJobs, workers, hooks, halt>>

\* The timer of the watcher's loop.
Poll ==
    /\ poll = "idle" /\ poll' = "job" /\ \E m \in Members : member[m] = "late"
    /\ UNCHANGED <<member, batch, count, poolJobs, workers, hooks, halt>>

\* The statement stops late members, the oldest first, and returns the hooked ones.
\* The form that selects late members whether or not they are stopped already:
MutSetExpired(chosen) ==
    /\ chosen \subseteq {m \in Members : member[m] # "open"}
    /\ Cardinality(chosen) =< ExpiredLimit
    /\ member' = [m \in Members |-> IF m \in chosen THEN "stopped" ELSE member[m]]

SetExpired(chosen) ==
    LET late == {m \in Members : member[m] = "late"}
    IN /\ chosen \subseteq late
       /\ Cardinality(chosen) = IF Cardinality(late) < ExpiredLimit THEN Cardinality(late)
                                ELSE ExpiredLimit
       /\ member' = [m \in Members |-> IF m \in chosen THEN "stopped" ELSE member[m]]

\* job(): the statement.
Job ==
    /\ poll = "job" /\ poll' = "exec"
    /\ \E chosen \in SUBSET Members :
          /\ SetExpired(chosen)
          /\ batch' = chosen \cap Hooked /\ count' = Cardinality(chosen \cap Hooked)
    /\ UNCHANGED <<poolJobs, workers, hooks, halt>>

\* Pool.Exec blocks while the channel is full.  The form that gives up instead:
MutExec ==
    /\ poll = "exec"
    /\ \E m \in batch :
          /\ batch' = batch \ {m}
          /\ poolJobs' = IF Len(poolJobs) < ExpiredQueue THEN Append(poolJobs, m) ELSE poolJobs
    /\ UNCHANGED <<member, poll, count, workers, hooks, halt>>

Exec ==
    /\ poll = "exec" /\ Len(poolJobs) < ExpiredQueue
    /\ \E m \in batch : batch' = batch \ {m} /\ poolJobs' = Append(poolJobs, m)
    /\ UNCHANGED <<member, poll, count, workers, hooks, halt>>

\* A statement that returned as many hooks as it may is repeated at once.  The form
\* that always repeats it:
MutJobReturns ==
    /\ poll = "exec" /\ batch = {} /\ poll' = "job"
    /\ UNCHANGED <<member, batch, count, poolJobs, workers, hooks, halt>>

JobReturns ==
    /\ poll = "exec" /\ batch = {}
    /\ poll' = IF count >= ExpiredLimit THEN "job" ELSE "idle"
    /\ UNCHANGED <<member, batch, count, poolJobs, workers, hooks, halt>>

\* Pool.worker receives, and Execute starts the flow, successfully or not.
Worker ==
    /\ poolJobs # <<>> /\ Cardinality(workers) < ExpiredWorkers
    /\ workers' = workers \cup {Head(poolJobs)} /\ poolJobs' = Tail(poolJobs)
    /\ UNCHANGED <<member, poll, batch, count, hooks, halt>>

Execute(m) ==
    /\ m \in workers /\ workers' = workers \ {m} /\ hooks' = [hooks EXCEPT ![m] = @ + 1]
    /\ UNCHANGED <<member, poll, batch, count, poolJobs, halt>>

\* Watcher.Stop closes the channel and waits for the goroutine.
WatcherStop ==
    /\ ~halt /\ poll # "off" /\ halt' = TRUE
    /\ UNCHANGED <<member, poll, batch, count, poolJobs, workers, hooks>>

WatcherEnds ==
    /\ halt /\ poll = "idle" /\ poll' = "ended"
    /\ UNCHANGED <<member, batch, count, poolJobs, workers, hooks, halt>>

WatcherGoes == Poll \/ Job \/ Exec \/ JobReturns
PoolGoes == Worker \/ \E m \in Members : Execute(m)

ExpiryNext ==
    \/ WatcherStart \/ WatcherGoes \/ PoolGoes \/ WatcherStop \/ WatcherEnds
    \/ \E m \in Members : Late(m)

ExpirySpec == ExpiryInit /\ [][ExpiryNext]_expiryVars

\* The goroutines run, and the flow service answers.
ExpiryFairness ==
    WF_expiryVars(WatcherGoes) /\ WF_expiryVars(PoolGoes) /\ WF_expiryVars(WatcherEnds)

ExpiryTypeOK ==
    /\ member \in [Members -> {"open", "late", "stopped"}]
    /\ poll \in {"off", "idle", "job", "exec", "ended"} /\ batch \subseteq Members
    /\ count \in 0..ExpiredLimit /\ poolJobs \in Seq(Members) /\ Len(poolJobs) =< ExpiredQueue
    /\ workers \subseteq Members /\ Cardinality(workers) =< ExpiredWorkers
    /\ hooks \in [Members -> Nat] /\ halt \in BOOLEAN

\* The leaving hook of an expired member is started once, and only after its
\* member was stopped.
ExpiredOnce == \A m \in Members : hooks[m] =< IF m \in Hooked /\ member[m] = "stopped" THEN 1 ELSE 0

\* Every late member is stopped and its hook started, also when there are more of
\* them than the limit, the buffer and the workers together; or the node stops.
ExpiredIsTold ==
    \A m \in Members :
        (member[m] = "late" /\ poll # "off") ~>
            \/ member[m] = "stopped" /\ (m \in Hooked => hooks[m] > 0)
            \/ poll = "ended" /\ member[m] = "late"

\* The watcher's Stop returns although job() may be blocked on the pool.
ExpiryStops == halt ~> poll = "ended"
============================================================================
