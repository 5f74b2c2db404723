----------------------------- MODULE Triggers ------------------------------
(***************************************************************************)
(* Scheduled triggers: trigger/manager.go and store/sqlstore/              *)
(* trigger_store.go.  Every node has a watcher that creates the jobs that  *)
(* are due, takes the idle ones and pushes them into a channel, and a      *)
(* listener that starts a goroutine for each.  Nodes stop, crash and       *)
(* start again; the jobs are rows of cc_trigger_job.  A poll whose first   *)
(* statement fails, or finds nothing to do, changes nothing and is no step.*)
(***************************************************************************)
EXTENDS Naturals, Sequences, FiniteSets

CONSTANTS
    Managers,     \* one trigger manager on each node
    Jobs,         \* ids of jobs
    JobQueueSize, \* QueueSize, the buffer of the channel
    MaxRestarts   \* bound on the stops and crashes of all nodes

ASSUME TriggersAssumption ==
    /\ IsFiniteSet(Managers) /\ IsFiniteSet(Jobs)
    /\ JobQueueSize \in Nat \ {0} /\ MaxRestarts \in Nat /\ "nobody" \notin Managers

VARIABLES
    due,      \* cc_trigger.schedule_at has passed
    job,      \* [Jobs -> [state, node, stopped]]
    watch,    \* position of the watcher's goroutine
    fetched,  \* jobs schedule() has still to push
    jobs,     \* Manager.jobs
    listens,  \* the goroutine of listen() runs
    runs,     \* jobs whose goroutine runs
    stop,     \* position of Manager.Stop, "down" without process
    starts,   \* how often a job's flow was started
    lost,     \* jobs whose last statement, or CleanActive, failed
    restarts

triggerVars == <<due, job, watch, fetched, jobs, listens, runs, stop, starts, lost, restarts>>

NoNode == "nobody"
NoJob == [state |-> "none", node |-> NoNode, stopped |-> FALSE]

TriggersInit ==
    /\ due = FALSE /\ job = [j \in Jobs |-> NoJob]
    /\ watch = [n \in Managers |-> "off"]
    /\ fetched = [n \in Managers |-> {}] /\ jobs = [n \in Managers |-> <<>>]
    /\ listens = [n \in Managers |-> FALSE] /\ runs = [n \in Managers |-> {}]
    /\ stop = [n \in Managers |-> "down"]
    /\ starts = [j \in Jobs |-> 0] /\ lost = {} /\ restarts = 0

Put(f, n, v) == [f EXCEPT ![n] = v]

\* The cron expression comes round.
Elapse ==
    /\ ~due /\ due' = TRUE
    /\ UNCHANGED <<job, watch, fetched, jobs, listens, runs, stop, starts, lost, restarts>>

----------------------------------------------------------------------------
(* The statements. *)

\* cc_scheduler_jobs: stopped jobs go to the log; a trigger that is due and has no
\* idle job is rescheduled, and gets a job unless it is more than five minutes late.
ScheduleNewJobs ==
    LET moved == [j \in Jobs |-> IF job[j].stopped THEN [job[j] EXCEPT !.state = "logged"] ELSE job[j]]
    IN IF due /\ \A j \in Jobs : job[j].state # "idle"
       THEN /\ due' = FALSE
            /\ \/ job' = moved
               \/ \E new \in Jobs : /\ job[new] = NoJob
                                    /\ job' = [moved EXCEPT ![new].state = "idle"]
       ELSE job' = moved /\ UNCHANGED due

\* Idle jobs become this node's; skip locked keeps two nodes apart.  The form
\* that leaves them idle:
MutFetchIdleJobs(n) == [j \in Jobs |->
    IF job[j].state = "idle" THEN [job[j] EXCEPT !.node = n] ELSE job[j]]

FetchIdleJobs(n) == [j \in Jobs |->
    IF job[j].state = "idle" THEN [job[j] EXCEPT !.state = "active", !.node = n] ELSE job[j]]

SetResult(j) == [job EXCEPT ![j].state = IF @ = "logged" THEN @ ELSE "stop", ![j].stopped = TRUE]
SetJobError(j) == [job EXCEPT ![j].state = IF @ = "logged" THEN @ ELSE "error", ![j].stopped = TRUE]

\* Every job of the node gets the error "stop server", its state remains.  The
\* form that looks for idle jobs:
MutCleanActive(n) == [j \in Jobs |->
    IF job[j].node = n /\ job[j].state = "idle" THEN [job[j] EXCEPT !.stopped = TRUE] ELSE job[j]]

CleanActive(n) == [j \in Jobs |->
    IF job[j].node = n THEN [job[j] EXCEPT !.stopped = TRUE] ELSE job[j]]

----------------------------------------------------------------------------
(* The manager. *)

\* Start: clean(), which goes on after an error, then the two goroutines.
StartTriggers(n) ==
    /\ stop[n] = "down"
    /\ \/ job' = CleanActive(n) /\ UNCHANGED lost
       \/ /\ lost' = lost \cup {j \in Jobs : job[j].node = n /\ ~job[j].stopped}
          /\ UNCHANGED job
    /\ stop' = Put(stop, n, "up") /\ watch' = Put(watch, n, "wait")
    /\ listens' = Put(listens, n, TRUE)
    /\ UNCHANGED <<due, fetched, jobs, runs, starts, restarts>>

\* schedule(): an error of ScheduleNewJobs (another node has the lock) is logged.
Schedule(n) ==
    /\ watch[n] = "wait"
    /\ due \/ \E j \in Jobs : job[j].state = "idle" \/ (job[j].stopped /\ job[j].state # "logged")
    /\ \/ ScheduleNewJobs
       \/ UNCHANGED <<job, due>> /\ \E j \in Jobs : job[j].state = "idle"
    /\ watch' = Put(watch, n, "fetch")
    /\ UNCHANGED <<fetched, jobs, listens, runs, stop, starts, lost, restarts>>

Fetch(n) ==
    /\ watch[n] = "fetch"
    /\ fetched' = Put(fetched, n, {j \in Jobs : job[j].state = "idle"})
    /\ job' = FetchIdleJobs(n)
    /\ watch' = Put(watch, n, "push")
    /\ UNCHANGED <<due, jobs, listens, runs, stop, starts, lost, restarts>>

\* m.jobs <- j blocks while the channel is full.
Push(n) ==
    /\ watch[n] = "push"
    /\ IF fetched[n] = {}
       THEN watch' = Put(watch, n, "wait") /\ UNCHANGED <<fetched, jobs>>
       ELSE \E j \in fetched[n] :
              /\ Len(jobs[n]) < JobQueueSize
              /\ fetched' = Put(fetched, n, fetched[n] \ {j})
              /\ jobs' = Put(jobs, n, Append(jobs[n], j))
              /\ UNCHANGED watch
    /\ UNCHANGED <<due, job, listens, runs, stop, starts, lost, restarts>>

\* listen(): go runJob, whose first act is to start the flow.
Listen(n) ==
    /\ listens[n] /\ jobs[n] # <<>>
    /\ runs' = Put(runs, n, runs[n] \cup {Head(jobs[n])})
    /\ starts' = [starts EXCEPT ![Head(jobs[n])] = @ + 1]
    /\ jobs' = Put(jobs, n, Tail(jobs[n]))
    /\ UNCHANGED <<due, job, watch, fetched, listens, stop, lost, restarts>>

\* The flow ends, with a result or an error; the statement may fail.
RunJob(n, j) ==
    /\ j \in runs[n] /\ runs' = Put(runs, n, runs[n] \ {j})
    /\ \/ job' = SetResult(j) /\ UNCHANGED lost
       \/ job' = SetJobError(j) /\ UNCHANGED lost
       \/ lost' = lost \cup {j} /\ UNCHANGED job
    /\ UNCHANGED <<due, watch, fetched, jobs, listens, stop, starts, restarts>>

----------------------------------------------------------------------------
(* Stop and crash. *)

\* Stop closes the watcher's channel and waits for its goroutine first.
\* The form that cancels the listener first:
MutStopWatcher(n) ==
    /\ stop[n] = "up" /\ restarts < MaxRestarts
    /\ stop' = Put(stop, n, "watcher") /\ restarts' = restarts + 1
    /\ listens' = Put(listens, n, FALSE)
    /\ UNCHANGED <<due, job, watch, fetched, jobs, runs, starts, lost>>

StopWatcher(n) ==
    /\ stop[n] = "up" /\ restarts < MaxRestarts
    /\ stop' = Put(stop, n, "watcher") /\ restarts' = restarts + 1
    /\ UNCHANGED <<due, job, watch, fetched, jobs, listens, runs, starts, lost>>

WatcherStopped(n) ==
    /\ stop[n] = "watcher" /\ watch[n] = "wait"
    /\ watch' = Put(watch, n, "off") /\ stop' = Put(stop, n, "cancel")
    /\ UNCHANGED <<due, job, fetched, jobs, listens, runs, starts, lost, restarts>>

\* cancel() ends the listener; what is in the channel stays there.
ListenerStopped(n) ==
    /\ stop[n] = "cancel" /\ listens' = Put(listens, n, FALSE)
    /\ stop' = Put(stop, n, "stopped")
    /\ UNCHANGED <<due, job, watch, fetched, jobs, runs, starts, lost, restarts>>

\* The process ends, after Stop or in a crash, and with it everything in memory.
Gone(n) ==
    /\ watch' = Put(watch, n, "off") /\ fetched' = Put(fetched, n, {})
    /\ jobs' = Put(jobs, n, <<>>) /\ listens' = Put(listens, n, FALSE)
    /\ runs' = Put(runs, n, {}) /\ stop' = Put(stop, n, "down")
    /\ UNCHANGED <<due, job, starts, lost>>

Exit(n) == stop[n] = "stopped" /\ Gone(n) /\ UNCHANGED restarts

CrashTriggers(n) ==
    /\ stop[n] # "down" /\ restarts < MaxRestarts
    /\ restarts' = restarts + 1 /\ Gone(n)

WatcherStep(n) == Schedule(n) \/ Fetch(n) \/ Push(n)
StopStep(n) == ListenerStopped(n) \/ Exit(n)

TriggersNext ==
    \/ Elapse
    \/ \E n \in Managers : \/ StartTriggers(n) \/ WatcherStep(n) \/ Listen(n)
                        \/ StopWatcher(n) \/ WatcherStopped(n) \/ StopStep(n) \/ CrashTriggers(n)
                        \/ \E j \in Jobs : RunJob(n, j)

TriggersSpec == TriggersInit /\ [][TriggersNext]_triggerVars

\* The goroutines run and the statements return; a watcher's select between the
\* stop signal and its timer takes the signal in the end.  Nobody need start a node,
\* and a flow need not end.
TriggersFairness ==
    /\ SF_triggerVars(\E n \in Managers : WatcherStopped(n))
    /\ \A n \in Managers : /\ WF_triggerVars(WatcherStep(n)) /\ WF_triggerVars(Listen(n))
                           /\ WF_triggerVars(StopStep(n))

TriggersTypeOK ==
    /\ due \in BOOLEAN
    /\ job \in [Jobs -> [state : {"none", "idle", "active", "stop", "error", "logged"},
                         node : Managers \cup {NoNode}, stopped : BOOLEAN]]
    /\ watch \in [Managers -> {"off", "wait", "fetch", "push"}]
    /\ fetched \in [Managers -> SUBSET Jobs] /\ runs \in [Managers -> SUBSET Jobs]
    /\ \A n \in Managers : jobs[n] \in Seq(Jobs) /\ Len(jobs[n]) =< JobQueueSize
    /\ listens \in [Managers -> BOOLEAN]
    /\ stop \in [Managers -> {"down", "up", "watcher", "cancel", "stopped"}]
    /\ starts \in [Jobs -> Nat] /\ lost \subseteq Jobs /\ restarts \in 0..MaxRestarts

\* The flow of a job is started at most once, by whatever node, crash or restart:
\* FetchIdleJobs gives a job to one node, and nothing makes it idle again.
JobStartedOnce == \A j \in Jobs : starts[j] =< 1

\* An active job is at some place of the node it was given to, or that node is
\* down, or has ended the job: a start cleans up after a crash, and a stop that
\* left jobs in the channel.  Excepted are jobs whose last statement failed.
ActiveIsHeld ==
    \A j \in Jobs \ lost :
        job[j].state = "active" /\ ~job[j].stopped =>
            LET n == job[j].node
            IN \/ stop[n] = "down" \/ j \in fetched[n] \cup runs[n]
               \/ \E i \in 1..Len(jobs[n]) : jobs[n][i] = j

\* Manager.Stop returns: it waits for a watcher that may be blocked on the full
\* channel, so the listener must still be there.
TriggerStopReturns == \A n \in Managers : stop[n] = "watcher" ~> stop[n] = "down"
============================================================================
