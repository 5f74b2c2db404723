-------------------------- MODULE BackgroundProofs ---------------------------
(***************************************************************************)
(* The background work of a node, Triggers and Expiry, proved for any      *)
(* number of nodes, jobs, members, workers and places in the queues: how   *)
(* often a job and the hook of an expired member are started, and that an  *)
(* active job is in the memory of the process its row names.               *)
(***************************************************************************)
EXTENDS Triggers, Expiry, TLAPS

(* Queues: sequences without repetitions. *)

Distinct(s) == \A i, j \in 1..Len(s) : s[i] = s[j] => i = j
Queue(s) == {s[i] : i \in 1..Len(s)}

(* Receiving from a queue. *)
LEMMA Received ==
    ASSUME NEW S, NEW s \in Seq(S), s # <<>>, Distinct(s)
    PROVE  /\ Tail(s) \in Seq(S) /\ Head(s) \in S /\ Distinct(Tail(s))
           /\ Head(s) \in Queue(s) /\ Queue(Tail(s)) = Queue(s) \ {Head(s)}
  <1>1. /\ Len(s) \in Nat /\ Len(s) > 0 /\ Head(s) = s[1]
        /\ Tail(s) \in Seq(S) /\ Len(Tail(s)) = Len(s) - 1
        /\ \A i \in 1..Len(s) - 1 : Tail(s)[i] = s[i + 1]
        /\ \A i \in 1..Len(s) : s[i] \in S
    OBVIOUS
  <1>2. Distinct(Tail(s))
    BY <1>1 DEF Distinct
  <1>3. Head(s) \in Queue(s)
    BY <1>1 DEF Queue
  <1>4. ASSUME NEW x \in Queue(Tail(s)) PROVE x \in Queue(s) \ {Head(s)}
    <2>1. PICK i \in 1..Len(s) - 1 : x = s[i + 1]
      BY Zenon, <1>1, <1>4 DEF Queue
    <2>2. i + 1 \in 1..Len(s) /\ 1 \in 1..Len(s) /\ i + 1 # 1
      BY <1>1
    <2> QED BY Zenon, <1>1, <2>1, <2>2 DEF Queue, Distinct
  <1>5. ASSUME NEW x \in Queue(s) \ {Head(s)} PROVE x \in Queue(Tail(s))
    <2>1. PICK i \in 1..Len(s) : x = s[i]
      BY Zenon, <1>5 DEF Queue
    <2>2. i # 1 /\ i - 1 \in 1..Len(s) - 1
      BY <1>1, <2>1
    <2>3. Tail(s)[i - 1] = x
      BY <1>1, <2>1, <2>2
    <2> QED BY Zenon, <1>1, <2>2, <2>3 DEF Queue
  <1> QED BY <1>1, <1>2, <1>3, <1>4, <1>5

(* Sending to a queue. *)
LEMMA Sent ==
    ASSUME NEW S, NEW s \in Seq(S), NEW x \in S
    PROVE  /\ Append(s, x) \in Seq(S)
           /\ Queue(Append(s, x)) = Queue(s) \cup {x}
           /\ Distinct(s) /\ x \notin Queue(s) => Distinct(Append(s, x))
  <1>1. /\ Len(s) \in Nat /\ Append(s, x) \in Seq(S) /\ Len(Append(s, x)) = Len(s) + 1
        /\ \A i \in 1..Len(s) : Append(s, x)[i] = s[i]
        /\ Append(s, x)[Len(s) + 1] = x
    OBVIOUS
  <1>2. 1..Len(s) + 1 = (1..Len(s)) \cup {Len(s) + 1}
    BY <1>1
  <1>3. Queue(Append(s, x)) = Queue(s) \cup {x}
    BY Zenon, <1>1, <1>2 DEF Queue
  <1>4. ASSUME Distinct(s), x \notin Queue(s) PROVE Distinct(Append(s, x))
    BY Zenon, <1>1, <1>2, <1>4 DEF Distinct, Queue
  <1> QED BY Zenon, <1>1, <1>3, <1>4

------------------------------------------------------------------------------
(* Triggers. *)

(* The types the argument about Triggers needs. *)
JobRow == [state : {"none", "idle", "active", "stop", "error", "logged"},
           node : Managers \cup {NoNode}, stopped : BOOLEAN]
TriggersPlain ==
    /\ job \in [Jobs -> JobRow]
    /\ watch \in [Managers -> {"off", "wait", "fetch", "push"}]
    /\ fetched \in [Managers -> SUBSET Jobs] /\ runs \in [Managers -> SUBSET Jobs]
    /\ jobs \in [Managers -> Seq(Jobs)]
    /\ stop \in [Managers -> {"down", "up", "watcher", "cancel", "stopped"}]
    /\ starts \in [Jobs -> Nat] /\ lost \subseteq Jobs

(* The jobs in the memory of a process. *)
Memory(n) == fetched[n] \cup Queue(jobs[n]) \cup runs[n]

(* Without process nothing is in memory; only schedule() has jobs to push. *)
MemoryOfProcess ==
    \A n \in Managers : /\ stop[n] = "down" => watch[n] = "off" /\ Memory(n) = {}
                        /\ watch[n] # "push" => fetched[n] = {}

(* What is in memory is an active job of the node that has not ended. *)
InMemoryIsActive ==
    \A n \in Managers : \A j \in Memory(n) :
        job[j].state = "active" /\ job[j].node = n /\ ~job[j].stopped

(* A job is at one place of the process. *)
OneStep ==
    \A n \in Managers : /\ Distinct(jobs[n]) /\ fetched[n] \cap Queue(jobs[n]) = {}
                        /\ fetched[n] \cap runs[n] = {} /\ Queue(jobs[n]) \cap runs[n] = {}

(* A job that no goroutine runs yet was not started. *)
StartedLater ==
    /\ \A j \in Jobs : job[j].state \in {"none", "idle"} =>
                           starts[j] = 0 /\ job[j].node = NoNode /\ ~job[j].stopped
    /\ \A n \in Managers : \A j \in fetched[n] \cup Queue(jobs[n]) : starts[j] = 0

(* An active job has a node, in whose memory it is. *)
ActiveInMemory ==
    \A j \in Jobs : job[j].state = "active" =>
        LET n == job[j].node
        IN /\ n \in Managers
           /\ j \notin lost /\ ~job[j].stopped => stop[n] = "down" \/ j \in Memory(n)

(* The inductive invariant behind JobStartedOnce and ActiveIsHeld. *)
TriggersInv ==
    /\ TriggersPlain /\ MemoryOfProcess /\ InMemoryIsActive /\ OneStep
    /\ StartedLater /\ ActiveInMemory /\ JobStartedOnce

(* Initially there is no job. *)
LEMMA TriggersInitial == TriggersInit => TriggersInv
  <1> SUFFICES ASSUME TriggersInit PROVE TriggersInv
    BY Zenon
  <1>1. TriggersPlain
    BY DEF TriggersInit, TriggersPlain, JobRow, NoJob
  <1>2. \A n \in Managers : /\ fetched[n] = {} /\ runs[n] = {} /\ Queue(jobs[n]) = {} /\ Distinct(jobs[n])
                            /\ Memory(n) = {} /\ watch[n] = "off"
    BY DEF TriggersInit, Memory, Queue, Distinct
  <1>3. MemoryOfProcess /\ InMemoryIsActive /\ OneStep
    BY Zenon, <1>2 DEF MemoryOfProcess, InMemoryIsActive, OneStep
  <1>4. \A j \in Jobs : job[j].state = "none" /\ starts[j] = 0 /\ job[j].node = NoNode /\ ~job[j].stopped
    BY Zenon DEF TriggersInit, NoJob
  <1> QED BY <1>1, <1>2, <1>3, <1>4 DEF TriggersInv, StartedLater, ActiveInMemory, JobStartedOnce

(* Only jobs are in memory. *)
LEMMA MemoryType == TriggersPlain => \A n \in Managers : Queue(jobs[n]) \subseteq Jobs /\ Memory(n) \subseteq Jobs
  BY DEF TriggersPlain, Memory, Queue

(* The rows of jobs that are in memory are left alone, and no row becomes active or *)
(* free again.                                                                      *)
RowsKept ==
    /\ job' \in [Jobs -> JobRow]
    /\ \A n \in Managers : \A j \in Memory(n) : job'[j] = job[j]
    /\ \A j \in Jobs : job'[j].state = "active" => job'[j].node = job[j].node /\ job[j].state = "active"
    /\ \A j \in Jobs : job'[j].state = "active" /\ ~job'[j].stopped => ~job[j].stopped
    /\ \A j \in Jobs : job'[j].state \in {"none", "idle"} =>
           job[j].state \in {"none", "idle"} /\ job'[j].node = NoNode /\ ~job'[j].stopped

(* Steps that change rows only. *)
LEMMA RowsStep ==
    ASSUME TriggersInv, RowsKept, lost \subseteq lost', lost' \subseteq Jobs, UNCHANGED <<fetched, jobs, runs, starts>>,
           watch' \in [Managers -> {"off", "wait", "fetch", "push"}],
           stop' \in [Managers -> {"down", "up", "watcher", "cancel", "stopped"}],
           \A n \in Managers : stop'[n] = "down" => watch'[n] = "off" /\ stop[n] = "down",
           \A n \in Managers : watch'[n] # "push" => watch[n] # "push",
           \A j \in Jobs :
               (job'[j].state = "active" /\ ~job'[j].stopped /\ j \notin lost' /\ stop[job[j].node] = "down")
                   => stop'[job[j].node] = "down"
    PROVE  TriggersInv'
  <1>1. \A n \in Managers : Memory(n)' = Memory(n) /\ Queue(jobs[n])' = Queue(jobs[n])
    BY DEF Memory, Queue
  <1>2. TriggersPlain'
    BY Zenon DEF TriggersInv, TriggersPlain, RowsKept
  <1>3. MemoryOfProcess'
    BY Zenon, <1>1 DEF TriggersInv, MemoryOfProcess
  <1>4. InMemoryIsActive'
    BY <1>1 DEF TriggersInv, InMemoryIsActive, RowsKept
  <1>5. OneStep'
    BY Zenon, <1>1 DEF TriggersInv, OneStep, Distinct
  <1>6. StartedLater' /\ JobStartedOnce'
    BY Zenon, <1>1 DEF TriggersInv, StartedLater, JobStartedOnce, RowsKept
  <1>7. ActiveInMemory'
    BY <1>1 DEF TriggersInv, ActiveInMemory, RowsKept
  <1> QED BY Zenon, <1>2, <1>3, <1>4, <1>5, <1>6, <1>7 DEF TriggersInv

(* Start cleans the rows of a node that is down, or loses track of them. *)
LEMMA TriggersStart ==
    ASSUME TriggersInv, NEW n \in Managers, StartTriggers(n)
    PROVE  TriggersInv'
  <1>1. /\ stop[n] = "down" /\ stop' = Put(stop, n, "up") /\ watch' = Put(watch, n, "wait")
        /\ UNCHANGED <<fetched, jobs, runs, starts>>
    BY Zenon DEF StartTriggers
  <1>2. Memory(n) = {} /\ watch[n] = "off"
    BY Zenon, <1>1 DEF TriggersInv, MemoryOfProcess
  <1>3. /\ watch' \in [Managers -> {"off", "wait", "fetch", "push"}] /\ watch'[n] = "wait"
        /\ stop' \in [Managers -> {"down", "up", "watcher", "cancel", "stopped"}] /\ stop'[n] = "up"
        /\ \A m \in Managers \ {n} : stop'[m] = stop[m] /\ watch'[m] = watch[m]
    BY Zenon, <1>1 DEF Put, TriggersInv, TriggersPlain
  <1>4. /\ \A m \in Managers : stop'[m] = "down" => watch'[m] = "off" /\ stop[m] = "down"
        /\ \A m \in Managers : watch'[m] # "push" => watch[m] # "push"
    BY Zenon, <1>2, <1>3 DEF TriggersInv, MemoryOfProcess
  <1>5. CASE job' = CleanActive(n) /\ UNCHANGED lost
    <2>1. \A j \in Jobs : job'[j] = IF job[j].node = n THEN [job[j] EXCEPT !.stopped = TRUE] ELSE job[j]
      BY Zenon, <1>5 DEF CleanActive
    <2>2. \A j \in Jobs : job[j] \in JobRow
      BY Zenon DEF TriggersInv, TriggersPlain
    <2>3. \A j \in Jobs : /\ job'[j] \in JobRow /\ job'[j].state = job[j].state /\ job'[j].node = job[j].node
                          /\ job[j].node = n => job'[j].stopped
                          /\ job[j].node # n => job'[j] = job[j]
      BY Zenon, <2>1, <2>2 DEF JobRow
    <2>4. job' \in [Jobs -> JobRow]
      BY Zenon, <1>5, <2>3 DEF CleanActive
    <2>5. \A m \in Managers : \A j \in Memory(m) : j \in Jobs /\ job[j].node = m /\ m # n
      BY Zenon, <1>2, MemoryType DEF TriggersInv, InMemoryIsActive
    <2>6. RowsKept
      BY <2>3, <2>4, <2>5, TriggersAssumption DEF RowsKept, TriggersInv, StartedLater, NoNode
    <2>7. \A j \in Jobs :
              (job'[j].state = "active" /\ ~job'[j].stopped /\ j \notin lost' /\ stop[job[j].node] = "down")
                  => stop'[job[j].node] = "down"
      BY <1>3, <2>3 DEF TriggersInv, ActiveInMemory
    <2>8. lost \subseteq lost' /\ lost' \subseteq Jobs
      BY Zenon, <1>5 DEF TriggersInv, TriggersPlain
    <2> QED BY Zenon, <1>1, <1>3, <1>4, <2>6, <2>7, <2>8, RowsStep
  <1>6. CASE /\ lost' = lost \cup {j \in Jobs : job[j].node = n /\ ~job[j].stopped}
             /\ UNCHANGED job
    <2>1. RowsKept
      BY Zenon, <1>6 DEF RowsKept, TriggersInv, TriggersPlain, StartedLater
    <2>2. \A j \in Jobs :
              (job'[j].state = "active" /\ ~job'[j].stopped /\ j \notin lost' /\ stop[job[j].node] = "down")
                  => stop'[job[j].node] = "down"
      BY Zenon, <1>3, <1>6 DEF TriggersInv, ActiveInMemory
    <2>3. lost \subseteq lost' /\ lost' \subseteq Jobs
      BY Zenon, <1>6 DEF TriggersInv, TriggersPlain
    <2> QED BY Zenon, <1>1, <1>3, <1>4, <2>1, <2>2, <2>3, RowsStep
  <1> QED BY Zenon, <1>5, <1>6 DEF StartTriggers

(* cc_scheduler_jobs logs what has ended and creates a job. *)
LEMMA TriggersSchedule ==
    ASSUME TriggersInv, NEW n \in Managers, Schedule(n)
    PROVE  TriggersInv'
  <1>1. /\ watch[n] = "wait" /\ watch' = Put(watch, n, "fetch")
        /\ UNCHANGED <<fetched, jobs, runs, starts, stop, lost>>
    BY Zenon DEF Schedule
  <1>2. /\ watch' \in [Managers -> {"off", "wait", "fetch", "push"}] /\ watch'[n] = "fetch"
        /\ \A m \in Managers \ {n} : watch'[m] = watch[m]
    BY Zenon, <1>1 DEF Put, TriggersInv, TriggersPlain
  <1>3. /\ \A m \in Managers : stop'[m] = "down" => watch'[m] = "off" /\ stop[m] = "down"
        /\ \A m \in Managers : watch'[m] # "push" => watch[m] # "push"
        /\ stop' \in [Managers -> {"down", "up", "watcher", "cancel", "stopped"}]
        /\ lost \subseteq lost' /\ lost' \subseteq Jobs
    BY Zenon, <1>1, <1>2 DEF TriggersInv, TriggersPlain, MemoryOfProcess
  <1> DEFINE moved == [j \in Jobs |-> IF job[j].stopped THEN [job[j] EXCEPT !.state = "logged"] ELSE job[j]]
  <1>4. \A j \in Jobs : job[j] \in JobRow
    BY Zenon DEF TriggersInv, TriggersPlain
  <1>5. \A j \in Jobs : /\ moved[j] \in JobRow /\ moved[j].node = job[j].node /\ moved[j].stopped = job[j].stopped
                        /\ job[j].stopped => moved[j].state = "logged"
                        /\ ~job[j].stopped => moved[j] = job[j]
    BY Zenon, <1>4 DEF JobRow
  <1>6. \A m \in Managers : \A j \in Memory(m) : j \in Jobs /\ job[j].state = "active" /\ ~job[j].stopped
    BY Zenon, MemoryType DEF TriggersInv, InMemoryIsActive
  <1>7. moved \in [Jobs -> JobRow]
    BY Zenon, <1>5
  <1> HIDE DEF moved
  <1>8. CASE job' = moved
    <2>1. RowsKept
      BY Zenon, <1>5, <1>6, <1>7, <1>8 DEF RowsKept, TriggersInv, StartedLater
    <2> QED BY Zenon, <1>1, <1>2, <1>3, <2>1, RowsStep
  <1>9. ASSUME NEW new \in Jobs, job[new] = NoJob, job' = [moved EXCEPT ![new].state = "idle"]
        PROVE  TriggersInv'
    <2>1. /\ job' \in [Jobs -> JobRow] /\ job'[new].state = "idle"
          /\ job'[new].node = moved[new].node /\ job'[new].stopped = moved[new].stopped
          /\ \A j \in Jobs \ {new} : job'[j] = moved[j]
      BY Zenon, <1>7, <1>9 DEF JobRow
    <2>2. job[new].state = "none" /\ job[new].node = NoNode /\ ~job[new].stopped
      BY <1>9 DEF NoJob
    <2>3. RowsKept
      BY <1>5, <1>6, <2>1, <2>2 DEF RowsKept, TriggersInv, StartedLater
    <2> QED BY Zenon, <1>1, <1>2, <1>3, <2>3, RowsStep
  <1>10. CASE UNCHANGED job
    <2>1. RowsKept
      BY Zenon, <1>10 DEF RowsKept, TriggersInv, TriggersPlain, StartedLater
    <2> QED BY Zenon, <1>1, <1>2, <1>3, <2>1, RowsStep
  <1>11. job' = moved \/ (\E new \in Jobs : job[new] = NoJob /\ job' = [moved EXCEPT ![new].state = "idle"])
         \/ UNCHANGED job
    BY Zenon DEF Schedule, ScheduleNewJobs, moved
  <1> QED BY Zenon, <1>8, <1>9, <1>10, <1>11

(* FetchIdleJobs gives the idle jobs to one node. *)
LEMMA TriggersFetch ==
    ASSUME TriggersInv, NEW n \in Managers, Fetch(n)
    PROVE  TriggersInv'
  <1> DEFINE new == {j \in Jobs : job[j].state = "idle"}
  <1>1. /\ watch[n] = "fetch" /\ fetched' = Put(fetched, n, new) /\ job' = FetchIdleJobs(n)
        /\ watch' = Put(watch, n, "push") /\ UNCHANGED <<jobs, runs, stop, starts, lost>>
    BY Zenon DEF Fetch
  <1>2. fetched[n] = {} /\ stop[n] # "down"
    BY Zenon, <1>1 DEF TriggersInv, MemoryOfProcess
  <1>3. \A j \in Jobs : job[j] \in JobRow
    BY Zenon DEF TriggersInv, TriggersPlain
  <1>4. /\ \A j \in Jobs : job'[j] \in JobRow
        /\ \A j \in new : job'[j].state = "active" /\ job'[j].node = n /\ job'[j].stopped = job[j].stopped
        /\ \A j \in Jobs \ new : job'[j] = job[j]
    <2>1. \A j \in Jobs : job'[j] = IF job[j].state = "idle" THEN [job[j] EXCEPT !.state = "active", !.node = n]
                                    ELSE job[j]
      BY Zenon, <1>1 DEF FetchIdleJobs
    <2> SUFFICES ASSUME NEW j \in Jobs
                 PROVE  /\ job'[j] \in JobRow /\ (j \notin new => job'[j] = job[j])
                        /\ j \in new => /\ job'[j].state = "active" /\ job'[j].node = n
                                        /\ job'[j].stopped = job[j].stopped
      BY Zenon, <1>3
    <2>2. job[j] \in JobRow /\ n \in Managers
      BY Zenon, <1>3
    <2>3. j \in new <=> job[j].state = "idle"
      BY Zenon
    <2> QED BY Zenon, <2>1, <2>2, <2>3 DEF JobRow
  <1>5. new \subseteq Jobs /\ \A j \in new : job[j].state = "idle" /\ starts[j] = 0 /\ ~job[j].stopped
    BY Zenon DEF TriggersInv, StartedLater
  <1>6. /\ fetched'[n] = new /\ \A m \in Managers \ {n} : fetched'[m] = fetched[m]
        /\ watch'[n] = "push" /\ \A m \in Managers \ {n} : watch'[m] = watch[m]
    BY Zenon, <1>1 DEF Put, TriggersInv, TriggersPlain
  <1>7. TriggersPlain'
    <2>1. job' \in [Jobs -> JobRow]
      BY Zenon, <1>1, <1>4 DEF FetchIdleJobs
    <2> QED BY Zenon, <1>1, <1>5, <2>1 DEF Put, TriggersInv, TriggersPlain
  <1> HIDE DEF new
  <1>8. /\ Memory(n)' = Memory(n) \cup new /\ \A m \in Managers \ {n} : Memory(m)' = Memory(m)
        /\ \A m \in Managers : Queue(jobs[m])' = Queue(jobs[m]) /\ Distinct(jobs[m])' = Distinct(jobs[m])
    BY Zenon, <1>1, <1>2, <1>6 DEF Memory, Queue, Distinct
  <1>9. \A m \in Managers : Memory(m) \cap new = {} /\ Memory(m) \subseteq Jobs
    BY Zenon, <1>5, MemoryType DEF TriggersInv, InMemoryIsActive
  <1>10. MemoryOfProcess'
    BY Zenon, <1>1, <1>2, <1>6, <1>8 DEF TriggersInv, MemoryOfProcess
  <1>11. InMemoryIsActive'
    <2> SUFFICES ASSUME NEW m \in Managers, NEW j \in Memory(m)'
                 PROVE  job'[j].state = "active" /\ job'[j].node = m /\ ~job'[j].stopped
      BY Zenon DEF InMemoryIsActive
    <2>1. CASE j \in Memory(m)
      BY <1>4, <1>9, <2>1 DEF TriggersInv, InMemoryIsActive
    <2>2. CASE m = n /\ j \in new
      BY Zenon, <1>4, <1>5, <2>2
    <2> QED BY Zenon, <1>8, <2>1, <2>2
  <1>12. OneStep'
    BY Zenon, <1>1, <1>6, <1>8, <1>9 DEF TriggersInv, OneStep, Memory
  <1>13. StartedLater'
    <2>1. ASSUME NEW j \in Jobs, job'[j].state \in {"none", "idle"}
          PROVE  starts'[j] = 0 /\ job'[j].node = NoNode /\ ~job'[j].stopped
      <3>1. job'[j] = job[j]
        BY Zenon, <1>4, <2>1
      <3> QED BY Zenon, <1>1, <2>1, <3>1 DEF TriggersInv, StartedLater
    <2>2. ASSUME NEW m \in Managers, NEW j \in fetched'[m] \cup Queue(jobs[m]) PROVE starts[j] = 0
      BY Zenon, <1>5, <1>6, <2>2 DEF TriggersInv, StartedLater
    <2> QED BY Zenon, <1>1, <1>8, <2>1, <2>2 DEF StartedLater
  <1>14. ActiveInMemory'
    <2> SUFFICES ASSUME NEW j \in Jobs, job'[j].state = "active"
                 PROVE  \A m : m = job'[j].node =>
                            /\ m \in Managers
                            /\ j \notin lost /\ ~job'[j].stopped => stop[m] = "down" \/ j \in Memory(m)'
      BY Zenon, <1>1 DEF ActiveInMemory
    <2>1. CASE j \in new
      BY Zenon, <1>4, <1>8, <2>1
    <2>2. CASE j \notin new
      <3>1. job'[j] = job[j]
        BY Zenon, <1>4, <2>2
      <3>2. \A m : m = job[j].node =>
                       /\ m \in Managers
                       /\ j \notin lost /\ ~job[j].stopped => stop[m] = "down" \/ j \in Memory(m)
        BY Zenon, <3>1 DEF TriggersInv, ActiveInMemory
      <3> QED BY Zenon, <1>8, <3>1, <3>2
    <2> QED BY Zenon, <2>1, <2>2
  <1> QED BY Zenon, <1>1, <1>7, <1>10, <1>11, <1>12, <1>13, <1>14 DEF TriggersInv, JobStartedOnce

(* A job moves on inside one process, without change of its row. *)
LEMMA TriggersMove ==
    ASSUME TriggersInv, NEW n \in Managers, UNCHANGED <<job, stop, lost>>, TriggersPlain',
           \A m \in Managers \ {n} : /\ fetched'[m] = fetched[m] /\ jobs'[m] = jobs[m] /\ runs'[m] = runs[m]
                                     /\ watch'[m] = watch[m],
           Memory(n)' = Memory(n), OneStep', stop[n] = "down" => watch'[n] = "off",
           watch'[n] # "push" => fetched'[n] = {},
           \A j \in fetched'[n] \cup Queue(jobs'[n]) : starts'[j] = 0,
           \A j \in Jobs : starts'[j] = starts[j] \/ (job[j].state = "active" /\ starts'[j] =< 1 /\ j \in runs'[n])
    PROVE  TriggersInv'
  <1>1. \A m \in Managers : Memory(m)' = Memory(m)
    BY Zenon DEF Memory
  <1>2. MemoryOfProcess'
    BY Zenon, <1>1 DEF TriggersInv, MemoryOfProcess
  <1>3. InMemoryIsActive' /\ ActiveInMemory'
    BY <1>1 DEF TriggersInv, InMemoryIsActive, ActiveInMemory
  <1>4. JobStartedOnce'
    BY Zenon DEF TriggersInv, JobStartedOnce
  <1>5. \A m \in Managers : \A j \in fetched'[m] \cup Queue(jobs'[m]) : starts'[j] = 0
    <2> SUFFICES ASSUME NEW m \in Managers \ {n}, NEW j \in fetched[m] \cup Queue(jobs[m]) PROVE starts'[j] = 0
      BY Zenon
    <2>1. j \in Memory(m) /\ j \in Jobs /\ job[j].node = m /\ starts[j] = 0
      BY MemoryType DEF TriggersInv, InMemoryIsActive, StartedLater, Memory
    <2>2. j \notin Memory(n)
      BY Zenon, <2>1 DEF TriggersInv, InMemoryIsActive
    <2>3. j \notin runs'[n]
      BY Zenon, <2>2 DEF Memory
    <2> QED BY Zenon, <2>1, <2>3
  <1>6. StartedLater'
    BY Zenon, <1>5 DEF TriggersInv, StartedLater
  <1> QED BY Zenon, <1>2, <1>3, <1>4, <1>6 DEF TriggersInv

(* schedule() pushes a job into the channel. *)
LEMMA TriggersPush ==
    ASSUME TriggersInv, NEW n \in Managers, Push(n)
    PROVE  TriggersInv'
  <1>1. watch[n] = "push" /\ UNCHANGED <<job, runs, stop, starts, lost>> /\ stop[n] # "down"
    BY Zenon DEF Push, TriggersInv, MemoryOfProcess
  <1>2. CASE fetched[n] = {} /\ watch' = Put(watch, n, "wait") /\ UNCHANGED <<fetched, jobs>>
    <2>1. TriggersPlain' /\ watch'[n] = "wait" /\ \A m \in Managers \ {n} : watch'[m] = watch[m]
      BY Zenon, <1>1, <1>2 DEF Put, TriggersInv, TriggersPlain
    <2>2. Memory(n)' = Memory(n) /\ OneStep'
      BY <1>1, <1>2 DEF Memory, Queue, TriggersInv, OneStep, Distinct
    <2>3. \A j \in fetched'[n] \cup Queue(jobs'[n]) : starts'[j] = 0
      BY Zenon, <1>1, <1>2 DEF TriggersInv, StartedLater
    <2> QED BY Zenon, <1>1, <1>2, <2>1, <2>2, <2>3, TriggersMove
  <1>3. ASSUME NEW j \in fetched[n], fetched' = Put(fetched, n, fetched[n] \ {j}),
               jobs' = Put(jobs, n, Append(jobs[n], j)), UNCHANGED watch
        PROVE  TriggersInv'
    <2>1. j \in Jobs /\ j \notin Queue(jobs[n]) /\ j \notin runs[n] /\ jobs[n] \in Seq(Jobs) /\ Distinct(jobs[n])
      BY Zenon DEF TriggersInv, TriggersPlain, OneStep
    <2>2. /\ fetched'[n] = fetched[n] \ {j} /\ jobs'[n] = Append(jobs[n], j)
          /\ \A m \in Managers \ {n} : fetched'[m] = fetched[m] /\ jobs'[m] = jobs[m]
      BY Zenon, <1>3 DEF Put, TriggersInv, TriggersPlain
    <2>3. Append(jobs[n], j) \in Seq(Jobs) /\ Queue(jobs'[n]) = Queue(jobs[n]) \cup {j} /\ Distinct(jobs'[n])
      BY <2>1, <2>2, Sent
    <2>4. TriggersPlain'
      BY Zenon, <1>1, <1>3, <2>3 DEF Put, TriggersInv, TriggersPlain
    <2>5. Memory(n)' = Memory(n)
      BY Zenon, <1>1, <2>2, <2>3 DEF Memory
    <2>6. OneStep'
      <3> SUFFICES ASSUME NEW m \in Managers
                   PROVE  /\ Distinct(jobs'[m]) /\ fetched'[m] \cap Queue(jobs'[m]) = {}
                          /\ fetched'[m] \cap runs[m] = {} /\ Queue(jobs'[m]) \cap runs[m] = {}
        BY Zenon, <1>1 DEF OneStep
      <3>1. CASE m = n
        <4>1. /\ fetched[n] \cap Queue(jobs[n]) = {} /\ fetched[n] \cap runs[n] = {}
              /\ Queue(jobs[n]) \cap runs[n] = {}
          BY Zenon DEF TriggersInv, OneStep
        <4> QED BY Zenon, <2>1, <2>2, <2>3, <3>1, <4>1
      <3>2. CASE m # n
        BY Zenon, <2>2, <3>2 DEF TriggersInv, OneStep
      <3> QED BY Zenon, <3>1, <3>2
    <2>7. \A i \in fetched'[n] \cup Queue(jobs'[n]) : starts'[i] = 0
      BY Zenon, <1>1, <2>2, <2>3 DEF TriggersInv, StartedLater
    <2>8. stop[n] = "down" => watch'[n] = "off"
      BY Zenon, <1>1
    <2> QED BY Zenon, <1>1, <1>3, <2>2, <2>4, <2>5, <2>6, <2>7, <2>8, TriggersMove
  <1> QED BY Zenon, <1>2, <1>3 DEF Push

(* listen() starts the flow of a job. *)
LEMMA TriggersListen ==
    ASSUME TriggersInv, NEW n \in Managers, Listen(n)
    PROVE  TriggersInv'
  <1> DEFINE j == Head(jobs[n])
  <1>1. /\ jobs[n] # <<>> /\ runs' = Put(runs, n, runs[n] \cup {j}) /\ jobs' = Put(jobs, n, Tail(jobs[n]))
        /\ starts' = [starts EXCEPT ![j] = @ + 1] /\ UNCHANGED <<job, watch, fetched, stop, lost>>
    BY Zenon DEF Listen
  <1>2. /\ jobs[n] \in Seq(Jobs) /\ Distinct(jobs[n])
        /\ Tail(jobs[n]) \in Seq(Jobs) /\ j \in Jobs /\ Distinct(Tail(jobs[n]))
        /\ j \in Queue(jobs[n]) /\ Queue(Tail(jobs[n])) = Queue(jobs[n]) \ {j}
    BY Zenon, <1>1, Received DEF TriggersInv, TriggersPlain, OneStep
  <1> HIDE DEF j
  <1>3. j \in Memory(n) /\ job[j].state = "active" /\ starts[j] = 0 /\ j \notin fetched[n]
    BY Zenon, <1>2 DEF TriggersInv, InMemoryIsActive, StartedLater, Memory, OneStep
  <1>4. /\ runs'[n] = runs[n] \cup {j} /\ jobs'[n] = Tail(jobs[n])
        /\ \A m \in Managers \ {n} : runs'[m] = runs[m] /\ jobs'[m] = jobs[m]
    BY Zenon, <1>1 DEF Put, TriggersInv, TriggersPlain
  <1>5. /\ starts' \in [Jobs -> Nat] /\ starts'[j] = 1 /\ \A i \in Jobs \ {j} : starts'[i] = starts[i]
    BY <1>1, <1>2, <1>3 DEF TriggersInv, TriggersPlain
  <1>6. TriggersPlain'
    BY Zenon, <1>1, <1>2, <1>5 DEF Put, TriggersInv, TriggersPlain
  <1>7. Memory(n)' = Memory(n)
    BY Zenon, <1>1, <1>2, <1>4 DEF Memory
  <1>8. OneStep'
    <2> SUFFICES ASSUME NEW m \in Managers
                 PROVE  /\ Distinct(jobs'[m]) /\ fetched[m] \cap Queue(jobs'[m]) = {}
                        /\ fetched[m] \cap runs'[m] = {} /\ Queue(jobs'[m]) \cap runs'[m] = {}
      BY Zenon, <1>1 DEF OneStep
    <2>1. CASE m = n
      BY <1>2, <1>3, <1>4, <2>1 DEF TriggersInv, OneStep
    <2>2. CASE m # n
      BY Zenon, <1>4, <2>2 DEF TriggersInv, OneStep
    <2> QED BY Zenon, <2>1, <2>2
  <1>9. \A i \in fetched'[n] \cup Queue(jobs'[n]) : starts'[i] = 0
    <2> SUFFICES ASSUME NEW i \in fetched[n] \cup (Queue(jobs[n]) \ {j}) PROVE starts'[i] = 0
      BY Zenon, <1>1, <1>2, <1>4
    <2>1. i \in Jobs /\ i # j /\ starts[i] = 0
      BY Zenon, <1>3, MemoryType DEF TriggersInv, TriggersPlain, StartedLater
    <2> QED BY Zenon, <1>5, <2>1
  <1>10. \A i \in Jobs : starts'[i] = starts[i] \/ (job[i].state = "active" /\ starts'[i] =< 1 /\ i \in runs'[n])
    BY <1>3, <1>4, <1>5
  <1>11. (stop[n] = "down" => watch'[n] = "off") /\ (watch'[n] # "push" => fetched'[n] = {})
    BY Zenon, <1>1 DEF TriggersInv, MemoryOfProcess
  <1>12. \A m \in Managers \ {n} : /\ fetched'[m] = fetched[m] /\ jobs'[m] = jobs[m] /\ runs'[m] = runs[m]
                                   /\ watch'[m] = watch[m]
    BY Zenon, <1>1, <1>4
  <1> QED BY Zenon, <1>1, <1>6, <1>7, <1>8, <1>9, <1>10, <1>11, <1>12, TriggersMove

(* The goroutine of a job ends. *)
LEMMA TriggersRunJob ==
    ASSUME TriggersInv, NEW n \in Managers, NEW j \in Jobs, RunJob(n, j)
    PROVE  TriggersInv'
  <1>1. /\ j \in runs[n] /\ runs' = Put(runs, n, runs[n] \ {j})
        /\ UNCHANGED <<watch, fetched, jobs, stop, starts>>
        /\ \/ (job' = SetResult(j) \/ job' = SetJobError(j)) /\ UNCHANGED lost
           \/ lost' = lost \cup {j} /\ UNCHANGED job
    BY Zenon DEF RunJob
  <1>2. /\ j \in Memory(n) /\ job[j].state = "active" /\ job[j].node = n /\ ~job[j].stopped
        /\ j \notin fetched[n] /\ j \notin Queue(jobs[n])
    BY Zenon, <1>1 DEF TriggersInv, InMemoryIsActive, Memory, OneStep
  <1>3. runs'[n] = runs[n] \ {j} /\ \A m \in Managers \ {n} : runs'[m] = runs[m]
    BY Zenon, <1>1 DEF Put, TriggersInv, TriggersPlain
  <1>4. /\ job' \in [Jobs -> JobRow] /\ \A i \in Jobs \ {j} : job'[i] = job[i]
        /\ job'[j].node = n /\ job'[j].state \in {"active", "stop", "error"}
        /\ job'[j].stopped \/ j \in lost'
    <2>1. job[j] \in JobRow /\ job \in [Jobs -> JobRow]
      BY Zenon DEF TriggersInv, TriggersPlain
    <2>2. CASE job' = SetResult(j) \/ job' = SetJobError(j)
      BY <1>2, <2>1, <2>2 DEF SetResult, SetJobError, JobRow
    <2>3. CASE lost' = lost \cup {j} /\ UNCHANGED job
      BY Zenon, <1>2, <2>1, <2>3
    <2> QED BY Zenon, <1>1, <2>2, <2>3
  <1>5. lost \subseteq lost' /\ lost' \subseteq Jobs
    BY Zenon, <1>1 DEF TriggersInv, TriggersPlain
  <1>6. TriggersPlain'
    BY Zenon, <1>1, <1>4, <1>5 DEF Put, TriggersInv, TriggersPlain
  <1>7. /\ Memory(n)' = Memory(n) \ {j} /\ \A m \in Managers \ {n} : Memory(m)' = Memory(m)
        /\ \A m \in Managers : Queue(jobs[m])' = Queue(jobs[m])
    <2>1. Memory(n)' = Memory(n) \ {j}
      BY Zenon, <1>1, <1>2, <1>3 DEF Memory
    <2> QED BY Zenon, <1>1, <1>3, <2>1 DEF Memory
  <1>8. \A m \in Managers \ {n} : j \notin Memory(m)
    BY Zenon, <1>2 DEF TriggersInv, InMemoryIsActive
  <1>9. MemoryOfProcess'
    BY Zenon, <1>1, <1>7 DEF TriggersInv, MemoryOfProcess
  <1>10. InMemoryIsActive'
    <2> SUFFICES ASSUME NEW m \in Managers, NEW i \in Memory(m)'
                 PROVE  job'[i].state = "active" /\ job'[i].node = m /\ ~job'[i].stopped
      BY Zenon DEF InMemoryIsActive
    <2>1. i \in Memory(m) /\ i # j /\ i \in Jobs
      BY Zenon, <1>7, <1>8, MemoryType DEF TriggersInv
    <2> QED BY <1>4, <2>1 DEF TriggersInv, InMemoryIsActive
  <1>11. OneStep'
    BY Zenon, <1>1, <1>3 DEF TriggersInv, OneStep
  <1>12. StartedLater' /\ JobStartedOnce'
    BY Zenon, <1>1, <1>4, <1>7 DEF TriggersInv, StartedLater, JobStartedOnce
  <1>13. ActiveInMemory'
    <2> SUFFICES ASSUME NEW i \in Jobs, job'[i].state = "active"
                 PROVE  /\ job'[i].node \in Managers
                        /\ \A m \in Managers : m = job'[i].node /\ i \notin lost' /\ ~job'[i].stopped =>
                                                   stop[m] = "down" \/ i \in Memory(m)'
      BY Zenon, <1>1 DEF ActiveInMemory
    <2>1. CASE i = j
      BY Zenon, <1>4, <2>1
    <2>2. CASE i # j
      BY <1>4, <1>5, <1>7, <2>2 DEF TriggersInv, ActiveInMemory
    <2> QED BY Zenon, <2>1, <2>2
  <1> QED BY Zenon, <1>6, <1>9, <1>10, <1>11, <1>12, <1>13 DEF TriggersInv

(* The end of a process. *)
LEMMA TriggersGone ==
    ASSUME TriggersInv, NEW n \in Managers, Gone(n)
    PROVE  TriggersInv'
  <1>1. /\ watch' = Put(watch, n, "off") /\ fetched' = Put(fetched, n, {})
        /\ jobs' = Put(jobs, n, <<>>) /\ runs' = Put(runs, n, {}) /\ stop' = Put(stop, n, "down")
        /\ UNCHANGED <<job, starts, lost>>
    BY Zenon DEF Gone
  <1>2. /\ watch'[n] = "off" /\ fetched'[n] = {} /\ jobs'[n] = <<>> /\ runs'[n] = {} /\ stop'[n] = "down"
        /\ \A m \in Managers \ {n} : /\ watch'[m] = watch[m] /\ fetched'[m] = fetched[m] /\ jobs'[m] = jobs[m]
                                     /\ runs'[m] = runs[m] /\ stop'[m] = stop[m]
    BY Zenon, <1>1 DEF Put, TriggersInv, TriggersPlain
  <1>3. Queue(jobs'[n]) = {} /\ Distinct(jobs'[n])
    BY <1>2 DEF Queue, Distinct
  <1>4. Memory(n)' = {} /\ \A m \in Managers \ {n} : Memory(m)' = Memory(m)
    BY Zenon, <1>2, <1>3 DEF Memory
  <1>5. TriggersPlain'
    BY <1>1 DEF Put, TriggersInv, TriggersPlain
  <1>6. MemoryOfProcess' /\ InMemoryIsActive'
    <2>1. MemoryOfProcess'
      BY Zenon, <1>1, <1>2, <1>4 DEF TriggersInv, MemoryOfProcess
    <2>2. InMemoryIsActive'
      BY Zenon, <1>1, <1>4 DEF TriggersInv, InMemoryIsActive
    <2> QED BY Zenon, <2>1, <2>2
  <1>7. OneStep'
    BY Zenon, <1>2, <1>3 DEF TriggersInv, OneStep
  <1>8. StartedLater' /\ JobStartedOnce'
    BY Zenon, <1>1, <1>2, <1>3 DEF TriggersInv, StartedLater, JobStartedOnce
  <1>9. ActiveInMemory'
    <2> SUFFICES ASSUME NEW j \in Jobs, job[j].state = "active"
                 PROVE  \A m : m = job[j].node =>
                            /\ m \in Managers
                            /\ j \notin lost /\ ~job[j].stopped => stop'[m] = "down" \/ j \in Memory(m)'
      BY Zenon, <1>1 DEF ActiveInMemory
    <2>1. \A m : m = job[j].node =>
                     /\ m \in Managers
                     /\ j \notin lost /\ ~job[j].stopped => stop[m] = "down" \/ j \in Memory(m)
      BY Zenon DEF TriggersInv, ActiveInMemory
    <2>2. \A m \in Managers : m = n \/ (stop'[m] = stop[m] /\ Memory(m)' = Memory(m))
      BY Zenon, <1>2, <1>4
    <2>3. stop'[n] = "down"
      BY Zenon, <1>2
    <2> QED BY Zenon, <2>1, <2>2, <2>3
  <1> QED BY Zenon, <1>5, <1>6, <1>7, <1>8, <1>9 DEF TriggersInv

(* Stop moves on. *)
LEMMA TriggersStops ==
    ASSUME TriggersInv, NEW n \in Managers, UNCHANGED <<job, fetched, jobs, runs, starts, lost>>,
           NEW p \in {"watcher", "cancel", "stopped"}, stop' = Put(stop, n, p), stop[n] # "down",
           watch' = watch \/ (watch' = Put(watch, n, "off") /\ watch[n] = "wait")
    PROVE  TriggersInv'
  <1>1. RowsKept
    BY Zenon DEF RowsKept, TriggersInv, TriggersPlain, StartedLater
  <1>2. /\ stop' \in [Managers -> {"down", "up", "watcher", "cancel", "stopped"}]
        /\ watch' \in [Managers -> {"off", "wait", "fetch", "push"}]
        /\ stop'[n] = p /\ \A m \in Managers \ {n} : stop'[m] = stop[m] /\ watch'[m] = watch[m]
        /\ watch'[n] = watch[n] \/ (watch'[n] = "off" /\ watch[n] = "wait")
    BY Zenon DEF Put, TriggersInv, TriggersPlain
  <1>3. \A m \in Managers : stop'[m] = "down" => watch'[m] = "off" /\ stop[m] = "down"
    BY Zenon, <1>2 DEF TriggersInv, MemoryOfProcess
  <1>4. \A m \in Managers : watch'[m] # "push" => watch[m] # "push"
    BY Zenon, <1>2
  <1>5. \A j \in Jobs :
            (job'[j].state = "active" /\ ~job'[j].stopped /\ j \notin lost' /\ stop[job[j].node] = "down")
                => stop'[job[j].node] = "down"
    BY Zenon, <1>2 DEF TriggersInv, ActiveInMemory
  <1>6. lost \subseteq lost' /\ lost' \subseteq Jobs
    BY Zenon DEF TriggersInv, TriggersPlain
  <1> QED BY Zenon, <1>1, <1>2, <1>3, <1>4, <1>5, <1>6, RowsStep

(* Every step of the trigger managers keeps the invariant. *)
LEMMA TriggersStep == TriggersInv /\ [TriggersNext]_triggerVars => TriggersInv'
  <1> SUFFICES ASSUME TriggersInv, [TriggersNext]_triggerVars PROVE TriggersInv'
    BY Zenon
  <1>1. CASE UNCHANGED triggerVars \/ Elapse
    <2>1. UNCHANGED <<job, watch, fetched, jobs, runs, stop, starts, lost>>
      BY Zenon, <1>1 DEF triggerVars, Elapse
    <2>2. \A n \in Managers : Memory(n)' = Memory(n) /\ Queue(jobs[n])' = Queue(jobs[n])
      BY Zenon, <2>1 DEF Memory, Queue
    <2>3. TriggersPlain' /\ MemoryOfProcess' /\ InMemoryIsActive'
      BY <2>1, <2>2 DEF TriggersInv, TriggersPlain, MemoryOfProcess, InMemoryIsActive
    <2>4. OneStep' /\ StartedLater'
      BY Zenon, <2>1, <2>2 DEF TriggersInv, OneStep, Distinct, StartedLater
    <2>5. ActiveInMemory' /\ JobStartedOnce'
      BY Zenon, <2>1, <2>2 DEF TriggersInv, ActiveInMemory, JobStartedOnce
    <2> QED BY Zenon, <2>3, <2>4, <2>5 DEF TriggersInv
  <1>2. ASSUME NEW n \in Managers,
               \/ StartTriggers(n) \/ WatcherStep(n) \/ Listen(n)
               \/ StopWatcher(n) \/ WatcherStopped(n) \/ StopStep(n) \/ CrashTriggers(n)
               \/ \E j \in Jobs : RunJob(n, j)
        PROVE  TriggersInv'
    <2>1. CASE StartTriggers(n)
      BY Zenon, <2>1, TriggersStart
    <2>2. CASE WatcherStep(n)
      BY Zenon, <2>2, TriggersSchedule, TriggersFetch, TriggersPush DEF WatcherStep
    <2>3. CASE Listen(n)
      BY Zenon, <2>3, TriggersListen
    <2>4. CASE StopWatcher(n) \/ WatcherStopped(n) \/ ListenerStopped(n)
      <3>1. PICK p \in {"watcher", "cancel", "stopped"} : stop' = Put(stop, n, p)
        BY Zenon, <2>4 DEF StopWatcher, WatcherStopped, ListenerStopped
      <3>2. /\ UNCHANGED <<job, fetched, jobs, runs, starts, lost>> /\ stop[n] # "down"
            /\ watch' = watch \/ (watch' = Put(watch, n, "off") /\ watch[n] = "wait")
        BY Zenon, <2>4 DEF StopWatcher, WatcherStopped, ListenerStopped
      <3> QED BY Zenon, <3>1, <3>2, TriggersStops
    <2>5. CASE Exit(n) \/ CrashTriggers(n)
      BY Zenon, <2>5, TriggersGone DEF Exit, CrashTriggers
    <2>6. ASSUME NEW j \in Jobs, RunJob(n, j) PROVE TriggersInv'
      BY Zenon, <2>6, TriggersRunJob
    <2> QED BY Zenon, <1>2, <2>1, <2>2, <2>3, <2>4, <2>5, <2>6 DEF StopStep
  <1> QED BY Zenon, <1>1, <1>2 DEF TriggersNext

(* The invariant holds of every behaviour of the trigger managers. *)
LEMMA TriggersInvariant == TriggersSpec => []TriggersInv
  BY TriggersInitial, TriggersStep, PTL DEF TriggersSpec

(* The flow of a job is started at most once, whatever nodes stop, crash and start again. *)
THEOREM JobStarted == TriggersSpec => []JobStartedOnce
  <1>1. TriggersInv => JobStartedOnce
    BY Zenon DEF TriggersInv
  <1> QED BY <1>1, TriggersInvariant, PTL

(* An active job is in the memory of its node, or that node is down, or the job has ended, *)
(* or a statement about it failed.                                                          *)
THEOREM ActiveHeld == TriggersSpec => []ActiveIsHeld
  <1>1. TriggersInv => ActiveIsHeld
    <2> SUFFICES ASSUME TriggersInv, NEW j \in Jobs \ lost, job[j].state = "active", ~job[j].stopped
                 PROVE  LET n == job[j].node
                        IN \/ stop[n] = "down" \/ j \in fetched[n] \cup runs[n]
                           \/ \E i \in 1..Len(jobs[n]) : jobs[n][i] = j
      BY Zenon DEF ActiveIsHeld
    <2> QED BY Zenon DEF TriggersInv, ActiveInMemory, Memory, Queue
  <1> QED BY <1>1, TriggersInvariant, PTL

------------------------------------------------------------------------------
(* Expiry. *)

(* The types the argument about Expiry needs. *)
ExpiryPlain ==
    /\ member \in [Members -> {"open", "late", "stopped"}] /\ batch \subseteq Members
    /\ poolJobs \in Seq(Members) /\ workers \subseteq Members /\ hooks \in [Members -> Nat]

(* Members whose hook is still to be started. *)
ToTell == batch \cup Queue(poolJobs) \cup workers

(* They are stopped members of queues with a hook, and their hook was not started. *)
ToldLater == \A m \in ToTell : m \in Hooked /\ member[m] = "stopped" /\ hooks[m] = 0

(* Each of them is at one place. *)
OnePlace ==
    /\ Distinct(poolJobs) /\ batch \cap Queue(poolJobs) = {}
    /\ batch \cap workers = {} /\ Queue(poolJobs) \cap workers = {}

(* The inductive invariant behind ExpiredOnce. *)
ExpiryInv == ExpiryPlain /\ ToldLater /\ OnePlace /\ ExpiredOnce

(* Every step of the watcher, of the pool and of time keeps it. *)
LEMMA ExpiryStep == ExpiryInv /\ [ExpiryNext]_expiryVars => ExpiryInv'
  <1> SUFFICES ASSUME ExpiryInv, [ExpiryNext]_expiryVars PROVE ExpiryInv'
    BY Zenon
  <1>0. Queue(poolJobs) \subseteq Members /\ Hooked \subseteq Members
    BY ExpiryAssumption DEF ExpiryInv, ExpiryPlain, Queue
  <1>1. CASE UNCHANGED <<member, batch, poolJobs, workers, hooks>>
    <2>1. ExpiryPlain' /\ OnePlace'
      BY <1>1 DEF ExpiryInv, ExpiryPlain, OnePlace, Queue, Distinct
    <2>2. ToldLater' /\ ExpiredOnce'
      BY <1>1 DEF ExpiryInv, ToldLater, ToTell, ExpiredOnce, Queue
    <2> QED BY Zenon, <2>1, <2>2 DEF ExpiryInv
  <1>2. ASSUME NEW m \in Members, Late(m) PROVE ExpiryInv'
    <2>1. UNCHANGED <<batch, poolJobs, workers, hooks>>
      BY Zenon, <1>2 DEF Late
    <2>2. /\ member' \in [Members -> {"open", "late", "stopped"}]
          /\ \A k \in Members : member[k] = "stopped" => member'[k] = "stopped"
          /\ \A k \in Members : member[k] # "stopped" => member'[k] # "stopped"
      BY Zenon, <1>2 DEF Late, ExpiryInv, ExpiryPlain
    <2>3. ExpiryPlain' /\ OnePlace'
      BY <2>1, <2>2 DEF ExpiryInv, ExpiryPlain, OnePlace, Queue, Distinct
    <2>4. ToldLater'
      BY <1>0, <2>1, <2>2 DEF ExpiryInv, ExpiryPlain, ToldLater, ToTell, Queue
    <2>5. ExpiredOnce'
      BY Zenon, <2>1, <2>2 DEF ExpiryInv, ExpiryPlain, ExpiredOnce
    <2> QED BY Zenon, <2>3, <2>4, <2>5 DEF ExpiryInv
  <1>3. CASE Job
    <2>1. PICK chosen \in SUBSET Members : SetExpired(chosen) /\ batch' = chosen \cap Hooked
      BY Zenon, <1>3 DEF Job
    <2>2. UNCHANGED <<poolJobs, workers, hooks>>
      BY Zenon, <1>3 DEF Job
    <2>3. /\ \A k \in chosen : member[k] = "late"
          /\ member' = [k \in Members |-> IF k \in chosen THEN "stopped" ELSE member[k]]
      BY Zenon, <2>1 DEF SetExpired
    <2>4. ExpiryPlain'
      BY Zenon, <2>1, <2>2, <2>3 DEF ExpiryInv, ExpiryPlain
    <2>5. \A k \in chosen : hooks[k] = 0 /\ k \notin Queue(poolJobs) \cup workers
      <3> SUFFICES ASSUME NEW k \in chosen PROVE hooks[k] = 0 /\ k \notin Queue(poolJobs) \cup workers
        BY Zenon
      <3>1. k \notin ToTell
        BY Zenon, <2>3 DEF ExpiryInv, ToldLater
      <3>2. hooks[k] \in Nat /\ hooks[k] =< 0
        BY Zenon, <2>3 DEF ExpiryInv, ExpiryPlain, ExpiredOnce
      <3> QED BY <3>1, <3>2 DEF ToTell
    <2>6. ToldLater'
      <3> SUFFICES ASSUME NEW k \in batch' \cup Queue(poolJobs) \cup workers
                   PROVE  k \in Hooked /\ member'[k] = "stopped" /\ hooks[k] = 0
        BY Zenon, <2>2 DEF ToldLater, ToTell, Queue
      <3>1. CASE k \in batch'
        BY Zenon, <2>1, <2>3, <2>5, <3>1
      <3>2. CASE k \in Queue(poolJobs) \cup workers
        <4>1. k \in Members /\ k \in Hooked /\ member[k] = "stopped" /\ hooks[k] = 0
          BY Zenon, <1>0, <3>2 DEF ExpiryInv, ExpiryPlain, ToldLater, ToTell
        <4> QED BY Zenon, <2>3, <4>1
      <3> QED BY Zenon, <3>1, <3>2
    <2>7. OnePlace'
      BY <2>1, <2>2, <2>5 DEF ExpiryInv, OnePlace, Queue, Distinct
    <2>8. ExpiredOnce'
      <3> SUFFICES ASSUME NEW k \in Members
                   PROVE  hooks[k] =< IF k \in Hooked /\ member'[k] = "stopped" THEN 1 ELSE 0
        BY Zenon, <2>2 DEF ExpiredOnce
      <3>1. hooks[k] \in Nat /\ hooks[k] =< IF k \in Hooked /\ member[k] = "stopped" THEN 1 ELSE 0
        BY Zenon DEF ExpiryInv, ExpiryPlain, ExpiredOnce
      <3> QED BY <2>3, <2>5, <3>1
    <2> QED BY Zenon, <2>4, <2>6, <2>7, <2>8 DEF ExpiryInv
  <1>4. CASE Exec
    <2>1. PICK m \in batch : batch' = batch \ {m} /\ poolJobs' = Append(poolJobs, m)
      BY Zenon, <1>4 DEF Exec
    <2>2. UNCHANGED <<member, workers, hooks>>
      BY Zenon, <1>4 DEF Exec
    <2>3. m \in Members /\ m \notin Queue(poolJobs) /\ m \notin workers
      BY Zenon DEF ExpiryInv, ExpiryPlain, OnePlace
    <2>4. /\ poolJobs' \in Seq(Members) /\ Queue(poolJobs') = Queue(poolJobs) \cup {m}
          /\ Distinct(poolJobs')
      BY <2>1, <2>3, Sent DEF ExpiryInv, ExpiryPlain, OnePlace
    <2>5. ExpiryPlain' /\ OnePlace'
      BY Zenon, <2>1, <2>2, <2>3, <2>4 DEF ExpiryInv, ExpiryPlain, OnePlace
    <2>6. batch' \cup Queue(poolJobs') \cup workers' = ToTell
      BY Zenon, <2>1, <2>2, <2>4 DEF ToTell
    <2>7. ToldLater' /\ ExpiredOnce'
      BY Zenon, <2>2, <2>6 DEF ExpiryInv, ToldLater, ToTell, ExpiredOnce
    <2> QED BY Zenon, <2>5, <2>7 DEF ExpiryInv
  <1>5. CASE Worker
    <2> DEFINE m == Head(poolJobs)
    <2>1. poolJobs # <<>> /\ workers' = workers \cup {m} /\ poolJobs' = Tail(poolJobs)
          /\ UNCHANGED <<member, batch, hooks>>
      BY Zenon, <1>5 DEF Worker
    <2>2. /\ poolJobs' \in Seq(Members) /\ m \in Members /\ Distinct(poolJobs')
          /\ m \in Queue(poolJobs) /\ Queue(poolJobs') = Queue(poolJobs) \ {m}
      BY Zenon, <2>1, Received DEF ExpiryInv, ExpiryPlain, OnePlace
    <2> HIDE DEF m
    <2>3. ExpiryPlain' /\ OnePlace'
      BY Zenon, <2>1, <2>2 DEF ExpiryInv, ExpiryPlain, OnePlace
    <2>4. batch' \cup Queue(poolJobs') \cup workers' = ToTell
      BY Zenon, <2>1, <2>2 DEF ToTell
    <2>5. ToldLater' /\ ExpiredOnce'
      BY Zenon, <2>1, <2>4 DEF ExpiryInv, ToldLater, ToTell, ExpiredOnce
    <2> QED BY Zenon, <2>3, <2>5 DEF ExpiryInv
  <1>6. ASSUME NEW m \in Members, Execute(m) PROVE ExpiryInv'
    <2>1. /\ m \in workers /\ workers' = workers \ {m} /\ hooks' = [hooks EXCEPT ![m] = @ + 1]
          /\ UNCHANGED <<member, batch, poolJobs>>
      BY Zenon, <1>6 DEF Execute
    <2>2. m \in Hooked /\ member[m] = "stopped" /\ hooks[m] = 0
      BY Zenon, <2>1 DEF ExpiryInv, ToldLater, ToTell
    <2>3. /\ hooks' \in [Members -> Nat] /\ hooks'[m] = 1
          /\ \A k \in Members \ {m} : hooks'[k] = hooks[k]
      BY <2>1, <2>2 DEF ExpiryInv, ExpiryPlain
    <2>4. ExpiryPlain' /\ OnePlace'
      BY <2>1, <2>3 DEF ExpiryInv, ExpiryPlain, OnePlace, Queue, Distinct
    <2>5. ToldLater'
      <3> SUFFICES ASSUME NEW k \in batch \cup Queue(poolJobs) \cup workers'
                   PROVE  k \in Hooked /\ member[k] = "stopped" /\ hooks'[k] = 0
        BY <2>1 DEF ToldLater, ToTell, Queue
      <3>1. k \in ToTell /\ k \in Members /\ k # m
        BY Zenon, <1>0, <2>1 DEF ToTell, ExpiryInv, ExpiryPlain, OnePlace
      <3> QED BY Zenon, <2>3, <3>1 DEF ExpiryInv, ToldLater
    <2>6. ExpiredOnce'
      BY <2>1, <2>2, <2>3 DEF ExpiryInv, ExpiredOnce
    <2> QED BY Zenon, <2>4, <2>5, <2>6 DEF ExpiryInv
  <1> QED BY Zenon, <1>1, <1>2, <1>3, <1>4, <1>5, <1>6 DEF ExpiryNext, WatcherGoes, PoolGoes, expiryVars,
             WatcherStart, Poll, JobReturns, WatcherStop, WatcherEnds

(* The leaving hook of an expired member is started at most once, and only after its *)
(* member was stopped, whatever the limit, the number of workers and the buffer are.  *)
THEOREM HookStartedOnce == ExpirySpec => []ExpiredOnce
  <1>1. ExpiryInit => ExpiryInv
    <2> SUFFICES ASSUME ExpiryInit PROVE ExpiryInv
      BY Zenon
    <2>1. ExpiryPlain /\ ExpiredOnce
      BY DEF ExpiryInit, ExpiryPlain, ExpiredOnce
    <2>2. Queue(poolJobs) = {} /\ Distinct(poolJobs)
      BY DEF ExpiryInit, Queue, Distinct
    <2> QED BY Zenon, <2>1, <2>2 DEF ExpiryInit, ExpiryInv, ToldLater, ToTell, OnePlace
  <1>2. ExpiryInv => ExpiredOnce
    BY Zenon DEF ExpiryInv
  <1> QED BY <1>1, <1>2, ExpiryStep, PTL DEF ExpirySpec

==============================================================================
