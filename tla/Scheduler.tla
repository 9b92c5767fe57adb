----------------------------- MODULE Scheduler -----------------------------
(***************************************************************************)
(* The scheduler loop, the processes it launches and the monitor task it   *)
(* spawns for each of them (daemon/src/daemon/scheduler.rs).               *)
(*                                                                         *)
(* One step is the code between two awaits that touch shared state.  The   *)
(* scheduler works on copies: a pass takes all queues, then all tasks,     *)
(* under two separate locks, and every later step of the pass looks at     *)
(* those copies while handlers and monitors go on changing the tables.     *)
(*                                                                         *)
(* Abstracted: queues and tasks are taken in any order (module Priorities  *)
(* adds the order of tasks, and is a refinement), and the GPUs a queue     *)
(* finds usable are any member of UsableGpus (statistics, limits and       *)
(* ignored GPUs change outside this model).  A process id is never reused. *)
(***************************************************************************)
EXTENDS DaemonState

CONSTANTS
    UsableGpus,     \* the sets of GPUs that may qualify, were all allocated
    Faults          \* which of "launch", "probe", "wait" may fail

ASSUME UsableAssumption == UsableGpus \subseteq SUBSET Gpus

VARIABLES
    pc,             \* where the scheduler loop is
    toProcess,      \* by queue: its waiting ids in the pass's copies, not yet handled
    curQueue,       \* the queue whose tasks the pass is going through
    freeGpus,       \* available_gpus_for_queue less assigned_gpus_in_cycle
    curTask,        \* the task being started
    child,          \* the process spawned for it, no monitor yet
    probing,        \* update_tasks: <<task, pid>> copied, pid not yet probed
    toUpdate,       \* tasks_to_update
    procs           \* the processes and what their monitors know

schedulerVars == <<pc, toProcess, curQueue, freeGpus, curTask, child, probing, toUpdate>>

-----------------------------------------------------------------------------
SchedulerPc == {"tasks", "pick", "fetch", "launch", "setpid", "fail", "update"}

\* status is the operating system's view, monitor the daemon's: "Reporting"
\* is a monitor whose wait() has returned and whose update is still to come.
Process == [task : TaskIds \cup {Nil}, status : {"Unused", "Alive", "Zombie", "Gone"},
            monitor : {"None", "Waiting", "Reporting", "Done"},
            ok : BOOLEAN, signalled : BOOLEAN]

NoProcess == [task |-> Nil, status |-> "Unused", monitor |-> "None",
              ok |-> FALSE, signalled |-> FALSE]

Living(p) == procs[p].status \in {"Alive", "Zombie"}

InitScheduler ==
    /\ pc = "update"
    /\ toProcess = [q \in QueueNames |-> {}]
    /\ curQueue = Nil
    /\ freeGpus = {}
    /\ curTask = Nil
    /\ child = Nil
    /\ probing = {}
    /\ toUpdate = {}
    /\ procs = [p \in Pids |-> NoProcess]

-----------------------------------------------------------------------------
(* schedule_tasks: the copies a pass works on.                              *)

\* The limit is tested against the running list of the copy, for every task.
Eligible(q) ==
    /\ queues[q].exists
    /\ q # WaitingQueue
    /\ Cardinality(queues[q].running) < MaxConcurrent(q)

\* The sleep is over and get_all_queues returns.
SnapshotQueues ==
    /\ pc = "update" /\ probing = {} /\ toUpdate = {}
    /\ toProcess' = [q \in QueueNames |-> IF Eligible(q) THEN queues[q].waiting ELSE {}]
    /\ pc' = "tasks"
    /\ UNCHANGED <<curQueue, freeGpus, curTask, child, probing, toUpdate, procs, tables>>

\* Mutant of SnapshotTasks: any listed task that exists is processed.
SnapshotTasksUnfiltered ==
    /\ pc = "tasks"
    /\ toProcess' = [q \in QueueNames |-> {t \in toProcess[q] : Present(t)}]
    /\ pc' = "pick"
    /\ UNCHANGED <<curQueue, freeGpus, curTask, child, probing, toUpdate, procs, tables>>

\* get_all_tasks: only ids that name a Waiting task stay.
SnapshotTasks ==
    /\ pc = "tasks"
    /\ toProcess' = [q \in QueueNames |->
                        {t \in toProcess[q] : tasks[t].state = "Waiting"}]
    /\ pc' = "pick"
    /\ UNCHANGED <<curQueue, freeGpus, curTask, child, probing, toUpdate, procs, tables>>

EnterQueue(q) ==
    /\ pc = "pick"
    /\ curQueue # Nil => toProcess[curQueue] = {}
    /\ toProcess[q] # {}
    /\ curQueue' = q
    /\ \E usable \in UsableGpus : freeGpus' = AllocatedGpus(q) \cap usable
    /\ UNCHANGED <<pc, toProcess, curTask, child, probing, toUpdate, procs, tables>>

-----------------------------------------------------------------------------
(* schedule_tasks: one task of the current queue.                           *)

NextTask(t) ==
    /\ pc = "pick" /\ curQueue # Nil /\ t \in toProcess[curQueue]
    /\ toProcess' = [toProcess EXCEPT ![curQueue] = @ \ {t}]

\* Too few GPUs: the task waits for a later pass.
PassOver(t) ==
    /\ NextTask(t)
    /\ tasks[t].gpu_require > Cardinality(freeGpus)
    /\ UNCHANGED <<pc, curQueue, freeGpus, curTask, child, probing, toUpdate, procs, tables>>

\* The copy outlives the task: if it was removed meanwhile update_task_state
\* fails, its GPUs go back and the pass goes on.
SkipRemoved(t) ==
    /\ NextTask(t)
    /\ ~Present(t)
    /\ UNCHANGED <<pc, curQueue, freeGpus, curTask, child, probing, toUpdate, procs, tables>>

\* Mutant of StartTask: the GPUs of the task are not taken off the pass's.
StartTaskUnreserved(t, gpus) ==
    /\ NextTask(t)
    /\ Present(t)
    /\ gpus \subseteq freeGpus /\ Cardinality(gpus) = tasks[t].gpu_require
    /\ UpdateTaskState(t, "Running", gpus)
    /\ curTask' = t
    /\ pc' = "fetch"
    /\ UNCHANGED <<curQueue, freeGpus, child, probing, toUpdate, procs>>

StartTask(t, gpus) ==
    /\ NextTask(t)
    /\ Present(t)
    /\ gpus \subseteq freeGpus /\ Cardinality(gpus) = tasks[t].gpu_require
    /\ UpdateTaskState(t, "Running", gpus)
    /\ freeGpus' = freeGpus \ gpus
    /\ curTask' = t
    /\ pc' = "fetch"
    /\ UNCHANGED <<curQueue, child, probing, toUpdate, procs>>

\* The task is read back for launching; it may be gone by now.
FetchTask ==
    /\ pc = "fetch"
    /\ pc' = IF Present(curTask) THEN "launch" ELSE "fail"
    /\ UNCHANGED <<toProcess, curQueue, freeGpus, curTask, child, probing, toUpdate,
                   procs, tables>>

-----------------------------------------------------------------------------
(* launch_task_process.                                                     *)

Spawn(p) ==
    /\ pc = "launch"
    /\ procs[p].status = "Unused"
    /\ procs' = [procs EXCEPT ![p].task = curTask, ![p].status = "Alive"]
    /\ child' = p
    /\ pc' = "setpid"
    /\ UNCHANGED <<toProcess, curQueue, freeGpus, curTask, probing, toUpdate, tables>>

\* No log file, a command that does not parse, or a failed spawn.
LaunchFails ==
    /\ pc = "launch" /\ "launch" \in Faults
    /\ pc' = "fail"
    /\ UNCHANGED <<toProcess, curQueue, freeGpus, curTask, child, probing, toUpdate,
                   procs, tables>>

\* Mutant of SetPid: the monitor starts and the pid is never stored.
SetPidForgotten ==
    /\ pc = "setpid"
    /\ procs' = [procs EXCEPT ![child].monitor = "Waiting"]
    /\ child' = Nil /\ curTask' = Nil
    /\ pc' = "pick"
    /\ UNCHANGED <<toProcess, curQueue, freeGpus, probing, toUpdate, tables>>

\* Only after the pid is stored (or the task found gone) does the monitor start.
SetPid ==
    /\ pc = "setpid"
    /\ SetTaskPid(curTask, child)
    /\ procs' = [procs EXCEPT ![child].monitor = "Waiting"]
    /\ child' = Nil /\ curTask' = Nil
    /\ pc' = "pick"
    /\ UNCHANGED <<toProcess, curQueue, freeGpus, probing, toUpdate>>

\* Mutant of RecordFailure: the failure is only logged.
RecordFailureLogged ==
    /\ pc = "fail"
    /\ curTask' = Nil
    /\ pc' = "pick"
    /\ UNCHANGED <<toProcess, curQueue, freeGpus, child, probing, toUpdate, procs, tables>>

\* The GPUs are passed again, which the task already has: no change of gpu_ids.
RecordFailure ==
    /\ pc = "fail"
    /\ UpdateTaskState(curTask, "Failed", Nil)
    /\ curTask' = Nil
    /\ pc' = "pick"
    /\ UNCHANGED <<toProcess, curQueue, freeGpus, child, probing, toUpdate, procs>>

-----------------------------------------------------------------------------
(* update_tasks.                                                            *)

\* Mutant of SnapshotRunning: every task without a pid counts as running.
SnapshotUnfiltered ==
    /\ pc = "pick" /\ \A q \in QueueNames : toProcess[q] = {}
    /\ probing' = {<<t, tasks[t].pid>> : t \in {r \in TaskIds : tasks[r].pid # Nil}}
    /\ toUpdate' = {t \in TaskIds : Present(t) /\ tasks[t].pid = Nil}
    /\ curQueue' = Nil /\ freeGpus' = {}
    /\ pc' = "update"
    /\ UNCHANGED <<toProcess, curTask, child, procs, tables>>

SnapshotRunning ==
    /\ pc = "pick" /\ \A q \in QueueNames : toProcess[q] = {}
    /\ LET running == {t \in TaskIds : tasks[t].state = "Running"} IN
       /\ probing' = {<<t, tasks[t].pid>> : t \in {r \in running : tasks[r].pid # Nil}}
       /\ toUpdate' = {t \in running : tasks[t].pid = Nil}
    /\ curQueue' = Nil /\ freeGpus' = {}
    /\ pc' = "update"
    /\ UNCHANGED <<toProcess, curTask, child, procs, tables>>

\* Mutant of Probe: a zombie counts as dead.
ProbeZombieDead(t, p) ==
    /\ pc = "update" /\ <<t, p>> \in probing
    /\ probing' = probing \ {<<t, p>>}
    /\ toUpdate' = IF procs[p].status = "Alive" THEN toUpdate ELSE toUpdate \cup {t}
    /\ UNCHANGED <<pc, toProcess, curQueue, freeGpus, curTask, child, procs, tables>>

\* "kill -0" finds zombies alive; a kill that cannot be run counts as dead.
Probe(t, p) ==
    /\ pc = "update" /\ <<t, p>> \in probing
    /\ probing' = probing \ {<<t, p>>}
    /\ \/ Living(p) /\ UNCHANGED toUpdate
       \/ (~Living(p) \/ "probe" \in Faults) /\ toUpdate' = toUpdate \cup {t}
    /\ UNCHANGED <<pc, toProcess, curQueue, freeGpus, curTask, child, procs, tables>>

MarkFailed(t) ==
    /\ pc = "update" /\ probing = {} /\ t \in toUpdate
    /\ UpdateTaskState(t, "Failed", Nil)
    /\ toUpdate' = toUpdate \ {t}
    /\ UNCHANGED <<pc, toProcess, curQueue, freeGpus, curTask, child, probing, procs>>

-----------------------------------------------------------------------------
(* The processes and their monitors.                                        *)

Exit(p, ok) ==
    /\ procs[p].status = "Alive"
    /\ procs' = [procs EXCEPT ![p].status = "Zombie", ![p].ok = ok]
    /\ UNCHANGED <<schedulerVars, tables>>

\* wait() returns to the monitor; once the monitor is gone the runtime reaps.
Reap(p) ==
    /\ procs[p].status = "Zombie" /\ procs[p].monitor # "None"
    /\ procs' = [procs EXCEPT ![p].status = "Gone",
                              ![p].monitor = IF @ = "Waiting" THEN "Reporting" ELSE @]
    /\ UNCHANGED <<schedulerVars, tables>>

\* Mutant of Report: the exit status is not looked at.
ReportFinished(p) ==
    /\ procs[p].monitor = "Reporting"
    /\ UpdateTaskState(procs[p].task, "Finished", Nil)
    /\ procs' = [procs EXCEPT ![p].monitor = "Done"]
    /\ UNCHANGED schedulerVars

Report(p) ==
    /\ procs[p].monitor = "Reporting"
    /\ UpdateTaskState(procs[p].task, IF procs[p].ok THEN "Finished" ELSE "Failed", Nil)
    /\ procs' = [procs EXCEPT ![p].monitor = "Done"]
    /\ UNCHANGED schedulerVars

\* wait() returns an error: the task is failed whatever its process does.
WaitFails(p) ==
    /\ "wait" \in Faults /\ procs[p].monitor = "Waiting"
    /\ UpdateTaskState(procs[p].task, "Failed", Nil)
    /\ procs' = [procs EXCEPT ![p].monitor = "Done"]
    /\ UNCHANGED schedulerVars

-----------------------------------------------------------------------------
SchedulerStep ==
    \/ SnapshotQueues
    \/ SnapshotTasks
    \/ \E q \in QueueNames : EnterQueue(q)
    \/ \E t \in TaskIds : PassOver(t) \/ SkipRemoved(t)
    \/ \E t \in TaskIds, gpus \in SUBSET freeGpus : StartTask(t, gpus)
    \/ FetchTask
    \/ \E p \in Pids : Spawn(p)
    \/ LaunchFails
    \/ SetPid
    \/ RecordFailure
    \/ SnapshotRunning
    \/ \E t \in TaskIds, p \in Pids : Probe(t, p)
    \/ \E t \in TaskIds : MarkFailed(t)

MonitorStep(p) == Reap(p) \/ Report(p) \/ WaitFails(p)
=============================================================================
