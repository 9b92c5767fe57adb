---------------------------- MODULE DaemonState ----------------------------
(***************************************************************************)
(* The tables the daemon shares between its scheduler, its process         *)
(* monitors and its connection handlers (daemon/src/daemon/state.rs).      *)
(*                                                                         *)
(* Both tables sit behind one RwLock.  A method of DaemonState takes the   *)
(* lock once and holds it to its end, so each method is one step here: an  *)
(* operator over the tables' primed values that other modules place in     *)
(* their actions.  A method that returns Err changes nothing.              *)
(*                                                                         *)
(* Abstracted: a queue's two id lists are sets (the code keeps them free   *)
(* of duplicates and sorts them before use), names, commands, log paths    *)
(* and failure reasons are left out, priorities are kept beside the tables *)
(* (module Priorities), and the GPU tables (statistics, allocations,       *)
(* ignored GPUs) appear only through the GPUs a pass finds usable.         *)
(***************************************************************************)
EXTENDS Integers, FiniteSets

CONSTANTS
    TaskIds,        \* every task id the daemon ever hands out
    QueueNames,     \* every queue name a request may carry
    WaitingQueue,   \* DEFAULT_WAITING_QUEUE_NAME, where tasks wait for "task run"
    RunningQueue,   \* DEFAULT_RUNNING_QUEUE_NAME, which owns all GPUs
    Pids,           \* identifiers of the processes the daemon spawns
    Gpus,           \* GPUs present when the daemon starts
    GpuRequires,    \* values of gpu_require a submission may carry
    Nil             \* None

ASSUME QueueAssumption ==
    /\ {WaitingQueue, RunningQueue} \subseteq QueueNames
    /\ WaitingQueue # RunningQueue

ASSUME NilAssumption == Nil \notin TaskIds \cup QueueNames \cup Pids

\* Some(vec![]) is not None.
ASSUME SomeAssumption == \A gpus \in SUBSET Gpus : gpus # Nil

ASSUME GpuAssumption == IsFiniteSet(Gpus) /\ GpuRequires \subseteq Nat

VARIABLES
    tasks,          \* InnerDaemonState.tasks
    queues          \* InnerDaemonState.queues

tables == <<tasks, queues>>

-----------------------------------------------------------------------------
TaskStates == {"Waiting", "Running", "Finished", "Failed"}
Terminal == {"Finished", "Failed"}

\* A task id that is not a key of the map has the state "Absent".
TaskMeta == [state : TaskStates \cup {"Absent"}, queue : QueueNames \cup {Nil},
             pid : Pids \cup {Nil}, gpu_require : GpuRequires \cup {0},
             gpu_ids : SUBSET Gpus]

NoTask == [state |-> "Absent", queue |-> Nil, pid |-> Nil, gpu_require |-> 0,
           gpu_ids |-> {}]

QueueMeta == [exists : BOOLEAN, waiting : SUBSET TaskIds, running : SUBSET TaskIds]

NoQueue == [exists |-> FALSE, waiting |-> {}, running |-> {}]
EmptyQueue == [exists |-> TRUE, waiting |-> {}, running |-> {}]

\* The limits of a queue are fixed when it is made and no method changes them.
AllocatedGpus(q) == IF q = RunningQueue THEN Gpus ELSE {}
MaxConcurrent(q) == IF q = RunningQueue /\ Gpus # {} THEN Cardinality(Gpus) ELSE 1

Present(t) == tasks[t].state # "Absent"

\* The tables as the daemon opens its socket: the default queues and no task.
InitTables ==
    /\ tasks = [t \in TaskIds |-> NoTask]
    /\ queues = [q \in QueueNames |->
                    IF q \in {WaitingQueue, RunningQueue} THEN EmptyQueue ELSE NoQueue]

-----------------------------------------------------------------------------
(* List surgery inside one queue record.                                    *)

\* Mutant of Delist: only the waiting list is cleaned.
DelistKeepsSlot(queue, t, state) ==
    [queue EXCEPT !.waiting = IF state = "Waiting" THEN @ \ {t} ELSE @]

\* update_task_state takes an id off the list of its old state only.
Delist(queue, t, state) ==
    [queue EXCEPT !.waiting = IF state = "Waiting" THEN @ \ {t} ELSE @,
                  !.running = IF state = "Running" THEN @ \ {t} ELSE @]

\* Mutant of Purge: a task that is moved stays on its old waiting list.
PurgeKeepsWaiting(queue, t, state) ==
    [queue EXCEPT !.running = @ \ {t}]

\* A move or a removal also clears both lists of an ended task's id.
Purge(queue, t, state) ==
    [queue EXCEPT !.waiting = IF state = "Running" THEN @ ELSE @ \ {t},
                  !.running = IF state = "Waiting" THEN @ ELSE @ \ {t}]

Enlist(queue, t, state) ==
    [queue EXCEPT !.waiting = IF state = "Waiting" THEN @ \cup {t} ELSE @,
                  !.running = IF state = "Running" THEN @ \cup {t} ELSE @]

-----------------------------------------------------------------------------
(* The methods.                                                             *)

\* Mutant of AddTask: a queue made for the task starts out empty.
AddTaskUnlisted(t, q, need) ==
    /\ tasks' = [tasks EXCEPT ![t] =
                    [NoTask EXCEPT !.state = "Waiting", !.queue = q, !.gpu_require = need]]
    /\ queues' = [queues EXCEPT ![q] =
                    IF @.exists THEN Enlist(@, t, "Waiting") ELSE EmptyQueue]

\* Mutant of AddTask: a missing queue is not made.
AddTaskUnqueued(t, q, need) ==
    /\ tasks' = [tasks EXCEPT ![t] =
                    [NoTask EXCEPT !.state = "Waiting", !.queue = q, !.gpu_require = need]]
    /\ queues' = [queues EXCEPT ![q] = IF @.exists THEN Enlist(@, t, "Waiting") ELSE @]

\* Overwrites whatever the id named before, and makes a missing queue.
AddTask(t, q, need) ==
    /\ tasks' = [tasks EXCEPT ![t] =
                    [NoTask EXCEPT !.state = "Waiting", !.queue = q, !.gpu_require = need]]
    /\ queues' = [queues EXCEPT ![q] =
                    Enlist(IF @.exists THEN @ ELSE EmptyQueue, t, "Waiting")]

SetTaskPid(t, pid) ==
    /\ tasks' = IF Present(t) THEN [tasks EXCEPT ![t].pid = pid] ELSE tasks
    /\ UNCHANGED queues

\* Mutant of UpdateTaskState: an absent assignment is recorded like any other.
UpdateTaskStateDropsGpus(t, state, gpus) ==
    IF Present(t)
    THEN /\ tasks' = [tasks EXCEPT ![t].state = state,
                                   ![t].gpu_ids = IF gpus = Nil THEN {Nil} ELSE gpus]
         /\ queues' = [queues EXCEPT ![tasks[t].queue] =
                          IF tasks[t].state = state THEN @
                          ELSE Enlist(Delist(@, t, tasks[t].state), t, state)]
    ELSE UNCHANGED tables

\* Mutant of UpdateTaskState: a running task its queue does not list is ignored.
UpdateTaskStateListedOnly(t, state, gpus) ==
    IF Present(t) /\ t \in queues[tasks[t].queue].waiting \cup queues[tasks[t].queue].running
        /\ (tasks[t].state = "Running" => t \in queues[tasks[t].queue].running)
    THEN /\ tasks' = [tasks EXCEPT ![t].state = state,
                                   ![t].gpu_ids = IF gpus = Nil THEN @ ELSE gpus]
         /\ queues' = [queues EXCEPT ![tasks[t].queue] =
                          Enlist(Delist(@, t, tasks[t].state), t, state)]
    ELSE UNCHANGED tables

\* gpus is Nil where the caller passes no assignment.
UpdateTaskState(t, state, gpus) ==
    IF Present(t)
    THEN /\ tasks' = [tasks EXCEPT ![t].state = state,
                                   ![t].gpu_ids = IF gpus = Nil THEN @ ELSE gpus]
         /\ queues' = [queues EXCEPT ![tasks[t].queue] =
                          IF tasks[t].state = state THEN @
                          ELSE Enlist(Delist(@, t, tasks[t].state), t, state)]
    ELSE UNCHANGED tables

\* Whatever the task's state, its id joins the new queue's WAITING list.
UpdateTaskQueue(t, dest) ==
    IF queues[dest].exists /\ Present(t) /\ tasks[t].queue # dest
    THEN /\ tasks' = [tasks EXCEPT ![t].queue = dest]
         /\ queues' = [queues EXCEPT
                          ![tasks[t].queue] = Purge(@, t, tasks[t].state),
                          ![dest].waiting = IF t \in queues[dest].running THEN @
                                            ELSE @ \cup {t}]
    ELSE UNCHANGED tables

RemoveTask(t) ==
    IF Present(t)
    THEN /\ tasks' = [tasks EXCEPT ![t] = NoTask]
         /\ queues' = [queues EXCEPT ![tasks[t].queue] = Purge(@, t, tasks[t].state)]
    ELSE UNCHANGED tables

\* Replaces a queue of the same name, its lists included.
AddQueue(q) ==
    /\ queues' = [queues EXCEPT ![q] = EmptyQueue]
    /\ UNCHANGED tasks
=============================================================================
