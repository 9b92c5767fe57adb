----------------------------- MODULE Priorities -----------------------------
(***************************************************************************)
(* The daemon with the priorities of its tasks: a pass goes through the    *)
(* tasks of a queue from the highest priority down (scheduler.rs:145), a   *)
(* submission brings one and a client may change it at any time.           *)
(*                                                                         *)
(* Every action is one of module Gavel, which takes tasks in any order,    *)
(* with what it does to priorities; only SetPriority is none.  A pass      *)
(* sorts by the priorities it copied together with the tasks.              *)
(*                                                                         *)
(* Abstracted: tasks of equal priority come in any order (the code takes   *)
(* the older one first, by the second), and so do queues: no GPU is shared *)
(* by two of them in a pass.                                               *)
(***************************************************************************)
EXTENDS Gavel

CONSTANT Levels     \* the priorities a request may carry

ASSUME LevelAssumption == Levels \subseteq Nat

VARIABLES
    priority,       \* TaskMeta.priority, by task
    rank,           \* the pass's copy of it
    served,         \* the tasks the pass has started from the current queue,
    refused,        \* those it found too few GPUs for,
    started         \* and those it has started from any queue: history variables

order == <<priority, rank, served, refused, started>>
orderVars == <<vars, order>>

Unranked == [t \in TaskIds |-> 0]

OrderInit ==
    /\ Init
    /\ priority = Unranked /\ rank = Unranked
    /\ served = {} /\ refused = {} /\ started = {}

-----------------------------------------------------------------------------
(* The requests.                                                            *)

SubmitAt(t, q, need, level) ==
    /\ Submit(t, q, need)
    /\ priority' = [priority EXCEPT ![t] = level]
    /\ UNCHANGED <<rank, served, refused, started>>

\* queue priority: whatever the task's state, also in the middle of a pass.
SetPriority(t, level) ==
    /\ "priority" \in Ops
    /\ Present(t)
    /\ priority' = [priority EXCEPT ![t] = level]
    /\ UNCHANGED <<vars, rank, served, refused, started>>

-----------------------------------------------------------------------------
(* The pass.                                                                *)

\* get_all_tasks copies the priorities with the tasks.
RankTasks ==
    /\ SnapshotTasks
    /\ rank' = priority
    /\ UNCHANGED <<served, refused, started>>

\* assigned_gpus_in_cycle is made anew for each queue.
EnterOrdered(q) ==
    /\ EnterQueue(q)
    /\ served' = {} /\ refused' = {}
    /\ UNCHANGED <<rank, started>>

\* Mutant of First: the lowest priority comes first.
FirstLowest(t) ==
    curQueue # Nil => \A u \in toProcess[curQueue] : rank[t] =< rank[u]

\* tasks_in_queue_to_process is sorted by descending priority.
First(t) ==
    curQueue # Nil => \A u \in toProcess[curQueue] : rank[u] =< rank[t]

Refuse(t) ==
    /\ First(t) /\ PassOver(t)
    /\ refused' = refused \cup {t}
    /\ UNCHANGED <<rank, served, started>>

Serve(t, gpus) ==
    /\ First(t) /\ StartTask(t, gpus)
    /\ served' = served \cup {t} /\ started' = started \cup {t}
    /\ UNCHANGED <<rank, refused>>

SkipOrdered(t) ==
    /\ First(t) /\ SkipRemoved(t)
    /\ UNCHANGED <<rank, served, refused, started>>

EndPass ==
    /\ SnapshotRunning
    /\ rank' = Unranked
    /\ served' = {} /\ refused' = {} /\ started' = {}

\* The steps of the scheduler at which no task is chosen.
OtherStep ==
    \/ SnapshotQueues
    \/ FetchTask
    \/ \E p \in Pids : Spawn(p)
    \/ LaunchFails
    \/ SetPid
    \/ RecordFailure
    \/ \E t \in TaskIds, p \in Pids : Probe(t, p)
    \/ \E t \in TaskIds : MarkFailed(t)

OrderedStep ==
    \/ RankTasks
    \/ \E q \in QueueNames : EnterOrdered(q)
    \/ \E t \in TaskIds : Refuse(t) \/ SkipOrdered(t)
    \/ \E t \in TaskIds, gpus \in SUBSET freeGpus : Serve(t, gpus)
    \/ EndPass
    \/ OtherStep /\ UNCHANGED <<rank, served, refused, started>>

OrderedRuns == OrderedStep /\ UNCHANGED <<issued, handlers, priority>>

OrderNext ==
    \/ \E t \in TaskIds, q \in QueueNames, need \in GpuRequires, level \in Levels :
          SubmitAt(t, q, need, level)
    \/ \E t \in TaskIds, level \in Levels : SetPriority(t, level)
    \/ OrderedRuns
    \/ (\E c \in Clients : Check(c) \/ Apply(c)) /\ UNCHANGED order
    \/ (\E p \in Pids : MonitorRuns(p) \/ ProcessEnds(p)) /\ UNCHANGED order

OrderSpec == OrderInit /\ [][OrderNext]_orderVars

\* As Fairness of Gavel: ready tasks of the runtime are polled.
OrderFairness ==
    /\ WF_orderVars(OrderedRuns)
    /\ \A p \in Pids : WF_orderVars(MonitorNotices(p) /\ UNCHANGED order)
    /\ \A p \in Pids : WF_orderVars(procs[p].signalled /\ ProcessEnds(p) /\ UNCHANGED order)
    /\ \A c \in Clients : WF_orderVars(Apply(c) /\ UNCHANGED order)

-----------------------------------------------------------------------------
\* struct.md:83 in the sense the code gives it: in one pass no task of a queue
\* gets its GPUs while one of higher priority that asks for no more is refused,
\* whatever launches fail, tasks are removed and priorities change meanwhile.
\* (A smaller task may go first: the queue is not blocked by one that is too big.)
NoInversion ==
    \A t \in served, u \in refused :
        Present(t) /\ Present(u) /\ rank[t] < rank[u]
        => tasks[t].gpu_require < tasks[u].gpu_require

\* A running task has as many GPUs as it asked for, and no other task that the same
\* pass started has any of them, whatever queue it came from and whatever was
\* removed, moved or failed to launch meanwhile: the code counts the GPUs it has
\* given away anew for each queue (scheduler.rs:149).
GpusGivenOnce ==
    /\ \A t \in TaskIds : tasks[t].state = "Running" =>
          Cardinality(tasks[t].gpu_ids) = tasks[t].gpu_require
    /\ \A t, u \in started :
          t # u /\ Present(t) /\ Present(u) => tasks[t].gpu_ids \cap tasks[u].gpu_ids = {}
=============================================================================
