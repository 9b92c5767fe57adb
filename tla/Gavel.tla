------------------------------- MODULE Gavel -------------------------------
(***************************************************************************)
(* The daemon: the scheduler of module Scheduler composed with the         *)
(* connection handlers (daemon/src/daemon/handlers/*.rs), which run        *)
(* concurrently with it and with one another.                              *)
(*                                                                         *)
(* A handler reads the tables, decides, and then calls the method that     *)
(* changes them: between the two it holds no lock.  A request the handler  *)
(* refuses gets an error reply and changes nothing, so it is no step here. *)
(* The reads after the first are merged into the following step: queues    *)
(* are never deleted, so a check that one exists stays true.               *)
(*                                                                         *)
(* Covered: submit (all three forms add one task per lock), task run,      *)
(* kill and remove, queue create, move and merge, and what gpu release     *)
(* does to tasks.  Not covered here: the read-only requests, priorities    *)
(* (module Priorities), limits and the GPU tables (module GpuTables).      *)
(* Task ids are assumed not to be reused.                                  *)
(***************************************************************************)
EXTENDS Scheduler

CONSTANTS
    Clients,        \* connections served at the same time
    Ops             \* the requests clients make: a bound on a run

VARIABLES
    issued,         \* the ids generate_task_id has handed out
    handlers        \* by client: the request being handled, after its check

vars == <<issued, handlers, schedulerVars, procs, tables>>

-----------------------------------------------------------------------------
(* What a handler remembers between its check and its call.                 *)

HandlerOps == {"idle", "run", "move", "merge", "remove", "create", "kill", "release"}

Handler == [op : HandlerOps, todo : SUBSET TaskIds, dest : QueueNames \cup {Nil},
            pid : Pids \cup {Nil}]

Idle == [op |-> "idle", todo |-> {}, dest |-> Nil, pid |-> Nil]

Moving == {"run", "move", "merge"}

Init ==
    /\ InitTables
    /\ InitScheduler
    /\ issued = {}
    /\ handlers = [c \in Clients |-> Idle]

Accept(c, op) == op \in Ops /\ handlers[c].op = "idle"

Remember(c, h) ==
    /\ handlers' = [handlers EXCEPT ![c] = h]
    /\ UNCHANGED <<issued, schedulerVars, procs, tables>>

-----------------------------------------------------------------------------
(* submit_handler.rs: the id is new, the task is added, the reply is sent.  *)

\* Mutant of Submit: generate_task_id hands out an id a second time.
SubmitRepeatsId(t, q, need) ==
    /\ "submit" \in Ops
    /\ ~Present(t)
    /\ issued' = issued \cup {t}
    /\ AddTask(t, q, need)
    /\ UNCHANGED <<handlers, schedulerVars, procs>>

Submit(t, q, need) ==
    /\ "submit" \in Ops
    /\ t \notin issued
    /\ issued' = issued \cup {t}
    /\ AddTask(t, q, need)
    /\ UNCHANGED <<handlers, schedulerVars, procs>>

-----------------------------------------------------------------------------
(* task_handler.rs.                                                         *)

\* The queue is all that is looked at, not the state.
RunCheck(c, t) ==
    /\ Accept(c, "run") /\ Present(t)
    /\ tasks[t].queue = WaitingQueue
    /\ Remember(c, [op |-> "run", todo |-> {t}, dest |-> RunningQueue, pid |-> Nil])

RemoveCheck(c, t) ==
    /\ Accept(c, "remove") /\ Present(t)
    /\ tasks[t].state # "Running"
    /\ Remember(c, [op |-> "remove", todo |-> {t}, dest |-> Nil, pid |-> Nil])

RemoveApply(c) ==
    /\ handlers[c].op = "remove"
    /\ \E t \in handlers[c].todo : RemoveTask(t)
    /\ handlers' = [handlers EXCEPT ![c] = Idle]
    /\ UNCHANGED <<issued, schedulerVars, procs>>

KillCheck(c, t) ==
    /\ Accept(c, "kill")
    /\ tasks[t].state = "Running" /\ tasks[t].pid # Nil
    /\ Remember(c, [op |-> "kill", todo |-> {}, dest |-> Nil, pid |-> tasks[t].pid])

\* Mutant of KillSignal: the signal does not reach the process.
KillSignalLost(c) ==
    /\ handlers[c].pid # Nil
    /\ LET h == handlers[c] IN
       handlers' = [handlers EXCEPT ![c] = IF h.todo = {} THEN Idle ELSE [h EXCEPT !.pid = Nil]]
    /\ UNCHANGED <<issued, procs, schedulerVars, tables>>

\* SIGTERM reaches a living process; a zombie ignores it, a reaped one is an error.
KillSignal(c) ==
    /\ handlers[c].pid # Nil
    /\ LET h == handlers[c] IN
       /\ procs' = [procs EXCEPT ![h.pid].signalled = @ \/ procs[h.pid].status = "Alive"]
       /\ handlers' = [handlers EXCEPT ![c] = IF h.todo = {} THEN Idle
                                                ELSE [h EXCEPT !.pid = Nil]]
    /\ UNCHANGED <<issued, schedulerVars, tables>>

-----------------------------------------------------------------------------
(* gpu_handler.rs: a release kills the tasks it finds on the GPU.           *)

ReleaseCheck(c, gpu) ==
    /\ Accept(c, "release")
    /\ LET found == {t \in TaskIds : tasks[t].state = "Running" /\ gpu \in tasks[t].gpu_ids} IN
       /\ found # {}
       /\ Remember(c, [op |-> "release", todo |-> found, dest |-> Nil, pid |-> Nil])

\* handle_task_kill looks the task up again: it may have no pid yet, or none any more.
ReleaseKill(c, t) ==
    /\ handlers[c].op = "release" /\ handlers[c].pid = Nil
    /\ t \in handlers[c].todo
    /\ LET rest == handlers[c].todo \ {t}
           pid == IF tasks[t].state = "Running" THEN tasks[t].pid ELSE Nil IN
       Remember(c, IF rest = {} /\ pid = Nil THEN Idle
                   ELSE [op |-> "release", todo |-> rest, dest |-> Nil, pid |-> pid])

-----------------------------------------------------------------------------
(* queue_handler.rs.                                                        *)

MoveCheck(c, t, dest) ==
    /\ Accept(c, "move") /\ Present(t)
    /\ queues[dest].exists
    /\ tasks[t].queue # dest
    /\ Remember(c, [op |-> "move", todo |-> {t}, dest |-> dest, pid |-> Nil])

\* The ids to move are fixed here; nothing is checked again later.
MergeCheck(c, source, dest) ==
    /\ Accept(c, "merge") /\ source # dest
    /\ queues[source].exists /\ queues[dest].exists
    /\ LET found == {t \in TaskIds : tasks[t].queue = source} IN
       /\ found # {}
       /\ Remember(c, [op |-> "merge", todo |-> found, dest |-> dest, pid |-> Nil])

\* One call of update_task_queue, by a run, a move or the loop of a merge.
MoveNext(c, t) ==
    /\ handlers[c].op \in Moving /\ t \in handlers[c].todo
    /\ UpdateTaskQueue(t, handlers[c].dest)
    /\ LET rest == handlers[c].todo \ {t} IN
       handlers' = [handlers EXCEPT ![c] =
                       IF rest = {} THEN Idle ELSE [handlers[c] EXCEPT !.todo = rest]]
    /\ UNCHANGED <<issued, schedulerVars, procs>>

CreateCheck(c, q) ==
    /\ Accept(c, "create")
    /\ ~queues[q].exists
    /\ Remember(c, [op |-> "create", todo |-> {}, dest |-> q, pid |-> Nil])

CreateApply(c) ==
    /\ handlers[c].op = "create"
    /\ AddQueue(handlers[c].dest)
    /\ handlers' = [handlers EXCEPT ![c] = Idle]
    /\ UNCHANGED <<issued, schedulerVars, procs>>

-----------------------------------------------------------------------------
Check(c) ==
    \/ \E t \in TaskIds : RunCheck(c, t) \/ RemoveCheck(c, t) \/ KillCheck(c, t)
    \/ \E gpu \in Gpus : ReleaseCheck(c, gpu)
    \/ \E t \in TaskIds, dest \in QueueNames : MoveCheck(c, t, dest)
    \/ \E source, dest \in QueueNames : MergeCheck(c, source, dest)
    \/ \E q \in QueueNames : CreateCheck(c, q)

Apply(c) ==
    \/ RemoveApply(c)
    \/ KillSignal(c)
    \/ \E t \in TaskIds : ReleaseKill(c, t) \/ MoveNext(c, t)
    \/ CreateApply(c)

SchedulerRuns == SchedulerStep /\ UNCHANGED <<issued, handlers>>
MonitorRuns(p) == MonitorStep(p) /\ UNCHANGED <<issued, handlers>>
ProcessEnds(p) == (\E ok \in BOOLEAN : Exit(p, ok)) /\ UNCHANGED <<issued, handlers>>

Next ==
    \/ \E t \in TaskIds, q \in QueueNames, need \in GpuRequires : Submit(t, q, need)
    \/ \E c \in Clients : Check(c) \/ Apply(c)
    \/ SchedulerRuns
    \/ \E p \in Pids : MonitorRuns(p) \/ ProcessEnds(p)

Spec == Init /\ [][Next]_vars

\* What a monitor does when nothing fails: a wait that returns an error is possible
\* and never owed.
MonitorNotices(p) == (Reap(p) \/ Report(p)) /\ UNCHANGED <<issued, handlers>>

\* The runtime polls every ready task: the scheduler loop, each monitor and each
\* handler that has begun.  A process may run for ever, but SIGTERM ends it.
Fairness ==
    /\ WF_vars(SchedulerRuns)
    /\ \A p \in Pids : WF_vars(MonitorNotices(p))
    /\ \A p \in Pids : WF_vars(procs[p].signalled /\ ProcessEnds(p))
    /\ \A c \in Clients : WF_vars(Apply(c))

FairSpec == Spec /\ Fairness

-----------------------------------------------------------------------------
(* Safety.                                                                  *)

\* Every variable keeps its shape (no code line of its own).
TypeOK ==
    /\ tasks \in [TaskIds -> TaskMeta]
    /\ queues \in [QueueNames -> QueueMeta]
    /\ issued \subseteq TaskIds
    /\ handlers \in [Clients -> Handler]
    /\ pc \in SchedulerPc
    /\ toProcess \in [QueueNames -> SUBSET TaskIds]
    /\ curQueue \in QueueNames \cup {Nil}
    /\ freeGpus \subseteq Gpus
    /\ curTask \in TaskIds \cup {Nil}
    /\ child \in Pids \cup {Nil}
    /\ probing \subseteq TaskIds \X Pids
    /\ toUpdate \subseteq TaskIds
    /\ procs \in [Pids -> Process]

\* A queue's running list never holds a slot for a task that is not running
\* or that has moved on, whichever of the scheduler, a monitor, update_tasks,
\* a move and a removal touch the task, in whatever order: a stale id would
\* lower the queue's concurrency for good.
RunningListsSound ==
    \A q \in QueueNames : \A t \in queues[q].running :
        tasks[t].state = "Running" /\ tasks[t].queue = q

\* A task that still waits is on no waiting list but its own queue's, however
\* moves, merges and removals interleave: listed twice it would be handled
\* twice by one pass of schedule_tasks.
WaitingListedOnce ==
    \A q \in QueueNames : \A t \in queues[q].waiting :
        tasks[t].state = "Waiting" => tasks[t].queue = q

NeverLaunched(t) == \A p \in Pids : procs[p].task # t

\* A submitted task is launched at most once in its life, although a pass
\* starts tasks from a copy of the queues that is stale when it is used.
LaunchedOnce ==
    \A p, r \in Pids : procs[p].task # Nil /\ procs[p].task = procs[r].task => p = r

\* A task that is Running has someone who will end it: the scheduler, in the
\* middle of launching it, or the monitor of its own process.
RunningIsWatched ==
    \A t \in TaskIds : tasks[t].state = "Running" =>
        \/ t = curTask
        \/ \E p \in Pids : procs[p].task = t /\ procs[p].monitor \in {"Waiting", "Reporting"}

\* When update_tasks runs, every Running task has the pid of its own process:
\* "Running state without a PID" (scheduler.rs:390) cannot happen, and kill
\* and kill -0 never go to another task's process.
PidSet ==
    /\ pc = "update" => \A t \in TaskIds : tasks[t].state = "Running" => tasks[t].pid # Nil
    /\ \A t \in TaskIds : tasks[t].pid # Nil => procs[tasks[t].pid].task = t

\* A task shown as ended has no process left that could still hold a GPU,
\* although two actors (its monitor and update_tasks) may end it.
EndedHasNoProcess ==
    \A p \in Pids : Living(p) => tasks[procs[p].task].state \notin Terminal

\* Finished is only said of a task whose process exited with success.
FinishedIsTruthful ==
    \A t \in TaskIds : tasks[t].state = "Finished" =>
        \E p \in Pids : procs[p].task = t /\ procs[p].status = "Gone" /\ procs[p].ok

\* No exit falls between the process, its monitor and the tables: once a process is
\* reaped its task is shown as ended or was removed, or the monitor still has the
\* result to report, wherever the task was moved, whoever failed it and whichever
\* task is being launched meanwhile (scheduler.rs:300-350).
ExitInHand ==
    \A p \in Pids : procs[p].status = "Gone" =>
        \/ procs[p].monitor = "Reporting"
        \/ tasks[procs[p].task].state \in Terminal \cup {"Absent"}

\* A task that waits is on its queue's waiting list, where the scheduler can
\* see it: no interleaving of submit, move, merge, remove and start loses it.
WaitingIsListed ==
    \A t \in TaskIds : tasks[t].state = "Waiting" => t \in queues[tasks[t].queue].waiting

\* The queue of a task, and the queue a handler is about to move tasks to, are in
\* the table, whatever was submitted, created, moved or merged meanwhile: the
\* branches that go on without a queue's lists (state.rs:159, :225, :294) are
\* never taken, and a check that the queue exists does not grow stale.
QueuesExist ==
    /\ \A q \in {WaitingQueue, RunningQueue} : queues[q].exists
    /\ \A t \in TaskIds : Present(t) => queues[tasks[t].queue].exists
    /\ \A c \in Clients :
          handlers[c].op \in Moving => queues[handlers[c].dest].exists

-----------------------------------------------------------------------------
(* The inductive invariant behind the safety properties.                    *)

\* A task in the table is in a queue the table can name.
QueueKnown == \A t \in TaskIds : Present(t) => tasks[t].queue \in QueueNames

\* Nothing remembers an id before it is handed out.
UnissuedUnknown ==
    \A t \in TaskIds \ issued :
        /\ ~Present(t)
        /\ \A q \in QueueNames : /\ t \notin queues[q].waiting
                                 /\ t \notin queues[q].running
                                 /\ t \notin toProcess[q]
        /\ t # curTask
        /\ NeverLaunched(t)

\* A task that waits has not been started.
WaitingNotStarted ==
    \A t \in TaskIds : tasks[t].state = "Waiting" => t # curTask /\ NeverLaunched(t)

\* What a pass still has to do: each task at most once, and only tasks that
\* have not been started.  Between the two copies a task may be on two of the
\* copied lists, but then it no longer waits.
PassSound ==
    /\ pc = "update" => \A q \in QueueNames : toProcess[q] = {}
    /\ \A q, r \in QueueNames : \A t \in toProcess[q] :
          t \in toProcess[r] /\ q # r => pc = "tasks" /\ tasks[t].state # "Waiting"
    /\ pc # "tasks" => \A q \in QueueNames : \A t \in toProcess[q] :
          tasks[t].state \in {"Waiting", "Absent"} /\ t # curTask /\ NeverLaunched(t)

\* The task being started has no process until Spawn gives it one.
LaunchSound ==
    /\ curTask # Nil <=> pc \in {"fetch", "launch", "setpid", "fail"}
    /\ pc \in {"fetch", "launch", "fail"} => NeverLaunched(curTask)
    /\ pc = "setpid" => child \in Pids /\ procs[child].task = curTask

\* A process record names a task from its spawn on.
ProcessSound ==
    \A p \in Pids : /\ procs[p].status = "Unused" => procs[p].task = Nil
                    /\ procs[p].monitor # "None" => procs[p].task # Nil

\* A handler about to move a task or create a queue knows which queue.
HandlersSound ==
    \A c \in Clients : handlers[c].op \in Moving \cup {"create"} => handlers[c].dest # Nil

\* Only the task being started may be Running without a pid.
PidsSound ==
    /\ \A t \in TaskIds : tasks[t].state = "Running" /\ t # curTask => tasks[t].pid # Nil
    /\ \A t \in TaskIds : tasks[t].pid # Nil => procs[tasks[t].pid].task = t

\* The state of one task in the two tables, the pass and the processes, as
\* every step finds and leaves it.
Inv ==
    /\ TypeOK
    /\ QueueKnown
    /\ UnissuedUnknown
    /\ RunningListsSound
    /\ WaitingListedOnce
    /\ WaitingNotStarted
    /\ PassSound
    /\ LaunchSound
    /\ ProcessSound
    /\ LaunchedOnce
    /\ RunningIsWatched
    /\ PidsSound
    /\ HandlersSound

-----------------------------------------------------------------------------
(* Action properties.                                                       *)

\* No step takes a task back: what has started never waits again, what has
\* ended never runs again and what was removed never returns, although the
\* scheduler sets Running without looking at the task's present state
\* (scheduler.rs:162, :211).  "task run" says it sets a task to Waiting, and would
\* take it back if it did: see RunSetsWaiting.
Forward ==
    \A t \in TaskIds :
        /\ tasks[t].state = "Running" => tasks'[t].state # "Waiting"
        /\ tasks[t].state \in Terminal => tasks'[t].state \in Terminal \cup {"Absent"}
        /\ tasks[t].state = "Absent" /\ t \in issued => tasks'[t].state = "Absent"

NeverRewinds == [][Forward]_vars

-----------------------------------------------------------------------------
(* The daemon implements TaskLife.                                          *)

Phase(t) ==
    IF Present(t) THEN tasks[t].state
    ELSE IF t \in issued THEN "Removed" ELSE "New"

Outcome(t) ==
    IF NeverLaunched(t) THEN "none"
    ELSE IF \E p \in Pids : procs[p].task = t /\ procs[p].status = "Alive" THEN "alive"
    ELSE IF \E p \in Pids : procs[p].task = t /\ procs[p].ok THEN "succeeded"
    ELSE "failed"

Life == INSTANCE TaskLife WITH phase <- [t \in TaskIds |-> Phase(t)],
                               outcome <- [t \in TaskIds |-> Outcome(t)]

\* Whatever handlers, scheduler and monitors do at once, a user who watches one
\* task sees one life: every step of the daemon is one change of one task's
\* phase or process as TaskLife allows it, or none.
ImplementsLife == Life!Spec

\* What the refinement needs beyond Inv: update_tasks only remembers tasks that
\* have been started, the task being launched runs unless it was removed, a
\* process has a result only when it has exited, and a monitor reports only a
\* process that is gone.
LifeSound ==
    /\ \A t \in toUpdate \cup {entry[1] : entry \in probing} :
          t \in issued /\ tasks[t].state # "Waiting"
    /\ pc \in {"fetch", "launch", "fail"} => tasks[curTask].state \in {"Running", "Absent"}
    /\ curTask # Nil => curTask \in issued
    /\ \A p \in Pids : /\ procs[p].ok => procs[p].status \in {"Zombie", "Gone"}
                       /\ procs[p].monitor = "Reporting" => procs[p].status = "Gone"

-----------------------------------------------------------------------------
(* Liveness, under FairSpec.                                                *)

\* A kill, alone or for a GPU's release, that found its task running with a pid
\* ends it, even when the task is moved or removed between lookup and signal.
KillTakesEffect ==
    \A t \in TaskIds, p \in Pids :
        procs[p].task = t /\ (\E c \in Clients : handlers[c].pid = p)
            ~> tasks[t].state # "Running"

\* No exit goes unrecorded: once a process is reaped its task is shown as ended
\* (or was removed), whichever queue it has been moved to.
ExitIsRecorded ==
    \A t \in TaskIds, p \in Pids :
        procs[p].task = t /\ procs[p].status = "Gone"
            ~> tasks[t].state \in Terminal \cup {"Absent"}

-----------------------------------------------------------------------------
(* What the documentation or a comment says and the code does not do.       *)

\* models.rs:34, "the maximum number of concurrent tasks" of a queue.
MaxConcurrentRespected ==
    \A q \in QueueNames : Cardinality(queues[q].running) <= MaxConcurrent(q)

\* task_handler.rs:183, cli task.rs:66: only a task that is not running is removed.
RunningNotRemoved ==
    [][\A t \in TaskIds : tasks[t].state = "Running" => tasks'[t].state # "Absent"]_vars

\* task_handler.rs:95 and the reply at :105, "set to Waiting state, it will run
\* soon": so is every task that a "task run" has moved.
RunSetsWaiting ==
    [][\A c \in Clients : \A t \in handlers[c].todo :
          handlers[c].op = "run" /\ handlers'[c] = Idle
          => tasks'[t].state \in {"Waiting", "Absent"}]_vars

\* scheduler.rs:384, "disappeared unexpectedly", is said of processes that end
\* without their monitor noticing, never of one that exited with success.
SuccessNotFailed ==
    \A t \in TaskIds : tasks[t].state = "Failed" =>
        ~\E p \in Pids : procs[p].task = t /\ procs[p].monitor = "Done" /\ procs[p].ok
=============================================================================
