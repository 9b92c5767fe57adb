-------------------------- MODULE PrioritiesProofs --------------------------
(***************************************************************************)
(* The daemon with priorities is the daemon of module Gavel, so that all   *)
(* that is proved of Gavel holds of it; no pass inverts priorities or      *)
(* gives a GPU twice, for any number of tasks, queues, GPUs, clients and   *)
(* levels.                                                                 *)
(***************************************************************************)
EXTENDS Priorities, GavelProofs, FiniteSetTheorems

-----------------------------------------------------------------------------
(* Priorities restrict Gavel.                                               *)

LEMMA OrderedIsGavel == OrderNext => [Next]_vars
<1> SUFFICES ASSUME OrderNext PROVE [Next]_vars
  OBVIOUS
<1>1. ASSUME NEW t \in TaskIds, NEW q \in QueueNames, NEW need \in GpuRequires,
             NEW level \in Levels, SubmitAt(t, q, need, level)
      PROVE  Next
  BY <1>1 DEF SubmitAt, Next
<1>2. ASSUME NEW t \in TaskIds, NEW level \in Levels, SetPriority(t, level)
      PROVE  UNCHANGED vars
  BY <1>2 DEF SetPriority
<1>3. CASE OrderedRuns
  <2>1. SchedulerStep
    BY <1>3 DEF OrderedRuns, OrderedStep, OtherStep, SchedulerStep, RankTasks, EnterOrdered,
                Refuse, SkipOrdered, Serve, EndPass
  <2> QED BY <1>3, <2>1 DEF OrderedRuns, SchedulerRuns, Next
<1> QED BY <1>1, <1>2, <1>3 DEF OrderNext, Next

\* Choosing by priority adds no behaviour: whatever Gavel keeps, taking tasks in
\* any order, the daemon keeps with its order.
THEOREM OrderedRunsAreGavel == OrderSpec => Spec
<1>1. OrderInit => Init
  BY DEF OrderInit
<1>2. UNCHANGED orderVars => UNCHANGED vars
  BY DEF orderVars
<1> QED BY <1>1, <1>2, OrderedIsGavel, PTL DEF OrderSpec, Spec

-----------------------------------------------------------------------------
(* What a task asks for stays, and so do its GPUs unless it is started.     *)

Keeps(t) == Present(t)' => Present(t) /\ tasks'[t].gpu_require = tasks[t].gpu_require

Needs == \A t \in issued : Keeps(t)

HoldsStill(t) ==
    /\ t \in issued /\ Present(t)' => tasks'[t].gpu_ids = tasks[t].gpu_ids
    /\ tasks'[t].state = "Running" => /\ tasks[t].state = "Running"
                                     /\ tasks'[t].gpu_ids = tasks[t].gpu_ids
                                     /\ tasks'[t].gpu_require = tasks[t].gpu_require

Stays == Needs /\ \A t \in TaskIds : HoldsStill(t)

LEMMA SameNeeds == ASSUME UNCHANGED tasks PROVE Stays
BY DEF Stays, HoldsStill, Needs, Keeps, Present

LEMMA StateNeeds ==
    ASSUME TablesType, issued \subseteq TaskIds, NEW t \in TaskIds, NEW state \in TaskStates,
           NEW gpus \in (SUBSET Gpus) \cup {Nil}, UpdateTaskState(t, state, gpus)
    PROVE  /\ Needs
           /\ \A u \in TaskIds : u # t => HoldsStill(u)
           /\ state # "Running" /\ gpus = Nil => Stays
<1>1. CASE ~Present(t)
  BY <1>1, SameNeeds DEF UpdateTaskState, tables, Stays
<1>2. CASE Present(t)
  <2>1. \A u \in TaskIds : Keeps(u)
    BY <1>2 DEF UpdateTaskState, TablesType, TaskMeta, Keeps, Present
  <2>2. \A u \in TaskIds : u # t => HoldsStill(u)
    BY <1>2 DEF UpdateTaskState, TablesType, TaskMeta, HoldsStill, Present
  <2>3. state # "Running" /\ gpus = Nil => HoldsStill(t)
    BY <1>2 DEF UpdateTaskState, TablesType, TaskMeta, HoldsStill, Present
  <2> QED BY <2>1, <2>2, <2>3 DEF Needs, Stays
<1> QED BY <1>1, <1>2

LEMMA QueueNeeds ==
    ASSUME TablesType, issued \subseteq TaskIds, NEW t \in TaskIds, NEW dest,
           UpdateTaskQueue(t, dest)
    PROVE  Stays
<1>1. CASE ~(queues[dest].exists /\ Present(t) /\ tasks[t].queue # dest)
  BY <1>1, SameNeeds DEF UpdateTaskQueue, tables
<1>2. CASE queues[dest].exists /\ Present(t) /\ tasks[t].queue # dest
  <2>1. tasks' = [tasks EXCEPT ![t].queue = dest]
    BY <1>2 DEF UpdateTaskQueue
  <2>2. \A u \in TaskIds : Keeps(u)
    BY <1>2, <2>1 DEF TablesType, TaskMeta, Keeps, Present
  <2>3. \A u \in TaskIds : HoldsStill(u)
    BY <1>2, <2>1 DEF TablesType, TaskMeta, HoldsStill, Present
  <2> QED BY <2>2, <2>3 DEF Needs, Stays
<1> QED BY <1>1, <1>2

LEMMA RemoveNeeds ==
    ASSUME TablesType, issued \subseteq TaskIds, NEW t \in TaskIds, RemoveTask(t)
    PROVE  Stays
<1>1. CASE ~Present(t)
  BY <1>1, SameNeeds DEF RemoveTask, tables
<1>2. CASE Present(t)
  <2>1. tasks' = [tasks EXCEPT ![t] = NoTask]
    BY <1>2 DEF RemoveTask
  <2>2. \A u \in TaskIds : Keeps(u)
    BY <2>1 DEF TablesType, Keeps, Present, NoTask
  <2>3. \A u \in TaskIds : HoldsStill(u)
    BY <2>1 DEF TablesType, HoldsStill, Present, NoTask
  <2> QED BY <2>2, <2>3 DEF Needs, Stays
<1> QED BY <1>1, <1>2

\* An id that was handed out is not handed out again.
LEMMA SubmitNeeds ==
    ASSUME TablesType, issued \subseteq TaskIds, NEW t \in TaskIds, NEW q, NEW need,
           Submit(t, q, need)
    PROVE  Stays
<1>1. /\ t \notin issued /\ tasks'[t].state = "Waiting"
      /\ \A u \in TaskIds : u # t => tasks'[u] = tasks[u]
  BY DEF Submit, AddTask, TablesType, NoTask
<1>2. Needs
  BY <1>1 DEF Needs, Keeps, Present
<1>3. \A u \in TaskIds : HoldsStill(u)
  BY <1>1 DEF HoldsStill, Present
<1> QED BY <1>2, <1>3 DEF Stays

LEMMA PidNeeds ==
    ASSUME TablesType, issued \subseteq TaskIds, NEW t \in TaskIds, NEW pid, SetTaskPid(t, pid)
    PROVE  Stays
<1>1. CASE ~Present(t)
  BY <1>1, SameNeeds DEF SetTaskPid
<1>2. CASE Present(t)
  <2>1. \A u \in TaskIds : Keeps(u)
    BY <1>2 DEF SetTaskPid, TablesType, TaskMeta, Keeps, Present
  <2>2. \A u \in TaskIds : HoldsStill(u)
    BY <1>2 DEF SetTaskPid, TablesType, TaskMeta, HoldsStill, Present
  <2> QED BY <2>1, <2>2 DEF Needs, Stays
<1> QED BY <1>1, <1>2

LEMMA InvNeeds == ASSUME Inv PROVE TablesType /\ issued \subseteq TaskIds
BY DEF Inv, TypeOK, TablesType

LEMMA HandlerNeeds ==
    ASSUME Inv, NEW c \in Clients, Check(c) \/ Apply(c)
    PROVE  Stays /\ UNCHANGED <<issued, schedulerVars>>
<1>1. UNCHANGED <<issued, schedulerVars>>
  BY DEF Check, Apply, Remember, RunCheck, RemoveCheck, KillCheck, ReleaseCheck, MoveCheck,
         MergeCheck, CreateCheck, RemoveApply, KillSignal, ReleaseKill, MoveNext, CreateApply
<1>2. CASE Check(c) \/ KillSignal(c) \/ CreateApply(c) \/ \E t \in TaskIds : ReleaseKill(c, t)
  <2>1. UNCHANGED tasks
    BY <1>2 DEF Check, Remember, RunCheck, RemoveCheck, KillCheck, ReleaseCheck, MoveCheck,
                MergeCheck, CreateCheck, KillSignal, ReleaseKill, CreateApply, AddQueue, tables
  <2> QED BY <1>1, <2>1, SameNeeds
<1>3. ASSUME NEW t \in TaskIds, MoveNext(c, t) PROVE Stays
  BY <1>3, InvNeeds, QueueNeeds DEF MoveNext
<1>4. CASE RemoveApply(c)
  <2>1. PICK t \in handlers[c].todo : RemoveTask(t)
    BY <1>4 DEF RemoveApply
  <2>2. handlers[c].todo \subseteq TaskIds
    BY DEF Inv, TypeOK, Handler
  <2> QED BY <1>1, <2>1, <2>2, InvNeeds, RemoveNeeds
<1> QED BY <1>1, <1>2, <1>3, <1>4 DEF Apply

LEMMA MonitorNeeds ==
    ASSUME Inv, NEW p \in Pids, MonitorRuns(p) \/ ProcessEnds(p)
    PROVE  Stays /\ UNCHANGED <<issued, schedulerVars>>
<1>1. UNCHANGED <<issued, schedulerVars>>
  BY DEF MonitorRuns, ProcessEnds, MonitorStep, Exit, Reap, Report, WaitFails
<1>2. CASE Reap(p) \/ ProcessEnds(p)
  BY <1>1, <1>2, SameNeeds DEF Reap, ProcessEnds, Exit, tables
<1>3. CASE Report(p) \/ WaitFails(p)
  <2>1. procs[p].task \in TaskIds
    BY <1>3 DEF Report, WaitFails, Inv, ProcessSound, TypeOK, Process
  <2>2. \E state \in TaskStates : state # "Running" /\ UpdateTaskState(procs[p].task, state, Nil)
    BY <1>3 DEF Report, WaitFails, TaskStates
  <2> QED BY <1>1, <2>1, <2>2, InvNeeds, StateNeeds
<1> QED BY <1>2, <1>3 DEF MonitorRuns, MonitorStep

-----------------------------------------------------------------------------
(* No pass inverts priorities.                                              *)

\* Whom the pass refused needs more than is left, and whoever it has seen ranks
\* at least as high as those still to come.
OrderSound ==
    /\ priority \in [TaskIds -> Nat] /\ rank \in [TaskIds -> Nat]
    /\ served \cup refused \subseteq issued
    /\ pc \in {"update", "tasks"} => served = {} /\ refused = {}
    /\ \A u \in refused : Present(u) => tasks[u].gpu_require > Cardinality(freeGpus)
    /\ curQueue # Nil => \A seen \in served \cup refused, u \in toProcess[curQueue] :
                             rank[u] =< rank[seen]
    /\ NoInversion

\* A step that chooses no task.
LEMMA OrderKept ==
    ASSUME OrderSound, Needs, issued \subseteq issued', priority' \in [TaskIds -> Nat],
           UNCHANGED <<rank, served, refused, curQueue, freeGpus>>,
           pc' \in {"update", "tasks"} => pc \in {"update", "tasks"},
           pc' \in {"update", "tasks"} \/ curQueue = Nil
               \/ toProcess'[curQueue] \subseteq toProcess[curQueue]
    PROVE  OrderSound'
<1>1. \A t \in served \cup refused : Keeps(t)
  BY DEF OrderSound, Needs
<1>2. NoInversion'
  BY <1>1 DEF OrderSound, NoInversion, Keeps
<1>3. \A u \in refused' : Present(u)' => tasks'[u].gpu_require > Cardinality(freeGpus')
  BY <1>1 DEF OrderSound, Keeps
<1>4. curQueue' # Nil => \A seen \in (served \cup refused)', u \in toProcess'[curQueue'] :
                             rank'[u] =< rank'[seen]
  BY DEF OrderSound
<1> QED BY <1>2, <1>3, <1>4 DEF OrderSound

LEMMA RequestKeepsOrder ==
    ASSUME OrderSound, Needs, issued \subseteq issued', UNCHANGED schedulerVars,
           priority' \in [TaskIds -> Nat], UNCHANGED <<rank, served, refused>>
    PROVE  OrderSound'
BY OrderKept DEF schedulerVars

LEMMA OtherStepStays ==
    ASSUME Inv, OtherStep
    PROVE  /\ Stays
           /\ UNCHANGED <<curQueue, freeGpus>>
           /\ pc' \in {"update", "tasks"} => pc \in {"update", "tasks"}
           /\ pc' \in {"update", "tasks"} \/ UNCHANGED toProcess
<1>0. TablesType /\ issued \subseteq TaskIds
  BY InvNeeds
<1>1. Stays
  <2>1. CASE \/ SnapshotQueues \/ FetchTask \/ (\E p \in Pids : Spawn(p)) \/ LaunchFails
             \/ \E t \in TaskIds, p \in Pids : Probe(t, p)
    BY <2>1, SameNeeds DEF SnapshotQueues, FetchTask, Spawn, LaunchFails, Probe, tables
  <2>2. pc \in {"setpid", "fail"} => curTask \in TaskIds
    BY DEF Inv, LaunchSound, TypeOK
  <2>3. CASE SetPid
    BY <1>0, <2>2, <2>3, PidNeeds DEF SetPid
  <2>4. CASE RecordFailure
    BY <1>0, <2>2, <2>4, StateNeeds DEF RecordFailure, TaskStates
  <2>5. CASE \E t \in TaskIds : MarkFailed(t)
    BY <1>0, <2>5, StateNeeds DEF MarkFailed, TaskStates
  <2> QED BY <2>1, <2>3, <2>4, <2>5 DEF OtherStep
<1>2. /\ UNCHANGED <<curQueue, freeGpus>>
      /\ pc' \in {"update", "tasks"} => pc \in {"update", "tasks"}
      /\ pc' \in {"update", "tasks"} \/ UNCHANGED toProcess
  BY DEF OtherStep, SnapshotQueues, FetchTask, Spawn, LaunchFails, Probe, SetPid,
         RecordFailure, MarkFailed
<1> QED BY <1>1, <1>2

LEMMA OtherStepOrder ==
    ASSUME Inv, OrderSound, OtherStep, UNCHANGED <<rank, served, refused, issued, priority>>
    PROVE  OrderSound'
BY OtherStepStays, OrderKept DEF OrderSound, Stays

\* The task refused ranks below all that were served, which took no GPU from it
\* that it had a better claim to.
LEMMA RefuseOrder ==
    ASSUME Inv, OrderSound, NEW t \in TaskIds, Refuse(t), UNCHANGED <<issued, priority>>
    PROVE  OrderSound'
<1>1. /\ curQueue # Nil /\ t \in toProcess[curQueue] /\ pc = "pick"
      /\ \A u \in toProcess[curQueue] : rank[u] =< rank[t]
      /\ toProcess' = [toProcess EXCEPT ![curQueue] = @ \ {t}]
      /\ tasks[t].gpu_require > Cardinality(freeGpus)
      /\ refused' = refused \cup {t}
      /\ UNCHANGED <<pc, curQueue, freeGpus, tasks, rank, served>>
  BY DEF Refuse, First, PassOver, NextTask, tables
<1>2. toProcess'[curQueue] = toProcess[curQueue] \ {t} /\ t \in issued
  BY <1>1, PassIssued DEF Inv, TypeOK
<1>3. \A seen \in served : rank[t] =< rank[seen]
  BY <1>1 DEF OrderSound
<1>4. NoInversion'
  <2> SUFFICES ASSUME NEW s \in served, NEW u \in refused', Present(s), Present(u),
                      rank[s] < rank[u]
               PROVE  tasks[s].gpu_require < tasks[u].gpu_require
    BY <1>1 DEF NoInversion, Present
  <2>1. CASE u \in refused
    BY <2>1 DEF OrderSound, NoInversion
  <2>2. CASE u = t
    <3>1. rank[t] \in Nat /\ rank[s] \in Nat
      BY DEF OrderSound, Inv, TypeOK
    <3> QED BY <1>3, <2>2, <3>1
  <2> QED BY <1>1, <2>1, <2>2
<1>5. \A u \in refused' : Present(u)' => tasks'[u].gpu_require > Cardinality(freeGpus')
  BY <1>1 DEF OrderSound, Present
<1>6. \A seen \in (served \cup refused)', u \in toProcess'[curQueue'] : rank'[u] =< rank'[seen]
  BY <1>1, <1>2 DEF OrderSound
<1> QED BY <1>1, <1>2, <1>4, <1>5, <1>6 DEF OrderSound

\* The task served needs less than all that were refused: they had their chance
\* when there was as much to give.
LEMMA ServeOrder ==
    ASSUME Inv, OrderSound, NEW t \in TaskIds, NEW gpus \in SUBSET freeGpus, Serve(t, gpus),
           UNCHANGED <<issued, priority>>
    PROVE  OrderSound'
<1>0. TablesType /\ issued \subseteq TaskIds /\ freeGpus \subseteq Gpus
  BY InvNeeds DEF Inv, TypeOK
<1>1. /\ curQueue # Nil /\ t \in toProcess[curQueue] /\ pc' = "fetch"
      /\ \A u \in toProcess[curQueue] : rank[u] =< rank[t]
      /\ toProcess' = [toProcess EXCEPT ![curQueue] = @ \ {t}]
      /\ Present(t) /\ tasks[t].gpu_require = Cardinality(gpus)
      /\ UpdateTaskState(t, "Running", gpus)
      /\ served' = served \cup {t} /\ freeGpus' = freeGpus \ gpus
      /\ UNCHANGED <<curQueue, rank, refused>>
  BY DEF Serve, First, StartTask, NextTask
<1>2. toProcess'[curQueue] = toProcess[curQueue] \ {t} /\ t \in issued
  BY <1>1, PassIssued DEF Inv, TypeOK
<1>3. Needs /\ Keeps(t)
  <2>1. Needs
    BY <1>0, <1>1, StateNeeds DEF TaskStates
  <2> QED BY <1>2, <2>1 DEF Needs
<1>4. /\ Cardinality(gpus) =< Cardinality(freeGpus)
      /\ Cardinality(freeGpus \ gpus) =< Cardinality(freeGpus)
      /\ Cardinality(freeGpus) \in Nat /\ Cardinality(gpus) \in Nat
      /\ Cardinality(freeGpus \ gpus) \in Nat
  <2>1. IsFiniteSet(freeGpus)
    BY <1>0, GpuAssumption, FS_Subset
  <2>2. gpus \subseteq freeGpus /\ freeGpus \ gpus \subseteq freeGpus
    OBVIOUS
  <2> QED BY <2>1, <2>2, FS_Subset, FS_CardinalityType
<1>5. \A u \in TaskIds : tasks[u].gpu_require \in Nat
  <2>1. \A u \in TaskIds : tasks[u] \in TaskMeta
    BY <1>0 DEF TablesType
  <2>2. \A n \in GpuRequires \cup {0} : n \in Nat
    BY GpuAssumption
  <2>3. \A u \in TaskIds : tasks[u].gpu_require \in GpuRequires \cup {0}
    BY <2>1 DEF TaskMeta
  <2> QED BY <2>2, <2>3, Zenon
<1>6. \A u \in refused : u \in TaskIds /\ Keeps(u)
                        /\ (Present(u) => tasks[u].gpu_require > Cardinality(freeGpus))
  BY <1>0, <1>3 DEF OrderSound, Needs
<1>7. \A u \in refused' : Present(u)' => tasks'[u].gpu_require > Cardinality(freeGpus')
  BY <1>1, <1>4, <1>5, <1>6 DEF Keeps
<1>8. NoInversion'
  <2> SUFFICES ASSUME NEW s \in served', NEW u \in refused, Present(s)', Present(u)',
                      rank[s] < rank[u]
               PROVE  tasks'[s].gpu_require < tasks'[u].gpu_require
    BY <1>1 DEF NoInversion
  <2>1. CASE s \in served
    <3>1. Keeps(s)
      BY <1>3, <2>1 DEF OrderSound, Needs
    <3> QED BY <1>6, <2>1, <3>1 DEF OrderSound, NoInversion, Keeps
  <2>2. CASE s = t
    BY <1>1, <1>3, <1>4, <1>5, <1>6, <2>2 DEF Keeps
  <2> QED BY <1>1, <2>1, <2>2
<1>9. \A seen \in (served \cup refused)', u \in toProcess'[curQueue'] : rank'[u] =< rank'[seen]
  BY <1>1, <1>2 DEF OrderSound
<1> QED BY <1>1, <1>2, <1>7, <1>8, <1>9 DEF OrderSound

LEMMA PassOrder ==
    ASSUME Inv, OrderSound, OrderedRuns
    PROVE  OrderSound'
<1> USE DEF OrderedRuns
<1>1. CASE RankTasks
  BY <1>1 DEF RankTasks, SnapshotTasks, OrderSound, NoInversion
<1>2. CASE (\E q \in QueueNames : EnterOrdered(q)) \/ EndPass
  <2>1. rank' \in [TaskIds -> Nat] /\ served' = {} /\ refused' = {}
    BY <1>2 DEF EnterOrdered, EndPass, OrderSound, Unranked
  <2> QED BY <2>1 DEF OrderSound, NoInversion
<1>3. ASSUME NEW t \in TaskIds, Refuse(t) PROVE OrderSound'
  BY <1>3, RefuseOrder
<1>4. ASSUME NEW t \in TaskIds, SkipOrdered(t) PROVE OrderSound'
  <2>1. /\ toProcess' = [toProcess EXCEPT ![curQueue] = @ \ {t}] /\ curQueue \in QueueNames
        /\ UNCHANGED <<tasks, curQueue, freeGpus, pc, rank, served, refused>>
    BY <1>4 DEF SkipOrdered, SkipRemoved, NextTask, tables, Inv, TypeOK
  <2>2. toProcess'[curQueue] \subseteq toProcess[curQueue]
    BY <2>1 DEF Inv, TypeOK
  <2> QED BY <2>1, <2>2, SameNeeds, OrderKept DEF OrderSound, Stays
<1>5. ASSUME NEW t \in TaskIds, NEW gpus \in SUBSET freeGpus, Serve(t, gpus) PROVE OrderSound'
  BY <1>5, ServeOrder
<1>6. CASE OtherStep /\ UNCHANGED <<rank, served, refused, started>>
  BY <1>6, OtherStepOrder
<1> QED BY <1>1, <1>2, <1>3, <1>4, <1>5, <1>6 DEF OrderedStep

LEMMA OrderNextKeeps ==
    ASSUME Inv, OrderSound, [OrderNext]_orderVars
    PROVE  OrderSound'
<1>1. CASE UNCHANGED orderVars
  BY <1>1, SameNeeds, RequestKeepsOrder DEF orderVars, order, vars, tables, OrderSound, Stays
<1>2. ASSUME NEW t \in TaskIds, NEW q \in QueueNames, NEW need \in GpuRequires,
             NEW level \in Levels, SubmitAt(t, q, need, level)
      PROVE  OrderSound'
  <2>1. issued' = issued \cup {t} /\ UNCHANGED schedulerVars
    BY <1>2 DEF SubmitAt, Submit
  <2>2. priority' \in [TaskIds -> Nat] /\ UNCHANGED <<rank, served, refused>>
    BY <1>2, LevelAssumption DEF SubmitAt, OrderSound
  <2> QED BY <1>2, <2>1, <2>2, InvNeeds, SubmitNeeds, RequestKeepsOrder DEF SubmitAt, Stays
<1>3. ASSUME NEW t \in TaskIds, NEW level \in Levels, SetPriority(t, level) PROVE OrderSound'
  <2>1. priority' \in [TaskIds -> Nat] /\ UNCHANGED <<rank, served, refused>>
    BY <1>3, LevelAssumption DEF SetPriority, OrderSound
  <2> QED BY <1>3, <2>1, SameNeeds, RequestKeepsOrder DEF SetPriority, vars, tables, Stays
<1>4. ASSUME NEW c \in Clients, Check(c) \/ Apply(c), UNCHANGED order PROVE OrderSound'
  BY <1>4, HandlerNeeds, RequestKeepsOrder DEF order, OrderSound, Stays
<1>5. ASSUME NEW p \in Pids, MonitorRuns(p) \/ ProcessEnds(p), UNCHANGED order PROVE OrderSound'
  BY <1>5, MonitorNeeds, RequestKeepsOrder DEF order, OrderSound, Stays
<1> QED BY <1>1, <1>2, <1>3, <1>4, <1>5, PassOrder DEF OrderNext

LEMMA OrderInitHolds == OrderInit => OrderSound
BY DEF OrderInit, Unranked, OrderSound, NoInversion

\* Whatever is launched, fails, is removed, moved or given another priority while
\* a pass goes on: no task of it gets GPUs that one of higher priority, which
\* asked for no more, is refused (scheduler.rs:145, :196).
THEOREM PassesKeepOrder == OrderSpec => []NoInversion
<1>1. Inv /\ OrderSound /\ [OrderNext]_orderVars => OrderSound'
  BY OrderNextKeeps
<1>2. OrderSound => NoInversion
  BY DEF OrderSound
<1> QED BY <1>1, <1>2, OrderInitHolds, OrderedRunsAreGavel, Invariance, PTL DEF OrderSpec

-----------------------------------------------------------------------------
(* No pass gives a GPU twice.                                               *)

\* Only the running queue has GPUs to give, so that a task has some of this pass
\* only while that queue is gone through or once it is done with; and what is
\* still free is in nobody's hands.
ShareSound ==
    /\ started \subseteq issued
    /\ pc \in {"update", "tasks"} => started = {}
    /\ freeGpus # {} => curQueue = RunningQueue
    /\ \A t \in started : Present(t) => tasks[t].gpu_ids \cap freeGpus = {}
    /\ (\E t \in started : Present(t) /\ tasks[t].gpu_ids # {}) =>
          curQueue = RunningQueue \/ toProcess[RunningQueue] = {}
    /\ GpusGivenOnce

LEMMA GivenStays ==
    ASSUME ShareSound, Stays, Inv, UNCHANGED started
    PROVE  /\ GpusGivenOnce'
           /\ \A t \in started : Present(t)' => Present(t) /\ tasks'[t].gpu_ids = tasks[t].gpu_ids
<1>1. \A t \in started : Present(t)' => Present(t) /\ tasks'[t].gpu_ids = tasks[t].gpu_ids
  BY DEF ShareSound, Stays, Needs, Keeps, HoldsStill, Inv, TypeOK
<1>2. \A t \in TaskIds : tasks'[t].state = "Running" =>
          Cardinality(tasks'[t].gpu_ids) = tasks'[t].gpu_require
  BY DEF ShareSound, Stays, HoldsStill, GpusGivenOnce
<1>3. \A t, u \in started : t # u /\ Present(t)' /\ Present(u)' =>
          tasks'[t].gpu_ids \cap tasks'[u].gpu_ids = {}
  BY <1>1 DEF ShareSound, GpusGivenOnce
<1> QED BY <1>1, <1>2, <1>3 DEF GpusGivenOnce

\* A step that starts no task and enters no queue.
LEMMA ShareKept ==
    ASSUME ShareSound, Inv, Stays, issued \subseteq issued',
           UNCHANGED <<started, curQueue, freeGpus>>,
           pc' \in {"update", "tasks"} => pc \in {"update", "tasks"},
           pc' \in {"update", "tasks"} \/ toProcess'[RunningQueue] \subseteq toProcess[RunningQueue]
    PROVE  ShareSound'
<1>1. /\ GpusGivenOnce'
      /\ \A t \in started : Present(t)' => Present(t) /\ tasks'[t].gpu_ids = tasks[t].gpu_ids
  BY GivenStays
<1>2. \A t \in started' : Present(t)' => tasks'[t].gpu_ids \cap freeGpus' = {}
  BY <1>1 DEF ShareSound
<1>3. (\E t \in started' : Present(t)' /\ tasks'[t].gpu_ids # {}) =>
          curQueue' = RunningQueue \/ toProcess'[RunningQueue] = {}
  BY <1>1 DEF ShareSound
<1>4. /\ started' \subseteq issued'
      /\ pc' \in {"update", "tasks"} => started' = {}
      /\ freeGpus' # {} => curQueue' = RunningQueue
  BY DEF ShareSound
<1> QED BY <1>1, <1>2, <1>3, <1>4 DEF ShareSound

LEMMA RequestKeepsShare ==
    ASSUME ShareSound, Inv, Stays, issued \subseteq issued', UNCHANGED <<schedulerVars, started>>
    PROVE  ShareSound'
BY ShareKept DEF schedulerVars

\* When the running queue is entered nobody has got a GPU in this pass.
LEMMA EnterShare ==
    ASSUME Inv, ShareSound, NEW q \in QueueNames, EnterOrdered(q), UNCHANGED issued
    PROVE  ShareSound'
<1>1. /\ pc' = "pick" /\ curQueue' = q /\ toProcess[q] # {}
      /\ curQueue # Nil => toProcess[curQueue] = {}
      /\ freeGpus' \subseteq AllocatedGpus(q)
      /\ UNCHANGED <<tasks, toProcess, started, issued>>
  BY DEF EnterOrdered, EnterQueue, tables
<1>2. GpusGivenOnce'
  BY <1>1, SameNeeds, GivenStays
<1>3. RunningQueue # Nil
  BY QueueAssumption, NilAssumption
<1>4. freeGpus' # {} => q = RunningQueue
  BY <1>1 DEF AllocatedGpus
<1>5. (\E t \in started : Present(t) /\ tasks[t].gpu_ids # {}) => toProcess[RunningQueue] = {}
  BY <1>1, <1>3 DEF ShareSound
<1>6. \A t \in started : Present(t) => tasks[t].gpu_ids \cap freeGpus' = {}
  BY <1>1, <1>4, <1>5
<1>7. started \subseteq issued
  BY DEF ShareSound
<1> QED BY <1>1, <1>2, <1>4, <1>5, <1>6, <1>7 DEF ShareSound, Present

\* The task started gets GPUs that were free, and they no longer are.
LEMMA ServeShare ==
    ASSUME Inv, ShareSound, NEW t \in TaskIds, NEW gpus \in SUBSET freeGpus, Serve(t, gpus),
           UNCHANGED issued
    PROVE  ShareSound'
<1>0. TablesType /\ issued \subseteq TaskIds /\ freeGpus \subseteq Gpus
  BY InvNeeds DEF Inv, TypeOK
<1>1. /\ curQueue # Nil /\ t \in toProcess[curQueue] /\ pc' = "fetch"
      /\ toProcess' = [toProcess EXCEPT ![curQueue] = @ \ {t}]
      /\ Present(t) /\ tasks[t].gpu_require = Cardinality(gpus)
      /\ UpdateTaskState(t, "Running", gpus)
      /\ started' = started \cup {t} /\ freeGpus' = freeGpus \ gpus
      /\ UNCHANGED curQueue
  BY DEF Serve, StartTask, NextTask
<1>2. /\ t \in issued
      /\ toProcess'[RunningQueue] \subseteq toProcess[RunningQueue]
  BY <1>1, PassIssued, QueueAssumption DEF Inv, TypeOK
<1>3. Needs /\ \A u \in TaskIds : u # t => HoldsStill(u)
  BY <1>0, <1>1, StateNeeds DEF TaskStates
<1>4. gpus # Nil
  BY <1>0, SomeAssumption
<1>5. tasks'[t].gpu_ids = gpus /\ tasks'[t].gpu_require = Cardinality(gpus)
  BY <1>0, <1>1, <1>4 DEF UpdateTaskState, TablesType, TaskMeta
<1>6. \A u \in started : u # t =>
          (Present(u)' => Present(u) /\ tasks'[u].gpu_ids = tasks[u].gpu_ids)
  BY <1>0, <1>3 DEF ShareSound, Needs, Keeps, HoldsStill
<1>7. \A u \in started : u # t /\ Present(u)' => tasks'[u].gpu_ids \cap freeGpus = {}
  BY <1>6 DEF ShareSound
<1>8. GpusGivenOnce'
  <2>1. \A u \in TaskIds : tasks'[u].state = "Running" =>
            Cardinality(tasks'[u].gpu_ids) = tasks'[u].gpu_require
    BY <1>3, <1>5 DEF HoldsStill, ShareSound, GpusGivenOnce
  <2>2. \A u, v \in started : u # v /\ u # t /\ v # t /\ Present(u)' /\ Present(v)' =>
            tasks'[u].gpu_ids \cap tasks'[v].gpu_ids = {}
    BY <1>6 DEF ShareSound, GpusGivenOnce
  <2>3. \A u \in started : u # t /\ Present(u)' =>
            /\ tasks'[u].gpu_ids \cap tasks'[t].gpu_ids = {}
            /\ tasks'[t].gpu_ids \cap tasks'[u].gpu_ids = {}
    BY <1>5, <1>7
  <2>4. \A u, v \in started' : u # v /\ Present(u)' /\ Present(v)' =>
            tasks'[u].gpu_ids \cap tasks'[v].gpu_ids = {}
    BY <1>1, <2>2, <2>3
  <2> QED BY <2>1, <2>4 DEF GpusGivenOnce
<1>9. \A u \in started' : Present(u)' => tasks'[u].gpu_ids \cap freeGpus' = {}
  BY <1>1, <1>5, <1>7
<1>10. (\E u \in started' : Present(u)' /\ tasks'[u].gpu_ids # {}) =>
           curQueue' = RunningQueue \/ toProcess'[RunningQueue] = {}
  <2> SUFFICES ASSUME NEW u \in started', Present(u)', tasks'[u].gpu_ids # {}
               PROVE  curQueue = RunningQueue \/ toProcess'[RunningQueue] = {}
    BY <1>1
  <2>1. CASE u = t
    BY <1>5, <2>1 DEF ShareSound
  <2>2. CASE u # t
    BY <1>1, <1>2, <1>6, <2>2 DEF ShareSound
  <2> QED BY <2>1, <2>2
<1>11. /\ started' \subseteq issued'
       /\ freeGpus' # {} => curQueue' = RunningQueue
  BY <1>1, <1>2 DEF ShareSound
<1> QED BY <1>1, <1>8, <1>9, <1>10, <1>11 DEF ShareSound

LEMMA PassShare ==
    ASSUME Inv, ShareSound, OrderedRuns
    PROVE  ShareSound'
<1> USE DEF OrderedRuns
<1>1. CASE RankTasks
  <2>1. /\ UNCHANGED <<tasks, curQueue, freeGpus, started>> /\ pc' = "pick"
        /\ toProcess' = [q \in QueueNames |->
                            {t \in toProcess[q] : tasks[t].state = "Waiting"}]
    BY <1>1 DEF RankTasks, SnapshotTasks, tables
  <2>2. toProcess'[RunningQueue] \subseteq toProcess[RunningQueue]
    BY <2>1, QueueAssumption
  <2> QED BY <2>1, <2>2, SameNeeds, ShareKept
<1>2. ASSUME NEW q \in QueueNames, EnterOrdered(q) PROVE ShareSound'
  BY <1>2, EnterShare
<1>3. ASSUME NEW t \in TaskIds, Refuse(t) \/ SkipOrdered(t) PROVE ShareSound'
  <2>1. /\ toProcess' = [toProcess EXCEPT ![curQueue] = @ \ {t}]
        /\ UNCHANGED <<tasks, curQueue, freeGpus, pc, started>>
    BY <1>3 DEF Refuse, SkipOrdered, PassOver, SkipRemoved, NextTask, tables
  <2>2. toProcess'[RunningQueue] \subseteq toProcess[RunningQueue]
    BY <2>1, QueueAssumption DEF Inv, TypeOK
  <2> QED BY <2>1, <2>2, SameNeeds, ShareKept
<1>4. ASSUME NEW t \in TaskIds, NEW gpus \in SUBSET freeGpus, Serve(t, gpus) PROVE ShareSound'
  BY <1>4, ServeShare
<1>5. CASE EndPass
  <2>1. started' = {} /\ freeGpus' = {} /\ UNCHANGED tasks
    BY <1>5 DEF EndPass, SnapshotRunning, tables
  <2> QED BY <2>1 DEF ShareSound, GpusGivenOnce
<1>6. CASE OtherStep /\ UNCHANGED <<rank, served, refused, started>>
  BY <1>6, OtherStepStays, ShareKept
<1> QED BY <1>1, <1>2, <1>3, <1>4, <1>5, <1>6 DEF OrderedStep

LEMMA ShareNextKeeps ==
    ASSUME Inv, ShareSound, [OrderNext]_orderVars
    PROVE  ShareSound'
<1>1. CASE UNCHANGED orderVars
  BY <1>1, SameNeeds, RequestKeepsShare DEF orderVars, order, vars, tables
<1>2. ASSUME NEW t \in TaskIds, NEW q \in QueueNames, NEW need \in GpuRequires,
             NEW level \in Levels, SubmitAt(t, q, need, level)
      PROVE  ShareSound'
  <2>1. issued' = issued \cup {t} /\ UNCHANGED <<schedulerVars, started>>
    BY <1>2 DEF SubmitAt, Submit
  <2> QED BY <1>2, <2>1, InvNeeds, SubmitNeeds, RequestKeepsShare DEF SubmitAt
<1>3. ASSUME NEW t \in TaskIds, NEW level \in Levels, SetPriority(t, level) PROVE ShareSound'
  BY <1>3, SameNeeds, RequestKeepsShare DEF SetPriority, vars, tables
<1>4. ASSUME NEW c \in Clients, Check(c) \/ Apply(c), UNCHANGED order PROVE ShareSound'
  BY <1>4, HandlerNeeds, RequestKeepsShare DEF order
<1>5. ASSUME NEW p \in Pids, MonitorRuns(p) \/ ProcessEnds(p), UNCHANGED order PROVE ShareSound'
  BY <1>5, MonitorNeeds, RequestKeepsShare DEF order
<1> QED BY <1>1, <1>2, <1>3, <1>4, <1>5, PassShare DEF OrderNext

LEMMA ShareInitHolds == OrderInit => ShareSound
<1> SUFFICES ASSUME OrderInit PROVE ShareSound
  OBVIOUS
<1>1. started = {} /\ freeGpus = {} /\ \A t \in TaskIds : tasks[t].state = "Absent"
  BY DEF OrderInit, Init, InitScheduler, InitTables, NoTask
<1> QED BY <1>1 DEF ShareSound, GpusGivenOnce

\* A pass gives every GPU to one task at most, for any number of tasks, queues and
\* GPUs, with every request and fault between any two of its steps, and a running
\* task has what it asked for (scheduler.rs:149).
THEOREM PassesShareNoGpu == OrderSpec => []GpusGivenOnce
<1>1. Inv /\ ShareSound /\ [OrderNext]_orderVars => ShareSound'
  BY ShareNextKeeps
<1>2. ShareSound => GpusGivenOnce
  BY DEF ShareSound
<1> QED BY <1>1, <1>2, ShareInitHolds, OrderedRunsAreGavel, Invariance, PTL DEF OrderSpec
=============================================================================
