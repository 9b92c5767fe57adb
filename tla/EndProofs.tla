----------------------------- MODULE EndProofs -----------------------------
(***************************************************************************)
(* What Gavel keeps when a fault or a request is left out, for every value *)
(* of the other constants: a task shown as ended has no process, unless    *)
(* kill -0 or wait() fails; a task that waits is listed, unless a queue    *)
(* create overwrites its queue.  And what it keeps with all of them: the   *)
(* queue of a task is in the table, and the exit of a process is recorded  *)
(* or its monitor has it in hand.                                          *)
(***************************************************************************)
EXTENDS TaskLifeProofs

-----------------------------------------------------------------------------
(* Ended tasks have no process.                                             *)

NoLiving(t) == \A p \in Pids : Living(p) => procs[p].task # t

\* What update_tasks remembers is true: the pids it looks up are those of the
\* tasks, and the tasks it is about to fail have no process.
EndSound ==
    /\ EndedHasNoProcess
    /\ \A p \in Pids : Living(p) => procs[p].task \in TaskIds
    /\ \A t \in toUpdate : NoLiving(t)
    /\ \A entry \in probing : procs[entry[2]].task = entry[1]
    /\ pc # "update" => toUpdate = {} /\ probing = {}

EndInv == LInv /\ EndSound

\* Steps after which no process lives that did not before, and a task that
\* becomes Finished or Failed has none.
LEMMA EndKept ==
    ASSUME EndInv,
           \A t \in TaskIds : tasks'[t].state \in Terminal =>
               tasks[t].state \in Terminal \/ NoLiving(t),
           \A p \in Pids : /\ Living(p)' => Living(p)
                           /\ procs'[p].task = procs[p].task,
           toUpdate' \subseteq toUpdate, probing' \subseteq probing,
           pc' # "update" => toUpdate' = {} /\ probing' = {}
    PROVE  EndSound'
<1>1. \A p \in Pids, t \in TaskIds : procs[p].task = t /\ tasks[t].state \in Terminal => ~Living(p)
  BY DEF EndInv, EndSound, EndedHasNoProcess
<1>2. EndedHasNoProcess'
  BY <1>1 DEF EndInv, EndSound, EndedHasNoProcess, NoLiving
<1>3. \A t \in toUpdate' : NoLiving(t)'
  BY DEF EndInv, EndSound, NoLiving
<1>4. \A entry \in probing' : procs'[entry[2]].task = entry[1]
  BY DEF EndInv, EndSound, LInv, Inv, TypeOK
<1> QED BY <1>2, <1>3, <1>4 DEF EndInv, EndSound

\* The same, for steps of handlers and of the scheduler that change no process.
LEMMA EndQuiet ==
    ASSUME EndInv, UNCHANGED <<procs, toUpdate, probing>>,
           \A t \in TaskIds : tasks'[t].state \in Terminal => tasks[t].state \in Terminal,
           pc' # "update" => toUpdate = {} /\ probing = {}
    PROVE  EndSound'
BY EndKept DEF Living

\* A task has one process: if that is dead, none lives.
LEMMA DeadAlone ==
    ASSUME LInv, NEW p \in Pids, procs[p].task \in TaskIds, ~Living(p)
    PROVE  NoLiving(procs[p].task)
BY NilAssumption DEF LInv, Inv, LaunchedOnce, NoLiving

LEMMA HandlerEnds ==
    ASSUME EndInv, NEW c \in Clients, Check(c) \/ Apply(c)
    PROVE  EndSound'
<1>1. CASE Check(c) \/ \E t \in TaskIds : ReleaseKill(c, t)
  <2>1. UNCHANGED <<schedulerVars, procs, tables>>
    BY <1>1 DEF Check, ReleaseKill, Remember, RunCheck, RemoveCheck, KillCheck, ReleaseCheck,
                MoveCheck, MergeCheck, CreateCheck
  <2> QED BY <2>1, EndQuiet DEF schedulerVars, tables, EndInv, EndSound
<1>2. CASE KillSignal(c)
  <2>1. /\ UNCHANGED <<schedulerVars, tables>>
        /\ \A p \in Pids : /\ procs'[p].task = procs[p].task
                           /\ procs'[p].status = procs[p].status
    BY <1>2 DEF KillSignal, EndInv, LInv, Inv, TypeOK, Process
  <2> QED BY <2>1, EndKept DEF schedulerVars, tables, EndInv, EndSound, Living
<1>3. CASE CreateApply(c)
  BY <1>3, EndQuiet DEF CreateApply, AddQueue, schedulerVars, EndInv, EndSound
<1>4. ASSUME NEW t \in TaskIds, MoveNext(c, t) PROVE EndSound'
  <2>1. handlers[c].dest \in QueueNames /\ UpdateTaskQueue(t, handlers[c].dest)
        /\ UNCHANGED <<schedulerVars, procs>>
    BY <1>4 DEF MoveNext, EndInv, LInv, Inv, TypeOK, Handler, HandlersSound
  <2>2. TouchesOnly(t) /\ tasks'[t].state = tasks[t].state
    BY <2>1, InvLists, UpdateTaskQueueLists DEF EndInv, LInv
  <2> QED BY <2>1, <2>2, EndQuiet DEF TouchesOnly, schedulerVars, EndInv, EndSound
<1>5. CASE RemoveApply(c)
  <2>1. PICK t \in handlers[c].todo : RemoveTask(t)
    BY <1>5 DEF RemoveApply
  <2>2. t \in TaskIds /\ UNCHANGED <<schedulerVars, procs>>
    BY <1>5 DEF RemoveApply, EndInv, LInv, Inv, TypeOK, Handler
  <2>3. \A u \in TaskIds : tasks'[u].state \in {tasks[u].state, "Absent"}
    BY <2>1, <2>2, InvLists, RemoveTaskLists DEF EndInv, LInv, TouchesOnly, tables
  <2> QED BY <2>2, <2>3, EndQuiet DEF schedulerVars, EndInv, EndSound, Terminal
<1> QED BY <1>1, <1>2, <1>3, <1>4, <1>5 DEF Apply

LEMMA SubmitEnds ==
    ASSUME EndInv, NEW t \in TaskIds, NEW q \in QueueNames, NEW need \in GpuRequires,
           Submit(t, q, need)
    PROVE  EndSound'
<1>1. t \notin issued /\ AddTask(t, q, need) /\ UNCHANGED <<schedulerVars, procs>>
  BY DEF Submit
<1>2. \A u \in TaskIds : tasks'[u].state \in {tasks[u].state, "Waiting"}
  BY <1>1, InvLists, UnissuedUnlisted, AddTaskLists DEF EndInv, LInv, TouchesOnly
<1> QED BY <1>1, <1>2, EndQuiet DEF schedulerVars, EndInv, EndSound, Terminal

\* Once no task is being launched every running task has the pid of its process,
\* so the copy update_tasks takes fails nobody by itself.
LEMMA CopyEnds ==
    ASSUME EndInv, SnapshotRunning
    PROVE  EndSound'
<1>1. pc = "pick" /\ curTask = Nil /\ pc' = "update" /\ UNCHANGED <<procs, tables>>
  BY DEF SnapshotRunning, EndInv, LInv, Inv, LaunchSound
<1>2. \A t \in TaskIds : tasks[t].state = "Running" =>
          tasks[t].pid # Nil /\ procs[tasks[t].pid].task = t
  BY <1>1, NilAssumption DEF EndInv, LInv, Inv, PidsSound
<1>3. toUpdate' = {}
  BY <1>2 DEF SnapshotRunning
<1>4. \A entry \in probing' : procs[entry[2]].task = entry[1]
  BY <1>2 DEF SnapshotRunning
<1> QED BY <1>1, <1>3, <1>4 DEF EndInv, EndSound, EndedHasNoProcess, Living, tables

LEMMA ProbeEnds ==
    ASSUME EndInv, "probe" \notin Faults, NEW t \in TaskIds, NEW p \in Pids, Probe(t, p)
    PROVE  EndSound'
<1>1. pc' = "update" /\ <<t, p>> \in probing /\ probing' \subseteq probing
      /\ UNCHANGED <<procs, tables>>
  BY DEF Probe
<1>2. procs[p].task = t
  BY <1>1 DEF EndInv, EndSound
<1>3. \A u \in toUpdate' : NoLiving(u)
  BY <1>2, DeadAlone DEF Probe, EndInv, EndSound
<1> QED BY <1>1, <1>3 DEF EndInv, EndSound, EndedHasNoProcess, NoLiving, Living, tables

\* A task whose launch failed has had no process.
LEMMA FailureEnds ==
    ASSUME EndInv, RecordFailure \/ (\E t \in TaskIds : MarkFailed(t))
    PROVE  EndSound'
<1>1. PICK t \in TaskIds : UpdateTaskState(t, "Failed", Nil) /\ NoLiving(t)
  BY DEF RecordFailure, MarkFailed, EndInv, EndSound, LInv, Inv, LaunchSound, TypeOK,
         NeverLaunched, NoLiving
<1>2. \A u \in TaskIds : u # t => tasks'[u] = tasks[u]
  BY <1>1, InvLists, UpdateTaskStateLists DEF EndInv, LInv, TouchesOnly
<1>3. /\ toUpdate' \subseteq toUpdate /\ UNCHANGED <<probing, procs>>
      /\ pc' # "update" => toUpdate' = {} /\ probing' = {}
  BY DEF RecordFailure, MarkFailed, EndInv, EndSound
<1> QED BY <1>1, <1>2, <1>3, EndKept DEF Living

LEMMA SpawnEnds ==
    ASSUME EndInv, NEW p \in Pids, Spawn(p)
    PROVE  EndSound'
<1>1. pc = "launch" /\ UNCHANGED <<toUpdate, probing, tables>> /\ toUpdate = {} /\ probing = {}
  BY DEF Spawn, EndInv, EndSound
<1>2. /\ procs'[p].task = curTask /\ \A r \in Pids : r # p => procs'[r] = procs[r]
  BY DEF Spawn, EndInv, LInv, Inv, TypeOK, Process
<1>3. curTask \in TaskIds /\ tasks[curTask].state \notin Terminal
  BY <1>1 DEF EndInv, LInv, LifeSound, Inv, LaunchSound, TypeOK, Terminal
<1> QED BY <1>1, <1>2, <1>3 DEF EndInv, EndSound, EndedHasNoProcess, Living, tables

LEMMA SchedulerEnds ==
    ASSUME EndInv, "probe" \notin Faults, SchedulerStep
    PROVE  EndSound'
<1>1. CASE \/ SnapshotQueues \/ SnapshotTasks \/ FetchTask \/ LaunchFails
           \/ \E q \in QueueNames : EnterQueue(q)
           \/ \E t \in TaskIds : PassOver(t) \/ SkipRemoved(t)
  <2>1. /\ UNCHANGED <<procs, toUpdate, probing, tables>>
        /\ pc' # "update" => toUpdate = {} /\ probing = {}
    BY <1>1 DEF SnapshotQueues, SnapshotTasks, FetchTask, LaunchFails, EnterQueue, PassOver,
                SkipRemoved, EndInv, EndSound
  <2> QED BY <2>1, EndQuiet DEF tables
<1>2. ASSUME NEW t \in TaskIds, NEW gpus \in SUBSET freeGpus, StartTask(t, gpus)
      PROVE  EndSound'
  <2>1. gpus \in (SUBSET Gpus) \cup {Nil}
    BY DEF EndInv, LInv, Inv, TypeOK
  <2>2. UpdateTaskState(t, "Running", gpus) /\ Present(t)
        /\ UNCHANGED <<procs, toUpdate, probing>> /\ toUpdate = {} /\ probing = {}
    BY <1>2 DEF StartTask, NextTask, EndInv, EndSound
  <2>3. \A u \in TaskIds : tasks'[u].state \in {tasks[u].state, "Running"}
    BY <2>1, <2>2, InvLists, UpdateTaskStateLists DEF EndInv, LInv, TouchesOnly
  <2> QED BY <2>2, <2>3, EndQuiet DEF Terminal
<1>3. CASE SetPid
  <2>1. /\ SetTaskPid(curTask, child) /\ UNCHANGED <<toUpdate, probing>>
        /\ toUpdate = {} /\ probing = {} /\ curTask \in TaskIds /\ child \in Pids
    BY <1>3 DEF SetPid, EndInv, EndSound, LInv, Inv, LaunchSound, TypeOK
  <2>2. \A p \in Pids : procs'[p].task = procs[p].task /\ procs'[p].status = procs[p].status
    BY <1>3, <2>1 DEF SetPid, EndInv, LInv, Inv, TypeOK, Process
  <2>3. \A u \in TaskIds : tasks'[u].state = tasks[u].state
    BY <2>1, InvLists, SetTaskPidLists DEF EndInv, LInv, TouchesOnly
  <2> QED BY <2>1, <2>2, <2>3, EndKept DEF Living
<1>4. ASSUME NEW t \in TaskIds, NEW p \in Pids, Probe(t, p) PROVE EndSound'
  BY <1>4, ProbeEnds
<1>5. ASSUME NEW p \in Pids, Spawn(p) PROVE EndSound'
  BY <1>5, SpawnEnds
<1> QED BY <1>1, <1>2, <1>3, <1>4, <1>5, CopyEnds, FailureEnds DEF SchedulerStep

LEMMA MonitorEndsTask ==
    ASSUME EndInv, "wait" \notin Faults, NEW p \in Pids, MonitorStep(p) \/ ProcessEnds(p)
    PROVE  EndSound'
<1>1. CASE Reap(p) \/ ProcessEnds(p)
  <2>1. /\ UNCHANGED <<schedulerVars, tables>>
        /\ \A r \in Pids : /\ procs'[r].task = procs[r].task
                           /\ Living(r)' => Living(r)
    BY <1>1 DEF Reap, ProcessEnds, Exit, EndInv, LInv, Inv, TypeOK, Process, Living
  <2> QED BY <2>1, EndKept DEF schedulerVars, tables, EndInv, EndSound
<1>2. CASE Report(p)
  <2>1. procs[p].monitor = "Reporting" /\ UNCHANGED schedulerVars
    BY <1>2 DEF Report
  <2>2. procs[p].status = "Gone" /\ procs[p].task \in TaskIds
    BY <2>1 DEF EndInv, LInv, LifeSound, Inv, ProcessSound, TypeOK, Process
  <2>3. NoLiving(procs[p].task)
    BY <2>2, DeadAlone DEF EndInv, Living
  <2>4. PICK state \in Terminal : UpdateTaskState(procs[p].task, state, Nil)
    BY <1>2 DEF Report, Terminal
  <2>5. \A u \in TaskIds : u # procs[p].task => tasks'[u] = tasks[u]
    <3>1. state \in {"Running", "Finished", "Failed"} /\ Nil \in (SUBSET Gpus) \cup {Nil}
      BY DEF Terminal
    <3> QED BY <2>2, <2>4, <3>1, InvLists, UpdateTaskStateLists DEF EndInv, LInv, TouchesOnly
  <2>6. \A r \in Pids : procs'[r].task = procs[r].task /\ procs'[r].status = procs[r].status
    BY <1>2 DEF Report, EndInv, LInv, Inv, TypeOK, Process
  <2> QED BY <2>1, <2>3, <2>5, <2>6, EndKept DEF schedulerVars, EndInv, EndSound, Living
<1> QED BY <1>1, <1>2 DEF MonitorStep, WaitFails

LEMMA NextEnds ==
    ASSUME Faults \cap {"probe", "wait"} = {}, EndInv, [Next]_vars
    PROVE  EndSound'
<1>0. "probe" \notin Faults /\ "wait" \notin Faults
  OBVIOUS
<1>1. CASE UNCHANGED vars
  BY <1>1, EndQuiet DEF vars, schedulerVars, tables, EndInv, EndSound
<1>2. ASSUME NEW c \in Clients, Check(c) \/ Apply(c) PROVE EndSound'
  BY <1>2, HandlerEnds
<1>3. CASE SchedulerRuns
  BY <1>0, <1>3, SchedulerEnds DEF SchedulerRuns
<1>4. ASSUME NEW p \in Pids, MonitorRuns(p) \/ ProcessEnds(p) PROVE EndSound'
  BY <1>0, <1>4, MonitorEndsTask DEF MonitorRuns
<1> QED BY <1>1, <1>2, <1>3, <1>4, SubmitEnds DEF Next

LEMMA InitEnds == Init => EndSound
BY DEF Init, InitTables, InitScheduler, NoProcess, Living, EndSound, EndedHasNoProcess

\* Who is told that a task has ended may count on its GPUs: no process of the
\* task is left, whichever of its monitor, update_tasks and a failed launch said
\* so.  A failing kill -0 or wait() is what breaks it (scheduler.rs:339, :393).
THEOREM EndedTasksAreDead ==
  ASSUME Faults \cap {"probe", "wait"} = {}
  PROVE  Spec => []EndedHasNoProcess
<1>1. Inv /\ LifeSound /\ FinishedIsTruthful /\ EndSound /\ [Next]_vars => EndSound'
  BY NextEnds DEF EndInv, LInv
<1>2. EndSound => EndedHasNoProcess
  BY DEF EndSound
<1> QED BY <1>1, <1>2, InitEnds, Invariance, LifeStaysSound, FinishedStaysTruthful, PTL DEF Spec

-----------------------------------------------------------------------------
(* Waiting tasks are listed.                                                *)

Listing ==
    /\ WaitingIsListed
    /\ \A q \in QueueNames : ~queues[q].exists => queues[q].waiting = {}

ListInv == Inv /\ Listing /\ \A c \in Clients : handlers[c].op # "create"

\* A method that changes one task keeps the others listed if their ids stay where
\* they are, and that one if it does not wait or is listed anew.
LEMMA ListedStill ==
    ASSUME Listing, TablesType, QueueKnown, NEW t \in TaskIds,
           \A u \in TaskIds : u # t =>
               tasks'[u].state = tasks[u].state /\ tasks'[u].queue = tasks[u].queue,
           \A q \in QueueNames, u \in TaskIds :
               u # t /\ u \in queues[q].waiting => u \in queues'[q].waiting,
           \A q \in QueueNames : ~queues'[q].exists =>
               ~queues[q].exists /\ queues'[q].waiting = queues[q].waiting,
           tasks'[t].state = "Waiting" => t \in queues'[tasks'[t].queue].waiting
    PROVE  Listing'
<1>1. \A u \in TaskIds : tasks[u].state = "Waiting" => tasks[u].queue \in QueueNames
  BY DEF QueueKnown, Present
<1> QED BY <1>1 DEF Listing, WaitingIsListed

LEMMA AddTaskListing ==
    ASSUME Listing, TablesType, QueueKnown, NEW t \in TaskIds, NEW q \in QueueNames,
           NEW need \in GpuRequires, AddTask(t, q, need)
    PROVE  Listing'
<1>1. /\ tasks'[t].queue = q /\ \A u \in TaskIds : u # t => tasks'[u] = tasks[u]
  BY DEF AddTask, TablesType, NoTask
<1> DEFINE old == IF queues[q].exists THEN queues[q] ELSE EmptyQueue
<1>2. /\ \A r \in QueueNames \ {q} : queues'[r] = queues[r]
      /\ queues'[q] = Enlist(old, t, "Waiting")
  BY DEF AddTask, TablesType
<1>3. old \in QueueMeta /\ old.exists /\ queues[q].waiting \subseteq old.waiting
  BY DEF Listing, TablesType, EmptyQueue, QueueMeta
<1> HIDE DEF old
<1>4. queues'[q].exists /\ queues'[q].waiting = old.waiting \cup {t}
  BY <1>2, <1>3 DEF Enlist, QueueMeta
<1> QED BY <1>1, <1>2, <1>3, <1>4, ListedStill

LEMMA UpdateTaskStateListing ==
    ASSUME Listing, TablesType, QueueKnown, NEW t \in TaskIds,
           NEW state \in {"Running", "Finished", "Failed"},
           NEW gpus \in (SUBSET Gpus) \cup {Nil}, UpdateTaskState(t, state, gpus)
    PROVE  Listing'
<1>a. CASE ~Present(t)
  BY <1>a DEF UpdateTaskState, tables, Listing, WaitingIsListed
<1>b. CASE Present(t)
  <2> DEFINE own == queues[tasks[t].queue]
             new == IF tasks[t].state = state THEN own
                    ELSE Enlist(Delist(own, t, tasks[t].state), t, state)
  <2>1. /\ tasks'[t].state = state
        /\ \A u \in TaskIds : u # t => tasks'[u] = tasks[u]
    BY <1>b DEF UpdateTaskState, TablesType, TaskMeta
  <2>2. tasks[t].queue \in QueueNames
    BY <1>b DEF QueueKnown
  <2>3. queues' = [queues EXCEPT ![tasks[t].queue] = new]
    BY <1>b DEF UpdateTaskState
  <2>4. new.exists = own.exists /\ own.waiting \ {t} \subseteq new.waiting
        /\ new.waiting \subseteq own.waiting
    <3> own \in QueueMeta
      BY <2>2 DEF TablesType
    <3> HIDE DEF own
    <3> QED BY DEF Enlist, Delist, QueueMeta
  <2> HIDE DEF new
  <2>5. \A q \in QueueNames : queues'[q] = IF q = tasks[t].queue THEN new ELSE queues[q]
    BY <2>3 DEF TablesType
  <2>a. \A q \in QueueNames : ~queues[q].exists => queues[q].waiting = {}
    BY DEF Listing
  <2>b. \A q \in QueueNames :
           queues'[q].exists = queues[q].exists /\ queues[q].waiting \ {t} \subseteq queues'[q].waiting
           /\ queues'[q].waiting \subseteq queues[q].waiting
    BY <2>4, <2>5 DEF own
  <2>c. \A q \in QueueNames : ~queues'[q].exists =>
          ~queues[q].exists /\ queues'[q].waiting = queues[q].waiting
    BY <2>a, <2>b
  <2>d. \A q \in QueueNames, u \in TaskIds :
          u # t /\ u \in queues[q].waiting => u \in queues'[q].waiting
    BY <2>b
  <2> QED BY <2>1, <2>c, <2>d, ListedStill
<1> QED BY <1>a, <1>b

LEMMA UpdateTaskQueueListing ==
    ASSUME Listing, TablesType, QueueKnown, RunningListsSound, NEW t \in TaskIds,
           NEW dest \in QueueNames, UpdateTaskQueue(t, dest)
    PROVE  Listing'
<1>a. CASE ~(queues[dest].exists /\ Present(t) /\ tasks[t].queue # dest)
  BY <1>a DEF UpdateTaskQueue, tables, Listing, WaitingIsListed
<1>b. CASE queues[dest].exists /\ Present(t) /\ tasks[t].queue # dest
  <2> DEFINE own == queues[tasks[t].queue]
             left == Purge(own, t, tasks[t].state)
  <2>1. /\ tasks'[t].state = tasks[t].state /\ tasks'[t].queue = dest
        /\ \A u \in TaskIds : u # t => tasks'[u] = tasks[u]
    BY <1>b DEF UpdateTaskQueue, TablesType, TaskMeta
  <2>2. tasks[t].queue \in QueueNames
    BY <1>b DEF QueueKnown
  <2>3. left.exists = own.exists /\ own.waiting \ {t} \subseteq left.waiting
        /\ left.waiting \subseteq own.waiting
    <3> own \in QueueMeta
      BY <2>2 DEF TablesType
    <3> HIDE DEF own
    <3> QED BY DEF Purge, QueueMeta
  <2>4. queues' = [queues EXCEPT ![tasks[t].queue] = left,
                                 ![dest].waiting = IF t \in queues[dest].running THEN @
                                                   ELSE @ \cup {t}]
    BY <1>b DEF UpdateTaskQueue
  <2> HIDE DEF left
  <2>5. \A q \in QueueNames :
          /\ q = tasks[t].queue => queues'[q] = left
          /\ q # tasks[t].queue =>
                /\ queues'[q].exists = queues[q].exists
                /\ queues[q].waiting \subseteq queues'[q].waiting
                /\ q # dest => queues'[q] = queues[q]
    BY <1>b, <2>2, <2>4 DEF TablesType, QueueMeta
  <2>6. tasks[t].state = "Waiting" => t \in queues'[dest].waiting
    BY <1>b, <2>2, <2>4 DEF TablesType, QueueMeta, RunningListsSound
  <2>a. \A q \in QueueNames : ~queues[q].exists => queues[q].waiting = {}
    BY DEF Listing
  <2>b. \A q \in QueueNames : q = tasks[t].queue
        => queues'[q].exists = queues[q].exists /\ queues[q].waiting \ {t} \subseteq queues'[q].waiting
           /\ queues'[q].waiting \subseteq queues[q].waiting
    BY <2>3, <2>5 DEF own
  <2>e. \A q \in QueueNames : q # tasks[t].queue /\ q # dest => queues'[q] = queues[q]
    BY <2>5
  <2>c. \A q \in QueueNames : ~queues'[q].exists =>
          ~queues[q].exists /\ queues'[q].waiting = queues[q].waiting
    BY <1>b, <2>a, <2>b, <2>5, <2>e
  <2>d. \A q \in QueueNames, u \in TaskIds :
          u # t /\ u \in queues[q].waiting => u \in queues'[q].waiting
    BY <2>b, <2>5
  <2> QED BY <2>1, <2>6, <2>c, <2>d, ListedStill
<1> QED BY <1>a, <1>b

LEMMA RemoveTaskListing ==
    ASSUME Listing, TablesType, QueueKnown, NEW t \in TaskIds, RemoveTask(t)
    PROVE  Listing'
<1>a. CASE ~Present(t)
  BY <1>a DEF RemoveTask, tables, Listing, WaitingIsListed
<1>b. CASE Present(t)
  <2> DEFINE own == queues[tasks[t].queue]
             left == Purge(own, t, tasks[t].state)
  <2>1. /\ tasks'[t].state = "Absent" /\ \A u \in TaskIds : u # t => tasks'[u] = tasks[u]
    BY <1>b DEF RemoveTask, TablesType, NoTask
  <2>2. tasks[t].queue \in QueueNames
    BY <1>b DEF QueueKnown
  <2>3. left.exists = own.exists /\ own.waiting \ {t} \subseteq left.waiting
        /\ left.waiting \subseteq own.waiting
    <3> own \in QueueMeta
      BY <2>2 DEF TablesType
    <3> HIDE DEF own
    <3> QED BY DEF Purge, QueueMeta
  <2>4. queues' = [queues EXCEPT ![tasks[t].queue] = left]
    BY <1>b DEF RemoveTask
  <2> HIDE DEF left
  <2>5. \A q \in QueueNames : queues'[q] = IF q = tasks[t].queue THEN left ELSE queues[q]
    BY <2>4 DEF TablesType
  <2>a. \A q \in QueueNames : ~queues[q].exists => queues[q].waiting = {}
    BY DEF Listing
  <2>b. \A q \in QueueNames :
           queues'[q].exists = queues[q].exists /\ queues[q].waiting \ {t} \subseteq queues'[q].waiting
           /\ queues'[q].waiting \subseteq queues[q].waiting
    BY <2>3, <2>5 DEF own
  <2>c. \A q \in QueueNames : ~queues'[q].exists =>
          ~queues[q].exists /\ queues'[q].waiting = queues[q].waiting
    BY <2>a, <2>b
  <2>d. \A q \in QueueNames, u \in TaskIds :
          u # t /\ u \in queues[q].waiting => u \in queues'[q].waiting
    BY <2>b
  <2> QED BY <2>1, <2>c, <2>d, ListedStill
<1> QED BY <1>a, <1>b

LEMMA ListedSame ==
    ASSUME Listing, UNCHANGED tables
    PROVE  Listing'
BY DEF Listing, WaitingIsListed, tables

LEMMA HandlerLists ==
    ASSUME ListInv, NEW c \in Clients, Check(c) \/ Apply(c)
    PROVE  Listing'
<1> USE DEF ListInv
<1>0. TablesType /\ QueueKnown /\ RunningListsSound
  BY DEF Inv, TypeOK, TablesType
<1>1. CASE Check(c) \/ KillSignal(c) \/ \E t \in TaskIds : ReleaseKill(c, t)
  <2>1. UNCHANGED tables
    BY <1>1 DEF Check, KillSignal, ReleaseKill, Remember, RunCheck, RemoveCheck, KillCheck,
                ReleaseCheck, MoveCheck, MergeCheck, CreateCheck
  <2> QED BY <2>1, ListedSame
<1>2. ASSUME NEW t \in TaskIds, MoveNext(c, t) PROVE Listing'
  <2>1. handlers[c].dest \in QueueNames /\ UpdateTaskQueue(t, handlers[c].dest)
    BY <1>2 DEF MoveNext, Inv, TypeOK, Handler, HandlersSound
  <2> QED BY <1>0, <2>1, UpdateTaskQueueListing
<1>3. CASE RemoveApply(c)
  <2>1. PICK t \in TaskIds : RemoveTask(t)
    BY <1>3 DEF RemoveApply, Inv, TypeOK, Handler
  <2> QED BY <1>0, <2>1, RemoveTaskListing
<1> QED BY <1>1, <1>2, <1>3 DEF Apply, CreateApply

\* The handler of a create is never entered.
LEMMA NoCreate ==
    ASSUME ListInv, "create" \notin Ops, [Next]_vars
    PROVE  \A c \in Clients : handlers'[c].op # "create"
<1> USE DEF ListInv
<1>1. ASSUME NEW c \in Clients, Check(c) PROVE \A d \in Clients : handlers'[d].op # "create"
  BY <1>1 DEF Check, Remember, RunCheck, RemoveCheck, KillCheck, ReleaseCheck, MoveCheck,
              MergeCheck, CreateCheck, Accept, Inv, TypeOK
<1>2. ASSUME NEW c \in Clients, Apply(c) PROVE \A d \in Clients : handlers'[d].op # "create"
  <2>1. CASE RemoveApply(c) \/ CreateApply(c)
    BY <2>1 DEF RemoveApply, CreateApply, Idle, Inv, TypeOK
  <2>2. CASE KillSignal(c)
    BY <2>2 DEF KillSignal, Idle, Inv, TypeOK, Handler
  <2>3. ASSUME NEW t \in TaskIds, ReleaseKill(c, t)
        PROVE  \A d \in Clients : handlers'[d].op # "create"
    BY <2>3 DEF ReleaseKill, Remember, Idle, Inv, TypeOK
  <2>4. ASSUME NEW t \in TaskIds, MoveNext(c, t)
        PROVE  \A d \in Clients : handlers'[d].op # "create"
    BY <2>4 DEF MoveNext, Idle, Inv, TypeOK, Handler
  <2> QED BY <1>2, <2>1, <2>2, <2>3, <2>4 DEF Apply
<1>3. CASE UNCHANGED handlers
  BY <1>3
<1> QED BY <1>1, <1>2, <1>3 DEF Next, Submit, SchedulerRuns, MonitorRuns, ProcessEnds, vars

LEMMA SchedulerLists ==
    ASSUME ListInv, SchedulerStep
    PROVE  Listing'
<1> USE DEF ListInv
<1>0. TablesType /\ QueueKnown /\ RunningListsSound
  BY DEF Inv, TypeOK, TablesType
<1>1. CASE \/ SnapshotQueues \/ SnapshotTasks \/ FetchTask \/ LaunchFails \/ SnapshotRunning
           \/ \E q \in QueueNames : EnterQueue(q)
           \/ \E t \in TaskIds : PassOver(t) \/ SkipRemoved(t)
           \/ \E t \in TaskIds, p \in Pids : Probe(t, p)
           \/ \E p \in Pids : Spawn(p)
  <2>1. UNCHANGED tables
    BY <1>1 DEF SnapshotQueues, SnapshotTasks, FetchTask, LaunchFails, SnapshotRunning,
                EnterQueue, PassOver, SkipRemoved, Probe, Spawn
  <2> QED BY <2>1, ListedSame
<1>2. ASSUME NEW t \in TaskIds, NEW gpus \in SUBSET freeGpus, StartTask(t, gpus)
      PROVE  Listing'
  <2>1. gpus \in (SUBSET Gpus) \cup {Nil} /\ UpdateTaskState(t, "Running", gpus)
    BY <1>2 DEF StartTask, Inv, TypeOK
  <2> QED BY <1>0, <2>1, UpdateTaskStateListing
<1>3. CASE SetPid
  <2>1. /\ SetTaskPid(curTask, child) /\ UNCHANGED queues
    BY <1>3 DEF SetPid, SetTaskPid
  <2>2. \A u \in TaskIds : tasks'[u].state = tasks[u].state /\ tasks'[u].queue = tasks[u].queue
    BY <1>0, <2>1 DEF SetTaskPid, TablesType, TaskMeta
  <2> QED BY <2>1, <2>2 DEF Listing, WaitingIsListed
<1>4. CASE RecordFailure \/ \E t \in TaskIds : MarkFailed(t)
  <2>1. PICK t \in TaskIds : UpdateTaskState(t, "Failed", Nil)
    BY <1>4 DEF RecordFailure, MarkFailed, Inv, LaunchSound, TypeOK
  <2>2. Nil \in (SUBSET Gpus) \cup {Nil}
    OBVIOUS
  <2> QED BY <1>0, <2>1, <2>2, UpdateTaskStateListing
<1> QED BY <1>1, <1>2, <1>3, <1>4 DEF SchedulerStep

LEMMA MonitorLists ==
    ASSUME ListInv, NEW p \in Pids, MonitorStep(p)
    PROVE  Listing'
<1> USE DEF ListInv
<1>0. TablesType /\ QueueKnown
  BY DEF Inv, TypeOK, TablesType
<1>1. CASE Reap(p)
  BY <1>1, ListedSame DEF Reap
<1>2. CASE Report(p) \/ WaitFails(p)
  <2>1. PICK state \in {"Running", "Finished", "Failed"} :
            UpdateTaskState(procs[p].task, state, Nil)
    BY <1>2 DEF Report, WaitFails
  <2>2. procs[p].task \in TaskIds /\ Nil \in (SUBSET Gpus) \cup {Nil}
    BY <1>2 DEF Report, WaitFails, Inv, ProcessSound, TypeOK, Process
  <2> QED BY <1>0, <2>1, <2>2, UpdateTaskStateListing
<1> QED BY <1>1, <1>2 DEF MonitorStep

LEMMA NextLists ==
    ASSUME ListInv, [Next]_vars
    PROVE  Listing'
<1>1. CASE UNCHANGED vars
  BY <1>1, ListedSame DEF vars, ListInv
<1>2. ASSUME NEW t \in TaskIds, NEW q \in QueueNames, NEW need \in GpuRequires,
             Submit(t, q, need)
      PROVE  Listing'
  <2>1. TablesType /\ QueueKnown /\ AddTask(t, q, need)
    BY <1>2 DEF Submit, ListInv, Inv, TypeOK, TablesType
  <2> QED BY <2>1, AddTaskListing DEF ListInv
<1>3. ASSUME NEW c \in Clients, Check(c) \/ Apply(c) PROVE Listing'
  BY <1>3, HandlerLists
<1>4. CASE SchedulerRuns
  BY <1>4, SchedulerLists DEF SchedulerRuns
<1>5. ASSUME NEW p \in Pids, MonitorRuns(p) PROVE Listing'
  BY <1>5, MonitorLists DEF MonitorRuns
<1>6. ASSUME NEW p \in Pids, ProcessEnds(p) PROVE Listing'
  BY <1>6, ListedSame DEF ProcessEnds, Exit, ListInv
<1> QED BY <1>1, <1>2, <1>3, <1>4, <1>5, <1>6 DEF Next

LEMMA InitLists == Init => Listing /\ \A c \in Clients : handlers[c].op # "create"
BY DEF Init, InitTables, NoTask, EmptyQueue, NoQueue, Idle, Listing, WaitingIsListed

\* No move, merge, run, removal, start or submission, however many overlap, takes a
\* task that waits off the list where schedule_tasks would find it.  A queue create
\* does, which is the run lost_task (queue_handler.rs:159).
THEOREM NoTaskIsLost ==
  ASSUME "create" \notin Ops
  PROVE  Spec => []WaitingIsListed
<1> DEFINE NoCreator == \A c \in Clients : handlers[c].op # "create"
<1>1. Init => Listing /\ NoCreator
  BY InitLists
<1>2. Inv /\ Listing /\ NoCreator /\ [Next]_vars => Listing' /\ NoCreator'
  BY NextLists, NoCreate DEF ListInv
<1>3. Listing => WaitingIsListed
  BY DEF Listing
<1> HIDE DEF NoCreator
<1> QED BY <1>1, <1>2, <1>3, Invariance, PTL DEF Spec

-----------------------------------------------------------------------------
(* Queues stay.                                                             *)

\* A step of the daemon changes the tables by one call of one method, or not.
OneMethod ==
    \/ UNCHANGED tables
    \/ \E t \in TaskIds, q \in QueueNames, need \in GpuRequires : AddTask(t, q, need)
    \/ \E t \in TaskIds, pid \in Pids : SetTaskPid(t, pid)
    \/ \E t \in TaskIds, state \in TaskStates, gpus \in (SUBSET Gpus) \cup {Nil} :
          UpdateTaskState(t, state, gpus)
    \/ \E t \in TaskIds, dest \in QueueNames : UpdateTaskQueue(t, dest)
    \/ \E t \in TaskIds : RemoveTask(t)
    \/ \E q \in QueueNames : AddQueue(q)

LEMMA StepsAreMethods ==
    ASSUME Inv, [Next]_vars
    PROVE  OneMethod
<1>1. ASSUME NEW c \in Clients, Apply(c) PROVE OneMethod
  <2>1. CASE KillSignal(c) \/ \E t \in TaskIds : ReleaseKill(c, t)
    BY <2>1 DEF KillSignal, ReleaseKill, Remember, OneMethod
  <2>2. CASE RemoveApply(c)
    BY <2>2 DEF RemoveApply, Inv, TypeOK, Handler, OneMethod
  <2>3. ASSUME NEW t \in TaskIds, MoveNext(c, t) PROVE OneMethod
    <3>1. handlers[c].dest \in QueueNames /\ UpdateTaskQueue(t, handlers[c].dest)
      BY <2>3 DEF MoveNext, Inv, TypeOK, Handler, HandlersSound
    <3> QED BY <3>1 DEF OneMethod
  <2>4. CASE CreateApply(c)
    <3>1. handlers[c].dest \in QueueNames /\ AddQueue(handlers[c].dest)
      BY <2>4 DEF CreateApply, Inv, TypeOK, Handler, HandlersSound
    <3> QED BY <3>1 DEF OneMethod
  <2> QED BY <1>1, <2>1, <2>2, <2>3, <2>4 DEF Apply
<1>2. ASSUME NEW c \in Clients, Check(c) PROVE OneMethod
  BY <1>2 DEF Check, Remember, RunCheck, RemoveCheck, KillCheck, ReleaseCheck, MoveCheck,
              MergeCheck, CreateCheck, OneMethod
<1>3. CASE SchedulerStep
  <2>1. CASE \/ SnapshotQueues \/ SnapshotTasks \/ FetchTask \/ LaunchFails \/ SnapshotRunning
             \/ \E q \in QueueNames : EnterQueue(q)
             \/ \E t \in TaskIds : PassOver(t) \/ SkipRemoved(t)
             \/ \E t \in TaskIds, p \in Pids : Probe(t, p)
             \/ \E p \in Pids : Spawn(p)
    BY <2>1 DEF SnapshotQueues, SnapshotTasks, FetchTask, LaunchFails, SnapshotRunning,
                EnterQueue, PassOver, SkipRemoved, Probe, Spawn, OneMethod
  <2>2. ASSUME NEW t \in TaskIds, NEW gpus \in SUBSET freeGpus, StartTask(t, gpus)
        PROVE  OneMethod
    <3>1. gpus \in (SUBSET Gpus) \cup {Nil} /\ UpdateTaskState(t, "Running", gpus)
      BY <2>2 DEF StartTask, Inv, TypeOK
    <3> QED BY <3>1 DEF OneMethod, TaskStates
  <2>3. CASE SetPid
    <3>1. curTask \in TaskIds /\ child \in Pids /\ SetTaskPid(curTask, child)
      BY <2>3 DEF SetPid, Inv, LaunchSound, TypeOK
    <3> QED BY <3>1 DEF OneMethod
  <2>4. CASE RecordFailure \/ \E t \in TaskIds : MarkFailed(t)
    <3>1. \E t \in TaskIds : UpdateTaskState(t, "Failed", Nil)
      BY <2>4 DEF RecordFailure, MarkFailed, Inv, LaunchSound, TypeOK
    <3>2. "Failed" \in TaskStates /\ Nil \in (SUBSET Gpus) \cup {Nil}
      BY DEF TaskStates
    <3> QED BY <3>1, <3>2 DEF OneMethod
  <2> QED BY <1>3, <2>1, <2>2, <2>3, <2>4 DEF SchedulerStep
<1>4. ASSUME NEW p \in Pids, MonitorStep(p) PROVE OneMethod
  <2>1. CASE Reap(p)
    BY <2>1 DEF Reap, OneMethod
  <2>2. CASE Report(p) \/ WaitFails(p)
    <3>1. \E state \in TaskStates : UpdateTaskState(procs[p].task, state, Nil)
      BY <2>2 DEF Report, WaitFails, TaskStates
    <3>2. procs[p].task \in TaskIds /\ Nil \in (SUBSET Gpus) \cup {Nil}
      BY <2>2 DEF Report, WaitFails, Inv, ProcessSound, TypeOK, Process
    <3> QED BY <3>1, <3>2 DEF OneMethod
  <2> QED BY <1>4, <2>1, <2>2 DEF MonitorStep
<1>5. CASE UNCHANGED vars \/ \E p \in Pids : ProcessEnds(p)
  BY <1>5 DEF vars, ProcessEnds, Exit, OneMethod
<1>6. ASSUME NEW t \in TaskIds, NEW q \in QueueNames, NEW need \in GpuRequires,
             Submit(t, q, need)
      PROVE  OneMethod
  BY <1>6 DEF Submit, OneMethod
<1> QED BY <1>1, <1>2, <1>3, <1>4, <1>5, <1>6 DEF Next, SchedulerRuns, MonitorRuns

\* No method drops a queue, or puts a task into one that is not there.
QueuesStay ==
    /\ \A q \in QueueNames : queues[q].exists => queues'[q].exists
    /\ \A t \in TaskIds : Present(t)' =>
          \/ Present(t) /\ tasks'[t].queue = tasks[t].queue
          \/ tasks'[t].queue \in QueueNames /\ queues'[tasks'[t].queue].exists

LEMMA SurgeryExists ==
    ASSUME NEW queue \in QueueMeta, NEW t, NEW state
    PROVE  /\ Delist(queue, t, state).exists = queue.exists
           /\ Purge(queue, t, state).exists = queue.exists
           /\ Enlist(queue, t, state).exists = queue.exists
           /\ Delist(queue, t, state) \in [exists : BOOLEAN, waiting : SUBSET TaskIds,
                                           running : SUBSET TaskIds]
BY DEF Delist, Purge, Enlist, QueueMeta

LEMMA MethodsKeepQueues ==
    ASSUME TablesType, QueueKnown, OneMethod
    PROVE  QueuesStay
<1>1. CASE UNCHANGED tables
  BY <1>1 DEF tables, QueuesStay, Present
<1>2. ASSUME NEW t \in TaskIds, NEW q \in QueueNames, NEW need \in GpuRequires,
             AddTask(t, q, need)
      PROVE  QueuesStay
  <2> DEFINE old == IF queues[q].exists THEN queues[q] ELSE EmptyQueue
  <2>1. old \in QueueMeta /\ old.exists
    BY BlankTypes DEF TablesType, EmptyQueue
  <2>2. queues' = [queues EXCEPT ![q] = Enlist(old, t, "Waiting")]
    BY <1>2 DEF AddTask
  <2> HIDE DEF old
  <2>3. Enlist(old, t, "Waiting").exists
    BY <2>1, SurgeryExists
  <2>4. queues'[q].exists /\ \A r \in QueueNames : r # q => queues'[r] = queues[r]
    BY <2>2, <2>3 DEF TablesType
  <2>5. tasks'[t].queue = q /\ \A u \in TaskIds : u # t => tasks'[u] = tasks[u]
    BY <1>2 DEF AddTask, TablesType, NoTask
  <2> QED BY <2>4, <2>5 DEF QueuesStay, Present
<1>3. ASSUME NEW t \in TaskIds, NEW pid \in Pids, SetTaskPid(t, pid) PROVE QueuesStay
  <2>1. \A u \in TaskIds : tasks'[u].queue = tasks[u].queue /\ tasks'[u].state = tasks[u].state
    BY <1>3 DEF SetTaskPid, TablesType, TaskMeta
  <2> QED BY <1>3, <2>1 DEF SetTaskPid, QueuesStay, Present
<1>4. ASSUME NEW t \in TaskIds, NEW state \in TaskStates,
             NEW gpus \in (SUBSET Gpus) \cup {Nil}, UpdateTaskState(t, state, gpus)
      PROVE  QueuesStay
  <2>1. CASE ~Present(t)
    BY <2>1, <1>4, <1>1 DEF UpdateTaskState
  <2>2. CASE Present(t)
    <3> DEFINE own == queues[tasks[t].queue]
               changed == IF tasks[t].state = state THEN own
                          ELSE Enlist(Delist(own, t, tasks[t].state), t, state)
    <3>1. tasks[t].queue \in QueueNames
      BY <2>2 DEF QueueKnown
    <3>2. queues' = [queues EXCEPT ![tasks[t].queue] = changed]
      BY <1>4, <2>2 DEF UpdateTaskState
    <3>3. changed.exists = own.exists
      <4>1. own \in QueueMeta
        BY <3>1 DEF TablesType
      <4> HIDE DEF own
      <4>2. Delist(own, t, tasks[t].state) \in QueueMeta
            /\ Delist(own, t, tasks[t].state).exists = own.exists
        BY <4>1, SurgeryExists DEF QueueMeta
      <4>3. Enlist(Delist(own, t, tasks[t].state), t, state).exists = own.exists
        BY <4>2, SurgeryExists
      <4> QED BY <4>3
    <3> HIDE DEF changed
    <3>4. \A q \in QueueNames : queues'[q].exists = queues[q].exists
      BY <3>1, <3>2, <3>3 DEF TablesType
    <3>5. \A u \in TaskIds : /\ tasks'[u].queue = tasks[u].queue
                             /\ Present(u)' => Present(u)
      BY <1>4, <2>2 DEF UpdateTaskState, TablesType, TaskMeta, Present
    <3> QED BY <3>4, <3>5 DEF QueuesStay
  <2> QED BY <2>1, <2>2
<1>5. ASSUME NEW t \in TaskIds, NEW dest \in QueueNames, UpdateTaskQueue(t, dest)
      PROVE  QueuesStay
  <2>1. CASE ~(queues[dest].exists /\ Present(t) /\ tasks[t].queue # dest)
    BY <2>1, <1>5, <1>1 DEF UpdateTaskQueue
  <2>2. CASE queues[dest].exists /\ Present(t) /\ tasks[t].queue # dest
    <3> DEFINE own == queues[tasks[t].queue]
               left == Purge(own, t, tasks[t].state)
    <3>1. tasks[t].queue \in QueueNames
      BY <2>2 DEF QueueKnown
    <3>2. queues' = [queues EXCEPT ![tasks[t].queue] = left,
                                   ![dest].waiting = IF t \in queues[dest].running THEN @
                                                     ELSE @ \cup {t}]
      BY <1>5, <2>2 DEF UpdateTaskQueue
    <3>3. left.exists = own.exists
      BY <3>1, SurgeryExists DEF TablesType
    <3> HIDE DEF left
    <3>4. \A q \in QueueNames : queues[q].exists => queues'[q].exists
      BY <2>2, <3>1, <3>2, <3>3 DEF TablesType, QueueMeta
    <3>5. tasks' = [tasks EXCEPT ![t].queue = dest]
      BY <1>5, <2>2 DEF UpdateTaskQueue
    <3>6. /\ tasks'[t].queue = dest
          /\ \A u \in TaskIds : u # t => tasks'[u] = tasks[u]
      BY <3>5 DEF TablesType, TaskMeta
    <3>7. queues'[dest].exists
      BY <2>2, <3>4
    <3> QED BY <3>4, <3>6, <3>7 DEF QueuesStay, Present
  <2> QED BY <2>1, <2>2
<1>6. ASSUME NEW t \in TaskIds, RemoveTask(t) PROVE QueuesStay
  <2>1. CASE ~Present(t)
    BY <2>1, <1>6, <1>1 DEF RemoveTask
  <2>2. CASE Present(t)
    <3> DEFINE own == queues[tasks[t].queue]
               left == Purge(own, t, tasks[t].state)
    <3>1. tasks[t].queue \in QueueNames
      BY <2>2 DEF QueueKnown
    <3>2. queues' = [queues EXCEPT ![tasks[t].queue] = left]
      BY <1>6, <2>2 DEF RemoveTask
    <3>3. left.exists = own.exists
      BY <3>1, SurgeryExists DEF TablesType
    <3> HIDE DEF left
    <3>4. \A q \in QueueNames : queues'[q].exists = queues[q].exists
      BY <3>1, <3>2, <3>3 DEF TablesType
    <3>5. ~Present(t)' /\ \A u \in TaskIds : u # t => tasks'[u] = tasks[u]
      BY <1>6, <2>2 DEF RemoveTask, TablesType, NoTask, Present
    <3> QED BY <3>4, <3>5 DEF QueuesStay, Present
  <2> QED BY <2>1, <2>2
<1>7. ASSUME NEW q \in QueueNames, AddQueue(q) PROVE QueuesStay
  <2>1. \A r \in QueueNames : queues[r].exists => queues'[r].exists
    BY <1>7 DEF AddQueue, TablesType, EmptyQueue
  <2> QED BY <1>7, <2>1 DEF AddQueue, QueuesStay, Present
<1> QED BY <1>1, <1>2, <1>3, <1>4, <1>5, <1>6, <1>7 DEF OneMethod

\* What a handler is about to move tasks to was there when it looked.
LEMMA HandlersKnowQueues ==
    ASSUME Inv, QueuesExist, [Next]_vars
    PROVE  \A c \in Clients : handlers'[c].op \in Moving =>
              \/ handlers'[c].dest \in QueueNames /\ queues[handlers'[c].dest].exists
              \/ handlers[c].op \in Moving /\ handlers'[c].dest = handlers[c].dest
<1> DEFINE Goal == \A c \in Clients : handlers'[c].op \in Moving =>
              \/ handlers'[c].dest \in QueueNames /\ queues[handlers'[c].dest].exists
              \/ handlers[c].op \in Moving /\ handlers'[c].dest = handlers[c].dest
<1>1. ASSUME NEW c \in Clients, Check(c) PROVE Goal
  BY <1>1, QueueAssumption DEF Check, Remember, RunCheck, RemoveCheck, KillCheck, ReleaseCheck,
     MoveCheck, MergeCheck, CreateCheck, Moving, Inv, TypeOK, QueuesExist
<1>2. ASSUME NEW c \in Clients, Apply(c) PROVE Goal
  <2>1. CASE RemoveApply(c) \/ CreateApply(c)
    BY <2>1 DEF RemoveApply, CreateApply, Idle, Moving, Inv, TypeOK
  <2>2. CASE KillSignal(c)
    BY <2>2 DEF KillSignal, Idle, Moving, Inv, TypeOK, Handler
  <2>3. ASSUME NEW t \in TaskIds, ReleaseKill(c, t) PROVE Goal
    BY <2>3 DEF ReleaseKill, Remember, Idle, Moving, Inv, TypeOK
  <2>4. ASSUME NEW t \in TaskIds, MoveNext(c, t) PROVE Goal
    BY <2>4 DEF MoveNext, Idle, Moving, Inv, TypeOK, Handler
  <2> QED BY <1>2, <2>1, <2>2, <2>3, <2>4 DEF Apply
<1>3. CASE UNCHANGED handlers
  BY <1>3
<1> QED BY <1>1, <1>2, <1>3 DEF Next, Submit, SchedulerRuns, MonitorRuns, ProcessEnds, vars

LEMMA QueuesStillExist ==
    ASSUME Inv, QueuesExist, [Next]_vars
    PROVE  QueuesExist'
<1>1. QueuesStay
  BY StepsAreMethods, MethodsKeepQueues DEF Inv, TypeOK, TablesType
<1>2. \A q \in {WaitingQueue, RunningQueue} : queues'[q].exists
  BY <1>1, QueueAssumption DEF QueuesStay, QueuesExist
<1>3. \A t \in TaskIds : Present(t)' => queues'[tasks'[t].queue].exists
  BY <1>1 DEF QueuesStay, QueuesExist, Inv, QueueKnown
<1>4. \A c \in Clients : handlers'[c].op \in Moving => queues'[handlers'[c].dest].exists
  <2>1. \A c \in Clients : handlers[c].op \in Moving =>
           handlers[c].dest \in QueueNames /\ queues[handlers[c].dest].exists
    BY DEF Inv, TypeOK, Handler, HandlersSound, QueuesExist
  <2> QED BY <1>1, <2>1, HandlersKnowQueues DEF QueuesStay
<1> QED BY <1>2, <1>3, <1>4 DEF QueuesExist

LEMMA InitQueuesExist == Init => QueuesExist
BY QueueAssumption DEF Init, InitTables, NoTask, EmptyQueue, Idle, Moving, QueuesExist, Present

\* A task is never left in a queue that the tables do not have, and no handler
\* moves one there (state.rs:159, :225, :294), for any number of clients.
THEOREM QueuesKeepExisting == Spec => []QueuesExist
<1>1. Inv /\ QueuesExist /\ [Next]_vars => QueuesExist'
  BY QueuesStillExist
<1> QED BY <1>1, InitQueuesExist, Invariance, PTL DEF Spec

-----------------------------------------------------------------------------
(* Exits are in hand.                                                       *)

\* A process is reaped by its monitor, which has begun only after the pid is stored.
MonitorSound ==
    /\ \A p \in Pids : procs[p].status = "Gone" => procs[p].monitor \in {"Reporting", "Done"}
    /\ pc = "setpid" => procs[child].monitor = "None"

LEMMA MonitorsStaySound ==
    ASSUME Inv, MonitorSound, [Next]_vars
    PROVE  MonitorSound'
<1>0. procs \in [Pids -> Process] /\ child \in Pids \cup {Nil}
  BY DEF Inv, TypeOK
<1>1. ASSUME NEW p \in Pids, Spawn(p) PROVE MonitorSound'
  <2>1. procs[p].monitor = "None"
    BY <1>1 DEF Spawn, Inv, ProcessSound
  <2>2. /\ procs'[p].monitor = "None" /\ procs'[p].status = "Alive" /\ child' = p
        /\ \A r \in Pids \ {p} : procs'[r] = procs[r]
    BY <1>0, <1>1, <2>1 DEF Spawn, Process
  <2> QED BY <2>2 DEF MonitorSound
<1>2. CASE SetPid
  <2>1. child \in Pids /\ procs[child].status # "Gone" /\ pc' = "pick"
    BY <1>2 DEF SetPid, MonitorSound, Inv, LaunchSound
  <2>2. /\ procs'[child].status = procs[child].status
        /\ \A r \in Pids \ {child} : procs'[r] = procs[r]
    BY <1>0, <1>2, <2>1 DEF SetPid, Process
  <2> QED BY <2>1, <2>2 DEF MonitorSound
<1>3. CASE UNCHANGED procs /\ (pc' = "setpid" => pc = "setpid" /\ child' = child)
  BY <1>3 DEF MonitorSound
<1>4. ASSUME NEW p \in Pids, MonitorStep(p) \/ ProcessEnds(p) PROVE MonitorSound'
  <2>1. /\ \A r \in Pids \ {p} : procs'[r] = procs[r]
        /\ UNCHANGED <<pc, child>>
    BY <1>0, <1>4 DEF MonitorStep, Reap, Report, WaitFails, ProcessEnds, Exit, schedulerVars
  <2>2. /\ procs'[p].status = "Gone" => procs'[p].monitor \in {"Reporting", "Done"}
        /\ procs[p].monitor = "None" => procs'[p].monitor = "None"
    <3>1. CASE Reap(p)
      BY <1>0, <3>1 DEF Reap, Process
    <3>2. CASE Report(p) \/ WaitFails(p)
      <4>1. procs[p] \in Process /\ procs[p].monitor # "None"
        BY <1>0, <3>2 DEF Report, WaitFails
      <4>2. procs' = [procs EXCEPT ![p].monitor = "Done"]
        BY <3>2 DEF Report, WaitFails
      <4>3. procs'[p].monitor = "Done"
        BY <1>0, <4>1, <4>2 DEF Process
      <4> QED BY <4>1, <4>3
    <3>3. CASE ProcessEnds(p)
      BY <1>0, <3>3 DEF ProcessEnds, Exit, Process
    <3> QED BY <1>4, <3>1, <3>2, <3>3 DEF MonitorStep
  <2>3. pc = "setpid" => child \in Pids
    BY DEF Inv, LaunchSound
  <2> QED BY <2>1, <2>2, <2>3 DEF MonitorSound
<1>5. ASSUME NEW c \in Clients, KillSignal(c) PROVE MonitorSound'
  <2>1. \A r \in Pids : procs'[r].status = procs[r].status /\ procs'[r].monitor = procs[r].monitor
    BY <1>0, <1>5 DEF KillSignal, Process
  <2>2. pc = "setpid" => child \in Pids
    BY DEF Inv, LaunchSound
  <2> QED BY <1>5, <2>1, <2>2 DEF KillSignal, schedulerVars, MonitorSound
<1>6. ASSUME NEW c \in Clients, Check(c) \/ Apply(c), ~KillSignal(c)
      PROVE  UNCHANGED <<procs, schedulerVars>>
  BY <1>6 DEF Check, Remember, RunCheck, RemoveCheck, KillCheck, ReleaseCheck, MoveCheck,
              MergeCheck, CreateCheck, Apply, RemoveApply, ReleaseKill, MoveNext, CreateApply
<1>7. CASE SchedulerStep
  BY <1>1, <1>2, <1>3, <1>7 DEF SchedulerStep, SnapshotQueues, SnapshotTasks, EnterQueue,
     PassOver, SkipRemoved, NextTask, StartTask, FetchTask, LaunchFails, RecordFailure,
     SnapshotRunning, Probe, MarkFailed
<1> QED BY <1>3, <1>4, <1>5, <1>6, <1>7 DEF Next, Submit, SchedulerRuns, MonitorRuns, vars,
           schedulerVars

LEMMA ExitsInHand ==
    ASSUME Inv, MonitorSound
    PROVE  ExitInHand
<1> SUFFICES ASSUME NEW p \in Pids, procs[p].status = "Gone", procs[p].monitor # "Reporting",
                    tasks[procs[p].task].state \notin Terminal \cup {"Absent"}
             PROVE  FALSE
  BY DEF ExitInHand
<1> DEFINE t == procs[p].task
<1>1. procs[p].monitor = "Done" /\ t \in TaskIds
  BY DEF MonitorSound, Inv, ProcessSound, TypeOK, Process
<1>2. \A r \in Pids : procs[r].task = t => r = p
  BY <1>1, NilAssumption DEF Inv, LaunchedOnce
<1>3. tasks[t].state = "Running"
  BY <1>1 DEF Inv, WaitingNotStarted, NeverLaunched, TypeOK, TaskMeta, TaskStates, Terminal
<1>4. t # curTask
  <2> SUFFICES ASSUME t = curTask PROVE FALSE
    OBVIOUS
  <2>1. ~NeverLaunched(curTask)
    BY DEF NeverLaunched
  <2>2. pc = "setpid"
    BY <1>1, <2>1, NilAssumption DEF Inv, LaunchSound
  <2>3. child = p
    BY <1>2, <2>2 DEF Inv, LaunchSound
  <2> QED BY <1>1, <2>2, <2>3 DEF MonitorSound
<1> QED BY <1>1, <1>2, <1>3, <1>4 DEF Inv, RunningIsWatched

LEMMA InitMonitors == Init => MonitorSound
BY DEF Init, InitScheduler, NoProcess, MonitorSound

\* Whatever is moved, removed, failed and launched meanwhile, an exit is recorded or
\* its monitor is about to: what ExitIsRecorded rests on, but for the monitor being
\* polled, with every request and fault.
THEOREM ExitsStayInHand == Spec => []ExitInHand
<1>1. Inv /\ MonitorSound /\ [Next]_vars => MonitorSound'
  BY MonitorsStaySound
<1>2. Inv /\ MonitorSound => ExitInHand
  BY ExitsInHand
<1> QED BY <1>1, <1>2, InitMonitors, Invariance, PTL DEF Spec
=============================================================================
