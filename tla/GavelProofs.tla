---------------------------- MODULE GavelProofs ----------------------------
(***************************************************************************)
(* Proofs about module Gavel, for every value of its constants.            *)
(***************************************************************************)
EXTENDS Gavel, TLAPS

-----------------------------------------------------------------------------
(* Types.                                                                   *)

\* The list surgery keeps a queue record a queue record.
LEMMA SurgeryType ==
    ASSUME NEW queue \in QueueMeta, NEW t \in TaskIds, NEW state
    PROVE  /\ Delist(queue, t, state) \in QueueMeta
           /\ Purge(queue, t, state) \in QueueMeta
           /\ Enlist(queue, t, state) \in QueueMeta
BY DEF QueueMeta, Delist, Purge, Enlist

LEMMA BlankTypes == NoTask \in TaskMeta /\ EmptyQueue \in QueueMeta /\ NoQueue \in QueueMeta
                    /\ NoProcess \in Process /\ Idle \in Handler
BY DEF NoTask, TaskMeta, EmptyQueue, NoQueue, QueueMeta, NoProcess, Process, Idle, Handler,
       HandlerOps, TaskStates

TablesType ==
    /\ tasks \in [TaskIds -> TaskMeta]
    /\ queues \in [QueueNames -> QueueMeta]

\* Each method keeps the types of the tables.
LEMMA AddTaskType ==
    ASSUME TablesType, NEW t \in TaskIds, NEW q \in QueueNames, NEW need \in GpuRequires,
           AddTask(t, q, need)
    PROVE  TablesType'
<1>1. [NoTask EXCEPT !.state = "Waiting", !.queue = q, !.gpu_require = need] \in TaskMeta
  BY DEF NoTask, TaskMeta, TaskStates
<1>2. Enlist(IF queues[q].exists THEN queues[q] ELSE EmptyQueue, t, "Waiting") \in QueueMeta
  BY SurgeryType, BlankTypes DEF TablesType
<1> QED BY <1>1, <1>2 DEF AddTask, TablesType

LEMMA UpdateTaskStateType ==
    ASSUME TablesType, NEW t \in TaskIds, NEW state \in TaskStates,
           NEW gpus \in (SUBSET Gpus) \cup {Nil},
           UpdateTaskState(t, state, gpus)
    PROVE  TablesType'
<1> SUFFICES ASSUME Present(t) PROVE TablesType'
  BY DEF UpdateTaskState, TablesType, tables
<1>1. tasks' \in [TaskIds -> TaskMeta]
  BY DEF UpdateTaskState, TablesType, TaskMeta
<1>2. queues' \in [QueueNames -> QueueMeta]
  BY SurgeryType DEF UpdateTaskState, TablesType
<1> QED BY <1>1, <1>2 DEF TablesType

LEMMA UpdateTaskQueueType ==
    ASSUME TablesType, NEW t \in TaskIds, NEW dest \in QueueNames,
           UpdateTaskQueue(t, dest)
    PROVE  TablesType'
<1> SUFFICES ASSUME queues[dest].exists, Present(t), tasks[t].queue # dest PROVE TablesType'
  BY DEF UpdateTaskQueue, TablesType, tables
<1>1. tasks' \in [TaskIds -> TaskMeta]
  BY DEF UpdateTaskQueue, TablesType, TaskMeta
<1>2. queues' \in [QueueNames -> QueueMeta]
  <2> DEFINE old == [queues EXCEPT ![tasks[t].queue] = Purge(@, t, tasks[t].state)]
  <2>1. old \in [QueueNames -> QueueMeta]
    BY SurgeryType DEF TablesType
  <2>2. queues' = [old EXCEPT ![dest].waiting = IF t \in queues[dest].running THEN @
                                               ELSE @ \cup {t}]
    BY DEF UpdateTaskQueue
  <2> HIDE DEF old
  <2> QED BY <2>1, <2>2 DEF QueueMeta
<1> QED BY <1>1, <1>2 DEF TablesType

LEMMA RemoveTaskType ==
    ASSUME TablesType, NEW t \in TaskIds, RemoveTask(t)
    PROVE  TablesType'
BY SurgeryType, BlankTypes DEF RemoveTask, TablesType, tables

LEMMA SetTaskPidType ==
    ASSUME TablesType, NEW t \in TaskIds, NEW pid \in Pids, SetTaskPid(t, pid)
    PROVE  TablesType'
BY DEF SetTaskPid, TablesType, TaskMeta

LEMMA AddQueueType ==
    ASSUME TablesType, NEW q \in QueueNames, AddQueue(q)
    PROVE  TablesType'
BY BlankTypes DEF AddQueue, TablesType

-----------------------------------------------------------------------------
(* Lists.                                                                   *)

ListsSound == QueueKnown /\ RunningListsSound /\ WaitingListedOnce

Listed(u) == \E q \in QueueNames : u \in queues[q].waiting \/ u \in queues[q].running

\* A method touches one task, and lists no other.
TouchesOnly(t) ==
    \A u \in TaskIds : u # t => tasks'[u] = tasks[u] /\ (Listed(u)' => Listed(u))

\* A task that enters the table was listed nowhere and is listed once.
LEMMA AddTaskLists ==
    ASSUME TablesType, ListsSound, NEW t \in TaskIds, NEW q \in QueueNames,
           NEW need \in GpuRequires, ~Listed(t), AddTask(t, q, need)
    PROVE  /\ ListsSound'
           /\ TouchesOnly(t)
           /\ tasks'[t].state = "Waiting" /\ tasks'[t].pid = Nil
<1>1. /\ tasks'[t].state = "Waiting" /\ tasks'[t].queue = q /\ tasks'[t].pid = Nil
      /\ \A u \in TaskIds : u # t => tasks'[u] = tasks[u]
  BY DEF AddTask, TablesType, NoTask
<1>2. \A r \in QueueNames :
        /\ queues'[r].running \subseteq queues[r].running
        /\ queues'[r].waiting \subseteq queues[r].waiting \cup (IF r = q THEN {t} ELSE {})
  BY DEF AddTask, TablesType, Enlist, EmptyQueue, QueueMeta
<1>3. TouchesOnly(t)
  BY <1>1, <1>2 DEF TouchesOnly, Listed
<1>4. QueueKnown'
  BY <1>1 DEF ListsSound, QueueKnown, Present
<1>5. RunningListsSound' /\ WaitingListedOnce'
  BY <1>1, <1>2 DEF ListsSound, RunningListsSound, WaitingListedOnce, Listed, TablesType, QueueMeta
<1> QED BY <1>1, <1>3, <1>4, <1>5 DEF ListsSound

\* A change of state keeps the lists sound: the id leaves the list of the old
\* state and joins the list of the new one.
LEMMA UpdateTaskStateLists ==
    ASSUME TablesType, ListsSound, NEW t \in TaskIds,
           NEW state \in {"Running", "Finished", "Failed"},
           NEW gpus \in (SUBSET Gpus) \cup {Nil},
           UpdateTaskState(t, state, gpus)
    PROVE  /\ ListsSound'
           /\ TouchesOnly(t)
           /\ ~Present(t) => UNCHANGED tables
           /\ Present(t) => tasks'[t].state = state
           /\ tasks'[t].pid = tasks[t].pid
<1>a. CASE ~Present(t)
  BY <1>a DEF UpdateTaskState, tables, ListsSound, QueueKnown, RunningListsSound,
              WaitingListedOnce, Present, TouchesOnly, Listed
<1>b. CASE Present(t)
  <2>1. /\ tasks'[t].state = state /\ tasks'[t].queue = tasks[t].queue
        /\ tasks'[t].pid = tasks[t].pid
        /\ \A u \in TaskIds : u # t => tasks'[u] = tasks[u]
    BY <1>b DEF UpdateTaskState, TablesType, TaskMeta
  <2>2. tasks[t].queue \in QueueNames /\ tasks[t].state \in TaskStates
    BY <1>b DEF ListsSound, QueueKnown, Present, TablesType, TaskMeta
  <2>3. \A r \in QueueNames :
          /\ queues'[r].waiting \subseteq queues[r].waiting
          /\ r # tasks[t].queue => queues'[r].running = queues[r].running
          /\ r = tasks[t].queue =>
                queues'[r].running \subseteq
                    (IF tasks[t].state = "Running" THEN queues[r].running \ {t}
                                                   ELSE queues[r].running)
                        \cup (IF state = "Running" THEN {t} ELSE {})
    <3> DEFINE own == queues[tasks[t].queue]
               new == IF tasks[t].state = state THEN own
                      ELSE Enlist(Delist(own, t, tasks[t].state), t, state)
    <3>1. queues' = [queues EXCEPT ![tasks[t].queue] = new]
      BY <1>b DEF UpdateTaskState
    <3>2. /\ new.waiting \subseteq own.waiting
          /\ new.running \subseteq
                    (IF tasks[t].state = "Running" THEN own.running \ {t} ELSE own.running)
                        \cup (IF state = "Running" THEN {t} ELSE {})
      <4> own \in QueueMeta
        BY <2>2 DEF TablesType
      <4> HIDE DEF own
      <4> QED BY DEF Enlist, Delist, QueueMeta
    <3> HIDE DEF own, new
    <3>3. \A r \in QueueNames : queues'[r] = IF r = tasks[t].queue THEN new ELSE queues[r]
      BY <3>1 DEF TablesType
    <3> QED BY <3>2, <3>3, <2>2 DEF own
  <2>4. TouchesOnly(t)
    BY <2>1, <2>3 DEF TouchesOnly, Listed
  <2>5. QueueKnown'
    BY <2>1, <2>2 DEF ListsSound, QueueKnown, Present
  <2>6. RunningListsSound' /\ WaitingListedOnce'
    BY <2>1, <2>2, <2>3 DEF ListsSound, RunningListsSound, WaitingListedOnce, TablesType, QueueMeta
  <2> QED BY <1>b, <2>1, <2>4, <2>5, <2>6 DEF ListsSound
<1> QED BY <1>a, <1>b

\* A move keeps the lists sound, whatever the state of the task.
LEMMA UpdateTaskQueueLists ==
    ASSUME TablesType, ListsSound, NEW t \in TaskIds, NEW dest \in QueueNames,
           UpdateTaskQueue(t, dest)
    PROVE  /\ ListsSound'
           /\ TouchesOnly(t)
           /\ ~Present(t) => UNCHANGED tables
           /\ tasks'[t].state = tasks[t].state /\ tasks'[t].pid = tasks[t].pid
<1>a. CASE ~(queues[dest].exists /\ Present(t) /\ tasks[t].queue # dest)
  BY <1>a DEF UpdateTaskQueue, tables, ListsSound, QueueKnown, RunningListsSound,
              WaitingListedOnce, Present, TouchesOnly, Listed
<1>b. CASE queues[dest].exists /\ Present(t) /\ tasks[t].queue # dest
  <2> DEFINE own == queues[tasks[t].queue]
             left == Purge(own, t, tasks[t].state)
  <2>1. /\ tasks'[t].state = tasks[t].state /\ tasks'[t].queue = dest
        /\ tasks'[t].pid = tasks[t].pid
        /\ \A u \in TaskIds : u # t => tasks'[u] = tasks[u]
    BY <1>b DEF UpdateTaskQueue, TablesType, TaskMeta
  <2>2. tasks[t].queue \in QueueNames /\ tasks[t].state \in TaskStates
    BY <1>b DEF ListsSound, QueueKnown, Present, TablesType, TaskMeta
  <2>3. queues' = [queues EXCEPT ![tasks[t].queue] = left,
                                 ![dest].waiting = IF t \in queues[dest].running THEN @
                                                   ELSE @ \cup {t}]
    BY <1>b DEF UpdateTaskQueue
  <2>4. /\ left.waiting = (IF tasks[t].state = "Running" THEN own.waiting ELSE own.waiting \ {t})
        /\ left.running = (IF tasks[t].state = "Waiting" THEN own.running ELSE own.running \ {t})
    <3> own \in QueueMeta
      BY <2>2 DEF TablesType
    <3> HIDE DEF own
    <3> QED BY DEF Purge, QueueMeta
  <2> HIDE DEF left
  <2>5. \A r \in QueueNames :
          /\ r # tasks[t].queue => queues'[r].running = queues[r].running
          /\ r = tasks[t].queue => queues'[r].running = left.running
          /\ r # tasks[t].queue /\ r # dest => queues'[r].waiting = queues[r].waiting
          /\ r = tasks[t].queue => queues'[r].waiting = left.waiting
          /\ r = dest => queues'[r].waiting \subseteq queues[r].waiting \cup {t}
    BY <1>b, <2>2, <2>3 DEF TablesType, QueueMeta
  <2>6. TouchesOnly(t)
    BY <2>1, <2>2, <2>4, <2>5 DEF TouchesOnly, Listed
  <2>7. QueueKnown'
    BY <2>1 DEF ListsSound, QueueKnown, Present
  <2>8. RunningListsSound'
    BY <1>b, <2>1, <2>2, <2>4, <2>5 DEF ListsSound, RunningListsSound, TablesType, QueueMeta
  <2>9. WaitingListedOnce'
    BY <1>b, <2>1, <2>2, <2>4, <2>5 DEF ListsSound, WaitingListedOnce, TablesType, QueueMeta
  <2> QED BY <1>b, <2>1, <2>6, <2>7, <2>8, <2>9 DEF ListsSound
<1> QED BY <1>a, <1>b

\* A removal keeps the lists sound; ids of a task that was moved while it ran
\* may stay listed, but they name no task any more.
LEMMA RemoveTaskLists ==
    ASSUME TablesType, ListsSound, NEW t \in TaskIds, RemoveTask(t)
    PROVE  /\ ListsSound'
           /\ TouchesOnly(t)
           /\ ~Present(t) => UNCHANGED tables
           /\ Present(t) => tasks'[t].state = "Absent" /\ tasks'[t].pid = Nil
<1>a. CASE ~Present(t)
  BY <1>a DEF RemoveTask, tables, ListsSound, QueueKnown, RunningListsSound,
              WaitingListedOnce, Present, TouchesOnly, Listed
<1>b. CASE Present(t)
  <2> DEFINE own == queues[tasks[t].queue]
             left == Purge(own, t, tasks[t].state)
  <2>1. /\ tasks'[t].state = "Absent" /\ tasks'[t].pid = Nil
        /\ \A u \in TaskIds : u # t => tasks'[u] = tasks[u]
    BY <1>b DEF RemoveTask, TablesType, NoTask
  <2>2. tasks[t].queue \in QueueNames /\ tasks[t].state \in TaskStates
    BY <1>b DEF ListsSound, QueueKnown, Present, TablesType, TaskMeta
  <2>3. /\ left.waiting \subseteq own.waiting
        /\ left.running = (IF tasks[t].state = "Waiting" THEN own.running ELSE own.running \ {t})
    <3> own \in QueueMeta
      BY <2>2 DEF TablesType
    <3> HIDE DEF own
    <3> QED BY DEF Purge, QueueMeta
  <2>4. queues' = [queues EXCEPT ![tasks[t].queue] = left]
    BY <1>b DEF RemoveTask
  <2> HIDE DEF left
  <2>5. \A r \in QueueNames : queues'[r] = IF r = tasks[t].queue THEN left ELSE queues[r]
    BY <2>4 DEF TablesType
  <2>6. TouchesOnly(t)
    BY <2>1, <2>2, <2>3, <2>5 DEF TouchesOnly, Listed
  <2>7. QueueKnown'
    BY <2>1 DEF ListsSound, QueueKnown, Present
  <2>8. RunningListsSound' /\ WaitingListedOnce'
    BY <1>b, <2>1, <2>2, <2>3, <2>5
    DEF ListsSound, RunningListsSound, WaitingListedOnce, TablesType, QueueMeta
  <2> QED BY <1>b, <2>1, <2>6, <2>7, <2>8 DEF ListsSound
<1> QED BY <1>a, <1>b

\* Overwriting a queue takes ids off its lists and puts none on.
LEMMA AddQueueLists ==
    ASSUME TablesType, ListsSound, NEW q \in QueueNames, AddQueue(q)
    PROVE  /\ ListsSound' /\ UNCHANGED tasks
           /\ \A u \in TaskIds : Listed(u)' => Listed(u)
<1>1. \A r \in QueueNames : queues'[r] = IF r = q THEN EmptyQueue ELSE queues[r]
  BY DEF AddQueue, TablesType
<1>2. UNCHANGED tasks
  BY DEF AddQueue
<1> QED BY <1>1, <1>2 DEF ListsSound, QueueKnown, RunningListsSound, WaitingListedOnce,
                         Present, EmptyQueue, Listed

\* Storing a pid changes no list, no state and no queue.
LEMMA SetTaskPidLists ==
    ASSUME TablesType, ListsSound, NEW t \in TaskIds, NEW pid \in Pids, SetTaskPid(t, pid)
    PROVE  /\ ListsSound'
           /\ TouchesOnly(t)
           /\ tasks'[t].state = tasks[t].state
           /\ tasks'[t].pid = IF Present(t) THEN pid ELSE tasks[t].pid
<1>1. /\ \A u \in TaskIds : u # t => tasks'[u] = tasks[u]
      /\ tasks'[t].state = tasks[t].state /\ tasks'[t].queue = tasks[t].queue
      /\ tasks'[t].pid = IF Present(t) THEN pid ELSE tasks[t].pid
  BY DEF SetTaskPid, TablesType, TaskMeta
<1>2. queues' = queues
  BY DEF SetTaskPid
<1>3. TouchesOnly(t)
  BY <1>1, <1>2 DEF TouchesOnly, Listed
<1>4. ListsSound'
  BY <1>1, <1>2 DEF ListsSound, QueueKnown, RunningListsSound, WaitingListedOnce, Present,
                   TablesType, QueueMeta
<1> QED BY <1>1, <1>3, <1>4

-----------------------------------------------------------------------------
(* The steps that leave the tables alone.                                   *)

\* The parts of Inv that read the tables only.
LEMMA TablesUnchanged ==
    ASSUME Inv, UNCHANGED tables
    PROVE  QueueKnown' /\ RunningListsSound' /\ WaitingListedOnce' /\ TablesType'
BY DEF Inv, tables, QueueKnown, RunningListsSound, WaitingListedOnce, Present, TypeOK, TablesType

\* A handler whose request is done forgets it.
LEMMA IdleAgain ==
    ASSUME Inv, NEW c \in Clients, handlers' = [handlers EXCEPT ![c] = Idle]
    PROVE  handlers' \in [Clients -> Handler] /\ HandlersSound'
<1>1. Idle \in Handler /\ Idle.op \notin Moving \cup {"create"}
  BY BlankTypes DEF Idle, Moving
<1> QED BY <1>1 DEF Inv, TypeOK, HandlersSound

\* A step of a handler that changes neither the tables nor a process's task.
LEMMA HandlerOnly ==
    ASSUME Inv, handlers' \in [Clients -> Handler], HandlersSound',
           UNCHANGED <<issued, schedulerVars, procs, tables>>
    PROVE  Inv'
BY TablesUnchanged
DEF Inv, schedulerVars, tables, TypeOK, UnissuedUnknown, WaitingNotStarted, PassSound,
    LaunchSound, ProcessSound, LaunchedOnce, RunningIsWatched, PidsSound, Present,
    NeverLaunched

LEMMA RememberStep ==
    ASSUME Inv, NEW c \in Clients, NEW h \in Handler, Remember(c, h),
           h.op \in Moving \cup {"create"} => h.dest # Nil
    PROVE  Inv'
<1>1. handlers' \in [Clients -> Handler]
  BY DEF Remember, Inv, TypeOK
<1>2. HandlersSound'
  BY DEF Remember, Inv, TypeOK, HandlersSound
<1> QED BY <1>1, <1>2, HandlerOnly DEF Remember

LEMMA CheckStep ==
    ASSUME Inv, NEW c \in Clients, Check(c)
    PROVE  Inv'
<1> USE RememberStep, QueueAssumption, NilAssumption DEF Handler, HandlerOps, Moving
<1>1. ASSUME NEW t \in TaskIds, RunCheck(c, t) PROVE Inv'
  BY <1>1 DEF RunCheck
<1>2. ASSUME NEW t \in TaskIds, RemoveCheck(c, t) PROVE Inv'
  BY <1>2 DEF RemoveCheck
<1>3. ASSUME NEW t \in TaskIds, KillCheck(c, t) PROVE Inv'
  <2>1. tasks[t].pid \in Pids
    BY <1>3 DEF KillCheck, Inv, TypeOK, TaskMeta
  <2> QED BY <1>3, <2>1 DEF KillCheck
<1>4. ASSUME NEW t \in TaskIds, NEW dest \in QueueNames, MoveCheck(c, t, dest) PROVE Inv'
  BY <1>4 DEF MoveCheck
<1>5. ASSUME NEW source \in QueueNames, NEW dest \in QueueNames, MergeCheck(c, source, dest)
      PROVE  Inv'
  BY <1>5 DEF MergeCheck
<1>6. ASSUME NEW q \in QueueNames, CreateCheck(c, q) PROVE Inv'
  BY <1>6 DEF CreateCheck
<1>7. ASSUME NEW gpu \in Gpus, ReleaseCheck(c, gpu) PROVE Inv'
  BY <1>7 DEF ReleaseCheck
<1> QED BY <1>1, <1>2, <1>3, <1>4, <1>5, <1>6, <1>7 DEF Check

\* The kills of a release are decided one by one, on the task as it is then.
LEMMA ReleaseKillStep ==
    ASSUME Inv, NEW c \in Clients, NEW t \in TaskIds, ReleaseKill(c, t)
    PROVE  Inv'
<1> DEFINE rest == handlers[c].todo \ {t}
           pid == IF tasks[t].state = "Running" THEN tasks[t].pid ELSE Nil
           h == [op |-> "release", todo |-> rest, dest |-> Nil, pid |-> pid]
<1>1. rest \in SUBSET TaskIds /\ pid \in Pids \cup {Nil}
  BY DEF Inv, TypeOK, Handler, TaskMeta
<1> HIDE DEF rest, pid
<1>2. h \in Handler /\ Idle \in Handler
  BY <1>1, BlankTypes DEF Handler, HandlerOps
<1>3. Remember(c, Idle) \/ Remember(c, h)
  BY DEF ReleaseKill, rest, pid
<1>4. h.op \notin Moving \cup {"create"} /\ Idle.op \notin Moving \cup {"create"}
  BY DEF Idle, Moving
<1> HIDE DEF h
<1> QED BY <1>2, <1>3, <1>4, RememberStep

\* The signal marks a process; nothing Inv speaks of changes.
LEMMA KillSignalStep ==
    ASSUME Inv, NEW c \in Clients, KillSignal(c)
    PROVE  Inv'
<1> DEFINE h == handlers[c]
           p == h.pid
           mark == procs[p].signalled \/ procs[p].status = "Alive"
           next == [h EXCEPT !.pid = Nil]
<1>1. mark \in BOOLEAN
  OBVIOUS
<1>2. /\ procs' = [procs EXCEPT ![p].signalled = mark]
      /\ handlers' = [handlers EXCEPT ![c] = IF h.todo = {} THEN Idle ELSE next]
  BY DEF KillSignal
<1>a. next \in Handler /\ next.op = h.op /\ next.dest = h.dest
  <2>1. h \in Handler
    BY DEF Inv, TypeOK
  <2> HIDE DEF h
  <2> QED BY <2>1 DEF Handler
<1> HIDE DEF p, mark, next
<1>3. /\ procs' \in [Pids -> Process]
      /\ \A r \in Pids : /\ procs'[r].task = procs[r].task
                         /\ procs'[r].status = procs[r].status
                         /\ procs'[r].monitor = procs[r].monitor
  BY <1>1, <1>2 DEF Inv, TypeOK, Process
<1>4. handlers' \in [Clients -> Handler] /\ HandlersSound'
  <2>1. CASE h.todo = {}
    BY <1>2, <2>1, IdleAgain
  <2>2. CASE h.todo # {}
    BY <1>2, <1>a, <2>2 DEF Inv, TypeOK, HandlersSound
  <2> QED BY <2>1, <2>2
<1>5. UNCHANGED <<issued, schedulerVars, tables>>
  BY DEF KillSignal
<1>6. TypeOK'
  BY <1>3, <1>4, <1>5 DEF Inv, TypeOK, schedulerVars, tables
<1>7. \A t : NeverLaunched(t) => NeverLaunched(t)'
  BY <1>3 DEF NeverLaunched
<1>8. UnissuedUnknown' /\ WaitingNotStarted' /\ PassSound'
  BY <1>5, <1>7 DEF Inv, UnissuedUnknown, WaitingNotStarted, PassSound, Present,
                    schedulerVars, tables
<1>9. LaunchSound' /\ ProcessSound' /\ LaunchedOnce'
  BY <1>3, <1>5, <1>7 DEF Inv, LaunchSound, ProcessSound, LaunchedOnce, schedulerVars
<1>10. RunningIsWatched'
  BY <1>3, <1>5 DEF Inv, RunningIsWatched, schedulerVars, tables
<1>11. PidsSound'
  BY <1>3, <1>5 DEF Inv, PidsSound, TypeOK, TaskMeta, schedulerVars, tables
<1> QED
  BY <1>4, <1>5, <1>6, <1>8, <1>9, <1>10, <1>11, TablesUnchanged DEF Inv

-----------------------------------------------------------------------------
(* The steps of the handlers that change the tables.                        *)

LEMMA InvLists == ASSUME Inv PROVE TablesType /\ ListsSound
BY DEF Inv, TypeOK, TablesType, ListsSound

\* An id that was never handed out is listed nowhere.
LEMMA UnissuedUnlisted ==
    ASSUME Inv, NEW t \in TaskIds, t \notin issued
    PROVE  ~Listed(t) /\ ~Present(t)
BY DEF Inv, UnissuedUnknown, Listed

\* Moving or removing one task keeps Inv, whatever the scheduler is doing with it.
LEMMA HandlerTouch ==
    ASSUME Inv, NEW t \in TaskIds,
           TablesType', ListsSound', TouchesOnly(t), ~Present(t) => UNCHANGED tables,
           \/ tasks'[t].state = tasks[t].state /\ tasks'[t].pid = tasks[t].pid
           \/ tasks'[t].state = "Absent" /\ tasks'[t].pid = Nil,
           handlers' \in [Clients -> Handler], HandlersSound',
           UNCHANGED <<issued, schedulerVars, procs>>
    PROVE  Inv'
<1>1. TypeOK'
  BY DEF Inv, TypeOK, TablesType, schedulerVars
<1>2. \A u : NeverLaunched(u)' <=> NeverLaunched(u)
  BY DEF NeverLaunched
<1>3. UnissuedUnknown'
  <2> SUFFICES ASSUME NEW u \in TaskIds, u \notin issued
               PROVE  ~Present(u)' /\ ~Listed(u)'
    BY <1>2 DEF Inv, UnissuedUnknown, Listed, schedulerVars
  <2>1. ~Present(u) /\ ~Listed(u)
    BY UnissuedUnlisted
  <2>2. CASE u # t
    BY <2>1, <2>2 DEF TouchesOnly, Present
  <2>3. CASE u = t
    BY <2>1, <2>3 DEF tables, Present, Listed
  <2> QED BY <2>2, <2>3
<1>4. \A u \in TaskIds : tasks'[u].state \in {tasks[u].state, "Absent"}
  BY DEF TouchesOnly
<1>5. WaitingNotStarted' /\ PassSound'
  BY <1>2, <1>4 DEF Inv, WaitingNotStarted, PassSound, TypeOK, schedulerVars
<1>6. LaunchSound' /\ ProcessSound' /\ LaunchedOnce'
  BY <1>2 DEF Inv, LaunchSound, ProcessSound, LaunchedOnce, schedulerVars
<1>7. RunningIsWatched'
  BY <1>4 DEF Inv, RunningIsWatched, schedulerVars
<1>8. PidsSound'
  BY DEF Inv, PidsSound, TouchesOnly, schedulerVars
<1> QED BY <1>1, <1>3, <1>5, <1>6, <1>7, <1>8 DEF Inv, ListsSound

LEMMA MoveNextStep ==
    ASSUME Inv, NEW c \in Clients, NEW t \in TaskIds, MoveNext(c, t)
    PROVE  Inv'
<1> DEFINE h == handlers[c]
           rest == h.todo \ {t}
           next == [h EXCEPT !.todo = rest]
<1>1. h \in Handler /\ h.dest \in QueueNames
  BY DEF MoveNext, Inv, TypeOK, Handler, HandlersSound
<1>2. next \in Handler /\ next.dest # Nil
  <2> HIDE DEF h
  <2> QED BY <1>1, NilAssumption DEF Handler
<1>3. handlers' = [handlers EXCEPT ![c] = IF rest = {} THEN Idle ELSE next]
  BY DEF MoveNext
<1>4. UpdateTaskQueue(t, h.dest) /\ UNCHANGED <<issued, schedulerVars, procs>>
  BY DEF MoveNext
<1> HIDE DEF h, rest, next
<1>5. handlers' \in [Clients -> Handler] /\ HandlersSound'
  <2>1. CASE rest = {}
    BY <1>3, <2>1, IdleAgain
  <2>2. CASE rest # {}
    BY <1>2, <1>3, <2>2 DEF Inv, TypeOK, HandlersSound
  <2> QED BY <2>1, <2>2
<1> QED BY <1>1, <1>4, <1>5, InvLists, UpdateTaskQueueType, UpdateTaskQueueLists, HandlerTouch

LEMMA RemoveApplyStep ==
    ASSUME Inv, NEW c \in Clients, RemoveApply(c)
    PROVE  Inv'
<1>1. PICK t \in handlers[c].todo : RemoveTask(t)
  BY DEF RemoveApply
<1>2. t \in TaskIds
  BY DEF Inv, TypeOK, Handler
<1>3. handlers' \in [Clients -> Handler] /\ HandlersSound'
  BY IdleAgain DEF RemoveApply
<1>4. /\ TablesType' /\ ListsSound' /\ TouchesOnly(t) /\ (~Present(t) => UNCHANGED tables)
      /\ Present(t) => tasks'[t].state = "Absent" /\ tasks'[t].pid = Nil
  BY <1>1, <1>2, InvLists, RemoveTaskType, RemoveTaskLists
<1>5. ~Present(t) => tasks'[t].state = tasks[t].state /\ tasks'[t].pid = tasks[t].pid
  BY <1>4 DEF tables
<1> QED BY <1>2, <1>3, <1>4, <1>5, HandlerTouch DEF RemoveApply

LEMMA CreateApplyStep ==
    ASSUME Inv, NEW c \in Clients, CreateApply(c)
    PROVE  Inv'
<1> handlers[c].dest \in QueueNames
  BY DEF CreateApply, Inv, TypeOK, Handler, HandlersSound
<1>1. handlers' \in [Clients -> Handler] /\ HandlersSound'
  BY IdleAgain DEF CreateApply
<1>2. /\ TablesType' /\ ListsSound' /\ UNCHANGED tasks
      /\ \A u \in TaskIds : Listed(u)' => Listed(u)
  BY InvLists, AddQueueType, AddQueueLists DEF CreateApply
<1>3. UNCHANGED <<issued, schedulerVars, procs>>
  BY DEF CreateApply
<1>4. TypeOK'
  BY <1>1, <1>2, <1>3 DEF Inv, TypeOK, TablesType, schedulerVars
<1>5. UnissuedUnknown'
  <2> SUFFICES ASSUME NEW u \in TaskIds, u \notin issued
               PROVE  ~Present(u)' /\ ~Listed(u)'
    BY <1>3 DEF Inv, UnissuedUnknown, Listed, schedulerVars, NeverLaunched
  <2> QED BY <1>2, UnissuedUnlisted DEF Present
<1> QED
  BY <1>1, <1>2, <1>3, <1>4, <1>5
  DEF Inv, ListsSound, WaitingNotStarted, PassSound, LaunchSound, ProcessSound, LaunchedOnce,
      RunningIsWatched, PidsSound, NeverLaunched, schedulerVars

\* A submitted id is new, so nothing the pass or the processes remember meets it.
LEMMA SubmitStep ==
    ASSUME Inv, NEW t \in TaskIds, NEW q \in QueueNames, NEW need \in GpuRequires,
           Submit(t, q, need)
    PROVE  Inv'
<1>1. t \notin issued /\ issued' = issued \cup {t} /\ AddTask(t, q, need)
      /\ UNCHANGED <<handlers, schedulerVars, procs>>
  BY DEF Submit
<1>2. /\ TablesType' /\ ListsSound' /\ TouchesOnly(t)
      /\ tasks'[t].state = "Waiting" /\ tasks'[t].pid = Nil
  BY <1>1, InvLists, UnissuedUnlisted, AddTaskType, AddTaskLists
<1>3. TypeOK'
  BY <1>1, <1>2 DEF Inv, TypeOK, TablesType, schedulerVars
<1>4. \A u : NeverLaunched(u)' <=> NeverLaunched(u)
  BY <1>1 DEF NeverLaunched
<1>5. t # curTask /\ NeverLaunched(t) /\ \A r \in QueueNames : t \notin toProcess[r]
  BY <1>1 DEF Inv, UnissuedUnknown
<1>6. UnissuedUnknown'
  <2> SUFFICES ASSUME NEW u \in TaskIds, u \notin issued, u # t
               PROVE  ~Present(u)' /\ ~Listed(u)'
    BY <1>1, <1>4 DEF Inv, UnissuedUnknown, Listed, schedulerVars
  <2> QED BY <1>2, UnissuedUnlisted DEF TouchesOnly, Present
<1>7. WaitingNotStarted' /\ PassSound'
  BY <1>1, <1>2, <1>4, <1>5 DEF Inv, WaitingNotStarted, PassSound, TypeOK, schedulerVars, TouchesOnly
<1>8. LaunchSound' /\ ProcessSound' /\ LaunchedOnce'
  BY <1>1, <1>4 DEF Inv, LaunchSound, ProcessSound, LaunchedOnce, schedulerVars
<1>9. RunningIsWatched'
  BY <1>1, <1>2 DEF Inv, RunningIsWatched, schedulerVars, TouchesOnly
<1>10. PidsSound'
  BY <1>1, <1>2 DEF Inv, PidsSound, TouchesOnly, schedulerVars
<1>11. HandlersSound'
  BY <1>1 DEF Inv, HandlersSound
<1> QED BY <1>2, <1>3, <1>6, <1>7, <1>8, <1>9, <1>10, <1>11 DEF Inv, ListsSound

-----------------------------------------------------------------------------
(* The steps of the scheduler that leave the tables and the processes alone. *)

LEMMA PassOnly ==
    ASSUME Inv, UNCHANGED <<issued, handlers, curTask, procs, tables>>,
           TypeOK', PassSound', LaunchSound',
           \A q \in QueueNames : toProcess'[q] \subseteq issued
    PROVE  Inv'
<1>1. UnissuedUnknown'
  BY DEF Inv, UnissuedUnknown, NeverLaunched, Present, tables
<1> QED
  BY <1>1, TablesUnchanged
  DEF Inv, tables, WaitingNotStarted, ProcessSound, LaunchedOnce, RunningIsWatched, PidsSound,
      HandlersSound, NeverLaunched

\* What a copied or remaining list can hold.
LEMMA PassIssued ==
    ASSUME Inv, NEW q \in QueueNames
    PROVE  toProcess[q] \subseteq issued /\ queues[q].waiting \subseteq issued
BY DEF Inv, UnissuedUnknown, TypeOK, QueueMeta

\* The copied waiting lists may share a task only if it no longer waits.
LEMMA SnapshotQueuesStep ==
    ASSUME Inv, SnapshotQueues, UNCHANGED <<issued, handlers>>
    PROVE  Inv'
<1>1. /\ pc' = "tasks"
      /\ \A q \in QueueNames : toProcess'[q] \subseteq queues[q].waiting
      /\ toProcess' \in [QueueNames -> SUBSET TaskIds]
  BY DEF SnapshotQueues, Inv, TypeOK, QueueMeta
<1>2. TypeOK'
  BY <1>1 DEF SnapshotQueues, Inv, TypeOK, SchedulerPc, tables
<1>3. PassSound'
  BY <1>1 DEF SnapshotQueues, Inv, TypeOK, PassSound, WaitingListedOnce, tables
<1>4. LaunchSound'
  BY <1>1 DEF SnapshotQueues, Inv, LaunchSound
<1>5. \A q \in QueueNames : toProcess'[q] \subseteq issued
  BY <1>1, PassIssued
<1> QED BY <1>2, <1>3, <1>4, <1>5, PassOnly DEF SnapshotQueues

\* After the second copy the lists are disjoint and hold only fresh tasks.
LEMMA SnapshotTasksStep ==
    ASSUME Inv, SnapshotTasks, UNCHANGED <<issued, handlers>>
    PROVE  Inv'
<1>1. /\ pc = "tasks" /\ pc' = "pick"
      /\ \A q \in QueueNames :
            toProcess'[q] = {t \in toProcess[q] : tasks[t].state = "Waiting"}
      /\ toProcess' \in [QueueNames -> SUBSET TaskIds]
  BY DEF SnapshotTasks, Inv, TypeOK
<1>2. TypeOK'
  BY <1>1 DEF SnapshotTasks, Inv, TypeOK, SchedulerPc, tables
<1>3. PassSound'
  BY <1>1 DEF SnapshotTasks, Inv, TypeOK, PassSound, WaitingNotStarted, NeverLaunched, tables
<1>4. LaunchSound'
  BY <1>1 DEF SnapshotTasks, Inv, LaunchSound
<1>5. \A q \in QueueNames : toProcess'[q] \subseteq issued
  BY <1>1, PassIssued
<1> QED BY <1>2, <1>3, <1>4, <1>5, PassOnly DEF SnapshotTasks

LEMMA EnterQueueStep ==
    ASSUME Inv, NEW q \in QueueNames, EnterQueue(q), UNCHANGED <<issued, handlers>>
    PROVE  Inv'
<1>1. freeGpus' \subseteq Gpus
  BY DEF EnterQueue, AllocatedGpus
<1>2. TypeOK'
  BY <1>1 DEF EnterQueue, Inv, TypeOK, tables
<1>3. PassSound' /\ LaunchSound'
  BY DEF EnterQueue, Inv, PassSound, LaunchSound, NeverLaunched, tables
<1> QED BY <1>2, <1>3, PassOnly, PassIssued DEF EnterQueue

\* One task less to handle.
LEMMA NextTaskPass ==
    ASSUME Inv, NEW t \in TaskIds, NextTask(t)
    PROVE  /\ pc = "pick" /\ curQueue \in QueueNames /\ t \in toProcess[curQueue]
           /\ toProcess' \in [QueueNames -> SUBSET TaskIds]
           /\ \A q \in QueueNames : toProcess'[q] \subseteq toProcess[q] \ {t}
           /\ t \in issued /\ NeverLaunched(t) /\ tasks[t].state \in {"Waiting", "Absent"}
           /\ curTask = Nil
<1>1. /\ pc = "pick" /\ curQueue \in QueueNames /\ t \in toProcess[curQueue]
      /\ toProcess' = [toProcess EXCEPT ![curQueue] = @ \ {t}]
  BY DEF NextTask, Inv, TypeOK
<1>2. \A q \in QueueNames : q # curQueue => t \notin toProcess[q]
  BY <1>1 DEF Inv, PassSound
<1> QED BY <1>1, <1>2, PassIssued DEF Inv, TypeOK, PassSound, LaunchSound

LEMMA LeaveTaskStep ==
    ASSUME Inv, NEW t \in TaskIds, PassOver(t) \/ SkipRemoved(t), UNCHANGED <<issued, handlers>>
    PROVE  Inv'
<1>1. NextTask(t) /\ UNCHANGED <<pc, curQueue, freeGpus, curTask, child, probing, toUpdate,
                                 procs, tables>>
  BY DEF PassOver, SkipRemoved
<1>2. TypeOK'
  BY <1>1, NextTaskPass DEF Inv, TypeOK, tables
<1>3. PassSound'
  BY <1>1, NextTaskPass DEF Inv, PassSound, NeverLaunched, tables
<1>4. LaunchSound'
  BY <1>1 DEF Inv, LaunchSound, NeverLaunched
<1>5. \A q \in QueueNames : toProcess'[q] \subseteq issued
  BY <1>1, NextTaskPass, PassIssued
<1> QED BY <1>1, <1>2, <1>3, <1>4, <1>5, PassOnly

LEMMA LaunchPathStep ==
    ASSUME Inv, FetchTask \/ LaunchFails, UNCHANGED <<issued, handlers>>
    PROVE  Inv'
<1>1. /\ pc \in {"fetch", "launch"} /\ pc' \in {"launch", "fail"}
      /\ UNCHANGED <<toProcess, curQueue, freeGpus, curTask, child, probing, toUpdate,
                     procs, tables>>
  BY DEF FetchTask, LaunchFails
<1>2. TypeOK'
  BY <1>1 DEF Inv, TypeOK, SchedulerPc, tables
<1>3. PassSound'
  BY <1>1 DEF Inv, PassSound, NeverLaunched, tables
<1>4. LaunchSound'
  BY <1>1 DEF Inv, LaunchSound, NeverLaunched
<1> QED BY <1>1, <1>2, <1>3, <1>4, PassOnly, PassIssued

LEMMA SnapshotRunningStep ==
    ASSUME Inv, SnapshotRunning, UNCHANGED <<issued, handlers>>
    PROVE  Inv'
<1>1. probing' \subseteq TaskIds \X Pids
  <2>1. \A t \in TaskIds : tasks[t].pid # Nil => tasks[t].pid \in Pids
    BY DEF Inv, TypeOK, TaskMeta
  <2> QED BY <2>1 DEF SnapshotRunning
<1>2. toUpdate' \subseteq TaskIds
  BY DEF SnapshotRunning
<1>3. TypeOK'
  BY <1>1, <1>2 DEF SnapshotRunning, Inv, TypeOK, SchedulerPc, tables
<1>4. PassSound'
  BY DEF SnapshotRunning, Inv, PassSound, NeverLaunched, tables
<1>5. LaunchSound'
  BY DEF SnapshotRunning, Inv, LaunchSound, NeverLaunched
<1> QED BY <1>3, <1>4, <1>5, PassOnly, PassIssued DEF SnapshotRunning

LEMMA ProbeStep ==
    ASSUME Inv, NEW t \in TaskIds, NEW p \in Pids, Probe(t, p), UNCHANGED <<issued, handlers>>
    PROVE  Inv'
<1>1. TypeOK'
  BY DEF Probe, Inv, TypeOK, tables
<1>2. PassSound' /\ LaunchSound'
  BY DEF Probe, Inv, PassSound, LaunchSound, NeverLaunched, tables
<1> QED BY <1>1, <1>2, PassOnly, PassIssued DEF Probe

-----------------------------------------------------------------------------
(* The steps of the scheduler and the monitors that change a task.          *)

\* What is left to show when one task changes and the ids stay the same.
LEMMA UnissuedAfter ==
    ASSUME Inv, NEW t \in TaskIds, TouchesOnly(t), ~Present(t) => UNCHANGED tables,
           UNCHANGED issued,
           \A q \in QueueNames : toProcess'[q] \subseteq issued,
           curTask' \in issued \cup {Nil},
           \A p \in Pids : procs'[p].task \in issued \cup {Nil}
    PROVE  UnissuedUnknown'
<1> SUFFICES ASSUME NEW u \in TaskIds, u \notin issued
             PROVE  ~Present(u)' /\ ~Listed(u)'
  BY NilAssumption DEF UnissuedUnknown, Listed, NeverLaunched
<1>1. ~Present(u) /\ ~Listed(u)
  BY UnissuedUnlisted
<1>2. CASE u # t
  BY <1>1, <1>2 DEF TouchesOnly, Present
<1>3. CASE u = t
  BY <1>1, <1>3 DEF tables, Present, Listed
<1> QED BY <1>2, <1>3

LEMMA KnownIssued ==
    ASSUME Inv
    PROVE  curTask \in issued \cup {Nil} /\ \A p \in Pids : procs[p].task \in issued \cup {Nil}
BY DEF Inv, UnissuedUnknown, TypeOK, Process, NeverLaunched

\* A task is started once: the pass forgets it and it has no process yet.
LEMMA StartTaskStep ==
    ASSUME Inv, NEW t \in TaskIds, NEW gpus \in SUBSET freeGpus, StartTask(t, gpus),
           UNCHANGED <<issued, handlers>>
    PROVE  Inv'
<1>1. /\ NextTask(t) /\ Present(t) /\ UpdateTaskState(t, "Running", gpus)
      /\ freeGpus' \subseteq freeGpus /\ curTask' = t /\ pc' = "fetch"
      /\ UNCHANGED <<curQueue, child, probing, toUpdate, procs>>
  BY DEF StartTask
<1>2. gpus \in (SUBSET Gpus) \cup {Nil}
  BY DEF Inv, TypeOK
<1>3. /\ TablesType' /\ ListsSound' /\ TouchesOnly(t)
      /\ tasks'[t].state = "Running" /\ tasks'[t].pid = tasks[t].pid
  BY <1>1, <1>2, InvLists, UpdateTaskStateType, UpdateTaskStateLists DEF TaskStates
<1>4. /\ toProcess' \in [QueueNames -> SUBSET TaskIds]
      /\ \A q \in QueueNames : toProcess'[q] \subseteq toProcess[q] \ {t}
      /\ t \in issued /\ NeverLaunched(t) /\ curTask = Nil /\ pc = "pick"
  BY <1>1, NextTaskPass
<1>5. TypeOK'
  BY <1>1, <1>3, <1>4 DEF Inv, TypeOK, TablesType, SchedulerPc
<1>6. UnissuedUnknown'
  BY <1>1, <1>3, <1>4, UnissuedAfter, PassIssued, KnownIssued
<1>7. \A u : NeverLaunched(u)' <=> NeverLaunched(u)
  BY <1>1 DEF NeverLaunched
<1>8. WaitingNotStarted'
  BY <1>1, <1>3, <1>7 DEF Inv, WaitingNotStarted, TouchesOnly
<1>9. PassSound'
  BY <1>1, <1>3, <1>4, <1>7 DEF Inv, PassSound, TypeOK, TouchesOnly
<1>10. LaunchSound'
  BY <1>1, <1>4, <1>7, NilAssumption DEF LaunchSound
<1>11. RunningIsWatched'
  BY <1>1, <1>3, <1>4, NilAssumption DEF Inv, RunningIsWatched, TouchesOnly
<1>12. PidsSound'
  BY <1>1, <1>3, <1>4, NilAssumption DEF Inv, PidsSound, TouchesOnly
<1>13. ProcessSound' /\ LaunchedOnce' /\ HandlersSound'
  BY <1>1 DEF Inv, ProcessSound, LaunchedOnce, HandlersSound
<1> QED BY <1>3, <1>5, <1>6, <1>8, <1>9, <1>10, <1>11, <1>12, <1>13 DEF Inv, ListsSound

\* The new process is the first of its task.
LEMMA SpawnStep ==
    ASSUME Inv, NEW p \in Pids, Spawn(p), UNCHANGED <<issued, handlers>>
    PROVE  Inv'
<1>1. /\ pc = "launch" /\ procs[p].status = "Unused" /\ pc' = "setpid" /\ child' = p
      /\ UNCHANGED <<toProcess, curQueue, freeGpus, curTask, probing, toUpdate, tables>>
  BY DEF Spawn
<1>2. /\ procs' \in [Pids -> Process]
      /\ procs'[p].task = curTask /\ procs'[p].status = "Alive"
      /\ procs'[p].monitor = procs[p].monitor
      /\ \A r \in Pids : r # p => procs'[r] = procs[r]
  BY DEF Spawn, Inv, TypeOK, Process
<1>3. curTask \in TaskIds /\ NeverLaunched(curTask) /\ procs[p].task = Nil
  BY <1>1 DEF Inv, LaunchSound, ProcessSound, TypeOK
<1>4. TypeOK'
  BY <1>1, <1>2 DEF Inv, TypeOK, SchedulerPc, tables
<1>5. \A u \in TaskIds : u # curTask /\ NeverLaunched(u) => NeverLaunched(u)'
  BY <1>2 DEF NeverLaunched
<1>6. UnissuedUnknown'
  BY <1>1, <1>5 DEF Inv, UnissuedUnknown, Present, tables
<1>7. WaitingNotStarted'
  BY <1>1, <1>5 DEF Inv, WaitingNotStarted, tables
<1>8. PassSound'
  BY <1>1, <1>5 DEF Inv, PassSound, TypeOK, tables
<1>9. LaunchSound'
  BY <1>1, <1>2, <1>3, NilAssumption DEF LaunchSound
<1>10. ProcessSound' /\ LaunchedOnce'
  BY <1>2, <1>3, NilAssumption DEF Inv, ProcessSound, LaunchedOnce, NeverLaunched
<1>11. RunningIsWatched'
  BY <1>1, <1>2, <1>3, NilAssumption DEF Inv, RunningIsWatched, tables
<1>12. PidsSound'
  BY <1>1, <1>2, <1>3, NilAssumption DEF Inv, PidsSound, TypeOK, TaskMeta, tables
<1>13. HandlersSound'
  BY DEF Inv, HandlersSound
<1> QED BY <1>1, <1>4, <1>6, <1>7, <1>8, <1>9, <1>10, <1>11, <1>12, <1>13, TablesUnchanged DEF Inv

\* From here the monitor watches the task, and the task knows its process.
LEMMA SetPidStep ==
    ASSUME Inv, SetPid, UNCHANGED <<issued, handlers>>
    PROVE  Inv'
<1>1. /\ pc = "setpid" /\ SetTaskPid(curTask, child) /\ pc' = "pick"
      /\ child' = Nil /\ curTask' = Nil
      /\ UNCHANGED <<toProcess, curQueue, freeGpus, probing, toUpdate>>
  BY DEF SetPid
<1>2. curTask \in TaskIds /\ child \in Pids /\ procs[child].task = curTask
  BY <1>1 DEF Inv, LaunchSound, TypeOK
<1>3. /\ procs' \in [Pids -> Process]
      /\ procs'[child].monitor = "Waiting"
      /\ \A r \in Pids : procs'[r].task = procs[r].task /\ procs'[r].status = procs[r].status
      /\ \A r \in Pids : r # child => procs'[r].monitor = procs[r].monitor
  BY <1>2 DEF SetPid, Inv, TypeOK, Process
<1>4. /\ TablesType' /\ ListsSound' /\ TouchesOnly(curTask)
      /\ tasks'[curTask].state = tasks[curTask].state
      /\ tasks'[curTask].pid = IF Present(curTask) THEN child ELSE tasks[curTask].pid
      /\ ~Present(curTask) => UNCHANGED tables
  BY <1>1, <1>2, InvLists, SetTaskPidType, SetTaskPidLists DEF SetTaskPid, tables
<1>5. TypeOK'
  BY <1>1, <1>3, <1>4 DEF Inv, TypeOK, TablesType, SchedulerPc
<1>6. UnissuedUnknown'
  BY <1>1, <1>2, <1>3, <1>4, UnissuedAfter, PassIssued, KnownIssued
<1>7. \A u : NeverLaunched(u)' <=> NeverLaunched(u)
  BY <1>3 DEF NeverLaunched
<1>8. \A u \in TaskIds : tasks'[u].state = tasks[u].state
  BY <1>4 DEF TouchesOnly
<1>9. WaitingNotStarted'
  BY <1>1, <1>7, <1>8, NilAssumption DEF Inv, WaitingNotStarted
<1>10. PassSound'
  BY <1>1, <1>7, <1>8, NilAssumption DEF Inv, PassSound, TypeOK
<1>11. LaunchSound'
  BY <1>1 DEF LaunchSound
<1>12. ProcessSound' /\ LaunchedOnce'
  BY <1>2, <1>3, NilAssumption DEF Inv, ProcessSound, LaunchedOnce
<1>13. RunningIsWatched'
  BY <1>2, <1>3, <1>8 DEF Inv, RunningIsWatched
<1>14. PidsSound'
  BY <1>1, <1>2, <1>3, <1>4, NilAssumption DEF Inv, PidsSound, TypeOK, TaskMeta, TouchesOnly, Present
<1>15. HandlersSound'
  BY DEF Inv, HandlersSound
<1> QED BY <1>4, <1>5, <1>6, <1>9, <1>10, <1>11, <1>12, <1>13, <1>14, <1>15 DEF Inv, ListsSound

\* What every step that ends a task has in common.
LEMMA EndsTask ==
    ASSUME Inv, NEW t \in TaskIds, NEW state \in Terminal, UpdateTaskState(t, state, Nil)
    PROVE  /\ TablesType' /\ ListsSound' /\ TouchesOnly(t)
           /\ ~Present(t) => UNCHANGED tables
           /\ tasks'[t].state \in Terminal \cup {"Absent"}
           /\ tasks'[t].pid = tasks[t].pid
<1>1. /\ state \in TaskStates /\ state \in {"Running", "Finished", "Failed"}
      /\ Nil \in (SUBSET Gpus) \cup {Nil}
  BY DEF Terminal, TaskStates
<1>2. /\ TablesType' /\ ListsSound' /\ TouchesOnly(t)
      /\ ~Present(t) => UNCHANGED tables
      /\ Present(t) => tasks'[t].state = state
      /\ tasks'[t].pid = tasks[t].pid
  BY <1>1, InvLists, UpdateTaskStateType, UpdateTaskStateLists
<1> QED BY <1>2 DEF Present, tables

\* A failed launch ends the task the pass was starting.
LEMMA RecordFailureStep ==
    ASSUME Inv, RecordFailure, UNCHANGED <<issued, handlers>>
    PROVE  Inv'
<1>1. /\ pc = "fail" /\ UpdateTaskState(curTask, "Failed", Nil) /\ pc' = "pick"
      /\ curTask' = Nil
      /\ UNCHANGED <<toProcess, curQueue, freeGpus, child, probing, toUpdate, procs>>
  BY DEF RecordFailure
<1>2. curTask \in TaskIds
  BY <1>1 DEF Inv, LaunchSound, TypeOK
<1>3. /\ TablesType' /\ ListsSound' /\ TouchesOnly(curTask)
      /\ ~Present(curTask) => UNCHANGED tables
      /\ tasks'[curTask].state \in {"Finished", "Failed", "Absent"}
      /\ tasks'[curTask].pid = tasks[curTask].pid
  BY <1>1, <1>2, EndsTask DEF Terminal
<1>4. TypeOK'
  BY <1>1, <1>3 DEF Inv, TypeOK, TablesType, SchedulerPc
<1>5. UnissuedUnknown'
  BY <1>1, <1>2, <1>3, UnissuedAfter, PassIssued, KnownIssued
<1>6. \A u : NeverLaunched(u)' <=> NeverLaunched(u)
  BY <1>1 DEF NeverLaunched
<1>7. WaitingNotStarted'
  BY <1>1, <1>3, <1>6, NilAssumption DEF Inv, WaitingNotStarted, TouchesOnly
<1>8. PassSound'
  BY <1>1, <1>3, <1>6, NilAssumption DEF Inv, PassSound, TypeOK, TouchesOnly
<1>9. LaunchSound'
  BY <1>1 DEF LaunchSound
<1>10. RunningIsWatched'
  BY <1>1, <1>3 DEF Inv, RunningIsWatched, TouchesOnly
<1>11. PidsSound'
  BY <1>1, <1>2, <1>3 DEF Inv, PidsSound, TouchesOnly
<1>12. ProcessSound' /\ LaunchedOnce' /\ HandlersSound'
  BY <1>1 DEF Inv, ProcessSound, LaunchedOnce, HandlersSound
<1> QED BY <1>3, <1>4, <1>5, <1>7, <1>8, <1>9, <1>10, <1>11, <1>12 DEF Inv, ListsSound

\* update_tasks fails a task whose process it did not find.
LEMMA MarkFailedStep ==
    ASSUME Inv, NEW t \in TaskIds, MarkFailed(t), UNCHANGED <<issued, handlers>>
    PROVE  Inv'
<1>1. /\ pc = "update" /\ UpdateTaskState(t, "Failed", Nil) /\ toUpdate' \subseteq toUpdate
      /\ UNCHANGED <<pc, toProcess, curQueue, freeGpus, curTask, child, probing, procs>>
  BY DEF MarkFailed
<1>2. /\ TablesType' /\ ListsSound' /\ TouchesOnly(t)
      /\ ~Present(t) => UNCHANGED tables
      /\ tasks'[t].state \in {"Finished", "Failed", "Absent"}
      /\ tasks'[t].pid = tasks[t].pid
  BY <1>1, EndsTask DEF Terminal
<1>3. TypeOK'
  BY <1>1, <1>2 DEF Inv, TypeOK, TablesType
<1>4. UnissuedUnknown'
  BY <1>1, <1>2, UnissuedAfter, PassIssued, KnownIssued
<1>5. \A u : NeverLaunched(u)' <=> NeverLaunched(u)
  BY <1>1 DEF NeverLaunched
<1>6. WaitingNotStarted'
  BY <1>1, <1>2, <1>5 DEF Inv, WaitingNotStarted, TouchesOnly
<1>7. PassSound'
  BY <1>1 DEF Inv, PassSound
<1>8. LaunchSound'
  BY <1>1 DEF Inv, LaunchSound
<1>9. RunningIsWatched'
  BY <1>1, <1>2 DEF Inv, RunningIsWatched, TouchesOnly
<1>10. PidsSound'
  BY <1>1, <1>2 DEF Inv, PidsSound, TouchesOnly
<1>11. ProcessSound' /\ LaunchedOnce' /\ HandlersSound'
  BY <1>1 DEF Inv, ProcessSound, LaunchedOnce, HandlersSound
<1> QED BY <1>2, <1>3, <1>4, <1>6, <1>7, <1>8, <1>9, <1>10, <1>11 DEF Inv, ListsSound

-----------------------------------------------------------------------------
(* The processes and their monitors.                                        *)

\* A monitor ends its own task only, which the pass no longer holds.
LEMMA MonitorEnds ==
    ASSUME Inv, NEW p \in Pids, Report(p) \/ WaitFails(p), UNCHANGED <<issued, handlers>>
    PROVE  Inv'
<1> DEFINE t == procs[p].task
<1>1. /\ procs[p].monitor \in {"Waiting", "Reporting"}
      /\ \E state \in Terminal : UpdateTaskState(t, state, Nil)
      /\ procs' = [procs EXCEPT ![p].monitor = "Done"]
      /\ UNCHANGED schedulerVars
  BY DEF Report, WaitFails, Terminal
<1>2. t \in TaskIds /\ ~NeverLaunched(t)
  BY <1>1 DEF Inv, ProcessSound, TypeOK, Process, NeverLaunched
<1>3. /\ TablesType' /\ ListsSound' /\ TouchesOnly(t)
      /\ ~Present(t) => UNCHANGED tables
      /\ tasks'[t].state \in {"Finished", "Failed", "Absent"}
      /\ tasks'[t].pid = tasks[t].pid
  BY <1>1, <1>2, EndsTask DEF Terminal
<1>4. /\ procs' \in [Pids -> Process]
      /\ procs'[p].monitor = "Done"
      /\ \A r \in Pids : procs'[r].task = procs[r].task /\ procs'[r].status = procs[r].status
      /\ \A r \in Pids : r # p => procs'[r].monitor = procs[r].monitor
  BY <1>1 DEF Inv, TypeOK, Process
<1>5. TypeOK'
  BY <1>1, <1>3, <1>4 DEF Inv, TypeOK, TablesType, schedulerVars
<1>6. UnissuedUnknown'
  BY <1>1, <1>2, <1>3, <1>4, UnissuedAfter, PassIssued, KnownIssued DEF schedulerVars
<1>7. \A u : NeverLaunched(u)' <=> NeverLaunched(u)
  BY <1>4 DEF NeverLaunched
<1>8. WaitingNotStarted'
  BY <1>1, <1>3, <1>7 DEF Inv, WaitingNotStarted, TouchesOnly, schedulerVars
<1>9. PassSound'
  BY <1>1, <1>2, <1>3, <1>7 DEF Inv, PassSound, TypeOK, TouchesOnly, schedulerVars
<1>10. LaunchSound'
  BY <1>1, <1>4, <1>7 DEF Inv, LaunchSound, schedulerVars
<1>11. ProcessSound' /\ LaunchedOnce'
  BY <1>1, <1>4 DEF Inv, ProcessSound, LaunchedOnce
<1>12. RunningIsWatched'
  BY <1>1, <1>3, <1>4 DEF Inv, RunningIsWatched, TouchesOnly, schedulerVars
<1>13. PidsSound'
  BY <1>1, <1>2, <1>3, <1>4 DEF Inv, PidsSound, TypeOK, TaskMeta, TouchesOnly, schedulerVars
<1>14. HandlersSound'
  BY DEF Inv, HandlersSound
<1> QED BY <1>3, <1>5, <1>6, <1>8, <1>9, <1>10, <1>11, <1>12, <1>13, <1>14 DEF Inv, ListsSound

\* An exit and a reap change what the system knows of a process, not its task.
LEMMA ProcessOnly ==
    ASSUME Inv, NEW p \in Pids, Reap(p) \/ \E ok \in BOOLEAN : Exit(p, ok),
           UNCHANGED <<issued, handlers>>
    PROVE  Inv'
<1>1. /\ procs' \in [Pids -> Process]
      /\ UNCHANGED <<schedulerVars, tables>>
      /\ \A r \in Pids :
            /\ procs'[r].task = procs[r].task
            /\ procs'[r].status = "Unused" => procs[r].status = "Unused"
            /\ procs'[r].monitor # "None" => procs[r].monitor # "None"
            /\ procs[r].monitor \in {"Waiting", "Reporting"} =>
                  procs'[r].monitor \in {"Waiting", "Reporting"}
  <2>1. CASE Reap(p)
    <3> DEFINE next == IF procs[p].monitor = "Waiting" THEN "Reporting" ELSE procs[p].monitor
    <3>1. procs' = [procs EXCEPT ![p].status = "Gone", ![p].monitor = next]
      BY <2>1 DEF Reap, Inv, TypeOK, Process
    <3>2. next \in {"None", "Waiting", "Reporting", "Done"}
          /\ (next # "None" => procs[p].monitor # "None")
          /\ (procs[p].monitor \in {"Waiting", "Reporting"} => next = "Reporting")
      BY DEF Inv, TypeOK, Process
    <3>3. UNCHANGED <<schedulerVars, tables>>
      BY <2>1 DEF Reap
    <3> HIDE DEF next
    <3> QED BY <3>1, <3>2, <3>3 DEF Inv, TypeOK, Process
  <2>2. ASSUME NEW ok \in BOOLEAN, Exit(p, ok)
        PROVE  /\ procs' = [procs EXCEPT ![p].status = "Zombie", ![p].ok = ok]
               /\ UNCHANGED <<schedulerVars, tables>>
    BY <2>2 DEF Exit
  <2>3. CASE \E ok \in BOOLEAN : Exit(p, ok)
    BY <2>2, <2>3 DEF Inv, TypeOK, Process
  <2> QED BY <2>1, <2>3
<1>2. TypeOK'
  BY <1>1 DEF Inv, TypeOK, schedulerVars, tables
<1>3. \A u : NeverLaunched(u)' <=> NeverLaunched(u)
  BY <1>1 DEF NeverLaunched
<1>4. UnissuedUnknown' /\ WaitingNotStarted' /\ PassSound'
  BY <1>1, <1>3 DEF Inv, UnissuedUnknown, WaitingNotStarted, PassSound, Present, tables, schedulerVars
<1>5. LaunchSound' /\ ProcessSound' /\ LaunchedOnce'
  BY <1>1, <1>3 DEF Inv, LaunchSound, ProcessSound, LaunchedOnce, schedulerVars
<1>6. RunningIsWatched'
  BY <1>1 DEF Inv, RunningIsWatched, tables, schedulerVars
<1>7. PidsSound'
  BY <1>1 DEF Inv, PidsSound, TypeOK, TaskMeta, tables, schedulerVars
<1>8. HandlersSound'
  BY DEF Inv, HandlersSound
<1> QED BY <1>1, <1>2, <1>4, <1>5, <1>6, <1>7, <1>8, TablesUnchanged DEF Inv

-----------------------------------------------------------------------------
(* The invariant holds.                                                     *)

LEMMA SchedulerKeeps ==
    ASSUME Inv, SchedulerStep, UNCHANGED <<issued, handlers>>
    PROVE  Inv'
<1>1. ASSUME NEW q \in QueueNames, EnterQueue(q) PROVE Inv'
  BY <1>1, EnterQueueStep
<1>2. ASSUME NEW t \in TaskIds, PassOver(t) \/ SkipRemoved(t) PROVE Inv'
  BY <1>2, LeaveTaskStep
<1>3. ASSUME NEW t \in TaskIds, NEW gpus \in SUBSET freeGpus, StartTask(t, gpus) PROVE Inv'
  BY <1>3, StartTaskStep
<1>4. ASSUME NEW p \in Pids, Spawn(p) PROVE Inv'
  BY <1>4, SpawnStep
<1>5. ASSUME NEW t \in TaskIds, NEW p \in Pids, Probe(t, p) PROVE Inv'
  BY <1>5, ProbeStep
<1>6. ASSUME NEW t \in TaskIds, MarkFailed(t) PROVE Inv'
  BY <1>6, MarkFailedStep
<1> QED
  BY <1>1, <1>2, <1>3, <1>4, <1>5, <1>6, SnapshotQueuesStep, SnapshotTasksStep, LaunchPathStep,
     SetPidStep, RecordFailureStep, SnapshotRunningStep
  DEF SchedulerStep

\* A step that changes nothing keeps Inv.
LEMMA StutterKeeps ==
    ASSUME Inv, UNCHANGED vars
    PROVE  Inv'
BY HandlerOnly DEF vars, Inv, TypeOK, HandlersSound

LEMMA NextKeeps ==
    ASSUME Inv, Next
    PROVE  Inv'
<1>1. ASSUME NEW t \in TaskIds, NEW q \in QueueNames, NEW need \in GpuRequires,
             Submit(t, q, need)
      PROVE  Inv'
  BY <1>1, SubmitStep
<1>2. ASSUME NEW c \in Clients, Check(c) PROVE Inv'
  BY <1>2, CheckStep
<1>3. ASSUME NEW c \in Clients, Apply(c) PROVE Inv'
  BY <1>3, RemoveApplyStep, KillSignalStep, ReleaseKillStep, MoveNextStep, CreateApplyStep
  DEF Apply
<1>4. CASE SchedulerRuns
  BY <1>4, SchedulerKeeps DEF SchedulerRuns
<1>5. ASSUME NEW p \in Pids, MonitorRuns(p) \/ ProcessEnds(p) PROVE Inv'
  BY <1>5, MonitorEnds, ProcessOnly DEF MonitorRuns, MonitorStep, ProcessEnds
<1> QED BY <1>1, <1>2, <1>3, <1>4, <1>5 DEF Next

\* The tables are empty but for the default queues, and nothing is under way.
LEMMA InitHolds ==
    ASSUME Init
    PROVE  Inv
<1> USE DEF Init, InitTables, InitScheduler
<1>1. TypeOK
  BY BlankTypes DEF TypeOK, SchedulerPc
<1>2. \A t \in TaskIds : ~Present(t) /\ tasks[t].state = "Absent" /\ tasks[t].pid = Nil
  BY DEF Present, NoTask
<1>3. \A q \in QueueNames : queues[q].waiting = {} /\ queues[q].running = {}
  BY DEF EmptyQueue, NoQueue
<1>4. \A p \in Pids : procs[p].task = Nil /\ procs[p].monitor = "None"
  BY DEF NoProcess
<1>5. QueueKnown /\ RunningListsSound /\ WaitingListedOnce
  BY <1>2, <1>3 DEF QueueKnown, RunningListsSound, WaitingListedOnce
<1>6. UnissuedUnknown /\ WaitingNotStarted
  BY <1>2, <1>3, <1>4, NilAssumption DEF UnissuedUnknown, WaitingNotStarted, NeverLaunched
<1>7. PassSound /\ LaunchSound /\ ProcessSound /\ LaunchedOnce
  BY <1>4 DEF PassSound, LaunchSound, ProcessSound, LaunchedOnce
<1>8. RunningIsWatched /\ PidsSound
  BY <1>2 DEF RunningIsWatched, PidsSound
<1>9. HandlersSound
  BY DEF HandlersSound, Idle, Moving
<1> QED BY <1>1, <1>5, <1>6, <1>7, <1>8, <1>9 DEF Inv

\* The tables, the pass, the processes and the handlers agree on every task
\* after every step of the scheduler, the monitors and the handlers.
THEOREM Invariance == Spec => []Inv
<1>1. Init => Inv
  BY InitHolds
<1>2. Inv /\ [Next]_vars => Inv'
  BY NextKeeps, StutterKeeps
<1> QED BY <1>1, <1>2, PTL DEF Spec

-----------------------------------------------------------------------------
(* What follows for a user of the daemon.                                   *)

\* Every variable keeps its shape: no step stores a queue name, pid or set of
\* GPUs where the code has none.
THEOREM TypeCorrect == Spec => []TypeOK
<1>1. Inv => TypeOK
  BY DEF Inv
<1> QED BY <1>1, Invariance, PTL

\* A queue's running list holds running tasks of that queue and nothing else,
\* whoever touches them: update_task_state, update_task_queue, remove_task and
\* add_queue never leave a slot taken.
THEOREM RunningListsStaySound == Spec => []RunningListsSound
<1>1. Inv => RunningListsSound
  BY DEF Inv
<1> QED BY <1>1, Invariance, PTL

\* A task that waits is on the waiting list of no queue but its own.
THEOREM WaitingStaysListedOnce == Spec => []WaitingListedOnce
<1>1. Inv => WaitingListedOnce
  BY DEF Inv
<1> QED BY <1>1, Invariance, PTL

\* schedule_tasks launches a task at most once, for any number of queues,
\* tasks, connections and faults, although it works on stale copies.
THEOREM NoSecondLaunch == Spec => []LaunchedOnce
<1>1. Inv => LaunchedOnce
  BY DEF Inv
<1> QED BY <1>1, Invariance, PTL

\* A Running task is being launched or is watched by the monitor of its process.
THEOREM SomeoneEndsIt == Spec => []RunningIsWatched
<1>1. Inv => RunningIsWatched
  BY DEF Inv
<1> QED BY <1>1, Invariance, PTL

\* A pid in the table is that of the task's own process, and update_tasks never
\* meets a Running task without one.
THEOREM PidIsItsOwn == Spec => []PidSet
<1>1. Inv => PidSet
  BY NilAssumption DEF Inv, PidSet, PidsSound, LaunchSound
<1> QED BY <1>1, Invariance, PTL
=============================================================================
