--------------------------- MODULE TaskLifeProofs ---------------------------
(***************************************************************************)
(* Gavel implements TaskLife, for every value of its constants; what       *)
(* follows for a user who watches one task.                                *)
(***************************************************************************)
EXTENDS GavelProofs

-----------------------------------------------------------------------------
(* From the state of the daemon to the life of its tasks.                   *)

LInv == Inv /\ LifeSound /\ FinishedIsTruthful

SameStates == issued' = issued /\ \A u \in TaskIds : tasks'[u].state = tasks[u].state

SameOutcomes ==
    \A r \in Pids : /\ procs'[r].task = procs[r].task
                    /\ procs'[r].status = "Alive" <=> procs[r].status = "Alive"
                    /\ procs'[r].ok = procs[r].ok

PhaseNow == [u \in TaskIds |-> Phase(u)]
OutcomeNow == [u \in TaskIds |-> Outcome(u)]

\* What the mapping shows of a step that changes no state and no result.
LEMMA SamePhases == ASSUME SameStates PROVE PhaseNow' = PhaseNow
BY DEF SameStates, PhaseNow, Phase, Present

LEMMA SameFates == ASSUME SameOutcomes PROVE OutcomeNow' = OutcomeNow
<1>1. \A u \in TaskIds : Outcome(u)' = Outcome(u)
  BY DEF SameOutcomes, Outcome, NeverLaunched
<1> QED BY <1>1 DEF OutcomeNow

LEMMA LifeStutters ==
    ASSUME SameStates, SameOutcomes
    PROVE  UNCHANGED Life!life
<1>1. PhaseNow' = PhaseNow /\ OutcomeNow' = OutcomeNow
  BY SamePhases, SameFates
<1> QED BY <1>1 DEF PhaseNow, OutcomeNow, Life!life

\* One task changes its state: one task of TaskLife changes its phase.
LEMMA OnePhase ==
    ASSUME NEW t \in TaskIds, SameOutcomes, NEW from, NEW to,
           \A u \in TaskIds : u # t => Phase(u)' = Phase(u),
           Phase(t) \in from, Phase(t)' = to
    PROVE  Life!Become(t, from, to)
<1>1. OutcomeNow' = OutcomeNow
  BY SameFates
<1>2. PhaseNow' = [PhaseNow EXCEPT ![t] = to]
  BY DEF PhaseNow
<1>3. PhaseNow[t] \in from
  BY DEF PhaseNow
<1> QED BY <1>1, <1>2, <1>3 DEF Life!Become, PhaseNow, OutcomeNow

\* One process changes: one task of TaskLife changes its outcome.
LEMMA OneFate ==
    ASSUME NEW t \in TaskIds, SameStates, NEW from, NEW to,
           \A u \in TaskIds : u # t => Outcome(u)' = Outcome(u),
           Outcome(t) = from, Outcome(t)' = to
    PROVE  Life!Fare(t, from, to)
<1>1. PhaseNow' = PhaseNow
  BY SamePhases
<1>2. OutcomeNow' = [OutcomeNow EXCEPT ![t] = to]
  BY DEF OutcomeNow
<1>3. OutcomeNow[t] = from
  BY DEF OutcomeNow
<1> QED BY <1>1, <1>2, <1>3 DEF Life!Fare, PhaseNow, OutcomeNow

-----------------------------------------------------------------------------
(* What every step gives: the invariant again, and a step of TaskLife.      *)

Lives == LifeSound' /\ FinishedIsTruthful' /\ [Life!Next]_(Life!life)

\* A task that stays Finished keeps the process that says so.
LEMMA TruthKept ==
    ASSUME LInv,
           \A u \in TaskIds : tasks'[u].state = "Finished" => tasks[u].state = "Finished",
           \A r \in Pids : procs[r].status = "Gone" /\ procs[r].ok =>
                 procs'[r].task = procs[r].task /\ procs'[r].status = "Gone" /\ procs'[r].ok
    PROVE  FinishedIsTruthful'
BY DEF LInv, FinishedIsTruthful

\* Steps of handlers that change no state.
LEMMA QuietHandler ==
    ASSUME LInv, SameStates, UNCHANGED schedulerVars,
           \A r \in Pids : /\ procs'[r].task = procs[r].task
                           /\ procs'[r].status = procs[r].status
                           /\ procs'[r].monitor = procs[r].monitor
                           /\ procs'[r].ok = procs[r].ok
    PROVE  Lives
<1>1. LifeSound'
  BY DEF LInv, LifeSound, SameStates, schedulerVars, Inv, TypeOK, LaunchSound
<1>2. FinishedIsTruthful'
  BY TruthKept DEF SameStates
<1>3. SameOutcomes
  BY DEF SameOutcomes
<1> QED BY <1>1, <1>2, <1>3, LifeStutters DEF Lives

LEMMA HandlerLives ==
    ASSUME LInv, NEW c \in Clients,
           \/ Check(c) \/ KillSignal(c) \/ CreateApply(c)
           \/ \E t \in TaskIds : ReleaseKill(c, t) \/ MoveNext(c, t)
    PROVE  Lives
<1>1. CASE Check(c) \/ \E t \in TaskIds : ReleaseKill(c, t)
  <2>1. UNCHANGED <<issued, schedulerVars, procs, tables>>
    BY <1>1 DEF Check, ReleaseKill, Remember, RunCheck, RemoveCheck, KillCheck, ReleaseCheck,
                MoveCheck, MergeCheck, CreateCheck
  <2> QED BY <2>1, QuietHandler DEF SameStates, tables
<1>2. CASE KillSignal(c)
  <2>1. /\ UNCHANGED <<issued, schedulerVars, tables>>
        /\ \A r \in Pids : /\ procs'[r].task = procs[r].task
                           /\ procs'[r].status = procs[r].status
                           /\ procs'[r].monitor = procs[r].monitor
                           /\ procs'[r].ok = procs[r].ok
    BY <1>2 DEF KillSignal, LInv, Inv, TypeOK, Process
  <2> QED BY <2>1, QuietHandler DEF SameStates, tables
<1>3. CASE CreateApply(c)
  BY <1>3, QuietHandler DEF CreateApply, AddQueue, SameStates
<1>4. ASSUME NEW t \in TaskIds, MoveNext(c, t) PROVE Lives
  <2>1. handlers[c].dest \in QueueNames /\ UpdateTaskQueue(t, handlers[c].dest)
        /\ UNCHANGED <<issued, schedulerVars, procs>>
    BY <1>4 DEF MoveNext, LInv, Inv, TypeOK, Handler, HandlersSound
  <2>2. TouchesOnly(t) /\ tasks'[t].state = tasks[t].state
    BY <2>1, InvLists, UpdateTaskQueueLists DEF LInv
  <2> QED BY <2>1, <2>2, QuietHandler DEF SameStates, TouchesOnly
<1> QED BY <1>1, <1>2, <1>3, <1>4

\* A new id gets the first phase of its life; nothing remembers it yet.
LEMMA SubmitLives ==
    ASSUME LInv, NEW t \in TaskIds, NEW q \in QueueNames, NEW need \in GpuRequires,
           Submit(t, q, need)
    PROVE  Lives
<1>1. t \notin issued /\ issued' = issued \cup {t} /\ AddTask(t, q, need)
      /\ UNCHANGED <<schedulerVars, procs>>
  BY DEF Submit
<1>2. TouchesOnly(t) /\ tasks'[t].state = "Waiting" /\ ~Present(t)
  BY <1>1, InvLists, UnissuedUnlisted, AddTaskLists DEF LInv
<1>3. LifeSound'
  BY <1>1, <1>2 DEF LInv, LifeSound, TouchesOnly, schedulerVars, Inv, TypeOK, LaunchSound
<1>4. FinishedIsTruthful'
  BY <1>1, <1>2, TruthKept DEF TouchesOnly
<1>5. SameOutcomes
  BY <1>1 DEF SameOutcomes
<1>6. /\ \A u \in TaskIds : u # t => Phase(u)' = Phase(u)
      /\ Phase(t) = "New" /\ Phase(t)' = "Waiting"
  BY <1>1, <1>2 DEF Phase, Present, TouchesOnly
<1>7. Life!Submit(t)
  BY <1>5, <1>6, OnePhase DEF Life!Submit
<1> QED BY <1>3, <1>4, <1>7 DEF Lives, Life!Next

LEMMA RemoveLives ==
    ASSUME LInv, NEW c \in Clients, RemoveApply(c)
    PROVE  Lives
<1>1. PICK t \in handlers[c].todo : RemoveTask(t)
  BY DEF RemoveApply
<1>2. t \in TaskIds /\ UNCHANGED <<issued, schedulerVars, procs>>
  BY DEF RemoveApply, LInv, Inv, TypeOK, Handler
<1>3. /\ TouchesOnly(t)
      /\ ~Present(t) => UNCHANGED tables
      /\ Present(t) => tasks'[t].state = "Absent"
  BY <1>1, <1>2, InvLists, RemoveTaskLists DEF LInv
<1>a. CASE ~Present(t)
  BY <1>a, <1>2, <1>3, QuietHandler DEF SameStates, tables
<1>b. CASE Present(t)
  <2>1. \A u \in TaskIds : tasks'[u].state \in {tasks[u].state, "Absent"}
    BY <1>b, <1>3 DEF TouchesOnly
  <2>2. LifeSound'
    BY <1>2, <2>1 DEF LInv, LifeSound, schedulerVars, Inv, TypeOK, LaunchSound
  <2>3. FinishedIsTruthful'
    BY <1>2, <2>1, TruthKept
  <2>4. SameOutcomes
    BY <1>2 DEF SameOutcomes
  <2>5. t \in issued /\ tasks[t].state \in TaskStates
    BY <1>b, <1>2, UnissuedUnlisted DEF LInv, Inv, TypeOK, TaskMeta, Present
  <2>6. /\ \A u \in TaskIds : u # t => Phase(u)' = Phase(u)
        /\ Phase(t) \in {"Waiting", "Running", "Finished", "Failed"}
        /\ Phase(t)' = "Removed"
    BY <1>b, <1>2, <1>3, <2>5 DEF Phase, Present, TouchesOnly, TaskStates
  <2>7. Life!Remove(t)
    BY <1>2, <2>4, <2>6, OnePhase DEF Life!Remove
  <2> QED BY <1>2, <2>2, <2>3, <2>7 DEF Lives, Life!Next
<1> QED BY <1>a, <1>b

\* Steps of a pass that change no table and no process.
LEMMA PassLives ==
    ASSUME LInv, UNCHANGED <<issued, procs, tables>>,
           \/ SnapshotQueues \/ SnapshotTasks \/ FetchTask \/ LaunchFails \/ SnapshotRunning
           \/ \E q \in QueueNames : EnterQueue(q)
           \/ \E t \in TaskIds : PassOver(t) \/ SkipRemoved(t)
           \/ \E t \in TaskIds, p \in Pids : Probe(t, p)
    PROVE  Lives
<1>1. SameStates /\ SameOutcomes
  BY DEF SameStates, SameOutcomes, tables
<1>2. FinishedIsTruthful'
  BY TruthKept DEF tables
<1>3. LifeSound'
  <2> USE DEF tables
  <2>1. CASE SnapshotQueues \/ SnapshotTasks \/ (\E q \in QueueNames : EnterQueue(q))
             \/ \E t \in TaskIds : PassOver(t) \/ SkipRemoved(t)
    <3>1. /\ pc' \notin {"fetch", "launch", "fail"}
          /\ UNCHANGED <<curTask, probing, toUpdate>>
      BY <2>1 DEF SnapshotQueues, SnapshotTasks, EnterQueue, PassOver, SkipRemoved, NextTask
    <3> QED BY <3>1 DEF LInv, LifeSound
  <2>2. CASE FetchTask \/ LaunchFails
    BY <2>2 DEF FetchTask, LaunchFails, LInv, LifeSound
  <2>3. CASE SnapshotRunning
    <3>1. \A t \in TaskIds : tasks[t].state = "Running" => t \in issued
      BY UnissuedUnlisted DEF LInv, Present
    <3>2. \A t \in toUpdate' \cup {entry[1] : entry \in probing'} :
              t \in TaskIds /\ tasks[t].state = "Running"
      BY <2>3 DEF SnapshotRunning
    <3> QED BY <2>3, <3>1, <3>2 DEF SnapshotRunning, LInv, LifeSound
  <2>4. ASSUME NEW t \in TaskIds, NEW p \in Pids, Probe(t, p) PROVE LifeSound'
    <3>1. /\ toUpdate' \cup {entry[1] : entry \in probing'}
                  \subseteq toUpdate \cup {entry[1] : entry \in probing}
          /\ UNCHANGED <<pc, curTask>>
      BY <2>4 DEF Probe
    <3> QED BY <3>1 DEF LInv, LifeSound
  <2> QED BY <2>1, <2>2, <2>3, <2>4
<1> QED BY <1>1, <1>2, <1>3, LifeStutters DEF Lives

\* schedule_tasks starts a task that waits, although it does not look.
LEMMA StartLives ==
    ASSUME LInv, NEW t \in TaskIds, NEW gpus \in SUBSET freeGpus, StartTask(t, gpus),
           UNCHANGED <<issued, handlers>>
    PROVE  Lives
<1>1. /\ pc = "pick" /\ Present(t) /\ UpdateTaskState(t, "Running", gpus)
      /\ \E q \in QueueNames : t \in toProcess[q]
      /\ curTask' = t /\ pc' = "fetch"
      /\ UNCHANGED <<probing, toUpdate, procs>>
  BY DEF StartTask, NextTask, LInv, Inv, TypeOK
<1>2. gpus \in (SUBSET Gpus) \cup {Nil}
  BY DEF LInv, Inv, TypeOK
<1>3. TouchesOnly(t) /\ tasks'[t].state = "Running"
  BY <1>1, <1>2, InvLists, UpdateTaskStateLists DEF LInv
<1>4. tasks[t].state = "Waiting" /\ t \in issued
  BY <1>1, UnissuedUnlisted DEF LInv, Inv, PassSound, Present
<1>5. LifeSound'
  BY <1>1, <1>3, <1>4 DEF LInv, LifeSound, TouchesOnly, Inv, TypeOK
<1>6. FinishedIsTruthful'
  BY <1>1, <1>3, TruthKept DEF TouchesOnly
<1>7. SameOutcomes
  BY <1>1 DEF SameOutcomes
<1>8. /\ \A u \in TaskIds : u # t => Phase(u)' = Phase(u)
      /\ Phase(t) = "Waiting" /\ Phase(t)' = "Running"
  BY <1>1, <1>3, <1>4 DEF Phase, Present, TouchesOnly
<1>9. Life!Start(t)
  BY <1>7, <1>8, OnePhase DEF Life!Start
<1> QED BY <1>5, <1>6, <1>9 DEF Lives, Life!Next

\* A step that stores how a task ended is a step of its life or changes nothing.
LEMMA EndLives ==
    ASSUME LInv, NEW t \in TaskIds, NEW state \in Terminal, UpdateTaskState(t, state, Nil),
           tasks[t].state # "Waiting", SameOutcomes, issued' = issued,
           state = "Finished" => Outcome(t) = "succeeded"
    PROVE  /\ [Life!Next]_(Life!life)
           /\ \A u \in TaskIds : u # t => tasks'[u] = tasks[u]
           /\ Present(t) => tasks'[t].state = state
           /\ ~Present(t) => tasks'[t].state = "Absent"
<1>1. state \in {"Finished", "Failed"} /\ Nil \in (SUBSET Gpus) \cup {Nil}
  BY DEF Terminal
<1>2. /\ TouchesOnly(t)
      /\ ~Present(t) => UNCHANGED tables
      /\ Present(t) => tasks'[t].state = state
  BY <1>1, InvLists, UpdateTaskStateLists DEF LInv
<1>3. ~Present(t) => tasks'[t].state = "Absent"
  BY <1>2 DEF Present, tables
<1>a. CASE ~Present(t) \/ tasks[t].state = state
  <2>1. SameStates
    BY <1>a, <1>2, <1>3 DEF SameStates, TouchesOnly, Present
  <2> QED BY <2>1, <1>2, <1>3, LifeStutters DEF TouchesOnly
<1>b. CASE Present(t) /\ tasks[t].state # state
  <2>1. tasks[t].state \in {"Running", "Finished", "Failed"} \ {state}
    BY <1>b DEF LInv, Inv, TypeOK, TaskMeta, TaskStates, Present
  <2>2. /\ \A u \in TaskIds : u # t => Phase(u)' = Phase(u)
        /\ Phase(t) = tasks[t].state /\ Phase(t)' = state
    BY <1>b, <1>1, <1>2 DEF Phase, Present, TouchesOnly
  <2>3. CASE state = "Failed"
    <3>1. Life!Fail(t)
      BY <2>1, <2>2, <2>3, OnePhase DEF Life!Fail
    <3> QED BY <3>1, <1>2, <1>3 DEF Life!Next, TouchesOnly
  <2>4. CASE state = "Finished"
    <3>1. OutcomeNow[t] = "succeeded"
      BY <2>4 DEF OutcomeNow
    <3>2. Life!Become(t, {"Running", "Failed"}, "Finished")
      BY <2>1, <2>2, <2>4, OnePhase
    <3>3. Life!Finish(t)
      BY <3>1, <3>2 DEF Life!Finish, OutcomeNow
    <3> QED BY <3>3, <1>2, <1>3 DEF Life!Next, TouchesOnly
  <2> QED BY <1>1, <2>3, <2>4
<1> QED BY <1>a, <1>b

\* A failed launch and a process that update_tasks did not find.
LEMMA FailureLives ==
    ASSUME LInv, RecordFailure \/ (\E t \in TaskIds : MarkFailed(t)),
           UNCHANGED <<issued, handlers>>
    PROVE  Lives
<1>1. PICK t \in TaskIds : /\ UpdateTaskState(t, "Failed", Nil)
                           /\ tasks[t].state # "Waiting"
  BY NilAssumption DEF RecordFailure, MarkFailed, LInv, LifeSound, Inv, LaunchSound, TypeOK
<1>2. /\ pc' \in {"pick", "update"} /\ curTask' \in {Nil, curTask}
      /\ toUpdate' \subseteq toUpdate
      /\ UNCHANGED <<issued, probing, procs>>
  BY DEF RecordFailure, MarkFailed
<1>3. SameOutcomes
  BY <1>2 DEF SameOutcomes
<1>4. /\ [Life!Next]_(Life!life)
      /\ \A u \in TaskIds : tasks'[u].state \in {tasks[u].state, "Failed", "Absent"}
  BY <1>1, <1>2, <1>3, EndLives DEF Terminal
<1>5. LifeSound'
  BY <1>2, <1>4 DEF LInv, LifeSound, Inv, TypeOK
<1>6. FinishedIsTruthful'
  BY <1>2, <1>4, TruthKept
<1> QED BY <1>4, <1>5, <1>6 DEF Lives

\* Finished is stored by the monitor of a process that is gone with success.
LEMMA ReportLives ==
    ASSUME LInv, NEW p \in Pids, Report(p) \/ WaitFails(p), UNCHANGED <<issued, handlers>>
    PROVE  Lives
<1> DEFINE t == procs[p].task
<1>1. /\ procs[p].monitor \in {"Waiting", "Reporting"}
      /\ procs' = [procs EXCEPT ![p].monitor = "Done"]
      /\ UNCHANGED schedulerVars
  BY DEF Report, WaitFails
<1>2. PICK state \in Terminal :
          /\ UpdateTaskState(t, state, Nil)
          /\ state = "Finished" => procs[p].monitor = "Reporting" /\ procs[p].ok
  BY DEF Report, WaitFails, Terminal
<1>3. t \in TaskIds /\ ~NeverLaunched(t) /\ tasks[t].state # "Waiting"
  BY <1>1 DEF LInv, Inv, ProcessSound, TypeOK, Process, NeverLaunched, WaitingNotStarted
<1>4. \A r \in Pids : /\ procs'[r].task = procs[r].task
                       /\ procs'[r].status = procs[r].status
                       /\ procs'[r].ok = procs[r].ok
                       /\ procs'[r].monitor \in {procs[r].monitor, "Done"}
  BY <1>1 DEF LInv, Inv, TypeOK, Process
<1>5. SameOutcomes
  BY <1>4 DEF SameOutcomes
<1>6. state = "Finished" => procs[p].status = "Gone" /\ Outcome(t) = "succeeded"
  <2> SUFFICES ASSUME state = "Finished"
               PROVE  procs[p].status = "Gone" /\ Outcome(t) = "succeeded"
    OBVIOUS
  <2>1. procs[p].status = "Gone" /\ procs[p].ok
    BY <1>2 DEF LInv, LifeSound
  <2>2. ~\E r \in Pids : procs[r].task = t /\ procs[r].status = "Alive"
    BY <1>3, <2>1, NilAssumption DEF LInv, Inv, LaunchedOnce
  <2> HIDE DEF t
  <2>3. procs[p].task = t
    BY DEF t
  <2> QED BY <1>3, <2>1, <2>2, <2>3 DEF Outcome
<1>7. /\ [Life!Next]_(Life!life)
      /\ \A u \in TaskIds : u # t => tasks'[u] = tasks[u]
      /\ tasks'[t].state \in {state, "Absent"}
  BY <1>2, <1>3, <1>5, <1>6, EndLives
<1>8. LifeSound'
  BY <1>1, <1>3, <1>4, <1>7
  DEF LInv, LifeSound, Inv, TypeOK, LaunchSound, NeverLaunched, schedulerVars, Terminal
<1>9. FinishedIsTruthful'
  BY <1>2, <1>4, <1>6, <1>7 DEF LInv, LifeSound, FinishedIsTruthful
<1> QED BY <1>7, <1>8, <1>9 DEF Lives

-----------------------------------------------------------------------------
(* Processes.                                                               *)

\* A spawn is the first process of a task that runs or has just been removed.
LEMMA SpawnLives ==
    ASSUME LInv, NEW p \in Pids, Spawn(p), UNCHANGED <<issued, handlers>>
    PROVE  Lives
<1>1. /\ pc = "launch" /\ procs[p].status = "Unused" /\ pc' = "setpid"
      /\ UNCHANGED <<curTask, probing, toUpdate, tables>>
  BY DEF Spawn
<1>2. /\ procs'[p].task = curTask /\ procs'[p].status = "Alive"
      /\ procs'[p].monitor = procs[p].monitor /\ procs'[p].ok = procs[p].ok
      /\ \A r \in Pids : r # p => procs'[r] = procs[r]
  BY DEF Spawn, LInv, Inv, TypeOK, Process
<1>3. /\ curTask \in TaskIds /\ curTask \in issued /\ NeverLaunched(curTask)
      /\ procs[p].task = Nil /\ tasks[curTask].state \in {"Running", "Absent"}
  BY <1>1, NilAssumption DEF LInv, LifeSound, Inv, LaunchSound, ProcessSound, TypeOK
<1>4. ~procs[p].ok /\ procs[p].monitor # "Reporting"
  BY <1>1 DEF LInv, LifeSound
<1>5. LifeSound'
  BY <1>1, <1>2, <1>4 DEF LInv, LifeSound, tables
<1>6. FinishedIsTruthful'
  BY <1>1, <1>2, TruthKept DEF tables
<1>7. SameStates
  BY <1>1 DEF SameStates, tables
<1>8. PICK t \in TaskIds : t = curTask
  BY <1>3
<1>9. \A u \in TaskIds : u # t => Outcome(u)' = Outcome(u)
  BY <1>2, <1>3, <1>8, NilAssumption DEF Outcome, NeverLaunched
<1>10. Outcome(t) = "none" /\ Outcome(t)' = "alive"
  BY <1>1, <1>2, <1>3, <1>8 DEF Outcome, NeverLaunched
<1>11. Life!Fare(t, "none", "alive")
  BY <1>7, <1>9, <1>10, OneFate
<1>12. PhaseNow[t] \in {"Running", "Removed"}
  BY <1>3, <1>8 DEF PhaseNow, Phase, Present
<1>13. Life!Launch(t)
  BY <1>11, <1>12 DEF Life!Launch, PhaseNow
<1> QED BY <1>5, <1>6, <1>13 DEF Lives, Life!Next

LEMMA ExitLives ==
    ASSUME LInv, NEW p \in Pids, NEW ok \in BOOLEAN, Exit(p, ok),
           UNCHANGED <<issued, handlers>>
    PROVE  Lives
<1>1. procs[p].status = "Alive" /\ UNCHANGED <<schedulerVars, tables>>
  BY DEF Exit
<1>2. /\ procs'[p].status = "Zombie" /\ procs'[p].ok = ok
      /\ \A r \in Pids : /\ procs'[r].task = procs[r].task
                         /\ procs'[r].monitor = procs[r].monitor
                         /\ r # p => procs'[r] = procs[r]
  BY DEF Exit, LInv, Inv, TypeOK, Process
<1>3. procs[p].monitor # "Reporting" /\ ~procs[p].ok
  BY <1>1 DEF LInv, LifeSound
<1>4. LifeSound'
  BY <1>1, <1>2, <1>3 DEF LInv, LifeSound, schedulerVars, tables
<1>5. FinishedIsTruthful'
  BY <1>1, <1>2, TruthKept DEF tables
<1>6. SameStates
  BY <1>1 DEF SameStates, tables
<1>a. CASE procs[p].task \notin TaskIds
  <2>1. \A u \in TaskIds : Outcome(u)' = Outcome(u)
    BY <1>2, <1>a DEF Outcome, NeverLaunched
  <2>2. PhaseNow' = PhaseNow /\ OutcomeNow' = OutcomeNow
    BY <2>1, <1>6, SamePhases DEF OutcomeNow
  <2> QED BY <2>2, <1>4, <1>5 DEF Lives, PhaseNow, OutcomeNow, Life!life
<1>b. CASE procs[p].task \in TaskIds
  <2>1. PICK t \in TaskIds : t = procs[p].task
    BY <1>b
  <2>2. \A r \in Pids : procs[r].task = t => r = p
    BY <2>1, NilAssumption DEF LInv, Inv, LaunchedOnce
  <2>3. \A u \in TaskIds : u # t => Outcome(u)' = Outcome(u)
    BY <1>2, <2>1 DEF Outcome, NeverLaunched
  <2>4. Outcome(t) = "alive"
    BY <1>1, <2>1 DEF Outcome, NeverLaunched
  <2>5. Outcome(t)' = IF ok THEN "succeeded" ELSE "failed"
    BY <1>2, <2>1, <2>2 DEF Outcome, NeverLaunched
  <2>6. \E result \in {"succeeded", "failed"} : Life!Fare(t, "alive", result)
    BY <1>6, <2>3, <2>4, <2>5, OneFate
  <2>7. Life!Exit(t)
    BY <2>6 DEF Life!Exit
  <2> QED BY <1>4, <1>5, <2>7 DEF Lives, Life!Next
<1> QED BY <1>a, <1>b

\* A reap, and a monitor that starts, change nothing a user sees.
LEMMA ReapLives ==
    ASSUME LInv, NEW p \in Pids, Reap(p), UNCHANGED <<issued, handlers>>
    PROVE  Lives
<1>1. procs[p].status = "Zombie" /\ UNCHANGED <<schedulerVars, tables>>
  BY DEF Reap
<1>2. /\ procs'[p].status = "Gone"
      /\ \A r \in Pids : /\ procs'[r].task = procs[r].task
                         /\ procs'[r].ok = procs[r].ok
                         /\ r # p => procs'[r] = procs[r]
  BY DEF Reap, LInv, Inv, TypeOK, Process
<1>3. LifeSound'
  BY <1>1, <1>2 DEF LInv, LifeSound, schedulerVars, tables
<1>4. FinishedIsTruthful'
  BY <1>1, <1>2, TruthKept DEF tables
<1>5. SameStates /\ SameOutcomes
  BY <1>1, <1>2 DEF SameStates, SameOutcomes, tables
<1> QED BY <1>3, <1>4, <1>5, LifeStutters DEF Lives

LEMMA SetPidLives ==
    ASSUME LInv, SetPid, UNCHANGED <<issued, handlers>>
    PROVE  Lives
<1>1. /\ pc = "setpid" /\ SetTaskPid(curTask, child) /\ pc' = "pick" /\ curTask' = Nil
      /\ UNCHANGED <<probing, toUpdate>>
  BY DEF SetPid
<1>2. curTask \in TaskIds /\ child \in Pids
  BY <1>1 DEF LInv, Inv, LaunchSound, TypeOK
<1>3. \A r \in Pids : /\ procs'[r].task = procs[r].task
                       /\ procs'[r].status = procs[r].status
                       /\ procs'[r].ok = procs[r].ok
                       /\ procs'[r].monitor \in {procs[r].monitor, "Waiting"}
  BY <1>2 DEF SetPid, LInv, Inv, TypeOK, Process
<1>4. \A u \in TaskIds : tasks'[u].state = tasks[u].state
  BY <1>1, <1>2, InvLists, SetTaskPidLists DEF LInv, TouchesOnly
<1>5. LifeSound'
  BY <1>1, <1>3, <1>4 DEF LInv, LifeSound, Inv, TypeOK
<1>6. FinishedIsTruthful'
  BY <1>3, <1>4, TruthKept
<1>7. SameStates /\ SameOutcomes
  BY <1>3, <1>4 DEF SameStates, SameOutcomes
<1> QED BY <1>5, <1>6, <1>7, LifeStutters DEF Lives

-----------------------------------------------------------------------------
(* Every step.                                                              *)

LEMMA SchedulerLives ==
    ASSUME LInv, SchedulerStep, UNCHANGED <<issued, handlers>>
    PROVE  Lives
<1>1. CASE \/ SnapshotQueues \/ SnapshotTasks \/ FetchTask \/ LaunchFails \/ SnapshotRunning
           \/ \E q \in QueueNames : EnterQueue(q)
           \/ \E t \in TaskIds : PassOver(t) \/ SkipRemoved(t)
           \/ \E t \in TaskIds, p \in Pids : Probe(t, p)
  <2>1. UNCHANGED <<issued, procs, tables>>
    BY <1>1 DEF SnapshotQueues, SnapshotTasks, FetchTask, LaunchFails, SnapshotRunning,
                EnterQueue, PassOver, SkipRemoved, Probe
  <2> QED BY <1>1, <2>1, PassLives
<1>2. ASSUME NEW t \in TaskIds, NEW gpus \in SUBSET freeGpus, StartTask(t, gpus) PROVE Lives
  BY <1>2, StartLives
<1>3. ASSUME NEW p \in Pids, Spawn(p) PROVE Lives
  BY <1>3, SpawnLives
<1> QED BY <1>1, <1>2, <1>3, SetPidLives, FailureLives DEF SchedulerStep

LEMMA NextLives ==
    ASSUME LInv, Next
    PROVE  Lives
<1>1. ASSUME NEW t \in TaskIds, NEW q \in QueueNames, NEW need \in GpuRequires,
             Submit(t, q, need)
      PROVE  Lives
  BY <1>1, SubmitLives
<1>2. ASSUME NEW c \in Clients, Check(c) \/ Apply(c) PROVE Lives
  BY <1>2, HandlerLives, RemoveLives DEF Apply
<1>3. CASE SchedulerRuns
  BY <1>3, SchedulerLives DEF SchedulerRuns
<1>4. ASSUME NEW p \in Pids, MonitorRuns(p) \/ ProcessEnds(p) PROVE Lives
  BY <1>4, ReapLives, ReportLives, ExitLives DEF MonitorRuns, MonitorStep, ProcessEnds
<1> QED BY <1>1, <1>2, <1>3, <1>4 DEF Next

LEMMA StutterLives ==
    ASSUME LInv, UNCHANGED vars
    PROVE  Lives
<1>1. UNCHANGED <<issued, schedulerVars, procs, tables>>
  BY DEF vars
<1> QED BY <1>1, QuietHandler DEF SameStates, tables

LEMMA LifeInit ==
    ASSUME Init
    PROVE  LifeSound /\ FinishedIsTruthful /\ Life!Init
<1> USE DEF Init, InitTables, InitScheduler
<1>1. \A t \in TaskIds : tasks[t].state = "Absent" /\ t \notin issued
  BY DEF NoTask
<1>2. \A p \in Pids : /\ procs[p].task = Nil /\ procs[p].status = "Unused"
                       /\ procs[p].monitor = "None" /\ ~procs[p].ok
  BY DEF NoProcess
<1>3. LifeSound /\ FinishedIsTruthful
  BY <1>1, <1>2 DEF LifeSound, FinishedIsTruthful
<1>4. \A t \in TaskIds : Phase(t) = "New" /\ Outcome(t) = "none"
  BY <1>1, <1>2, NilAssumption DEF Phase, Outcome, Present, NeverLaunched
<1> QED BY <1>3, <1>4 DEF Life!Init

\* A step of TaskLife goes forward.
LEMMA LifeForward ==
    ASSUME Inv, Inv', [Life!Next]_(Life!life), issued \subseteq issued'
    PROVE  Forward
<1> SUFFICES ASSUME NEW t \in TaskIds
    PROVE  /\ tasks[t].state = "Running" => tasks'[t].state # "Waiting"
           /\ tasks[t].state \in Terminal => tasks'[t].state \in Terminal \cup {"Absent"}
           /\ tasks[t].state = "Absent" /\ t \in issued => tasks'[t].state = "Absent"
  BY DEF Forward
<1>1. /\ Phase(t) = "Running" => Phase(t)' # "Waiting"
      /\ Phase(t) \in {"Finished", "Failed"} => Phase(t)' \in {"Finished", "Failed", "Removed"}
      /\ Phase(t) = "Removed" => Phase(t)' = "Removed"
  <2>1. CASE UNCHANGED Life!life
    <3>1. PhaseNow' = PhaseNow
      BY <2>1 DEF Life!life, PhaseNow
    <3>2. Phase(t)' = Phase(t)
      BY <3>1 DEF PhaseNow
    <3> QED BY <3>2
  <2>2. CASE Life!Next
    <3>1. PICK u \in TaskIds :
              \/ PhaseNow' = PhaseNow
              \/ PhaseNow[u] = "New" /\ PhaseNow' = [PhaseNow EXCEPT ![u] = "Waiting"]
              \/ PhaseNow[u] = "Waiting" /\ PhaseNow' = [PhaseNow EXCEPT ![u] = "Running"]
              \/ /\ PhaseNow[u] \in {"Running", "Failed"}
                 /\ PhaseNow' = [PhaseNow EXCEPT ![u] = "Finished"]
              \/ /\ PhaseNow[u] \in {"Running", "Finished"}
                 /\ PhaseNow' = [PhaseNow EXCEPT ![u] = "Failed"]
              \/ PhaseNow' = [PhaseNow EXCEPT ![u] = "Removed"]
      BY <2>2 DEF PhaseNow, Life!Next, Life!Submit, Life!Start, Life!Finish, Life!Fail,
                  Life!Remove, Life!Launch, Life!Exit, Life!Become, Life!Fare
    <3>2. PhaseNow[t] = Phase(t) /\ PhaseNow'[t] = Phase(t)'
      BY DEF PhaseNow
    <3>3. DOMAIN PhaseNow = TaskIds
      BY DEF PhaseNow
    <3> QED BY <3>1, <3>2, <3>3
  <2> QED BY <2>1, <2>2
<1>2. {tasks[t].state, tasks'[t].state} \subseteq TaskStates \cup {"Absent"}
  BY DEF Inv, TypeOK, TaskMeta
<1> QED BY <1>1, <1>2 DEF Phase, Present, Terminal, TaskStates

\* Submissions are the only steps that hand out ids.
LEMMA IssuedGrows ==
    ASSUME [Next]_vars
    PROVE  issued \subseteq issued'
<1>1. CASE UNCHANGED vars
  BY <1>1 DEF vars
<1>2. CASE Next
  <2>1. ASSUME NEW c \in Clients, Check(c) PROVE issued' = issued
    BY <2>1 DEF Check, Remember, RunCheck, RemoveCheck, KillCheck, ReleaseCheck, MoveCheck,
                MergeCheck, CreateCheck
  <2>2. ASSUME NEW c \in Clients, Apply(c) PROVE issued' = issued
    BY <2>2 DEF Apply, Remember, RemoveApply, KillSignal, ReleaseKill, MoveNext, CreateApply
  <2> QED BY <1>2, <2>1, <2>2 DEF Next, Submit, SchedulerRuns, MonitorRuns, ProcessEnds
<1> QED BY <1>1, <1>2

LEMMA LifeInitially == Init => LifeSound /\ FinishedIsTruthful /\ Life!Init
BY LifeInit

LEMMA LifeSteps ==
    Inv /\ Inv' /\ LifeSound /\ FinishedIsTruthful /\ [Next]_vars
        => LifeSound' /\ FinishedIsTruthful' /\ [Life!Next]_(Life!life) /\ [Forward]_vars
<1> SUFFICES ASSUME Inv, Inv', LifeSound, FinishedIsTruthful, [Next]_vars
             PROVE  Lives /\ Forward
  BY DEF Lives
<1>1. Lives
  BY NextLives, StutterLives DEF LInv
<1>2. Forward
  BY <1>1, IssuedGrows, LifeForward DEF Lives, Inv, TypeOK
<1> QED BY <1>1, <1>2

-----------------------------------------------------------------------------
(* What follows for a user of the daemon.                                   *)

\* Every behaviour of the daemon, seen through Phase and Outcome, is a behaviour
\* of TaskLife: for any number of clients, tasks and processes and with every
\* fault, each step moves one task one phase on, or its process, or nothing.
THEOREM DaemonImplementsLife == Spec => ImplementsLife
<1> QED BY Invariance, LifeInitially, LifeSteps, PTL DEF Spec, Life!Spec, ImplementsLife

\* What a running scheduler has started never waits again, what has ended never
\* runs again, what was removed never returns.
THEOREM TasksGoForward == Spec => NeverRewinds
<1> QED BY Invariance, LifeInitially, LifeSteps, PTL DEF Spec, NeverRewinds

\* "Finished" in the task table means that the task's process is gone and
\* exited with success, whichever of its monitor and update_tasks spoke last.
THEOREM FinishedStaysTruthful == Spec => []FinishedIsTruthful
<1> QED BY Invariance, LifeInitially, LifeSteps, PTL DEF Spec

\* The strengthening all three rest on.
THEOREM LifeStaysSound == Spec => []LifeSound
<1> QED BY Invariance, LifeInitially, LifeSteps, PTL DEF Spec
=============================================================================
