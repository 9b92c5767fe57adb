--------------------------- MODULE GpuTablesProofs ---------------------------
(***************************************************************************)
(* For any number of GPUs, readings, limits, queues and clients: the       *)
(* tables keep their shape, and a pass uses the GPUs it should.            *)
(***************************************************************************)
EXTENDS GpuTables, TLAPS

\* What a request knows of the GPUs it still has to see.
HandlerSound(h) ==
    /\ h.op = "idle" => h = Idle
    /\ h.op # "idle" => h.todo # {}
    /\ h.op # "idle" /\ h.next \in {"check", "set", "clear"} => h.gpu \in h.todo
    /\ h.op = "allocate" => h.queue \in QueueNames /\ h.next # "clear"
    /\ h.op = "ignore" => h.next \in {"set", "clear"} /\ h.todo = {h.gpu}
    /\ h.op = "reset" => h.next \in {"look", "clear"}

GpuSound == GpuTypeOK /\ \A c \in Clients : HandlerSound(handlers[c])

LEMMA IdleIsSound == Idle \in Handler /\ HandlerSound(Idle) /\ Idle.op = "idle"
BY DEF Idle, Handler, HandlerSound

LEMMA DevicesRead ==
    ASSUME GpuTypeOK, NEW g \in Gpus, nvml # Nil, Seen(g)
    PROVE  nvml[g] \in Readings \cup {Unreadable}
BY DEF GpuTypeOK, Devices, Seen

LEMMA RefreshedShape ==
    ASSUME GpuTypeOK PROVE Refreshed \in [Gpus -> Readings \cup {Nil}]
<1>1. CASE nvml = Nil
  BY <1>1 DEF Refreshed, GpuTypeOK
<1>2. CASE nvml # Nil
  <2>1. \A g \in Gpus : Seen(g) => nvml[g] \in Readings \cup {Unreadable}
    BY <1>2, DevicesRead
  <2>2. \A g \in Gpus : gpuStats[g] \in Readings \cup {Nil}
    BY DEF GpuTypeOK
  <2> QED BY <1>2, <2>1, <2>2 DEF Refreshed
<1> QED BY <1>1, <1>2

LEMMA NoStatsShape == NoStats \in [Gpus -> Readings \cup {Nil}]
BY DEF NoStats

\* The request of one client moves on; the others are where they were.
LEMMA BecomesSound ==
    ASSUME GpuSound, NEW c \in Clients, NEW h \in Handler, HandlerSound(h), Becomes(c, h)
    PROVE  /\ handlers' \in [Clients -> Handler]
           /\ \A d \in Clients : HandlerSound(handlers'[d])
           /\ handlers'[c] = h
           /\ \A d \in Clients : d # c => handlers'[d] = handlers[d]
<1>1. handlers \in [Clients -> Handler]
  BY DEF GpuSound, GpuTypeOK
<1>2. handlers' = [handlers EXCEPT ![c] = h]
  BY DEF Becomes
<1>3. \A d \in Clients : handlers'[d] = IF d = c THEN h ELSE handlers[d]
  BY <1>1, <1>2
<1> QED BY <1>1, <1>2, <1>3 DEF GpuSound

\* The GPU just seen is off the list.
Rest(c, gpu) == handlers[c].todo \ {gpu}

LEMMA DoneSound ==
    ASSUME GpuSound, NEW c \in Clients, NEW gpu \in Gpus, Done(c, gpu),
           handlers[c].op \in {"allocate", "reset"} \/ Rest(c, gpu) = {}
    PROVE  \E h \in Handler :
              /\ HandlerSound(h) /\ Becomes(c, h) /\ h.next = "look"
              /\ h.op = "idle" \/ (h.op = handlers[c].op /\ h.todo = Rest(c, gpu))
<1>0. handlers[c] \in Handler /\ HandlerSound(handlers[c])
  BY DEF GpuSound, GpuTypeOK
<1>1. CASE Rest(c, gpu) = {}
  <2>1. Becomes(c, Idle)
    BY <1>1 DEF Done, Rest
  <2>2. Idle.next = "look" /\ Idle.op = "idle"
    BY DEF Idle
  <2> QED BY <2>1, <2>2, IdleIsSound
<1>2. CASE Rest(c, gpu) # {}
  <2> DEFINE h == [handlers[c] EXCEPT !.todo = Rest(c, gpu), !.gpu = Nil, !.next = "look"]
  <2>1. Becomes(c, h)
    BY <1>2 DEF Done, Rest
  <2>2. h \in Handler
    BY <1>0 DEF Handler, Rest
  <2>3. /\ h.op = handlers[c].op /\ h.todo = Rest(c, gpu)
        /\ h.next = "look" /\ h.queue = handlers[c].queue
    BY <1>0 DEF Handler
  <2> HIDE DEF h
  <2>4. HandlerSound(h)
    BY <1>0, <1>2, <2>3 DEF HandlerSound
  <2> QED BY <2>1, <2>2, <2>3, <2>4
<1> QED BY <1>1, <1>2

NoRequest == UNCHANGED <<ignored, allocations, handlers>>

LEMMA SchedulerSound ==
    ASSUME GpuSound, NvmlChanges \/ SchedulerRuns \/ (\E l \in Limits : SetLimit(l))
    PROVE  GpuSound'
<1>1. GpuTypeOK /\ Refreshed \in [Gpus -> Readings \cup {Nil}]
  BY RefreshedShape DEF GpuSound
<1>2. handlers' = handlers
  BY DEF NvmlChanges, SchedulerRuns, Boot, Refresh, CopyQueues, CopyIgnored, CopyStats,
         EndPass, SetLimit, schedulerVars
<1>3. CASE NvmlChanges
  BY <1>1, <1>2, <1>3 DEF NvmlChanges, GpuTypeOK, GpuSound, schedulerVars
<1>4. CASE Boot \/ Refresh
  <2>1. {g \in Gpus : Refreshed[g] # Nil} \subseteq Gpus
    OBVIOUS
  <2> QED BY <1>1, <1>2, <1>4, <2>1 DEF Boot, Refresh, GpuTypeOK, GpuSound
<1>5. CASE CopyQueues \/ CopyIgnored \/ CopyStats
  BY <1>1, <1>2, <1>5 DEF CopyQueues, CopyIgnored, CopyStats, GpuTypeOK, GpuSound
<1>6. CASE EndPass
  BY <1>1, <1>2, <1>6, NoStatsShape, LimitAssumption DEF EndPass, GpuTypeOK, GpuSound
<1>7. CASE \E l \in Limits : SetLimit(l)
  BY <1>1, <1>2, <1>7 DEF SetLimit, GpuTypeOK, GpuSound, schedulerVars
<1> QED BY <1>3, <1>4, <1>5, <1>6, <1>7 DEF SchedulerRuns

\* A request that moves and leaves two well-shaped tables.
LEMMA TablesSound ==
    ASSUME GpuSound, NEW c \in Clients, NEW h \in Handler, HandlerSound(h), Becomes(c, h),
           UNCHANGED <<nvml, gpuStats, ownGpus, limit, schedulerVars>>,
           ignored' \subseteq Gpus, allocations' \in [Gpus -> QueueNames \cup {Nil}]
    PROVE  GpuSound'
<1>1. /\ handlers' \in [Clients -> Handler]
      /\ \A d \in Clients : HandlerSound(handlers'[d])
  BY BecomesSound
<1> QED BY <1>1 DEF GpuSound, GpuTypeOK, schedulerVars

\* What a step of a request does to that request.
StepsTo(c, h) == h \in Handler /\ HandlerSound(h) /\ Becomes(c, h)

LEMMA HandlerSteps ==
    ASSUME GpuSound, NEW c \in Clients, HandlerRuns(c)
    PROVE  /\ UNCHANGED handlers \/ \E h \in Handler : StepsTo(c, h)
           /\ UNCHANGED <<nvml, gpuStats, ownGpus, limit, schedulerVars>>
           /\ ignored' \subseteq Gpus
           /\ allocations' \in [Gpus -> QueueNames \cup {Nil}]
<1>0. /\ handlers[c] \in Handler /\ HandlerSound(handlers[c])
      /\ ignored \subseteq Gpus
      /\ allocations \in [Gpus -> QueueNames \cup {Nil}]
  BY DEF GpuSound, GpuTypeOK
<1> DEFINE Goal ==
             /\ UNCHANGED handlers \/ \E h \in Handler : StepsTo(c, h)
             /\ UNCHANGED <<nvml, gpuStats, ownGpus, limit, schedulerVars>>
             /\ ignored' \subseteq Gpus
             /\ allocations' \in [Gpus -> QueueNames \cup {Nil}]
<1>1. ASSUME NEW gpus \in SUBSET Gpus, NEW q \in QueueNames, AllocateBegin(c, gpus, q) PROVE Goal
  <2> DEFINE h == [Idle EXCEPT !.op = "allocate", !.todo = gpus, !.queue = q]
  <2>1. Becomes(c, h) /\ gpus # {}
    BY <1>1 DEF AllocateBegin
  <2>2. h \in Handler /\ HandlerSound(h)
    BY <2>1 DEF Handler, HandlerSound, Idle
  <2> QED BY <1>0, <1>1, <2>1, <2>2 DEF StepsTo, AllocateBegin, NoTable
<1>2. ASSUME NEW gpu \in Gpus, AllocateLook(c, gpu) PROVE Goal
  <2>1. CASE gpu \in ignored
    BY <1>0, <1>2, <2>1, DoneSound DEF AllocateLook, NoTable, StepsTo
  <2>2. CASE gpu \notin ignored
    <3> DEFINE h == [handlers[c] EXCEPT !.gpu = gpu, !.next = "check"]
    <3>1. Becomes(c, h)
      BY <1>2, <2>2 DEF AllocateLook
    <3>2. h \in Handler /\ HandlerSound(h)
      BY <1>0, <1>2 DEF AllocateLook, Handler, HandlerSound, Idle
    <3> QED BY <1>0, <1>2, <3>1, <3>2 DEF AllocateLook, NoTable, StepsTo
  <2> QED BY <2>1, <2>2
<1>3. ASSUME NEW gpu \in Gpus, Release(c, gpu) PROVE Goal
  BY <1>0, <1>3 DEF Release
<1>4. ASSUME NEW gpu \in Gpus, IgnoreCheck(c, gpu) PROVE Goal
  <2> DEFINE h == [Idle EXCEPT !.op = "ignore", !.gpu = gpu, !.todo = {gpu}, !.next = "set"]
  <2>1. Becomes(c, h)
    BY <1>4 DEF IgnoreCheck
  <2>2. h \in Handler /\ HandlerSound(h)
    BY <1>4 DEF Handler, HandlerSound, Idle
  <2> QED BY <1>0, <1>4, <2>1, <2>2 DEF StepsTo, IgnoreCheck, NoTable
<1>5. ASSUME NEW gpu \in Gpus, ResetUnset(c, gpu) PROVE Goal
  <2> DEFINE h == [handlers[c] EXCEPT !.gpu = gpu, !.next = "clear"]
  <2>1. Becomes(c, h)
    BY <1>5 DEF ResetUnset
  <2>2. h \in Handler /\ HandlerSound(h)
    BY <1>0, <1>5 DEF ResetUnset, Handler, HandlerSound, Idle
  <2> QED BY <1>0, <1>5, <2>1, <2>2 DEF ResetUnset, StepsTo
<1>6. ASSUME AllocateCheck(c) PROVE Goal
  <2>1. handlers[c].gpu \in Gpus
    BY <1>0, <1>6 DEF AllocateCheck, HandlerSound, Handler
  <2>2. CASE allocations[handlers[c].gpu] # Nil
    BY <1>0, <1>6, <2>1, <2>2, DoneSound DEF AllocateCheck, NoTable, StepsTo
  <2>3. CASE allocations[handlers[c].gpu] = Nil
    <3> DEFINE h == [handlers[c] EXCEPT !.next = "set"]
    <3>1. Becomes(c, h)
      BY <1>6, <2>3 DEF AllocateCheck
    <3>2. h \in Handler /\ HandlerSound(h)
      BY <1>0, <1>6 DEF AllocateCheck, Handler, HandlerSound, Idle
    <3> QED BY <1>0, <1>6, <3>1, <3>2 DEF AllocateCheck, NoTable, StepsTo
  <2> QED BY <2>2, <2>3
<1>7. ASSUME AllocateSet(c) PROVE Goal
  <2>1. handlers[c].gpu \in Gpus /\ handlers[c].queue \in QueueNames
    BY <1>0, <1>7 DEF AllocateSet, HandlerSound, Handler
  <2> QED BY <1>0, <1>7, <2>1, DoneSound DEF AllocateSet, StepsTo
<1>8. ASSUME IgnoreSet(c) PROVE Goal
  <2> DEFINE h == [handlers[c] EXCEPT !.next = "clear"]
  <2>1. Becomes(c, h) /\ handlers[c].gpu \in Gpus
    BY <1>0, <1>8 DEF IgnoreSet, HandlerSound, Handler
  <2>2. h \in Handler /\ HandlerSound(h)
    BY <1>0, <1>8 DEF IgnoreSet, Handler, HandlerSound, Idle
  <2> QED BY <1>0, <1>8, <2>1, <2>2 DEF IgnoreSet, StepsTo
<1>9. ASSUME ResetBegin(c) PROVE Goal
  <2> DEFINE h == [Idle EXCEPT !.op = "reset", !.todo = ignored]
  <2>1. Becomes(c, h) /\ ignored # {}
    BY <1>9 DEF ResetBegin
  <2>2. h \in Handler /\ HandlerSound(h)
    BY <1>0, <2>1 DEF Handler, HandlerSound, Idle
  <2> QED BY <1>0, <1>9, <2>1, <2>2 DEF StepsTo, ResetBegin, NoTable
<1>10. ASSUME Clear(c) PROVE Goal
  <2>1. /\ handlers[c].gpu \in Gpus
        /\ handlers[c].op \in {"allocate", "reset"} \/ Rest(c, handlers[c].gpu) = {}
    BY <1>0, <1>10 DEF Clear, HandlerSound, Handler, Idle, Rest
  <2> QED BY <1>0, <1>10, <2>1, DoneSound DEF Clear, StepsTo
<1> QED BY <1>1, <1>2, <1>3, <1>4, <1>5, <1>6, <1>7, <1>8, <1>9, <1>10 DEF HandlerRuns

LEMMA NextSound ==
    ASSUME GpuSound, [Next]_vars PROVE GpuSound'
<1>1. CASE UNCHANGED vars
  BY <1>1 DEF vars, schedulerVars, GpuSound, GpuTypeOK
<1>2. ASSUME NEW c \in Clients, HandlerRuns(c) PROVE GpuSound'
  <2>1. /\ UNCHANGED handlers \/ \E h \in Handler : StepsTo(c, h)
        /\ UNCHANGED <<nvml, gpuStats, ownGpus, limit, schedulerVars>>
        /\ ignored' \subseteq Gpus
        /\ allocations' \in [Gpus -> QueueNames \cup {Nil}]
    BY <1>2, HandlerSteps
  <2>2. CASE UNCHANGED handlers
    BY <2>1, <2>2 DEF GpuSound, GpuTypeOK, schedulerVars
  <2>3. CASE \E h \in Handler : StepsTo(c, h)
    BY <2>1, <2>3, TablesSound DEF StepsTo
  <2> QED BY <2>1, <2>2, <2>3
<1> QED BY <1>1, <1>2, SchedulerSound DEF Next

LEMMA InitSound == Init => GpuSound
<1> SUFFICES ASSUME Init PROVE GpuSound
  OBVIOUS
<1>1. GpuTypeOK
  BY NoStatsShape, LimitAssumption, IdleIsSound DEF Init, GpuTypeOK
<1>2. \A c \in Clients : HandlerSound(handlers[c])
  BY IdleIsSound DEF Init
<1> QED BY <1>1, <1>2 DEF GpuSound

\* The tables keep their shape, and a request always has a GPU to go on with.
THEOREM TablesKeepShape == Spec => []GpuSound
<1>1. GpuSound /\ [Next]_vars => GpuSound'
  BY NextSound
<1> QED BY <1>1, InitSound, PTL DEF Spec

\* In particular every handler answers a request on GPUs that exist.
THEOREM GpuTypeCorrect == Spec => []GpuTypeOK
<1>1. GpuSound => GpuTypeOK
  BY DEF GpuSound
<1> QED BY <1>1, TablesKeepShape, PTL

-----------------------------------------------------------------------------
(* The GPUs a pass uses.  A pass decides from copies made one after the     *)
(* other; what holds of a GPU from the start of one pass on decides that    *)
(* pass and all that follow.                                                *)

\* The numeric edge (scheduler.rs:40-86): a device with nothing on it satisfies
\* every limit that its size allows, met exactly included.
LEMMA IdleQualifies ==
    ASSUME NEW r \in Readings, NEW l \in Limits, Unused(r), Meets(r, l)
    PROVE  Qualifies(r, l)
<1>1. r.total \in Nat /\ r.free = r.total /\ r.total # 0 /\ r.usage = 0
  BY NumbersAssumption DEF Unused
<1>2. l.value \in Nat /\ l.kind \in {"Ignore", "AbsoluteMb", "Percentage"}
  BY NumbersAssumption
<1>3. l.usage \in 0 .. 100 => r.usage <= l.usage
  BY <1>1
<1>4. CASE l.kind = "Percentage"
  <2>1. l.value <= 100
    BY <1>4 DEF Meets
  <2>2. \A v, n \in Nat : v <= 100 => 100 * n >= v * n
    <3> SUFFICES ASSUME NEW v \in Nat, NEW n \in Nat, v <= 100 PROVE 100 * n >= v * n
      OBVIOUS
    <3>1. PICK k \in Nat : 100 = v + k
      OBVIOUS
    <3>2. 100 * n = v * n + k * n /\ k * n \in Nat /\ v * n \in Nat
      BY <3>1
    <3> QED BY <3>2
  <2>3. 100 * r.total >= l.value * r.total
    BY <1>1, <1>2, <2>1, <2>2
  <2> QED BY <1>1, <1>3, <1>4, <2>3 DEF Qualifies
<1>5. CASE l.kind # "Percentage"
  BY <1>1, <1>2, <1>3, <1>5 DEF Meets, Qualifies
<1> QED BY <1>4, <1>5

\* The scheduler's copies change in its own steps only.
LEMMA CopiesAreTheLoops ==
    ASSUME [Next]_vars
    PROVE  SchedulerRuns \/ UNCHANGED <<gpuStats, schedulerVars>>
BY DEF Next, vars, NvmlChanges, SetLimit, HandlerRuns, AllocateBegin,
       AllocateLook, AllocateCheck, AllocateSet, Release, IgnoreCheck, IgnoreSet,
       ResetBegin, ResetUnset, Clear, NoTable

\* Between passes there is no copy to use a GPU from.
Dropped == pc # "pass" => statsCopy = NoStats

LEMMA CopiesDropped == Spec => []Dropped
<1>1. Init => Dropped
  BY DEF Init, Dropped
<1>2. Dropped /\ [Next]_vars => Dropped'
  <2> SUFFICES ASSUME Dropped, [Next]_vars PROVE Dropped'
    OBVIOUS
  <2>1. CASE UNCHANGED <<pc, statsCopy>>
    BY <2>1 DEF Dropped
  <2>2. CASE SchedulerRuns
    BY <2>2 DEF SchedulerRuns, Boot, Refresh, CopyQueues, CopyIgnored, CopyStats, EndPass,
                Dropped
  <2>3. SchedulerRuns \/ UNCHANGED <<pc, statsCopy>>
    BY CopiesAreTheLoops DEF schedulerVars
  <2> QED BY <2>1, <2>2, <2>3
<1> QED BY <1>1, <1>2, PTL DEF Spec

\* What a pass has copied so far of an idle GPU, an ignored one, a lost one.
CopiedIdle(g, r, l) ==
    /\ pc \in {"queues", "ignored", "stats"} => gpuStats[g] = r
    /\ pc \in {"ignored", "stats", "pass"} => limitCopy = l
    /\ pc \in {"stats", "pass"} => g \notin ignoredCopy
    /\ pc = "pass" => statsCopy[g] = r

CopiedIgnored(g) == pc \in {"stats", "pass"} => g \in ignoredCopy

CopiedLost(g) ==
    /\ pc \in {"queues", "ignored", "stats"} => gpuStats[g] = Nil
    /\ pc = "pass" => statsCopy[g] = Nil

\* A GPU of the queue that is idle from the start of a pass on is offered by that
\* pass and by every later one: what IdleIsOffered asks for, but for the passes
\* themselves going round, which is fairness.
THEOREM EveryPassOffersTheIdle ==
  ASSUME NEW g \in Gpus, NEW r \in Readings, NEW l \in Limits, Unused(r), Meets(r, l)
  PROVE  Spec => [](pc = "refresh" /\ []Steady(g, r, l) => [](pc = "pass" => g \in Usable))
<1> DEFINE S == Steady(g, r, l)
           K == CopiedIdle(g, r, l)
           Offered == pc = "pass" => g \in Usable
           Start == pc = "refresh"
<1>1. Start => K
  BY DEF CopiedIdle
<1>2. S /\ K /\ [Next]_vars => K'
  <2> SUFFICES ASSUME S, K, [Next]_vars PROVE K'
    OBVIOUS
  <2>1. CASE UNCHANGED <<gpuStats, schedulerVars>>
    BY <2>1 DEF CopiedIdle, schedulerVars
  <2>2. CASE Refresh
    <3>1. Refreshed[g] = r
      BY UnreadAssumption DEF Refreshed, Steady, Seen
    <3> QED BY <2>2, <3>1 DEF Refresh, CopiedIdle
  <2>3. CASE Boot \/ CopyQueues \/ CopyIgnored \/ CopyStats \/ EndPass
    BY <2>3 DEF Boot, CopyQueues, CopyIgnored, CopyStats, EndPass, CopiedIdle, Steady
  <2> QED BY <2>1, <2>2, <2>3, CopiesAreTheLoops DEF SchedulerRuns
<1>3. S /\ K => Offered
  <2>1. r # Nil /\ Qualifies(r, l)
    BY UnreadAssumption, IdleQualifies
  <2> QED BY <2>1 DEF Steady, CopiedIdle, Usable
<1> HIDE DEF S, K, Offered, Start
<1>4. Spec => [](Start /\ []S => []Offered)
  BY <1>1, <1>2, <1>3, PTL DEF Spec
<1> QED BY <1>4 DEF S, Offered, Start

\* A GPU that is ignored from the start of a pass on is used by no pass any more,
\* whatever NVML does and whatever old statistics stay (scheduler.rs:106,
\* state.rs:346): the safety part of IgnoredGoesUnused.
THEOREM NoPassUsesTheIgnored ==
  ASSUME NEW g \in Gpus
  PROVE  Spec => [](pc = "refresh" /\ [](g \in ignored) => [](g \notin Usable))
<1> DEFINE S == g \in ignored
           K == CopiedIgnored(g)
           Out == g \notin Usable
           Start == pc = "refresh"
<1>1. Start => K
  BY DEF CopiedIgnored
<1>2. S /\ K /\ [Next]_vars => K'
  <2> SUFFICES ASSUME S, K, [Next]_vars PROVE K'
    OBVIOUS
  <2>1. CASE UNCHANGED <<gpuStats, schedulerVars>>
    BY <2>1 DEF CopiedIgnored, schedulerVars
  <2>2. CASE SchedulerRuns
    BY <2>2 DEF SchedulerRuns, Boot, Refresh, CopyQueues, CopyIgnored, CopyStats, EndPass,
                CopiedIgnored
  <2> QED BY <2>1, <2>2, CopiesAreTheLoops
<1>3. Dropped /\ K => Out
  BY DEF Dropped, NoStats, CopiedIgnored, Usable
<1> HIDE DEF S, K, Out, Start
<1>4. Spec => [](Start /\ []S => []Out)
  BY <1>1, <1>2, <1>3, CopiesDropped, PTL DEF Spec
<1> QED BY <1>4 DEF S, Out, Start

\* A GPU that NVML no longer counts from the start of a pass on is used by no pass
\* any more: its last reading goes with the refresh (state.rs:346): the safety part
\* of LostGoesUnused.
THEOREM NoPassUsesTheLost ==
  ASSUME NEW g \in Gpus
  PROVE  Spec => [](pc = "refresh" /\ []Lost(g) => [](g \notin Usable))
<1> DEFINE S == Lost(g)
           K == CopiedLost(g)
           Out == g \notin Usable
           Start == pc = "refresh"
<1>1. Start => K
  BY DEF CopiedLost
<1>2. S /\ K /\ [Next]_vars => K'
  <2> SUFFICES ASSUME S, K, [Next]_vars PROVE K'
    OBVIOUS
  <2>1. CASE UNCHANGED <<gpuStats, schedulerVars>>
    BY <2>1 DEF CopiedLost, schedulerVars
  <2>2. CASE Refresh
    <3>1. Refreshed[g] = Nil
      BY DEF Refreshed, Lost
    <3> QED BY <2>2, <3>1 DEF Refresh, CopiedLost
  <2>3. CASE Boot \/ CopyQueues \/ CopyIgnored \/ CopyStats \/ EndPass
    BY <2>3 DEF Boot, CopyQueues, CopyIgnored, CopyStats, EndPass, CopiedLost
  <2> QED BY <2>1, <2>2, <2>3, CopiesAreTheLoops DEF SchedulerRuns
<1>3. Dropped /\ K => Out
  BY DEF Dropped, NoStats, CopiedLost, Usable
<1> HIDE DEF S, K, Out, Start
<1>4. Spec => [](Start /\ []S => []Out)
  BY <1>1, <1>2, <1>3, CopiesDropped, PTL DEF Spec
<1> QED BY <1>4 DEF S, Out, Start
=============================================================================
