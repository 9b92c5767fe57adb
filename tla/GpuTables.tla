----------------------------- MODULE GpuTables -----------------------------
(***************************************************************************)
(* The daemon's GPU tables: the statistics the scheduler refreshes before  *)
(* each pass, the GPUs a user ignores or allocates                         *)
(* (daemon/src/daemon/handlers/gpu_handler.rs), and the GPUs a pass finds  *)
(* usable for the running queue (scheduler.rs), the only queue that is     *)
(* given any.  Module Gavel takes the outcome of this module as any member *)
(* of UsableGpus.                                                          *)
(*                                                                         *)
(* A GPU's id is its index among the devices NVML counts.  NVML itself is  *)
(* the environment: it may fail, lose devices or fail to read one.  Memory *)
(* is in MB, as the code compares it.  An allocation entry without a queue *)
(* and a missing entry are both Nil here: only the counts that "daemon     *)
(* status" prints tell them apart.  The GPUs of a request are taken in any *)
(* order.                                                                  *)
(***************************************************************************)
EXTENDS Integers, FiniteSets

CONSTANTS
    NGpus,          \* the most devices NVML ever counts: a bound on a run
    Readings,       \* what a device may report: [free, total, usage]
    Limits,         \* the resource limits a client may set
    DefaultLimit,   \* ResourceLimit::default()
    QueueNames,     \* the queues a GPU may be allocated to
    Clients,        \* connections served at the same time
    Unreadable,     \* the reading of a device NVML fails to read
    Nil             \* None

Gpus == 0 .. NGpus - 1

ASSUME NGpusAssumption == NGpus \in Nat
ASSUME UnreadAssumption == Unreadable \notin Readings /\ Nil \notin Readings \cup QueueNames
ASSUME LimitAssumption == DefaultLimit \in Limits

\* Sizes, loads and required sizes are unsigned (monitor.rs, models.rs:52).
ASSUME NumbersAssumption ==
    /\ Readings \subseteq [free : Nat, total : Nat, usage : Nat]
    /\ \A l \in Limits : l.kind \in {"Ignore", "AbsoluteMb", "Percentage"} /\ l.value \in Nat

VARIABLES
    nvml,           \* the readings of the devices NVML counts, Nil if it fails
    gpuStats,       \* InnerDaemonState.gpu_stats
    ignored,        \* InnerDaemonState.ignored_gpus
    allocations,    \* InnerDaemonState.gpu_allocations
    ownGpus,        \* allocated_gpus of the running queue
    limit,          \* resource_limit of the running queue
    pc,             \* where the scheduler loop is
    limitCopy, ignoredCopy, statsCopy,      \* the pass's copies
    handlers        \* by client: the GPU request being handled

schedulerVars == <<pc, limitCopy, ignoredCopy, statsCopy>>
vars == <<nvml, gpuStats, ignored, allocations, ownGpus, limit, schedulerVars, handlers>>

-----------------------------------------------------------------------------
Devices == UNION {[0 .. n - 1 -> Readings \cup {Unreadable}] : n \in 0 .. NGpus}

NoStats == [g \in Gpus |-> Nil]

Seen(g) == nvml # Nil /\ g \in DOMAIN nvml

Handler == [op : {"idle", "allocate", "ignore", "reset"}, todo : SUBSET Gpus,
            gpu : Gpus \cup {Nil}, queue : QueueNames \cup {Nil},
            next : {"look", "check", "set", "clear"}]

Idle == [op |-> "idle", todo |-> {}, gpu |-> Nil, queue |-> Nil, next |-> "look"]

\* The daemon has bound its socket, and read nothing yet.
Init ==
    /\ nvml \in Devices \cup {Nil}
    /\ gpuStats = NoStats
    /\ ignored = {}
    /\ allocations = [g \in Gpus |-> Nil]
    /\ ownGpus = {}
    /\ limit = DefaultLimit
    /\ pc = "boot"
    /\ limitCopy = DefaultLimit /\ ignoredCopy = {} /\ statsCopy = NoStats
    /\ handlers = [c \in Clients |-> Idle]

\* The devices and their load change, NVML fails or recovers.
NvmlChanges ==
    /\ nvml' \in (Devices \cup {Nil}) \ {nvml}
    /\ UNCHANGED <<gpuStats, ignored, allocations, ownGpus, limit, schedulerVars, handlers>>

-----------------------------------------------------------------------------
(* The scheduler's side.                                                    *)

\* Mutant of Refreshed: statistics of devices no longer counted stay.
RefreshedKeepsLost ==
    [g \in Gpus |-> IF g \in ignored THEN Nil
                    ELSE IF ~Seen(g) \/ nvml[g] = Unreadable THEN gpuStats[g]
                    ELSE nvml[g]]

\* Mutant of Refreshed: a failed reading is stored like any other.
RefreshedUnread ==
    IF nvml = Nil THEN gpuStats
    ELSE [g \in Gpus |-> IF g \in ignored \/ ~Seen(g) THEN Nil ELSE nvml[g]]

\* update_all_gpu_stats: nothing changes when NVML fails, a device that cannot
\* be read keeps its last statistics.  The devices are read before the lock is
\* taken; a change in between is a change of nvml after this step.
Refreshed ==
    IF nvml = Nil THEN gpuStats
    ELSE [g \in Gpus |-> IF g \in ignored \/ ~Seen(g) THEN Nil
                         ELSE IF nvml[g] = Unreadable THEN gpuStats[g]
                         ELSE nvml[g]]

\* start: the only time a queue is given GPUs, those whose statistics were read.
Boot ==
    /\ pc = "boot"
    /\ gpuStats' = Refreshed
    /\ ownGpus' = {g \in Gpus : Refreshed[g] # Nil}
    /\ pc' = "refresh"
    /\ UNCHANGED <<nvml, ignored, allocations, limit, limitCopy, ignoredCopy, statsCopy, handlers>>

Refresh ==
    /\ pc = "refresh"
    /\ gpuStats' = Refreshed
    /\ pc' = "queues"
    /\ UNCHANGED <<nvml, ignored, allocations, ownGpus, limit, limitCopy, ignoredCopy,
                   statsCopy, handlers>>

CopyQueues ==
    /\ pc = "queues"
    /\ limitCopy' = limit
    /\ pc' = "ignored"
    /\ UNCHANGED <<nvml, gpuStats, ignored, allocations, ownGpus, limit, ignoredCopy,
                   statsCopy, handlers>>

CopyIgnored ==
    /\ pc = "ignored"
    /\ ignoredCopy' = ignored
    /\ pc' = "stats"
    /\ UNCHANGED <<nvml, gpuStats, ignored, allocations, ownGpus, limit, limitCopy,
                   statsCopy, handlers>>

CopyStats ==
    /\ pc = "stats"
    /\ statsCopy' = gpuStats
    /\ pc' = "pass"
    /\ UNCHANGED <<nvml, gpuStats, ignored, allocations, ownGpus, limit, limitCopy,
                   ignoredCopy, handlers>>

\* The pass is over: its copies are dropped.
EndPass ==
    /\ pc = "pass"
    /\ pc' = "refresh"
    /\ limitCopy' = DefaultLimit /\ ignoredCopy' = {} /\ statsCopy' = NoStats
    /\ UNCHANGED <<nvml, gpuStats, ignored, allocations, ownGpus, limit, handlers>>

\* Mutant of Qualifies: a GPU that just meets its utilization limit is refused.
QualifiesBelow(reading, l) ==
    /\ \/ l.kind = "Ignore"
       \/ l.kind = "AbsoluteMb" /\ reading.free >= l.value
       \/ l.kind = "Percentage" /\ reading.total # 0
                                /\ 100 * reading.free >= l.value * reading.total
    /\ l.usage \in 0 .. 100 => reading.usage < l.usage

\* is_gpu_qualifying_for_queue.
Qualifies(reading, l) ==
    /\ \/ l.kind = "Ignore"
       \/ l.kind = "AbsoluteMb" /\ reading.free >= l.value
       \/ l.kind = "Percentage" /\ reading.total # 0
                                /\ 100 * reading.free >= l.value * reading.total
    /\ l.usage \in 0 .. 100 => reading.usage <= l.usage

\* Mutant of Usable: only the statistics are looked at.
UsableIgnored ==
    {g \in ownGpus : statsCopy[g] # Nil /\ Qualifies(statsCopy[g], limitCopy)}

\* available_gpus_for_queue, of the running queue.
Usable ==
    {g \in ownGpus \ ignoredCopy :
        statsCopy[g] # Nil /\ Qualifies(statsCopy[g], limitCopy)}

-----------------------------------------------------------------------------
(* The handlers.  None runs before the default queues are there.            *)

Accept(c) == pc # "boot" /\ handlers[c].op = "idle"

Becomes(c, h) == handlers' = [handlers EXCEPT ![c] = h]

\* The loop goes on with the next GPU, or the reply is sent.
Done(c, gpu) ==
    LET rest == handlers[c].todo \ {gpu} IN
    Becomes(c, IF rest = {} THEN Idle
               ELSE [handlers[c] EXCEPT !.todo = rest, !.gpu = Nil, !.next = "look"])

NoTable == UNCHANGED <<nvml, gpuStats, ignored, allocations, ownGpus, limit, schedulerVars>>

AllocateBegin(c, gpus, q) ==
    /\ Accept(c) /\ gpus # {}
    /\ Becomes(c, [Idle EXCEPT !.op = "allocate", !.todo = gpus, !.queue = q])
    /\ NoTable

\* Mutant of AllocateLook: an ignored GPU is allocated like any other.
AllocateUnseeing(c, gpu) ==
    /\ handlers[c].op = "allocate" /\ handlers[c].next = "look" /\ gpu \in handlers[c].todo
    /\ Becomes(c, [handlers[c] EXCEPT !.gpu = gpu, !.next = "check"])
    /\ NoTable

\* An ignored GPU is an error for the reply, and the next GPU's turn.
AllocateLook(c, gpu) ==
    /\ handlers[c].op = "allocate" /\ handlers[c].next = "look" /\ gpu \in handlers[c].todo
    /\ IF gpu \in ignored THEN Done(c, gpu)
       ELSE Becomes(c, [handlers[c] EXCEPT !.gpu = gpu, !.next = "check"])
    /\ NoTable

\* A GPU that has a queue keeps it, be it the one asked for or another.
AllocateCheck(c) ==
    /\ handlers[c].op = "allocate" /\ handlers[c].next = "check"
    /\ IF allocations[handlers[c].gpu] # Nil THEN Done(c, handlers[c].gpu)
       ELSE Becomes(c, [handlers[c] EXCEPT !.next = "set"])
    /\ NoTable

\* set_gpu_allocation does not look at what is there.
AllocateSet(c) ==
    /\ handlers[c].op = "allocate" /\ handlers[c].next = "set"
    /\ allocations' = [allocations EXCEPT ![handlers[c].gpu] = handlers[c].queue]
    /\ Done(c, handlers[c].gpu)
    /\ UNCHANGED <<nvml, gpuStats, ignored, ownGpus, limit, schedulerVars>>

\* The end of a release: the kills before it change none of these tables.
Release(c, gpu) ==
    /\ Accept(c)
    /\ allocations' = [allocations EXCEPT ![gpu] = Nil]
    /\ UNCHANGED <<nvml, gpuStats, ignored, ownGpus, limit, schedulerVars, handlers>>

\* Mutant of IgnoreCheck: a GPU that a queue holds is ignored all the same.
IgnoreCheckless(c, gpu) ==
    /\ Accept(c)
    /\ Becomes(c, [Idle EXCEPT !.op = "ignore", !.gpu = gpu, !.todo = {gpu}, !.next = "set"])
    /\ NoTable

\* A GPU that a queue holds must be released first.
IgnoreCheck(c, gpu) ==
    /\ Accept(c)
    /\ allocations[gpu] = Nil
    /\ Becomes(c, [Idle EXCEPT !.op = "ignore", !.gpu = gpu, !.todo = {gpu}, !.next = "set"])
    /\ NoTable

IgnoreSet(c) ==
    /\ handlers[c].op = "ignore" /\ handlers[c].next = "set"
    /\ ignored' = ignored \cup {handlers[c].gpu}
    /\ Becomes(c, [handlers[c] EXCEPT !.next = "clear"])
    /\ UNCHANGED <<nvml, gpuStats, allocations, ownGpus, limit, schedulerVars>>

\* The set is copied here and gone through without looking again.
ResetBegin(c) ==
    /\ Accept(c) /\ ignored # {}
    /\ Becomes(c, [Idle EXCEPT !.op = "reset", !.todo = ignored])
    /\ NoTable

ResetUnset(c, gpu) ==
    /\ handlers[c].op = "reset" /\ handlers[c].next = "look" /\ gpu \in handlers[c].todo
    /\ ignored' = ignored \ {gpu}
    /\ Becomes(c, [handlers[c] EXCEPT !.gpu = gpu, !.next = "clear"])
    /\ UNCHANGED <<nvml, gpuStats, allocations, ownGpus, limit, schedulerVars>>

\* An ignore and a reset both end by clearing the GPU's allocation.
Clear(c) ==
    /\ handlers[c].next = "clear"
    /\ allocations' = [allocations EXCEPT ![handlers[c].gpu] = Nil]
    /\ Done(c, handlers[c].gpu)
    /\ UNCHANGED <<nvml, gpuStats, ignored, ownGpus, limit, schedulerVars>>

\* queue set-limit, on the running queue.
SetLimit(l) ==
    /\ pc # "boot"
    /\ limit' = l
    /\ UNCHANGED <<nvml, gpuStats, ignored, allocations, ownGpus, schedulerVars, handlers>>

-----------------------------------------------------------------------------
SchedulerRuns ==
    Boot \/ Refresh \/ CopyQueues \/ CopyIgnored \/ CopyStats \/ EndPass

HandlerRuns(c) ==
    \/ \E gpus \in SUBSET Gpus, q \in QueueNames : AllocateBegin(c, gpus, q)
    \/ \E gpu \in Gpus :
          \/ AllocateLook(c, gpu)
          \/ Release(c, gpu)
          \/ IgnoreCheck(c, gpu)
          \/ ResetUnset(c, gpu)
    \/ AllocateCheck(c)
    \/ AllocateSet(c)
    \/ IgnoreSet(c)
    \/ ResetBegin(c)
    \/ Clear(c)

Next ==
    \/ NvmlChanges
    \/ SchedulerRuns
    \/ \E c \in Clients : HandlerRuns(c)
    \/ \E l \in Limits : SetLimit(l)

Spec == Init /\ [][Next]_vars

\* The runtime polls the scheduler loop; nothing else needs to move.
FairSpec == Spec /\ WF_vars(SchedulerRuns)

-----------------------------------------------------------------------------
(* Every variable keeps its shape (no code line of its own).                *)
GpuTypeOK ==
    /\ nvml \in Devices \cup {Nil}
    /\ gpuStats \in [Gpus -> Readings \cup {Nil}]
    /\ ignored \subseteq Gpus
    /\ allocations \in [Gpus -> QueueNames \cup {Nil}]
    /\ ownGpus \subseteq Gpus
    /\ limit \in Limits
    /\ pc \in {"boot", "refresh", "queues", "ignored", "stats", "pass"}
    /\ limitCopy \in Limits /\ ignoredCopy \subseteq Gpus
    /\ statsCopy \in [Gpus -> Readings \cup {Nil}]
    /\ handlers \in [Clients -> Handler]

\* A GPU that stays ignored is in the end used by no pass, even while NVML
\* fails and its old statistics stay in the table.
IgnoredGoesUnused ==
    \A g \in Gpus : <>[](g \in ignored) => <>[](g \notin Usable)

Lost(g) == nvml # Nil /\ ~Seen(g)

\* A GPU that NVML no longer counts is in the end used by no pass: a stale
\* reading does not keep it usable.
LostGoesUnused ==
    \A g \in Gpus : <>[]Lost(g) => <>[](g \notin Usable)

\* A device with nothing on it, and the limits such a device must satisfy.
Unused(r) == r.free = r.total /\ r.total # 0 /\ r.usage = 0

Meets(r, l) ==
    /\ l.kind = "AbsoluteMb" => l.value <= r.total
    /\ l.kind = "Percentage" => l.value <= 100

\* What a GPU that is to be offered has to be: there, idle and not ignored.
Steady(g, r, l) ==
    /\ Seen(g) /\ nvml[g] = r
    /\ limit = l
    /\ g \in ownGpus \ ignored

\* A GPU of the queue that stays idle is offered again and again, whatever was
\* ignored, reset, lost, unreadable or busy before, up to the very edge of the
\* queue's limit (struct.md:86).
IdleIsOffered ==
    \A g \in Gpus, r \in Readings, l \in Limits :
        Unused(r) /\ Meets(r, l) => (<>[]Steady(g, r, l) => []<>(g \in Usable))

-----------------------------------------------------------------------------
(* What the documentation or a comment says and the code does not do.       *)

AllAnswered == \A c \in Clients : handlers[c] = Idle

\* gpu_handler.rs:97, "is ignored and cannot be allocated", and :246, "must be
\* released before ignoring".
IgnoredNotAllocated == AllAnswered => \A g \in ignored : allocations[g] = Nil
=============================================================================
