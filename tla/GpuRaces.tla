------------------------------ MODULE GpuRaces ------------------------------
(***************************************************************************)
(* What requests that overlap leave of GpuLedger.  A GPU handler reads,    *)
(* decides and writes under separate locks (gpu_handler.rs:96-125,         *)
(* :244-258, :272-288) and daemon/mod.rs:73 serves every connection at     *)
(* once, so what a request has seen of a GPU may be out of date when it    *)
(* acts on it.                                                             *)
(*                                                                         *)
(* Every step is one of GpuTables with what it adds to two history         *)
(* variables: who has been overtaken, and on which GPUs such a request has *)
(* acted all the same.                                                     *)
(***************************************************************************)
EXTENDS GpuTables

VARIABLES
    overtaken,      \* by client: the GPUs of its request that another changed
    doubtful        \* the allocated GPUs on which an overtaken request acted

history == <<overtaken, doubtful>>
raceVars == <<vars, history>>

\* The GPUs that a request has looked at and is not through with.
Looked(h) ==
    IF h.op = "allocate" /\ h.next # "look" THEN {h.gpu}
    ELSE IF h.op \in {"ignore", "reset"} THEN h.todo
    ELSE {}

RaceInit ==
    /\ Init
    /\ overtaken = [c \in Clients |-> {}]
    /\ doubtful = {}

\* The GPUs that the step ignores, restores, allocates or takes from a queue.
Changed ==
    {g \in Gpus : (g \in ignored) # (g \in ignored') \/ allocations[g] # allocations'[g]}

\* The client whose request the step moves on; a release has nothing to remember.
Acts(c) == handlers'[c] # handlers[c]

Record ==
    /\ overtaken' = [c \in Clients |->
           (IF Acts(c) THEN overtaken[c] ELSE overtaken[c] \cup Changed)
               \cap Looked(handlers'[c])]
    /\ doubtful' = {g \in Gpus :
           /\ allocations'[g] # Nil
           /\ g \in doubtful \/ \E c \in Clients : Acts(c) /\ g \in Changed \cap overtaken[c]}

RaceNext == Next /\ Record

RaceSpec == RaceInit /\ [][RaceNext]_raceVars

RaceFairSpec == RaceSpec /\ WF_vars(SchedulerRuns)

-----------------------------------------------------------------------------
Ledger == INSTANCE GpuLedger WITH owner <- allocations

\* A GPU is ignored and a queue's at once only after a request acted on it that
\* another had overtaken: overlapping requests on other GPUs, batches, resets and
\* releases in any number never lead there (gpu_handler.rs:96, :244, :287).
IgnoredKeptApart == \A g \in ignored : allocations[g] # Nil => g \in doubtful

\* The GPU that a step may treat against the ledger: one that its request has been
\* overtaken on, or one that such a request has left in doubt and a reset clears.
Overrun(g) ==
    /\ Changed = {g}
    /\ \E c \in Clients : /\ Acts(c)
                          /\ g \in overtaken[c] \/ (g \in doubtful /\ allocations'[g] = Nil)

\* However many requests overlap, each step is one step of GpuLedger, unless it is
\* overrun: an allocation goes only to a free GPU and lasts until a release, only
\* a free GPU is ignored, a clearing takes nothing from a queue; and where requests
\* collide the harm stays with the GPU they collide on.
LedgerKept ==
    [][\/ [Ledger!Next]_(Ledger!ledger)
       \/ \E g \in Gpus : Overrun(g)]_raceVars
=============================================================================
