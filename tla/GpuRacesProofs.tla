--------------------------- MODULE GpuRacesProofs ---------------------------
(***************************************************************************)
(* What overlapping GPU requests leave of GpuLedger, for any number of     *)
(* clients, GPUs and queues, with devices that come, go and fail.          *)
(***************************************************************************)
EXTENDS GpuRaces, GpuTablesProofs

\* What a request knows of the GPUs it has looked at, unless it was overtaken on
\* one: the GPU about to be given to a queue is not ignored, and has no queue once
\* that was checked; the one being ignored has no queue, nor has one that a reset
\* has yet to see, unless it was in doubt.
Knows(c) ==
    LET h == handlers[c] IN
    /\ h.op = "allocate" /\ h.next \in {"check", "set"}
       => h.gpu \notin ignored \/ h.gpu \in overtaken[c]
    /\ h.op = "allocate" /\ h.next = "set"
       => allocations[h.gpu] = Nil \/ h.gpu \in overtaken[c]
    /\ h.op = "ignore" => allocations[h.gpu] = Nil \/ h.gpu \in overtaken[c]
    /\ h.op = "reset" => \A g \in h.todo :
          allocations[g] = Nil \/ g \in doubtful \/ g \in overtaken[c]

RaceSound == IgnoredKeptApart /\ \A c \in Clients : Knows(c)

KeepsLedger ==
    \/ [Ledger!Next]_(Ledger!ledger)
    \/ \E g \in Gpus : Overrun(g)

LEMMA RacesAreRuns == RaceSpec => Spec
<1>1. RaceInit => Init
  BY DEF RaceInit
<1>2. [RaceNext]_raceVars => [Next]_vars
  BY DEF RaceNext, raceVars, vars, schedulerVars
<1> QED BY <1>1, <1>2, PTL DEF RaceSpec, Spec

LEMMA RaceInitSound == RaceInit => RaceSound
BY DEF RaceInit, Init, RaceSound, IgnoredKeptApart, Knows, Idle

-----------------------------------------------------------------------------
(* The history.                                                             *)

\* A GPU that the step leaves alone is as doubtful as before, one that it changes
\* for a request that was overtaken on it becomes so.
LEMMA DoubtKept ==
    ASSUME Record, NEW g \in Gpus, allocations'[g] # Nil,
           \/ g \in doubtful
           \/ \E c \in Clients : Acts(c) /\ g \in Changed \cap overtaken[c]
    PROVE  g \in doubtful'
BY DEF Record

\* Who does not act notes each change of a GPU that it has looked at.
LEMMA OvertakenNoted ==
    ASSUME Record, NEW d \in Clients, ~Acts(d), NEW g \in Looked(handlers[d]),
           g \in overtaken[d] \cup Changed
    PROVE  g \in overtaken'[d]
BY DEF Record, Acts

LEMMA OvertakenStays ==
    ASSUME Record, NEW c \in Clients, NEW g \in Looked(handlers'[c]), g \in overtaken[c]
    PROVE  g \in overtaken'[c]
BY DEF Record

\* Hence a request that is not moved on knows what it knew.
LEMMA BystanderKnows ==
    ASSUME GpuSound, Record, NEW d \in Clients, ~Acts(d), Knows(d)
    PROVE  Knows(d)'
<1>0. /\ handlers[d] \in Handler /\ HandlerSound(handlers[d]) /\ handlers'[d] = handlers[d]
  BY DEF GpuSound, GpuTypeOK, Acts
<1>1. \A g \in Gpus : g \notin Changed =>
         allocations'[g] = allocations[g] /\ (g \in ignored' <=> g \in ignored)
  BY DEF Changed
<1>2. \A g \in Looked(handlers[d]) : g \in overtaken[d] \cup Changed => g \in overtaken'[d]
  BY OvertakenNoted
<1>3. ASSUME handlers[d].op = "allocate", handlers[d].next \in {"check", "set"}
      PROVE  /\ handlers[d].gpu \notin ignored' \/ handlers[d].gpu \in overtaken'[d]
             /\ handlers[d].next = "set" =>
                   allocations'[handlers[d].gpu] = Nil \/ handlers[d].gpu \in overtaken'[d]
  <2>1. handlers[d].gpu \in Gpus /\ handlers[d].gpu \in Looked(handlers[d])
    BY <1>0, <1>3 DEF HandlerSound, Handler, Looked
  <2> QED BY <1>1, <1>2, <1>3, <2>1 DEF Knows
<1>4. ASSUME handlers[d].op = "ignore"
      PROVE  allocations'[handlers[d].gpu] = Nil \/ handlers[d].gpu \in overtaken'[d]
  <2>1. handlers[d].gpu \in Gpus /\ handlers[d].gpu \in Looked(handlers[d])
    BY <1>0, <1>4 DEF HandlerSound, Handler, Looked
  <2> QED BY <1>1, <1>2, <1>4, <2>1 DEF Knows
<1>5. ASSUME handlers[d].op = "reset", NEW g \in handlers[d].todo
      PROVE  allocations'[g] = Nil \/ g \in doubtful' \/ g \in overtaken'[d]
  <2>1. g \in Gpus /\ g \in Looked(handlers[d])
    BY <1>0, <1>5 DEF Handler, Looked
  <2> QED BY <1>1, <1>2, <1>5, <2>1, DoubtKept DEF Knows
<1> QED BY <1>0, <1>3, <1>4, <1>5 DEF Knows

\* A step that changes neither table for anybody leaves all of them apart.
LEMMA UnchangedApart ==
    ASSUME GpuSound, Record, IgnoredKeptApart, UNCHANGED <<ignored, allocations>>
    PROVE  IgnoredKeptApart' /\ KeepsLedger /\ Changed = {}
<1>1. ignored \subseteq Gpus
  BY DEF GpuSound, GpuTypeOK
<1>2. IgnoredKeptApart'
  BY <1>1, DoubtKept DEF IgnoredKeptApart
<1> QED BY <1>2 DEF KeepsLedger, Ledger!ledger, Changed

\* The request of c moves on to h: what is left to show is what h knows.
LEMMA OneActs ==
    ASSUME GpuSound, RaceSound, Record, NEW c \in Clients, NEW h \in Handler,
           HandlerSound(h), Becomes(c, h), IgnoredKeptApart',
           h.op = "allocate" /\ h.next \in {"check", "set"}
               => h.gpu \notin ignored' \/ h.gpu \in overtaken[c],
           h.op = "allocate" /\ h.next = "set"
               => allocations'[h.gpu] = Nil \/ h.gpu \in overtaken[c],
           h.op = "ignore" => allocations'[h.gpu] = Nil \/ h.gpu \in overtaken[c],
           h.op = "reset" => \A g \in h.todo :
               allocations'[g] = Nil \/ g \in doubtful' \/ g \in overtaken[c]
    PROVE  RaceSound'
<1>1. handlers'[c] = h /\ \A d \in Clients : d # c => handlers'[d] = handlers[d]
  BY BecomesSound
<1>2. \A d \in Clients : d # c => Knows(d)'
  BY <1>1, BystanderKnows DEF RaceSound, Acts
<1>3. \A g \in Looked(h) : g \in overtaken[c] => g \in overtaken'[c]
  BY <1>1, OvertakenStays
<1>4. /\ h.op = "allocate" /\ h.next \in {"check", "set"} => h.gpu \in Looked(h)
      /\ h.op = "ignore" => h.gpu \in Looked(h)
      /\ h.op = "reset" => Looked(h) = h.todo
  BY DEF HandlerSound, Looked
<1>5. Knows(c)'
  BY <1>1, <1>3, <1>4 DEF Knows
<1> QED BY <1>2, <1>5 DEF RaceSound

\* Nobody's request moves on: a release, NVML, the scheduler, a new limit.
LEMMA NobodyActs ==
    ASSUME GpuSound, RaceSound, Record, UNCHANGED handlers, IgnoredKeptApart'
    PROVE  RaceSound'
BY BystanderKnows DEF RaceSound, Acts

\* A request that only looks.
LEMMA LooksOnly ==
    ASSUME GpuSound, RaceSound, Record, NEW c \in Clients, NEW h \in Handler,
           HandlerSound(h), Becomes(c, h), UNCHANGED <<ignored, allocations>>,
           h.op = "allocate" /\ h.next \in {"check", "set"}
               => h.gpu \notin ignored \/ h.gpu \in overtaken[c],
           h.op = "allocate" /\ h.next = "set" => allocations[h.gpu] = Nil,
           h.op = "ignore" => allocations[h.gpu] = Nil,
           h.op = "reset" => h.todo = ignored
    PROVE  RaceSound' /\ KeepsLedger
<1>1. IgnoredKeptApart' /\ KeepsLedger
  BY UnchangedApart DEF RaceSound
<1>2. h.op = "reset" => \A g \in h.todo : allocations'[g] = Nil \/ g \in doubtful'
  BY <1>1 DEF IgnoredKeptApart
<1> QED BY <1>1, <1>2, OneActs

-----------------------------------------------------------------------------
(* The steps of a request.                                                  *)

LEMMA AllocateRaces ==
    ASSUME GpuSound, RaceSound, Record, NEW c \in Clients,
           \/ \E gpus \in SUBSET Gpus, q \in QueueNames : AllocateBegin(c, gpus, q)
           \/ \E gpu \in Gpus : AllocateLook(c, gpu)
           \/ AllocateCheck(c)
           \/ AllocateSet(c)
    PROVE  RaceSound' /\ KeepsLedger
<1>0. /\ handlers[c] \in Handler /\ HandlerSound(handlers[c]) /\ Knows(c)
      /\ ignored \subseteq Gpus
      /\ allocations \in [Gpus -> QueueNames \cup {Nil}]
  BY DEF GpuSound, GpuTypeOK, RaceSound
<1>1. ASSUME NEW gpus \in SUBSET Gpus, NEW q \in QueueNames, AllocateBegin(c, gpus, q)
      PROVE  RaceSound' /\ KeepsLedger
  <2> DEFINE h == [Idle EXCEPT !.op = "allocate", !.todo = gpus, !.queue = q]
  <2>1. Becomes(c, h) /\ gpus # {} /\ UNCHANGED <<ignored, allocations>>
    BY <1>1 DEF AllocateBegin, NoTable
  <2>2. h \in Handler /\ HandlerSound(h) /\ h.op = "allocate" /\ h.next = "look"
    BY <2>1 DEF Handler, HandlerSound, Idle
  <2> HIDE DEF h
  <2> QED BY <2>1, <2>2, LooksOnly
<1>2. ASSUME NEW gpu \in Gpus, AllocateLook(c, gpu) PROVE RaceSound' /\ KeepsLedger
  <2>0. /\ UNCHANGED <<ignored, allocations>> /\ handlers[c].op = "allocate"
        /\ handlers[c].next = "look" /\ gpu \in handlers[c].todo
    BY <1>2 DEF AllocateLook, NoTable
  <2>1. CASE gpu \in ignored
    <3>1. PICK h \in Handler : HandlerSound(h) /\ Becomes(c, h) /\ h.next = "look"
                               /\ h.op \in {"idle", "allocate"}
      BY <1>2, <2>0, <2>1, DoneSound DEF AllocateLook
    <3> QED BY <2>0, <3>1, LooksOnly
  <2>2. CASE gpu \notin ignored
    <3> DEFINE h == [handlers[c] EXCEPT !.gpu = gpu, !.next = "check"]
    <3>1. Becomes(c, h)
      BY <1>2, <2>2 DEF AllocateLook
    <3>2. /\ h \in Handler /\ HandlerSound(h) /\ h.op = "allocate"
          /\ h.next = "check" /\ h.gpu = gpu
      BY <1>0, <2>0 DEF Handler, HandlerSound, Idle
    <3> HIDE DEF h
    <3> QED BY <2>0, <2>2, <3>1, <3>2, LooksOnly
  <2> QED BY <2>1, <2>2
<1>3. ASSUME AllocateCheck(c) PROVE RaceSound' /\ KeepsLedger
  <2>0. /\ UNCHANGED <<ignored, allocations>> /\ handlers[c].op = "allocate"
        /\ handlers[c].next = "check" /\ handlers[c].gpu \in Gpus
    BY <1>0, <1>3 DEF AllocateCheck, NoTable, HandlerSound, Handler
  <2>1. CASE allocations[handlers[c].gpu] # Nil
    <3>1. PICK h \in Handler : HandlerSound(h) /\ Becomes(c, h) /\ h.next = "look"
                               /\ h.op \in {"idle", "allocate"}
      BY <1>3, <2>0, <2>1, DoneSound DEF AllocateCheck
    <3> QED BY <2>0, <3>1, LooksOnly
  <2>2. CASE allocations[handlers[c].gpu] = Nil
    <3> DEFINE h == [handlers[c] EXCEPT !.next = "set"]
    <3>1. Becomes(c, h)
      BY <1>3, <2>2 DEF AllocateCheck
    <3>2. /\ h \in Handler /\ HandlerSound(h) /\ h.op = "allocate"
          /\ h.gpu = handlers[c].gpu
      BY <1>0, <2>0 DEF Handler, HandlerSound, Idle
    <3>3. handlers[c].gpu \notin ignored \/ handlers[c].gpu \in overtaken[c]
      BY <1>0, <2>0 DEF Knows
    <3> HIDE DEF h
    <3> QED BY <2>0, <2>2, <3>1, <3>2, <3>3, LooksOnly
  <2> QED BY <2>1, <2>2
<1>4. ASSUME AllocateSet(c) PROVE RaceSound' /\ KeepsLedger
  <2> DEFINE gpu == handlers[c].gpu
             q == handlers[c].queue
  <2>0. /\ ignored' = ignored /\ handlers[c].op = "allocate" /\ handlers[c].next = "set"
        /\ allocations' = [allocations EXCEPT ![gpu] = q]
        /\ Done(c, gpu) /\ gpu \in Gpus /\ q \in QueueNames
    BY <1>0, <1>4 DEF AllocateSet, HandlerSound, Handler
  <2>1. PICK h \in Handler : HandlerSound(h) /\ Becomes(c, h) /\ h.next = "look"
                             /\ h.op \in {"idle", "allocate"}
    BY <2>0, DoneSound
  <2>2. Acts(c)
    BY <2>0, <2>1, BecomesSound DEF Acts
  <2>3. \/ gpu \in overtaken[c]
        \/ gpu \notin ignored /\ allocations[gpu] = Nil
    BY <1>0, <2>0 DEF Knows
  <2>4. allocations'[gpu] = q /\ \A g \in Gpus \ {gpu} : allocations'[g] = allocations[g]
    BY <1>0, <2>0
  <2>5. q # Nil
    BY UnreadAssumption, <2>0
  <2>6. IgnoredKeptApart'
    <3> SUFFICES ASSUME NEW g \in ignored', allocations'[g] # Nil PROVE g \in doubtful'
      BY DEF IgnoredKeptApart
    <3>1. g \in Gpus /\ g \in ignored
      BY <1>0, <2>0
    <3>2. CASE g # gpu
      BY <2>4, <3>1, <3>2, DoubtKept DEF RaceSound, IgnoredKeptApart
    <3>3. CASE g = gpu
      <4>1. gpu \in overtaken[c]
        BY <2>3, <3>1, <3>3
      <4>2. CASE allocations[gpu] = q
        BY <2>5, <3>1, <3>3, <4>2, DoubtKept DEF RaceSound, IgnoredKeptApart
      <4>3. CASE allocations[gpu] # q
        <5>1. g \in Changed
          BY <2>4, <3>1, <3>3, <4>3 DEF Changed
        <5> QED BY <2>2, <3>1, <3>3, <4>1, <5>1, DoubtKept
      <4> QED BY <4>2, <4>3
    <3> QED BY <3>2, <3>3
  <2>7. KeepsLedger
    <3>1. CASE gpu \notin ignored /\ allocations[gpu] = Nil
      <4>1. Ledger!Allocate(gpu, q)
        BY <2>0, <3>1 DEF Ledger!Allocate, Ledger!Free
      <4> QED BY <2>0, <4>1 DEF KeepsLedger, Ledger!Next
    <3>2. CASE gpu \in overtaken[c] /\ allocations[gpu] # q
      <4>1. Changed = {gpu}
        BY <2>0, <2>4, <3>2 DEF Changed
      <4> QED BY <2>0, <2>2, <3>2, <4>1 DEF KeepsLedger, Overrun
    <3>3. CASE allocations[gpu] = q
      <4>1. allocations' = allocations
        BY <1>0, <2>0, <3>3
      <4> QED BY <2>0, <4>1 DEF KeepsLedger, Ledger!ledger
    <3> QED BY <2>3, <3>1, <3>2, <3>3
  <2> QED BY <2>1, <2>6, <2>7, OneActs
<1> QED BY <1>1, <1>2, <1>3, <1>4

LEMMA ReleaseRaces ==
    ASSUME GpuSound, RaceSound, Record, NEW c \in Clients, NEW gpu \in Gpus, Release(c, gpu)
    PROVE  RaceSound' /\ KeepsLedger
<1>1. /\ ignored' = ignored /\ ignored \subseteq Gpus /\ handlers' = handlers
      /\ allocations' = [allocations EXCEPT ![gpu] = Nil]
      /\ allocations \in [Gpus -> QueueNames \cup {Nil}]
  BY DEF Release, GpuSound, GpuTypeOK
<1>2. IgnoredKeptApart'
  BY <1>1, DoubtKept DEF RaceSound, IgnoredKeptApart
<1>3. Ledger!Release(gpu)
  BY <1>1 DEF Ledger!Release
<1> QED BY <1>1, <1>2, <1>3, NobodyActs DEF KeepsLedger, Ledger!Next

LEMMA IgnoreRaces ==
    ASSUME GpuSound, RaceSound, Record, NEW c \in Clients,
           (\E gpu \in Gpus : IgnoreCheck(c, gpu)) \/ IgnoreSet(c)
    PROVE  RaceSound' /\ KeepsLedger
<1>0. /\ handlers[c] \in Handler /\ HandlerSound(handlers[c]) /\ Knows(c)
      /\ ignored \subseteq Gpus
  BY DEF GpuSound, GpuTypeOK, RaceSound
<1>1. ASSUME NEW gpu \in Gpus, IgnoreCheck(c, gpu) PROVE RaceSound' /\ KeepsLedger
  <2> DEFINE h == [Idle EXCEPT !.op = "ignore", !.gpu = gpu, !.todo = {gpu}, !.next = "set"]
  <2>1. Becomes(c, h) /\ allocations[gpu] = Nil /\ UNCHANGED <<ignored, allocations>>
    BY <1>1 DEF IgnoreCheck, NoTable
  <2>2. h \in Handler /\ HandlerSound(h) /\ h.op = "ignore" /\ h.gpu = gpu
    BY DEF Handler, HandlerSound, Idle
  <2> HIDE DEF h
  <2> QED BY <2>1, <2>2, LooksOnly
<1>2. ASSUME IgnoreSet(c) PROVE RaceSound' /\ KeepsLedger
  <2> DEFINE gpu == handlers[c].gpu
             h == [handlers[c] EXCEPT !.next = "clear"]
  <2>1. /\ Becomes(c, h) /\ gpu \in Gpus /\ handlers[c].op = "ignore"
        /\ handlers[c].next = "set" /\ ignored' = ignored \cup {gpu}
        /\ UNCHANGED allocations
    BY <1>0, <1>2 DEF IgnoreSet, HandlerSound, Handler
  <2>2. /\ h \in Handler /\ HandlerSound(h) /\ h.op = "ignore"
        /\ h.next = "clear" /\ h.gpu = gpu
    BY <1>0, <2>1 DEF Handler, HandlerSound, Idle
  <2>3. allocations[gpu] = Nil \/ gpu \in overtaken[c]
    BY <1>0, <2>1 DEF Knows
  <2> HIDE DEF h
  <2>4. Acts(c)
    BY <2>1, <2>2, BecomesSound DEF Acts
  <2>5. CASE gpu \in ignored
    <3>1. UNCHANGED <<ignored, allocations>>
      BY <2>1, <2>5
    <3>2. IgnoredKeptApart' /\ KeepsLedger
      BY <3>1, UnchangedApart DEF RaceSound
    <3> QED BY <2>1, <2>2, <2>3, <3>2, OneActs
  <2>6. CASE gpu \notin ignored
    <3>1. Changed = {gpu}
      BY <1>0, <2>1, <2>6 DEF Changed
    <3>2. IgnoredKeptApart'
      BY <1>0, <2>1, <2>3, <2>4, <3>1, DoubtKept DEF RaceSound, IgnoredKeptApart
    <3>3. KeepsLedger
      <4>1. CASE allocations[gpu] = Nil
        <5>1. Ledger!Ignore(gpu)
          BY <2>1, <2>6, <4>1 DEF Ledger!Ignore, Ledger!Free
        <5> QED BY <2>1, <5>1 DEF KeepsLedger, Ledger!Next
      <4>2. CASE gpu \in overtaken[c]
        BY <2>1, <2>4, <3>1, <4>2 DEF KeepsLedger, Overrun
      <4> QED BY <2>3, <4>1, <4>2
    <3> QED BY <2>1, <2>2, <2>3, <3>2, <3>3, OneActs
  <2> QED BY <2>5, <2>6
<1> QED BY <1>1, <1>2

LEMMA ResetRaces ==
    ASSUME GpuSound, RaceSound, Record, NEW c \in Clients,
           ResetBegin(c) \/ \E gpu \in Gpus : ResetUnset(c, gpu)
    PROVE  RaceSound' /\ KeepsLedger
<1>0. /\ handlers[c] \in Handler /\ HandlerSound(handlers[c]) /\ Knows(c)
      /\ ignored \subseteq Gpus
  BY DEF GpuSound, GpuTypeOK, RaceSound
<1>1. ASSUME ResetBegin(c) PROVE RaceSound' /\ KeepsLedger
  <2> DEFINE h == [Idle EXCEPT !.op = "reset", !.todo = ignored]
  <2>1. Becomes(c, h) /\ ignored # {} /\ UNCHANGED <<ignored, allocations>>
    BY <1>1 DEF ResetBegin, NoTable
  <2>2. /\ h \in Handler /\ HandlerSound(h) /\ h.op = "reset" /\ h.todo = ignored
    BY <1>0, <2>1 DEF Handler, HandlerSound, Idle
  <2> HIDE DEF h
  <2> QED BY <2>1, <2>2, LooksOnly
<1>2. ASSUME NEW gpu \in Gpus, ResetUnset(c, gpu) PROVE RaceSound' /\ KeepsLedger
  <2> DEFINE h == [handlers[c] EXCEPT !.gpu = gpu, !.next = "clear"]
  <2>1. /\ Becomes(c, h) /\ handlers[c].op = "reset" /\ gpu \in handlers[c].todo
        /\ ignored' = ignored \ {gpu} /\ UNCHANGED allocations
    BY <1>2 DEF ResetUnset
  <2>2. /\ h \in Handler /\ HandlerSound(h) /\ h.op = "reset" /\ h.todo = handlers[c].todo
    BY <1>0, <2>1 DEF Handler, HandlerSound, Idle
  <2> HIDE DEF h
  <2>3. IgnoredKeptApart'
    BY <1>0, <2>1, DoubtKept DEF RaceSound, IgnoredKeptApart
  <2>4. \A g \in h.todo : allocations'[g] = Nil \/ g \in doubtful' \/ g \in overtaken[c]
    BY <1>0, <2>1, <2>2, DoubtKept DEF Knows, Handler
  <2>5. Ledger!Restore(gpu)
    BY <2>1 DEF Ledger!Restore
  <2> QED BY <2>1, <2>2, <2>3, <2>4, <2>5, OneActs DEF KeepsLedger, Ledger!Next
<1> QED BY <1>1, <1>2

LEMMA ClearRaces ==
    ASSUME GpuSound, RaceSound, Record, NEW c \in Clients, Clear(c)
    PROVE  RaceSound' /\ KeepsLedger
<1> DEFINE gpu == handlers[c].gpu
<1>0. /\ handlers[c] \in Handler /\ HandlerSound(handlers[c]) /\ Knows(c)
      /\ ignored \subseteq Gpus
      /\ allocations \in [Gpus -> QueueNames \cup {Nil}]
  BY DEF GpuSound, GpuTypeOK, RaceSound
<1>1. /\ ignored' = ignored /\ handlers[c].next = "clear"
      /\ allocations' = [allocations EXCEPT ![gpu] = Nil]
      /\ Done(c, gpu) /\ gpu \in Gpus /\ gpu \in handlers[c].todo
      /\ handlers[c].op = "reset" \/ (handlers[c].op = "ignore" /\ Rest(c, gpu) = {})
  BY <1>0 DEF Clear, HandlerSound, Handler, Idle, Rest
<1>2. PICK h \in Handler :
         /\ HandlerSound(h) /\ Becomes(c, h) /\ h.next = "look"
         /\ h.op = "idle" \/ (h.op = handlers[c].op /\ h.todo = Rest(c, gpu))
  BY <1>1, DoneSound
<1>3. Acts(c) /\ (h.op = "ignore" => FALSE)
  BY <1>1, <1>2, BecomesSound DEF Acts, HandlerSound
<1>4. allocations'[gpu] = Nil /\ \A g \in Gpus \ {gpu} : allocations'[g] = allocations[g]
  BY <1>0, <1>1
<1>5. IgnoredKeptApart'
  BY <1>0, <1>1, <1>4, DoubtKept DEF RaceSound, IgnoredKeptApart
<1>6. h.op = "reset" => \A g \in h.todo :
         allocations'[g] = Nil \/ g \in doubtful' \/ g \in overtaken[c]
  BY <1>0, <1>1, <1>2, <1>4, DoubtKept DEF Knows, Rest, Handler
<1>7. KeepsLedger
  <2>1. CASE allocations[gpu] = Nil
    <3>1. allocations' = allocations
      BY <1>0, <1>1, <2>1
    <3> QED BY <1>1, <3>1 DEF KeepsLedger, Ledger!ledger
  <2>2. CASE allocations[gpu] # Nil
    <3>1. Changed = {gpu}
      BY <1>1, <1>4, <2>2 DEF Changed
    <3>2. gpu \in overtaken[c] \/ gpu \in doubtful
      BY <1>0, <1>1, <2>2 DEF Knows
    <3> QED BY <1>1, <1>3, <1>4, <3>1, <3>2 DEF KeepsLedger, Overrun
  <2> QED BY <2>1, <2>2
<1> QED BY <1>1, <1>2, <1>3, <1>5, <1>6, <1>7, OneActs

-----------------------------------------------------------------------------
LEMMA StepRaces ==
    ASSUME GpuSound, RaceSound, [RaceNext]_raceVars
    PROVE  RaceSound' /\ [KeepsLedger]_raceVars
<1>1. CASE UNCHANGED raceVars
  BY <1>1 DEF raceVars, vars, history, RaceSound, IgnoredKeptApart, Knows
<1>2. CASE Record /\ (NvmlChanges \/ SchedulerRuns \/ \E l \in Limits : SetLimit(l))
  <2>1. NoRequest
    BY <1>2 DEF NoRequest, NvmlChanges, SchedulerRuns, Boot, Refresh, CopyQueues,
                CopyIgnored, CopyStats, EndPass, SetLimit
  <2> QED BY <1>2, <2>1, UnchangedApart, NobodyActs DEF NoRequest, RaceSound
<1>3. ASSUME Record, NEW c \in Clients, HandlerRuns(c) PROVE RaceSound' /\ KeepsLedger
  BY <1>3, AllocateRaces, ReleaseRaces, IgnoreRaces, ResetRaces, ClearRaces DEF HandlerRuns
<1> QED BY <1>1, <1>2, <1>3 DEF RaceNext, Next

\* What a request knows is out of date only where it has been overtaken.
LEMMA RacesStaySound == RaceSpec => []RaceSound
<1>1. GpuSound /\ RaceSound /\ [RaceNext]_raceVars => RaceSound'
  BY StepRaces
<1> QED BY <1>1, RaceInitSound, RacesAreRuns, TablesKeepShape, PTL DEF RaceSpec

\* However many clients allocate, release, ignore and reset GPUs at once, a GPU is
\* both ignored and a queue's only after a request acted on it that another had
\* overtaken there (gpu_handler.rs:96-125, :244-258, :272-288).
THEOREM IgnoredStayApart == RaceSpec => []IgnoredKeptApart
<1>1. RaceSound => IgnoredKeptApart
  BY DEF RaceSound
<1> QED BY <1>1, RacesStaySound, PTL

\* However many clients there are, every step of the tables is one step of
\* GpuLedger, unless its request has been overtaken on the one GPU it changes, or
\* a reset clears one that such a request left in doubt.
THEOREM LedgerKeptApart == RaceSpec => LedgerKept
<1>1. GpuSound /\ RaceSound /\ [RaceNext]_raceVars => [KeepsLedger]_raceVars
  BY StepRaces
<1>2. RaceSpec => [][KeepsLedger]_raceVars
  BY <1>1, RacesStaySound, RacesAreRuns, TablesKeepShape, PTL DEF RaceSpec
<1> QED BY <1>2 DEF LedgerKept, KeepsLedger
=============================================================================
