------------------------------ MODULE Streams ------------------------------
(***************************************************************************)
(* The daemon of module Priorities under an endless stream of tasks.       *)
(*                                                                         *)
(* A run has finitely many ids, and a task is launched once, so with ids   *)
(* that are used up nobody can be passed over for ever.  Here an id that   *)
(* nothing remembers any more, because its task was removed and everybody  *)
(* who knew of it is through, is handed out again and stands for a fresh   *)
(* one: no definition tells ids apart.                                     *)
(***************************************************************************)
EXTENDS Priorities

Remembered(t) ==
    \/ Present(t) \/ t = curTask \/ t \in toUpdate
    \/ \E q \in QueueNames : t \in queues[q].waiting \cup queues[q].running \cup toProcess[q]
    \/ \E p \in Pids : <<t, p>> \in probing
    \/ \E c \in Clients : t \in handlers[c].todo
    \/ \E p \in Pids : /\ procs[p].task = t
                       /\ \/ Living(p) \/ procs[p].monitor # "Done"
                          \/ \E c \in Clients : handlers[c].pid = p

\* The task is history; its id and its process's are as good as new.
Forget(t) ==
    /\ t \in issued /\ ~Remembered(t)
    /\ issued' = issued \ {t}
    /\ procs' = [p \in Pids |-> IF procs[p].task = t THEN NoProcess ELSE procs[p]]
    /\ priority' = [priority EXCEPT ![t] = 0] /\ rank' = [rank EXCEPT ![t] = 0]
    /\ served' = served \ {t} /\ refused' = refused \ {t} /\ started' = started \ {t}
    /\ UNCHANGED <<handlers, schedulerVars, tables>>

StreamNext == OrderNext \/ \E t \in TaskIds : Forget(t)

StreamSpec == OrderInit /\ [][StreamNext]_orderVars /\ OrderFairness

-----------------------------------------------------------------------------
\* What a pass needs to start t from q, if the rest of the pass lets it.
Startable(t, q) ==
    /\ tasks[t].state = "Waiting" /\ tasks[t].queue = q
    /\ Eligible(q)
    /\ tasks[t].gpu_require <= Cardinality(AllocatedGpus(q))

\* Nobody who waits in q could come before t.
FirstInLine(t, q) ==
    \A u \in TaskIds \ {t} :
        tasks[u].state = "Waiting" /\ tasks[u].queue = q => priority[u] < priority[t]

=============================================================================
