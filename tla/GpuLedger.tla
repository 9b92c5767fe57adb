----------------------------- MODULE GpuLedger -----------------------------
(***************************************************************************)
(* What the GPU commands promise their user: a GPU is owned by one queue,  *)
(* by none, or is ignored, and it changes hands only by the command that   *)
(* says so, one GPU at a time.                                             *)
(*                                                                         *)
(*   allocate: nobody's -> a queue's       release: a queue's -> nobody's  *)
(*   ignore: nobody's -> ignored           reset-ignored: and back         *)
(*                                                                         *)
(* To take a GPU from a queue it has to be released; to ignore it as well. *)
(***************************************************************************)
CONSTANTS Gpus, QueueNames, Nil

VARIABLES
    owner,          \* by GPU: the queue "gpu allocate" gave it to
    ignored         \* the GPUs "gpu ignore" has put aside

ledger == <<owner, ignored>>

Init ==
    /\ owner = [g \in Gpus |-> Nil]
    /\ ignored = {}

Free(g) == owner[g] = Nil /\ g \notin ignored

Allocate(g, q) ==
    /\ Free(g)
    /\ owner' = [owner EXCEPT ![g] = q]
    /\ UNCHANGED ignored

Release(g) ==
    /\ owner' = [owner EXCEPT ![g] = Nil]
    /\ UNCHANGED ignored

Ignore(g) ==
    /\ Free(g)
    /\ ignored' = ignored \cup {g}
    /\ UNCHANGED owner

Restore(g) ==
    /\ ignored' = ignored \ {g}
    /\ UNCHANGED owner

Next ==
    \E g \in Gpus :
        \/ \E q \in QueueNames : Allocate(g, q)
        \/ Release(g)
        \/ Ignore(g)
        \/ Restore(g)

Spec == Init /\ [][Next]_ledger
=============================================================================
