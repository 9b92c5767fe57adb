------------------------------ MODULE MCGavel ------------------------------
(* Small instances of Gavel for TLC.                                        *)
EXTENDS Gavel, TLC

\* Tasks, processes, GPUs and clients are interchangeable: no definition tells
\* one from another.  Used for safety only.
Symmetry ==
    Permutations(TaskIds) \cup Permutations(Pids) \cup Permutations(Gpus)
        \cup Permutations(Clients)

\* Any set of GPUs may qualify at a pass.
AnyGpus == SUBSET Gpus

\* Every GPU qualifies at every pass.
AllGpus == {Gpus}
=============================================================================
