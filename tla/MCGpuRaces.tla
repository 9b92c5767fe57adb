---------------------------- MODULE MCGpuRaces -----------------------------
(* A small instance of GpuTables with overlapping requests, for TLC.        *)
EXTENDS GpuRaces

\* A device with nothing on it.
NothingOn == [free |-> 100, total |-> 100, usage |-> 0]

\* The default limit, and the strictest a client can set.
Unlimited == [kind |-> "Ignore", value |-> 0, usage |-> -1]
AllFree == [kind |-> "Percentage", value |-> 100, usage |-> 0]

OneReading == {NothingOn}
TwoLimits == {Unlimited, AllFree}
=============================================================================
