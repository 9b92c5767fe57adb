------------------------------ MODULE TaskIds ------------------------------
(***************************************************************************)
(* generate_task_id (submit_handler.rs): the second of the clock modulo    *)
(* 10^6 followed by two digits of a counter.  add_task replaces the task   *)
(* an id already names, so a repeated id loses a task.                     *)
(*                                                                         *)
(* The counter is taken and the clock read by any number of handlers at    *)
(* once; the order of the counters is the order of the ids here.  The wrap *)
(* of the 64-bit counter is out of reach and left out.                     *)
(***************************************************************************)
EXTENDS Integers, Sequences

CONSTANTS
    Times,          \* seconds the system clock may show
    MaxIds          \* ids handed out in a run: a bound

VARIABLES
    now,            \* the system clock, in seconds; it may be set back
    issuedAt        \* by value of the counter, from 1: when the id was made

vars == <<now, issuedAt>>

TaskId(secs, count) == (secs % 1000000) * 100 + (count % 100)

Init == now \in Times /\ issuedAt = <<>>

SetClock(time) ==
    /\ now' = time
    /\ UNCHANGED issuedAt

GenerateTaskId ==
    /\ Len(issuedAt) < MaxIds
    /\ issuedAt' = Append(issuedAt, now)
    /\ UNCHANGED now

Next == GenerateTaskId \/ \E time \in Times : SetClock(time)

Spec == Init /\ [][Next]_vars

\* The id that counter value i went into.
Id(i) == TaskId(issuedAt[i], i)

\* generate_task_id hands out "a unique task ID" (submit_handler.rs:14), whoever
\* submits and however many tasks a batch holds.
UniqueTaskIds == \A i, j \in 1 .. Len(issuedAt) : i # j => Id(i) # Id(j)

\* No more than a hundred submissions a second, by a clock that is not set back to
\* an earlier one's second, within 10^6 seconds (eleven days).
Paced ==
    \A i, j \in 1 .. Len(issuedAt) :
        j - i >= 100 =>
            issuedAt[i] < issuedAt[j] /\ issuedAt[j] < issuedAt[i] + 1000000

\* An id is repeated only a hundred submissions later, and only in a second that
\* is the same modulo 10^6 (submit_handler.rs:18-23).
RepeatsAreFarApart ==
    \A i, j \in 1 .. Len(issuedAt) :
        i < j /\ Id(i) = Id(j)
        => /\ j - i >= 100
           /\ issuedAt[i] % 1000000 = issuedAt[j] % 1000000
=============================================================================
