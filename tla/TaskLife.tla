------------------------------ MODULE TaskLife ------------------------------
(***************************************************************************)
(* What the daemon promises about one task, as the user who submits it     *)
(* sees it: its phase in "task info", and how its process fares.  A task   *)
(* goes forward only, one task and one change at a time.                   *)
(*                                                                         *)
(*   New -> Waiting -> Running -> Finished or Failed -> Removed            *)
(*                                                                         *)
(* A task may be removed in any phase, and Finished may turn into Failed   *)
(* and back: its monitor and the scheduler's check for dead processes both *)
(* say how it ended.  Its process is launched at most once.                *)
(***************************************************************************)
CONSTANT TaskIds

VARIABLES
    phase,          \* by task: what "task info" shows
    outcome         \* by task: how its process fares

life == <<phase, outcome>>

Phases == {"New", "Waiting", "Running", "Finished", "Failed", "Removed"}
Outcomes == {"none", "alive", "succeeded", "failed"}

LifeTypeOK == phase \in [TaskIds -> Phases] /\ outcome \in [TaskIds -> Outcomes]

Init ==
    /\ phase = [t \in TaskIds |-> "New"]
    /\ outcome = [t \in TaskIds |-> "none"]

Become(t, from, to) ==
    /\ phase[t] \in from
    /\ phase' = [phase EXCEPT ![t] = to]
    /\ UNCHANGED outcome

Fare(t, from, to) ==
    /\ outcome[t] = from
    /\ outcome' = [outcome EXCEPT ![t] = to]
    /\ UNCHANGED phase

Submit(t) == Become(t, {"New"}, "Waiting")
Start(t) == Become(t, {"Waiting"}, "Running")
Finish(t) == outcome[t] = "succeeded" /\ Become(t, {"Running", "Failed"}, "Finished")
Fail(t) == Become(t, {"Running", "Finished"}, "Failed")
Remove(t) == Become(t, {"Waiting", "Running", "Finished", "Failed"}, "Removed")

\* The task may be removed while it is being launched.
Launch(t) == phase[t] \in {"Running", "Removed"} /\ Fare(t, "none", "alive")
Exit(t) == \E result \in {"succeeded", "failed"} : Fare(t, "alive", result)

Next ==
    \E t \in TaskIds :
        Submit(t) \/ Start(t) \/ Finish(t) \/ Fail(t) \/ Remove(t) \/ Launch(t) \/ Exit(t)

Spec == Init /\ [][Next]_life
=============================================================================
