----------------------------- MODULE Lifecycle -----------------------------
(***************************************************************************)
(* Daemons coming and going under one socket path and one lock file:       *)
(* daemon/mod.rs (bind, accept, stop, clean up), core/rpc/mod.rs (one      *)
(* request, one reply, no timeout) and cli/daemon.rs (start, stop,         *)
(* status), with the other commands of the tool as single requests.        *)
(*                                                                         *)
(* Any number of commands run at once; a daemon may crash at any point and *)
(* then leaves its socket, the lock file and its tasks' processes behind.  *)
(* The daemon's tables are module Gavel's; a daemon that starts has empty  *)
(* ones, whatever earlier daemons launched.                                *)
(***************************************************************************)
EXTENDS Integers

CONSTANTS
    Daemons,        \* daemon processes alive at the same time: a bound on a run
    Clis,           \* command line processes alive at the same time
    Commands,       \* by process: the commands it may run
    Nil, Stale,     \* no socket; a socket left behind by a dead daemon
    Faults,         \* subset of {"config", "lock"}: what may fail in a command
    MaxCrashes      \* crashes in a run: a bound

ASSUME NilAssumption == Nil \notin Daemons /\ Stale \notin Daemons /\ Nil # Stale
ASSUME CrashAssumption == MaxCrashes \in Nat

VARIABLES
    lock,           \* the lock file exists; its content is never read
    socket,         \* the daemon whose listener the path names, Stale or Nil
    daemons,        \* by daemon: where it is in start(), and its shutdown flag
    clis,           \* by process: its command and where it is in it
    conns,          \* by process: its connection
    crashes,        \* number of crashes so far
    stopped         \* whether any daemon was ever asked to stop

history == <<crashes, stopped>>

vars == <<lock, socket, daemons, clis, conns, history>>

-----------------------------------------------------------------------------

DaemonCommands == {"start", "stop", "status"}

\* "request" is any other command: submit, task, queue or gpu.
AllCommands == DaemonCommands \cup {"request"}

\* "Ack" is whatever the command asked for: Message::Ack or a status.
Replies == {"Ack", "Error"}

ASSUME CommandsAssumption == \A c \in Clis : Commands[c] \subseteq AllCommands

Daemon ==
    [pc : {"look", "remove", "bind", "serve", "leave", "exit", "gone"},
     stop : BOOLEAN]

Cli ==
    [cmd : AllCommands \cup {"none"},
     pc : {"check", "ask", "clean", "drop", "spawn", "write", "verify", "done", "failed"}]

Conn ==
    [at : {"none", "queued", "accepted", "handled", "replied", "reset"},
     to : Daemons \cup {Nil}, reply : Replies \cup {"none"}]

Unborn == [pc |-> "gone", stop |-> FALSE]

NoConn == [at |-> "none", to |-> Nil, reply |-> "none"]

Alive(d) == daemons[d].pc # "gone"
Listening(d) == daemons[d].pc \in {"serve", "leave"}
Starting(d) == daemons[d].pc \in {"look", "remove", "bind"}
Ended(c) == clis[c].pc \in {"done", "failed"}

\* A client that connects now is queued; is accepted and answered.
Reachable == socket \in Daemons /\ Listening(socket)
Served == socket \in Daemons /\ daemons[socket].pc = "serve"

Init ==
    /\ lock = FALSE
    /\ socket = Nil
    /\ daemons = [d \in Daemons |-> Unborn]
    /\ clis = [c \in Clis |-> [cmd |-> "none", pc |-> "done"]]
    /\ conns = [c \in Clis |-> NoConn]
    /\ crashes = 0
    /\ stopped = FALSE

-----------------------------------------------------------------------------
(* The daemon: start(sock_path).                                            *)

Go(d, pc) == daemons' = [daemons EXCEPT ![d].pc = pc]

DaemonOnly == UNCHANGED <<lock, clis, conns, history>>

\* Mutant of Look: a socket left behind is not looked for.
LookAway(d) ==
    /\ daemons[d].pc = "look"
    /\ Go(d, "bind")
    /\ socket' = socket
    /\ DaemonOnly

Look(d) ==
    /\ daemons[d].pc = "look"
    /\ Go(d, IF socket = Nil THEN "bind" ELSE "remove")
    /\ socket' = socket
    /\ DaemonOnly

\* Whatever the path names is unlinked; if it has gone since, start fails.
Remove(d) ==
    /\ daemons[d].pc = "remove"
    /\ Go(d, IF socket = Nil THEN "gone" ELSE "bind")
    /\ socket' = Nil
    /\ DaemonOnly

\* Mutant of Bind: a path that was bound meanwhile is given up without a check
\* of the error: the daemon exits and takes the path with it.
BindUnlinks(d) ==
    /\ daemons[d].pc = "bind"
    /\ \/ /\ socket = Nil
          /\ socket' = d
          /\ Go(d, "serve")
       \/ /\ socket # Nil
          /\ socket' = Nil
          /\ Go(d, "gone")
    /\ DaemonOnly

\* Clients are queued from here on, while the tables are set up for the loop.
Bind(d) ==
    /\ daemons[d].pc = "bind"
    /\ \/ /\ socket = Nil
          /\ socket' = d
          /\ Go(d, "serve")
       \/ /\ socket # Nil
          /\ UNCHANGED socket
          /\ Go(d, "gone")
    /\ DaemonOnly

\* Mutant of Leave: the loop ends only once the path names another daemon.
LeaveDisplaced(d) ==
    /\ daemons[d].pc = "serve" /\ daemons[d].stop /\ socket # d
    /\ Go(d, "leave")
    /\ socket' = socket
    /\ DaemonOnly

\* The select loop sees the shutdown flag.
Leave(d) ==
    /\ daemons[d].pc = "serve" /\ daemons[d].stop
    /\ Go(d, "leave")
    /\ socket' = socket
    /\ DaemonOnly

\* Mutant of Cleanup: the socket stays behind.
CleanupForgotten(d) ==
    /\ daemons[d].pc = "leave"
    /\ Go(d, "exit")
    /\ socket' = socket
    /\ DaemonOnly

\* remove_file(sock_path): whichever daemon the path names by now.
Cleanup(d) ==
    /\ daemons[d].pc = "leave"
    /\ Go(d, "exit")
    /\ socket' = Nil
    /\ DaemonOnly

\* The process is gone: what was not answered is cut, a written reply stays
\* readable, a socket still named by the path answers no more.
Vanish(d) ==
    /\ daemons' = [daemons EXCEPT ![d] = Unborn]
    /\ socket' = IF socket = d THEN Stale ELSE socket
    /\ conns' = [c \in Clis |->
           IF conns[c].to # d THEN conns[c]
           ELSE [conns[c] EXCEPT !.to = Nil, !.at = IF @ = "replied" THEN @ ELSE "reset"]]
    /\ UNCHANGED <<lock, clis, stopped>>

\* main returns and the runtime is dropped with every handler still in it.
ExitProcess(d) ==
    /\ daemons[d].pc = "exit"
    /\ Vanish(d)
    /\ crashes' = crashes

\* Killed, or out of main with an error before start(), which leaves behind what a
\* kill does: nothing is cleaned up.
Crash(d) ==
    /\ crashes < MaxCrashes
    /\ Alive(d)
    /\ Vanish(d)
    /\ crashes' = crashes + 1

DaemonStep(d) ==
    Look(d) \/ Remove(d) \/ Bind(d) \/ Leave(d) \/ Cleanup(d) \/ ExitProcess(d)

-----------------------------------------------------------------------------
(* A connection's task: handle_connection.                                  *)

Accept(c) ==
    /\ conns[c].at = "queued"
    /\ daemons[conns[c].to].pc = "serve"
    /\ conns' = [conns EXCEPT ![c].at = "accepted"]
    /\ UNCHANGED <<lock, socket, daemons, clis, history>>

Answer(c, reply) == conns' = [conns EXCEPT ![c].at = "handled", ![c].reply = reply]

\* The flag's receiver lives until start() returns: after that, an error.
HandleStop(c) ==
    LET d == conns[c].to IN
    /\ conns[c].at = "accepted" /\ clis[c].cmd = "stop"
    /\ \/ /\ daemons[d].pc # "exit"
          /\ daemons' = [daemons EXCEPT ![d].stop = TRUE]
          /\ stopped' = TRUE
          /\ Answer(c, "Ack")
       \/ /\ daemons[d].pc = "exit"
          /\ UNCHANGED <<daemons, stopped>>
          /\ Answer(c, "Error")
    /\ UNCHANGED <<lock, socket, clis, crashes>>

\* status() counts what the tables hold; it does not fail.
StatusHandler == {"Ack"}

\* start asks for the status as well.
HandleOther(c) ==
    /\ conns[c].at = "accepted" /\ clis[c].cmd # "stop"
    /\ \E reply \in IF clis[c].cmd = "request" THEN Replies ELSE StatusHandler :
           Answer(c, reply)
    /\ UNCHANGED <<lock, socket, daemons, clis, history>>

WriteReply(c) ==
    /\ conns[c].at = "handled"
    /\ conns' = [conns EXCEPT ![c].at = "replied"]
    /\ UNCHANGED <<lock, socket, daemons, clis, history>>

ConnStep(c) == Accept(c) \/ HandleStop(c) \/ HandleOther(c) \/ WriteReply(c)

-----------------------------------------------------------------------------
(* The command line tool.                                                   *)

\* Of a process that has ended the exit status is left.
Step(c, pc) ==
    clis' = [clis EXCEPT ![c] =
                [cmd |-> IF pc \in {"done", "failed"} THEN "none" ELSE @.cmd, pc |-> pc]]

CliOnly == UNCHANGED <<lock, socket, daemons, conns, history>>

Begin(c, cmd) ==
    /\ Ended(c)
    /\ clis' = [clis EXCEPT ![c] = [cmd |-> cmd, pc |-> IF cmd = "start" THEN "check" ELSE "ask"]]
    /\ CliOnly

\* start: without a lock file nobody is asked.
CheckLock(c) ==
    /\ clis[c].pc = "check"
    /\ Step(c, IF lock THEN "ask" ELSE "spawn")
    /\ CliOnly

Asking(c) == clis[c].pc \in {"ask", "verify"}

\* Mutant of Connect: the path is enough, whoever listens there.
ConnectUnheard(c) ==
    /\ Asking(c) /\ conns[c].at = "none"
    /\ socket # Nil
    /\ conns' = [conns EXCEPT ![c] = [at |-> "queued", to |-> socket, reply |-> "none"]]
    /\ UNCHANGED <<lock, socket, daemons, clis, history>>

\* request_reply: the listener the path names queues the connection.
Connect(c) ==
    /\ Asking(c) /\ conns[c].at = "none"
    /\ Reachable
    /\ conns' = [conns EXCEPT ![c] = [at |-> "queued", to |-> socket, reply |-> "none"]]
    /\ UNCHANGED <<lock, socket, daemons, clis, history>>

\* handle_start after the status check, with what it ignores of the second.
AfterStart(c, answer) ==
    CASE clis[c].pc = "verify" -> "done"
      [] answer = "none" -> "clean"
      [] OTHER -> "done"

AfterStop(answer) ==
    CASE answer = "Ack" -> "clean"
      [] answer = "none" -> "drop"
      [] OTHER -> "failed"

\* An error reply to status is printed and counts as success.
AfterStatus(answer) == IF answer \in {"Ack", "Error"} THEN "done" ELSE "failed"

AfterRequest(answer) == IF answer = "Ack" THEN "done" ELSE "failed"

\* "none" stands for an Err of request_reply.
After(c, answer) ==
    CASE clis[c].cmd = "start" -> AfterStart(c, answer)
      [] clis[c].cmd = "stop" -> AfterStop(answer)
      [] clis[c].cmd = "status" -> AfterStatus(answer)
      [] OTHER -> AfterRequest(answer)

\* No socket, or one whose daemon is dead.
ConnectFails(c) ==
    /\ Asking(c) /\ conns[c].at = "none"
    /\ ~Reachable
    /\ Step(c, After(c, "none"))
    /\ CliOnly

Close(c, answer) ==
    /\ Step(c, After(c, answer))
    /\ conns' = [conns EXCEPT ![c] = NoConn]
    /\ UNCHANGED <<lock, socket, daemons, history>>

\* Mutant of Receive: a request that was cut is sent again.
ReceiveRetries(c) ==
    \/ conns[c].at = "replied" /\ Close(c, conns[c].reply)
    \/ /\ conns[c].at = "reset"
       /\ conns' = [conns EXCEPT ![c] = NoConn]
       /\ UNCHANGED <<lock, socket, daemons, clis, history>>

Receive(c) ==
    \/ conns[c].at = "replied" /\ Close(c, conns[c].reply)
    \/ conns[c].at = "reset" /\ Close(c, "none")

\* The config is missing or an argument is refused: no request is sent, and only
\* start goes on, to remove the lock file before it finds out for itself.
Refuse(c) ==
    /\ "config" \in Faults
    /\ Asking(c) /\ conns[c].at = "none"
    /\ Step(c, IF clis[c].cmd = "start" THEN AfterStart(c, "none") ELSE "failed")
    /\ CliOnly

\* The lock file is removed if it is there: by a start that got no answer, which
\* goes on whether or not it can remove it, by a stop that was acknowledged, which
\* fails if it cannot, and by one that got no answer and fails anyway.  exists() and
\* remove_file are one step: a file another command removes in between costs only an
\* acknowledged stop its exit status.
CleanLock(c) ==
    /\ clis[c].pc \in {"clean", "drop"}
    /\ \/ /\ lock' = FALSE
          /\ Step(c, CASE clis[c].cmd = "start" -> "spawn"
                      [] clis[c].pc = "clean" -> "done"
                      [] OTHER -> "failed")
       \/ /\ "lock" \in Faults /\ lock
          /\ lock' = lock
          /\ Step(c, IF clis[c].cmd = "start" THEN "spawn" ELSE "failed")
    /\ UNCHANGED <<socket, daemons, conns, history>>

\* No config file, no executable, or the process cannot be created.
SpawnFails(c) ==
    /\ "config" \in Faults
    /\ clis[c].pc = "spawn"
    /\ Step(c, "failed")
    /\ CliOnly

SpawnDaemon(c, d) ==
    /\ clis[c].pc = "spawn" /\ ~Alive(d)
    /\ Go(d, "look")
    /\ Step(c, "write")
    /\ UNCHANGED <<lock, socket, conns, history>>

\* Writing may fail: then the daemon runs without a lock file.
WriteLock(c) ==
    /\ clis[c].pc = "write"
    /\ \/ lock' = TRUE /\ Step(c, "verify")
       \/ "lock" \in Faults /\ lock' = lock /\ Step(c, "failed")
    /\ UNCHANGED <<socket, daemons, conns, history>>

CliStep(c) ==
    \/ CheckLock(c) \/ Connect(c) \/ ConnectFails(c) \/ Receive(c) \/ CleanLock(c)
    \/ \E d \in Daemons : SpawnDaemon(c, d)
    \/ WriteLock(c)

Next ==
    \/ \E d \in Daemons : DaemonStep(d) \/ Crash(d)
    \/ \E c \in Clis : ConnStep(c) \/ CliStep(c) \/ Refuse(c) \/ SpawnFails(c)
    \/ \E c \in Clis : \E cmd \in Commands[c] : Begin(c, cmd)

Spec == Init /\ [][Next]_vars

(***************************************************************************)
(* Daemons, their connection tasks and the commands run until they end; a  *)
(* client waits for its reply for ever.  Nobody has to begin a command.    *)
(***************************************************************************)
Fairness ==
    /\ \A d \in Daemons : WF_vars(DaemonStep(d))
    /\ \A c \in Clis : WF_vars(ConnStep(c)) /\ WF_vars(CliStep(c))

FairSpec == Spec /\ Fairness

-----------------------------------------------------------------------------
(* What must hold.                                                          *)

\* Every variable keeps its type: the places start() and the commands can be in.
TypeOK ==
    /\ lock \in BOOLEAN
    /\ socket \in Daemons \cup {Nil, Stale}
    /\ daemons \in [Daemons -> Daemon]
    /\ clis \in [Clis -> Cli]
    /\ conns \in [Clis -> Conn]
    /\ crashes \in 0 .. MaxCrashes
    /\ stopped \in BOOLEAN

\* A path that names a dead daemon was left by a crash: every ordered end of a
\* daemon, and every start that gives up, leaves either no socket or a live one
\* (daemon/mod.rs:98 removes it after the loop, :37 fails without binding).
StaleOnlyByCrash == socket = Stale => crashes > 0

\* However many starts overlap, each unlinking what the path names and binding
\* its own: once none of them is between its look and its bind, one listens on
\* the path, as long as no daemon was stopped or crashed (daemon/mod.rs:30-38).
RacingStartsConverge ==
    /\ crashes = 0 /\ ~stopped
    /\ \A d \in Daemons : ~Starting(d)
    /\ lock \/ \E d \in Daemons : Alive(d)
    => Reachable

\* request_reply has no timeout (core/rpc/mod.rs:29): a client gets its reply or
\* an error nevertheless, also when the daemon stops or crashes with the request
\* queued, half handled, or answered but not written.
RequestReturns == \A c \in Clis : Asking(c) ~> ~Asking(c)

StopAcknowledged(c, d) ==
    /\ clis[c].cmd = "stop" /\ conns[c].to = d
    /\ conns[c].at = "replied" /\ conns[c].reply = "Ack"

\* A stop whose Ack was written ends the daemon that acknowledged it, with any
\* number of connections still queued or being handled (daemon/mod.rs:86, :137).
AcknowledgedStopEnds ==
    \A d \in Daemons : (\E c \in Clis : StopAcknowledged(c, d)) ~> ~Alive(d)

\* Nobody stops a daemon, and none is on its way out.
Calm ==
    /\ \A d \in Daemons : ~daemons[d].stop
    /\ \A c \in Clis : clis[c].cmd # "stop"

OutOfDaemons(c) == clis[c].pc = "spawn" /\ \A d \in Daemons : Alive(d)

\* A start brings a reachable daemon about whatever it finds, a stale socket, a
\* stale lock file, none, a live daemon or other starts under way, unless it
\* reports failure, a daemon crashes again or somebody calls stop
\* (cli/daemon.rs:49-148 with daemon/mod.rs:30-37).
StartRecovers ==
    \A c \in Clis, k \in 0 .. MaxCrashes :
        (clis[c].cmd = "start" /\ clis[c].pc = "check" /\ Calm /\ crashes = k)
        ~> (Served \/ ~Calm \/ crashes > k \/ clis[c].pc = "failed" \/ OutOfDaemons(c))
=============================================================================
