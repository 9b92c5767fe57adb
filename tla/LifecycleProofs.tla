-------------------------- MODULE LifecycleProofs --------------------------
(***************************************************************************)
(* Theorems about module Lifecycle, for any number of daemons, commands    *)
(* and crashes.  The inductive invariant adds to the properties what a     *)
(* socket, a connection and the history say of one another.                *)
(***************************************************************************)
EXTENDS Lifecycle, TLAPS

\* The path names a daemon that listens, a dead one (Stale), or nothing.
SocketListens == socket \in Daemons => Listening(socket)

\* A command waits as long as its connection is open.
ConnAsked ==
    \A c \in Clis : IF conns[c].at = "none" THEN conns[c].to = Nil ELSE Asking(c)

\* The history knows of every shutdown flag.
StopRecorded == \A d \in Daemons : daemons[d].stop => stopped

\* While nobody was stopped or crashed: no daemon is on its way out; a path that
\* is empty under a daemon that bound or saw it is about to be bound; and a lock
\* file, written or about to be, has a daemon.
RaceSound ==
    crashes = 0 /\ ~stopped =>
        /\ \A d \in Daemons : daemons[d].pc \notin {"leave", "exit"}
        /\ socket = Nil /\ (\E d \in Daemons : daemons[d].pc \in {"remove", "serve"})
               => \E e \in Daemons : daemons[e].pc = "bind"
        /\ lock \/ (\E c \in Clis : clis[c].pc = "write")
               => \E d \in Daemons : Alive(d)

IInv ==
    /\ TypeOK
    /\ SocketListens
    /\ StaleOnlyByCrash
    /\ ConnAsked
    /\ StopRecorded
    /\ RaceSound

-----------------------------------------------------------------------------

\* Where a command goes after its answer.
LEMMA AfterType ==
  ASSUME NEW c \in Clis, NEW answer
  PROVE  After(c, answer) \in {"clean", "drop", "done", "failed"}
  BY DEF After, AfterStart, AfterStop, AfterStatus, AfterRequest

LEMMA InitHolds == Init => IInv
  <1> SUFFICES ASSUME Init PROVE IInv
    OBVIOUS
  <1> USE DEF Init
  <1>1. TypeOK
    <2>1. Unborn \in Daemon /\ NoConn \in Conn
      BY DEF Unborn, NoConn, Daemon, Conn
    <2>2. [cmd |-> "none", pc |-> "done"] \in Cli
      BY DEF Cli
    <2>3. 0 \in 0 .. MaxCrashes
      BY CrashAssumption
    <2> QED
      BY <2>1, <2>2, <2>3 DEF TypeOK
  <1>2. SocketListens /\ StaleOnlyByCrash
    BY NilAssumption DEF SocketListens, StaleOnlyByCrash
  <1>3. ConnAsked
    BY NilAssumption DEF ConnAsked, NoConn
  <1>4. StopRecorded /\ RaceSound
    BY DEF StopRecorded, RaceSound, Unborn
  <1> QED
    BY <1>1, <1>2, <1>3, <1>4 DEF IInv

-----------------------------------------------------------------------------
(* Steps of a daemon leave commands and connections alone, except its end.  *)

LEMMA CliPartKept ==
  ASSUME IInv, UNCHANGED <<clis, conns>>
  PROVE  ConnAsked'
  BY DEF IInv, ConnAsked, Asking

LEMMA LookKeeps == ASSUME IInv, NEW d \in Daemons, Look(d) PROVE IInv'
  <1> USE DEF Look, Go, DaemonOnly, history
  <1>1. TypeOK'
    BY DEF IInv, TypeOK, Daemon
  <1>2. SocketListens' /\ StaleOnlyByCrash'
    BY NilAssumption DEF IInv, TypeOK, SocketListens, StaleOnlyByCrash, Listening, Daemon
  <1>3. ConnAsked'
    BY CliPartKept
  <1>4. StopRecorded'
    BY DEF IInv, TypeOK, StopRecorded, Daemon
  <1>5. RaceSound'
    BY NilAssumption DEF IInv, TypeOK, RaceSound, Alive, Daemon
  <1> QED
    BY <1>1, <1>2, <1>3, <1>4, <1>5 DEF IInv

LEMMA RemoveKeeps == ASSUME IInv, NEW d \in Daemons, Remove(d) PROVE IInv'
  <1> USE DEF Remove, Go, DaemonOnly, history
  <1>1. TypeOK'
    BY DEF IInv, TypeOK, Daemon
  <1>2. SocketListens' /\ StaleOnlyByCrash'
    BY NilAssumption DEF IInv, TypeOK, SocketListens, StaleOnlyByCrash, Listening, Daemon
  <1>3. ConnAsked'
    BY CliPartKept
  <1>4. StopRecorded'
    BY DEF IInv, TypeOK, StopRecorded, Daemon
  <1>5. RaceSound'
    BY NilAssumption DEF IInv, TypeOK, RaceSound, Alive, Daemon, StopRecorded, SocketListens, StaleOnlyByCrash, Listening
  <1> QED
    BY <1>1, <1>2, <1>3, <1>4, <1>5 DEF IInv

LEMMA BindKeeps == ASSUME IInv, NEW d \in Daemons, Bind(d) PROVE IInv'
  <1> USE DEF Bind, Go, DaemonOnly, history
  <1>1. TypeOK'
    BY DEF IInv, TypeOK, Daemon
  <1>2. SocketListens' /\ StaleOnlyByCrash'
    BY NilAssumption DEF IInv, TypeOK, SocketListens, StaleOnlyByCrash, Listening, Daemon
  <1>3. ConnAsked'
    BY CliPartKept
  <1>4. StopRecorded'
    BY DEF IInv, TypeOK, StopRecorded, Daemon
  <1>5. RaceSound'
    BY NilAssumption DEF IInv, TypeOK, RaceSound, Alive, Daemon, StopRecorded, SocketListens, StaleOnlyByCrash, Listening
  <1> QED
    BY <1>1, <1>2, <1>3, <1>4, <1>5 DEF IInv

LEMMA LeaveKeeps == ASSUME IInv, NEW d \in Daemons, Leave(d) PROVE IInv'
  <1> USE DEF Leave, Go, DaemonOnly, history
  <1>1. TypeOK'
    BY DEF IInv, TypeOK, Daemon
  <1>2. SocketListens' /\ StaleOnlyByCrash'
    BY NilAssumption DEF IInv, TypeOK, SocketListens, StaleOnlyByCrash, Listening, Daemon
  <1>3. ConnAsked'
    BY CliPartKept
  <1>4. StopRecorded'
    BY DEF IInv, TypeOK, StopRecorded, Daemon
  <1>5. RaceSound'
    BY NilAssumption DEF IInv, TypeOK, RaceSound, Alive, Daemon, StopRecorded, SocketListens, StaleOnlyByCrash, Listening
  <1> QED
    BY <1>1, <1>2, <1>3, <1>4, <1>5 DEF IInv

LEMMA CleanupKeeps == ASSUME IInv, NEW d \in Daemons, Cleanup(d) PROVE IInv'
  <1> USE DEF Cleanup, Go, DaemonOnly, history
  <1>1. TypeOK'
    BY DEF IInv, TypeOK, Daemon
  <1>2. SocketListens' /\ StaleOnlyByCrash'
    BY NilAssumption DEF IInv, TypeOK, SocketListens, StaleOnlyByCrash, Listening, Daemon
  <1>3. ConnAsked'
    BY CliPartKept
  <1>4. StopRecorded'
    BY DEF IInv, TypeOK, StopRecorded, Daemon
  <1>5. RaceSound'
    BY NilAssumption DEF IInv, TypeOK, RaceSound, Alive, Daemon
  <1> QED
    BY <1>1, <1>2, <1>3, <1>4, <1>5 DEF IInv

\* The end of a daemon cuts its connections: their clients are still asking.
LEMMA VanishKeeps ==
  ASSUME IInv, NEW d \in Daemons, Vanish(d), crashes' \in 0 .. MaxCrashes,
         crashes' >= crashes,
         \/ crashes' > 0
         \/ daemons[d].pc = "exit" /\ crashes' = crashes
  PROVE  IInv'
  <1>1. TypeOK'
    BY DEF Vanish, IInv, TypeOK, Daemon, Conn, Unborn
  <1>2. SocketListens' /\ StaleOnlyByCrash'
    BY NilAssumption, CrashAssumption
       DEF Vanish, IInv, TypeOK, SocketListens, StaleOnlyByCrash, Listening, Daemon, Unborn
  <1>3. ConnAsked'
    BY NilAssumption DEF Vanish, IInv, TypeOK, ConnAsked, Asking, Conn
  <1>4. StopRecorded'
    BY DEF Vanish, IInv, TypeOK, StopRecorded, Daemon, Unborn
  <1>5. RaceSound'
    <2> SUFFICES ASSUME crashes' = 0, ~stopped' PROVE FALSE
      BY DEF RaceSound
    <2>1. daemons[d].pc = "exit" /\ crashes = 0
      BY SMT
    <2>2. stopped' = stopped
      BY DEF Vanish
    <2>3. ~stopped
      BY <2>2, Zenon
    <2> QED
      BY <2>1, <2>3 DEF IInv, RaceSound
  <1> QED
    BY <1>1, <1>2, <1>3, <1>4, <1>5 DEF IInv

LEMMA ExitKeeps == ASSUME IInv, NEW d \in Daemons, ExitProcess(d) PROVE IInv'
  <1>1. crashes' \in 0 .. MaxCrashes /\ crashes' >= crashes
    BY CrashAssumption DEF ExitProcess, IInv, TypeOK
  <1> QED
    BY <1>1, VanishKeeps DEF ExitProcess

LEMMA CrashKeeps == ASSUME IInv, NEW d \in Daemons, Crash(d) PROVE IInv'
  <1>1. crashes' \in 0 .. MaxCrashes /\ crashes' > 0 /\ crashes' >= crashes
    BY CrashAssumption DEF Crash, IInv, TypeOK
  <1> QED
    BY <1>1, VanishKeeps DEF Crash

LEMMA DaemonKeeps == ASSUME IInv, NEW d \in Daemons, DaemonStep(d) \/ Crash(d) PROVE IInv'
  BY LookKeeps, RemoveKeeps, BindKeeps, LeaveKeeps, CleanupKeeps, ExitKeeps, CrashKeeps
     DEF DaemonStep

-----------------------------------------------------------------------------
(* Steps of a connection: the daemons keep their places.                    *)

\* What the daemons' places and the files decide, without commands.
LEMMA FilesKept ==
  ASSUME IInv, UNCHANGED <<lock, socket, crashes>>,
         \A d \in Daemons : daemons'[d].pc = daemons[d].pc,
         \A c \in Clis : clis'[c].pc = "write" => clis[c].pc = "write",
         stopped => stopped'
  PROVE  SocketListens' /\ StaleOnlyByCrash' /\ RaceSound'
  <1>1. SocketListens' /\ StaleOnlyByCrash'
    BY DEF IInv, SocketListens, StaleOnlyByCrash, Listening
  <1>2. RaceSound'
    <2> SUFFICES ASSUME crashes' = 0, ~stopped' PROVE RaceSound'
      BY DEF RaceSound
    <2>1. crashes = 0 /\ ~stopped
      OBVIOUS
    <2> QED
      BY <2>1 DEF IInv, RaceSound, Alive
  <1> QED
    BY <1>1, <1>2

\* Setting a shutdown flag moves no daemon.
LEMMA FlagMovesNone ==
  ASSUME daemons \in [Daemons -> Daemon], NEW x
  PROVE  LET after == [daemons EXCEPT ![x].stop = TRUE] IN
         /\ after \in [Daemons -> Daemon]
         /\ \A d \in Daemons : after[d].pc = daemons[d].pc
  <1> DEFINE after == [daemons EXCEPT ![x].stop = TRUE]
  <1>1. ASSUME NEW d \in Daemons
        PROVE  after[d] \in Daemon /\ after[d].pc = daemons[d].pc
    <2>1. daemons[d] \in Daemon
      OBVIOUS
    <2>2. after[d] = daemons[d] \/ after[d] = [daemons[d] EXCEPT !.stop = TRUE]
      OBVIOUS
    <2> QED
      BY <2>1, <2>2 DEF Daemon
  <1>2. after = [d \in Daemons |-> after[d]]
    OBVIOUS
  <1> QED
    BY <1>1, <1>2

\* A connection moves on; its command still waits for it.
LEMMA ConnKeeps == ASSUME IInv, NEW c \in Clis, ConnStep(c) PROVE IInv'
  <1> USE DEF IInv, TypeOK
  <1>1. CASE Accept(c)
    <2>1. TypeOK' /\ StopRecorded'
      BY <1>1 DEF Accept, history, Conn, StopRecorded
    <2>2. ConnAsked'
      BY <1>1 DEF Accept, ConnAsked, Asking, Conn
    <2>3. UNCHANGED <<lock, socket, daemons, clis, crashes, stopped>>
      BY <1>1 DEF Accept, history
    <2> QED
      BY <2>1, <2>2, <2>3, FilesKept
  <1>2. CASE HandleStop(c)
    <2>1. /\ daemons' \in [Daemons -> Daemon] /\ stopped' \in BOOLEAN
          /\ \A d \in Daemons : daemons'[d].pc = daemons[d].pc
      <3>1. CASE UNCHANGED <<daemons, stopped>>
        BY <3>1
      <3>2. CASE daemons' = [daemons EXCEPT ![conns[c].to].stop = TRUE] /\ stopped' = TRUE
        BY <3>2, FlagMovesNone
      <3> QED
        BY <1>2, <3>1, <3>2 DEF HandleStop
    <2>2. conns' \in [Clis -> Conn]
      BY <1>2 DEF HandleStop, Answer, Conn, Replies
    <2>3. UNCHANGED <<lock, socket, clis, crashes>> /\ (stopped => stopped')
      BY <1>2 DEF HandleStop
    <2>4. StopRecorded'
      BY <1>2 DEF HandleStop, StopRecorded, Daemon
    <2>5. ConnAsked'
      BY <1>2 DEF HandleStop, Answer, ConnAsked, Asking, Conn
    <2> QED
      BY <2>1, <2>2, <2>3, <2>4, <2>5, FilesKept
  <1>3. CASE HandleOther(c)
    <2> USE <1>3 DEF HandleOther, history
    <2>1. PICK reply \in Replies : Answer(c, reply)
      BY DEF StatusHandler, Replies
    <2> USE <2>1 DEF Answer
    <2>2. TypeOK' /\ StopRecorded'
      BY DEF Conn, StopRecorded
    <2>3. ConnAsked'
      BY DEF ConnAsked, Asking, Conn
    <2> QED
      BY <2>2, <2>3, FilesKept
  <1>4. CASE WriteReply(c)
    <2> USE <1>4 DEF WriteReply, history
    <2>1. TypeOK' /\ StopRecorded'
      BY DEF Conn, StopRecorded
    <2>2. ConnAsked'
      BY DEF ConnAsked, Asking, Conn
    <2> QED
      BY <2>1, <2>2, FilesKept
  <1> QED
    BY <1>1, <1>2, <1>3, <1>4 DEF ConnStep

-----------------------------------------------------------------------------
(* Steps of a command.                                                      *)

\* A step that only moves a command on, and none that waits or is about to write.
LEMMA StepKeeps ==
  ASSUME IInv, NEW c \in Clis, NEW pc, Step(c, pc), conns[c].at = "none",
         pc \in {"ask", "spawn", "clean", "drop", "verify", "done", "failed"},
         UNCHANGED <<socket, daemons, conns, history>>,
         lock' \in BOOLEAN,
         lock' => lock \/ clis[c].pc = "write"
  PROVE  IInv'
  <1> USE DEF IInv, TypeOK
  <1>1. TypeOK' /\ StopRecorded'
    BY DEF Step, history, Cli, AllCommands, StopRecorded
  <1>2. ConnAsked'
    BY NilAssumption DEF Step, history, ConnAsked, Asking, Cli
  <1>3. SocketListens' /\ StaleOnlyByCrash'
    BY DEF history, SocketListens, StaleOnlyByCrash, Listening
  <1>4. RaceSound'
    BY DEF Step, history, RaceSound, Alive, Cli
  <1> QED
    BY <1>1, <1>2, <1>3, <1>4

LEMMA BeginKeeps ==
  ASSUME IInv, NEW c \in Clis, NEW cmd \in AllCommands, Begin(c, cmd)
  PROVE  IInv'
  <1> USE DEF IInv, TypeOK
  <1>1. conns[c].at = "none"
    BY DEF Begin, Ended, ConnAsked, Asking
  <1>2. TypeOK' /\ StopRecorded'
    BY DEF Begin, CliOnly, history, Cli, StopRecorded
  <1>3. ConnAsked'
    BY <1>1 DEF Begin, CliOnly, history, ConnAsked, Asking, Cli
  <1>4. \A k \in Clis : clis'[k].pc = "write" => clis[k].pc = "write"
    BY DEF Begin, Cli
  <1>5. UNCHANGED <<lock, socket, daemons, crashes, stopped>>
    BY DEF Begin, CliOnly, history
  <1> QED
    BY <1>2, <1>3, <1>4, <1>5, FilesKept

\* A command that waits opens or closes its connection.
LEMMA ConnectKeeps == ASSUME IInv, NEW c \in Clis, Connect(c) PROVE IInv'
  <1> USE DEF IInv, TypeOK
  <1>1. TypeOK' /\ StopRecorded'
    BY DEF Connect, Reachable, history, Conn, StopRecorded
  <1>2. ConnAsked'
    BY DEF Connect, ConnAsked, Asking, Conn
  <1>3. UNCHANGED <<lock, socket, daemons, clis, crashes, stopped>>
    BY DEF Connect, history
  <1> QED
    BY <1>1, <1>2, <1>3, FilesKept

LEMMA ReceiveKeeps == ASSUME IInv, NEW c \in Clis, Receive(c) PROVE IInv'
  <1> USE DEF IInv, TypeOK
  <1>1. PICK answer : Close(c, answer)
    BY DEF Receive
  <1>2. After(c, answer) \in {"clean", "drop", "done", "failed"}
    BY AfterType
  <1>3. TypeOK' /\ StopRecorded'
    BY <1>1, <1>2 DEF Close, Step, NoConn, history, Cli, Conn, StopRecorded
  <1>4. ConnAsked'
    BY <1>1, <1>2 DEF Close, Step, NoConn, ConnAsked, Asking, Cli
  <1>5. \A k \in Clis : clis'[k].pc = "write" => clis[k].pc = "write"
    BY <1>1, <1>2 DEF Close, Step, Cli
  <1>6. UNCHANGED <<lock, socket, daemons, crashes, stopped>>
    BY <1>1 DEF Close, history
  <1> QED
    BY <1>3, <1>4, <1>5, <1>6, FilesKept

\* The daemon spawned is the one the lock file is written for.
LEMMA SpawnKeeps ==
  ASSUME IInv, NEW c \in Clis, NEW d \in Daemons, SpawnDaemon(c, d)
  PROVE  IInv'
  <1> USE DEF IInv, TypeOK
  <1>1. conns[c].at = "none"
    BY DEF SpawnDaemon, ConnAsked, Asking
  <1>2. TypeOK' /\ StopRecorded'
    BY DEF SpawnDaemon, Go, Step, history, Cli, Daemon, StopRecorded
  <1>3. ConnAsked'
    BY <1>1 DEF SpawnDaemon, Step, ConnAsked, Asking, Cli
  <1>4. SocketListens' /\ StaleOnlyByCrash'
    BY NilAssumption DEF SpawnDaemon, Go, Alive, history, SocketListens, StaleOnlyByCrash,
                         Listening, Daemon
  <1>5. RaceSound'
    BY DEF SpawnDaemon, Go, Alive, history, RaceSound, Daemon
  <1> QED
    BY <1>2, <1>3, <1>4, <1>5

LEMMA CliKeeps ==
  ASSUME IInv, NEW c \in Clis, CliStep(c) \/ Refuse(c) \/ SpawnFails(c)
  PROVE  IInv'
  <1> USE DEF CliOnly
  <1>1. CASE CheckLock(c)
    BY <1>1, StepKeeps DEF CheckLock, IInv, TypeOK, ConnAsked, Asking
  <1>2. CASE ConnectFails(c)
    BY <1>2, StepKeeps, AfterType DEF ConnectFails, IInv, TypeOK
  <1>3. CASE CleanLock(c)
    BY <1>3, StepKeeps DEF CleanLock, IInv, TypeOK, ConnAsked, Asking
  <1>4. CASE WriteLock(c)
    BY <1>4, StepKeeps DEF WriteLock, IInv, TypeOK, ConnAsked, Asking
  <1>5. CASE Refuse(c)
    BY <1>5, StepKeeps DEF Refuse, AfterStart, IInv, TypeOK
  <1>6. CASE SpawnFails(c)
    BY <1>6, StepKeeps DEF SpawnFails, IInv, TypeOK, ConnAsked, Asking
  <1>7. CASE Connect(c)
    BY <1>7, ConnectKeeps
  <1>8. CASE Receive(c)
    BY <1>8, ReceiveKeeps
  <1>9. CASE \E d \in Daemons : SpawnDaemon(c, d)
    BY <1>9, SpawnKeeps
  <1> QED
    BY <1>1, <1>2, <1>3, <1>4, <1>5, <1>6, <1>7, <1>8, <1>9 DEF CliStep

-----------------------------------------------------------------------------

LEMMA NextKeeps == IInv /\ [Next]_vars => IInv'
  <1> SUFFICES ASSUME IInv, [Next]_vars PROVE IInv'
    OBVIOUS
  <1>1. CASE UNCHANGED vars
    <2>1. UNCHANGED <<lock, socket, daemons, clis, conns, crashes, stopped>>
      BY <1>1 DEF vars, history
    <2> QED
      BY <2>1 DEF IInv, TypeOK, SocketListens, Listening, StaleOnlyByCrash, ConnAsked,
                  Asking, StopRecorded, RaceSound, Alive
  <1>2. CASE \E d \in Daemons : DaemonStep(d) \/ Crash(d)
    BY <1>2, DaemonKeeps
  <1>3. CASE \E c \in Clis : ConnStep(c) \/ CliStep(c) \/ Refuse(c) \/ SpawnFails(c)
    BY <1>3, ConnKeeps, CliKeeps
  <1>4. CASE \E c \in Clis : \E cmd \in Commands[c] : Begin(c, cmd)
    BY <1>4, CommandsAssumption, BeginKeeps
  <1> QED
    BY <1>1, <1>2, <1>3, <1>4 DEF Next

THEOREM InductiveInvariant == Spec => []IInv
  BY InitHolds, NextKeeps, PTL DEF Spec

\* Every variable keeps its type, whatever starts, stops and crashes.
THEOREM TypeCorrect == Spec => []TypeOK
  <1>1. IInv => TypeOK
    BY DEF IInv
  <1> QED
    BY <1>1, InductiveInvariant, PTL

\* Only a crash leaves a socket behind: every ordered end of start() and every
\* start that gives up is clean (daemon/mod.rs:30-38, :98).
THEOREM OrderedEndIsClean == Spec => []StaleOnlyByCrash
  <1>1. IInv => StaleOnlyByCrash
    BY DEF IInv
  <1> QED
    BY <1>1, InductiveInvariant, PTL

\* Any number of starts that overlap end with one daemon listening on the path,
\* as long as nobody stops one and none crashes.
THEOREM RacingStarts == Spec => []RacingStartsConverge
  <1>1. ASSUME IInv PROVE RacingStartsConverge
    <2> SUFFICES ASSUME crashes = 0, ~stopped, \A d \in Daemons : ~Starting(d),
                        lock \/ \E d \in Daemons : Alive(d)
                 PROVE  Reachable
      BY DEF RacingStartsConverge
    <2> USE <1>1 DEF IInv
    <2>1. PICK d \in Daemons : Alive(d)
      BY DEF RaceSound
    <2>2. daemons[d].pc = "serve"
      BY <2>1 DEF TypeOK, Daemon, RaceSound, Starting, Alive
    <2>3. socket # Nil
      BY <2>2 DEF RaceSound, Starting
    <2>4. socket # Stale
      BY DEF StaleOnlyByCrash
    <2> QED
      BY <2>3, <2>4 DEF TypeOK, SocketListens, Reachable
  <1> QED
    BY <1>1, InductiveInvariant, PTL
=============================================================================
