SPECIFICATION FairSpec
CONSTANTS
    t1 = t1
    W = W
    R = R
    X = X
    p1 = p1
    g1 = g1
    c1 = c1
    c2 = c2
    Nil = Nil
    TaskIds = {t1}
    QueueNames = {W, R, X}
    WaitingQueue = W
    RunningQueue = R
    Pids = {p1}
    Gpus = {g1}
    GpuRequires = {1}
    UsableGpus <- AllGpus
    Faults = {"launch", "probe", "wait"}
    Clients = {c1, c2}
    Ops = {"submit", "run", "remove", "kill", "create", "move", "merge", "release"}
INVARIANTS
    Inv
    RunningIsWatched
    ExitInHand
    QueuesExist
    LifeSound
PROPERTIES
    NeverRewinds
    KillTakesEffect
    ExitIsRecorded
