SPECIFICATION StreamSpec
CONSTANTS
    t1 = t1
    t2 = t2
    W = W
    R = R
    p1 = p1
    p2 = p2
    g1 = g1
    g2 = g2
    c1 = c1
    Nil = Nil
    TaskIds = {t1, t2}
    QueueNames = {W, R}
    WaitingQueue = W
    RunningQueue = R
    Pids = {p1, p2}
    Gpus = {g1, g2}
    GpuRequires = {1, 2}
    UsableGpus <- AllGpus
    Faults = {"launch"}
    Clients = {c1}
    Ops = {"submit", "remove", "priority"}
    Levels = {1, 2}
INVARIANTS
    NoInversion
    GpusGivenOnce

    
