SPECIFICATION Spec
CONSTANTS
    t1 = t1
    t2 = t2
    W = W
    R = R
    X = X
    p1 = p1
    p2 = p2
    c1 = c1
    Nil = Nil
    TaskIds = {t1, t2}
    QueueNames = {W, R, X}
    WaitingQueue = W
    RunningQueue = R
    Pids = {p1, p2}
    Gpus = {}
    GpuRequires = {0}
    UsableGpus <- AnyGpus
    Faults = {}
    Clients = {c1}
    Ops = {"submit"}
SYMMETRY Symmetry
INVARIANTS
    MaxConcurrentRespected
