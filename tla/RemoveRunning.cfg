SPECIFICATION Spec
CONSTANTS
    t1 = t1
    W = W
    R = R
    p1 = p1
    c1 = c1
    Nil = Nil
    TaskIds = {t1}
    QueueNames = {W, R}
    WaitingQueue = W
    RunningQueue = R
    Pids = {p1}
    Gpus = {}
    GpuRequires = {0}
    UsableGpus <- AnyGpus
    Faults = {}
    Clients = {c1}
    Ops = {"submit", "remove"}
SYMMETRY Symmetry
PROPERTIES
    RunningNotRemoved
