SPECIFICATION FairSpec
CONSTANTS
    c1 = c1
    c2 = c2
    d1 = d1
    d2 = d2
    Nil = Nil
    Stale = Stale
    Daemons = {d1, d2}
    Clis = {c1, c2}
    Commands <- TwoUsers
    Faults = {"config", "lock"}
    MaxCrashes = 1
INVARIANTS
    TypeOK
    StaleOnlyByCrash
    RacingStartsConverge
PROPERTIES
    RequestReturns
    AcknowledgedStopEnds
    StartRecovers
