SPECIFICATION RaceFairSpec
CONSTANTS
    R = R
    X = X
    c1 = c1
    c2 = c2
    Unreadable = Unreadable
    Nil = Nil
    NGpus = 1
    Readings <- OneReading
    Limits <- TwoLimits
    DefaultLimit <- Unlimited
    QueueNames = {R, X}
    Clients = {c1, c2}
INVARIANTS
    GpuTypeOK
    IgnoredKeptApart
PROPERTIES
    LedgerKept
    IgnoredGoesUnused
    LostGoesUnused
    IdleIsOffered
