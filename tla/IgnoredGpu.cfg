SPECIFICATION RaceSpec
CONSTANTS
    R = R
    c1 = c1
    c2 = c2
    Unreadable = Unreadable
    Nil = Nil
    NGpus = 1
    Readings <- OneReading
    Limits <- TwoLimits
    DefaultLimit <- Unlimited
    QueueNames = {R}
    Clients = {c1, c2}
INVARIANTS
    IgnoredNotAllocated
