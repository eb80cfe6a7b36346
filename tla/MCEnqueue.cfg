SPECIFICATION EnqueueSpec
CONSTANTS
    t1 = t1
    t2 = t2
    t3 = t3
    Senders <- ThreeThreads
    QueueCapacity = 1
    MayClose = TRUE
    MaxSends = 6
INVARIANTS
    OneReportPerSet
    FullIsReported
SYMMETRY Alike
CHECK_DEADLOCK FALSE
