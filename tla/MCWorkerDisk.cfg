SPECIFICATION Spec
CONSTANTS
    f1 = f1
    c1 = c1
    TrackKinds <- Events
    FlushRequests <- NoRequests
    CloseRequests <- NoRequests
    QueueCapacity = 1
    BatchSize = 2
    MaxRetries = 1
    DiskChoices <- Buffered
    FlushIntervals <- ZeroOrNot
    WalLimit = 1
    MaxPoints = 0
    MaxItems = 2
    MaxCrashes = 2
    MaxFaults = 1
INVARIANTS
    TypeOK
    Accounted
    SentOnceUnlessCrash
CHECK_DEADLOCK FALSE
