SPECIFICATION Spec
CONSTANTS
    f1 = f1
    c1 = c1
    TrackKinds <- Events
    FlushRequests <- NoRequests
    CloseRequests <- OneClose
    QueueCapacity = 2
    BatchSize = 2
    MaxRetries = 1
    DiskChoices <- Buffered
    FlushIntervals <- NonZero
    WalLimit = 3
    MaxPoints = 0
    MaxItems = 2
    MaxCrashes = 0
    MaxFaults = 0
INVARIANTS
    ShutdownKeepsDisk
CHECK_DEADLOCK FALSE
