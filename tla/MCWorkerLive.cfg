SPECIFICATION FairSpec
CONSTANTS
    f1 = f1
    c1 = c1
    TrackKinds <- Events
    FlushRequests <- OneFlush
    CloseRequests <- OneClose
    QueueCapacity = 1
    BatchSize = 2
    MaxRetries = 1
    DiskChoices <- BufferedOrNot
    FlushIntervals <- ZeroOrNot
    WalLimit = 1
    MaxPoints = 3
    MaxItems = 3
    MaxCrashes = 0
    MaxFaults = 0
INVARIANTS
    AckCoversEarlier
    NoAckForgotten
    QueuesBounded
    EvictionsReported
PROPERTIES
    KindsStayInOrder
    ExitLosesOnlyTheChannel
    RequestsEnd
    EverythingLeaves
CHECK_DEADLOCK FALSE
