SPECIFICATION FairSpec
CONSTANTS
    w1 = w1
    w2 = w2
    a1 = a1
    a2 = a2
    Workers <- TwoWorkers
    TicksPerMs = 2
    Epoch = 4
    Jumps <- BackAndForth
    Plans <- FivePlans
    Callers <- TwoCallers
    Sampler = w1
    Counters <- TwoCounters
    Histograms <- OneHistogram
    Gauges <- OneGauge
    Cumulative <- OneCumulative
    Reader <- Locking
    UnderLock <- Nothing
    Amounts <- OneOrThree
    Modulus = 4
INVARIANTS
    TypeOK
    TracksSystem
    DeltasAddUp
    SampleIsComplete
PROPERTIES
    Heals
    EveryoneGetsThrough
CHECK_DEADLOCK FALSE
