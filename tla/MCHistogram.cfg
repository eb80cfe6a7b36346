SPECIFICATION Spec
CONSTANTS
    o1 = o1
    o2 = o2
    Observers <- TwoObservers
    Values <- Observed
    Bounds <- TwoBounds
    Infinity = 9
    MaxObservations = 2
    MaxSamples = 1
INVARIANTS
    ExactWhenQuiet
    QuietSnapshotIsExact
    PointsGrow
SYMMETRY Alike
CHECK_DEADLOCK FALSE
