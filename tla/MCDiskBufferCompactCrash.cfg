SPECIFICATION Spec
CONSTANTS
    HeaderLen = 1
    BodyLens <- TwoBodies
    MaxFrameLen = 2
    MaxBytes = 5
    MaxFrames = 4
    MaxCrashes = 1
    MaxFaults = 0
    CrashPoints <- EveryPoint
    Tearing = FALSE
    Faults <- NoFaults
INVARIANTS
    NothingLost
CHECK_DEADLOCK FALSE
