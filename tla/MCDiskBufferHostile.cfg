SPECIFICATION Spec
CONSTANTS
    HeaderLen = 2
    BodyLens <- TwoBodies
    MaxFrameLen = 2
    MaxBytes = 7
    MaxFrames = 3
    MaxCrashes = 1
    MaxFaults = 1
    CrashPoints <- EveryPoint
    Tearing = TRUE
    Faults <- AnyFault
INVARIANTS
    NoUnderflow
    ResentOnlyAfterTrouble
CHECK_DEADLOCK FALSE
