SPECIFICATION Spec
CONSTANTS
    HeaderLen = 1
    BodyLens <- Bodies
    MaxFrameLen = 6
    MaxBytes = 5
    MaxFrames = 4
    MaxCrashes = 1
    MaxFaults = 1
    CrashPoints <- OutsideCompaction
    Tearing = FALSE
    Faults <- CleanFaults
INVARIANTS
    TypeOK
    NothingLost
    OnlyWholeFrames
    ReaderAtReadPos
PROPERTIES
    AppendRespectsLimit
    ImplementsFrameLog
CHECK_DEADLOCK FALSE
