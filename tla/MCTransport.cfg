SPECIFICATION Spec
CONSTANTS
    HeaderLen = 2
    BodyLens <- Bodies
    BufferSize = 4
    MaxSends = 4
    MaxDials = 3
INVARIANTS
    TypeOK
    StreamIsFrames
PROPERTIES
    ImplementsFrameSender
CHECK_DEADLOCK FALSE
