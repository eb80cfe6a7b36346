SPECIFICATION Spec
CONSTANTS
    Chunks <- SomeChunks
    ApiKey <- SomeKey
    Service <- SomeService
    Source <- SomeSource
    Version = 100
    MaxEntries = 3
INVARIANTS
    ReadsBack
    PreEncodedAgrees
    Aligned
