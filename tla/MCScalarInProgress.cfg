CONSTANTS
    UINT32_MAX = 127
    kMaxFields = 6
    Chunk = 1
    Buffers <- NoBuffers
    Streams <- SampleStreams
    Handed <- NoBuffers
SPECIFICATION CallerSpec
INVARIANTS
    TruncatedIsInProgress
CHECK_DEADLOCK FALSE
