CONSTANTS
    UINT32_MAX = 127
    kMaxFields = 6
    Chunk = 200
    Buffers <- LongBuffers
    Streams <- NoBuffers
    Handed <- LongBuffers
SPECIFICATION CallerSpec
INVARIANTS
    FrameWithinCap
CHECK_DEADLOCK FALSE
