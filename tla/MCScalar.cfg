CONSTANTS
    UINT32_MAX = 127
    kMaxFields = 6
    Chunk = 1
    Buffers <- SampleBuffers
    Streams <- SampleStreams
    Handed <- SampleBuffers
SPECIFICATION CallerSpec
INVARIANTS
    TypeOK
    OkDelimitsFrame
    VerdictStands
    AcceptsExactlyFrames
PROPERTIES
    NumberNeverWraps
    ImplementsContract
    EveryCallReturns
CHECK_DEADLOCK FALSE
