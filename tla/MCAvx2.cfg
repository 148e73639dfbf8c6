CONSTANTS
    UINT32_MAX = 127
    kMaxFields = 6
    Chunk = 1
    Lane = 4
    Buffers <- SampleBuffers
    Streams <- SampleStreams
    Handed <- SampleBuffers
SPECIFICATION CallerSpec
INVARIANTS
    TypeOK
    VerdictStands
    PassOneFindsEverySoh
    AcceptsExactlyFrames
    StreamIsAwaited
PROPERTIES
    NumberNeverWraps
    LoadsStayInBuffer
    ImplementsContract
    EveryCallReturns
CHECK_DEADLOCK FALSE
