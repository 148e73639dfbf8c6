CONSTANTS
    UINT32_MAX = 255
    kMaxFields = 6
    HeaderTags <- MCHeaderTags
    TrailerTags <- MCTrailerTags
    s1 = s1
    Sessions <- OneSession
    Buffers <- MCBuffers
    MaxCalls = 2
SPECIFICATION Spec
INVARIANTS
    StatsAddUp
    TrueMeansParsed
    ReadsThisBufferOnly
PROPERTIES
    ImplementsService
    EveryCallReturns
