CONSTANTS
    UINT32_MAX = 255
    kMaxFields = 6
    HeaderTags <- MCHeaderTags
    TrailerTags <- MCTrailerTags
    s1 = s1
    Sessions <- OneSession
    Buffers <- GroupBuffers
    MaxCalls = 1
SPECIFICATION Spec
INVARIANTS
    GroupsGoToStock
