CONSTANTS
    UINT32_MAX = 127
    kMaxFields = 6
    Lane = 4
    Buffers <- MCBuffers
    Corpora <- MCCorpora
SPECIFICATION SplitSpec
INVARIANTS
    CutsBetweenMessages
    IndexNamesMessage
    GivesUpOnlyOnFallback
    AgreeOnAcceptance
    Avx2NeverWaitsAlone
PROPERTIES
    EveryPassEnds
CHECK_DEADLOCK FALSE
