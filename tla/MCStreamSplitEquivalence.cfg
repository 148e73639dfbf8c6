CONSTANTS
    UINT32_MAX = 127
    kMaxFields = 6
    Lane = 4
    Buffers <- MCBuffers
    Corpora <- MCCorpora
SPECIFICATION SplitSpec
INVARIANTS
    Avx2MatchesScalar
CHECK_DEADLOCK FALSE
