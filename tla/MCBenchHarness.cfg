CONSTANTS
    Contents <- MCContents
    Generated <- MCGenerated
    MaxWrites = 2
    Repetitions = 2
    MaxIterations = 2
SPECIFICATION Spec
INVARIANTS
    TypeOK
    SameMessages
    ItemsWereProcessed
    ScannersReportWholeStreams
    RewritingKillsNobody
PROPERTIES
    EveryProcessEnds
