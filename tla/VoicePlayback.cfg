SPECIFICATION FairSpec
CONSTANTS
    Chunks = 3
    MaxSources = 2
    MaxDrops = 1
    MaxFailures = 1
INVARIANTS
    TypeOK
    AppendedInOrder
    EndedComplete
PROPERTIES
    FallbackOnlyBeforeFirstChunk
    StreamEnds
\* The stream may be over, or the connection dead.
CHECK_DEADLOCK FALSE
