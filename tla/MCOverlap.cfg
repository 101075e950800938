CONSTANTS
    c1 = c1
    c2 = c2
    c3 = c3
    ChunkIds <- MCChunkIds
    MaxTs <- MCMaxTs
    Filters <- MCFilters
SYMMETRY Symmetry
SPECIFICATION Spec
INVARIANT TypeOK
INVARIANT ListedChunksCoverSpan
INVARIANT NoRecordMissed
\* mergeChunksToSpans returns once every boundary has been visited.
CHECK_DEADLOCK FALSE
