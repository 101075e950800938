CONSTANTS
    c1 = c1
    c2 = c2
    c3 = c3
    ChunkIds <- MCChunkIds
    MaxTs <- MCMaxTs
    Filters <- MCFilters
SYMMETRY Symmetry
SPECIFICATION Spec
INVARIANT SpansDisjointOrdered
CHECK_DEADLOCK FALSE
