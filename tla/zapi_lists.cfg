\* One page of three blocks: the delta list, its memory and t_size.
SPECIFICATION Spec
CONSTANTS
    p1 = p1
    p2 = p2
    c1 = c1
    Pages <- OnePage
    NumBlocks = 3
    Cells <- OneCell
    Sources <- OneSource
    OldBuffers <- FullBuffer
    CompSizes = {7}
    Thresholds = {12, 24}
    DeltaThres = {0, 5}
    StaleBytes = {20}
    PackedLen <- Lengths
    Aligned <- WholeBytes
    Reached <- Lossless
    SizeFloor = 12
    MaxNodes = 3
INVARIANTS
    TypeOK
    PoolIsOwned
    OneDeltaPerBlock
    SizeNeverOverstated
PROPERTIES
    SizeDriftsOnlyAtTombstones
