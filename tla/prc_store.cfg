\* Two buffers and pages of two blocks, recompressed from one to the other.
SPECIFICATION Spec
CONSTANTS
    p1 = p1
    p2 = p2
    c1 = c1
    Pages <- TwoPages
    NumBlocks = 2
    PrcThres = 1
    Cells <- OneCell
    Sources <- OneSource
    Thresholds = {12, 24}
    DeltaThres = {0, 3}
    PackedLen <- Lengths
    Aligned <- WholeBytes
    Reached <- Lossless
    LiteralSize = 4
    CopySize = 2
    MaxNodes = 2
INVARIANTS
    TypeOK
    PoolIsOwned
    OneDeltaPerBlock
    SizeIsExact
    AnswerIsBufferSize
PROPERTIES
    StoreSpec
SYMMETRY AnyPage
