\* The documented answer of an update.
SPECIFICATION Spec
CONSTANTS
    p1 = p1
    p2 = p2
    c1 = c1
    Pages <- TwoPages
    NumBlocks = 2
    Cells <- OneCell
    Sources <- OneSource
    OldBuffers <- FullBuffer
    CompSizes = {7}
    Thresholds = {24}
    DeltaThres = {3, 5}
    StaleBytes = {20}
    PackedLen <- Lengths
    Aligned <- WholeBytes
    Reached <- Lossless
    SizeFloor = 16
    MaxNodes = 2
INVARIANTS
    UpdateReadsBack
