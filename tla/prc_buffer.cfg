\* A budget smaller than the part of the page that is kept.
SPECIFICATION Spec
CONSTANTS
    p1 = p1
    p2 = p2
    c1 = c1
    Pages <- TwoPages
    NumBlocks = 2
    PrcThres = 1
    Cells <- OneCell
    Sources <- OneSource
    Thresholds = {20, 40}
    DeltaThres = {3, 5}
    PackedLen <- Lengths
    Aligned <- WholeBytes
    Reached <- Lossless
    LiteralSize = 5
    CopySize = 2
    MaxNodes = 2
INVARIANTS
    StaysInBuffer
