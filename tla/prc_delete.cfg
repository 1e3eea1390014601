\* Deletion from a page whose first blocks carry deltas.
SPECIFICATION Spec
CONSTANTS
    p1 = p1
    p2 = p2
    c1 = c1
    Pages <- TwoPages
    NumBlocks = 2
    PrcThres = 1
    Cells <- OneCell
    Sources <- OneSource
    Thresholds = {40}
    DeltaThres = {3, 5}
    PackedLen <- Lengths
    Aligned <- WholeBytes
    Reached <- Lossless
    LiteralSize = 5
    CopySize = 2
    MaxNodes = 2
INVARIANTS
    DeletionReadsBack
