\* The example with pages of three blocks, and both modes of the latency test.
SPECIFICATION DriversSpec
CONSTANTS
    c1 = c1
    c2 = c2
    page = page
    newPage = newPage
    Pages <- TwoPages
    NumBlocks = 3
    PrcThres = 0
    Cells <- TwoCells
    Sources <- TwoSources
    Thresholds = {25}
    DeltaThres = {4}
    PackedLen <- Lengths
    Aligned <- NoneAligned
    Reached <- EndMarked
    LiteralSize = 4
    CopySize = 2
    MaxNodes = 3
    Edits = 4
    EditLimit = 4
    GenThres = 26
    DelStart = 1
    DelTotal = 1
    AmpleThres = 40
    Times = 3
INVARIANTS
    FailureAnnounced
    
    NothingLeft
    SameWorkEveryTime
PROPERTIES
    ProgramEnds
