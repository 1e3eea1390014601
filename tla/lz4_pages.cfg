\* Pages of up to three blocks, recompressed twice, against a window of 40 bytes.
SPECIFICATION Spec
CONSTANTS
    Pages <- AllPages
    Values <- AllValues
    Budgets = {20, 48, 400}
    HashWeights <- Weights
    HashSize = 8
    Window = 40
    Capacity = 64
    MaxEdits = 2
INVARIANTS
    TypeOK
    MatchInWindow
    TableIsBehind
    StaysInBudget
    ReadsBack
    CapacityDecides
    DecoderStaysInBlock
PROPERTIES
    Terminates
CHECK_DEADLOCK FALSE
