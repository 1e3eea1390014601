\* Blocks of at most 256 bytes, with limits that refuse some of them.
SPECIFICATION Spec
CONSTANTS
    Inputs <- ShortBlocks
    Limits = {0, 2, 4, 5, 6, 300}
INVARIANTS
    TypeOK
    PrefixEncoded
    AnswerIsExact
    DecodesUntilStopped
PROPERTIES
    Terminates
