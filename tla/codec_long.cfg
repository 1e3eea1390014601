\* Blocks with a run of more than 256 bytes.
SPECIFICATION Spec
CONSTANTS
    Inputs <- LongBlocks
    Limits = {100}
INVARIANTS
    DecodeStaysInBlock
