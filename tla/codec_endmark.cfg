\* A delta decoded onto the block it was made against.
SPECIFICATION Spec
CONSTANTS
    Inputs <- ShortBlocks
    Limits = {100}
INVARIANTS
    RoundTrip
