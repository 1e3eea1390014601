\* The table of allocations under any order of malloc, free and statistics.
SPECIFICATION Spec
CONSTANTS
    Pointers = {a, b, c, d, e}
    NULL = null
    MaxCap = 8
INVARIANTS
    TypeOK
    TableIsHeld
    FaultsOnlyAfterDrop
PROPERTIES
    TakesLowestSlot
