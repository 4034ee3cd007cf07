\* Two io vectors fit in the memory; loads return values at every boundary.
SPECIFICATION FairSpec
CONSTANTS
    WORD = 64
    MEMORY_SIZE = 40
    Numbers = {1, 54, 146}
    Args = {0, 16, 20, 24, 40, 60}
    Loads = {0, 1, 2, 7, 24, 39, 40, 41}
INVARIANTS
    OnlyKnownReturn
    ReadsInside
    PrintedCounted
PROPERTIES
    CallsEnd
