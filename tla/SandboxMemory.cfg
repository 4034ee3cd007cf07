\* A memory of 7 pages of 16 bytes in a word of 8 bits.
SPECIFICATION Spec
CONSTANTS
    HALF = 128
    PAGE_SIZE = 16
    GLOBAL_BASE = 16
    TOTAL_STACK = 32
    StaticBumps = {0, 8, 12, 24, 40}
    heap_base = 60
    MemoryBase = 40
    Args = {0, 1, 16, 59, 60, 111, 112, 127, 128, 129, 240, 255}
    HostAddresses = {0, 20, 40, 41, 100, 151, 152, 200}
INVARIANTS
    LayoutDisjoint
    PointersInside
PROPERTIES
    SbrkSound
