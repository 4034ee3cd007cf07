\* A module, its registration, a command of every kind and one after it.
CONSTANTS
    ByteBits = 2
    F32 <- MCF32
    F64 <- MCF64
    PageSize = 2
    MaxPages = 2
    MaxIndex = 15
    MaxUint32 = 255
    Commands <- MCCommands
    Files <- MCFiles
SPECIFICATION Spec
INVARIANTS
    ScriptRoundTrip
    IndexesExist
    FunctionsAsDeclared
    SegmentsInBounds
PROPERTY
    StoreSpec
