\* Every instruction that computes, from the ends and the special values of
\* its operands.  An instruction is executed once, and then nothing happens.
SPECIFICATION Spec
CONSTANTS
    ByteBits = 2
    F32 <- MCF32
    F64 <- MCF64
    Operands <- MCOperands
    Offsets <- MCOffsets
    ShuffleLanes <- MCShuffleLanes
    Memory <- MCMemory
INVARIANT EnginesAgree
INVARIANT ResultsCorrect
INVARIANT AccessesCorrect
INVARIANT InStep
CHECK_DEADLOCK FALSE
