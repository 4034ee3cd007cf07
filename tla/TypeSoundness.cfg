\* Functions with up to three nested labels and operands of two types.
SPECIFICATION Spec
CONSTANTS
    I32 = I32
    I64 = I64
    ExceptRef = ExceptRef
    AnyType = AnyType
    Void = Void
    ValueTypes = {I32, I64}
    Opcodes <- MCOpcodes
    BlockTypes <- MCBlockTypes
    FuncTypes <- MCFuncTypes
    Results <- MCResults
    ExceptSigs <- MCExceptSigs
    MaxStack = 2
    MaxLabels = 3
INVARIANTS
    Sound
    LimitsNested
