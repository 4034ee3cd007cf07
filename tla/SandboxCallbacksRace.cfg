\* One thread calls indirectly while another exchanges the callback of the slot.
SPECIFICATION Spec
CONSTANTS
    t1 = t1
    t2 = t2
    c1 = c1
    c2 = c2
    sInt = sInt
    sPtr = sPtr
    sLong = sLong
    tyI32 = tyI32
    tyI64 = tyI64
    NULL = NULL
    Absent = Absent
    Sigs = {sInt, sPtr, sLong}
    Types = {tyI32, tyI64}
    WasmType <- MCWasmType
    Threads = {t1, t2}
    Callbacks = {c1, c2}
    Sig <- MCSig
    FUNC_TABLE_SIZE = 3
    ModuleTypes <- MCModuleTypes2
    ModuleTable <- MCModuleTable
    MaxDepth = 2
INVARIANTS
    IndirectCallTyped
