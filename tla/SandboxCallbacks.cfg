\* Two threads share a table that has a slot for one callback only.
SPECIFICATION FairSpec
CONSTANTS
    t1 = t1
    t2 = t2
    c1 = c1
    c2 = c2
    sInt = sInt
    sPtr = sPtr
    sLong = sLong
    tyI32 = tyI32
    tyI64 = tyI64
    NULL = NULL
    Absent = Absent
    Sigs = {sInt, sPtr, sLong}
    Types = {tyI32, tyI64}
    WasmType <- MCWasmType
    Threads = {t1, t2}
    Callbacks = {c1, c2}
    Sig <- MCSig
    FUNC_TABLE_SIZE = 3
    ModuleTypes <- MCModuleTypes
    ModuleTable <- MCModuleTable
    MaxDepth = 3
INVARIANTS
    HandleIntact
    SlotsOwned
PROPERTIES
    TypeIdsStable
    HeldIsCalled
    NoStuckCall
