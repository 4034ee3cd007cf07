--------------------------- MODULE SandboxCallbacks ---------------------------
(***************************************************************************)
(* Callback registration and dispatch of one sandbox.                      *)
(*                                                                         *)
(* Host threads register callbacks with a sandbox (WasmSandbox in          *)
(* wasm_sandbox.h and wasm_sandbox.cpp), which stores a stub in the        *)
(* function table of the wasm runtime (wasm-rt-impl.cpp) and the real      *)
(* callback with its state in two maps.  Sandboxed code reaches a callback *)
(* through the CALL_INDIRECT macro of the generated C (wasm2c.c.tmpl),     *)
(* which reads the table without taking func_tables_mutex, and the stub    *)
(* then finds the callback by the slot left in CurrentIndirectCall.        *)
(*                                                                         *)
(* Every step below is one critical section, or one unlocked access of the *)
(* table that another thread can fall in front of or behind.               *)
(***************************************************************************)
EXTENDS Naturals, Sequences, FiniteSets

CONSTANTS
    Threads,         \* host threads
    Callbacks,       \* registrations: a host function with its state pointer
    Sigs,            \* C++ signatures: the <TRet, TArgs...> of callbackStub
    Types,           \* wasm function types
    WasmType,        \* getWasmType of the parts of a signature: its type
    Sig,             \* the signature of every callback
    FUNC_TABLE_SIZE, \* number of slots of the function table
    ModuleTypes,     \* the func_types of the generated module, in order
    ModuleTable,     \* the type of the module's element of a slot, or NULL
    MaxDepth,        \* bound: nesting of host and sandbox frames of a thread
    NULL,            \* the null pointer
    Absent           \* no entry in a std::map

Slots == 0 .. FUNC_TABLE_SIZE - 1

NoDuplicates(s) == \A i, j \in DOMAIN s : s[i] = s[j] => i = j

ASSUME ConstantsAssumption ==
    /\ FUNC_TABLE_SIZE \in Nat \ {0}
    /\ MaxDepth \in Nat
    /\ Sig \in [Callbacks -> Sigs]
    /\ WasmType \in [Sigs -> Types]
    /\ ModuleTypes \in Seq(Types)
    /\ NoDuplicates(ModuleTypes)
    /\ ModuleTable \in [Slots -> Types \cup {NULL}]
    /\ \A x \in Slots : ModuleTable[x] # NULL =>
           \E i \in DOMAIN ModuleTypes : ModuleTypes[i] = ModuleTable[x]

-----------------------------------------------------------------------------
(* The C functions a table slot can point to: a function of the module, the *)
(* instance of the callbackStub template for a signature, or a callback     *)
(* registered with registerInternalCallback, called without a stub.         *)
ModuleFunc(ty) == <<"module", ty>>
Stub(sig) == <<"stub", sig>>
Internal(c) == <<"internal", c>>
Funcs == ({"module"} \X Types) \cup ({"stub"} \X Sigs)
         \cup ({"internal"} \X Callbacks)

ASSUME NullAssumption ==
    /\ NULL # Absent
    /\ {NULL, Absent} \cap 
           (Threads \cup Callbacks \cup Types \cup Funcs \cup Nat) = {}

(* The type params and returns of registerCallback stand for.               *)
FuncType(c) == WasmType[Sig[c]]

VARIABLES
    g_func_types,          \* registered function types; an id is index
    tableFunc,             \* Z_envZ_table->data[x].func
    tableType,             \* Z_envZ_table->data[x].func_type
    func_tables_mutex,     \* its owner, or NULL
    registerCallbackMap,   \* slot to callback
    callbackStateMap,      \* slot to the state of the callback
    handle,                \* slot of the WasmSandboxCallback the host holds
    internalSlot,          \* slot returned by registerInternalCallback
    CurrentIndirectCall,   \* thread local: slot of the last CALL_INDIRECT
    depth,                 \* frames of a thread: even in the host, odd in wasm
    op,                    \* the runtime operation a thread is inside
    exit                   \* how the process ended

table == <<g_func_types, tableFunc, tableType, func_tables_mutex>>
maps == <<registerCallbackMap, callbackStateMap>>
held == <<handle, internalSlot>>
vars == <<table, maps, held, CurrentIndirectCall, depth, op, exit>>

PCs == {"idle", "register_func", "register_type", "register_map",
        "unregister_func", "unregister_type", "ci_type", "ci_call", "stub"}

Op == [pc : PCs, cb : Callbacks \cup {NULL}, internal : BOOLEAN,
       slot : Slots \cup {NULL}, ty : Nat, fn : Funcs \cup {NULL}]

Idle == [pc |-> "idle", cb |-> NULL, internal |-> FALSE, slot |-> NULL,
         ty |-> 0, fn |-> NULL]

TypeOK ==
    /\ g_func_types \in Seq(Types)
    /\ tableFunc \in [Slots -> Funcs \cup {NULL}]
    /\ tableType \in [Slots -> Nat]
    /\ func_tables_mutex \in Threads \cup {NULL}
    /\ registerCallbackMap \in [Slots -> Callbacks \cup {NULL, Absent}]
    /\ callbackStateMap \in [Slots -> Callbacks \cup {NULL, Absent}]
    /\ handle \in [Callbacks -> Slots \cup {NULL}]
    /\ internalSlot \in [Callbacks -> Slots \cup {NULL}]
    /\ CurrentIndirectCall \in [Threads -> Slots]
    /\ depth \in [Threads -> Nat]
    /\ op \in [Threads -> Op]
    /\ exit \in {"running", "abort", "trap", "segv"}

(* The id wasm_rt_register_func_type gives a type: its place in the array.  *)
TypeId(types, ty) == CHOOSE i \in DOMAIN types : types[i] = ty

IsRegistered(types, ty) == \E i \in DOMAIN types : types[i] = ty

(* wasm_init_module: the types and elements of the module are in place.     *)
Init ==
    /\ g_func_types = ModuleTypes
    /\ tableFunc = [x \in Slots |-> IF ModuleTable[x] = NULL THEN NULL
                                    ELSE ModuleFunc(ModuleTable[x])]
    /\ tableType = [x \in Slots |-> IF ModuleTable[x] = NULL THEN 0
                                    ELSE TypeId(ModuleTypes, ModuleTable[x])]
    /\ func_tables_mutex = NULL
    /\ registerCallbackMap = [x \in Slots |-> Absent]
    /\ callbackStateMap = [x \in Slots |-> Absent]
    /\ handle = [c \in Callbacks |-> NULL]
    /\ internalSlot = [c \in Callbacks |-> NULL]
    /\ CurrentIndirectCall = [t \in Threads |-> 0]
    /\ depth = [t \in Threads |-> 0]
    /\ op = [t \in Threads |-> Idle]
    /\ exit = "running"

InHost(t) == exit = "running" /\ op[t].pc = "idle" /\ depth[t] % 2 = 0
InWasm(t) == exit = "running" /\ op[t].pc = "idle" /\ depth[t] % 2 = 1
At(t, pc) == exit = "running" /\ op[t].pc = pc

-----------------------------------------------------------------------------
(* Control passing between host and sandbox.                                *)

InvokeFunction(t) ==
    /\ InHost(t)
    /\ depth[t] < MaxDepth
    /\ depth' = [depth EXCEPT ![t] = @ + 1]
    /\ UNCHANGED <<table, maps, held, CurrentIndirectCall, op, exit>>

(* A sandboxed function, or a callback, returns to its caller.              *)
Return(t) ==
    /\ InWasm(t) \/ InHost(t)
    /\ depth[t] > 0
    /\ depth' = [depth EXCEPT ![t] = @ - 1]
    /\ UNCHANGED <<table, maps, held, CurrentIndirectCall, op, exit>>

-----------------------------------------------------------------------------
(* registerCallback and registerInternalCallback.                           *)

(* Mutant: the search for an equal type is missing.                         *)
RegisterFuncTypeNoSearch(t, c, internal) ==
    /\ InHost(t)
    /\ func_tables_mutex = NULL
    /\ handle[c] = NULL /\ internalSlot[c] = NULL
    /\ \A u \in Threads : op[u].cb # c
    /\ Len(g_func_types) < 4
    /\ g_func_types' = Append(g_func_types, FuncType(c))
    /\ op' = [op EXCEPT ![t] =
                [Idle EXCEPT !.pc = "register_func", !.cb = c,
                             !.internal = internal, !.ty = Len(g_func_types')]]
    /\ UNCHANGED <<tableFunc, tableType, func_tables_mutex, maps, held,
                   CurrentIndirectCall, depth, exit>>

(* wasm_rt_register_func_type_with_lists: an equal type keeps its id.       *)
RegisterFuncType(t, c, internal) ==
    /\ InHost(t)
    /\ func_tables_mutex = NULL
    /\ handle[c] = NULL /\ internalSlot[c] = NULL
    /\ \A u \in Threads : op[u].cb # c
    /\ g_func_types' = IF IsRegistered(g_func_types, FuncType(c)) THEN g_func_types
                       ELSE Append(g_func_types, FuncType(c))
    /\ op' = [op EXCEPT ![t] =
                [pc |-> "register_func", cb |-> c, internal |-> internal,
                 slot |-> NULL, ty |-> TypeId(g_func_types', FuncType(c)),
                 fn |-> NULL]]
    /\ UNCHANGED <<tableFunc, tableType, func_tables_mutex, maps, held,
                   CurrentIndirectCall, depth, exit>>

(* Mutant: the scan starts at slot 0.                                       *)
FreeSlotsFromZero == {x \in Slots : tableFunc[x] = NULL}

(* The loop of wasm_rt_register_func starts at slot 1.                      *)
FreeSlots == {x \in Slots : x >= 1 /\ tableFunc[x] = NULL}
FirstFree == CHOOSE x \in FreeSlots : \A y \in FreeSlots : x <= y

Target(t) == IF op[t].internal THEN Internal(op[t].cb)
                               ELSE Stub(Sig[op[t].cb])

(* wasm_rt_register_func up to its first store, func_tables_mutex held.     *)
RegisterFunc(t) ==
    /\ At(t, "register_func")
    /\ func_tables_mutex = NULL
    /\ FreeSlots # {}
    /\ tableFunc' = [tableFunc EXCEPT ![FirstFree] = Target(t)]
    /\ func_tables_mutex' = t
    /\ op' = [op EXCEPT ![t].pc = "register_type", ![t].slot = FirstFree]
    /\ UNCHANGED <<g_func_types, tableType, maps, held, CurrentIndirectCall,
                   depth, exit>>

(* "Register functions ran out of slots".                                   *)
RegisterFuncFull(t) ==
    /\ At(t, "register_func")
    /\ func_tables_mutex = NULL
    /\ FreeSlots = {}
    /\ exit' = "abort"
    /\ UNCHANGED <<table, maps, held, CurrentIndirectCall, depth, op>>

(* The second store of wasm_rt_register_func, and its return.               *)
RegisterFuncReturn(t) ==
    /\ At(t, "register_type")
    /\ tableType' = [tableType EXCEPT ![op[t].slot] = op[t].ty]
    /\ func_tables_mutex' = NULL
    /\ IF op[t].internal
       THEN /\ internalSlot' = [internalSlot EXCEPT ![op[t].cb] = op[t].slot]
            /\ op' = [op EXCEPT ![t] = Idle]
       ELSE /\ op' = [op EXCEPT ![t].pc = "register_map"]
            /\ UNCHANGED internalSlot
    /\ UNCHANGED <<g_func_types, tableFunc, maps, handle, CurrentIndirectCall,
                   depth, exit>>

(* registerCallbackImpl stores the callback under registeredCallbackLock    *)
(* and returns the WasmSandboxCallback.                                     *)
RegisterMap(t) ==
    /\ At(t, "register_map")
    /\ registerCallbackMap' =
           [registerCallbackMap EXCEPT ![op[t].slot] = op[t].cb]
    /\ callbackStateMap' = [callbackStateMap EXCEPT ![op[t].slot] = op[t].cb]
    /\ handle' = [handle EXCEPT ![op[t].cb] = op[t].slot]
    /\ op' = [op EXCEPT ![t] = Idle]
    /\ UNCHANGED <<table, internalSlot, CurrentIndirectCall, depth, exit>>

-----------------------------------------------------------------------------
(* unregisterCallback: the map entries go first, then the table slot.  The  *)
(* host gives the WasmSandboxCallback up when it makes the call.            *)

UnregisterCallback(t, c) ==
    /\ InHost(t)
    /\ handle[c] # NULL
    /\ registerCallbackMap' = [registerCallbackMap EXCEPT ![handle[c]] = Absent]
    /\ callbackStateMap' = [callbackStateMap EXCEPT ![handle[c]] = Absent]
    /\ handle' = [handle EXCEPT ![c] = NULL]
    /\ op' = [op EXCEPT ![t] =
                [pc |-> "unregister_func", cb |-> c, internal |-> FALSE,
                 slot |-> handle[c], ty |-> 0, fn |-> NULL]]
    /\ UNCHANGED <<table, internalSlot, CurrentIndirectCall, depth, exit>>

(* Mutant: wasm_ret_unregister_func takes no lock.                          *)
UnregisterFuncUnlocked(t) ==
    /\ At(t, "unregister_func")
    /\ tableFunc' = [tableFunc EXCEPT ![op[t].slot] = NULL]
    /\ op' = [op EXCEPT ![t].pc = "unregister_type"]
    /\ UNCHANGED <<g_func_types, tableType, func_tables_mutex, maps, held,
                   CurrentIndirectCall, depth, exit>>

(* wasm_ret_unregister_func up to its first store, func_tables_mutex held.  *)
UnregisterFunc(t) ==
    /\ At(t, "unregister_func")
    /\ func_tables_mutex = NULL
    /\ tableFunc' = [tableFunc EXCEPT ![op[t].slot] = NULL]
    /\ func_tables_mutex' = t
    /\ op' = [op EXCEPT ![t].pc = "unregister_type"]
    /\ UNCHANGED <<g_func_types, tableType, maps, held, CurrentIndirectCall,
                   depth, exit>>

(* Mutant: a return that does not unlock.                                   *)
UnregisterFuncNoUnlock(t) ==
    /\ At(t, "unregister_type")
    /\ tableType' = [tableType EXCEPT ![op[t].slot] = 0]
    /\ op' = [op EXCEPT ![t] = Idle]
    /\ UNCHANGED <<g_func_types, tableFunc, func_tables_mutex, maps, held,
                   CurrentIndirectCall, depth, exit>>

UnregisterFuncReturn(t) ==
    /\ At(t, "unregister_type")
    /\ tableType' = [tableType EXCEPT ![op[t].slot] = 0]
    /\ func_tables_mutex' = NULL
    /\ op' = [op EXCEPT ![t] = Idle]
    /\ UNCHANGED <<g_func_types, tableFunc, maps, held, CurrentIndirectCall,
                   depth, exit>>

(* getUnsandboxedFuncPointer calls this under func_tables_mutex.            *)
wasm_rt_get_registered_func(slotNumber) ==
    IF slotNumber < FUNC_TABLE_SIZE THEN tableFunc[slotNumber] ELSE NULL

-----------------------------------------------------------------------------
(* CALL_INDIRECT(table, t, ft, x): three unlocked reads of the table.       *)

Trap == exit' = "trap"

(* The bound check and the first read.  Sandboxed code passes any index.    *)
CallIndirect(t, x, ft) ==
    /\ InWasm(t)
    /\ depth[t] < MaxDepth
    /\ IF x < FUNC_TABLE_SIZE /\ tableFunc[x] # NULL
       THEN /\ op' = [op EXCEPT ![t] =
                        [pc |-> "ci_type", cb |-> NULL, internal |-> FALSE,
                         slot |-> x, ty |-> ft, fn |-> tableFunc[x]]]
            /\ UNCHANGED exit
       ELSE Trap /\ UNCHANGED op
    /\ UNCHANGED <<table, maps, held, CurrentIndirectCall, depth>>

(* table.data[x].func_type == func_types[ft], where the module's types have *)
(* the ids they got first in init_func_types.                               *)
CallIndirectType(t) ==
    /\ At(t, "ci_type")
    /\ IF tableType[op[t].slot] = op[t].ty
       THEN op' = [op EXCEPT ![t].pc = "ci_call"] /\ UNCHANGED exit
       ELSE Trap /\ UNCHANGED op
    /\ UNCHANGED <<table, maps, held, CurrentIndirectCall, depth>>

(* Mutant: CurrentIndirectCall is not assigned.                             *)
SetCurrentIndirectCallMissing(t) == UNCHANGED CurrentIndirectCall

SetCurrentIndirectCall(t) ==
    CurrentIndirectCall' = [CurrentIndirectCall EXCEPT ![t] = op[t].slot]

(* The call.  The table entry is read without synchronisation, so the       *)
(* compiler may call the pointer it tested or read the entry again.         *)
CallIndirectCall(t) ==
    /\ At(t, "ci_call")
    /\ SetCurrentIndirectCall(t)
    /\ \E callee \in {op[t].fn, tableFunc[op[t].slot]} :
         \/ /\ callee = NULL
            /\ exit' = "segv"
            /\ UNCHANGED <<op, depth>>
         \/ /\ callee # NULL
            /\ callee[1] = "module"
            /\ op' = [op EXCEPT ![t] = Idle]
            /\ UNCHANGED <<depth, exit>>
         \/ /\ callee # NULL
            /\ callee[1] = "internal"
            /\ op' = [op EXCEPT ![t] = Idle]
            /\ depth' = [depth EXCEPT ![t] = @ + 1]
            /\ UNCHANGED exit
         \/ /\ callee # NULL
            /\ callee[1] = "stub"
            /\ op' = [op EXCEPT ![t].pc = "stub", ![t].fn = callee]
            /\ UNCHANGED <<depth, exit>>
    /\ UNCHANGED <<table, maps, held>>

(* operator[] of std::map inserts a null pointer for a missing key.         *)
MapRead(map, x) == IF map[x] = Absent THEN NULL ELSE map[x]

(* callbackStubImpl: both maps are read in one critical section, then the   *)
(* callback found is called.                                                *)
CallbackStub(t) ==
    /\ At(t, "stub")
    /\ LET x == CurrentIndirectCall[t]
       IN  /\ registerCallbackMap' = [registerCallbackMap EXCEPT
                                        ![x] = MapRead(registerCallbackMap, x)]
           /\ callbackStateMap' = [callbackStateMap EXCEPT
                                        ![x] = MapRead(callbackStateMap, x)]
           /\ IF registerCallbackMap'[x] = NULL
              THEN exit' = "segv" /\ UNCHANGED <<op, depth>>
              ELSE /\ op' = [op EXCEPT ![t] = Idle]
                   /\ depth' = [depth EXCEPT ![t] = @ + 1]
                   /\ UNCHANGED exit
    /\ UNCHANGED <<table, held, CurrentIndirectCall>>

-----------------------------------------------------------------------------
(* The steps a thread takes on its own once an operation has begun.         *)
Continue(t) ==
    \/ RegisterFunc(t) \/ RegisterFuncFull(t) \/ RegisterFuncReturn(t)
    \/ RegisterMap(t)
    \/ UnregisterFunc(t) \/ UnregisterFuncReturn(t)
    \/ CallIndirectType(t) \/ CallIndirectCall(t) \/ CallbackStub(t)

Start(t) ==
    \/ InvokeFunction(t)
    \/ Return(t)
    \/ \E c \in Callbacks, b \in BOOLEAN : RegisterFuncType(t, c, b)
    \/ \E c \in Callbacks : UnregisterCallback(t, c)
    \/ \E x \in 0 .. FUNC_TABLE_SIZE, ft \in DOMAIN ModuleTypes :
           CallIndirect(t, x, ft)

(* abort, a trap and a null call end the process for every thread.          *)
Ended == exit # "running" /\ UNCHANGED vars

Next == (\E t \in Threads : Continue(t) \/ Start(t)) \/ Ended

Spec == Init /\ [][Next]_vars

FairSpec == Spec /\ \A t \in Threads : WF_vars(Continue(t))

-----------------------------------------------------------------------------
(* Properties *)

(* The places of a call that has a slot of its own.                        *)
HoldingPCs == {"register_type", "register_map",
               "unregister_func", "unregister_type"}

(* Callback c occupies slot x: the host holds it there, or a register or    *)
(* unregister call that has taken the slot has not returned.                *)
Holds(c, x) ==
    \/ handle[c] = x
    \/ internalSlot[c] = x
    \/ \E t \in Threads :
          /\ op[t].cb = c
          /\ op[t].pc \in HoldingPCs
          /\ op[t].slot = x

(* As long as the host holds a WasmSandboxCallback, getUnsandboxedFuncPointer *)
(* of its slot is the stub of its signature, the slot has the id of its type *)
(* and both maps have its callback and its state: no other thread's register *)
(* or unregister call takes the slot over or erases the entries.             *)
HandleIntact ==
    \A c \in Callbacks : handle[c] # NULL =>
        /\ wasm_rt_get_registered_func(handle[c]) = Stub(Sig[c])
        /\ IsRegistered(g_func_types, FuncType(c))
        /\ tableType[handle[c]] = TypeId(g_func_types, FuncType(c))
        /\ registerCallbackMap[handle[c]] = c
        /\ callbackStateMap[handle[c]] = c

(* Every occupied slot of the table belongs to the module, to a callback    *)
(* the host still holds or to a call in progress, and to one of them only:  *)
(* slots neither leak nor are given out twice, and registration never       *)
(* overwrites an element of the module or slot 0.                           *)
SlotsOwned ==
    \A x \in Slots :
        /\ ModuleTable[x] # NULL => tableFunc[x] = ModuleFunc(ModuleTable[x])
        /\ tableFunc[x] # NULL =>
              ModuleTable[x] # NULL \/ \E c \in Callbacks : Holds(c, x)
        /\ \A c, d \in Callbacks : Holds(c, x) /\ Holds(d, x) => c = d
        /\ \A c \in Callbacks : Holds(c, x) => ModuleTable[x] = NULL /\ x # 0

(* A type id stands for one function type for ever: ids handed out earlier by   *)
(* wasm_rt_register_func_type are never reassigned, whatever is registered  *)
(* later, and two ids never stand for the same type.                        *)
TypeIdsStable ==
    [][/\ Len(g_func_types') >= Len(g_func_types)
       /\ \A i \in DOMAIN g_func_types : g_func_types'[i] = g_func_types[i]
       /\ NoDuplicates(g_func_types')]_vars

(* An indirect call that does not trap runs a function of the type it       *)
(* names: what CALL_INDIRECT casts to its signature has that signature.     *)
(* Stated of the stubs, since the module's own elements stay where they are.*)
IndirectCallTyped ==
    \A t \in Threads : op[t].pc = "stub" =>
        WasmType[op[t].fn[2]] = ModuleTypes[op[t].ty]

(* When an indirect call reaches a stub through a slot that the host still  *)
(* holds a callback at, the stub is the one of that callback and will find  *)
(* it, with its state, whatever calls this thread and others made before.   *)
HeldIsCalled ==
    [][\A t \in Threads, c \in Callbacks :
         CallIndirectCall(t) /\ op'[t].pc = "stub" /\ handle[c] # NULL
         /\ handle[c] = op[t].slot /\ op'[t].fn = tableFunc[op[t].slot] =>
               /\ op'[t].fn = Stub(Sig[c])
               /\ registerCallbackMap'[CurrentIndirectCall'[t]] = c
               /\ callbackStateMap'[CurrentIndirectCall'[t]] = c]_vars

(* A call of the runtime that has begun comes to its end, or the process    *)
(* ends, unless func_tables_mutex keeps changing hands for ever: no call is *)
(* left waiting for a mutex nobody will unlock.  std::mutex promises no     *)
(* order among its waiters, so starvation itself is not excluded.           *)
NoStuckCall ==
    \A t \in Threads :
        \/ op[t].pc # "idle" ~> (op[t].pc = "idle" \/ exit # "running")
        \/ []<>(func_tables_mutex = NULL) /\ []<>(func_tables_mutex # NULL)

-----------------------------------------------------------------------------
(* The inductive invariant behind HandleIntact and SlotsOwned.              *)

(* func_tables_mutex is owned exactly between the two stores of a call.     *)
MutexInv ==
    \A t \in Threads : op[t].pc \in {"register_type", "unregister_type"}
                          <=> func_tables_mutex = t

TypesInv == NoDuplicates(g_func_types)

(* A registration is in one place: with the host, with the sandbox's        *)
(* internal slot, or in one call.                                           *)
CallInv ==
    /\ \A t \in Threads :
          /\ op[t].cb # NULL <=> op[t].pc \in HoldingPCs \cup {"register_func"}
          /\ op[t].pc \notin {"idle", "register_func"} => op[t].slot # NULL
          /\ op[t].cb # NULL =>
                handle[op[t].cb] = NULL /\ internalSlot[op[t].cb] = NULL
    /\ \A t, u \in Threads : op[t].cb # NULL /\ op[t].cb = op[u].cb => t = u
    /\ \A c \in Callbacks : handle[c] = NULL \/ internalSlot[c] = NULL

(* The type id a pending registration carries is the one of its type.       *)
PendingTypeInv ==
    \A t \in Threads :
        op[t].pc \in {"register_func", "register_type", "register_map"} =>
            /\ IsRegistered(g_func_types, FuncType(op[t].cb))
            /\ op[t].ty = TypeId(g_func_types, FuncType(op[t].cb))

(* What the table has at a slot that a call, or the sandbox, holds.         *)
PendingSlotInv ==
    /\ \A t \in Threads :
          /\ op[t].pc \in {"register_type", "register_map"} =>
                tableFunc[op[t].slot] = Target(t)
          /\ op[t].pc = "register_map" =>
                tableType[op[t].slot] = op[t].ty /\ ~op[t].internal
          /\ op[t].pc = "unregister_func" => tableFunc[op[t].slot] # NULL
          /\ op[t].pc = "unregister_type" => tableFunc[op[t].slot] = NULL
    /\ \A c \in Callbacks : internalSlot[c] # NULL =>
          tableFunc[internalSlot[c]] # NULL

IInv == /\ TypeOK /\ MutexInv /\ TypesInv /\ CallInv /\ PendingTypeInv
        /\ PendingSlotInv /\ HandleIntact /\ SlotsOwned

=============================================================================
