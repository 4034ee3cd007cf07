------------------------ MODULE SandboxCallbacksProofs ------------------------
(* The safety properties of SandboxCallbacks hold for every number of       *)
(* threads, callbacks, signatures and slots.                                *)
EXTENDS SandboxCallbacks, WellFoundedInduction, TLAPS

-----------------------------------------------------------------------------
(* Facts about type ids.                                                    *)

(* The id of a registered type is an index at which the array has the type. *)
LEMMA TypeIdIndex ==
    ASSUME NEW types, NEW ty, IsRegistered(types, ty)
    PROVE  TypeId(types, ty) \in DOMAIN types /\ types[TypeId(types, ty)] = ty
BY DEF IsRegistered, TypeId

(* An id does not change when a new type is put at the end of the array.    *)
LEMMA TypeIdAppend ==
    ASSUME NEW types \in Seq(Types), NEW new \in Types, NEW ty \in Types,
           NoDuplicates(Append(types, new)), IsRegistered(types, ty)
    PROVE  /\ IsRegistered(Append(types, new), ty)
           /\ TypeId(Append(types, new), ty) = TypeId(types, ty)
<1> DEFINE ext == Append(types, new)
<1>1. DOMAIN types = 1 .. Len(types) /\ DOMAIN ext = 1 .. Len(types) + 1
  OBVIOUS
<1>2. \A i \in DOMAIN types : i \in DOMAIN ext /\ ext[i] = types[i]
  BY <1>1
<1>3. TypeId(types, ty) \in DOMAIN types /\ types[TypeId(types, ty)] = ty
  BY TypeIdIndex
<1>4. IsRegistered(ext, ty)
  BY <1>2, <1>3 DEF IsRegistered
<1>5. TypeId(ext, ty) \in DOMAIN ext /\ ext[TypeId(ext, ty)] = ty
  BY <1>4, TypeIdIndex
<1>6. TypeId(ext, ty) = TypeId(types, ty)
  BY <1>2, <1>3, <1>5 DEF NoDuplicates
<1> QED  BY <1>4, <1>6

(* A type that is not in the array can be appended without a duplicate.     *)
LEMMA AppendDistinct ==
    ASSUME NEW types \in Seq(Types), NEW new \in Types,
           NoDuplicates(types), ~IsRegistered(types, new)
    PROVE  /\ Append(types, new) \in Seq(Types)
           /\ NoDuplicates(Append(types, new))
           /\ IsRegistered(Append(types, new), new)
           /\ Len(Append(types, new)) = Len(types) + 1
           /\ \A i \in DOMAIN types : Append(types, new)[i] = types[i]
<1> DEFINE ext == Append(types, new)
<1>1. /\ ext \in Seq(Types) /\ Len(ext) = Len(types) + 1
      /\ DOMAIN types = 1 .. Len(types) /\ DOMAIN ext = 1 .. Len(types) + 1
  OBVIOUS
<1>2. \A i \in DOMAIN types : ext[i] = types[i]
  BY <1>1
<1>3. ext[Len(types) + 1] = new
  BY <1>1
<1>4. NoDuplicates(ext)
  BY <1>1, <1>2, <1>3 DEF NoDuplicates, IsRegistered
<1>5. IsRegistered(ext, new)
  BY <1>1, <1>3 DEF IsRegistered
<1> QED  BY <1>1, <1>2, <1>4, <1>5

-----------------------------------------------------------------------------
(* NULL and Absent are no slot, thread, callback, type or function.         *)
LEMMA NullFacts ==
    /\ NULL # Absent
    /\ NULL \notin Slots /\ Absent \notin Slots
    /\ NULL \notin Threads
    /\ NULL \notin Callbacks /\ Absent \notin Callbacks
    /\ NULL \notin Types /\ NULL \notin Funcs
    /\ Slots \subseteq Nat
BY NullAssumption, ConstantsAssumption DEF Slots

(* The invariant holds initially.                                           *)
LEMMA InitIInv == Init => IInv
<1> SUFFICES ASSUME Init PROVE IInv
  OBVIOUS
<1> USE ConstantsAssumption, NullAssumption
<1>1. \A x \in Slots : ModuleTable[x] # NULL =>
          /\ ModuleTable[x] \in Types
          /\ TypeId(ModuleTypes, ModuleTable[x]) \in Nat
  <2>1. DOMAIN ModuleTypes = 1 .. Len(ModuleTypes) /\ Len(ModuleTypes) \in Nat
    OBVIOUS
  <2> QED  BY <2>1, TypeIdIndex DEF IsRegistered
<1>2. 0 \in Slots
  BY DEF Slots
<1>3. TypeOK
  BY <1>1, <1>2 DEF Init, TypeOK, Op, Idle, PCs, Funcs, ModuleFunc
<1>4. MutexInv /\ TypesInv /\ CallInv /\ PendingTypeInv /\ PendingSlotInv
  BY NullFacts DEF Init, Idle, MutexInv, TypesInv, CallInv, PendingTypeInv,
         PendingSlotInv, HoldingPCs
<1>5. HandleIntact
  BY DEF Init, HandleIntact
<1>6. \A c \in Callbacks, x \in Slots : ~Holds(c, x)
  BY NullFacts DEF Init, Idle, Holds, HoldingPCs
<1>7. SlotsOwned
  BY <1>6 DEF Init, SlotsOwned
<1> QED  BY <1>3, <1>4, <1>5, <1>7 DEF IInv

(* The first free slot is one of the free slots.                            *)
LEMMA FirstFreeIsFree ==
    ASSUME FreeSlots # {}
    PROVE  FirstFree \in FreeSlots
<1>1. FreeSlots \subseteq Nat
  BY ConstantsAssumption DEF FreeSlots, Slots
<1>2. PICK x \in FreeSlots :
          \A y \in FreeSlots : <<y, x>> \notin OpToRel(<, Nat)
  BY <1>1, NatLessThanWellFounded, WFMin
<1>3. OpToRel(<, Nat) = {ss \in Nat \X Nat : ss[1] < ss[2]}
  BY Zenon DEF OpToRel
<1>4. \A y \in FreeSlots : ~(y < x)
  BY <1>1, <1>2, <1>3
<1>5. \A y \in FreeSlots : x <= y
  BY <1>1, <1>4
<1> QED  BY <1>5 DEF FirstFree

-----------------------------------------------------------------------------
(* The table has a function wherever a handle or internalSlot points.       *)
LEMMA HandleNotNull ==
    ASSUME IInv, NEW c \in Callbacks, handle[c] # NULL
    PROVE  handle[c] \in Slots /\ tableFunc[handle[c]] # NULL
<1>1. handle[c] \in Slots /\ handle[c] < FUNC_TABLE_SIZE
  BY ConstantsAssumption DEF IInv, TypeOK, Slots
<1>2. tableFunc[handle[c]] = Stub(Sig[c])
  BY <1>1 DEF IInv, HandleIntact, wasm_rt_get_registered_func
<1>3. Stub(Sig[c]) \in Funcs
  BY ConstantsAssumption DEF Stub, Funcs
<1> QED  BY <1>1, <1>2, <1>3, NullFacts

(* What a pending registration stores in the table is a function.           *)
LEMMA TargetIsFunc ==
    ASSUME IInv, NEW t \in Threads, op[t].cb # NULL
    PROVE  op[t].cb \in Callbacks /\ Target(t) \in Funcs
<1>1. op[t].cb \in Callbacks
  BY DEF IInv, TypeOK, Op
<1> QED  BY <1>1, ConstantsAssumption DEF Target, Funcs, Stub, Internal

(* Two calls never have the same slot.                                      *)
LEMMA SlotOfOneCall ==
    ASSUME IInv, NEW t \in Threads, NEW u \in Threads, t # u,
           op[t].pc \in HoldingPCs, op[u].pc \in HoldingPCs
    PROVE  op[t].slot # op[u].slot
<1>1. /\ op[t].cb \in Callbacks /\ op[u].cb \in Callbacks
      /\ op[t].cb # op[u].cb /\ op[t].slot \in Slots
  BY NullFacts DEF IInv, CallInv, TypeOK, Op, HoldingPCs
<1>2. Holds(op[t].cb, op[t].slot) /\ Holds(op[u].cb, op[u].slot)
  BY DEF Holds
<1> QED  BY <1>1, <1>2 DEF IInv, SlotsOwned

(* One lemma for every action that changes the table, the maps or the place *)
(* of a registration.  wasm_rt_register_func takes a slot nobody holds.     *)
LEMMA RegisterFuncStep ==
    ASSUME IInv, NEW t \in Threads, RegisterFunc(t)
    PROVE  IInv'
<1> DEFINE s == FirstFree
           c == op[t].cb
<1> USE NullFacts DEF IInv
<1>1. /\ s \in Slots /\ s # 0 /\ tableFunc[s] = NULL
      /\ op[t].pc = "register_func" /\ func_tables_mutex = NULL
      /\ c \in Callbacks /\ c # NULL
  <2>1. s \in FreeSlots
    BY FirstFreeIsFree DEF RegisterFunc
  <2> QED  BY <2>1, NullFacts
           DEF FreeSlots, RegisterFunc, At, CallInv, TypeOK, Op
<1>2. /\ op' = [op EXCEPT ![t].pc = "register_type", ![t].slot = s]
      /\ tableFunc' = [tableFunc EXCEPT ![s] = Target(t)]
      /\ func_tables_mutex' = t
      /\ UNCHANGED <<g_func_types, tableType, registerCallbackMap,
                     callbackStateMap, handle, internalSlot,
                     CurrentIndirectCall, depth, exit>>
  BY DEF RegisterFunc, maps, held
<1>3. Target(t) \in Funcs
  BY <1>1, TargetIsFunc
<1>4. TypeOK'
  <2>1. op' \in [Threads -> Op]
    <3>1. op[t] \in Op
      BY DEF TypeOK
    <3>2. [op[t] EXCEPT !.pc = "register_type", !.slot = s] \in Op
      BY <1>1, <3>1 DEF Op, PCs
    <3> QED  BY <1>2, <3>2 DEF TypeOK
  <2>2. tableFunc' \in [Slots -> Funcs \cup {NULL}]
    BY <1>1, <1>2, <1>3 DEF TypeOK
  <2> QED  BY <1>2, <2>1, <2>2 DEF TypeOK
<1>5. MutexInv'
  BY <1>1, <1>2 DEF MutexInv, TypeOK, Op
<1>6. TypesInv'
  BY <1>2 DEF TypesInv
<1>call. /\ \A u \in Threads : u # t => op'[u] = op[u]
         /\ op'[t].cb = c /\ op'[t].pc = "register_type" /\ op'[t].slot = s
         /\ op'[t].internal = op[t].internal /\ op'[t].ty = op[t].ty
  BY <1>2 DEF TypeOK, Op
<1>7. CallInv'
  <2>1. /\ handle' = handle /\ internalSlot' = internalSlot
        /\ s # NULL
    BY <1>1, <1>2 DEF TypeOK
  <2>2. \A u \in Threads : op'[u].cb = op[u].cb
    BY <1>call
  <2>3. \A u \in Threads :
          /\ op'[u].cb # NULL <=> op'[u].pc \in HoldingPCs \cup {"register_func"}
          /\ op'[u].pc \notin {"idle", "register_func"} => op'[u].slot # NULL
    <3> SUFFICES ASSUME NEW u \in Threads
                 PROVE  /\ op'[u].cb # NULL <=>
                              op'[u].pc \in HoldingPCs \cup {"register_func"}
                        /\ op'[u].pc \notin {"idle", "register_func"} =>
                              op'[u].slot # NULL
      OBVIOUS
    <3>1. CASE u = t
      BY <1>1, <1>call, <2>1, <3>1 DEF HoldingPCs
    <3>2. CASE u # t
      BY <1>call, <3>2 DEF CallInv
    <3> QED  BY <3>1, <3>2
  <2> QED  BY <2>1, <2>2, <2>3 DEF CallInv
<1>8. PendingTypeInv'
  BY <1>1, <1>2 DEF PendingTypeInv, TypeOK, Op
<1>9. \A d \in Callbacks : ~Holds(d, s)
  <2> SUFFICES ASSUME NEW d \in Callbacks, Holds(d, s) PROVE FALSE
    OBVIOUS
  <2>1. CASE handle[d] = s
    BY <1>1, <2>1, HandleNotNull
  <2>2. CASE internalSlot[d] = s
    BY <1>1, <2>2 DEF PendingSlotInv
  <2>3. ASSUME NEW u \in Threads, op[u].pc \in HoldingPCs, op[u].slot = s
        PROVE  FALSE
    <3>1. op[u].pc \in {"register_map", "unregister_func"}
      BY <1>1, <2>3 DEF HoldingPCs, MutexInv
    <3>2. tableFunc[s] # NULL
      BY <2>3, <3>1, TargetIsFunc DEF PendingSlotInv, CallInv, HoldingPCs
    <3> QED  BY <1>1, <3>2
  <2> QED  BY <2>1, <2>2, <2>3 DEF Holds
<1>10. HandleIntact'
  BY <1>1, <1>2, <1>9
     DEF HandleIntact, Holds, wasm_rt_get_registered_func, TypeOK
<1>11. PendingSlotInv'
  <2>1. /\ tableFunc'[s] = Target(t) /\ Target(t) # NULL
        /\ \A x \in Slots : x # s => tableFunc'[x] = tableFunc[x]
    BY <1>1, <1>2, <1>3 DEF TypeOK
  <2>2. \A u \in Threads : u # t => Target(u)' = Target(u)
    BY <1>call DEF Target
  <2>3. Target(t)' = Target(t)
    BY <1>call DEF Target
  <2>4. ASSUME NEW u \in Threads, u # t,
               op[u].pc \in HoldingPCs
        PROVE  op[u].slot \in Slots /\ op[u].slot # s
    <3>1. op[u].slot \in Slots
      BY <2>4 DEF CallInv, TypeOK, Op, HoldingPCs
    <3>2. op[u].cb \in Callbacks
      BY <2>4 DEF CallInv, TypeOK, Op, HoldingPCs
    <3> QED  BY <1>9, <2>4, <3>1, <3>2 DEF Holds
  <2>5. ASSUME NEW u \in Threads
        PROVE  /\ op'[u].pc \in {"register_type", "register_map"} =>
                     tableFunc'[op'[u].slot] = Target(u)'
               /\ op'[u].pc = "register_map" =>
                     tableType'[op'[u].slot] = op'[u].ty /\ ~op'[u].internal
               /\ op'[u].pc = "unregister_func" =>
                     tableFunc'[op'[u].slot] # NULL
               /\ op'[u].pc = "unregister_type" =>
                     tableFunc'[op'[u].slot] = NULL
    <3>1. CASE u = t
      BY <1>call, <2>1, <2>3, <3>1
    <3>2. CASE u # t
      <4>1. op'[u] = op[u] /\ tableType' = tableType
        BY <1>2, <1>call, <3>2
      <4>2. op[u].pc \in HoldingPCs =>
               tableFunc'[op[u].slot] = tableFunc[op[u].slot]
        BY <2>1, <2>4, <3>2
      <4> QED  BY <2>2, <3>2, <4>1, <4>2 DEF PendingSlotInv, HoldingPCs
    <3> QED  BY <3>1, <3>2
  <2>6. ASSUME NEW d \in Callbacks, internalSlot'[d] # NULL
        PROVE  tableFunc'[internalSlot'[d]] # NULL
    <3>1. internalSlot'[d] = internalSlot[d] /\ internalSlot[d] \in Slots
      BY <1>2, <2>6 DEF TypeOK
    <3> QED  BY <2>1, <2>6, <3>1 DEF PendingSlotInv
  <2> QED  BY <2>5, <2>6 DEF PendingSlotInv
<1>12. \A d \in Callbacks, x \in Slots :
          Holds(d, x)' <=> Holds(d, x) \/ (d = c /\ x = s)
  <2> SUFFICES ASSUME NEW d \in Callbacks, NEW x \in Slots
               PROVE  Holds(d, x)' <=> Holds(d, x) \/ (d = c /\ x = s)
    OBVIOUS
  <2>1. handle' = handle /\ internalSlot' = internalSlot
    BY <1>2
  <2>2. ~(op[t].pc \in HoldingPCs) /\ op'[t].pc \in HoldingPCs
    BY <1>1, <1>call DEF HoldingPCs
  <2> HIDE DEF HoldingPCs
  <2> QED  BY <1>call, <2>1, <2>2 DEF Holds
<1>13. SlotsOwned'
  <2>1. ModuleTable[s] = NULL
    <3>1. ModuleTable[s] # NULL => ModuleFunc(ModuleTable[s]) \in Funcs
      BY <1>1, ConstantsAssumption DEF ModuleFunc, Funcs
    <3> QED  BY <1>1, <3>1 DEF SlotsOwned
  <2> QED  BY <1>1, <1>2, <1>9, <1>12, <2>1 DEF SlotsOwned, TypeOK
<1> QED  BY <1>4, <1>5, <1>6, <1>7, <1>8, <1>10, <1>11, <1>13

(* wasm_rt_register_func_type_with_lists changes no id given out before.    *)
LEMMA RegisterFuncTypeStep ==
    ASSUME IInv, NEW t \in Threads, NEW c \in Callbacks,
           NEW internal \in BOOLEAN, RegisterFuncType(t, c, internal)
    PROVE  IInv'
<1> DEFINE id == TypeId(g_func_types', FuncType(c))
<1> USE NullFacts DEF IInv
<1>1. /\ op[t].pc = "idle" /\ func_tables_mutex = NULL
      /\ handle[c] = NULL /\ internalSlot[c] = NULL
      /\ \A u \in Threads : op[u].cb # c
      /\ op' = [op EXCEPT ![t] =
                  [pc |-> "register_func", cb |-> c, internal |-> internal,
                   slot |-> NULL, ty |-> id, fn |-> NULL]]
      /\ UNCHANGED <<tableFunc, tableType, func_tables_mutex,
                     registerCallbackMap, callbackStateMap, handle,
                     internalSlot, CurrentIndirectCall, depth, exit>>
  BY DEF RegisterFuncType, InHost, maps, held
<1>2. FuncType(c) \in Types /\ \A d \in Callbacks : FuncType(d) \in Types
  BY ConstantsAssumption DEF FuncType
<1>3. /\ g_func_types' \in Seq(Types) /\ NoDuplicates(g_func_types')
      /\ IsRegistered(g_func_types', FuncType(c))
      /\ \A d \in Callbacks : IsRegistered(g_func_types, FuncType(d)) =>
            /\ IsRegistered(g_func_types', FuncType(d))
            /\ TypeId(g_func_types', FuncType(d))
                  = TypeId(g_func_types, FuncType(d))
  <2>1. CASE IsRegistered(g_func_types, FuncType(c))
    BY <2>1 DEF RegisterFuncType, TypeOK, TypesInv
  <2>2. CASE ~IsRegistered(g_func_types, FuncType(c))
    <3>1. g_func_types' = Append(g_func_types, FuncType(c))
      BY <2>2 DEF RegisterFuncType
    <3>2. g_func_types \in Seq(Types) /\ NoDuplicates(g_func_types)
      BY DEF TypeOK, TypesInv
    <3>3. /\ g_func_types' \in Seq(Types) /\ NoDuplicates(g_func_types')
          /\ IsRegistered(g_func_types', FuncType(c))
      BY <1>2, <2>2, <3>1, <3>2, AppendDistinct
    <3> QED  BY <1>2, <3>1, <3>2, <3>3, TypeIdAppend
  <2> QED  BY <2>1, <2>2
<1>4. id \in Nat
  BY <1>3, TypeIdIndex
<1>5. TypeOK'
  <2>1. [pc |-> "register_func", cb |-> c, internal |-> internal,
         slot |-> NULL, ty |-> id, fn |-> NULL] \in Op
    BY <1>4 DEF Op, PCs
  <2>2. op' \in [Threads -> Op]
    BY <1>1, <2>1 DEF TypeOK
  <2> QED  BY <1>1, <1>3, <2>2 DEF TypeOK
<1>6. /\ \A u \in Threads : u # t => op'[u] = op[u]
      /\ op'[t].pc = "register_func" /\ op'[t].cb = c /\ op'[t].ty = id
  BY <1>1 DEF TypeOK
<1>7. MutexInv' /\ TypesInv'
  BY <1>1, <1>3, <1>6 DEF MutexInv, TypesInv
<1>8. CallInv'
  BY <1>1, <1>6 DEF CallInv, HoldingPCs
<1>9. PendingTypeInv'
  BY <1>1, <1>3, <1>6 DEF PendingTypeInv, CallInv, TypeOK, Op, HoldingPCs
<1>10. PendingSlotInv'
  BY <1>1, <1>6 DEF PendingSlotInv, Target
<1>11. HandleIntact'
  BY <1>1, <1>3 DEF HandleIntact, wasm_rt_get_registered_func
<1>12. \A d \in Callbacks, x \in Slots : Holds(d, x)' <=> Holds(d, x)
  BY <1>1, <1>6 DEF Holds, HoldingPCs
<1>13. SlotsOwned'
  BY <1>1, <1>12 DEF SlotsOwned
<1> QED  BY <1>5, <1>7, <1>8, <1>9, <1>10, <1>11, <1>13

(* The second store of wasm_rt_register_func hands the slot on.             *)
LEMMA RegisterFuncReturnStep ==
    ASSUME IInv, NEW t \in Threads, RegisterFuncReturn(t)
    PROVE  IInv'
<1> DEFINE c == op[t].cb
           s == op[t].slot
<1> USE NullFacts DEF IInv
<1>1. /\ op[t].pc = "register_type" /\ func_tables_mutex = t
      /\ c \in Callbacks /\ s \in Slots
      /\ handle[c] = NULL /\ internalSlot[c] = NULL
      /\ Holds(c, s)
  BY DEF RegisterFuncReturn, At, MutexInv, CallInv, TypeOK, Op, HoldingPCs,
         Holds
<1>2. /\ tableType' = [tableType EXCEPT ![s] = op[t].ty]
      /\ func_tables_mutex' = NULL
      /\ UNCHANGED <<g_func_types, tableFunc, registerCallbackMap,
                     callbackStateMap, handle, CurrentIndirectCall, depth,
                     exit>>
  BY DEF RegisterFuncReturn, maps
<1>3. op[t] \in Op
  BY DEF TypeOK
<1>4. /\ tableType' \in [Slots -> Nat]
      /\ \A x \in Slots : x # s => tableType'[x] = tableType[x]
      /\ tableType'[s] = op[t].ty
  BY <1>1, <1>2, <1>3 DEF TypeOK, Op
<1>5. \A d \in Callbacks : handle[d] # s
  BY <1>1 DEF SlotsOwned, Holds
<1>6. HandleIntact'
  BY <1>2, <1>4, <1>5 DEF HandleIntact, wasm_rt_get_registered_func, TypeOK
<1>7. CASE op[t].internal
  <2>1. /\ internalSlot' = [internalSlot EXCEPT ![c] = s]
        /\ op' = [op EXCEPT ![t] = Idle]
    BY <1>7 DEF RegisterFuncReturn
  <2>2. /\ \A u \in Threads : u # t => op'[u] = op[u]
        /\ op'[t] = Idle /\ op' \in [Threads -> Op]
    BY <2>1 DEF TypeOK, Idle, Op, PCs
  <2>3. /\ internalSlot' \in [Callbacks -> Slots \cup {NULL}]
        /\ internalSlot'[c] = s
        /\ \A d \in Callbacks : d # c => internalSlot'[d] = internalSlot[d]
    BY <1>1, <2>1 DEF TypeOK
  <2>4. TypeOK'
    BY <1>2, <1>4, <2>2, <2>3 DEF TypeOK
  <2>5. MutexInv' /\ TypesInv'
    BY <1>1, <1>2, <2>2 DEF MutexInv, TypesInv, Idle
  <2>6. CallInv'
    <3>1. \A u \in Threads : u # t => op[u].cb # c
      BY <1>1 DEF CallInv
    <3>2. \A u \in Threads : u # t /\ op[u].cb # NULL =>
              internalSlot'[op[u].cb] = internalSlot[op[u].cb]
      BY <2>3, <3>1 DEF TypeOK, Op
    <3>3. \A d \in Callbacks : handle'[d] = NULL \/ internalSlot'[d] = NULL
      BY <1>1, <1>2, <2>3 DEF CallInv
    <3> QED  BY <1>2, <2>2, <3>2, <3>3 DEF CallInv, HoldingPCs, Idle
  <2>7. PendingTypeInv'
    BY <1>2, <2>2 DEF PendingTypeInv, Idle
  <2>8. \A d \in Callbacks, x \in Slots : Holds(d, x)' <=> Holds(d, x)
    BY <1>1, <1>2, <2>2, <2>3 DEF Holds, HoldingPCs, Idle
  <2>9. SlotsOwned'
    BY <1>2, <2>8 DEF SlotsOwned
  <2>10. PendingSlotInv'
    <3>1. tableFunc[s] # NULL
      BY <1>1, TargetIsFunc DEF PendingSlotInv
    <3>2. \A u \in Threads : u # t /\ op[u].pc = "register_map" =>
              op[u].slot # s
      BY <1>1, SlotOfOneCall DEF HoldingPCs
    <3>3. \A d \in Callbacks : internalSlot'[d] # NULL =>
              tableFunc'[internalSlot'[d]] # NULL
      BY <1>1, <1>2, <2>3, <3>1 DEF PendingSlotInv
    <3>4. \A u \in Threads : op'[u].pc = "register_map" =>
              tableType'[op'[u].slot] = op'[u].ty /\ ~op'[u].internal
      <4> SUFFICES ASSUME NEW u \in Threads, op'[u].pc = "register_map"
                   PROVE  tableType'[op'[u].slot] = op'[u].ty
                          /\ ~op'[u].internal
        OBVIOUS
      <4>1. u # t /\ op'[u] = op[u] /\ op[u].pc = "register_map"
        BY <2>2 DEF Idle
      <4>2. op[u].slot \in Slots /\ op[u].slot # s
        BY <3>2, <4>1 DEF CallInv, TypeOK, Op
      <4>3. tableType'[op[u].slot] = tableType[op[u].slot]
        BY <1>4, <4>2
      <4> QED  BY <4>1, <4>3 DEF PendingSlotInv
    <3> QED  BY <1>2, <2>2, <3>3, <3>4 DEF PendingSlotInv, Target, Idle
  <2> QED  BY <1>6, <2>4, <2>5, <2>6, <2>7, <2>9, <2>10
<1>8. CASE ~op[t].internal
  <2>1. /\ internalSlot' = internalSlot
        /\ op' = [op EXCEPT ![t].pc = "register_map"]
    BY <1>8 DEF RegisterFuncReturn
  <2>2. /\ \A u \in Threads : u # t => op'[u] = op[u]
        /\ op'[t].pc = "register_map" /\ op'[t].cb = c /\ op'[t].slot = s
        /\ op'[t].ty = op[t].ty /\ op'[t].internal = op[t].internal
        /\ op' \in [Threads -> Op]
    BY <1>3, <2>1 DEF TypeOK, Op, PCs
  <2>3. TypeOK'
    BY <1>2, <1>4, <2>1, <2>2 DEF TypeOK
  <2>4. MutexInv' /\ TypesInv'
    BY <1>1, <1>2, <2>2 DEF MutexInv, TypesInv
  <2>5. CallInv'
    BY <1>1, <1>2, <2>1, <2>2 DEF CallInv, HoldingPCs
  <2>6. PendingTypeInv'
    BY <1>1, <1>2, <2>2 DEF PendingTypeInv
  <2>7. \A d \in Callbacks, x \in Slots : Holds(d, x)' <=> Holds(d, x)
    BY <1>1, <1>2, <2>1, <2>2 DEF Holds, HoldingPCs
  <2>8. SlotsOwned'
    BY <1>2, <2>7 DEF SlotsOwned
  <2>9. PendingSlotInv'
    <3>1. \A u \in Threads : u # t /\ op[u].pc = "register_map" =>
              op[u].slot # s
      BY <1>1, SlotOfOneCall DEF HoldingPCs
    <3> QED  BY <1>1, <1>2, <1>4, <1>8, <2>1, <2>2, <3>1
             DEF PendingSlotInv, Target, CallInv, TypeOK, Op
  <2> QED  BY <1>6, <2>3, <2>4, <2>5, <2>6, <2>8, <2>9
<1> QED  BY <1>3, <1>7, <1>8 DEF Op

(* registerCallbackImpl fills the maps and hands the slot to the host.      *)
LEMMA RegisterMapStep ==
    ASSUME IInv, NEW t \in Threads, RegisterMap(t)
    PROVE  IInv'
<1> DEFINE c == op[t].cb
           s == op[t].slot
<1> USE NullFacts DEF IInv
<1>1. /\ op[t].pc = "register_map" /\ func_tables_mutex # t
      /\ c \in Callbacks /\ s \in Slots
      /\ handle[c] = NULL /\ internalSlot[c] = NULL
      /\ Holds(c, s)
  BY DEF RegisterMap, At, MutexInv, CallInv, TypeOK, Op, HoldingPCs, Holds
<1>2. /\ registerCallbackMap' = [registerCallbackMap EXCEPT ![s] = c]
      /\ callbackStateMap' = [callbackStateMap EXCEPT ![s] = c]
      /\ handle' = [handle EXCEPT ![c] = s]
      /\ op' = [op EXCEPT ![t] = Idle]
      /\ UNCHANGED <<g_func_types, tableFunc, tableType, func_tables_mutex,
                     internalSlot, CurrentIndirectCall, depth, exit>>
  BY DEF RegisterMap, table
<1>3. /\ \A u \in Threads : u # t => op'[u] = op[u]
      /\ op'[t] = Idle /\ op' \in [Threads -> Op]
  BY <1>2 DEF TypeOK, Idle, Op, PCs
<1>4. /\ handle' \in [Callbacks -> Slots \cup {NULL}]
      /\ handle'[c] = s
      /\ \A d \in Callbacks : d # c => handle'[d] = handle[d]
  BY <1>1, <1>2 DEF TypeOK
<1>5. TypeOK'
  BY <1>1, <1>2, <1>3, <1>4 DEF TypeOK
<1>6. MutexInv' /\ TypesInv'
  BY <1>1, <1>2, <1>3 DEF MutexInv, TypesInv, Idle
<1>7. CallInv'
  <2>1. \A u \in Threads : u # t => op[u].cb # c
    BY <1>1 DEF CallInv
  <2>2. \A u \in Threads : u # t /\ op[u].cb # NULL =>
            handle'[op[u].cb] = handle[op[u].cb]
    BY <1>4, <2>1 DEF TypeOK, Op
  <2>3. \A d \in Callbacks : handle'[d] = NULL \/ internalSlot'[d] = NULL
    BY <1>1, <1>2, <1>4 DEF CallInv
  <2> QED  BY <1>2, <1>3, <2>2, <2>3 DEF CallInv, HoldingPCs, Idle
<1>8. PendingTypeInv'
  BY <1>2, <1>3 DEF PendingTypeInv, Idle
<1>9. PendingSlotInv'
  BY <1>2, <1>3 DEF PendingSlotInv, Target, Idle
<1>10. \A d \in Callbacks, x \in Slots : Holds(d, x)' <=> Holds(d, x)
  BY <1>1, <1>2, <1>3, <1>4 DEF Holds, HoldingPCs, Idle
<1>11. SlotsOwned'
  BY <1>2, <1>10 DEF SlotsOwned
<1>12. HandleIntact'
  <2>1. \A d \in Callbacks : handle[d] # s
    BY <1>1 DEF SlotsOwned, Holds
  <2>2. ASSUME NEW d \in Callbacks, handle'[d] # NULL, d # c
        PROVE  /\ registerCallbackMap'[handle'[d]] = d
               /\ callbackStateMap'[handle'[d]] = d
    BY <1>2, <1>4, <2>1, <2>2 DEF HandleIntact, TypeOK
  <2>3. registerCallbackMap'[s] = c /\ callbackStateMap'[s] = c
    BY <1>1, <1>2 DEF TypeOK
  <2>4. /\ wasm_rt_get_registered_func(s) = Stub(Sig[c])
        /\ IsRegistered(g_func_types, FuncType(c))
        /\ tableType[s] = TypeId(g_func_types, FuncType(c))
    <3>1. s < FUNC_TABLE_SIZE
      BY <1>1, ConstantsAssumption DEF Slots
    <3>2. Target(t) = Stub(Sig[c]) /\ tableFunc[s] = Target(t)
      BY <1>1 DEF PendingSlotInv, Target
    <3> QED  BY <1>1, <3>1, <3>2
             DEF PendingSlotInv, PendingTypeInv, wasm_rt_get_registered_func
  <2> QED  BY <1>2, <1>4, <2>2, <2>3, <2>4
           DEF HandleIntact, wasm_rt_get_registered_func
<1> QED  BY <1>5, <1>6, <1>7, <1>8, <1>9, <1>11, <1>12

(* unregisterCallback takes the handle and the map entries away together.   *)
LEMMA UnregisterCallbackStep ==
    ASSUME IInv, NEW t \in Threads, NEW c \in Callbacks,
           UnregisterCallback(t, c)
    PROVE  IInv'
<1> DEFINE s == handle[c]
<1> USE NullFacts DEF IInv
<1>1. /\ op[t].pc = "idle" /\ op[t].cb = NULL /\ func_tables_mutex # t
      /\ s # NULL /\ s \in Slots /\ tableFunc[s] # NULL
      /\ internalSlot[c] = NULL /\ Holds(c, s)
  BY HandleNotNull DEF UnregisterCallback, InHost, CallInv, MutexInv, TypeOK,
         Op, Holds, HoldingPCs
<1>2. /\ registerCallbackMap' = [registerCallbackMap EXCEPT ![s] = Absent]
      /\ callbackStateMap' = [callbackStateMap EXCEPT ![s] = Absent]
      /\ handle' = [handle EXCEPT ![c] = NULL]
      /\ op' = [op EXCEPT ![t] =
                  [pc |-> "unregister_func", cb |-> c, internal |-> FALSE,
                   slot |-> s, ty |-> 0, fn |-> NULL]]
      /\ UNCHANGED <<g_func_types, tableFunc, tableType, func_tables_mutex,
                     internalSlot, CurrentIndirectCall, depth, exit>>
  BY DEF UnregisterCallback, table
<1>3. /\ \A u \in Threads : u # t => op'[u] = op[u]
      /\ op'[t].pc = "unregister_func" /\ op'[t].cb = c /\ op'[t].slot = s
      /\ op' \in [Threads -> Op]
  <2>1. [pc |-> "unregister_func", cb |-> c, internal |-> FALSE,
         slot |-> s, ty |-> 0, fn |-> NULL] \in Op
    BY <1>1 DEF Op, PCs
  <2> QED  BY <1>2, <2>1 DEF TypeOK
<1>4. /\ handle' \in [Callbacks -> Slots \cup {NULL}]
      /\ handle'[c] = NULL
      /\ \A d \in Callbacks : d # c => handle'[d] = handle[d]
  BY <1>2 DEF TypeOK
<1>5. TypeOK'
  BY <1>1, <1>2, <1>3, <1>4 DEF TypeOK
<1>6. MutexInv' /\ TypesInv'
  BY <1>1, <1>2, <1>3 DEF MutexInv, TypesInv
<1>7. CallInv'
  <2>1. \A u \in Threads : op[u].cb # c
    BY <1>1 DEF CallInv
  <2>2. \A u \in Threads : u # t /\ op[u].cb # NULL =>
            handle'[op[u].cb] = handle[op[u].cb]
    BY <1>4, <2>1 DEF TypeOK, Op
  <2>3. \A d \in Callbacks : handle'[d] = NULL \/ internalSlot'[d] = NULL
    BY <1>2, <1>4 DEF CallInv
  <2> QED  BY <1>1, <1>2, <1>3, <1>4, <2>1, <2>2, <2>3
           DEF CallInv, HoldingPCs
<1>8. PendingTypeInv'
  BY <1>2, <1>3 DEF PendingTypeInv
<1>9. PendingSlotInv'
  BY <1>1, <1>2, <1>3 DEF PendingSlotInv, Target
<1>10. \A d \in Callbacks, x \in Slots : Holds(d, x)' <=> Holds(d, x)
  BY <1>1, <1>2, <1>3, <1>4 DEF Holds, HoldingPCs
<1>11. SlotsOwned'
  BY <1>2, <1>10 DEF SlotsOwned
<1>12. HandleIntact'
  <2>1. \A d \in Callbacks : d # c => handle[d] # s
    BY <1>1 DEF SlotsOwned, Holds
  <2> QED  BY <1>2, <1>4, <2>1
           DEF HandleIntact, TypeOK, wasm_rt_get_registered_func
<1> QED  BY <1>5, <1>6, <1>7, <1>8, <1>9, <1>11, <1>12

(* wasm_ret_unregister_func clears a slot no other registration has.        *)
LEMMA UnregisterFuncStep ==
    ASSUME IInv, NEW t \in Threads, UnregisterFunc(t)
    PROVE  IInv'
<1> DEFINE c == op[t].cb
           s == op[t].slot
<1> USE NullFacts DEF IInv
<1>1. /\ op[t].pc = "unregister_func" /\ func_tables_mutex = NULL
      /\ c \in Callbacks /\ s \in Slots
      /\ handle[c] = NULL /\ internalSlot[c] = NULL
      /\ Holds(c, s) /\ op[t] \in Op
  BY DEF UnregisterFunc, At, CallInv, TypeOK, Op, HoldingPCs, Holds
<1>2. /\ tableFunc' = [tableFunc EXCEPT ![s] = NULL]
      /\ func_tables_mutex' = t
      /\ op' = [op EXCEPT ![t].pc = "unregister_type"]
      /\ UNCHANGED <<g_func_types, tableType, registerCallbackMap,
                     callbackStateMap, handle, internalSlot,
                     CurrentIndirectCall, depth, exit>>
  BY DEF UnregisterFunc, maps, held
<1>3. /\ \A u \in Threads : u # t => op'[u] = op[u]
      /\ op'[t].pc = "unregister_type" /\ op'[t].cb = c /\ op'[t].slot = s
      /\ op' \in [Threads -> Op]
  BY <1>1, <1>2 DEF TypeOK, Op, PCs
<1>4. /\ tableFunc' \in [Slots -> Funcs \cup {NULL}]
      /\ tableFunc'[s] = NULL
      /\ \A x \in Slots : x # s => tableFunc'[x] = tableFunc[x]
  BY <1>1, <1>2 DEF TypeOK
<1>5. TypeOK'
  BY <1>2, <1>3, <1>4 DEF TypeOK
<1>6. MutexInv' /\ TypesInv'
  BY <1>1, <1>2, <1>3 DEF MutexInv, TypesInv
<1>7. CallInv'
  BY <1>1, <1>2, <1>3 DEF CallInv, HoldingPCs
<1>8. PendingTypeInv'
  BY <1>2, <1>3 DEF PendingTypeInv
<1>9. \A d \in Callbacks, x \in Slots : Holds(d, x)' <=> Holds(d, x)
  BY <1>1, <1>2, <1>3 DEF Holds, HoldingPCs
<1>10. \A d \in Callbacks : handle[d] # s /\ internalSlot[d] # s
  BY <1>1 DEF SlotsOwned, Holds
<1>11. SlotsOwned'
  <2>1. ModuleTable[s] = NULL
    BY <1>1 DEF SlotsOwned
  <2> QED  BY <1>4, <1>9, <2>1 DEF SlotsOwned
<1>12. HandleIntact'
  BY <1>2, <1>4, <1>10
     DEF HandleIntact, TypeOK, wasm_rt_get_registered_func
<1>13. PendingSlotInv'
  <2>1. ASSUME NEW u \in Threads, u # t, op[u].pc \in HoldingPCs
        PROVE  tableFunc'[op[u].slot] = tableFunc[op[u].slot]
    <3>1. op[u].slot # s
      BY <1>1, <2>1, SlotOfOneCall DEF HoldingPCs
    <3>2. op[u].slot \in Slots
      BY <2>1 DEF CallInv, TypeOK, Op, HoldingPCs
    <3> QED  BY <1>4, <3>1, <3>2
  <2>2. \A d \in Callbacks : internalSlot[d] # NULL =>
            tableFunc'[internalSlot[d]] # NULL
    <3> SUFFICES ASSUME NEW d \in Callbacks, internalSlot[d] # NULL
                 PROVE  tableFunc'[internalSlot[d]] # NULL
      OBVIOUS
    <3>1. internalSlot[d] \in Slots /\ internalSlot[d] # s
      BY <1>10 DEF TypeOK
    <3> QED  BY <1>4, <3>1 DEF PendingSlotInv
  <2> QED  BY <1>2, <1>3, <1>4, <2>1, <2>2
           DEF PendingSlotInv, HoldingPCs, Target
<1> QED  BY <1>5, <1>6, <1>7, <1>8, <1>11, <1>12, <1>13

(* The slot is given up with the second store, when its entry is clear.     *)
LEMMA UnregisterFuncReturnStep ==
    ASSUME IInv, NEW t \in Threads, UnregisterFuncReturn(t)
    PROVE  IInv'
<1> DEFINE c == op[t].cb
           s == op[t].slot
<1> USE NullFacts DEF IInv
<1>1. /\ op[t].pc = "unregister_type" /\ func_tables_mutex = t
      /\ c \in Callbacks /\ s \in Slots
      /\ handle[c] = NULL /\ internalSlot[c] = NULL
      /\ Holds(c, s)
  BY DEF UnregisterFuncReturn, At, CallInv, MutexInv, TypeOK, Op, HoldingPCs,
         Holds
<1>2. /\ tableType' = [tableType EXCEPT ![s] = 0]
      /\ func_tables_mutex' = NULL
      /\ op' = [op EXCEPT ![t] = Idle]
      /\ UNCHANGED <<g_func_types, tableFunc, registerCallbackMap,
                     callbackStateMap, handle, internalSlot,
                     CurrentIndirectCall, depth, exit>>
  BY DEF UnregisterFuncReturn, maps, held
<1>3. /\ \A u \in Threads : u # t => op'[u] = op[u]
      /\ op'[t] = Idle /\ op' \in [Threads -> Op]
  BY <1>2 DEF TypeOK, Idle, Op, PCs
<1>4. /\ tableType' \in [Slots -> Nat]
      /\ \A x \in Slots : x # s => tableType'[x] = tableType[x]
  BY <1>1, <1>2 DEF TypeOK
<1>5. TypeOK'
  BY <1>2, <1>3, <1>4 DEF TypeOK
<1>6. MutexInv' /\ TypesInv'
  BY <1>1, <1>2, <1>3 DEF MutexInv, TypesInv, Idle
<1>7. CallInv'
  BY <1>2, <1>3 DEF CallInv, HoldingPCs, Idle
<1>8. PendingTypeInv'
  BY <1>2, <1>3 DEF PendingTypeInv, Idle
<1>9. \A d \in Callbacks, x \in Slots :
          Holds(d, x)' <=> Holds(d, x) /\ ~(d = c /\ x = s)
  BY <1>1, <1>2, <1>3 DEF Holds, HoldingPCs, Idle, CallInv
<1>10. \A d \in Callbacks : handle[d] # s
  BY <1>1 DEF SlotsOwned, Holds
<1>11. SlotsOwned'
  <2>1. tableFunc[s] = NULL
    BY <1>1 DEF PendingSlotInv
  <2> QED  BY <1>1, <1>2, <1>9, <2>1 DEF SlotsOwned
<1>12. HandleIntact'
  BY <1>2, <1>4, <1>10
     DEF HandleIntact, TypeOK, wasm_rt_get_registered_func
<1>13. PendingSlotInv'
  <2>1. ASSUME NEW u \in Threads, u # t, op[u].pc = "register_map"
        PROVE  tableType'[op[u].slot] = tableType[op[u].slot]
    <3>1. op[u].slot # s
      BY <1>1, <2>1, SlotOfOneCall DEF HoldingPCs
    <3>2. op[u].slot \in Slots
      BY <2>1 DEF CallInv, TypeOK, Op
    <3> QED  BY <1>4, <3>1, <3>2
  <2> QED  BY <1>2, <1>3, <2>1 DEF PendingSlotInv, Target, Idle
<1> QED  BY <1>5, <1>6, <1>7, <1>8, <1>11, <1>12, <1>13

(* A step of CALL_INDIRECT, or one that only moves control between host and *)
(* sandbox, touches neither the table nor a registration.                   *)
LEMMA QuietStep ==
    ASSUME IInv, NEW t \in Threads,
           \A u \in Threads : u # t => op'[u] = op[u],
           op' \in [Threads -> Op], op[t].cb = NULL, op'[t].cb = NULL,
           op'[t].pc \in {"idle", "ci_type", "ci_call", "stub"},
           op'[t].pc # "idle" => op'[t].slot # NULL,
           CurrentIndirectCall' \in [Threads -> Slots],
           depth' \in [Threads -> Nat],
           exit' \in {"running", "abort", "trap", "segv"},
           UNCHANGED <<table, maps, held>>
    PROVE  IInv'
<1> USE NullFacts DEF IInv, table, maps, held
<1>1. op[t].pc \in {"idle", "ci_type", "ci_call", "stub"}
  BY DEF TypeOK, Op, PCs, CallInv, HoldingPCs
<1>2. TypeOK'
  BY DEF TypeOK
<1>3. MutexInv' /\ TypesInv'
  BY <1>1 DEF MutexInv, TypesInv
<1>4. CallInv'
  BY <1>1 DEF CallInv, HoldingPCs
<1>5. PendingTypeInv' /\ PendingSlotInv'
  BY <1>1 DEF PendingTypeInv, PendingSlotInv, Target
<1>6. HandleIntact'
  BY DEF HandleIntact, wasm_rt_get_registered_func
<1>7. \A d \in Callbacks, x \in Slots : Holds(d, x)' <=> Holds(d, x)
  BY <1>1 DEF Holds, HoldingPCs
<1>8. SlotsOwned'
  BY <1>7 DEF SlotsOwned
<1> QED  BY <1>2, <1>3, <1>4, <1>5, <1>6, <1>8

(* The stub's lookup inserts at a key no handle names.                      *)
LEMMA CallbackStubStep ==
    ASSUME IInv, NEW t \in Threads, CallbackStub(t)
    PROVE  IInv'
<1> DEFINE x == CurrentIndirectCall[t]
<1> USE NullFacts DEF IInv
<1>1. /\ op[t].pc = "stub" /\ op[t].cb = NULL /\ x \in Slots
      /\ func_tables_mutex # t /\ depth[t] \in Nat
  BY DEF CallbackStub, At, TypeOK, CallInv, MutexInv, HoldingPCs
<1>2. /\ registerCallbackMap' = [registerCallbackMap EXCEPT
                                    ![x] = MapRead(registerCallbackMap, x)]
      /\ callbackStateMap' = [callbackStateMap EXCEPT
                                    ![x] = MapRead(callbackStateMap, x)]
      /\ UNCHANGED <<g_func_types, tableFunc, tableType, func_tables_mutex,
                     handle, internalSlot, CurrentIndirectCall>>
  BY DEF CallbackStub, table, held
<1>3. /\ \A u \in Threads : u # t => op'[u] = op[u]
      /\ op'[t] = op[t] \/ op'[t] = Idle
      /\ op' \in [Threads -> Op]
      /\ depth' \in [Threads -> Nat]
      /\ exit' \in {"running", "abort", "trap", "segv"}
  <2>1. CASE op' = op /\ depth' = depth /\ exit' = "segv"
    BY <2>1 DEF TypeOK
  <2>2. CASE /\ op' = [op EXCEPT ![t] = Idle]
             /\ depth' = [depth EXCEPT ![t] = @ + 1] /\ exit' = exit
    BY <1>1, <2>2 DEF TypeOK, Idle, Op, PCs
  <2> QED  BY <2>1, <2>2 DEF CallbackStub
<1>4. TypeOK'
  BY <1>1, <1>2, <1>3 DEF TypeOK, MapRead
<1>5. MutexInv' /\ TypesInv'
  BY <1>1, <1>2, <1>3 DEF MutexInv, TypesInv, Idle
<1>6. CallInv'
  BY <1>1, <1>2, <1>3 DEF CallInv, HoldingPCs, Idle
<1>7. PendingTypeInv' /\ PendingSlotInv'
  BY <1>1, <1>2, <1>3 DEF PendingTypeInv, PendingSlotInv, Target, Idle
<1>8. HandleIntact'
  BY <1>1, <1>2 DEF HandleIntact, wasm_rt_get_registered_func, MapRead, TypeOK
<1>9. \A d \in Callbacks, y \in Slots : Holds(d, y)' <=> Holds(d, y)
  BY <1>1, <1>2, <1>3 DEF Holds, HoldingPCs, Idle
<1>10. SlotsOwned'
  BY <1>2, <1>9 DEF SlotsOwned
<1> QED  BY <1>4, <1>5, <1>6, <1>7, <1>8, <1>10

(* The three steps of CALL_INDIRECT keep the invariant.                     *)
LEMMA CallIndirectStep ==
    ASSUME IInv, NEW t \in Threads,
           \/ \E x \in 0 .. FUNC_TABLE_SIZE, ft \in DOMAIN ModuleTypes :
                  CallIndirect(t, x, ft)
           \/ CallIndirectType(t)
           \/ CallIndirectCall(t)
    PROVE  IInv'
<1> USE NullFacts, ConstantsAssumption DEF IInv
<1>1. op[t].pc \in {"idle", "ci_type", "ci_call"} /\ op[t].cb = NULL
      /\ op[t] \in Op
  BY DEF CallIndirect, CallIndirectType, CallIndirectCall, InWasm, At,
         CallInv, HoldingPCs, TypeOK
<1>2. ASSUME NEW x \in 0 .. FUNC_TABLE_SIZE, NEW ft \in DOMAIN ModuleTypes,
             CallIndirect(t, x, ft)
      PROVE  IInv'
  <2>1. ft \in Nat
    OBVIOUS
  <2>2. CASE x < FUNC_TABLE_SIZE /\ tableFunc[x] # NULL
    <3>1. x \in Slots
      BY <2>2 DEF Slots
    <3>2. [pc |-> "ci_type", cb |-> NULL, internal |-> FALSE, slot |-> x,
           ty |-> ft, fn |-> tableFunc[x]] \in Op
      BY <2>1, <3>1 DEF Op, PCs, TypeOK
    <3>3. /\ op' = [op EXCEPT ![t] =
                      [pc |-> "ci_type", cb |-> NULL, internal |-> FALSE,
                       slot |-> x, ty |-> ft, fn |-> tableFunc[x]]]
          /\ UNCHANGED <<table, maps, held, CurrentIndirectCall, depth, exit>>
      BY <1>2, <2>2 DEF CallIndirect
    <3>4. /\ \A u \in Threads : u # t => op'[u] = op[u]
          /\ op' \in [Threads -> Op] /\ op'[t].cb = NULL
          /\ op'[t].pc = "ci_type" /\ op'[t].slot # NULL
      BY <3>1, <3>2, <3>3 DEF TypeOK
    <3> QED  BY <1>1, <3>3, <3>4, QuietStep DEF TypeOK
  <2>3. CASE ~(x < FUNC_TABLE_SIZE /\ tableFunc[x] # NULL)
    <3>1. /\ op' = op /\ exit' = "trap"
          /\ UNCHANGED <<table, maps, held, CurrentIndirectCall, depth>>
      BY <1>2, <2>3 DEF CallIndirect, Trap
    <3>2. op[t].pc = "idle"
      BY <1>2 DEF CallIndirect, InWasm
    <3> QED  BY <1>1, <3>1, <3>2, QuietStep DEF TypeOK
  <2> QED  BY <2>2, <2>3
<1>3. CASE CallIndirectType(t)
  <2>1. /\ op[t].pc = "ci_type" /\ op[t].slot # NULL
        /\ UNCHANGED <<table, maps, held, CurrentIndirectCall, depth>>
    BY <1>3 DEF CallIndirectType, At, CallInv
  <2>2. \/ op' = [op EXCEPT ![t].pc = "ci_call"] /\ exit' = exit
        \/ op' = op /\ exit' = "trap"
    BY <1>3 DEF CallIndirectType, Trap
  <2>3. /\ \A u \in Threads : u # t => op'[u] = op[u]
        /\ op' \in [Threads -> Op] /\ op'[t].cb = NULL
        /\ op'[t].pc \in {"ci_type", "ci_call"} /\ op'[t].slot # NULL
    <3>1. CASE op' = op
      BY <1>1, <2>1, <3>1 DEF TypeOK
    <3>2. CASE op' = [op EXCEPT ![t].pc = "ci_call"]
      <4>1. op[t] \in Op /\ op[t].cb = NULL
        BY <1>1, <2>1 DEF TypeOK, CallInv, HoldingPCs
      <4>2. [op[t] EXCEPT !.pc = "ci_call"] \in Op
        BY <4>1 DEF Op, PCs
      <4>3. /\ [op[t] EXCEPT !.pc = "ci_call"].pc = "ci_call"
            /\ [op[t] EXCEPT !.pc = "ci_call"].cb = NULL
            /\ [op[t] EXCEPT !.pc = "ci_call"].slot = op[t].slot
        BY <4>1 DEF Op
      <4> QED  BY <1>1, <2>1, <3>2, <4>2, <4>3 DEF TypeOK
    <3> QED  BY <2>2, <3>1, <3>2
  <2>4. exit' \in {"running", "abort", "trap", "segv"}
    BY <2>2 DEF TypeOK
  <2> QED  BY <1>1, <2>1, <2>3, <2>4, QuietStep DEF TypeOK
<1>4. CASE CallIndirectCall(t)
  <2>1. /\ op[t].pc = "ci_call" /\ op[t].slot \in Slots
        /\ UNCHANGED <<table, maps, held>>
        /\ CurrentIndirectCall' =
              [CurrentIndirectCall EXCEPT ![t] = op[t].slot]
    BY <1>4 DEF CallIndirectCall, At, CallInv, TypeOK, Op,
                SetCurrentIndirectCall
  <2>2. CurrentIndirectCall' \in [Threads -> Slots]
    BY <2>1 DEF TypeOK
  <2>3. PICK callee \in {op[t].fn, tableFunc[op[t].slot]} :
          \/ op' = op /\ depth' = depth /\ exit' = "segv"
          \/ op' = [op EXCEPT ![t] = Idle] /\ depth' = depth /\ exit' = exit
          \/ /\ op' = [op EXCEPT ![t] = Idle] /\ exit' = exit
             /\ depth' = [depth EXCEPT ![t] = @ + 1]
          \/ /\ callee # NULL /\ depth' = depth /\ exit' = exit
             /\ op' = [op EXCEPT ![t].pc = "stub", ![t].fn = callee]
    BY <1>4 DEF CallIndirectCall
  <2>4. callee \in Funcs \cup {NULL}
    BY <1>1, <2>1, <2>3 DEF TypeOK, Op
  <2>5. /\ \A u \in Threads : u # t => op'[u] = op[u]
        /\ op' \in [Threads -> Op] /\ op'[t].cb = NULL
        /\ op'[t].pc \in {"idle", "ci_call", "stub"}
        /\ op'[t].pc # "idle" => op'[t].slot # NULL
    <3>1. CASE op' = op
      BY <1>1, <2>1, <3>1 DEF TypeOK, Op
    <3>2. CASE op' = [op EXCEPT ![t] = Idle]
      BY <3>2 DEF TypeOK, Idle, Op, PCs
    <3>3. CASE op' = [op EXCEPT ![t].pc = "stub", ![t].fn = callee]
      <4>1. [op[t] EXCEPT !.pc = "stub", !.fn = callee] \in Op
        BY <1>1, <2>4 DEF Op, PCs
      <4>2. op' = [op EXCEPT ![t] =
                     [op[t] EXCEPT !.pc = "stub", !.fn = callee]]
        BY <3>3 DEF TypeOK
      <4> QED  BY <1>1, <2>1, <4>1, <4>2 DEF TypeOK, Op
    <3> QED  BY <2>3, <3>1, <3>2, <3>3
  <2>6. /\ depth' \in [Threads -> Nat]
        /\ exit' \in {"running", "abort", "trap", "segv"}
    <3>1. depth \in [Threads -> Nat] /\ depth[t] + 1 \in Nat
      BY DEF TypeOK
    <3>2. [depth EXCEPT ![t] = @ + 1] \in [Threads -> Nat]
      BY <3>1
    <3> QED  BY <2>3, <3>1, <3>2 DEF TypeOK
  <2> QED  BY <1>1, <2>1, <2>2, <2>5, <2>6, QuietStep
<1> QED  BY <1>2, <1>3, <1>4

(* Every step of the system keeps the invariant.                            *)
LEMMA NextIInv == IInv /\ [Next]_vars => IInv'
<1> SUFFICES ASSUME IInv, [Next]_vars PROVE IInv'
  OBVIOUS
<1>1. CASE UNCHANGED vars
  BY <1>1 DEF vars, table, maps, held, IInv, TypeOK, MutexInv, TypesInv,
       CallInv, PendingTypeInv, PendingSlotInv, HandleIntact, SlotsOwned,
       Holds, Target, wasm_rt_get_registered_func
<1>2. ASSUME NEW t \in Threads, InvokeFunction(t) \/ Return(t)
      PROVE  IInv'
  <2>1. op[t].pc = "idle" /\ op[t].cb = NULL
    BY <1>2 DEF InvokeFunction, Return, InHost, InWasm, IInv, CallInv,
                HoldingPCs
  <2>2. depth' \in [Threads -> Nat]
    <3>1. depth \in [Threads -> Nat]
      BY DEF IInv, TypeOK
    <3>2. CASE InvokeFunction(t)
      BY <3>1, <3>2 DEF InvokeFunction
    <3>3. CASE Return(t)
      <4>1. depth[t] - 1 \in Nat
        BY <3>1, <3>3 DEF Return
      <4> QED  BY <3>1, <3>3, <4>1 DEF Return
    <3> QED  BY <1>2, <3>2, <3>3
  <2> QED  BY <1>2, <2>1, <2>2, QuietStep
           DEF InvokeFunction, Return, IInv, TypeOK
<1>3. ASSUME NEW t \in Threads, RegisterFuncFull(t) PROVE IInv'
  BY <1>3 DEF RegisterFuncFull, table, maps, held, IInv, TypeOK, MutexInv,
       TypesInv, CallInv, PendingTypeInv, PendingSlotInv, HandleIntact,
       SlotsOwned, Holds, Target, wasm_rt_get_registered_func
<1> QED
  BY <1>1, <1>2, <1>3, RegisterFuncStep, RegisterFuncTypeStep,
     RegisterFuncReturnStep, RegisterMapStep, UnregisterCallbackStep,
     UnregisterFuncStep, UnregisterFuncReturnStep, CallIndirectStep,
     CallbackStubStep
  DEF Next, Continue, Start, Ended

-----------------------------------------------------------------------------
(* The reachable states satisfy the inductive invariant.                    *)
THEOREM Invariance == Spec => []IInv
BY InitIInv, NextIInv, PTL DEF Spec

(* Every variable of the registration machinery keeps its type.             *)
THEOREM TypeCorrect == Spec => []TypeOK
BY Invariance, PTL DEF IInv

(* A handle the host holds names a slot whose stub, type id and map entries *)
(* are its own, whatever the other threads register, unregister and call.   *)
THEOREM HandleIntactAlways == Spec => []HandleIntact
BY Invariance, PTL DEF IInv

(* Slots of the function table neither leak nor have two owners.            *)
THEOREM SlotsOwnedAlways == Spec => []SlotsOwned
BY Invariance, PTL DEF IInv

(* Registration never reassigns a type id.                                  *)
THEOREM TypeIdsStableAlways == Spec => TypeIdsStable
<1> DEFINE Stable == /\ Len(g_func_types') >= Len(g_func_types)
                     /\ \A i \in DOMAIN g_func_types :
                           g_func_types'[i] = g_func_types[i]
                     /\ NoDuplicates(g_func_types')
<1>1. IInv /\ [Next]_vars => [Stable]_vars
  <2> SUFFICES ASSUME IInv, [Next]_vars, ~UNCHANGED vars PROVE Stable
    OBVIOUS
  <2>1. g_func_types \in Seq(Types) /\ NoDuplicates(g_func_types)
    BY DEF IInv, TypeOK, TypesInv
  <2>2. CASE g_func_types' = g_func_types
    BY <2>1, <2>2
  <2>3. ASSUME NEW t \in Threads, NEW c \in Callbacks, NEW b \in BOOLEAN,
               RegisterFuncType(t, c, b), g_func_types' # g_func_types
        PROVE  Stable
    <3>1. /\ ~IsRegistered(g_func_types, FuncType(c))
          /\ g_func_types' = Append(g_func_types, FuncType(c))
      BY <2>3 DEF RegisterFuncType
    <3>2. FuncType(c) \in Types
      BY ConstantsAssumption DEF FuncType
    <3>3. /\ NoDuplicates(g_func_types')
          /\ Len(g_func_types') = Len(g_func_types) + 1
          /\ \A i \in DOMAIN g_func_types : g_func_types'[i] = g_func_types[i]
      BY <2>1, <3>1, <3>2, AppendDistinct
    <3> QED  BY <2>1, <3>3
  <2> QED  BY <2>2, <2>3
           DEF Next, Continue, Start, Ended, vars, table, InvokeFunction,
               Return, RegisterFunc, RegisterFuncFull, RegisterFuncReturn,
               RegisterMap, UnregisterCallback, UnregisterFunc,
               UnregisterFuncReturn, CallIndirect, CallIndirectType,
               CallIndirectCall, CallbackStub
<1> QED  BY <1>1, Invariance, PTL DEF Spec, TypeIdsStable

(* A stub that is reached through a slot the host holds calls the callback  *)
(* of that slot.                                                            *)
THEOREM HeldIsCalledAlways == Spec => HeldIsCalled
<1> DEFINE Called ==
      \A t \in Threads, c \in Callbacks :
         CallIndirectCall(t) /\ op'[t].pc = "stub" /\ handle[c] # NULL
         /\ handle[c] = op[t].slot /\ op'[t].fn = tableFunc[op[t].slot] =>
               /\ op'[t].fn = Stub(Sig[c])
               /\ registerCallbackMap'[CurrentIndirectCall'[t]] = c
               /\ callbackStateMap'[CurrentIndirectCall'[t]] = c
<1>1. IInv => [Called]_vars
  <2> SUFFICES ASSUME IInv, NEW t \in Threads, NEW c \in Callbacks,
                      CallIndirectCall(t), handle[c] # NULL,
                      handle[c] = op[t].slot,
                      op'[t].fn = tableFunc[op[t].slot]
               PROVE  /\ op'[t].fn = Stub(Sig[c])
                      /\ registerCallbackMap'[CurrentIndirectCall'[t]] = c
                      /\ callbackStateMap'[CurrentIndirectCall'[t]] = c
    OBVIOUS
  <2>1. CurrentIndirectCall'[t] = handle[c] /\ UNCHANGED maps
    BY DEF CallIndirectCall, SetCurrentIndirectCall, IInv, TypeOK
  <2>2. /\ wasm_rt_get_registered_func(handle[c]) = Stub(Sig[c])
        /\ registerCallbackMap[handle[c]] = c
        /\ callbackStateMap[handle[c]] = c
    BY DEF IInv, HandleIntact
  <2>3. handle[c] \in Slots
    BY DEF IInv, TypeOK
  <2>4. tableFunc[handle[c]] = Stub(Sig[c])
    BY <2>2, <2>3, ConstantsAssumption
    DEF wasm_rt_get_registered_func, Slots
  <2> QED  BY <2>1, <2>2, <2>4 DEF maps
<1> QED  BY <1>1, Invariance, PTL DEF HeldIsCalled

=============================================================================
