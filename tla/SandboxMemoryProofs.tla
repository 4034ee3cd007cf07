------------------------- MODULE SandboxMemoryProofs --------------------------
(***************************************************************************)
(* Proofs about SandboxMemory for every width of the words, every size of  *)
(* the pages, the static data and the stack, and every place of the memory *)
(* in the address space of the host.                                       *)
(***************************************************************************)
EXTENDS SandboxMemory, TLAPS

-----------------------------------------------------------------------------
(* Arithmetic of words *)

(* A number that fits in a word is its own value.                           *)
LEMMA U32Small == ASSUME NEW x \in Words PROVE u32(x) = x
  BY ConstantsAssumption DEF Words, u32, WORD

(* Every number is converted to a word.                                     *)
LEMMA U32Word == ASSUME NEW x \in Int PROVE u32(x) \in Words
  BY ConstantsAssumption DEF Words, u32, WORD

(* A small negative number wraps around once.                               *)
LEMMA U32Negative == ASSUME NEW x \in Int, -WORD <= x, x < 0
                     PROVE  u32(x) = x + WORD
  BY ConstantsAssumption DEF u32, WORD

(* A signed word has the range of one.                                      *)
LEMMA S32Range == ASSUME NEW x \in Int PROVE s32(x) \in -HALF .. HALF - 1
  BY U32Word, ConstantsAssumption DEF s32, Words, WORD

(* The conversion to a signed word keeps what it can represent, and makes   *)
(* a sum that is too large negative.                                        *)
LEMMA S32Value == ASSUME NEW x \in Int, -HALF <= x, x < WORD
                  PROVE  s32(x) = IF x < HALF THEN x ELSE x - WORD
<1>1. CASE x >= 0
  BY <1>1, U32Small, ConstantsAssumption DEF s32, Words, WORD
<1>2. CASE x < 0
  BY <1>2, U32Negative, ConstantsAssumption DEF s32, WORD
<1> QED BY <1>1, <1>2

(* The memory has its nominal size.                                         *)
LEMMA MemorySize == /\ wasm_memory_size = HALF - PAGE_SIZE
                    /\ s32(getTotalMemory) = HALF - PAGE_SIZE
                    /\ getTotalMemory = HALF - PAGE_SIZE
                    /\ HALF \in Nat /\ PAGE_SIZE \in Nat \ {0}
                    /\ PAGE_SIZE < HALF /\ WORD = 2 * HALF
<1>1. getTotalMemory = HALF - PAGE_SIZE
  BY U32Small, ConstantsAssumption DEF getTotalMemory, Words, WORD
<1>2. s32(getTotalMemory) = HALF - PAGE_SIZE
  BY <1>1, S32Value, ConstantsAssumption DEF WORD
<1> QED BY <1>1, <1>2, ConstantsAssumption DEF wasm_memory_size, WORD

-----------------------------------------------------------------------------
(* The layout *)

(* No sum of wasm_set_constants wraps around, and rounding keeps the order. *)
LEMMA LayoutOrder ==
  ASSUME NEW b \in StaticBumps
  PROVE  LET l == Layout(b)
         IN  /\ l.tempDoublePtr = GLOBAL_BASE + b
             /\ l.DYNAMICTOP_PTR = GLOBAL_BASE + b + 16
             /\ l.STATICTOP >= l.DYNAMICTOP_PTR + 4
             /\ l.STATICTOP <= l.DYNAMICTOP_PTR + 19
             /\ l.STATICTOP % STACK_ALIGN = 0
             /\ l.STACK_BASE = l.STATICTOP
             /\ l.STACK_MAX = l.STATICTOP + TOTAL_STACK
             /\ l.DYNAMIC_BASE = l.STACK_MAX
<1> DEFINE t == GLOBAL_BASE + b
           top == ((t + 16 + 4 + 15) \div 16) * 16
<1> USE ConstantsAssumption
<1>1. b \in Nat /\ t \in Nat /\ top \in Nat /\ t + TOTAL_STACK + 64 < WORD
      /\ WORD \in Nat /\ TOTAL_STACK \in Nat /\ TOTAL_STACK % 16 = 0
  BY DEF WORD, STACK_ALIGN
<1>2. top >= t + 20 /\ top <= t + 35 /\ top % 16 = 0
  BY <1>1
<1>3. u32(t) = t /\ u32(t + 16) = t + 16
      /\ u32(t + 16 + 4 + 15) = t + 16 + 4 + 15
      /\ u32(top + TOTAL_STACK) = top + TOTAL_STACK
  BY <1>1, <1>2, U32Small DEF Words
<1>4. StaticTop(t + 16, 4) = top
  BY <1>3 DEF StaticTop, STACK_ALIGN
<1>5. alignMemory(top) = top /\ alignMemory(top + TOTAL_STACK) = top + TOTAL_STACK
  BY <1>1, <1>2 DEF alignMemory, STACK_ALIGN
<1>6. Layout(b) = [tempDoublePtr |-> t, DYNAMICTOP_PTR |-> t + 16,
                   STATICTOP |-> top, STACK_BASE |-> top,
                   STACK_MAX |-> top + TOTAL_STACK,
                   DYNAMIC_BASE |-> top + TOTAL_STACK]
  BY <1>3, <1>4, <1>5 DEF Layout, LayoutFrom
<1> HIDE DEF top
<1> QED BY <1>1, <1>2, <1>6 DEF STACK_ALIGN

-----------------------------------------------------------------------------
(* Pointers *)

(* A word from the sandbox becomes null, an address inside, or an abort.    *)
LEMMA UnsandboxedInside ==
  ASSUME NEW p \in Words, getUnsandboxedPointer(p) # ABORT
  PROVE  \/ p = 0 /\ getUnsandboxedPointer(p) = 0
         \/ /\ 0 < p /\ p < wasm_memory_size
            /\ getUnsandboxedPointer(p) = MemoryBase + p
<1>1. u32(p) = p
  BY U32Small
<1> QED
  BY <1>1, MemorySize DEF getUnsandboxedPointer, Words

(* An address of the host becomes null, an offset inside, or an abort.      *)
LEMMA SandboxedInside ==
  ASSUME NEW p \in Nat, getSandboxedPointer(p) # ABORT
  PROVE  \/ p = 0 /\ getSandboxedPointer(p) = 0
         \/ /\ MemoryBase < p /\ p < MemoryBase + wasm_memory_size
            /\ getSandboxedPointer(p) = p - MemoryBase
  BY MemorySize, ConstantsAssumption DEF getSandboxedPointer

(* Inside of the memory the two conversions undo each other.                *)
LEMMA Inverse ==
  ASSUME NEW x \in Nat, 0 < x, x < wasm_memory_size
  PROVE  /\ getUnsandboxedPointer(x) = MemoryBase + x
         /\ getSandboxedPointer(MemoryBase + x) = x
<1>1. x \in Words
  BY MemorySize DEF Words
<1>2. u32(x) = x
  BY <1>1, U32Small
<1>3. getUnsandboxedPointer(x) = MemoryBase + x
  BY <1>2, MemorySize DEF getUnsandboxedPointer
<1>4. getSandboxedPointer(MemoryBase + x) = x
  <2>1. /\ MemoryBase + x # 0 /\ MemoryBase + x # MemoryBase
        /\ MemoryBase + x > MemoryBase /\ (MemoryBase + x) - MemoryBase = x
    BY ConstantsAssumption
  <2> QED BY <2>1, MemorySize DEF getSandboxedPointer
<1> QED BY <1>3, <1>4

(* Null stands for null.                                                    *)
LEMMA InverseNull == getUnsandboxedPointer(0) = 0 /\ getSandboxedPointer(0) = 0
<1>1. u32(0) = 0
  BY U32Small, MemorySize DEF Words
<1> QED BY <1>1, ConstantsAssumption DEF getUnsandboxedPointer, getSandboxedPointer

-----------------------------------------------------------------------------
(* The invariant *)

(* The memory has no layout yet.                                            *)
LEMMA InitIInv == ASSUME Init PROVE IInv
<1>1. TypeOK
  <2>1. 0 \in Words /\ 0 \in -HALF .. HALF - 1
    BY MemorySize DEF Words
  <2>2. NoLayout \in [tempDoublePtr : Words, DYNAMICTOP_PTR : Words,
                      STATICTOP : Words, STACK_BASE : Words,
                      STACK_MAX : Words, DYNAMIC_BASE : Words]
    BY <2>1 DEF NoLayout
  <2> QED BY <2>1, <2>2 DEF Init, TypeOK
<1>2. LayoutDisjoint
  BY DEF Init, LayoutDisjoint
<1>3. PointersInside /\ sandboxPtr < wasm_memory_size
  BY MemorySize DEF Init, PointersInside, isAddressInSandboxMemoryOrNull
<1> QED BY <1>1, <1>2, <1>3 DEF IInv

(* Actions that leave the pointers alone preserve what is said of them.     *)
LEMMA PointersKept ==
  ASSUME IInv, UNCHANGED pointers
  PROVE  /\ PointersInside' /\ sandboxPtr' < wasm_memory_size
         /\ hostPtr' \in Nat /\ sandboxPtr' \in Nat /\ fromMalloc' \in BOOLEAN
  BY DEF IInv, TypeOK, PointersInside, pointers,
         isAddressInSandboxMemoryOrNull, isAddressInNonSandboxMemoryOrNull

(* Actions that keep the layout and do not start the sandbox preserve it.   *)
LEMMA LayoutKept ==
  ASSUME IInv, layout' = layout, STATIC_BUMP' = STATIC_BUMP,
         state' = "running" => state = "running"
  PROVE  LayoutDisjoint' /\ STATIC_BUMP' \in StaticBumps /\ layout' \in [tempDoublePtr : Words,
            DYNAMICTOP_PTR : Words, STATICTOP : Words, STACK_BASE : Words,
            STACK_MAX : Words, DYNAMIC_BASE : Words]
  BY DEF IInv, TypeOK, LayoutDisjoint

(* The regions that wasm_set_constants lays out do not overlap.             *)
LEMMA SetConstantsIInv ==
  ASSUME IInv, wasm_set_constants
  PROVE  IInv'
<1> DEFINE b == STATIC_BUMP
           l == Layout(b)
<1>0. b \in StaticBumps
  BY DEF IInv, TypeOK
<1>1. /\ l.tempDoublePtr = GLOBAL_BASE + b
      /\ l.DYNAMICTOP_PTR = GLOBAL_BASE + b + 16
      /\ l.STATICTOP >= l.DYNAMICTOP_PTR + 4
      /\ l.STATICTOP <= l.DYNAMICTOP_PTR + 19
      /\ l.STACK_BASE = l.STATICTOP
      /\ l.STACK_MAX = l.STATICTOP + TOTAL_STACK
      /\ l.DYNAMIC_BASE = l.STACK_MAX
  BY <1>0, LayoutOrder
<1>2. l.STATICTOP \in Int
  BY <1>0, ConstantsAssumption
  DEF Layout, LayoutFrom, StaticTop, u32, WORD, STACK_ALIGN
<1>3. l \in [tempDoublePtr : Words, DYNAMICTOP_PTR : Words,
             STATICTOP : Words, STACK_BASE : Words,
             STACK_MAX : Words, DYNAMIC_BASE : Words]
  <2>1. /\ l.tempDoublePtr \in Words /\ l.DYNAMICTOP_PTR \in Words
        /\ l.STATICTOP \in Words /\ l.STACK_BASE \in Words
        /\ l.STACK_MAX \in Words /\ l.DYNAMIC_BASE \in Words
    BY <1>0, <1>1, <1>2, ConstantsAssumption DEF Words, WORD
  <2> QED BY <2>1 DEF Layout, LayoutFrom
<1>4. layout' = l /\ STATIC_BUMP' = b /\ UNCHANGED pointers
      /\ \/ /\ state' = "running" /\ dynamicTop' = s32(l.DYNAMIC_BASE)
            /\ LayoutAsserted(l)
         \/ state' = "abort" /\ dynamicTop' = dynamicTop
  BY DEF wasm_set_constants
<1> HIDE DEF l
<1>5. dynamicTop' \in -HALF .. HALF - 1
  <2>1. l.DYNAMIC_BASE \in Int
    BY <1>0, <1>1, <1>2, ConstantsAssumption
  <2> QED BY <1>4, <2>1, S32Range DEF IInv, TypeOK
<1>6. LayoutDisjoint'
  <2>1. SUFFICES ASSUME state' = "running" PROVE LayoutDisjoint'
    BY DEF LayoutDisjoint
  <2>2. l.DYNAMIC_BASE < wasm_memory_size
    BY <2>1, <1>4 DEF LayoutAsserted, wasm_memory_size
  <2>3. /\ 4 <= GLOBAL_BASE
        /\ GLOBAL_BASE + b <= l.tempDoublePtr
        /\ l.tempDoublePtr + 16 <= l.DYNAMICTOP_PTR
        /\ l.DYNAMICTOP_PTR + 4 <= l.STACK_BASE
        /\ l.STACK_BASE <= l.STACK_MAX - 8
        /\ l.STACK_MAX <= l.DYNAMIC_BASE
    BY <1>0, <1>1, <1>2, ConstantsAssumption
  <2> QED BY <2>2, <2>3, <1>4 DEF LayoutDisjoint
<1> QED
  BY <1>0, <1>3, <1>4, <1>5, <1>6, PointersKept DEF IInv, TypeOK

(* What sbrk_impl does when it returns.                                     *)
LEMMA SbrkStep ==
  ASSUME IInv, NEW w \in Args, sbrk_impl(w)
  PROVE  /\ dynamicTop' \in -HALF .. HALF - 1
         /\ state = "running" /\ state' \in {"running", "abort"}
         /\ UNCHANGED <<STATIC_BUMP, layout, pointers>>
         /\ state' = "running" =>
               /\ 0 <= dynamicTop' /\ dynamicTop' <= wasm_memory_size
               /\ dynamicTop >= 0 => dynamicTop' = dynamicTop + s32(w)
<1> DEFINE inc == s32(w)
           new == s32(dynamicTop + inc)
<1>1. inc \in -HALF .. HALF - 1 /\ dynamicTop \in -HALF .. HALF - 1
      /\ HALF \in Nat
  BY S32Range, ConstantsAssumption, MemorySize DEF IInv, TypeOK
<1>2. new \in -HALF .. HALF - 1
  BY <1>1, S32Range
<1>3. dynamicTop >= 0 =>
         new = IF dynamicTop + inc < HALF THEN dynamicTop + inc
               ELSE dynamicTop + inc - WORD
  BY <1>1, S32Value, MemorySize
<1>4. /\ state = "running" /\ UNCHANGED <<STATIC_BUMP, layout, pointers>>
      /\ \E wrapSeen \in BOOLEAN :
            IF SbrkFails(inc, new, wrapSeen)
            THEN state' = "abort" /\ UNCHANGED dynamicTop
            ELSE /\ dynamicTop' = new
                 /\ state' = IF new > s32(getTotalMemory)
                             THEN "abort" ELSE state
  BY DEF sbrk_impl
<1> HIDE DEF inc, new
<1>5. /\ state' = "abort" /\ dynamicTop' = dynamicTop
      \/ /\ dynamicTop' = new /\ ~(new < 0)
         /\ state' = IF new > s32(getTotalMemory) THEN "abort" ELSE "running"
  BY <1>4 DEF SbrkFails
<1>6. state' = "running" => /\ dynamicTop' = new /\ 0 <= new
                            /\ new <= wasm_memory_size
  BY <1>5, <1>2, MemorySize
<1>7. dynamicTop >= 0 /\ new >= 0 => new = dynamicTop + inc
  BY <1>1, <1>2, <1>3, MemorySize
<1> QED
  BY <1>1, <1>2, <1>4, <1>5, <1>6, <1>7 DEF inc

(* A pointer the host received is inside of the memory.                     *)
LEMMA ReceivedInside ==
  ASSUME NEW p \in Words, getUnsandboxedPointer(p) # ABORT,
         hostPtr' = getUnsandboxedPointer(p),
         fromMalloc' => p = 0 \/ p >= heap_base
  PROVE  PointersInside' /\ hostPtr' \in Nat
  BY UnsandboxedInside, MemorySize, ConstantsAssumption
  DEF PointersInside, isAddressInSandboxMemoryOrNull,
      isAddressInNonSandboxMemoryOrNull, Words

(* Every step preserves the invariant.                                      *)
LEMMA NextIInv == ASSUME IInv, [Next]_vars PROVE IInv'
<1> USE DEF vars
<1>0. Args \subseteq Words
  BY ConstantsAssumption DEF Words
<1>1. ASSUME wasm_set_constants PROVE IInv'
  BY <1>1, SetConstantsIInv
<1>2. ASSUME NEW w \in Args, sbrk_impl(w) PROVE IInv'
  <2>1. /\ dynamicTop' \in -HALF .. HALF - 1
        /\ state = "running" /\ state' \in {"running", "abort"}
        /\ layout' = layout /\ STATIC_BUMP' = STATIC_BUMP
        /\ UNCHANGED pointers
    BY <1>2, SbrkStep
  <2> QED BY <2>1, PointersKept, LayoutKept DEF IInv, TypeOK
<1>3. ASSUME NEW w \in Args, WasmStore(w) PROVE IInv'
  <2>1. dynamicTop' \in -HALF .. HALF - 1
    BY <1>3, <1>0, S32Range DEF WasmStore, Words
  <2> QED BY <1>3, <2>1, PointersKept, LayoutKept DEF WasmStore, IInv, TypeOK
<1>4. ASSUME NEW w \in Args, wasm_rt_grow_memory(w) PROVE IInv'
  BY <1>4, PointersKept, LayoutKept DEF wasm_rt_grow_memory, IInv, TypeOK
<1>5. ASSUME NEW w \in Args, ReceivePointer(w) PROVE IInv'
  <2>1. CASE getUnsandboxedPointer(w) = ABORT
    BY <1>5, <2>1, PointersKept, LayoutKept DEF ReceivePointer, IInv, TypeOK
  <2>2. CASE getUnsandboxedPointer(w) # ABORT
    <3>1. PointersInside' /\ hostPtr' \in Nat
      BY <1>0, <1>5, <2>2, ReceivedInside DEF ReceivePointer
    <3> QED BY <1>5, <2>2, <3>1, LayoutKept DEF ReceivePointer, IInv, TypeOK
  <2> QED BY <2>1, <2>2
<1>6. ASSUME NEW w \in Args, MallocInSandbox(w) PROVE IInv'
  <2>0. w \in Nat /\ heap_base \in Nat
    BY <1>0, ConstantsAssumption DEF Words, WORD
  <2>1. CASE w # 0 /\ (w < heap_base \/ getUnsandboxedPointer(w) = ABORT)
    BY <1>6, <2>1, PointersKept, LayoutKept DEF MallocInSandbox, IInv, TypeOK
  <2>2. CASE ~(w # 0 /\ (w < heap_base \/ getUnsandboxedPointer(w) = ABORT))
    <3>1. getUnsandboxedPointer(w) # ABORT /\ (w = 0 \/ w >= heap_base)
      BY <2>0, <2>2, InverseNull DEF ABORT
    <3>2. PointersInside' /\ hostPtr' \in Nat
      BY <1>0, <1>6, <2>2, <3>1, ReceivedInside DEF MallocInSandbox
    <3> QED BY <1>6, <2>2, <3>2, LayoutKept DEF MallocInSandbox, IInv, TypeOK
  <2> QED BY <2>1, <2>2
<1>7. ASSUME NEW p \in HostAddresses, SendPointer(p) PROVE IInv'
  <2>1. CASE getSandboxedPointer(p) = ABORT
    BY <1>7, <2>1, PointersKept, LayoutKept DEF SendPointer, IInv, TypeOK
  <2>2. CASE getSandboxedPointer(p) # ABORT
    <3>1. p \in Nat /\ MemoryBase \in Nat
      BY ConstantsAssumption
    <3>2. sandboxPtr' \in Nat /\ sandboxPtr' < wasm_memory_size
      BY <1>7, <2>2, <3>1, SandboxedInside, MemorySize DEF SendPointer
    <3>3. PointersInside'
      BY <1>7, <2>2 DEF SendPointer, IInv, PointersInside,
           isAddressInSandboxMemoryOrNull, isAddressInNonSandboxMemoryOrNull
    <3> QED BY <1>7, <2>2, <3>2, <3>3, LayoutKept DEF SendPointer, IInv, TypeOK
  <2> QED BY <2>1, <2>2
<1>8. CASE UNCHANGED vars
  BY <1>8, PointersKept, LayoutKept DEF IInv, TypeOK, pointers
<1> QED
  BY <1>1, <1>2, <1>3, <1>4, <1>5, <1>6, <1>7, <1>8 DEF Next, Ended

(* IInv is an invariant of the memory.                                      *)
THEOREM Invariance == Spec => []IInv
  BY InitIInv, NextIInv, PTL DEF Spec

-----------------------------------------------------------------------------
(* The properties *)

(* Whatever the size of the module's static data, of the stack and of the   *)
(* pages, no two regions of its memory overlap, the static data included.   *)
THEOREM LayoutDisjointAlways == Spec => []LayoutDisjoint
<1>1. IInv => LayoutDisjoint
  BY DEF IInv
<1> QED BY <1>1, Invariance, PTL

(* Whatever the sandboxed code returns, the host receives a pointer into    *)
(* the memory or null, and from mallocInSandbox one into the heap.          *)
THEOREM PointersInsideAlways == Spec => []PointersInside
<1>1. IInv => PointersInside
  BY DEF IInv
<1> QED BY <1>1, Invariance, PTL

(* getSandboxedPointer and getUnsandboxedPointer undo each other on all the *)
(* pointers that one of them lets pass.                                     *)
THEOREM RoundTripAlways == Spec => []RoundTrip
<1>1. ASSUME IInv PROVE RoundTrip
  <2>1. /\ getSandboxedPointer(hostPtr) # ABORT
        /\ getUnsandboxedPointer(getSandboxedPointer(hostPtr)) = hostPtr
    <3> DEFINE x == hostPtr - MemoryBase
    <3>1. CASE hostPtr = 0
      BY <3>1, InverseNull DEF ABORT
    <3>2. CASE hostPtr # 0
      <4>1. /\ x \in Nat /\ 0 < x /\ x < wasm_memory_size
            /\ hostPtr = MemoryBase + x
        BY <1>1, <3>2, ConstantsAssumption, MemorySize
        DEF IInv, TypeOK, PointersInside
      <4> HIDE DEF x
      <4> QED BY <4>1, Inverse DEF ABORT
    <3> QED BY <3>1, <3>2
  <2>2. getSandboxedPointer(getUnsandboxedPointer(sandboxPtr)) = sandboxPtr
    <3>1. sandboxPtr \in Nat /\ sandboxPtr < wasm_memory_size
      BY <1>1 DEF IInv, TypeOK
    <3> QED BY <3>1, Inverse, InverseNull
  <2> QED BY <2>1, <2>2 DEF RoundTrip
<1> QED BY <1>1, Invariance, PTL

(* No sbrk that returns has wrapped around or left the memory, whatever the *)
(* compiler makes of the signed overflow.                                   *)
THEOREM SbrkSoundAlways == Spec => SbrkSound
<1>1. ASSUME IInv
      PROVE  [\A w \in Args :
                sbrk_impl(w) /\ state' = "running" =>
                   /\ 0 <= dynamicTop' /\ dynamicTop' <= wasm_memory_size
                   /\ dynamicTop >= 0 => dynamicTop' = dynamicTop + s32(w)]_vars
  BY <1>1, SbrkStep
<1> QED BY <1>1, Invariance, PTL DEF SbrkSound

=============================================================================
