---------------------------- MODULE SandboxMemory -----------------------------
(***************************************************************************)
(* The linear memory of one sandbox: its layout (wasm_set_constants), the  *)
(* end of its heap (sbrk_impl), and the conversion of pointers between the *)
(* address space of the host and the sandbox (wasm_sandbox.cpp).           *)
(*                                                                         *)
(* Words are unsigned numbers below WORD, or two's complement numbers      *)
(* between -HALF and HALF - 1.  Sandboxed code can store to any address of *)
(* its memory, the one that holds the end of the heap included, and can    *)
(* return any word from malloc.                                            *)
(***************************************************************************)
EXTENDS Integers

CONSTANTS
    HALF,          \* 2^31
    PAGE_SIZE,
    GLOBAL_BASE,
    TOTAL_STACK,
    StaticBumps,   \* possible values of STATIC_BUMP of the module
    heap_base,     \* Z___heap_base of the module
    MemoryBase,    \* host address at which calloc placed the memory
    Args,          \* words the sandboxed code passes, returns or stores
    HostAddresses  \* pointers the host passes

WORD == 2 * HALF

STACK_ALIGN == 16

ASSUME ConstantsAssumption ==
    /\ HALF \in Nat /\ PAGE_SIZE \in Nat \ {0}
    /\ PAGE_SIZE < HALF
    /\ GLOBAL_BASE \in Nat /\ GLOBAL_BASE % STACK_ALIGN = 0
    /\ GLOBAL_BASE >= 4
    /\ TOTAL_STACK \in Nat /\ TOTAL_STACK % STACK_ALIGN = 0
    /\ TOTAL_STACK >= 8
    /\ StaticBumps \subseteq Nat
    /\ \A b \in StaticBumps : GLOBAL_BASE + b + TOTAL_STACK + 64 < WORD
    /\ heap_base \in Nat
    /\ MemoryBase \in Nat \ {0}
    /\ Args \subseteq 0 .. WORD - 1
    /\ HostAddresses \subseteq Nat

u32(x) == x % WORD
s32(x) == IF u32(x) >= HALF THEN u32(x) - WORD ELSE u32(x)

(* All of the memory, preallocated: 2GB - 1 page.                           *)
getTotalMemory == u32(HALF - PAGE_SIZE)

VARIABLES
    STATIC_BUMP, \* the size of the static data of the module that is loaded
    state,       \* "new", "running", or how the process ended
    layout,      \* the constants wasm_set_constants computes
    dynamicTop,  \* the word at DYNAMICTOP_PTR
    hostPtr,     \* the last pointer the host received, 0 for nullptr
    fromMalloc,  \* it came from mallocInSandbox
    sandboxPtr   \* the last pointer converted for the sandbox

vars == <<STATIC_BUMP, state, layout, dynamicTop,
          hostPtr, fromMalloc, sandboxPtr>>
pointers == <<hostPtr, fromMalloc, sandboxPtr>>

-----------------------------------------------------------------------------
(* wasm_set_constants *)

(* The new STATICTOP of staticAlloc.                                        *)
StaticTop(top, size) ==
    (u32(top + size + 15) \div STACK_ALIGN) * STACK_ALIGN

(* size / STACK_ALIGN is an integer division, so ceil changes nothing.      *)
alignMemory(size) == (size \div STACK_ALIGN) * STACK_ALIGN

(* What is laid out from tempDoublePtr on.                                  *)
LayoutFrom(tempDoublePtr) ==
    LET DYNAMICTOP_PTR == u32(tempDoublePtr + 16)
        STATICTOP == StaticTop(DYNAMICTOP_PTR, 4)
        STACK_BASE == alignMemory(STATICTOP)
        STACK_MAX == u32(STACK_BASE + TOTAL_STACK)
    IN  [tempDoublePtr |-> tempDoublePtr, DYNAMICTOP_PTR |-> DYNAMICTOP_PTR,
         STATICTOP |-> STATICTOP, STACK_BASE |-> STACK_BASE,
         STACK_MAX |-> STACK_MAX, DYNAMIC_BASE |-> alignMemory(STACK_MAX)]

(* Mutant: the static data are not reserved, tempDoublePtr is STATIC_BASE.  *)
LayoutOverlap(bump) == LayoutFrom(u32(GLOBAL_BASE))

Layout(bump) == LayoutFrom(u32(GLOBAL_BASE + bump))

(* The assertions of wasm_set_constants, staticAlloc and writeStackCookie.  *)
LayoutAsserted(l) ==
    /\ l.tempDoublePtr % 8 = 0
    /\ l.STATICTOP < getTotalMemory
    /\ l.DYNAMIC_BASE < getTotalMemory
    /\ l.STACK_MAX % 4 = 0

NoLayout == [tempDoublePtr |-> 0, DYNAMICTOP_PTR |-> 0, STATICTOP |-> 0,
             STACK_BASE |-> 0, STACK_MAX |-> 0, DYNAMIC_BASE |-> 0]

Init ==
    /\ STATIC_BUMP \in StaticBumps
    /\ state = "new"
    /\ layout = NoLayout
    /\ dynamicTop = 0
    /\ hostPtr = 0 /\ fromMalloc = FALSE
    /\ sandboxPtr = 0

wasm_set_constants ==
    /\ state = "new"
    /\ layout' = Layout(STATIC_BUMP)
    /\ IF LayoutAsserted(layout')
       THEN state' = "running" /\ dynamicTop' = s32(layout'.DYNAMIC_BASE)
       ELSE state' = "abort" /\ UNCHANGED dynamicTop
    /\ UNCHANGED <<STATIC_BUMP, pointers>>

-----------------------------------------------------------------------------
(* The end of the heap *)

(* Mutant: the test for a negative end is missing.                          *)
SbrkFailsNoUnderflow(increment, new, wrapSeen) == increment > 0 /\ wrapSeen

(* The signed addition overflows: the outcome of the first comparison is    *)
(* up to the compiler, the value wraps.                                     *)
SbrkFails(increment, new, wrapSeen) ==
    (increment > 0 /\ wrapSeen) \/ new < 0

sbrk_impl(increment_unsigned) ==
    LET increment == s32(increment_unsigned)
        newDynamicTop == s32(dynamicTop + increment)
        overflow == dynamicTop + increment # newDynamicTop
    IN  /\ state = "running"
        /\ \E wrapSeen \in IF overflow THEN BOOLEAN ELSE {FALSE} :
              IF SbrkFails(increment, newDynamicTop, wrapSeen)
              THEN state' = "abort" /\ UNCHANGED dynamicTop
              ELSE /\ dynamicTop' = newDynamicTop
                   /\ state' = IF newDynamicTop > s32(getTotalMemory)
                               THEN "abort" ELSE state
        /\ UNCHANGED <<STATIC_BUMP, layout, pointers>>

(* A store of the sandboxed code to DYNAMICTOP_PTR.                         *)
WasmStore(word) ==
    /\ state = "running"
    /\ dynamicTop' = s32(word)
    /\ UNCHANGED <<STATIC_BUMP, state, layout, pointers>>

wasm_rt_grow_memory(pages) ==
    /\ state = "running"
    /\ state' = "abort"
    /\ UNCHANGED <<STATIC_BUMP, layout, dynamicTop, pointers>>

-----------------------------------------------------------------------------
(* Pointers.  ABORT stands for the abort of an invalid pointer.             *)

ABORT == -1

wasm_memory_size == getTotalMemory

(* Mutant: the end of the memory is taken for a part of it.                 *)
GetUnsandboxedOffByOne(p) ==
    CASE u32(p) = 0 -> 0
      [] 0 < u32(p) /\ u32(p) <= wasm_memory_size -> MemoryBase + u32(p)
      [] OTHER -> ABORT

getUnsandboxedPointer(p) ==
    CASE u32(p) = 0 -> 0
      [] 0 < u32(p) /\ u32(p) < wasm_memory_size -> MemoryBase + u32(p)
      [] OTHER -> ABORT

getSandboxedPointer(p) ==
    CASE p = 0 -> 0
      [] p = MemoryBase -> ABORT
      [] p > MemoryBase /\ p - MemoryBase < wasm_memory_size -> p - MemoryBase
      [] OTHER -> ABORT

isAddressInNonSandboxMemoryOrNull(p) ==
    p = 0 \/ p < MemoryBase \/ p >= MemoryBase + wasm_memory_size

isAddressInSandboxMemoryOrNull(p) ==
    p = 0 \/ ~(p < MemoryBase \/ p >= MemoryBase + wasm_memory_size)

(* convertReturnValue of a pointer, and getUnsandboxedPointer.              *)
ReceivePointer(p) ==
    /\ state = "running"
    /\ IF getUnsandboxedPointer(p) = ABORT
       THEN state' = "abort" /\ UNCHANGED pointers
       ELSE /\ hostPtr' = getUnsandboxedPointer(p)
            /\ fromMalloc' = FALSE
            /\ UNCHANGED <<state, sandboxPtr>>
    /\ UNCHANGED <<STATIC_BUMP, layout, dynamicTop>>

(* mallocInSandbox: whatever the sandbox's malloc returns.                  *)
MallocInSandbox(ret) ==
    /\ state = "running"
    /\ IF ret # 0 /\ (ret < heap_base \/ getUnsandboxedPointer(ret) = ABORT)
       THEN state' = "abort" /\ UNCHANGED pointers
       ELSE /\ hostPtr' = getUnsandboxedPointer(ret)
            /\ fromMalloc' = TRUE
            /\ UNCHANGED <<state, sandboxPtr>>
    /\ UNCHANGED <<STATIC_BUMP, layout, dynamicTop>>

(* freeInSandbox and getSandboxedPointer.                                   *)
SendPointer(p) ==
    /\ state = "running"
    /\ IF getSandboxedPointer(p) = ABORT
       THEN state' = "abort" /\ UNCHANGED pointers
       ELSE /\ sandboxPtr' = getSandboxedPointer(p)
            /\ UNCHANGED <<state, hostPtr, fromMalloc>>
    /\ UNCHANGED <<STATIC_BUMP, layout, dynamicTop>>

Ended == state \notin {"new", "running"} /\ UNCHANGED vars

Words == 0 .. WORD - 1

Next ==
    \/ wasm_set_constants
    \/ \E w \in Args : \/ sbrk_impl(w) \/ WasmStore(w)
                       \/ ReceivePointer(w) \/ MallocInSandbox(w)
                       \/ wasm_rt_grow_memory(w)
    \/ \E p \in HostAddresses : SendPointer(p)
    \/ Ended

Spec == Init /\ [][Next]_vars

-----------------------------------------------------------------------------
(* Properties *)

TypeOK ==
    /\ STATIC_BUMP \in StaticBumps
    /\ state \in {"new", "running", "abort"}
    /\ layout \in [tempDoublePtr : Words, DYNAMICTOP_PTR : Words,
                   STATICTOP : Words, STACK_BASE : Words,
                   STACK_MAX : Words, DYNAMIC_BASE : Words]
    /\ dynamicTop \in -HALF .. HALF - 1
    /\ hostPtr \in Nat /\ sandboxPtr \in Nat /\ fromMalloc \in BOOLEAN

(* Whatever the size of the static data of the module, the regions of its   *)
(* memory follow one another without overlap: the sentinel at address 0,    *)
(* the static data from GLOBAL_BASE on, all STATIC_BUMP bytes of them,      *)
(* tempDoublePtr, the word with the end of the heap, the stack with the     *)
(* cookie at its end, and a heap that begins inside the memory.             *)
LayoutDisjoint ==
    state = "running" =>
        /\ 4 <= GLOBAL_BASE
        /\ GLOBAL_BASE + STATIC_BUMP <= layout.tempDoublePtr
        /\ layout.tempDoublePtr + 16 <= layout.DYNAMICTOP_PTR
        /\ layout.DYNAMICTOP_PTR + 4 <= layout.STACK_BASE
        /\ layout.STACK_BASE <= layout.STACK_MAX - 8
        /\ layout.STACK_MAX <= layout.DYNAMIC_BASE
        /\ layout.DYNAMIC_BASE < wasm_memory_size

(* An sbrk that returns leaves the end of the heap inside the memory,       *)
(* whatever the sandboxed code had stored there and whatever the compiler   *)
(* makes of the signed overflow.  Unless the code had stored a negative end *)
(* of its own, it has moved by exactly the argument: no wrap-around gets    *)
(* through.                                                                 *)
SbrkSound ==
    [][\A w \in Args :
         sbrk_impl(w) /\ state' = "running" =>
            /\ 0 <= dynamicTop' /\ dynamicTop' <= wasm_memory_size
            /\ dynamicTop >= 0 => dynamicTop' = dynamicTop + s32(w)]_vars

(* Every pointer the host receives is null or lies inside the memory of the *)
(* sandbox and not on its sentinel; one from mallocInSandbox lies in the    *)
(* heap.  isAddressInSandboxMemoryOrNull agrees.                            *)
PointersInside ==
    /\ hostPtr # 0 =>
          /\ MemoryBase < hostPtr /\ hostPtr < MemoryBase + wasm_memory_size
          /\ ~isAddressInNonSandboxMemoryOrNull(hostPtr)
          /\ fromMalloc => hostPtr >= MemoryBase + heap_base
    /\ isAddressInSandboxMemoryOrNull(hostPtr)

(* A pointer the host received can be sent back, and the sandbox sees the   *)
(* word that it had returned; one that was sent comes back unchanged.       *)
RoundTrip ==
    /\ /\ getSandboxedPointer(hostPtr) # ABORT
       /\ getUnsandboxedPointer(getSandboxedPointer(hostPtr)) = hostPtr
    /\ getSandboxedPointer(getUnsandboxedPointer(sandboxPtr)) = sandboxPtr

(* The inductive invariant: what was sent is an offset into the memory.     *)
IInv == /\ TypeOK /\ LayoutDisjoint /\ PointersInside
        /\ sandboxPtr < wasm_memory_size

=============================================================================
