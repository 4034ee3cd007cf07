---------------------------- MODULE SandboxInvoke -----------------------------
(***************************************************************************)
(* The call stack of one host thread that creates sandboxes and invokes    *)
(* sandboxed functions (WasmSandbox::createSandbox and invokeFunction),    *)
(* which call each other, call the host back, and trap.                    *)
(*                                                                         *)
(* CurrThreadSandbox, g_jmp_buf and wasm_rt_call_stack_depth are           *)
(* thread_local, so a thread meets no other one here.  CurrThreadSandbox   *)
(* exists once, the other two once for every library: the runtime is       *)
(* linked into each sandboxed library.  Several sandboxes can be created   *)
(* from one library: dlopen gives all of them the same one, and            *)
(* wasm_init_module runs again on its globals.                             *)
(***************************************************************************)
EXTENDS Naturals, Sequences, FiniteSets, SequencesExt

CONSTANTS
    Sandboxes,                     \* WasmSandbox objects
    Libs,                          \* sandboxed libraries, as dlopen knows them
    Lib,                           \* the library a sandbox is created from
    WASM_RT_MAX_CALL_STACK_DEPTH,
    MaxFrames,                     \* bound: frames on the host stack
    NULL

ASSUME ConstantsAssumption ==
    /\ Lib \in [Sandboxes -> Libs]
    /\ WASM_RT_MAX_CALL_STACK_DEPTH \in Nat \ {0}
    /\ MaxFrames \in Nat
    /\ NULL \notin Sandboxes

VARIABLES
    frames,                   \* stack frames, the innermost last
    CurrThreadSandbox,
    g_jmp_buf,                \* the frame (its place) that called setjmp last
    wasm_rt_call_stack_depth,
    Z_envZ_memory,            \* the memory of a library: how often allocated
    wasm_memory,              \* WasmSandbox::wasm_memory, NULL if not created
    cookie,                   \* the stack cookie in that memory is intact
    sentinel,                 \* the word 'emsc' at its address 0 is intact
    invoked,                  \* history: libraries with an invokeFunction
                              \* since their last wasm_init_module
    exit                      \* how the process ended

vars == <<frames, CurrThreadSandbox, g_jmp_buf, wasm_rt_call_stack_depth,
          Z_envZ_memory, wasm_memory, cookie, sentinel, invoked, exit>>
guards == <<cookie, sentinel, invoked>>

(* The frames of the code modelled here.  "invoke" is an invokeFunction     *)
(* with the sandbox it restores and its next step, "wasm" a function of the *)
(* generated C, "callback" a callbackStub and the host function it called,  *)
(* "create" a createSandbox.                                                *)
InvokeFrame(sb, old, class, pc) ==
    [kind |-> "invoke", sb |-> sb, old |-> old, class |-> class, pc |-> pc]
WasmFrame(sb) ==
    [kind |-> "wasm", sb |-> sb, old |-> NULL, class |-> FALSE, pc |-> "body"]
CallbackFrame(sb) ==
    [kind |-> "callback", sb |-> sb, old |-> NULL, class |-> FALSE,
     pc |-> "body"]
CreateFrame(sb) ==
    [kind |-> "create", sb |-> sb, old |-> NULL, class |-> FALSE,
     pc |-> "ctors"]

PCs == {"body", "malloc", "call", "free", "return", "ctors", "created"}

Frame == [kind : {"invoke", "wasm", "callback", "create"},
          sb : Sandboxes, old : Sandboxes \cup {NULL}, class : BOOLEAN,
          pc : PCs]

TypeOK ==
    /\ frames \in Seq(Frame)
    /\ CurrThreadSandbox \in Sandboxes \cup {NULL}
    /\ g_jmp_buf \in [Libs -> Nat]
    /\ wasm_rt_call_stack_depth \in
          [Libs -> 0 .. WASM_RT_MAX_CALL_STACK_DEPTH + 1]
    /\ Z_envZ_memory \in [Libs -> Nat]
    /\ wasm_memory \in [Sandboxes -> Nat]
    /\ cookie \in [Libs -> BOOLEAN]
    /\ sentinel \in [Libs -> BOOLEAN]
    /\ invoked \subseteq Libs
    /\ exit \in {"running", "abort", "unset", "lost"}

Init ==
    /\ frames = <<>>
    /\ CurrThreadSandbox = NULL
    /\ g_jmp_buf = [l \in Libs |-> 0]
    /\ wasm_rt_call_stack_depth = [l \in Libs |-> 0]
    /\ Z_envZ_memory = [l \in Libs |-> 0]
    /\ wasm_memory = [sb \in Sandboxes |-> 0]
    /\ cookie = [l \in Libs |-> TRUE]
    /\ sentinel = [l \in Libs |-> TRUE]
    /\ invoked = {}
    /\ exit = "running"

Top == Last(frames)
Running(kind) == exit = "running" /\ frames # <<>> /\ Top.kind = kind

(* Host code runs: outside of every call, or in a callback.                 *)
InHost == exit = "running" /\ (frames # <<>> => Top.kind = "callback")

Room == Len(frames) < MaxFrames
Goto(pc) == [frames EXCEPT ![Len(frames)].pc = pc]

Created(sb) == wasm_memory[sb] # 0

-----------------------------------------------------------------------------
(* Traps *)

(* A frame of invokeFunction that g_jmp_buf of the library can resume.      *)
Live(l, i) ==
    i \in DOMAIN frames /\ frames[i].kind = "invoke" /\ Lib[frames[i].sb] = l

(* wasm_rt_trap: longjmp(g_jmp_buf).  A live invokeFunction prints the trap *)
(* code and aborts; a longjmp with a buffer never filled, or to a frame     *)
(* that has returned, is undefined.                                         *)
TrapExit(l) ==
    CASE g_jmp_buf[l] = 0 -> "unset"
      [] Live(l, g_jmp_buf[l]) -> "abort"
      [] OTHER -> "lost"

(* FUNC_PROLOGUE of the callee: the caller's frame is popped by no one when *)
(* the depth is exceeded.                                                   *)
EnterWasm(sb, stack) ==
    LET l == Lib[sb]
    IN  /\ wasm_rt_call_stack_depth' =
              [wasm_rt_call_stack_depth EXCEPT ![l] = @ + 1]
        /\ frames' = Append(stack, WasmFrame(sb))
        /\ exit' = IF wasm_rt_call_stack_depth[l] + 1
                         > WASM_RT_MAX_CALL_STACK_DEPTH
                   THEN TrapExit(l) ELSE exit

-----------------------------------------------------------------------------
(* createSandbox *)

(* dlopen and wasm_init_module up to the constructors: new memory, with the *)
(* word at address 0 and the stack cookie written.  Sandboxes of the        *)
(* library that exist keep the wasm_memory they have.                       *)
CreateSandbox(sb) ==
    /\ InHost /\ Room
    /\ ~Created(sb)
    /\ \A i \in DOMAIN frames : frames[i] # CreateFrame(sb)
    /\ frames' = Append(frames, CreateFrame(sb))
    /\ Z_envZ_memory' = [Z_envZ_memory EXCEPT ![Lib[sb]] = @ + 1]
    /\ cookie' = [cookie EXCEPT ![Lib[sb]] = TRUE]
    /\ sentinel' = [sentinel EXCEPT ![Lib[sb]] = TRUE]
    /\ invoked' = invoked \ {Lib[sb]}
    /\ UNCHANGED <<CurrThreadSandbox, g_jmp_buf, wasm_rt_call_stack_depth,
                   wasm_memory, exit>>

(* _E__wasm_call_ctors() at the end of wasm_init_module, outside of any     *)
(* invokeFunction.                                                          *)
CallCtors ==
    /\ Running("create") /\ Top.pc = "ctors" /\ Room
    /\ EnterWasm(Top.sb, Goto("created"))
    /\ UNCHANGED <<CurrThreadSandbox, g_jmp_buf, Z_envZ_memory, wasm_memory,
                   guards>>

(* The rest of createSandbox: look the symbols up, remember the memory.     *)
CreateReturn ==
    /\ Running("create") /\ Top.pc = "created"
    /\ wasm_memory' = [wasm_memory EXCEPT
                         ![Top.sb] = Z_envZ_memory[Lib[Top.sb]]]
    /\ frames' = Front(frames)
    /\ UNCHANGED <<CurrThreadSandbox, g_jmp_buf, wasm_rt_call_stack_depth,
                   Z_envZ_memory, guards, exit>>

-----------------------------------------------------------------------------
(* invokeFunction *)

(* Mutant: only the outermost invokeFunction of a thread calls setjmp.      *)
SetJmpOutermost(l, i) == IF i = 1 THEN g_jmp_buf' = [g_jmp_buf EXCEPT ![l] = i]
                         ELSE UNCHANGED g_jmp_buf

SetJmp(l, i) == g_jmp_buf' = [g_jmp_buf EXCEPT ![l] = i]

(* setjmp, then setCurrThreadSandbox(this).  A struct is returned through   *)
(* memory that invokeFunctionWithArgsAndRetParam allocates and frees with   *)
(* nested invocations; class says that it is one.                           *)
PushInvoke(sb, class, stack) ==
    /\ frames' = Append(stack, InvokeFrame(sb, CurrThreadSandbox, class,
                                           IF class THEN "malloc" ELSE "call"))
    /\ SetJmp(Lib[sb], Len(stack) + 1)
    /\ CurrThreadSandbox' = sb
    /\ invoked' = invoked \cup {Lib[sb]}
    /\ UNCHANGED <<wasm_rt_call_stack_depth, Z_envZ_memory, wasm_memory,
                   cookie, sentinel, exit>>

InvokeFunction(sb, class) ==
    /\ InHost /\ Room /\ Created(sb)
    /\ PushInvoke(sb, class, frames)

(* mallocInSandbox(sizeof(TRet)) and freeInSandbox(ret).                    *)
InvokeMallocOrFree ==
    /\ Running("invoke") /\ Top.pc \in {"malloc", "free"} /\ Room
    /\ PushInvoke(Top.sb, FALSE,
                  Goto(IF Top.pc = "malloc" THEN "call" ELSE "return"))

(* The call through fnPtrCast.                                              *)
CallFunction ==
    /\ Running("invoke") /\ Top.pc = "call" /\ Room
    /\ EnterWasm(Top.sb, Goto(IF Top.class THEN "free" ELSE "return"))
    /\ UNCHANGED <<CurrThreadSandbox, g_jmp_buf, Z_envZ_memory, wasm_memory,
                   guards>>

(* Mutant: address 0 is not tested.                                         *)
CheckStackCookieOnly(l) == cookie[l]

(* The two words of the stack cookie, then the word at address 0.           *)
checkStackCookie(l) == cookie[l] /\ sentinel[l]

(* Mutant: CurrThreadSandbox is not restored.                               *)
RestoreMissing(old) == UNCHANGED CurrThreadSandbox

Restore(old) == CurrThreadSandbox' = old

(* setCurrThreadSandbox(oldCurrThreadSandbox), checkStackCookie, return.    *)
InvokeReturn ==
    /\ Running("invoke") /\ Top.pc = "return"
    /\ Restore(Top.old)
    /\ IF checkStackCookie(Lib[Top.sb])
       THEN frames' = Front(frames) /\ UNCHANGED exit
       ELSE exit' = "abort" /\ UNCHANGED frames
    /\ UNCHANGED <<g_jmp_buf, wasm_rt_call_stack_depth, Z_envZ_memory,
                   wasm_memory, guards>>

-----------------------------------------------------------------------------
(* Sandboxed code *)

WasmCall ==
    /\ Running("wasm") /\ Room
    /\ EnterWasm(Top.sb, frames)
    /\ UNCHANGED <<CurrThreadSandbox, g_jmp_buf, Z_envZ_memory, wasm_memory,
                   guards>>

(* Mutant: a function without FUNC_EPILOGUE.                                *)
FuncEpilogueMissing(l) == UNCHANGED wasm_rt_call_stack_depth

FuncEpilogue(l) == wasm_rt_call_stack_depth' =
                      [wasm_rt_call_stack_depth EXCEPT ![l] = @ - 1]

WasmReturn ==
    /\ Running("wasm")
    /\ FuncEpilogue(Lib[Top.sb])
    /\ frames' = Front(frames)
    /\ UNCHANGED <<CurrThreadSandbox, g_jmp_buf, Z_envZ_memory, wasm_memory,
                   guards, exit>>

(* TRAP(x) for any reason but the call depth.                               *)
WasmTrap ==
    /\ Running("wasm")
    /\ exit' = TrapExit(Lib[Top.sb])
    /\ UNCHANGED <<frames, CurrThreadSandbox, g_jmp_buf,
                   wasm_rt_call_stack_depth, Z_envZ_memory, wasm_memory,
                   guards>>

(* The shadow stack in linear memory runs over its end.                     *)
WasmStackOverflow ==
    /\ Running("wasm")
    /\ cookie' = [cookie EXCEPT ![Lib[Top.sb]] = FALSE]
    /\ UNCHANGED <<frames, CurrThreadSandbox, g_jmp_buf,
                   wasm_rt_call_stack_depth, Z_envZ_memory, wasm_memory,
                   sentinel, invoked, exit>>

(* A store through a null pointer of the sandboxed code.                    *)
WasmStoreNull ==
    /\ Running("wasm")
    /\ sentinel' = [sentinel EXCEPT ![Lib[Top.sb]] = FALSE]
    /\ UNCHANGED <<frames, CurrThreadSandbox, g_jmp_buf,
                   wasm_rt_call_stack_depth, Z_envZ_memory, wasm_memory,
                   cookie, invoked, exit>>

(* CALL_INDIRECT of a callbackStub: the callback is looked up in            *)
(* getCurrThreadSandbox().  A constructor has no callbacks to call.         *)
Callback ==
    /\ Running("wasm") /\ Room
    /\ Created(Top.sb)
    /\ frames' = Append(frames, CallbackFrame(CurrThreadSandbox))
    /\ UNCHANGED <<CurrThreadSandbox, g_jmp_buf, wasm_rt_call_stack_depth,
                   Z_envZ_memory, wasm_memory, guards, exit>>

CallbackReturn ==
    /\ Running("callback")
    /\ frames' = Front(frames)
    /\ UNCHANGED <<CurrThreadSandbox, g_jmp_buf, wasm_rt_call_stack_depth,
                   Z_envZ_memory, wasm_memory, guards, exit>>

-----------------------------------------------------------------------------
(* Every call that is not a step of the sandboxed code's own choosing.      *)
Host ==
    \/ \E sb \in Sandboxes : CreateSandbox(sb)
    \/ \E sb \in Sandboxes, class \in BOOLEAN : InvokeFunction(sb, class)
    \/ CallbackReturn

Runtime ==
    \/ CallCtors \/ CreateReturn
    \/ InvokeMallocOrFree \/ CallFunction \/ InvokeReturn

Wasm == \/ WasmCall \/ WasmReturn \/ WasmTrap
        \/ WasmStackOverflow \/ WasmStoreNull \/ Callback

(* The process has ended, or the bound on frames is reached.                *)
Done == /\ \/ exit # "running"
           \/ Running("invoke") /\ ~Room
           \/ Running("create") /\ ~Room
        /\ UNCHANGED vars

Next == Host \/ Runtime \/ Wasm \/ Done

Spec == Init /\ [][Next]_vars

-----------------------------------------------------------------------------
(* Properties *)

(* The functions of a library that are on the stack.                        *)
WasmFrames(l) ==
    {i \in DOMAIN frames : frames[i].kind = "wasm" /\ Lib[frames[i].sb] = l}

(* wasm_rt_call_stack_depth of a library is the number of its functions on  *)
(* the stack, through every nesting of invocations, callbacks and other     *)
(* sandboxes, and no function body runs above the maximum.                  *)
DepthCounts ==
    exit = "running" =>
        \A l \in Libs :
            /\ wasm_rt_call_stack_depth[l] = Cardinality(WasmFrames(l))
            /\ wasm_rt_call_stack_depth[l] <= WASM_RT_MAX_CALL_STACK_DEPTH

(* A callback is looked up in the sandbox whose code made the call, however *)
(* many sandboxes have been entered and left in between; while its host     *)
(* code runs that sandbox is current again, and when the outermost call has *)
(* returned none is.                                                        *)
RightSandbox ==
    /\ \A i \in DOMAIN frames : frames[i].kind = "callback" =>
          i > 1 /\ frames[i].sb = frames[i - 1].sb
    /\ Running("wasm") /\ Created(Top.sb) => CurrThreadSandbox = Top.sb
    /\ Running("callback") => CurrThreadSandbox = Top.sb
    /\ exit = "running" /\ frames = <<>> => CurrThreadSandbox = NULL

(* When the outermost call has returned to the host, the stack cookie and   *)
(* the word at address 0 of every library are intact: an overwrite, at any  *)
(* depth and by any sandbox of the library, is noticed before.  Constructors*)
(* run after wasm_init_module has checked both, so an overwrite of theirs   *)
(* stays unnoticed until the first invokeFunction; one in a memory that a   *)
(* further createSandbox of the library has replaced is not looked for.     *)
OverflowNoticed ==
    exit = "running" /\ frames = <<>> =>
        \A l \in invoked : cookie[l] /\ sentinel[l]

(* Of the invocations of a library that are on the stack none is inside the *)
(* one that called setjmp last.  If an invocation reports a trap of a       *)
(* sandbox that has been created, it is therefore the one that entered the  *)
(* code which trapped, and the longjmp cuts off frames of sandboxed code    *)
(* only: it never skips a callback of the host and the invocations below    *)
(* it, with sandboxes of the same library and of others in between.         *)
TrapCaughtByCaller ==
    Running("wasm") /\ Created(Top.sb) =>
        LET l == Lib[Top.sb]
        IN  /\ \A i \in DOMAIN frames : Live(l, i) => i <= g_jmp_buf[l]
            /\ Live(l, g_jmp_buf[l]) =>
                  \A i \in (g_jmp_buf[l] + 1) .. Len(frames) :
                      frames[i].kind = "wasm"

-----------------------------------------------------------------------------
(* The inductive invariants *)

(* What a frame is pushed on: what invokeFunction will restore is the       *)
(* sandbox of the frame below, sandboxed code and callbacks belong to the   *)
(* sandbox of the frame below.                                              *)
StackInv ==
    \A i \in 1 .. Len(frames) :
        /\ frames[i].kind = "invoke" =>
              /\ Created(frames[i].sb)
              /\ IF i = 1 THEN frames[i].old = NULL
                 ELSE /\ frames[i - 1].kind \in {"invoke", "callback"}
                      /\ frames[i].old = frames[i - 1].sb
        /\ frames[i].kind = "callback" =>
              /\ Created(frames[i].sb) /\ i > 1
              /\ frames[i - 1].kind = "wasm" /\ frames[i].sb = frames[i - 1].sb
        /\ frames[i].kind = "wasm" =>
              /\ i > 1 /\ frames[i].sb = frames[i - 1].sb
              /\ frames[i - 1].kind \in {"invoke", "wasm", "create"}
        /\ frames[i].kind = "create" =>
              /\ ~Created(frames[i].sb)
              /\ i > 1 => frames[i - 1].kind = "callback"

(* Above a createSandbox there are only its constructors.                   *)
CtorsInv ==
    \A i \in 1 .. Len(frames) : frames[i].kind = "create" =>
        \A j \in (i + 1) .. Len(frames) :
            frames[j].kind = "wasm" /\ frames[j].sb = frames[i].sb

(* Sandboxed code was entered by someone below, with only sandboxed code in *)
(* between.                                                                 *)
EntryInv ==
    \A i \in 1 .. Len(frames) : frames[i].kind = "wasm" =>
        \E j \in 1 .. (i - 1) :
            /\ frames[j].kind \in {"invoke", "create"}
            /\ frames[j].sb = frames[i].sb
            /\ \A k \in (j + 1) .. (i - 1) : frames[k].kind = "wasm"

(* CurrThreadSandbox is the sandbox of the innermost frame; createSandbox   *)
(* and the constructors leave it as it was.                                 *)
CurrentInv ==
    exit = "running" =>
        /\ frames = <<>> => CurrThreadSandbox = NULL
        /\ (frames # <<>> /\ Top.kind # "create" /\ Created(Top.sb)) =>
              CurrThreadSandbox = Top.sb
        /\ \A i \in 1 .. Len(frames) : frames[i].kind = "create" =>
              CurrThreadSandbox = IF i = 1 THEN NULL ELSE frames[i - 1].sb

IInv == TypeOK /\ DepthCounts /\ StackInv /\ CtorsInv /\ EntryInv /\ CurrentInv

(* A library is not invoked while it is created again.                      *)
CreationInv ==
    \A i \in 1 .. Len(frames) :
        frames[i].kind = "create" => Lib[frames[i].sb] \notin invoked

(* While the cookie or the word at address 0 is overwritten, somebody who   *)
(* will check it is on the stack.                                           *)
CookieInv ==
    exit = "running" =>
        \A l \in invoked : ~(cookie[l] /\ sentinel[l]) =>
            \E i \in 1 .. Len(frames) :
                frames[i].kind = "invoke" /\ Lib[frames[i].sb] = l

(* An invocation on the stack has called setjmp, and only those above it    *)
(* after it.                                                                *)
JmpInv ==
    \A i \in 1 .. Len(frames) :
        frames[i].kind = "invoke" => i <= g_jmp_buf[Lib[frames[i].sb]]

CallerInv == CreationInv /\ CookieInv /\ JmpInv

=============================================================================
