--------------------------- MODULE SandboxSyscalls ----------------------------
(***************************************************************************)
(* System calls of the sandboxed code (wasm-rt-syscall-impl.cpp).  Every    *)
(* call aborts but ioctl, which does nothing, and writev, which prints the  *)
(* buffers its arguments describe.                                          *)
(*                                                                          *)
(* The memory belongs to the sandbox: another of its threads may store to   *)
(* it while the call runs.  So a load returns any value, and two loads of   *)
(* one place may differ; what the call relies on must be in its locals.     *)
(***************************************************************************)
EXTENDS Integers, TLAPS

CONSTANTS
    WORD,        \* 2^32
    MEMORY_SIZE, \* Z_envZ_memory->size
    Numbers,     \* system call numbers
    Args,        \* argument pointers the code passes
    Loads        \* values a load returns

ASSUME ConstantsAssumption ==
    /\ WORD \in Nat \ {0} /\ MEMORY_SIZE \in Nat /\ MEMORY_SIZE < WORD
    /\ Numbers \subseteq Nat
    /\ Args \subseteq 0 .. WORD - 1 /\ Loads \subseteq 0 .. WORD - 1

IOCTL == 54
WRITEV == 146

SIZEOF_U32 == 4
SIZEOF_U64 == 8
SIZEOF_IOVEC == 16

u32(x) == x % WORD

VARIABLES
    pc,         \* the next step of the call
    syscallnum, \* the number the caller passed
    slot,       \* the import that was called, Z_envZ___syscall<slot>Z_jii
    args, stream, iov, iovcnt, i, len, iov_base, j, ret,  \* locals
    printed,    \* the number of bytes given to putchar
    touched     \* the last bytes of memory that were read: first and last

locals == <<args, stream, iov, iovcnt, i, len, iov_base, j, ret>>
vars == <<pc, syscallnum, slot, locals, printed, touched>>

NoBytes == <<0, -1>>
Bytes(a, n) == <<a, a + n - 1>>

Init ==
    /\ pc = "wasm"
    /\ syscallnum = 0 /\ slot = 0
    /\ args = 0 /\ stream = 0 /\ iov = 0 /\ iovcnt = 0
    /\ i = 0 /\ len = 0 /\ iov_base = 0 /\ j = 0 /\ ret = 0
    /\ printed = 0 /\ touched = NoBytes

(* initSyscalls: every import is sys_na but two.                            *)
Handler(n) == CASE n = IOCTL -> "sys_ioctl"
                [] n = WRITEV -> "sys_writev"
                [] OTHER -> "sys_na"

(* The sandboxed code calls import n with number num.                       *)
Call(n, num, a) ==
    /\ pc = "wasm"
    /\ pc' = Handler(n)
    /\ slot' = n /\ syscallnum' = num /\ args' = a
    /\ stream' = 0 /\ iov' = 0 /\ iovcnt' = 0 /\ i' = 0 /\ len' = 0
    /\ iov_base' = 0 /\ j' = 0 /\ ret' = 0 /\ printed' = 0
    /\ touched' = NoBytes

sys_na ==
    /\ pc = "sys_na"
    /\ pc' = "abort"
    /\ UNCHANGED <<syscallnum, slot, locals, printed, touched>>

(* Mutant: a number mismatch is printed and forgotten.                      *)
SysIoctlNoCheck ==
    /\ pc = "sys_ioctl"
    /\ pc' = "return"
    /\ UNCHANGED <<syscallnum, slot, locals, printed, touched>>

sys_ioctl ==
    /\ pc = "sys_ioctl"
    /\ pc' = IF syscallnum # IOCTL THEN "abort" ELSE "return"
    /\ UNCHANGED <<syscallnum, slot, locals, printed, touched>>

-----------------------------------------------------------------------------
(* sys_writev *)

sys_writev ==
    /\ pc = "sys_writev"
    /\ pc' = IF syscallnum # WRITEV THEN "abort" ELSE "stream"
    /\ UNCHANGED <<syscallnum, slot, locals, printed, touched>>

(* MEMCHECK: addr is 64 bits wide, the sum does not wrap.                   *)
Checked(a, size) == a + size <= MEMORY_SIZE

(* getArg32 and getArg64: a checked load at args, then args += 8.  Of iov   *)
(* only the low 32 bits are used.                                           *)
GetArg(size, next) ==
    /\ args' = u32(args + 8)
    /\ IF Checked(args, size)
       THEN pc' = next /\ touched' = Bytes(args, size)
       ELSE pc' = "trap" /\ UNCHANGED touched

GetStream ==
    /\ pc = "stream"
    /\ GetArg(SIZEOF_U32, "iov")
    /\ \E v \in Loads : stream' = v
    /\ UNCHANGED <<syscallnum, slot, iov, iovcnt, i, len, iov_base, j, ret,
                   printed>>

GetIov ==
    /\ pc = "iov"
    /\ GetArg(SIZEOF_U64, "iovcnt")
    /\ \E v \in Loads : iov' = v
    /\ UNCHANGED <<syscallnum, slot, stream, iovcnt, i, len, iov_base, j, ret,
                   printed>>

GetIovcnt ==
    /\ pc = "iovcnt"
    /\ GetArg(SIZEOF_U32, "check")
    /\ \E v \in Loads : iovcnt' = v
    /\ UNCHANGED <<syscallnum, slot, stream, iov, i, len, iov_base, j, ret,
                   printed>>

(* Mutant: only the first byte of the range is checked.                     *)
InSandboxStart(p, size) == p <= MEMORY_SIZE

(* getUnsandboxedPointer(arg64, size) does not trap.                        *)
InSandbox(p, size) == p <= MEMORY_SIZE /\ p + size <= MEMORY_SIZE

CheckIov ==
    /\ pc = "check"
    /\ pc' = CASE stream \notin {1, 2} -> "abort"
               [] InSandbox(iov, iovcnt * SIZEOF_IOVEC) -> "loop"
               [] OTHER -> "trap"
    /\ UNCHANGED <<syscallnum, slot, locals, printed, touched>>

(* The head of the outer loop, and the load of curr_iov->iov_len.           *)
LoadLen ==
    /\ pc = "loop" /\ i < iovcnt
    /\ \E v \in Loads : len' = v
    /\ touched' = Bytes(iov + i * SIZEOF_IOVEC + 8, SIZEOF_U32)
    /\ pc' = "base"
    /\ UNCHANGED <<syscallnum, slot, args, stream, iov, iovcnt, i, iov_base,
                   j, ret, printed>>

(* The load of curr_iov->iov_base and its check with the len read before.   *)
LoadBase ==
    /\ pc = "base"
    /\ \E v \in Loads : /\ iov_base' = v
                        /\ pc' = IF InSandbox(v, len) THEN "put" ELSE "trap"
    /\ touched' = Bytes(iov + i * SIZEOF_IOVEC, SIZEOF_U32)
    /\ j' = 0
    /\ UNCHANGED <<syscallnum, slot, args, stream, iov, iovcnt, i, len, ret,
                   printed>>

(* Mutant: the inner loop forgets to count.                                 *)
PutcharNoCount ==
    /\ pc = "put" /\ j < len
    /\ touched' = Bytes(iov_base + j, 1)
    /\ UNCHANGED <<pc, syscallnum, slot, args, stream, iov, iovcnt, i, len,
                   iov_base, j, ret, printed>>

Putchar ==
    /\ pc = "put" /\ j < len
    /\ touched' = Bytes(iov_base + j, 1)
    /\ printed' = printed + 1
    /\ j' = j + 1
    /\ UNCHANGED <<pc, syscallnum, slot, args, stream, iov, iovcnt, i, len,
                   iov_base, ret>>

(* Mutant: the bytes of the buffer are not added.                           *)
NextIovRetMissing ==
    /\ pc = "put" /\ j >= len
    /\ ret' = len
    /\ i' = i + 1
    /\ pc' = "loop"
    /\ UNCHANGED <<syscallnum, slot, args, stream, iov, iovcnt, len, iov_base,
                   j, printed, touched>>

NextIov ==
    /\ pc = "put" /\ j >= len
    /\ ret' = ret + len
    /\ i' = i + 1
    /\ pc' = "loop"
    /\ UNCHANGED <<syscallnum, slot, args, stream, iov, iovcnt, len, iov_base,
                   j, printed, touched>>

WritevReturn ==
    /\ pc = "loop" /\ i >= iovcnt
    /\ pc' = "return"
    /\ UNCHANGED <<syscallnum, slot, locals, printed, touched>>

-----------------------------------------------------------------------------
(* The call is over: the sandboxed code goes on, or it never will.          *)
Return ==
    /\ pc = "return"
    /\ pc' = "wasm"
    /\ UNCHANGED <<syscallnum, slot, locals, printed, touched>>

Ended == pc \in {"abort", "trap"} /\ UNCHANGED vars

Step ==
    \/ sys_na \/ sys_ioctl \/ sys_writev
    \/ GetStream \/ GetIov \/ GetIovcnt \/ CheckIov
    \/ LoadLen \/ LoadBase \/ Putchar \/ NextIov \/ WritevReturn \/ Return

Next ==
    \/ \E n \in Numbers, num \in Numbers, a \in Args : Call(n, num, a)
    \/ Step
    \/ Ended

Spec == Init /\ [][Next]_vars

(* The handler runs to its end once it is called.                           *)
FairSpec == Spec /\ WF_vars(Step)

-----------------------------------------------------------------------------
(* Properties *)

Words == 0 .. WORD - 1

TypeOK ==
    /\ pc \in {"wasm", "sys_na", "sys_ioctl", "sys_writev", "stream", "iov",
               "iovcnt", "check", "loop", "base", "put", "return", "abort",
               "trap"}
    /\ syscallnum \in Nat /\ slot \in Nat
    /\ args \in Words /\ stream \in Words /\ iov \in Words
    /\ iovcnt \in Words /\ len \in Words /\ iov_base \in Words
    /\ i \in Words /\ j \in Words
    /\ ret \in Nat /\ printed \in Nat
    /\ touched \in Int \X Int

(* Every byte the host reads for a system call lies in the memory of the    *)
(* sandbox, although the descriptors can change between their check and     *)
(* their use.                                                               *)
ReadsInside == touched[1] >= 0 /\ touched[2] < MEMORY_SIZE

(* The locals on which ReadsInside rests.                                   *)
RangesChecked ==
    /\ pc \in {"loop", "base", "put"} =>
          /\ iov + iovcnt * SIZEOF_IOVEC <= MEMORY_SIZE
          /\ i <= iovcnt
    /\ pc \in {"base", "put"} => i < iovcnt
    /\ pc = "put" => iov_base + len <= MEMORY_SIZE /\ j <= len

(* writev returns the number of bytes it printed, over all buffers.         *)
PrintedCounted ==
    /\ pc = "loop" => ret = printed
    /\ pc = "put" => ret + j = printed
    /\ pc = "base" => ret = printed
    /\ pc = "return" /\ slot = WRITEV => ret = printed

(* Only ioctl and writev return, and only when the number agrees with the   *)
(* import that was called.                                                  *)
OnlyKnownReturn ==
    pc = "return" => slot = syscallnum /\ slot \in {IOCTL, WRITEV}

(* Every system call ends, whatever the other threads store meanwhile: in a *)
(* return, a trap or an abort.                                              *)
CallsEnd == pc # "wasm" ~> pc \in {"wasm", "trap", "abort"}

(* Where the control is, on which the others rest: which import was called, *)
(* whether its number was compared, that the loops have not begun.          *)
InHandler ==
    /\ pc = "sys_ioctl" => slot = IOCTL
    /\ pc \in {"sys_writev", "stream", "iov", "iovcnt", "check", "loop",
               "base", "put"} => slot = WRITEV
    /\ pc \in {"stream", "iov", "iovcnt", "check", "loop", "base", "put"} =>
          syscallnum = WRITEV
    /\ pc \in {"sys_writev", "stream", "iov", "iovcnt", "check"} =>
          i = 0 /\ ret = 0 /\ printed = 0

(* The inductive invariant.                                                 *)
IInv == /\ TypeOK /\ ReadsInside /\ PrintedCounted /\ OnlyKnownReturn
        /\ RangesChecked /\ InHandler

-----------------------------------------------------------------------------
(* Proofs, for every size of the memory, every set of system call numbers   *)
(* and every value the loads may return.                                    *)

(* No call has been made: nothing was read, printed or promised.            *)
LEMMA InitIInv == Init => IInv
  BY ConstantsAssumption
  DEF Init, IInv, TypeOK, ReadsInside, RangesChecked, PrintedCounted,
      OnlyKnownReturn, InHandler, NoBytes, Words

(* The load of an argument reads checked bytes and keeps args a word.       *)
LEMMA GetArgInside ==
  ASSUME IInv, NEW size \in Nat, NEW next, GetArg(size, next)
  PROVE  /\ args' \in Words
         /\ touched' \in Int \X Int
         /\ ReadsInside'
         /\ pc' = next \/ pc' = "trap"
  BY ConstantsAssumption
  DEF IInv, TypeOK, ReadsInside, GetArg, Checked, Bytes, u32, Words

(* Every step of a handler preserves the invariant.                         *)
LEMMA StepIInv == ASSUME IInv, Step PROVE IInv'
<1> USE ConstantsAssumption DEF IInv, Words, InHandler, IOCTL, WRITEV
<1>1. CASE sys_na
  BY <1>1 DEF sys_na, locals, TypeOK, ReadsInside, RangesChecked,
              PrintedCounted, OnlyKnownReturn
<1>2. CASE sys_ioctl
  BY <1>2 DEF sys_ioctl, locals, TypeOK, ReadsInside, RangesChecked,
              PrintedCounted, OnlyKnownReturn
<1>3. CASE sys_writev
  BY <1>3 DEF sys_writev, locals, TypeOK, ReadsInside, RangesChecked,
              PrintedCounted, OnlyKnownReturn
<1>4. CASE GetStream
  <2>1. /\ args' \in Words /\ touched' \in Int \X Int /\ ReadsInside'
        /\ pc' = "iov" \/ pc' = "trap"
    BY <1>4, GetArgInside DEF GetStream, SIZEOF_U32
  <2> QED BY <1>4, <2>1 DEF GetStream, TypeOK, RangesChecked, PrintedCounted,
                            OnlyKnownReturn
<1>5. CASE GetIov
  <2>1. /\ args' \in Words /\ touched' \in Int \X Int /\ ReadsInside'
        /\ pc' = "iovcnt" \/ pc' = "trap"
    BY <1>5, GetArgInside DEF GetIov, SIZEOF_U64
  <2> QED BY <1>5, <2>1 DEF GetIov, TypeOK, RangesChecked, PrintedCounted,
                            OnlyKnownReturn
<1>6. CASE GetIovcnt
  <2>1. /\ args' \in Words /\ touched' \in Int \X Int /\ ReadsInside'
        /\ pc' = "check" \/ pc' = "trap"
    BY <1>6, GetArgInside DEF GetIovcnt, SIZEOF_U32
  <2> QED BY <1>6, <2>1 DEF GetIovcnt, TypeOK, RangesChecked, PrintedCounted,
                            OnlyKnownReturn
<1>7. CASE CheckIov
  BY <1>7 DEF CheckIov, InSandbox, SIZEOF_IOVEC, locals, TypeOK, ReadsInside,
              RangesChecked, PrintedCounted, OnlyKnownReturn
<1>8. CASE LoadLen
  BY <1>8 DEF LoadLen, Bytes, SIZEOF_IOVEC, SIZEOF_U32, TypeOK, ReadsInside,
              RangesChecked, PrintedCounted, OnlyKnownReturn
<1>9. CASE LoadBase
  BY <1>9 DEF LoadBase, InSandbox, Bytes, SIZEOF_IOVEC, SIZEOF_U32, TypeOK,
              ReadsInside, RangesChecked, PrintedCounted, OnlyKnownReturn
<1>10. CASE Putchar
  BY <1>10 DEF Putchar, Bytes, TypeOK, ReadsInside, RangesChecked,
               PrintedCounted, OnlyKnownReturn
<1>11. CASE NextIov
  BY <1>11 DEF NextIov, TypeOK, ReadsInside, RangesChecked, PrintedCounted,
               OnlyKnownReturn
<1>12. CASE WritevReturn
  BY <1>12 DEF WritevReturn, locals, TypeOK, ReadsInside, RangesChecked,
               PrintedCounted, OnlyKnownReturn
<1>13. CASE Return
  BY <1>13 DEF Return, locals, TypeOK, ReadsInside, RangesChecked,
               PrintedCounted, OnlyKnownReturn
<1> QED
  BY <1>1, <1>2, <1>3, <1>4, <1>5, <1>6, <1>7, <1>8, <1>9, <1>10, <1>11,
     <1>12, <1>13 DEF Step

(* The call of an import: every local has its first value.                  *)
LEMMA CallIInv ==
  ASSUME IInv, NEW n \in Numbers, NEW num \in Numbers, NEW a \in Args,
         Call(n, num, a)
  PROVE  IInv'
  BY ConstantsAssumption
  DEF Call, Handler, IInv, TypeOK, ReadsInside, RangesChecked, PrintedCounted,
      OnlyKnownReturn, InHandler, NoBytes, Words, IOCTL, WRITEV

(* IInv is an invariant of the system calls.                                *)
THEOREM Invariance == Spec => []IInv
<1>1. Init => IInv
  BY InitIInv
<1>2. IInv /\ [Next]_vars => IInv'
  <2> SUFFICES ASSUME IInv, [Next]_vars PROVE IInv'
    OBVIOUS
  <2>1. CASE Step
    BY <2>1, StepIInv
  <2>2. ASSUME NEW n \in Numbers, NEW num \in Numbers, NEW a \in Args,
               Call(n, num, a)
        PROVE  IInv'
    BY <2>2, CallIInv
  <2>3. CASE UNCHANGED vars
    BY <2>3 DEF vars, locals, IInv, TypeOK, ReadsInside, RangesChecked,
                PrintedCounted, OnlyKnownReturn, InHandler
  <2> QED
    BY <2>1, <2>2, <2>3 DEF Next, Ended
<1> QED
  BY <1>1, <1>2, PTL DEF Spec

(* Whatever another thread of the sandbox stores while writev runs, the     *)
(* host reads no byte outside of the memory of the sandbox.                 *)
THEOREM ReadsInsideAlways == Spec => []ReadsInside
<1>1. IInv => ReadsInside
  BY DEF IInv
<1> QED
  BY <1>1, Invariance, PTL

(* writev returns what it printed.                                          *)
THEOREM PrintedCountedAlways == Spec => []PrintedCounted
<1>1. IInv => PrintedCounted
  BY DEF IInv
<1> QED
  BY <1>1, Invariance, PTL

(* Only ioctl and writev return, when called by their numbers.              *)
THEOREM OnlyKnownReturnAlways == Spec => []OnlyKnownReturn
<1>1. IInv => OnlyKnownReturn
  BY DEF IInv
<1> QED
  BY <1>1, Invariance, PTL
=============================================================================
