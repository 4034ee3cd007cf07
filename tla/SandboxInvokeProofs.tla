------------------------- MODULE SandboxInvokeProofs --------------------------
(***************************************************************************)
(* Theorems of SandboxInvoke and their proofs, for any number of sandboxes *)
(* and libraries and every limit of the call depth.                        *)
(***************************************************************************)
EXTENDS SandboxInvoke, FiniteSetTheorems, SequenceTheorems, TLAPS

-----------------------------------------------------------------------------
(* The stack *)

(* A stack on which only the program counter of a frame may differ.         *)
SameFrames(stack) ==
    /\ stack \in Seq(Frame) /\ Len(stack) = Len(frames)
    /\ \A i \in 1 .. Len(frames) :
          /\ stack[i].kind = frames[i].kind /\ stack[i].sb = frames[i].sb
          /\ stack[i].old = frames[i].old

(* One frame has been pushed, or popped.                                    *)
Pushed(f) ==
    /\ frames' \in Seq(Frame) /\ Len(frames') = Len(frames) + 1
    /\ frames'[Len(frames) + 1] = f
    /\ \A i \in 1 .. Len(frames) :
          /\ frames'[i].kind = frames[i].kind /\ frames'[i].sb = frames[i].sb
          /\ frames'[i].old = frames[i].old

Popped ==
    /\ Len(frames) \in Nat \ {0}
    /\ frames' \in Seq(Frame) /\ Len(frames') = Len(frames) - 1
    /\ \A i \in 1 .. Len(frames) - 1 : frames'[i] = frames[i]

(* Stacks have a length, an end and frames up to it.                        *)
LEMMA StackFacts ==
    ASSUME frames \in Seq(Frame)
    PROVE  /\ Len(frames) \in Nat /\ DOMAIN frames = 1 .. Len(frames)
           /\ frames = <<>> <=> Len(frames) = 0
           /\ \A i \in 1 .. Len(frames) : frames[i] \in Frame
           /\ Top = frames[Len(frames)]
<1>1. Len(frames) \in Nat /\ DOMAIN frames = 1 .. Len(frames)
  BY LenProperties
<1>2. frames = <<>> <=> Len(frames) = 0
  BY EmptySeq
<1>3. \A i \in 1 .. Len(frames) : frames[i] \in Frame
  BY ElementOfSeq
<1> QED  BY <1>1, <1>2, <1>3 DEF Top, Last

(* Goto changes the program counter of the innermost frame only.            *)
LEMMA GotoFacts ==
    ASSUME frames \in Seq(Frame), frames # <<>>, NEW pc \in PCs
    PROVE  SameFrames(Goto(pc))
<1> DEFINE n == Len(frames)
           f == [frames[n] EXCEPT !.pc = pc]
<1>1. n \in 1 .. n /\ frames[n] \in Frame
  BY StackFacts
<1>2. /\ f \in Frame /\ f.kind = frames[n].kind
      /\ f.sb = frames[n].sb /\ f.old = frames[n].old
  BY <1>1 DEF Frame
<1>3. Goto(pc) = [frames EXCEPT ![n] = f]
  BY <1>1, StackFacts DEF Goto
<1>4. /\ Goto(pc) \in Seq(Frame) /\ Len(Goto(pc)) = n
      /\ \A j \in 1 .. n : Goto(pc)[j] = IF j = n THEN f ELSE frames[j]
  <2> HIDE DEF f
  <2> QED  BY <1>1, <1>2, <1>3, ExceptSeq
<1> QED  BY <1>2, <1>4 DEF SameFrames

(* Append pushes a frame.                                                   *)
LEMMA AppendPushes ==
    ASSUME NEW stack, SameFrames(stack), NEW f \in Frame,
           frames' = Append(stack, f), frames \in Seq(Frame)
    PROVE  Pushed(f)
<1>1. Len(frames) \in Nat /\ stack \in Seq(Frame) /\ Len(stack) = Len(frames)
  BY StackFacts DEF SameFrames
<1>2. /\ frames' \in Seq(Frame) /\ Len(frames') = Len(frames) + 1
      /\ frames'[Len(frames) + 1] = f
      /\ \A i \in 1 .. Len(frames) : frames'[i] = stack[i]
  BY <1>1
<1> QED  BY <1>1, <1>2 DEF SameFrames, Pushed

(* Front leaves out the last element.                                       *)
LEMMA FrontFacts ==
    ASSUME NEW s \in Seq(Frame), s # <<>>
    PROVE  /\ Front(s) \in Seq(Frame) /\ Len(Front(s)) = Len(s) - 1
           /\ \A i \in 1 .. Len(s) - 1 : Front(s)[i] = s[i]
<1>1. Len(s) \in Nat \ {0} /\ DOMAIN s = 1 .. Len(s)
  BY EmptySeq, LenProperties
<1>2. \A i \in 1 .. Len(s) - 1 : s[i] \in Frame
  BY <1>1, ElementOfSeq
<1>3. /\ Front(s) \in Seq(Frame) /\ Len(Front(s)) = Len(s) - 1
      /\ \A i \in 1 .. Len(s) - 1 : Front(s)[i] = s[i]
  BY <1>1, <1>2, SubSeqProperties DEF Front
<1> QED  BY <1>3

(* Front pops the innermost frame.                                          *)
LEMMA FrontPops ==
    ASSUME frames \in Seq(Frame), frames # <<>>, frames' = Front(frames)
    PROVE  Popped
<1>1. Len(frames) \in Nat \ {0}
  BY StackFacts
<1>2. /\ Front(frames) \in Seq(Frame)
      /\ Len(Front(frames)) = Len(frames) - 1
      /\ \A i \in 1 .. Len(frames) - 1 : Front(frames)[i] = frames[i]
  BY FrontFacts
<1> QED  BY <1>1, <1>2 DEF Popped

-----------------------------------------------------------------------------
(* Counting *)

(* The frames of a library are finitely many.                               *)
LEMMA WasmFramesFinite ==
    ASSUME frames \in Seq(Frame), NEW l
    PROVE  /\ WasmFrames(l) \subseteq 1 .. Len(frames)
           /\ IsFiniteSet(WasmFrames(l)) /\ Cardinality(WasmFrames(l)) \in Nat
<1>1. Len(frames) \in Nat /\ WasmFrames(l) \subseteq 1 .. Len(frames)
  BY StackFacts DEF WasmFrames
<1>2. IsFiniteSet(1 .. Len(frames))
  BY <1>1, FS_Interval
<1>3. IsFiniteSet(WasmFrames(l))
  BY <1>1, <1>2, FS_Subset
<1> QED  BY <1>1, <1>3, FS_CardinalityType

(* A pushed frame counts for its library if it is one of sandboxed code.    *)
LEMMA CountPushed ==
    ASSUME frames \in Seq(Frame), NEW l, NEW f, Pushed(f)
    PROVE  Cardinality(WasmFrames(l)') =
               IF f.kind = "wasm" /\ Lib[f.sb] = l
               THEN Cardinality(WasmFrames(l)) + 1
               ELSE Cardinality(WasmFrames(l))
<1> DEFINE n == Len(frames) + 1
<1>1. Len(frames) \in Nat /\ DOMAIN frames = 1 .. Len(frames)
      /\ DOMAIN frames' = 1 .. n
  BY StackFacts, LenProperties DEF Pushed
<1>2. WasmFrames(l)' = IF f.kind = "wasm" /\ Lib[f.sb] = l
                       THEN WasmFrames(l) \cup {n} ELSE WasmFrames(l)
  BY <1>1 DEF Pushed, WasmFrames
<1>3. n \notin WasmFrames(l) /\ IsFiniteSet(WasmFrames(l))
  BY <1>1, WasmFramesFinite
<1> QED  BY <1>2, <1>3, FS_AddElement

(* A popped frame counted for its library if it was one of sandboxed code.  *)
LEMMA CountPopped ==
    ASSUME frames \in Seq(Frame), NEW l, Popped
    PROVE  /\ Cardinality(WasmFrames(l)') \in Nat
           /\ Cardinality(WasmFrames(l)) =
               IF Top.kind = "wasm" /\ Lib[Top.sb] = l
               THEN Cardinality(WasmFrames(l)') + 1
               ELSE Cardinality(WasmFrames(l)')
<1> DEFINE n == Len(frames)
<1>1. /\ n \in Nat \ {0} /\ DOMAIN frames = 1 .. n /\ Top = frames[n]
      /\ DOMAIN frames' = 1 .. (n - 1)
  BY StackFacts, LenProperties DEF Popped
<1>2. WasmFrames(l) = IF Top.kind = "wasm" /\ Lib[Top.sb] = l
                      THEN WasmFrames(l)' \cup {n} ELSE WasmFrames(l)'
  BY <1>1 DEF Popped, WasmFrames
<1>3. /\ WasmFrames(l)' \subseteq WasmFrames(l) /\ n \notin WasmFrames(l)'
  BY <1>1, <1>2 DEF WasmFrames
<1>4. IsFiniteSet(WasmFrames(l)') /\ Cardinality(WasmFrames(l)') \in Nat
  BY <1>3, WasmFramesFinite, FS_Subset, FS_CardinalityType
<1> QED  BY <1>2, <1>3, <1>4, FS_AddElement

-----------------------------------------------------------------------------
(* The invariants from what is pushed *)

(* There is no createSandbox in progress below a frame of anybody else.     *)
LEMMA NoCreation ==
    ASSUME TypeOK, StackInv, CtorsInv,
           \/ frames = <<>>
           \/ Top.kind \in {"invoke", "callback"}
           \/ Top.kind = "wasm" /\ Created(Top.sb)
    PROVE  \A i \in 1 .. Len(frames) : frames[i].kind # "create"
<1> SUFFICES ASSUME NEW i \in 1 .. Len(frames), frames[i].kind = "create"
             PROVE  FALSE
  OBVIOUS
<1>1. /\ Len(frames) \in Nat \ {0} /\ frames # <<>>
      /\ Top = frames[Len(frames)]
  BY StackFacts DEF TypeOK
<1>2. ~Created(frames[i].sb)
  BY DEF StackInv
<1>3. CASE i = Len(frames)
  BY <1>1, <1>3
<1>4. CASE i # Len(frames)
  <2>1. Len(frames) \in (i + 1) .. Len(frames)
    BY <1>1, <1>4
  <2>2. Top.kind = "wasm" /\ Top.sb = frames[i].sb
    BY <1>1, <2>1 DEF CtorsInv
  <2> QED  BY <1>1, <1>2, <2>2
<1> QED  BY <1>3, <1>4

(* What may be pushed on the stack as it is.                                *)
MayPush(f) ==
    /\ f.kind = "invoke" =>
          /\ Created(f.sb)
          /\ IF frames = <<>> THEN f.old = NULL
             ELSE Top.kind \in {"invoke", "callback"} /\ f.old = Top.sb
    /\ f.kind = "callback" =>
          /\ Created(f.sb) /\ frames # <<>>
          /\ Top.kind = "wasm" /\ f.sb = Top.sb
    /\ f.kind = "wasm" =>
          /\ frames # <<>> /\ f.sb = Top.sb
          /\ Top.kind \in {"invoke", "wasm", "create"}
    /\ f.kind = "create" =>
          ~Created(f.sb) /\ (frames # <<>> => Top.kind = "callback")

(* Nothing but a creation, or sandboxed code, is pushed during a creation.  *)
LEMMA PushDuringCreation ==
    ASSUME TypeOK, StackInv, CtorsInv, NEW f \in Frame, MayPush(f)
    PROVE  \/ f.kind = "wasm"
           \/ \A i \in 1 .. Len(frames) : frames[i].kind # "create"
<1>1. f.kind \in {"invoke", "wasm", "callback", "create"}
  BY DEF Frame
<1>2. f.kind # "wasm" =>
         \/ frames = <<>>
         \/ Top.kind \in {"invoke", "callback"}
         \/ Top.kind = "wasm" /\ Created(Top.sb)
  BY <1>1 DEF MayPush
<1> QED  BY <1>2, NoCreation

(* The invariants of the stack when a frame is pushed.                      *)
LEMMA PushKeeps ==
    ASSUME TypeOK, StackInv, CtorsInv, EntryInv, NEW f \in Frame, MayPush(f),
           Pushed(f), UNCHANGED wasm_memory
    PROVE  StackInv' /\ CtorsInv' /\ EntryInv'
<1> DEFINE n == Len(frames)
           Old(i) == /\ frames'[i].kind = frames[i].kind
                     /\ frames'[i].sb = frames[i].sb
                     /\ frames'[i].old = frames[i].old
<1>1. /\ n \in Nat /\ frames \in Seq(Frame) /\ Top = frames[n]
      /\ frames = <<>> <=> n = 0
      /\ \A i \in 1 .. n : frames[i] \in Frame
  BY StackFacts DEF TypeOK
<1>2. Len(frames') = n + 1 /\ frames'[n + 1] = f /\ \A i \in 1 .. n : Old(i)
  BY DEF Pushed
<1>3. \A sb : Created(sb)' = Created(sb)
  BY DEF Created
<1>4. f.kind \in {"invoke", "wasm", "callback", "create"}
  BY DEF Frame
<1>5. StackInv'
  <2> DEFINE P(k, sb, old, i, bk, bs) ==
        /\ k = "invoke" =>
              /\ Created(sb)
              /\ IF i = 1 THEN old = NULL
                 ELSE bk \in {"invoke", "callback"} /\ old = bs
        /\ k = "callback" =>
              Created(sb) /\ i > 1 /\ bk = "wasm" /\ sb = bs
        /\ k = "wasm" =>
              i > 1 /\ sb = bs /\ bk \in {"invoke", "wasm", "create"}
        /\ k = "create" => ~Created(sb) /\ (i > 1 => bk = "callback")
  <2>1. ASSUME NEW i \in 1 .. (n + 1)
        PROVE  P(frames'[i].kind, frames'[i].sb, frames'[i].old, i,
                 frames'[i - 1].kind, frames'[i - 1].sb)
    <3>1. CASE i = n + 1 /\ n = 0
      BY <1>1, <1>2, <3>1 DEF MayPush
    <3>2. CASE i = n + 1 /\ n # 0
      <4>1. frames'[i] = f /\ i > 1 /\ i # 1 /\ i - 1 = n /\ n \in 1 .. n
        BY <1>1, <1>2, <3>2
      <4>2. frames'[n].kind = Top.kind /\ frames'[n].sb = Top.sb
        BY <1>1, <1>2, <4>1
      <4>3. P(f.kind, f.sb, f.old, i, Top.kind, Top.sb)
        BY <1>1, <4>1, <3>2 DEF MayPush
      <4> HIDE DEF P
      <4> QED  BY <4>1, <4>2, <4>3
    <3>3. CASE i # n + 1
      <4>1. i \in 1 .. n
        BY <1>1, <3>3
      <4>2. P(frames[i].kind, frames[i].sb, frames[i].old, i,
              frames[i - 1].kind, frames[i - 1].sb)
        BY <4>1 DEF StackInv
      <4>3. CASE i = 1
        BY <1>2, <4>1, <4>2, <4>3
      <4>4. CASE i # 1
        <5>1. i - 1 \in 1 .. n
          BY <1>1, <4>1, <4>4
        <5>2. /\ frames'[i].kind = frames[i].kind
              /\ frames'[i].sb = frames[i].sb
              /\ frames'[i].old = frames[i].old
              /\ frames'[i - 1].kind = frames[i - 1].kind
              /\ frames'[i - 1].sb = frames[i - 1].sb
          BY <1>2, <4>1, <5>1
        <5> HIDE DEF P
        <5> QED  BY <4>2, <5>2
      <4> QED  BY <4>3, <4>4
    <3> QED  BY <3>1, <3>2, <3>3
  <2> QED  BY <1>1, <1>2, <1>3, <2>1 DEF StackInv
<1>6. CtorsInv'
  <2> SUFFICES ASSUME NEW i \in 1 .. (n + 1), frames'[i].kind = "create",
                      NEW j \in (i + 1) .. (n + 1)
               PROVE  frames'[j].kind = "wasm" /\ frames'[j].sb = frames'[i].sb
    BY <1>1, <1>2 DEF CtorsInv
  <2>1. i \in 1 .. n /\ frames[i].kind = "create"
    BY <1>1, <1>2
  <2>2. f.kind = "wasm"
    BY <2>1, PushDuringCreation
  <2>3. CASE j # n + 1
    <3>1. j \in (i + 1) .. n /\ j \in 1 .. n
      BY <1>1, <2>1, <2>3
    <3>2. frames[j].kind = "wasm" /\ frames[j].sb = frames[i].sb
      BY <2>1, <3>1 DEF CtorsInv
    <3> QED  BY <1>2, <2>1, <3>1, <3>2
  <2>4. CASE j = n + 1
    <3>1. Top.sb = frames[i].sb
      <4>1. CASE i = n
        BY <1>1, <4>1
      <4>2. CASE i # n
        <5>1. n \in (i + 1) .. n
          BY <1>1, <2>1, <4>2
        <5> QED  BY <1>1, <2>1, <5>1 DEF CtorsInv
      <4> QED  BY <4>1, <4>2
    <3> QED  BY <1>2, <2>1, <2>2, <2>4, <3>1 DEF MayPush
  <2> QED  BY <2>3, <2>4
<1>7. EntryInv'
  <2> SUFFICES ASSUME NEW i \in 1 .. (n + 1), frames'[i].kind = "wasm"
               PROVE  \E j \in 1 .. (i - 1) :
                         /\ frames'[j].kind \in {"invoke", "create"}
                         /\ frames'[j].sb = frames'[i].sb
                         /\ \A k \in (j + 1) .. (i - 1) :
                               frames'[k].kind = "wasm"
    BY <1>1, <1>2 DEF EntryInv
  <2>1. CASE i # n + 1
    <3>1. i \in 1 .. n /\ frames[i].kind = "wasm"
      BY <1>1, <1>2, <2>1
    <3>2. PICK j \in 1 .. (i - 1) :
             /\ frames[j].kind \in {"invoke", "create"}
             /\ frames[j].sb = frames[i].sb
             /\ \A k \in (j + 1) .. (i - 1) : frames[k].kind = "wasm"
      BY <3>1 DEF EntryInv
    <3>3. j \in 1 .. n /\ \A k \in (j + 1) .. (i - 1) : k \in 1 .. n
      BY <1>1, <3>1
    <3> QED  BY <1>2, <3>1, <3>2, <3>3
  <2>2. CASE i = n + 1
    <3>1. f.kind = "wasm" /\ f.sb = Top.sb /\ n \in 1 .. n
          /\ Top.kind \in {"invoke", "wasm", "create"}
      BY <1>1, <1>2, <2>2 DEF MayPush
    <3>2. CASE Top.kind # "wasm"
      <4>1. n \in 1 .. (i - 1) /\ (n + 1) .. (i - 1) = {}
        BY <1>1, <2>2, <3>1
      <4> QED  BY <1>1, <1>2, <2>2, <3>1, <3>2, <4>1
    <3>3. CASE Top.kind = "wasm"
      <4>1. PICK j \in 1 .. (n - 1) :
               /\ frames[j].kind \in {"invoke", "create"}
               /\ frames[j].sb = Top.sb
               /\ \A k \in (j + 1) .. (n - 1) : frames[k].kind = "wasm"
        BY <1>1, <3>1, <3>3 DEF EntryInv
      <4>2. j \in 1 .. (i - 1) /\ j \in 1 .. n
        BY <1>1, <2>2
      <4>3. ASSUME NEW k \in (j + 1) .. (i - 1)
            PROVE  frames'[k].kind = "wasm"
        <5>1. k \in 1 .. n /\ (k = n \/ k \in (j + 1) .. (n - 1))
          BY <1>1, <2>2, <4>2
        <5> QED  BY <1>1, <1>2, <3>3, <4>1, <5>1
      <4> QED  BY <1>2, <2>2, <3>1, <4>1, <4>2, <4>3
    <3> QED  BY <3>2, <3>3
  <2> QED  BY <2>1, <2>2
<1> QED  BY <1>5, <1>6, <1>7

(* The invariants of the stack when a frame is popped; a sandbox may have   *)
(* been created by it.                                                      *)
LEMMA PopKeeps ==
    ASSUME TypeOK, StackInv, CtorsInv, EntryInv, Popped,
           \A sb \in Sandboxes : Created(sb) => Created(sb)',
           \/ UNCHANGED wasm_memory
           \/ Top.kind = "create"
    PROVE  StackInv' /\ CtorsInv' /\ EntryInv'
<1> DEFINE n == Len(frames)
<1>1. /\ n \in Nat \ {0} /\ Top = frames[n] /\ Len(frames') = n - 1
      /\ \A i \in 1 .. (n - 1) : frames'[i] = frames[i]
      /\ \A i \in 1 .. n : frames[i] \in Frame /\ frames[i].sb \in Sandboxes
  BY StackFacts DEF Popped, TypeOK, Frame
<1>2. ASSUME NEW i \in 1 .. (n - 1), frames[i].kind = "create"
      PROVE  ~Created(frames[i].sb)'
  <2>1. n \in (i + 1) .. n /\ i \in 1 .. n
    BY <1>1
  <2>2. Top.kind = "wasm"
    BY <1>1, <1>2, <2>1 DEF CtorsInv
  <2>3. UNCHANGED wasm_memory
    BY <2>2
  <2> QED  BY <1>1, <1>2, <2>1, <2>3 DEF StackInv, Created
<1>3. StackInv'
  <2> SUFFICES ASSUME NEW i \in 1 .. (n - 1)
               PROVE
        /\ frames[i].kind = "invoke" =>
              /\ Created(frames[i].sb)'
              /\ IF i = 1 THEN frames[i].old = NULL
                 ELSE /\ frames'[i - 1].kind \in {"invoke", "callback"}
                      /\ frames[i].old = frames'[i - 1].sb
        /\ frames[i].kind = "callback" =>
              /\ Created(frames[i].sb)' /\ i > 1
              /\ frames'[i - 1].kind = "wasm"
              /\ frames[i].sb = frames'[i - 1].sb
        /\ frames[i].kind = "wasm" =>
              /\ i > 1 /\ frames[i].sb = frames'[i - 1].sb
              /\ frames'[i - 1].kind \in {"invoke", "wasm", "create"}
        /\ frames[i].kind = "create" =>
              /\ ~Created(frames[i].sb)'
              /\ i > 1 => frames'[i - 1].kind = "callback"
    BY <1>1 DEF StackInv, Created
  <2>1. i \in 1 .. n
    BY <1>1
  <2>2. i # 1 => frames'[i - 1] = frames[i - 1]
    BY <1>1
  <2> QED  BY <1>1, <1>2, <2>1, <2>2 DEF StackInv
<1>4. CtorsInv'
  BY <1>1 DEF CtorsInv
<1>5. EntryInv'
  <2> SUFFICES ASSUME NEW i \in 1 .. (n - 1), frames[i].kind = "wasm"
               PROVE  \E j \in 1 .. (i - 1) :
                         /\ frames'[j].kind \in {"invoke", "create"}
                         /\ frames'[j].sb = frames[i].sb
                         /\ \A k \in (j + 1) .. (i - 1) :
                               frames'[k].kind = "wasm"
    BY <1>1 DEF EntryInv
  <2>1. i \in 1 .. n
    BY <1>1
  <2>2. PICK j \in 1 .. (i - 1) :
           /\ frames[j].kind \in {"invoke", "create"}
           /\ frames[j].sb = frames[i].sb
           /\ \A k \in (j + 1) .. (i - 1) : frames[k].kind = "wasm"
    BY <2>1 DEF EntryInv
  <2>3. j \in 1 .. (n - 1) /\ \A k \in (j + 1) .. (i - 1) : k \in 1 .. (n - 1)
    BY <1>1
  <2> QED  BY <1>1, <2>2, <2>3
<1> QED  BY <1>3, <1>4, <1>5

-----------------------------------------------------------------------------
(* The steps *)

(* The code of a sandbox is entered, by an invokeFunction, a function of it *)
(* or createSandbox.                                                        *)
LEMMA EnterStep ==
    ASSUME IInv, exit = "running", frames # <<>>,
           Top.kind \in {"invoke", "create", "wasm"},
           NEW stack, SameFrames(stack), EnterWasm(Top.sb, stack),
           UNCHANGED <<CurrThreadSandbox, g_jmp_buf, Z_envZ_memory,
                       wasm_memory, guards>>
    PROVE  IInv'
<1> DEFINE n == Len(frames)
           l == Lib[Top.sb]
<1>1. /\ n \in Nat \ {0} /\ frames \in Seq(Frame) /\ Top = frames[n]
      /\ Top \in Frame /\ Top.sb \in Sandboxes /\ l \in Libs
      /\ \A i \in 1 .. n : frames[i] \in Frame
  <2>1. frames \in Seq(Frame)
    BY DEF IInv, TypeOK
  <2>2. /\ n \in Nat \ {0} /\ Top = frames[n]
        /\ \A i \in 1 .. n : frames[i] \in Frame
    BY <2>1, StackFacts
  <2>3. Top \in Frame
    BY <2>2
  <2>4. Top.sb \in Sandboxes
    BY <2>3 DEF Frame
  <2> QED  BY <2>1, <2>2, <2>3, <2>4, ConstantsAssumption
<1>2. WasmFrame(Top.sb) \in Frame
  BY <1>1 DEF WasmFrame, Frame, PCs
<1>3. Pushed(WasmFrame(Top.sb))
  BY <1>1, <1>2, AppendPushes DEF EnterWasm
<1>4. /\ frames' \in Seq(Frame) /\ Len(frames') = n + 1
      /\ frames'[n + 1] = WasmFrame(Top.sb) /\ frames' # <<>>
      /\ Top' = WasmFrame(Top.sb)
      /\ \A i \in 1 .. n : /\ frames'[i].kind = frames[i].kind
                           /\ frames'[i].sb = frames[i].sb
                           /\ frames'[i].old = frames[i].old
  <2>1. /\ frames' \in Seq(Frame) /\ Len(frames') = n + 1
        /\ frames'[n + 1] = WasmFrame(Top.sb)
    BY <1>3 DEF Pushed
  <2>2. frames' # <<>> /\ Top' = frames'[n + 1]
    BY <1>1, <2>1 DEF Top, Last
  <2> QED  BY <1>3, <2>1, <2>2 DEF Pushed
<1>5. /\ WasmFrame(Top.sb).kind = "wasm" /\ WasmFrame(Top.sb).sb = Top.sb
  BY DEF WasmFrame
<1>6. \A sb : Created(sb)' = Created(sb)
  BY DEF Created
<1>7. wasm_rt_call_stack_depth[l] <= WASM_RT_MAX_CALL_STACK_DEPTH
  BY <1>1 DEF IInv, DepthCounts
<1>8. TypeOK'
  <2>1. exit' \in {"running", "abort", "unset", "lost"}
    BY DEF EnterWasm, TrapExit
  <2>2. wasm_rt_call_stack_depth' \in
           [Libs -> 0 .. WASM_RT_MAX_CALL_STACK_DEPTH + 1]
    <3>1. wasm_rt_call_stack_depth \in
             [Libs -> 0 .. WASM_RT_MAX_CALL_STACK_DEPTH + 1]
      BY DEF IInv, TypeOK
    <3>2. wasm_rt_call_stack_depth' =
             [wasm_rt_call_stack_depth EXCEPT ![l] = @ + 1]
      BY DEF EnterWasm
    <3>3. wasm_rt_call_stack_depth[l] + 1 \in
             0 .. WASM_RT_MAX_CALL_STACK_DEPTH + 1
      BY <1>1, <1>7, <3>1, ConstantsAssumption
    <3> QED  BY <3>1, <3>2, <3>3
  <2> QED  BY <1>4, <2>1, <2>2 DEF guards, IInv, TypeOK
<1>9. DepthCounts'
  <2> SUFFICES ASSUME exit' = "running", NEW m \in Libs
               PROVE  /\ wasm_rt_call_stack_depth'[m] =
                             Cardinality(WasmFrames(m)')
                      /\ wasm_rt_call_stack_depth'[m] <=
                             WASM_RT_MAX_CALL_STACK_DEPTH
    BY DEF DepthCounts
  <2>1. /\ wasm_rt_call_stack_depth[m] = Cardinality(WasmFrames(m))
        /\ wasm_rt_call_stack_depth[m] <= WASM_RT_MAX_CALL_STACK_DEPTH
    BY DEF IInv, DepthCounts
  <2>2. wasm_rt_call_stack_depth[l] + 1 <= WASM_RT_MAX_CALL_STACK_DEPTH
    <3>1. wasm_rt_call_stack_depth[l] \in Nat
      BY <1>1, ConstantsAssumption DEF IInv, TypeOK
    <3>2. ~(wasm_rt_call_stack_depth[l] + 1 > WASM_RT_MAX_CALL_STACK_DEPTH)
      BY DEF EnterWasm, TrapExit
    <3> QED  BY <3>1, <3>2, ConstantsAssumption
  <2>3. wasm_rt_call_stack_depth'[m] =
           IF m = l THEN wasm_rt_call_stack_depth[m] + 1
           ELSE wasm_rt_call_stack_depth[m]
    BY <1>1 DEF EnterWasm, IInv, TypeOK
  <2>4. Cardinality(WasmFrames(m)') =
           IF l = m THEN Cardinality(WasmFrames(m)) + 1
           ELSE Cardinality(WasmFrames(m))
    BY <1>1, <1>3, <1>5, CountPushed
  <2> QED  BY <2>1, <2>2, <2>3, <2>4
<1>10. StackInv' /\ CtorsInv' /\ EntryInv'
  <2>1. MayPush(WasmFrame(Top.sb))
    BY <1>5 DEF MayPush
  <2> QED  BY <1>2, <1>3, <2>1, PushKeeps DEF IInv
<1>13. CurrentInv'
  <2> SUFFICES ASSUME exit' = "running" PROVE CurrentInv'
    BY DEF CurrentInv
  <2>1. Created(Top.sb) => CurrThreadSandbox = Top.sb
    BY <1>1 DEF IInv, CurrentInv, StackInv
  <2>2. ASSUME NEW i \in 1 .. (n + 1), frames'[i].kind = "create"
        PROVE  CurrThreadSandbox = IF i = 1 THEN NULL ELSE frames'[i - 1].sb
    <3>1. i \in 1 .. n /\ frames[i].kind = "create"
      BY <1>1, <1>4, <1>5, <2>2
    <3> QED  BY <1>1, <1>4, <3>1 DEF IInv, CurrentInv
  <2> QED  BY <1>4, <1>5, <1>6, <2>1, <2>2 DEF CurrentInv
<1> QED  BY <1>8, <1>9, <1>10, <1>13 DEF IInv

(* A frame is pushed that is not one of sandboxed code.                     *)
LEMMA PushStep ==
    ASSUME IInv, exit = "running", NEW f \in Frame, MayPush(f), Pushed(f),
           f.kind # "wasm", TypeOK',
           UNCHANGED <<wasm_rt_call_stack_depth, wasm_memory>>,
           IF f.kind = "create" THEN UNCHANGED CurrThreadSandbox
           ELSE CurrThreadSandbox' = f.sb
    PROVE  IInv'
<1> DEFINE n == Len(frames)
<1>1. /\ n \in Nat /\ frames \in Seq(Frame) /\ Top = frames[n]
      /\ frames = <<>> <=> n = 0
  BY StackFacts DEF IInv, TypeOK
<1>2. /\ Len(frames') = n + 1 /\ frames'[n + 1] = f
      /\ \A i \in 1 .. n : /\ frames'[i].kind = frames[i].kind
                           /\ frames'[i].sb = frames[i].sb
      /\ frames' # <<>> /\ Top' = f
  <2>1. /\ Len(frames') = n + 1 /\ frames'[n + 1] = f
        /\ \A i \in 1 .. n : /\ frames'[i].kind = frames[i].kind
                             /\ frames'[i].sb = frames[i].sb
    BY DEF Pushed
  <2> QED  BY <1>1, <2>1 DEF Top, Last
<1>3. \A i \in 1 .. n : frames[i].kind # "create"
  BY PushDuringCreation DEF IInv
<1>4. DepthCounts'
  <2> SUFFICES ASSUME NEW l \in Libs
               PROVE  Cardinality(WasmFrames(l)') = Cardinality(WasmFrames(l))
    BY DEF IInv, DepthCounts
  <2> QED  BY <1>1, CountPushed
<1>5. StackInv' /\ CtorsInv' /\ EntryInv'
  BY PushKeeps DEF IInv
<1>6. CurrentInv'
  <2>1. \A sb : Created(sb)' = Created(sb)
    BY DEF Created
  <2>2. ASSUME NEW i \in 1 .. (n + 1), frames'[i].kind = "create"
        PROVE  CurrThreadSandbox' = IF i = 1 THEN NULL ELSE frames'[i - 1].sb
    <3>1. i = n + 1 /\ f.kind = "create" /\ ~Created(f.sb)
      BY <1>1, <1>2, <1>3, <2>2 DEF MayPush
    <3>2. CurrThreadSandbox' = CurrThreadSandbox
      BY <3>1
    <3>3. CASE n = 0
      BY <1>1, <3>1, <3>2, <3>3 DEF IInv, CurrentInv
    <3>4. CASE n # 0
      <4>1. n \in 1 .. n /\ frames # <<>> /\ Top.kind = "callback"
        BY <1>1, <3>1, <3>4 DEF MayPush
      <4>2. Created(Top.sb)
        BY <1>1, <4>1 DEF IInv, StackInv
      <4>3. CurrThreadSandbox = Top.sb
        BY <4>1, <4>2 DEF IInv, CurrentInv
      <4> QED  BY <1>1, <1>2, <3>1, <3>2, <3>4, <4>1, <4>3
    <3> QED  BY <3>3, <3>4
  <2>3. f.kind # "create" => CurrThreadSandbox' = f.sb
    OBVIOUS
  <2> QED  BY <1>2, <2>2, <2>3 DEF CurrentInv
<1> QED  BY <1>4, <1>5, <1>6 DEF IInv

(* invokeFunction is entered, by the host or for the memory of a struct.    *)
LEMMA InvokeStep ==
    ASSUME IInv, exit = "running", NEW sb \in Sandboxes, NEW class \in BOOLEAN,
           NEW stack, SameFrames(stack), PushInvoke(sb, class, stack),
           Created(sb),
           \/ frames = <<>>
           \/ Top.kind = "callback"
           \/ Top.kind = "invoke" /\ Top.sb = sb
    PROVE  IInv'
<1> DEFINE f == InvokeFrame(sb, CurrThreadSandbox, class,
                            IF class THEN "malloc" ELSE "call")
           n == Len(frames)
<1>1. /\ n \in Nat /\ frames \in Seq(Frame) /\ Top = frames[n]
      /\ frames = <<>> <=> n = 0
  BY StackFacts DEF IInv, TypeOK
<1>2. f \in Frame /\ f.kind = "invoke" /\ f.sb = sb
      /\ f.old = CurrThreadSandbox
  BY DEF InvokeFrame, Frame, PCs, IInv, TypeOK
<1>3. Pushed(f)
  <2> HIDE DEF f
  <2>1. frames' = Append(stack, f)
    BY DEF PushInvoke, f
  <2> QED  BY <1>1, <1>2, <2>1, AppendPushes
<1>4. MayPush(f)
  <2>1. CASE frames = <<>>
    BY <1>2, <2>1 DEF MayPush, IInv, CurrentInv
  <2>2. CASE frames # <<>>
    <3>1. Created(Top.sb) /\ Top.kind \in {"invoke", "callback"}
      BY <1>1, <2>2 DEF IInv, StackInv
    <3>2. CurrThreadSandbox = Top.sb
      BY <2>2, <3>1 DEF IInv, CurrentInv
    <3> HIDE DEF f
    <3> QED  BY <1>2, <2>2, <3>1, <3>2 DEF MayPush
  <2> QED  BY <2>1, <2>2
<1>5. TypeOK'
  <2>1. frames' \in Seq(Frame)
    BY <1>3 DEF Pushed
  <2>2. Len(stack) + 1 \in Nat
    BY <1>1 DEF SameFrames
  <2>3. invoked \cup {Lib[sb]} \subseteq Libs
    BY ConstantsAssumption DEF IInv, TypeOK
  <2> QED  BY <2>1, <2>2, <2>3 DEF PushInvoke, SetJmp, IInv, TypeOK
<1> HIDE DEF f
<1> QED  BY <1>2, <1>3, <1>4, <1>5, PushStep DEF PushInvoke

(* What a thread pops, it was in: the frame below is the innermost one.     *)
LEMMA PoppedTop ==
    ASSUME TypeOK, Popped
    PROVE  /\ Len(frames) \in Nat \ {0} /\ frames # <<>>
           /\ Top = frames[Len(frames)] /\ Top \in Frame
           /\ Len(frames') = Len(frames) - 1 /\ frames' \in Seq(Frame)
           /\ frames' = <<>> <=> Len(frames) = 1
           /\ Len(frames) # 1 => /\ Len(frames) - 1 \in 1 .. Len(frames)
                                 /\ Top' = frames[Len(frames) - 1]
           /\ \A i \in 1 .. (Len(frames) - 1) : frames'[i] = frames[i]
<1>1. /\ Len(frames) \in Nat \ {0} /\ frames # <<>>
      /\ Top = frames[Len(frames)] /\ Top \in Frame
      /\ Len(frames') = Len(frames) - 1 /\ frames' \in Seq(Frame)
      /\ \A i \in 1 .. (Len(frames) - 1) : frames'[i] = frames[i]
  BY StackFacts DEF Popped, TypeOK
<1>2. frames' = <<>> <=> Len(frames) = 1
  BY <1>1, EmptySeq
<1>3. ASSUME Len(frames) # 1
      PROVE  /\ Len(frames) - 1 \in 1 .. Len(frames)
             /\ Top' = frames[Len(frames) - 1]
  BY <1>1, <1>3 DEF Top, Last
<1> QED  BY <1>1, <1>2, <1>3

(* A frame is popped.                                                       *)
LEMMA PopStep ==
    ASSUME IInv, exit = "running", UNCHANGED exit, Popped, TypeOK',
           \A sb \in Sandboxes : Created(sb) => Created(sb)',
           \/ UNCHANGED wasm_memory
           \/ Top.kind = "create",
           \A l \in Libs :
              wasm_rt_call_stack_depth'[l] =
                 IF Top.kind = "wasm" /\ Lib[Top.sb] = l
                 THEN wasm_rt_call_stack_depth[l] - 1
                 ELSE wasm_rt_call_stack_depth[l],
           IF Top.kind = "invoke" THEN CurrThreadSandbox' = Top.old
           ELSE UNCHANGED CurrThreadSandbox
    PROVE  IInv'
<1> DEFINE n == Len(frames)
<1>1. /\ n \in Nat \ {0} /\ frames # <<>> /\ Top = frames[n] /\ Top \in Frame
      /\ Len(frames') = n - 1 /\ frames \in Seq(Frame)
      /\ frames' = <<>> <=> n = 1
      /\ n # 1 => n - 1 \in 1 .. n /\ Top' = frames[n - 1]
      /\ \A i \in 1 .. (n - 1) : frames'[i] = frames[i]
      /\ n \in 1 .. n
  BY PoppedTop DEF IInv, TypeOK
<1>2. DepthCounts'
  <2> SUFFICES ASSUME NEW l \in Libs
               PROVE  /\ wasm_rt_call_stack_depth'[l] =
                             Cardinality(WasmFrames(l)')
                      /\ wasm_rt_call_stack_depth'[l] <=
                             WASM_RT_MAX_CALL_STACK_DEPTH
    BY DEF DepthCounts
  <2>1. /\ wasm_rt_call_stack_depth[l] = Cardinality(WasmFrames(l))
        /\ wasm_rt_call_stack_depth[l] <= WASM_RT_MAX_CALL_STACK_DEPTH
    BY DEF IInv, DepthCounts
  <2>2. /\ Cardinality(WasmFrames(l)') \in Nat
        /\ Cardinality(WasmFrames(l)) =
            IF Top.kind = "wasm" /\ Lib[Top.sb] = l
            THEN Cardinality(WasmFrames(l)') + 1
            ELSE Cardinality(WasmFrames(l)')
    BY <1>1, CountPopped
  <2> QED  BY <2>1, <2>2, ConstantsAssumption
<1>3. StackInv' /\ CtorsInv' /\ EntryInv'
  BY PopKeeps DEF IInv
<1>4. CurrentInv'
  <2> SUFFICES
        /\ n = 1 => CurrThreadSandbox' = NULL
        /\ n # 1 /\ Top'.kind # "create" /\ Created(Top.sb)'
              => CurrThreadSandbox' = Top'.sb
        /\ \A i \in 1 .. (n - 1) : frames[i].kind = "create" =>
              CurrThreadSandbox' = IF i = 1 THEN NULL ELSE frames'[i - 1].sb
    BY <1>1 DEF CurrentInv
  <2>1. Top.kind \in {"invoke", "wasm", "callback", "create"}
    BY <1>1 DEF Frame
  <2>2. CASE Top.kind = "invoke"
    <3>1. \A i \in 1 .. n : frames[i].kind # "create"
      BY <2>2, NoCreation DEF IInv
    <3>2. /\ n = 1 => Top.old = NULL
          /\ n # 1 => Top.old = frames[n - 1].sb
      BY <1>1, <2>2 DEF IInv, StackInv
    <3> QED  BY <1>1, <2>2, <3>1, <3>2
  <2>3. CASE Top.kind = "callback"
    <3>1. \A i \in 1 .. n : frames[i].kind # "create"
      BY <2>3, NoCreation DEF IInv
    <3>2. Created(Top.sb) /\ n # 1 /\ frames[n - 1].sb = Top.sb
      BY <1>1, <2>3 DEF IInv, StackInv
    <3>3. CurrThreadSandbox = Top.sb
      BY <1>1, <2>3, <3>2 DEF IInv, CurrentInv
    <3> QED  BY <1>1, <2>3, <3>1, <3>2, <3>3
  <2>4. CASE Top.kind = "wasm"
    <3>1. n # 1 /\ frames[n - 1].sb = Top.sb
      BY <1>1, <2>4 DEF IInv, StackInv
    <3>2. Created(Top.sb) => CurrThreadSandbox = Top.sb
      BY <1>1, <2>4 DEF IInv, CurrentInv
    <3>3. /\ \A sb : Created(sb)' = Created(sb)
          /\ UNCHANGED CurrThreadSandbox
      BY <2>4 DEF Created
    <3>4. ASSUME NEW i \in 1 .. (n - 1), frames[i].kind = "create"
          PROVE  CurrThreadSandbox' = IF i = 1 THEN NULL ELSE frames'[i - 1].sb
      <4>1. i \in 1 .. n /\ (i # 1 => i - 1 \in 1 .. (n - 1))
        BY <1>1
      <4>2. CurrThreadSandbox = IF i = 1 THEN NULL ELSE frames[i - 1].sb
        BY <3>4, <4>1 DEF IInv, CurrentInv
      <4> QED  BY <1>1, <3>3, <4>1, <4>2
    <3> QED  BY <1>1, <3>1, <3>2, <3>3, <3>4
  <2>5. CASE Top.kind = "create"
    <3>1. UNCHANGED CurrThreadSandbox
          /\ CurrThreadSandbox = IF n = 1 THEN NULL ELSE frames[n - 1].sb
      BY <1>1, <2>5 DEF IInv, CurrentInv
    <3>2. ASSUME NEW i \in 1 .. (n - 1) PROVE frames[i].kind # "create"
      <4>1. i \in 1 .. n /\ n \in (i + 1) .. n
        BY <1>1
      <4> QED  BY <1>1, <2>5, <4>1 DEF IInv, CtorsInv
    <3> QED  BY <1>1, <3>1, <3>2
  <2> QED  BY <2>1, <2>2, <2>3, <2>4, <2>5
<1> QED  BY <1>2, <1>3, <1>4 DEF IInv

(* A step that leaves the stack alone and goes on, or one that ends.        *)
LEMMA StillStep ==
    ASSUME IInv, TypeOK', UNCHANGED <<frames, wasm_memory>>,
           \/ exit' # "running"
           \/ UNCHANGED <<CurrThreadSandbox, wasm_rt_call_stack_depth, exit>>
    PROVE  IInv'
<1>1. StackInv' /\ CtorsInv' /\ EntryInv'
  BY DEF IInv, StackInv, CtorsInv, EntryInv, Created
<1>2. DepthCounts'
  BY DEF IInv, DepthCounts, WasmFrames
<1>3. CurrentInv'
  BY DEF IInv, CurrentInv, Top, Created
<1> QED  BY <1>1, <1>2, <1>3 DEF IInv

-----------------------------------------------------------------------------
(* The actions *)

(* Initially nothing has been called.                                       *)
LEMMA InitInvariant == Init => IInv
<1> SUFFICES ASSUME Init PROVE IInv
  OBVIOUS
<1>1. frames = <<>> /\ Len(frames) = 0 /\ frames \in Seq(Frame)
  BY EmptySeq DEF Init
<1>2. TypeOK
  BY <1>1, ConstantsAssumption DEF Init, TypeOK
<1>3. DepthCounts
  <2>1. \A l \in Libs : WasmFrames(l) = {}
    BY <1>1 DEF WasmFrames
  <2>2. Cardinality({}) = 0
    BY FS_EmptySet
  <2>3. 0 <= WASM_RT_MAX_CALL_STACK_DEPTH
    BY ConstantsAssumption
  <2>4. \A l \in Libs : wasm_rt_call_stack_depth[l] = 0
    BY DEF Init
  <2> QED  BY <2>1, <2>2, <2>3, <2>4 DEF DepthCounts
<1>4. StackInv /\ CtorsInv /\ EntryInv /\ CurrentInv
  BY <1>1 DEF Init, StackInv, CtorsInv, EntryInv, CurrentInv
<1> QED  BY <1>2, <1>3, <1>4 DEF IInv

(* createSandbox begins.                                                    *)
LEMMA CreateSandboxStep ==
    ASSUME IInv, NEW sb \in Sandboxes, CreateSandbox(sb) PROVE IInv'
<1> DEFINE f == CreateFrame(sb)
<1>1. f \in Frame /\ f.kind = "create" /\ f.sb = sb
  BY DEF CreateFrame, Frame, PCs
<1>2. frames \in Seq(Frame) /\ SameFrames(frames)
  BY DEF IInv, TypeOK, SameFrames
<1>3. frames' = Append(frames, f) /\ exit = "running"
      /\ (frames # <<>> => Top.kind = "callback")
  BY DEF CreateSandbox, InHost
<1> HIDE DEF f
<1>4. Pushed(f)
  BY <1>1, <1>2, <1>3, AppendPushes
<1>5. MayPush(f)
  BY <1>1, <1>3 DEF MayPush, CreateSandbox
<1>6. TypeOK'
  <2>1. frames' \in Seq(Frame)
    BY <1>4 DEF Pushed
  <2>2. Lib[sb] \in Libs
    BY ConstantsAssumption
  <2> QED  BY <2>1, <2>2 DEF CreateSandbox, IInv, TypeOK
<1> QED  BY <1>1, <1>3, <1>4, <1>5, <1>6, PushStep DEF CreateSandbox

(* The constructors are called.                                             *)
LEMMA CallCtorsStep == ASSUME IInv, CallCtors PROVE IInv'
<1>1. frames \in Seq(Frame) /\ frames # <<>> /\ exit = "running"
      /\ Top.kind = "create"
  BY DEF CallCtors, Running, IInv, TypeOK
<1>2. SameFrames(Goto("created"))
  BY <1>1, GotoFacts DEF PCs
<1> QED  BY <1>1, <1>2, EnterStep DEF CallCtors

(* createSandbox returns.                                                   *)
LEMMA CreateReturnStep == ASSUME IInv, CreateReturn PROVE IInv'
<1>1. frames \in Seq(Frame) /\ frames # <<>> /\ exit = "running"
      /\ Top.kind = "create"
  BY DEF CreateReturn, Running, IInv, TypeOK
<1>2. Popped
  BY <1>1, FrontPops DEF CreateReturn
<1>3. Top \in Frame /\ Top.sb \in Sandboxes /\ Lib[Top.sb] \in Libs
      /\ frames' \in Seq(Frame)
  BY <1>2, PoppedTop, ConstantsAssumption DEF Frame, IInv, TypeOK
<1>4. TypeOK'
  BY <1>3 DEF CreateReturn, guards, IInv, TypeOK
<1>5. ASSUME NEW sb \in Sandboxes, Created(sb) PROVE Created(sb)'
  <2>1. ~Created(Top.sb)
    BY <1>1, <1>2, PoppedTop DEF IInv, StackInv
  <2>2. sb # Top.sb
    BY <1>5, <2>1
  <2> QED  BY <1>3, <1>5, <2>2 DEF CreateReturn, Created, IInv, TypeOK
<1> QED  BY <1>1, <1>2, <1>4, <1>5, PopStep DEF CreateReturn

(* invokeFunction is called by the host.                                    *)
LEMMA InvokeFunctionStep ==
    ASSUME IInv, NEW sb \in Sandboxes, NEW class \in BOOLEAN,
           InvokeFunction(sb, class)
    PROVE  IInv'
<1>1. SameFrames(frames)
  BY DEF IInv, TypeOK, SameFrames
<1> QED  BY <1>1, InvokeStep DEF InvokeFunction, InHost

(* invokeFunction allocates or frees the memory of a struct.                *)
LEMMA InvokeMallocOrFreeStep == ASSUME IInv, InvokeMallocOrFree PROVE IInv'
<1>1. /\ frames \in Seq(Frame) /\ frames # <<>> /\ exit = "running"
      /\ Top.kind = "invoke" /\ Top.pc \in {"malloc", "free"}
  BY DEF InvokeMallocOrFree, Running, IInv, TypeOK
<1> DEFINE pc == IF Top.pc = "malloc" THEN "call" ELSE "return"
<1>2. SameFrames(Goto(pc))
  <2>1. pc \in PCs
    BY DEF PCs
  <2> HIDE DEF pc
  <2> QED  BY <1>1, <2>1, GotoFacts
<1>3. Top.sb \in Sandboxes /\ Created(Top.sb)
  <2>1. /\ Len(frames) \in 1 .. Len(frames) /\ Top = frames[Len(frames)]
        /\ frames[Len(frames)] \in Frame
    BY <1>1, StackFacts
  <2> QED  BY <1>1, <2>1 DEF Frame, IInv, StackInv
<1> QED  BY <1>1, <1>2, <1>3, InvokeStep DEF InvokeMallocOrFree

(* invokeFunction calls the function.                                       *)
LEMMA CallFunctionStep == ASSUME IInv, CallFunction PROVE IInv'
<1>1. frames \in Seq(Frame) /\ frames # <<>> /\ exit = "running"
      /\ Top.kind = "invoke"
  BY DEF CallFunction, Running, IInv, TypeOK
<1> DEFINE pc == IF Top.class THEN "free" ELSE "return"
<1>2. SameFrames(Goto(pc))
  <2>1. pc \in PCs
    BY DEF PCs
  <2> HIDE DEF pc
  <2> QED  BY <1>1, <2>1, GotoFacts
<1> QED  BY <1>1, <1>2, EnterStep DEF CallFunction

(* invokeFunction returns, or finds the cookie overwritten.                 *)
LEMMA InvokeReturnStep == ASSUME IInv, InvokeReturn PROVE IInv'
<1>1. frames \in Seq(Frame) /\ frames # <<>> /\ exit = "running"
      /\ Top.kind = "invoke"
  BY DEF InvokeReturn, Running, IInv, TypeOK
<1>2. Len(frames) \in 1 .. Len(frames) /\ Top = frames[Len(frames)]
      /\ Top \in Frame
  BY <1>1, StackFacts
<1>3. Top.old \in Sandboxes \cup {NULL}
  BY <1>2 DEF Frame
<1>4. CASE checkStackCookie(Lib[Top.sb])
  <2>1. frames' = Front(frames) /\ UNCHANGED exit
    BY <1>4 DEF InvokeReturn
  <2>2. Popped
    BY <1>1, <2>1, FrontPops
  <2>3. TypeOK'
    BY <1>3, <2>1, <2>2
    DEF Popped, InvokeReturn, Restore, guards, IInv, TypeOK
  <2> QED  BY <1>1, <2>1, <2>2, <2>3, PopStep
           DEF InvokeReturn, Restore, Created
<1>5. CASE ~checkStackCookie(Lib[Top.sb])
  <2>1. UNCHANGED frames /\ exit' = "abort"
    BY <1>5 DEF InvokeReturn
  <2>2. TypeOK'
    BY <1>3, <2>1 DEF InvokeReturn, Restore, guards, IInv, TypeOK
  <2> QED  BY <2>1, <2>2, StillStep DEF InvokeReturn
<1> QED  BY <1>4, <1>5

(* Sandboxed code calls a function of its library.                          *)
LEMMA WasmCallStep == ASSUME IInv, WasmCall PROVE IInv'
<1>1. SameFrames(frames)
  BY DEF IInv, TypeOK, SameFrames
<1> QED  BY <1>1, EnterStep DEF WasmCall, Running

(* A function of sandboxed code returns.                                    *)
LEMMA WasmReturnStep == ASSUME IInv, WasmReturn PROVE IInv'
<1>1. frames \in Seq(Frame) /\ frames # <<>> /\ exit = "running"
      /\ Top.kind = "wasm"
  BY DEF WasmReturn, Running, IInv, TypeOK
<1>2. Popped
  BY <1>1, FrontPops DEF WasmReturn
<1>3. PICK l \in Libs : l = Lib[Top.sb]
  BY <1>2, PoppedTop, ConstantsAssumption DEF Frame, IInv, TypeOK
<1>4. wasm_rt_call_stack_depth[l] - 1 \in 0 .. WASM_RT_MAX_CALL_STACK_DEPTH + 1
  <2>1. Cardinality(WasmFrames(l)) = Cardinality(WasmFrames(l)') + 1
        /\ Cardinality(WasmFrames(l)') \in Nat
    BY <1>1, <1>2, <1>3, CountPopped
  <2>2. /\ wasm_rt_call_stack_depth[l] = Cardinality(WasmFrames(l))
        /\ wasm_rt_call_stack_depth[l] <= WASM_RT_MAX_CALL_STACK_DEPTH
    BY <1>1, <1>3 DEF IInv, DepthCounts
  <2> QED  BY <2>1, <2>2, ConstantsAssumption
<1>5. wasm_rt_call_stack_depth' =
         [wasm_rt_call_stack_depth EXCEPT ![l] = @ - 1]
  BY <1>3 DEF WasmReturn, FuncEpilogue
<1>6. TypeOK'
  BY <1>2, <1>3, <1>4, <1>5 DEF Popped, WasmReturn, guards, IInv, TypeOK
<1>7. \A m \in Libs :
         wasm_rt_call_stack_depth'[m] =
            IF l = m THEN wasm_rt_call_stack_depth[m] - 1
            ELSE wasm_rt_call_stack_depth[m]
  BY <1>3, <1>5 DEF IInv, TypeOK
<1> QED  BY <1>1, <1>2, <1>3, <1>6, <1>7, PopStep DEF WasmReturn, Created

(* Sandboxed code traps.                                                    *)
LEMMA WasmTrapStep == ASSUME IInv, WasmTrap PROVE IInv'
<1>1. exit' \in {"unset", "abort", "lost"}
  BY DEF WasmTrap, TrapExit
<1>2. TypeOK'
  BY <1>1 DEF WasmTrap, guards, IInv, TypeOK
<1> QED  BY <1>1, <1>2, StillStep DEF WasmTrap

(* Sandboxed code overwrites its stack cookie.                              *)
LEMMA WasmStackOverflowStep == ASSUME IInv, WasmStackOverflow PROVE IInv'
<1>1. TypeOK'
  BY DEF WasmStackOverflow, IInv, TypeOK
<1> QED  BY <1>1, StillStep DEF WasmStackOverflow

(* Sandboxed code overwrites the word at address 0.                         *)
LEMMA WasmStoreNullStep == ASSUME IInv, WasmStoreNull PROVE IInv'
<1>1. TypeOK'
  BY DEF WasmStoreNull, IInv, TypeOK
<1> QED  BY <1>1, StillStep DEF WasmStoreNull

(* Sandboxed code calls a callback.                                         *)
LEMMA CallbackStep == ASSUME IInv, Callback PROVE IInv'
<1>1. frames \in Seq(Frame) /\ frames # <<>> /\ exit = "running"
      /\ Top.kind = "wasm" /\ Created(Top.sb)
  BY DEF Callback, Running, IInv, TypeOK
<1>2. Top \in Frame /\ Top.sb \in Sandboxes /\ CurrThreadSandbox = Top.sb
  <2>1. Top \in Frame
    BY <1>1, StackFacts
  <2> QED  BY <1>1, <2>1 DEF Frame, IInv, CurrentInv
<1> DEFINE f == CallbackFrame(CurrThreadSandbox)
<1>3. f \in Frame /\ f.kind = "callback" /\ f.sb = Top.sb
  BY <1>2 DEF CallbackFrame, Frame, PCs
<1>4. frames' = Append(frames, f)
  BY DEF Callback
<1> HIDE DEF f
<1>5. Pushed(f)
  BY <1>1, <1>3, <1>4, AppendPushes DEF SameFrames
<1>6. MayPush(f)
  BY <1>1, <1>3 DEF MayPush
<1>7. TypeOK'
  BY <1>5 DEF Pushed, Callback, guards, IInv, TypeOK
<1> QED  BY <1>1, <1>2, <1>3, <1>5, <1>6, <1>7, PushStep DEF Callback

(* A callback returns to sandboxed code.                                    *)
LEMMA CallbackReturnStep == ASSUME IInv, CallbackReturn PROVE IInv'
<1>1. frames \in Seq(Frame) /\ frames # <<>> /\ exit = "running"
      /\ Top.kind = "callback"
  BY DEF CallbackReturn, Running, IInv, TypeOK
<1>2. Popped
  BY <1>1, FrontPops DEF CallbackReturn
<1>3. TypeOK'
  BY <1>2 DEF Popped, CallbackReturn, guards, IInv, TypeOK
<1> QED  BY <1>1, <1>2, <1>3, PopStep DEF CallbackReturn, Created

(* Every step keeps the invariants.                                         *)
LEMMA StepInvariant == IInv /\ [Next]_vars => IInv'
<1> SUFFICES ASSUME IInv, [Next]_vars PROVE IInv'
  OBVIOUS
<1>1. CASE Host
  BY <1>1, CreateSandboxStep, InvokeFunctionStep, CallbackReturnStep DEF Host
<1>2. CASE Runtime
  BY <1>2, CallCtorsStep, CreateReturnStep, InvokeMallocOrFreeStep,
     CallFunctionStep, InvokeReturnStep DEF Runtime
<1>3. CASE Wasm
  BY <1>3, WasmCallStep, WasmReturnStep, WasmTrapStep, WasmStackOverflowStep,
     WasmStoreNullStep, CallbackStep DEF Wasm
<1>4. CASE UNCHANGED vars
  <2>1. TypeOK'
    BY <1>4 DEF vars, guards, IInv, TypeOK
  <2> QED  BY <1>4, <2>1, StillStep DEF vars
<1> QED  BY <1>1, <1>2, <1>3, <1>4 DEF Next, Done

-----------------------------------------------------------------------------
(* The theorems *)

(* The inductive invariant holds in every state of every execution.         *)
THEOREM Invariance == Spec => []IInv
<1>1. Init => IInv
  BY InitInvariant
<1>2. IInv /\ [Next]_vars => IInv'
  BY StepInvariant
<1> QED  BY <1>1, <1>2, PTL DEF Spec

(* The depth counter of a library is the number of its functions on the     *)
(* stack, and none runs above the maximum.                                  *)
THEOREM DepthCountsAlways == Spec => []DepthCounts
<1>1. IInv => DepthCounts
  BY DEF IInv
<1> QED  BY <1>1, Invariance, PTL

(* A callback runs for the sandbox whose code called it, and that sandbox   *)
(* is the current one while it does.                                        *)
THEOREM RightSandboxAlways == Spec => []RightSandbox
<1>1. IInv => RightSandbox
  <2> SUFFICES ASSUME IInv PROVE RightSandbox
    OBVIOUS
  <2>1. /\ Len(frames) \in Nat /\ DOMAIN frames = 1 .. Len(frames)
        /\ frames # <<>> => Len(frames) \in 1 .. Len(frames)
        /\ Top = frames[Len(frames)]
    BY StackFacts DEF IInv, TypeOK
  <2>2. \A i \in DOMAIN frames : frames[i].kind = "callback" =>
           i > 1 /\ frames[i].sb = frames[i - 1].sb
    BY <2>1 DEF IInv, StackInv
  <2>3. Running("wasm") /\ Created(Top.sb) => CurrThreadSandbox = Top.sb
    BY DEF Running, IInv, CurrentInv
  <2>4. Running("callback") => CurrThreadSandbox = Top.sb
    BY <2>1 DEF Running, IInv, StackInv, CurrentInv
  <2>5. exit = "running" /\ frames = <<>> => CurrThreadSandbox = NULL
    BY DEF IInv, CurrentInv
  <2> QED  BY <2>2, <2>3, <2>4, <2>5 DEF RightSandbox
<1> QED  BY <1>1, Invariance, PTL

-----------------------------------------------------------------------------
(* Who catches a trap, and who notices an overwrite *)

(* Somebody on the stack will check the cookie of library l.                *)
Checked(l) == \E i \in 1 .. Len(frames) :
                 frames[i].kind = "invoke" /\ Lib[frames[i].sb] = l

Intact(l) == cookie[l] /\ sentinel[l]

(* Pushing a frame leaves those that check, popping another one does.       *)
LEMMA CheckedStays ==
    ASSUME TypeOK, NEW l, Checked(l),
           \/ \E f \in Frame : Pushed(f)
           \/ Popped /\ (Top.kind # "invoke" \/ Lib[Top.sb] # l)
           \/ UNCHANGED frames
    PROVE  Checked(l)'
<1>1. PICK i \in 1 .. Len(frames) :
         frames[i].kind = "invoke" /\ Lib[frames[i].sb] = l
  BY DEF Checked
<1>2. Len(frames) \in Nat /\ Top = frames[Len(frames)]
  BY StackFacts DEF TypeOK
<1>3. CASE \E f \in Frame : Pushed(f)
  <2>1. i \in 1 .. Len(frames') /\ frames'[i].kind = frames[i].kind
        /\ frames'[i].sb = frames[i].sb
    BY <1>2, <1>3 DEF Pushed
  <2> QED  BY <1>1, <2>1 DEF Checked
<1>4. CASE Popped /\ (Top.kind # "invoke" \/ Lib[Top.sb] # l)
  <2>1. i # Len(frames)
    BY <1>1, <1>2, <1>4
  <2>2. i \in 1 .. Len(frames') /\ frames'[i] = frames[i]
    BY <1>2, <1>4, <2>1 DEF Popped
  <2> QED  BY <1>1, <2>2 DEF Checked
<1>5. CASE UNCHANGED frames
  BY <1>1, <1>5 DEF Checked
<1> QED  BY <1>3, <1>4, <1>5

(* Steps that call no setjmp and push sandboxed code or a callback, if      *)
(* anything.                                                                *)
LEMMA StackStill ==
    ASSUME IInv, CallerInv, UNCHANGED <<g_jmp_buf, invoked>>,
           \/ \E f \in Frame : f.kind \notin {"invoke", "create"} /\ Pushed(f)
           \/ Popped
           \/ UNCHANGED frames
    PROVE  CreationInv' /\ JmpInv'
<1>1. ASSUME NEW i \in 1 .. Len(frames'), frames'[i].kind \in {"invoke", "create"}
      PROVE  /\ i \in 1 .. Len(frames)
             /\ frames'[i].kind = frames[i].kind /\ frames'[i].sb = frames[i].sb
  <2>1. Len(frames) \in Nat
    BY StackFacts DEF IInv, TypeOK
  <2>2. CASE \E f \in Frame : f.kind \notin {"invoke", "create"} /\ Pushed(f)
    BY <1>1, <2>1, <2>2 DEF Pushed
  <2>3. CASE Popped
    BY <2>1, <2>3 DEF Popped
  <2> QED  BY <2>2, <2>3
<1> QED  BY <1>1 DEF CallerInv, CreationInv, JmpInv

(* Steps that in addition touch neither a cookie nor address 0, and return  *)
(* from no invokeFunction.                                                  *)
LEMMA CallerStill ==
    ASSUME IInv, CallerInv, UNCHANGED <<g_jmp_buf, guards>>,
           exit' = "running" => exit = "running",
           \/ \E f \in Frame : f.kind \notin {"invoke", "create"} /\ Pushed(f)
           \/ Popped /\ Top.kind # "invoke"
           \/ UNCHANGED frames
    PROVE  CallerInv'
<1>1. CreationInv' /\ JmpInv'
  BY StackStill DEF guards
<1>2. ASSUME exit' = "running", NEW l \in invoked, ~Intact(l)
      PROVE  Checked(l)'
  <2>1. Checked(l)
    BY <1>2 DEF CallerInv, CookieInv, Checked, Intact
  <2> QED  BY <2>1, CheckedStays DEF IInv
<1> QED  BY <1>1, <1>2 DEF CallerInv, CookieInv, Checked, Intact, guards

(* invokeFunction calls setjmp and is there to check.                       *)
LEMMA CallerInvoke ==
    ASSUME IInv, CallerInv, exit = "running",
           NEW sb \in Sandboxes, Created(sb), NEW class \in BOOLEAN,
           NEW stack, SameFrames(stack), PushInvoke(sb, class, stack),
           frames = <<>> \/ Top.kind \in {"invoke", "callback"}
    PROVE  CallerInv'
<1> DEFINE f == InvokeFrame(sb, CurrThreadSandbox, class,
                            IF class THEN "malloc" ELSE "call")
           n == Len(frames)
<1>1. f \in Frame /\ f.kind = "invoke" /\ f.sb = sb
  BY DEF InvokeFrame, Frame, PCs, IInv, TypeOK
<1>2. /\ Pushed(f) /\ n \in Nat /\ Len(stack) = n
      /\ \A i \in 1 .. n : frames[i] \in Frame /\ frames[i].sb \in Sandboxes
  <2> HIDE DEF f
  <2>1. frames' = Append(stack, f)
    BY DEF PushInvoke, f
  <2>2. Pushed(f)
    BY <1>1, <2>1, AppendPushes DEF IInv, TypeOK
  <2> QED  BY <2>2, StackFacts DEF SameFrames, Frame, IInv, TypeOK
<1> HIDE DEF f
<1>3. \A i \in 1 .. n : frames[i].kind # "create"
  BY NoCreation DEF IInv
<1>4. /\ Len(frames') = n + 1 /\ frames'[n + 1] = f
      /\ \A i \in 1 .. n : /\ frames'[i].kind = frames[i].kind
                           /\ frames'[i].sb = frames[i].sb
  BY <1>2 DEF Pushed
<1>5. /\ \A l \in Libs : g_jmp_buf'[l] = IF l = Lib[sb] THEN n + 1
                                         ELSE g_jmp_buf[l]
      /\ invoked' = invoked \cup {Lib[sb]}
      /\ UNCHANGED <<cookie, sentinel, exit>>
  BY <1>2 DEF PushInvoke, SetJmp, IInv, TypeOK
<1>6. CreationInv'
  <2> SUFFICES ASSUME NEW i \in 1 .. (n + 1), frames'[i].kind = "create"
               PROVE  FALSE
    BY <1>4 DEF CreationInv
  <2>1. i \in 1 .. n
    BY <1>1, <1>2, <1>4
  <2> QED  BY <1>3, <1>4, <2>1
<1>7. CookieInv'
  <2> SUFFICES ASSUME NEW l \in invoked', ~Intact(l) PROVE Checked(l)'
    BY <1>5 DEF CookieInv, Checked, Intact
  <2>1. CASE l = Lib[sb]
    <3>1. n + 1 \in 1 .. Len(frames')
      BY <1>2, <1>4
    <3> QED  BY <1>1, <1>4, <2>1, <3>1 DEF Checked
  <2>2. CASE l # Lib[sb]
    <3>1. Checked(l)
      BY <1>5, <2>2 DEF CallerInv, CookieInv, Checked, Intact
    <3> QED  BY <1>1, <1>2, <3>1, CheckedStays DEF IInv
  <2> QED  BY <2>1, <2>2
<1>8. JmpInv'
  <2> SUFFICES ASSUME NEW i \in 1 .. (n + 1), frames'[i].kind = "invoke"
               PROVE  i <= g_jmp_buf'[Lib[frames'[i].sb]]
    BY <1>4 DEF JmpInv
  <2>1. CASE i = n + 1
    BY <1>1, <1>2, <1>4, <1>5, <2>1, ConstantsAssumption
  <2>2. CASE i # n + 1
    <3>1. i \in 1 .. n /\ frames[i].kind = "invoke" /\ Lib[frames[i].sb] \in Libs
      BY <1>2, <1>4, <2>2, ConstantsAssumption
    <3>2. i <= g_jmp_buf[Lib[frames[i].sb]]
      BY <3>1 DEF CallerInv, JmpInv
    <3> QED  BY <1>2, <1>4, <1>5, <3>1, <3>2
  <2> QED  BY <2>1, <2>2
<1> QED  BY <1>6, <1>7, <1>8 DEF CallerInv

(* Sandboxed code is entered.                                               *)
LEMMA CallerEnter ==
    ASSUME IInv, CallerInv, exit = "running", frames # <<>>,
           NEW stack, SameFrames(stack), EnterWasm(Top.sb, stack),
           UNCHANGED <<g_jmp_buf, guards>>
    PROVE  CallerInv'
<1>1. Top.sb \in Sandboxes /\ frames \in Seq(Frame)
  <2>1. Top \in Frame /\ frames \in Seq(Frame)
    BY StackFacts DEF IInv, TypeOK
  <2> QED  BY <2>1 DEF Frame
<1>2. WasmFrame(Top.sb) \in Frame /\ WasmFrame(Top.sb).kind = "wasm"
  BY <1>1 DEF WasmFrame, Frame, PCs
<1>3. Pushed(WasmFrame(Top.sb))
  BY <1>1, <1>2, AppendPushes DEF EnterWasm
<1> QED  BY <1>2, <1>3, CallerStill

(* createSandbox writes both words anew.                                    *)
LEMMA CallerCreate ==
    ASSUME IInv, CallerInv, NEW sb \in Sandboxes, CreateSandbox(sb)
    PROVE  CallerInv'
<1> DEFINE f == CreateFrame(sb)
           n == Len(frames)
<1>1. f \in Frame /\ f.kind = "create" /\ f.sb = sb
  BY DEF CreateFrame, Frame, PCs
<1>2. frames \in Seq(Frame) /\ SameFrames(frames) /\ n \in Nat
  BY StackFacts DEF IInv, TypeOK, SameFrames
<1>3. frames' = Append(frames, f) /\ exit = "running"
      /\ (frames # <<>> => Top.kind = "callback")
  BY DEF CreateSandbox, InHost
<1> HIDE DEF f
<1>4. Pushed(f)
  BY <1>1, <1>2, <1>3, AppendPushes
<1>5. \A i \in 1 .. n : frames[i].kind # "create"
  BY <1>3, NoCreation DEF IInv
<1>6. /\ Len(frames') = n + 1 /\ frames'[n + 1] = f
      /\ \A i \in 1 .. n : /\ frames'[i].kind = frames[i].kind
                           /\ frames'[i].sb = frames[i].sb
  BY <1>4 DEF Pushed
<1>7. invoked' = invoked \ {Lib[sb]} /\ UNCHANGED <<g_jmp_buf, exit>>
  BY DEF CreateSandbox
<1>8. CreationInv'
  <2> SUFFICES ASSUME NEW i \in 1 .. (n + 1), frames'[i].kind = "create"
               PROVE  Lib[frames'[i].sb] \notin invoked'
    BY <1>6 DEF CreationInv
  <2>1. i = n + 1
    BY <1>2, <1>5, <1>6
  <2> QED  BY <1>1, <1>6, <1>7, <2>1
<1>9. CookieInv'
  <2> SUFFICES ASSUME NEW l \in invoked', ~Intact(l)' PROVE Checked(l)'
    BY DEF CookieInv, Checked, Intact
  <2>1. l \in invoked /\ l \in Libs /\ l # Lib[sb]
    BY <1>7 DEF IInv, TypeOK
  <2>2. ~Intact(l)
    BY <2>1 DEF CreateSandbox, Intact, IInv, TypeOK
  <2>3. Checked(l)
    BY <1>3, <2>1, <2>2 DEF CallerInv, CookieInv, Checked, Intact
  <2> QED  BY <1>1, <1>4, <2>3, CheckedStays DEF IInv
<1>10. JmpInv'
  <2> SUFFICES ASSUME NEW i \in 1 .. (n + 1), frames'[i].kind = "invoke"
               PROVE  i <= g_jmp_buf[Lib[frames'[i].sb]]
    BY <1>6, <1>7 DEF JmpInv
  <2>1. i \in 1 .. n
    BY <1>1, <1>2, <1>6
  <2> QED  BY <1>6, <2>1 DEF CallerInv, JmpInv
<1> QED  BY <1>8, <1>9, <1>10 DEF CallerInv

(* invokeFunction returns if both words are intact.                         *)
LEMMA CallerReturn == ASSUME IInv, CallerInv, InvokeReturn PROVE CallerInv'
<1>1. frames # <<>> /\ exit = "running" /\ Top.kind = "invoke"
      /\ UNCHANGED <<g_jmp_buf, guards>> /\ frames \in Seq(Frame)
  BY DEF InvokeReturn, Running, IInv, TypeOK
<1>2. CASE Intact(Lib[Top.sb])
  <2>1. Popped
    BY <1>1, <1>2, FrontPops DEF InvokeReturn, checkStackCookie, Intact
  <2>2. CreationInv' /\ JmpInv'
    BY <1>1, <2>1, StackStill DEF guards
  <2>3. ASSUME NEW l \in invoked, ~Intact(l) PROVE Checked(l)'
    <3>1. Checked(l) /\ Lib[Top.sb] # l
      BY <1>1, <1>2, <2>3 DEF CallerInv, CookieInv, Checked, Intact
    <3> QED  BY <2>1, <3>1, CheckedStays DEF IInv
  <2> QED  BY <1>1, <2>2, <2>3 DEF CallerInv, CookieInv, Checked, Intact, guards
<1>3. CASE ~Intact(Lib[Top.sb])
  <2>1. exit' = "abort" /\ UNCHANGED frames
    BY <1>3 DEF InvokeReturn, checkStackCookie, Intact
  <2> QED  BY <1>1, <2>1, CallerStill
<1> QED  BY <1>2, <1>3

(* Sandboxed code overwrites one of the words: an invocation of its library *)
(* is below, or it is a constructor.                                        *)
LEMMA CallerOverwrite ==
    ASSUME IInv, CallerInv, WasmStackOverflow \/ WasmStoreNull
    PROVE  CallerInv'
<1>1. /\ frames # <<>> /\ exit = "running" /\ Top.kind = "wasm"
      /\ UNCHANGED <<frames, g_jmp_buf, invoked, exit>>
  BY DEF WasmStackOverflow, WasmStoreNull, Running
<1>2. CreationInv' /\ JmpInv'
  BY <1>1, StackStill
<1>3. /\ Len(frames) \in 1 .. Len(frames) /\ Top = frames[Len(frames)]
  BY <1>1, StackFacts DEF IInv, TypeOK
<1>4. PICK j \in 1 .. (Len(frames) - 1) :
         frames[j].kind \in {"invoke", "create"} /\ frames[j].sb = Top.sb
  BY <1>1, <1>3 DEF IInv, EntryInv
<1>5. ASSUME NEW l \in invoked, ~Intact(l)' PROVE Checked(l)
  <2>1. j \in 1 .. Len(frames)
    BY <1>3
  <2>2. CASE l = Lib[Top.sb]
    <3>1. frames[j].kind # "create"
      BY <1>4, <2>1, <2>2 DEF CallerInv, CreationInv
    <3> QED  BY <1>4, <2>1, <2>2, <3>1 DEF Checked
  <2>3. CASE l # Lib[Top.sb]
    <3>1. l \in Libs /\ cookie \in [Libs -> BOOLEAN]
          /\ sentinel \in [Libs -> BOOLEAN]
      BY DEF IInv, TypeOK
    <3>2. ~Intact(l)
      BY <1>5, <2>3, <3>1 DEF WasmStackOverflow, WasmStoreNull, Intact
    <3> QED  BY <1>1, <3>2 DEF CallerInv, CookieInv, Checked, Intact
  <2> QED  BY <2>2, <2>3
<1>6. CookieInv'
  BY <1>1, <1>5 DEF CookieInv, Checked, Intact
<1> QED  BY <1>2, <1>6 DEF CallerInv

(* Every step keeps what CallerInv says.                                    *)
LEMMA CallerStep == ASSUME IInv, CallerInv, [Next]_vars PROVE CallerInv'
<1> frames \in Seq(Frame) /\ SameFrames(frames)
  BY DEF IInv, TypeOK, SameFrames
<1>1. ASSUME NEW sb \in Sandboxes, CreateSandbox(sb) PROVE CallerInv'
  BY <1>1, CallerCreate
<1>2. ASSUME NEW sb \in Sandboxes, NEW class \in BOOLEAN,
             InvokeFunction(sb, class)
      PROVE  CallerInv'
  BY <1>2, CallerInvoke DEF InvokeFunction, InHost
<1>3. CASE CallbackReturn
  <2>1. Popped /\ Top.kind # "invoke" /\ exit = "running"
    BY <1>3, FrontPops DEF CallbackReturn, Running
  <2> QED  BY <1>3, <2>1, CallerStill DEF CallbackReturn
<1>4. CASE CallCtors
  <2>1. frames # <<>> /\ exit = "running" /\ SameFrames(Goto("created"))
    BY <1>4, GotoFacts DEF CallCtors, Running, PCs
  <2> QED  BY <1>4, <2>1, CallerEnter DEF CallCtors
<1>5. CASE CreateReturn
  <2>1. Popped /\ Top.kind # "invoke" /\ exit = "running"
    BY <1>5, FrontPops DEF CreateReturn, Running
  <2> QED  BY <1>5, <2>1, CallerStill DEF CreateReturn
<1>6. CASE InvokeMallocOrFree
  <2> DEFINE pc == IF Top.pc = "malloc" THEN "call" ELSE "return"
  <2>1. frames # <<>> /\ exit = "running" /\ Top.kind = "invoke"
    BY <1>6 DEF InvokeMallocOrFree, Running
  <2>2. SameFrames(Goto(pc))
    <3>1. pc \in PCs
      BY DEF PCs
    <3> HIDE DEF pc
    <3> QED  BY <2>1, <3>1, GotoFacts
  <2>3. Top.sb \in Sandboxes /\ Created(Top.sb)
    <3>1. /\ Len(frames) \in 1 .. Len(frames) /\ Top = frames[Len(frames)]
          /\ frames[Len(frames)] \in Frame
      BY <2>1, StackFacts
    <3> QED  BY <2>1, <3>1 DEF Frame, IInv, StackInv
  <2>4. PushInvoke(Top.sb, FALSE, Goto(pc))
    BY <1>6 DEF InvokeMallocOrFree
  <2> HIDE DEF pc
  <2> QED  BY <2>1, <2>2, <2>3, <2>4, CallerInvoke
<1>7. CASE CallFunction
  <2> DEFINE pc == IF Top.class THEN "free" ELSE "return"
  <2>1. frames # <<>> /\ exit = "running"
    BY <1>7 DEF CallFunction, Running
  <2>2. SameFrames(Goto(pc))
    <3>1. pc \in PCs
      BY DEF PCs
    <3> HIDE DEF pc
    <3> QED  BY <2>1, <3>1, GotoFacts
  <2> QED  BY <1>7, <2>1, <2>2, CallerEnter DEF CallFunction
<1>8. CASE InvokeReturn
  BY <1>8, CallerReturn
<1>9. CASE WasmCall
  BY <1>9, CallerEnter DEF WasmCall, Running
<1>10. CASE WasmReturn
  <2>1. Popped /\ Top.kind # "invoke" /\ exit = "running"
    BY <1>10, FrontPops DEF WasmReturn, Running
  <2> QED  BY <1>10, <2>1, CallerStill DEF WasmReturn
<1>11. CASE WasmTrap
  <2>1. exit' # "running"
    BY <1>11 DEF WasmTrap, TrapExit
  <2> QED  BY <1>11, <2>1, CallerStill DEF WasmTrap
<1>12. CASE WasmStackOverflow \/ WasmStoreNull
  BY <1>12, CallerOverwrite
<1>13. CASE Callback
  <2>1. Top.kind = "wasm" /\ Created(Top.sb) /\ exit = "running"
        /\ frames # <<>>
    BY <1>13 DEF Callback, Running
  <2>2. CurrThreadSandbox \in Sandboxes
    <3>1. Top \in Frame
      BY <2>1, StackFacts
    <3> QED  BY <2>1, <3>1 DEF Frame, IInv, CurrentInv
  <2>3. CallbackFrame(CurrThreadSandbox) \in Frame
        /\ CallbackFrame(CurrThreadSandbox).kind = "callback"
    BY <2>2 DEF CallbackFrame, Frame, PCs
  <2>4. \E f \in Frame : f.kind \notin {"invoke", "create"} /\ Pushed(f)
    BY <1>13, <2>3, AppendPushes DEF Callback
  <2> QED  BY <1>13, <2>1, <2>4, CallerStill DEF Callback
<1>14. CASE UNCHANGED vars
  BY <1>14, CallerStill DEF vars, guards
<1> QED  BY <1>1, <1>2, <1>3, <1>4, <1>5, <1>6, <1>7, <1>8, <1>9, <1>10, <1>11,
            <1>12, <1>13, <1>14 DEF Next, Host, Runtime, Wasm, Done

(* The invariant of callers holds in every state of every execution.        *)
LEMMA CallerInvariance == Spec => []CallerInv
<1>1. Init => CallerInv
  <2> SUFFICES ASSUME Init PROVE CallerInv
    OBVIOUS
  <2>1. Len(frames) = 0 /\ invoked = {}
    BY EmptySeq DEF Init
  <2> QED  BY <2>1 DEF CallerInv, CreationInv, CookieInv, JmpInv
<1>2. IInv /\ CallerInv /\ [Next]_vars => CallerInv'
  BY CallerStep
<1> QED  BY <1>1, <1>2, Invariance, PTL DEF Spec

(* Whatever sandboxes share a library and however they are nested, an       *)
(* overwritten cookie or word at address 0 is noticed before the outermost  *)
(* call returns to the host.                                                *)
THEOREM OverflowNoticedAlways == Spec => []OverflowNoticed
<1>1. CallerInv => OverflowNoticed
  <2> SUFFICES ASSUME CallerInv, exit = "running", frames = <<>>,
                      NEW l \in invoked, ~(cookie[l] /\ sentinel[l])
               PROVE  FALSE
    BY DEF OverflowNoticed
  <2>1. Len(frames) = 0
    BY EmptySeq
  <2> QED  BY <2>1 DEF CallerInv, CookieInv
<1> QED  BY <1>1, CallerInvariance, PTL

(* A trap that is caught is caught by the invokeFunction that entered the   *)
(* code which trapped, with nothing but sandboxed code in between.          *)
THEOREM TrapCaughtByCallerAlways == Spec => []TrapCaughtByCaller
<1>1. IInv /\ CallerInv => TrapCaughtByCaller
  <2> SUFFICES ASSUME IInv, CallerInv, Running("wasm"), Created(Top.sb)
               PROVE  /\ \A i \in DOMAIN frames : Live(Lib[Top.sb], i) =>
                            i <= g_jmp_buf[Lib[Top.sb]]
                      /\ Live(Lib[Top.sb], g_jmp_buf[Lib[Top.sb]]) =>
                            \A i \in (g_jmp_buf[Lib[Top.sb]] + 1) .. Len(frames) :
                               frames[i].kind = "wasm"
    BY DEF TrapCaughtByCaller
  <2> DEFINE n == Len(frames)
             g == g_jmp_buf[Lib[Top.sb]]
  <2>1. /\ n \in 1 .. n /\ DOMAIN frames = 1 .. n /\ Top = frames[n]
        /\ Top.kind = "wasm" /\ Top \in Frame
    BY StackFacts DEF Running, IInv, TypeOK
  <2>2. \A i \in 1 .. n : Live(Lib[Top.sb], i) => i <= g
    BY DEF Live, CallerInv, JmpInv
  <2>3. PICK j \in 1 .. (n - 1) :
           /\ frames[j].kind \in {"invoke", "create"}
           /\ frames[j].sb = Top.sb
           /\ \A k \in (j + 1) .. (n - 1) : frames[k].kind = "wasm"
    BY <2>1 DEF IInv, EntryInv
  <2>4. j \in 1 .. n /\ frames[j].kind = "invoke"
    <3>1. j \in 1 .. n
      BY <2>1
    <3> QED  BY <2>3, <3>1 DEF IInv, StackInv
  <2>5. j <= g /\ g \in Nat
    <3>1. g \in Nat
      BY <2>1, ConstantsAssumption DEF Frame, IInv, TypeOK
    <3> QED  BY <2>3, <2>4, <3>1 DEF CallerInv, JmpInv
  <2>6. ASSUME NEW i \in (g + 1) .. n PROVE frames[i].kind = "wasm"
    <3>1. i = n \/ i \in (j + 1) .. (n - 1)
      <4>1. j \in Nat /\ i \in Nat /\ n \in Nat /\ g + 1 <= i /\ i <= n
        BY <2>1, <2>5
      <4> HIDE DEF g, n
      <4> QED  BY <2>5, <4>1
    <3> QED  BY <2>1, <2>3, <3>1
  <2> QED  BY <2>1, <2>2, <2>6
<1> QED  BY <1>1, Invariance, CallerInvariance, PTL

=============================================================================
