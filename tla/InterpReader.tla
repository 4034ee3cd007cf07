----------------------------- MODULE InterpReader -----------------------------
(***************************************************************************)
(* BinaryReaderInterp (src/binary-reader-interp.cc): from the instructions *)
(* of a function body to the istream the interpreter runs.                 *)
(*                                                                         *)
(* The methods are operators on a record rd of the reader: the fields of   *)
(* its TypeChecker (types, labels, ok, said), the istream, a sequence of   *)
(* cells that hold an opcode or an operand, and the offsets of operands    *)
(* to be filled in when their target is known.  Every CHECK_RESULT returns *)
(* on an error, so after one only ok is looked at.                         *)
(***************************************************************************)
EXTENDS TypeChecker, Integers

CONSTANT
    Funcs  \* functions of the module: [sig, is_host, locals]

(* Host functions are imported, so they come before the defined ones; a     *)
(* function of the module has I32 parameters and I32 locals only.           *)
ASSUME FuncsAssumption ==
    \A f \in DOMAIN Funcs :
        /\ Funcs[f].is_host \in BOOLEAN /\ Funcs[f].locals \in Nat
        /\ Funcs[f].sig.params \in Seq({I32})
        /\ Funcs[f].sig.results \in Seq({I32})

kInvalidIstreamOffset == -1
kInvalidIndex == -1

Opcode(opcode) == [opcode |-> opcode, i32 |-> 0]
Operand(i32) == [opcode |-> "operand", i32 |-> i32]

GetIstreamOffset(rd) == Len(rd.istream)
Emit(rd, cells) == [rd EXCEPT !.istream = @ \o cells]

(* EmitI32At for every one of the offsets.                                  *)
EmitI32At(rd, offsets, i32) ==
    [rd EXCEPT !.istream =
        [n \in DOMAIN rd.istream |-> IF n - 1 \in offsets
                                     THEN Operand(i32) ELSE rd.istream[n]]]

(* CHECK_RESULT.                                                            *)
Checked(rd, next(_)) == IF rd.ok THEN next(rd) ELSE rd

ParamAndLocalCount(f) == Len(Funcs[f].sig.params) + Funcs[f].locals

-----------------------------------------------------------------------------
(* Labels and fixups.  depth_fixups_ is the set of pairs of a depth, zero   *)
(* for the function, and of an offset to be filled in.                      *)

Push_Label(rd, offset, fixup_offset) ==
    [rd EXCEPT !.label_stack = Append(@, [offset |-> offset,
                                          fixup_offset |-> fixup_offset])]

Pop_Label(rd) ==
    [rd EXCEPT !.label_stack = Front(@),
               !.depth_fixups = {x \in @ : x[1] < Len(rd.label_stack) - 1}]

LabelAt(rd, depth) == rd.label_stack[Len(rd.label_stack) - depth]

EmitBrOffset(rd, depth) ==
    LET offset == LabelAt(rd, depth).offset
        fixed == IF offset = kInvalidIstreamOffset
                 THEN {<<Len(rd.label_stack) - 1 - depth, GetIstreamOffset(rd)>>}
                 ELSE {}
    IN  Emit([rd EXCEPT !.depth_fixups = @ \cup fixed], <<Operand(offset)>>)

FixupTopLabel(rd) ==
    LET top == Len(rd.label_stack) - 1
        fixups == {x \in rd.depth_fixups : x[1] = top}
    IN  [EmitI32At(rd, {x[2] : x \in fixups}, GetIstreamOffset(rd)) EXCEPT
            !.depth_fixups = @ \ fixups]

(* Mutant: a call of a function that is read later is not fixed up.        *)
EmitFuncOffsetNoFixup(rd, f) == Emit(rd, <<Operand(rd.offsets[f])>>)

EmitFuncOffset(rd, f) ==
    LET fixed == IF rd.offsets[f] = kInvalidIstreamOffset
                 THEN {<<f, GetIstreamOffset(rd)>>} ELSE {}
    IN  Emit([rd EXCEPT !.func_fixups = @ \cup fixed],
             <<Operand(rd.offsets[f])>>)

EmitDropKeep(rd, count) ==
    IF count.drop = 0 THEN rd
    ELSE IF count.drop = 1 /\ count.keep = 0 THEN Emit(rd, <<Opcode("drop")>>)
    ELSE Emit(rd, <<Opcode("drop_keep"), Operand(count.drop),
                    Operand(count.keep)>>)

(* How many values a branch discards and how many it takes along.  Called   *)
(* for a depth that has a label.                                            *)
GetBrDropKeepCount(rd, depth) ==
    LET label == GetLabel(rd, depth)
        keep == Len(br_types(label))
    IN  [keep |-> keep,
         drop |-> IF TopLabel(rd).unreachable THEN 0
                  ELSE Len(rd.types) - label.type_stack_limit - keep]

(* Mutant: the result is counted among the values to drop.                  *)
ReturnDropsResult(rd) ==
    LET count == GetBrDropKeepCount(rd, Len(rd.label_stack) - 1)
    IN  [count EXCEPT !.drop = @ + count.keep + ParamAndLocalCount(rd.func)]

GetReturnDropKeepCount(rd) ==
    LET count == GetBrDropKeepCount(rd, Len(rd.label_stack) - 1)
    IN  [count EXCEPT !.drop = @ + ParamAndLocalCount(rd.func)]

EmitBr(rd, depth, count) ==
    EmitBrOffset(Emit(EmitDropKeep(rd, count), <<Opcode("br")>>), depth)

(* An entry of a table: EmitBrTableOffset writes the offset, which may have *)
(* to be filled in, and the values to drop and keep.                        *)
BrTableEntry(rd, depth, count) ==
    <<LabelAt(rd, depth).offset, count.drop, count.keep>>

-----------------------------------------------------------------------------
(* The body of a function *)

NewReader ==
    [types |-> <<>>, labels |-> <<>>, ok |-> TRUE, said |-> FALSE,
     istream |-> <<>>, label_stack |-> <<>>, depth_fixups |-> {},
     func_fixups |-> {}, func |-> 0,
     offsets |-> [f \in DOMAIN Funcs |-> kInvalidIstreamOffset]]

(* BeginFunctionBody and, when the function has locals, OnLocalDecl.        *)
BeginFunctionBody(rd, f) ==
    LET offset == GetIstreamOffset(rd)
        begun == [rd EXCEPT !.offsets[f] = offset, !.func = f,
                            !.depth_fixups = {}, !.label_stack = <<>>,
                            !.types = <<>>, !.labels = <<>>]
        fixed == EmitI32At(begun, {x[2] : x \in {y \in rd.func_fixups :
                                                    y[1] = f}}, offset)
        label == Push_Label(PushLabel(fixed, "Func", <<>>,
                                      Funcs[f].sig.results),
                            kInvalidIstreamOffset, kInvalidIstreamOffset)
    IN  IF Funcs[f].locals = 0 THEN label
        ELSE Emit(label, <<Opcode("alloca"), Operand(Funcs[f].locals)>>)

EndFunctionBody(rd) ==
    LET fixed == FixupTopLabel(rd)
        count == GetReturnDropKeepCount(fixed)
    IN  Checked(EndFunction(fixed), LAMBDA r :
            Pop_Label(Emit(EmitDropKeep(r, count), <<Opcode("return")>>)))

OnBlockExpr(rd, b) ==
    Checked(OnBlock(rd, "Block", b.params, b.results), LAMBDA r :
        Push_Label(r, kInvalidIstreamOffset, kInvalidIstreamOffset))

OnLoopExpr(rd, b) ==
    Checked(OnBlock(rd, "Loop", b.params, b.results), LAMBDA r :
        Push_Label(r, GetIstreamOffset(r), kInvalidIstreamOffset))

OnIfExpr(rd, b) ==
    Checked(OnIf(rd, b.params, b.results), LAMBDA r :
        Push_Label(Emit(r, <<Opcode("br_unless"),
                             Operand(kInvalidIstreamOffset)>>),
                   kInvalidIstreamOffset, GetIstreamOffset(r) + 1))

OnElseExpr(rd) ==
    Checked(OnElse(rd), LAMBDA r :
        LET top == Len(r.label_stack)
            br == Emit(r, <<Opcode("br"), Operand(kInvalidIstreamOffset)>>)
        IN  EmitI32At([br EXCEPT !.label_stack[top].fixup_offset =
                                    GetIstreamOffset(br) - 1],
                      {r.label_stack[top].fixup_offset}, GetIstreamOffset(br)))

OnEndExpr(rd) ==
    Checked(OnEnd(rd), LAMBDA r :
        LET fixups == IF TopLabel(rd).label_type \in {"If", "Else"}
                      THEN {LabelAt(r, 0).fixup_offset} ELSE {}
        IN  Pop_Label(FixupTopLabel(
                EmitI32At(r, fixups, GetIstreamOffset(r)))))

OnBrExpr(rd, depth) ==
    IF ~HasLabel(rd, depth) THEN Error(rd)
    ELSE Checked(OnBr(rd, depth), LAMBDA r :
             EmitBr(r, depth, GetBrDropKeepCount(rd, depth)))

(* The branch is flipped: if the condition is true values are discarded.    *)
OnBrIfExpr(rd, depth) ==
    Checked(OnBrIf(rd, depth), LAMBDA r :
        LET count == GetBrDropKeepCount(r, depth)
            br == EmitBr(Emit(r, <<Opcode("br_unless"),
                                   Operand(kInvalidIstreamOffset)>>),
                         depth, count)
        IN  EmitI32At(br, {GetIstreamOffset(r) + 1}, GetIstreamOffset(br)))

(* The entries follow the instruction, after an InterpData opcode and its   *)
(* size.  No label changes between them.                                    *)
OnBrTableExpr(rd, depths) ==
    LET begun == PopAndCheckSignature(rd, <<I32>>)
        table == GetIstreamOffset(rd) + 5
        entry(k) == BrTableEntry(rd, depths[k],
                                 GetBrDropKeepCount(begun, depths[k]))
        entries == [n \in 1 .. 3 * Len(depths) |->
                       Operand(entry((n + 2) \div 3)[((n + 2) % 3) + 1])]
        forward == {k \in DOMAIN depths :
                       entry(k)[1] = kInvalidIstreamOffset}
        fixed == {<<Len(rd.label_stack) - 1 - depths[k],
                    table + 3 * (k - 1)>> : k \in forward}
    IN  Checked(OnBrTable(rd, depths), LAMBDA r :
            Emit([r EXCEPT !.depth_fixups = @ \cup fixed],
                 <<Opcode("br_table"), Operand(Len(depths) - 1),
                   Operand(table), Opcode("data"), Operand(3 * Len(depths))>>
                 \o entries))

OnReturnExpr(rd) ==
    LET count == GetReturnDropKeepCount(rd)
    IN  Checked(OnReturn(rd), LAMBDA r :
            Emit(EmitDropKeep(r, count), <<Opcode("return")>>))

OnUnreachableExpr(rd) == Emit(OnUnreachable(rd), <<Opcode("unreachable")>>)

OnCallExpr(rd, f) ==
    LET sig == Funcs[f].sig
    IN  Checked(PopAndCheckCall(rd, sig.params, sig.results), LAMBDA r :
            IF Funcs[f].is_host
            THEN Emit(r, <<Opcode("call_host"), Operand(f)>>)
            ELSE EmitFuncOffset(Emit(r, <<Opcode("call")>>), f))

(* The operand is the index of the signature in the environment; here it is *)
(* that of a function with the signature.                                   *)
OnCallIndirectExpr(rd, f) ==
    LET sig == Funcs[f].sig
    IN  Checked(OnCallIndirect(rd, sig.params, sig.results), LAMBDA r :
            Emit(r, <<Opcode("call_indirect"), Operand(f)>>))

OnDropExpr(rd) == Checked(OnDrop(rd), LAMBDA r : Emit(r, <<Opcode("drop")>>))

OnSelectExpr(rd) ==
    Checked(OnSelect(rd), LAMBDA r : Emit(r, <<Opcode("select")>>))

-----------------------------------------------------------------------------
(* Locals are addressed from the top of the stack: TranslateLocalIndex of   *)
(* get_local is taken before the type is pushed, of set_local after the     *)
(* type is popped.                                                          *)

TranslateLocalIndex(rd, index) ==
    Len(rd.types) + ParamAndLocalCount(rd.func) - index

OnGetLocalExpr(rd, index) ==
    Emit(PushType(rd, I32),
         <<Opcode("get_local"), Operand(TranslateLocalIndex(rd, index))>>)

OnSetLocalExpr(rd, index) ==
    Checked(PopAndCheckSignature(rd, <<I32>>), LAMBDA r :
        Emit(r, <<Opcode("set_local"),
                  Operand(TranslateLocalIndex(r, index))>>))

OnTeeLocalExpr(rd, index) ==
    Checked(CheckOpcode(rd, [params |-> <<I32>>, result |-> I32]), LAMBDA r :
        Emit(r, <<Opcode("tee_local"),
                  Operand(TranslateLocalIndex(r, index))>>))

(* CheckLocal.                                                              *)
OnLocalExpr(rd, opcode, index) ==
    CASE index >= ParamAndLocalCount(rd.func) -> PrintError(Error(rd))
      [] OTHER -> CASE opcode = "get_local" -> OnGetLocalExpr(rd, index)
                    [] opcode = "set_local" -> OnSetLocalExpr(rd, index)
                    [] opcode = "tee_local" -> OnTeeLocalExpr(rd, index)

(* What the other opcodes pop and push.                                     *)
Opcode_Sig == LET sig(params, result) == [params |-> params, result |-> result]
              IN  [const |-> sig(<<>>, I32), sub |-> sig(<<I32, I32>>, I32),
                   get_global |-> sig(<<>>, I32), set_global |-> sig(<<I32>>, Void),
                   load |-> sig(<<I32>>, I32), store |-> sig(<<I32, I32>>, Void),
                   memory_size |-> sig(<<>>, I32),
                   memory_grow |-> sig(<<I32>>, I32)]

(* OnI32ConstExpr, OnBinaryExpr, OnGetGlobalExpr, OnSetGlobalExpr,          *)
(* OnLoadExpr, OnStoreExpr, OnMemorySizeExpr and OnMemoryGrowExpr: the      *)
(* module has one global, which is mutable, and one memory.                 *)
OnOpcodeExpr(rd, opcode, i32) ==
    Checked(CheckOpcode(rd, Opcode_Sig[opcode]), LAMBDA r :
        Emit(r, <<Opcode(opcode), Operand(i32)>>))

=============================================================================
