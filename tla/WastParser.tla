------------------------------ MODULE WastParser ------------------------------
(***************************************************************************)
(* WastParser (src/wast-parser.cc): reads a module, or a script, from the  *)
(* tokens of a text.  The state p has the tokens and the position among    *)
(* them, what was parsed last (val), the module and the index of the       *)
(* latest module of the script.                                            *)
(*                                                                         *)
(* An error fails the parse.  The parser goes on to report more of them;   *)
(* here nothing but the end is left after the first.                       *)
(***************************************************************************)
EXTENDS TextModule

CONSTANTS MaxConst,      (* a constant is from 0 to MaxConst                *)
          PageSize,      (* bytes of a page                                 *)
          BinaryModules  (* the modules of the binary modules in a script   *)

ASSUME ParserAssumption == MaxConst \in Nat /\ PageSize \in Nat \ {0}

EmptyModule == [name |-> NoName, fields |-> <<>>]

NewParser(tokens) ==
    [tokens |-> tokens, pos |-> 1, ok |-> TRUE, val |-> <<>>,
     module |-> EmptyModule, last |-> TooLarge]

Peek(p, n) ==
    IF p.pos + n <= Len(p.tokens) THEN p.tokens[p.pos + n].type ELSE "Eof"

PeekMatch(p, type) == Peek(p, 0) = type
PeekMatchLpar(p, type) == Peek(p, 0) = "Lpar" /\ Peek(p, 1) = type

Fail(p) == [p EXCEPT !.ok = FALSE, !.pos = Len(p.tokens) + 1]
Val(p, value) == [p EXCEPT !.val = value]
Skip(p, n) == [p EXCEPT !.pos = @ + n]
Consume(p) == Val(Skip(p, 1), p.tokens[p.pos].value)
Expect(p, type) == IF PeekMatch(p, type) THEN Consume(p) ELSE Fail(p)
Match(p, type) == IF PeekMatch(p, type) THEN Skip(p, 1) ELSE p
Unless(p, condition) == IF condition THEN p ELSE Fail(p)
NotEmpty(p) == Unless(p, p.val # <<>>)
ErrorIfLpar(p) == Unless(p, ~PeekMatch(p, "Lpar"))

(* With what was parsed last as it is: the end of a list, a token that must *)
(* follow.                                                                  *)
Single(p) == Val(p, <<p.val>>)
Pair(value, p) == Val(p, <<value, p.val>>)
FollowedBy(list, p) == Val(p, Append(list, p.val))
Ended(p, type) == Val(Expect(p, type), p.val)
Closed(p) == Ended(p, "Rpar")

(* The tokens of a type that come next, all of them.                        *)
RunOf(p, types) ==
    LET n == Min({n \in 0 .. Len(p.tokens) : Peek(p, n) \notin types})
    IN  Val(Skip(p, n), SubSeq(p.tokens, p.pos, p.pos + n - 1))

Values(tokens) == [i \in DOMAIN tokens |-> tokens[i].value]

-----------------------------------------------------------------------------
(* Vars, numbers, texts and types.                                          *)

(* An index is read with 64 bits and kept with 32.                          *)
VarOf(token) ==
    IF token.type = "Var" THEN Named(token.value)
    ELSE Index(token.value % (TooLarge + 1))

VarTokens == {"Nat", "Var"}

ParseVarList(p) ==
    LET run == RunOf(p, VarTokens)
    IN  Val(run, [i \in DOMAIN run.val |-> VarOf(run.val[i])])

ParseVarOpt(p, default) ==
    IF Peek(p, 0) \in VarTokens THEN Val(Skip(p, 1), VarOf(p.tokens[p.pos]))
    ELSE Val(p, default)

ParseVar(p) == Unless(ParseVarOpt(p, NoVar), Peek(p, 0) \in VarTokens)

(* ParseBindVarOpt and ParseLabelOpt.                                       *)
ParseNameOpt(p) == IF PeekMatch(p, "Var") THEN Consume(p) ELSE Val(p, NoName)

ParseEndLabelOpt(p, label) ==
    LET end == ParseNameOpt(p) IN Unless(end, end.val \in {NoName, label})

ParseNat(p) == Expect(p, "Nat")

ParseLimits(p) ==
    LET initial == ParseNat(p)
        max == IF PeekMatch(initial, "Nat") THEN Consume(initial)
               ELSE Val(initial, TooLarge)
    IN  Val(Match(max, "Shared"),
            [initial |-> initial.val,
             max |-> IF PeekMatch(initial, "Nat") THEN {max.val} ELSE {},
             is_shared |-> PeekMatch(max, "Shared")])

ParseValueType(p) == Expect(p, "ValueType")

ParseValueTypeList(p) ==
    LET run == RunOf(p, {"ValueType"}) IN Val(run, Values(run.val))

ParseQuotedText(p) == Expect(p, "Text")

(* RemoveEscapes: a backslash with a letter, or with two digits.            *)
Letters == {<<110, 10>>, <<114, 13>>, <<116, 9>>, <<92, 92>>, <<39, 39>>, <<34, 34>>}
HexValue(char) == IF char >= 97 THEN char - 87 ELSE char - 48

RECURSIVE RemoveEscapes(_)
RemoveEscapes(text) ==
    IF text = <<>> THEN <<>>
    ELSE IF text[1] # 92 THEN <<text[1]>> \o RemoveEscapes(Tail(text))
    ELSE IF \E l \in Letters : l[1] = text[2]
    THEN <<(CHOOSE l \in Letters : l[1] = text[2])[2]>>
         \o RemoveEscapes(SubSeq(text, 3, Len(text)))
    ELSE <<16 * HexValue(text[2]) + HexValue(text[3])>>
         \o RemoveEscapes(SubSeq(text, 4, Len(text)))

ParseTextListOpt(p) ==
    LET run == RunOf(p, {"Text"})
    IN  Val(run, FlattenSeq([i \in DOMAIN run.val |-> RemoveEscapes(run.val[i].value)]))

ParseTextList(p) == Unless(ParseTextListOpt(p), PeekMatch(p, "Text"))

(* Types with the names they are bound to, if they are.                     *)
Bindings(types, names) == [types |-> types, names |-> names]

BoundTo(p, name) == Val(p, Bindings(p.val, [i \in DOMAIN p.val |-> name]))

ParseBinding(name) ==
    BoundTo(IF name.val = NoName THEN ParseValueTypeList(name)
            ELSE Single(ParseValueType(name)), name.val)

JoinedTypes(done, p) ==
    Val(p, IF p.ok THEN Bindings(done.types \o p.val.types, done.names \o p.val.names)
           ELSE done)

RECURSIVE BoundTypes(_, _, _)
BoundTypesAfter(p, token) == BoundTypes(p, token, p.val)
BoundTypes(p, token, done) ==
    IF ~PeekMatchLpar(p, token) THEN Val(p, done)
    ELSE BoundTypesAfter(Closed(JoinedTypes(done, ParseBinding(ParseNameOpt(Skip(p, 2))))),
                         token)

ParseBoundValueTypeList(p, token) == BoundTypes(p, token, Bindings(<<>>, <<>>))

WithoutNames(bindings) == \A i \in DOMAIN bindings.names : bindings.names[i] = NoName

(* The names are those of the parameters; a signature without bindings has  *)
(* none.                                                                    *)
SignatureOf(params, p) ==
    Unless(Val(p, [sig |-> Signature(params.types, p.val.types), names |-> params.names]),
           WithoutNames(p.val))
ResultsAfter(params) ==
    SignatureOf(params.val, ParseBoundValueTypeList(params, "Result"))

ParseFuncSignature(p) == ResultsAfter(ParseBoundValueTypeList(p, "Param"))

Unbound(p) == Unless(Val(p, p.val.sig), WithoutNames(p.val))

ParseUnboundFuncSignature(p) == Unbound(ParseFuncSignature(p))

ParseTypeUseOpt(p) ==
    IF PeekMatchLpar(p, "Type") THEN Closed(ParseVar(Skip(p, 2))) ELSE Val(p, NoVar)

(* BlockDeclaration, and the declaration of call_indirect.                  *)
Declaration(var, sig) == [type_var |-> var, sig |-> sig]

DeclarationOf(var, p) == Val(p, Declaration(var, p.val))
DeclarationAfter(use) == DeclarationOf(use.val, ParseUnboundFuncSignature(use))

ParseDeclaration(p) == DeclarationAfter(ParseTypeUseOpt(p))

-----------------------------------------------------------------------------
(* Plain instructions.                                                      *)

(* ParseInt32 and ParseInt64: a number without a sign or with one.          *)
IsConst(value) == value <= MaxConst /\ value >= -(MaxConst \div 2) - 1
ConstOf(value) == value % (MaxConst + 1)

(* ParseSimdConst: four words.                                              *)
ParseWords(p) ==
    LET words == [i \in 1 .. 4 |-> p.tokens[p.pos + i - 1].value]
    IN  IF \E n \in 0 .. 3 : Peek(p, n) # "Nat" THEN Fail(p)
        ELSE Unless(Val(Skip(p, 4), words), \A i \in 1 .. 4 : words[i] <= MaxConst)

ParseConst(p, op) ==
    IF op = "v128.const"
    THEN LET type == ParseValueType(p)
         IN  IF type.ok /\ type.val = "i32" THEN ParseWords(type) ELSE Fail(type)
    ELSE IF Peek(p, 0) \notin {"Nat", "Int"} \/ ~IsConst(p.tokens[p.pos].value)
    THEN Fail(p)
    ELSE Val(Skip(p, 1), ConstOf(p.tokens[p.pos].value))

IsPowerOfTwo(n) == \E k \in 0 .. 16 : n = 2 ^ k

(* ParseOffsetOpt and ParseAlignOpt.                                        *)
ParseOffsetOpt(p) == IF PeekMatch(p, "OffsetEqNat") THEN Consume(p) ELSE Val(p, 0)

ParseAlignOpt(p, op) ==
    IF ~PeekMatch(p, "AlignEqNat") THEN Val(p, NaturalAlign(op))
    ELSE LET align == Consume(p) IN Unless(align, IsPowerOfTwo(align.val))

(* The expression of the token and the immediates that follow it.           *)
WithVar(expr, p) == Val(p, expr @@ [var |-> p.val])
WithTargets(expr, p) == Val(p, expr @@ [targets |-> p.val])
WithDeclaration(expr, p) == Val(p, expr @@ [decl |-> p.val])
WithValue(expr, p) == Val(p, expr @@ [value |-> p.val])
WithOffset(expr, p) == Val(p, expr @@ [offset |-> p.val])
WithAlign(expr, p) == Val(p, expr @@ [align |-> p.val])
ParseAlignOf(p) == WithAlign(p.val, ParseAlignOpt(p, p.val.op))

ParseImmediates(p, expr) ==
    CASE VarSpace(expr.type) # "none" -> WithVar(expr, ParseVar(p))
      [] expr.type = "BrTable" -> WithTargets(expr, NotEmpty(ParseVarList(p)))
      [] expr.type = "CallIndirect" -> WithDeclaration(expr, ParseDeclaration(p))
      [] expr.type = "Const" -> WithValue(expr, ParseConst(p, expr.op))
      [] expr.type \in MemoryAccesses ->
            ParseAlignOf(WithOffset(expr, ParseOffsetOpt(p)))
      [] expr.type = "SimdLaneOp" -> WithValue(expr, ParseNat(p))
      [] expr.type = "SimdShuffleOp" -> WithValue(expr, ParseWords(p))
      [] OTHER -> Val(p, expr)

ParsePlainInstr(p) ==
    ParseImmediates(Skip(p, 1), [type |-> Peek(p, 0), op |-> p.tokens[p.pos].value])

-----------------------------------------------------------------------------
(* Lists of instructions.  What is parsed last is a list, of more than one  *)
(* expression when the instruction has operands in parentheses.             *)

IsInstr(type) == type \in PlainInstrs \cup BlockInstrs
PeekMatchExpr(p) == PeekMatch(p, "Lpar") /\ IsInstr(Peek(p, 1))

Grown(list, p) == Val(p, IF p.ok THEN list \o p.val ELSE list)

RECURSIVE ParseInstrs(_, _), ParseExprs(_, _), ParseExpr(_), ParseBlockInstr(_)

ParseInstrList(p) == ParseInstrs(p, <<>>)
ParseTerminatingInstrList(p) == ErrorIfLpar(ParseInstrList(p))
ParseExprList(p) == ParseExprs(p, <<>>)

ParseInstr(p) ==
    CASE Peek(p, 0) \in PlainInstrs -> Single(ParsePlainInstr(p))
      [] Peek(p, 0) \in BlockInstrs -> ParseBlockInstr(p)
      [] OTHER -> ParseExpr(p)

InstrsAfter(p) == ParseInstrs(p, p.val)
ParseInstrs(p, done) ==
    IF IsInstr(Peek(p, 0)) \/ PeekMatchExpr(p)
    THEN InstrsAfter(Grown(done, ParseInstr(p)))
    ELSE Val(p, done)

ExprsAfter(p) == ParseExprs(p, p.val)
ParseExprs(p, done) ==
    IF PeekMatchExpr(p) THEN ExprsAfter(Grown(done, ParseExpr(p))) ELSE Val(p, done)

-----------------------------------------------------------------------------
(* Blocks.  The type that a block uses is not looked at again: a block is   *)
(* its label, its signature and its expressions.                            *)

Header(label, sig, var) == [label |-> label, sig |-> sig, var |-> var]

PeekSignature(p) == PeekMatchLpar(p, "Result") \/ PeekMatchLpar(p, "Param")

HeaderOf(label, p) == Val(p, Header(label, p.val.sig, NoVar))
HeaderAfter(label) == HeaderOf(label.val, ParseDeclaration(label))

(* A name is the label when a signature or another var follows it; without  *)
(* either it is the exception.                                              *)
IsLabel(name) ==
    name.val # NoName /\ (PeekSignature(name) \/ Peek(name, 0) \in VarTokens)

IfExceptLabel(p, name) == IF IsLabel(name) THEN name ELSE Val(p, NoName)
HeaderWithVar(label, sig, p) == Val(p, Header(label, sig, p.val))
IfExceptVar(label, decl) == HeaderWithVar(label, decl.val.sig, ParseVar(decl))
IfExceptAfter(label) ==
    IfExceptVar(label.val,
                IF PeekSignature(label) THEN ParseDeclaration(label)
                ELSE Val(label, Declaration(NoVar, Signature(<<>>, <<>>))))

ParseIfExceptHeader(p) == IfExceptAfter(IfExceptLabel(p, ParseNameOpt(p)))

ParseHeader(p, type) ==
    IF type = "IfExcept" THEN ParseIfExceptHeader(p) ELSE HeaderAfter(ParseNameOpt(p))

BlockExpr(type, op, header, true, false) ==
    [type |-> type, op |-> op, label |-> header.label, sig |-> header.sig,
     true |-> true, false |-> false]
    @@ (IF type = "IfExcept" THEN [var |-> header.var] ELSE <<>>)

(* A block with its header and, so far, no expressions; n tokens ahead.     *)
Begun(token, p) == Val(p, BlockExpr(token.type, token.value, p.val, <<>>, <<>>))
ParseBlockBegin(p, n) ==
    Begun(p.tokens[p.pos + n], ParseHeader(Skip(p, n + 1), Peek(p, n)))

WithTrue(block, p) == Val(p, [block EXCEPT !.true = p.val])
WithFalse(block, p) == Val(p, [block EXCEPT !.false = p.val])

ParseFirstList(p) == WithTrue(p.val, ParseInstrList(p))

(* catch must come, else may.                                               *)
ParseSecondList(p) ==
    IF \/ p.val.type = "Try"
       \/ p.val.type \in {"If", "IfExcept"} /\ PeekMatch(p, "Else")
    THEN WithFalse(p.val,
            ParseTerminatingInstrList(
                ParseEndLabelOpt(Expect(p, IF p.val.type = "Try" THEN "Catch" ELSE "Else"),
                                 p.val.label)))
    ELSE p

ParseEnd(p) == Val(ParseEndLabelOpt(Expect(p, "End"), p.val.label), p.val)

ParseBlockInstr(p) ==
    Single(ParseEnd(ParseSecondList(ParseFirstList(ParseBlockBegin(p, 0)))))

(* Then, else and catch in parentheses; without "then" the expressions      *)
(* themselves are the two lists.                                            *)
ParsePart(p, word) ==
    Closed(ParseTerminatingInstrList(Expect(Expect(p, "Lpar"), word)))

ParseTrue(p, type) ==
    CASE type \in {"Block", "Loop", "Try"} -> ParseInstrList(p)
      [] type \in {"If", "IfExcept"} /\ PeekMatchLpar(p, "Then") ->
            ParsePart(p, "Then")
      [] OTHER -> IF PeekMatchExpr(p) THEN ParseExpr(p) ELSE Val(Fail(p), <<>>)

(* Whether the second list comes in parentheses of its own.                 *)
IsSecondPart(p, type, then) ==
    \/ type = "Try"
    \/ type \in {"If", "IfExcept"} /\ then /\ PeekMatchLpar(p, "Else")

ParseFalse(p, type, then) ==
    CASE IsSecondPart(p, type, then) ->
            ParsePart(p, IF type = "Try" THEN "Catch" ELSE "Else")
      [] ~IsSecondPart(p, type, then) /\ type \in {"If", "IfExcept"}
            /\ PeekMatchExpr(p) -> ParseExpr(p)
      [] OTHER -> Val(p, <<>>)

ParseCondition(p) ==
    IF p.val.type \in {"If", "IfExcept"} /\ PeekMatchExpr(p) THEN ParseExpr(p)
    ELSE Val(p, <<>>)

FoldedTrue(p) == WithTrue(p.val, ParseTrue(p, p.val.type))
FoldedFalse(p, then) == WithFalse(p.val, ParseFalse(p, p.val.type, then))
FoldedAfter(block, condition) ==
    FollowedBy(condition.val, FoldedFalse(FoldedTrue(Val(condition, block)),
                                          PeekMatchLpar(condition, "Then")))
FoldedFrom(p) == FoldedAfter(p.val, ParseCondition(p))

ParseFoldedBlock(p) == FoldedFrom(ParseBlockBegin(p, 1))

(* The operands come before the instruction.                                *)
Operands(p, plain) == Val(p, Append(p.val, plain))

FoldedPlainFrom(plain) == Operands(ErrorIfLpar(ParseExprList(plain)), plain.val)

ParseFoldedPlain(p) == FoldedPlainFrom(ParsePlainInstr(Skip(p, 1)))

ParseExpr(p) ==
    Closed(IF Peek(p, 1) \in PlainInstrs THEN ParseFoldedPlain(p)
           ELSE ParseFoldedBlock(p))

-----------------------------------------------------------------------------
(* Fields of a module.                                                      *)

AddFields(p, fields) == [p EXCEPT !.module.fields = @ \o fields]

ItemTokens == [Func |-> "func", Table |-> "table", Memory |-> "memory",
               Global |-> "global", Except |-> "except"]

Zero == <<[type |-> "Const", op |-> "i32.const", value |-> 0]>>

(* Imports must occur before all definitions that are not imports.          *)
CheckImportOrdering(p) ==
    Unless(p, \A i \in DOMAIN p.module.fields :
                  p.module.fields[i].field \in ItemKinds =>
                      p.module.fields[i].import # <<>>)

TextsAfter(first) == Pair(first.val, ParseQuotedText(first))
ParseTwoTexts(p) == TextsAfter(ParseQuotedText(p))

ParseInlineImport(p) == Closed(ParseTwoTexts(Skip(CheckImportOrdering(p), 2)))

RECURSIVE ParseInlineExports(_, _)
InlineExportsAfter(p, names) == ParseInlineExports(p, Append(names, p.val))
ParseInlineExports(p, names) ==
    IF ~PeekMatchLpar(p, "Export") THEN Val(p, names)
    ELSE InlineExportsAfter(Closed(ParseQuotedText(Skip(p, 2))), names)

GlobalType(p, mutable) ==
    Val(p, [type |-> p.val, mutable |-> mutable, init |-> <<>>])
ParseGlobalType(p) ==
    IF PeekMatchLpar(p, "Mut") THEN GlobalType(Closed(ParseValueType(Skip(p, 2))), TRUE)
    ELSE GlobalType(ParseValueType(p), FALSE)

(* A func imported by a field of its own has a type or a signature.         *)
FuncType(var, p) ==
    Val(p, [decl |-> Declaration(var, p.val.sig), param_names |-> p.val.names,
            local_types |-> <<>>, local_names |-> <<>>, exprs |-> <<>>])
FuncTypeAfter(use, complete) ==
    FuncType(use.val, IF complete
                      THEN Val(use, [sig |-> Signature(<<>>, <<>>), names |-> <<>>])
                      ELSE ParseFuncSignature(use))
ParseFuncType(p, alone) ==
    FuncTypeAfter(ParseTypeUseOpt(p), alone /\ PeekMatchLpar(p, "Type"))

(* What is said of an item, imported or not.                                *)
LimitsGiven(p) == Val(p, [limits |-> p.val])
ExceptTypes(p) == Val(p, [types |-> p.val])
ParseDescription(p, kind, alone) ==
    CASE kind = "func" -> ParseFuncType(p, alone)
      [] kind = "global" -> ParseGlobalType(p)
      [] kind = "except" -> ExceptTypes(ParseValueTypeList(p))
      [] kind = "memory" -> LimitsGiven(ParseLimits(p))
      [] kind = "table" -> Ended(LimitsGiven(ParseLimits(p)), "Anyfunc")

(* And what follows when it is not imported.                                *)
WithLocals(func, p) ==
    Val(p, [func EXCEPT !.local_types = p.val.types, !.local_names = p.val.names])
WithExprs(func, p) == Val(p, [func EXCEPT !.exprs = p.val])
WithInit(global, p) == Val(p, [global EXCEPT !.init = p.val])
ParseLocals(p) == WithLocals(p.val, ParseBoundValueTypeList(p, "Local"))
ParseBody(p) == WithExprs(p.val, ParseTerminatingInstrList(p))
ParseInit(p) == WithInit(p.val, ParseTerminatingInstrList(p))
ParseDefinition(p, kind) ==
    CASE kind = "func" -> ParseBody(ParseLocals(ParseDescription(p, kind, FALSE)))
      [] kind = "global" -> ParseInit(ParseDescription(p, kind, FALSE))
      [] OTHER -> ParseDescription(p, kind, FALSE)

Exactly(n) == [limits |-> [initial |-> n, max |-> {n}, is_shared |-> FALSE]]

Segment(field, var, offset, vars) ==
    [field |-> field, var |-> var, offset |-> offset, vars |-> vars]

PagesOf(data) == (Len(data) + PageSize - 1) \div PageSize

(* A memory with its data, or a table with its elements, is as large as     *)
(* they are.                                                                *)
WithSegments(p, item, segments) == Val(p, [item |-> item, segments |-> segments])

InlineData(p, var) ==
    WithSegments(p, Exactly(PagesOf(p.val)),
                 <<Segment("data", var, Zero, <<>>) @@ [data |-> p.val]>>)
ParseInlineData(p) ==
    InlineData(Closed(ParseTextListOpt(Skip(p, 2))),
               Index(Len(Items(p.module, "memory"))))

InlineElems(p, var) ==
    WithSegments(p, Exactly(Len(p.val)), <<Segment("elem", var, Zero, p.val)>>)
ParseInlineElems(p) ==
    InlineElems(Closed(NotEmpty(ParseVarList(
                    Expect(Expect(Expect(p, "Anyfunc"), "Lpar"), "Elem")))),
                Index(Len(Items(p.module, "table"))))

WithoutSegments(p) == WithSegments(p, p.val, <<>>)
ParseItem(p, kind, import) ==
    CASE kind = "memory" /\ import = <<>> /\ PeekMatchLpar(p, "Data") ->
            ParseInlineData(p)
      [] kind = "table" /\ import = <<>> /\ PeekMatch(p, "Anyfunc") ->
            ParseInlineElems(p)
      [] OTHER -> WithoutSegments(IF import # <<>> THEN ParseDescription(p, kind, FALSE)
                                  ELSE ParseDefinition(p, kind))

Item(kind, name, import) == [field |-> kind, name |-> name, import |-> import]

Exported(name, kind, var) ==
    [field |-> "export", name |-> name, kind |-> kind, var |-> var]

(* AppendInlineExportFields: exports on the spot come after the item, which *)
(* is the latest of its kind.                                               *)
AppendInlineExportFields(p, kind, names) ==
    AddFields(p, [i \in DOMAIN names |->
        Exported(names[i], kind, Index(Len(Items(p.module, kind)) - 1))])

(* Parse{Func,Table,Memory,Global,Except}ModuleField.                       *)
AddItem(p, item, exports) ==
    IF ~p.ok THEN p
    ELSE Expect(AppendInlineExportFields(
                    AddFields(p, <<item @@ p.val.item>> \o p.val.segments),
                    item.field, exports), "Rpar")
ItemAfterImport(import, kind, name, exports) ==
    AddItem(ParseItem(import, kind, import.val), Item(kind, name, import.val), exports)
ItemAfterExports(exports, kind, name) ==
    ItemAfterImport(IF kind # "except" /\ PeekMatchLpar(exports, "Import")
                    THEN ParseInlineImport(exports) ELSE Val(exports, <<>>),
                    kind, name, exports.val)
ItemAfterName(name, kind) ==
    ItemAfterExports(IF kind = "except" THEN Val(name, <<>>)
                     ELSE ParseInlineExports(name, <<>>), kind, name.val)

ParseItemModuleField(p, kind) == ItemAfterName(ParseNameOpt(Skip(p, 2)), kind)

AddImport(p, item) ==
    IF ~p.ok THEN p ELSE Closed(Closed(AddFields(p, <<item @@ p.val>>)))
ImportAfterName(name, kind, import) ==
    AddImport(ParseDescription(name, kind, TRUE), Item(kind, name.val, import))
ImportOf(import) ==
    IF Peek(import, 0) \notin DOMAIN ItemTokens THEN Fail(import)
    ELSE ImportAfterName(ParseNameOpt(Skip(import, 1)), ItemTokens[Peek(import, 0)],
                         import.val)

ParseImportModuleField(p) ==
    ImportOf(Ended(ParseTwoTexts(Skip(CheckImportOrdering(p), 2)), "Lpar"))

AddType(p, name) ==
    AddFields(p, <<[field |-> "type", name |-> name, sig |-> p.val.sig]>>)
TypeAfterName(name) ==
    AddType(Closed(Closed(ParseFuncSignature(Expect(Expect(name, "Lpar"), "Func")))),
            name.val)

ParseTypeModuleField(p) == TypeAfterName(ParseNameOpt(Skip(p, 2)))

AddExport(p, name, kind) == AddFields(p, <<Exported(name, kind, p.val)>>)
ExportOf(name) ==
    IF Peek(name, 0) \notin DOMAIN ItemTokens THEN Fail(name)
    ELSE AddExport(Closed(Closed(ParseVar(Skip(name, 1)))), name.val,
                   ItemTokens[Peek(name, 0)])

ParseExportModuleField(p) == ExportOf(Ended(ParseQuotedText(Skip(p, 2)), "Lpar"))

ParseOffsetExpr(p) ==
    CASE PeekMatchLpar(p, "Offset") -> ParsePart(p, "Offset")
      [] PeekMatchExpr(p) -> ParseExpr(p)
      [] OTHER -> Val(Fail(p), <<>>)

(* The data or the functions of a segment.                                  *)
AddSegment(p, kind, var, offset) ==
    AddFields(p, <<IF kind = "elem" THEN Segment("elem", var, offset, p.val)
                   ELSE Segment("data", var, offset, <<>>) @@ [data |-> p.val]>>)
SegmentAfterOffset(offset, kind, var) ==
    AddSegment(Closed(IF kind = "elem" THEN ParseVarList(offset)
                      ELSE ParseTextListOpt(offset)), kind, var, offset.val)
SegmentAfterVar(var, kind) == SegmentAfterOffset(ParseOffsetExpr(var), kind, var.val)

(* ParseDataModuleField and ParseElemModuleField.                           *)
ParseSegmentModuleField(p, kind) ==
    SegmentAfterVar(ParseVarOpt(Skip(p, 2), Index(0)), kind)

AddStart(p) == AddFields(p, <<[field |-> "start", var |-> p.val]>>)
ParseStartModuleField(p) == AddStart(Closed(ParseVar(Skip(p, 2))))

ModuleFieldTokens == DOMAIN ItemTokens
                     \cup {"Data", "Elem", "Export", "Type", "Import", "Start"}

IsModuleField(p) == PeekMatch(p, "Lpar") /\ Peek(p, 1) \in ModuleFieldTokens

ParseModuleField(p) ==
    LET token == Peek(p, 1)
    IN  CASE token \in {"Data", "Elem"} ->
                ParseSegmentModuleField(p, IF token = "Data" THEN "data" ELSE "elem")
          [] token = "Export" -> ParseExportModuleField(p)
          [] token = "Type" -> ParseTypeModuleField(p)
          [] token = "Import" -> ParseImportModuleField(p)
          [] token = "Start" -> ParseStartModuleField(p)
          [] token \in DOMAIN ItemTokens -> ParseItemModuleField(p, ItemTokens[token])

-----------------------------------------------------------------------------
(* ResolveFuncTypes: a declaration that has a type and no signature gets    *)
(* that of the type; for one without a type there is a type of its          *)
(* signature, added if there was none.                                      *)

TypeOfDecl(module, decl) ==
    LET types == Items(module, "type")
        index == FindIndex(NamesOf(types), decl.type_var)
    IN  IF index < Len(types) THEN types[index + 1].sig ELSE decl.sig

EmptySignature == Signature(<<>>, <<>>)

Resolved(module, decl) ==
    IF decl.type_var # NoVar /\ decl.sig = EmptySignature
    THEN [decl EXCEPT !.sig = TypeOfDecl(module, decl)] ELSE decl

Declared(module, decl) ==
    IF \/ decl.type_var # NoVar
       \/ GetFuncTypeIndex(Items(module, "type"), decl.sig) # TooLarge
    THEN module
    ELSE AppendField(module, [field |-> "type", name |-> NoName, sig |-> decl.sig])

(* Blocks with parameters or more than one result have a type as well.      *)
HasFuncType(sig) == sig.params # <<>> \/ Len(sig.results) > 1

RECURSIVE ResolveExprs(_, _)

ResolveBlock(module, expr) ==
    LET declared == IF HasFuncType(expr.sig)
                    THEN Declared(module, Declaration(NoVar, expr.sig)) ELSE module
        true == ResolveExprs(declared, expr.true)
        false == ResolveExprs(true.module, expr.false)
    IN  [module |-> false.module,
         expr |-> [expr EXCEPT !.true = true.exprs, !.false = false.exprs]]

ResolveExpr(module, expr) ==
    CASE expr.type \in Structured -> ResolveBlock(module, expr)
      [] expr.type = "CallIndirect" ->
            [module |-> Declared(module, expr.decl),
             expr |-> [expr EXCEPT !.decl = Resolved(module, @)]]
      [] OTHER -> [module |-> module, expr |-> expr]

ResolveExprs(module, exprs) ==
    FoldLeft(LAMBDA done, expr :
                 LET next == ResolveExpr(done.module, expr)
                 IN  [module |-> next.module, exprs |-> Append(done.exprs, next.expr)],
             [module |-> module, exprs |-> <<>>], exprs)

(* A parameter that only the type tells has no name.                        *)
WithDecl(func, decl) ==
    [func EXCEPT !.decl = decl,
                 !.param_names = [i \in DOMAIN decl.sig.params |->
                     IF i \in DOMAIN @ THEN @[i] ELSE NoName]]

ResolveField(module, i) ==
    LET field == module.fields[i]
        body == ResolveExprs(Declared(module, field.decl), field.exprs)
    IN  IF field.field # "func" THEN module
        ELSE [body.module EXCEPT !.fields[i] =
                 [WithDecl(field, Resolved(module, field.decl))
                  EXCEPT !.exprs = body.exprs]]

ResolveFuncTypes(module) ==
    FoldLeft(ResolveField, module, [i \in DOMAIN module.fields |-> i])

RECURSIVE ParseModuleFields(_)
ParseModuleFields(p) ==
    IF IsModuleField(p) THEN ParseModuleFields(ParseModuleField(p)) ELSE p

WithFuncTypes(p) == IF p.ok THEN [p EXCEPT !.module = ResolveFuncTypes(@)] ELSE p
ParseModuleFieldList(p) == WithFuncTypes(ParseModuleFields(p))

-----------------------------------------------------------------------------
(* Modules and the commands of a script.                                    *)

(* A module of text, or the bytes of one.                                   *)
ScriptModule(kind, name, module, data) ==
    [kind |-> kind, name |-> name, module |-> module, data |-> data]
ModuleOfBytes(kind, name, p) == Val(p, ScriptModule(kind, name, EmptyModule, p.val))
ModuleOfText(name, p) == Val(p, ScriptModule("text", name, p.module, <<>>))
Emptied(p, name) == [p EXCEPT !.module = [EmptyModule EXCEPT !.name = name]]
ModuleAfterName(name) ==
    CASE PeekMatch(name, "Bin") ->
            ModuleOfBytes("binary", name.val, ParseTextList(Skip(name, 1)))
      [] PeekMatch(name, "Quote") ->
            ModuleOfBytes("quote", name.val, ParseTextList(Skip(name, 1)))
      [] OTHER -> ModuleOfText(name.val, ParseModuleFieldList(Emptied(name, name.val)))

ParseScriptModule(p) ==
    Closed(ModuleAfterName(ParseNameOpt(Expect(Expect(p, "Lpar"), "Module"))))

(* A binary module is read at once, a quoted one is not allowed here.       *)
CommandOf(p) ==
    CASE ~p.ok -> p
      [] p.ok /\ p.val.kind = "text" -> Val(p, p.val.module)
      [] p.ok /\ p.val.kind = "binary" /\ p.val.data \in DOMAIN BinaryModules ->
            Val(p, [BinaryModules[p.val.data] EXCEPT !.name = p.val.name])
      [] OTHER -> Fail(p)
ParseModuleCommand(p) == CommandOf(ParseScriptModule(p))

(* ParseModule: one module, in parentheses or its fields.                   *)
OfFields(p) == Val(p, p.module)
ModuleFrom(p) ==
    CASE PeekMatchLpar(p, "Module") -> ParseModuleCommand(p)
      [] IsModuleField(p) -> OfFields(ParseModuleFieldList(p))
      [] OTHER -> Fail(p)
ParseModule(tokens) == ModuleFrom(NewParser(tokens))

RECURSIVE ParseConsts(_, _)
ConstsAfter(p, done) == ParseConsts(p, Append(done, p.val))
ParseConsts(p, done) ==
    IF ~PeekMatchLpar(p, "Const") THEN Val(p, done)
    ELSE ConstsAfter(Closed(ParseConst(Skip(p, 2), p.tokens[p.pos + 1].value)), done)

ParseConstList(p) == ParseConsts(p, <<>>)

(* An action is on the latest module unless it names another one.           *)
ActionOf(p, type, var, name) ==
    Val(p, [type |-> type, module_var |-> var, name |-> name, args |-> p.val])
ActionAfterName(name, type, var) ==
    ActionOf(IF type = "Invoke" THEN ParseConstList(name) ELSE Val(name, <<>>),
             type, var, name.val)
ActionAfterVar(var, type) == ActionAfterName(ParseQuotedText(var), type, var.val)
ParseAction(p) ==
    IF PeekMatchLpar(p, "Invoke") \/ PeekMatchLpar(p, "Get")
    THEN Closed(ActionAfterVar(ParseVarOpt(Skip(p, 2), Index(p.last)), Peek(p, 1)))
    ELSE Val(Fail(p), <<>>)

Command(type, of, more) == [type |-> type, of |-> of, more |-> more]

Registered(p, text) == Val(p, Command("Register", text, p.val))
RegisterAfter(text) ==
    Registered(Closed(ParseVarOpt(text, Index(text.last))), text.val)
ParseRegisterCommand(p) == RegisterAfter(ParseQuotedText(Skip(p, 2)))

ActionTextAsserts == {"AssertExhaustion", "AssertTrap"}
ModuleAsserts == {"AssertInvalid", "AssertMalformed", "AssertUnlinkable"}
ActionAsserts == {"AssertReturnCanonicalNan", "AssertReturnArithmeticNan"}
Asserts == ActionTextAsserts \cup ModuleAsserts \cup ActionAsserts
           \cup {"AssertReturn"}

(* An assertion about an action, or about a module; a trap can be that of   *)
(* either.                                                                  *)
Asserted(p, type, of) == Val(p, Command(type, of, p.val))
AssertAfter(of, type) ==
    Asserted(Closed(CASE type = "AssertReturn" -> ParseConstList(of)
                      [] type \in ActionAsserts -> Val(of, <<>>)
                      [] OTHER -> ParseQuotedText(of)), type, of.val)
IsAboutModule(p, type) ==
    \/ type \in ModuleAsserts
    \/ type = "AssertTrap" /\ PeekMatchLpar(p, "Module")
AssertOf(p, type) ==
    AssertAfter(IF IsAboutModule(p, type) THEN ParseScriptModule(p) ELSE ParseAction(p),
                IF IsAboutModule(p, type) /\ type = "AssertTrap"
                THEN "AssertUninstantiable" ELSE type)
ParseAssertCommand(p) == AssertOf(Skip(p, 2), Peek(p, 1))

CommandTokens == Asserts \cup {"Get", "Invoke", "Module", "Register"}

IsCommand(p) == PeekMatch(p, "Lpar") /\ Peek(p, 1) \in CommandTokens

(* count: the commands before this one.                                     *)
ModuleCommand(p, count) ==
    Val([p EXCEPT !.last = count], Command("Module", p.val, <<>>))
ActionCommand(p) == Val(p, Command("Action", p.val, <<>>))
ParseCommand(p, count) ==
    CASE Peek(p, 1) = "Module" -> ModuleCommand(ParseModuleCommand(p), count)
      [] Peek(p, 1) = "Register" -> ParseRegisterCommand(p)
      [] Peek(p, 1) \in {"Get", "Invoke"} -> ActionCommand(ParseAction(p))
      [] Peek(p, 1) \in Asserts -> ParseAssertCommand(p)

RECURSIVE ParseCommands(_, _)
CommandsAfter(p, commands) == ParseCommands(p, Append(commands, p.val))
ParseCommands(p, commands) ==
    IF ~IsCommand(p) THEN Val(p, commands)
    ELSE CommandsAfter(ParseCommand(p, Len(commands)), commands)

AtEnd(p) == Unless(p, PeekMatch(p, "Eof"))

(* ParseScript: the fields of a module or a list of commands, and the end.  *)
ScriptOfFields(p) == Val(p, <<Command("Module", p.module, <<>>)>>)
ScriptFrom(p) ==
    CASE IsModuleField(p) -> ScriptOfFields(ParseModuleFieldList(p))
      [] IsCommand(p) -> ParseCommands(p, <<>>)
      [] OTHER -> Fail(p)
ParseScript(tokens) == AtEnd(ScriptFrom(NewParser(tokens)))

ParseWatModule(text) == AtEnd(ParseModule(Lex(text)))

ParseWastScript(text) == ParseScript(Lex(text))
=============================================================================
