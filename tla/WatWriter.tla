------------------------------ MODULE WatWriter -------------------------------
(***************************************************************************)
(* WatWriter (src/wat-writer.cc): writes a module as text.  What it writes *)
(* is a sequence of writes, each a piece of text with what follows it:     *)
(* nothing, a space, a newline, or a newline that no other write takes     *)
(* away, which ends a line comment.  Render makes the text of them: pieces *)
(* and the blanks between them.  The kinds of pieces are the parentheses,  *)
(* words, names, numbers, quoted texts and comments.                       *)
(***************************************************************************)
EXTENDS TextModule

CONSTANTS Replaced,     (* names with characters that a text cannot have    *)
                        (* and the names with '_' in their place            *)
          ConstValues   (* how many values a constant of a type has         *)

ASSUME ConstValuesAssumption == ConstValues \in Nat /\ ConstValues > 1

Piece(kind, value) == [kind |-> kind, value |-> value]
Word(text) == Piece("word", text)
Lpar == Piece("lpar", "")
Rpar == Piece("rpar", "")

Puts(piece, next) == <<[write |-> "puts", piece |-> piece, next |-> next]>>
Control(write, next) == <<[write |-> write, piece |-> Rpar, next |-> next]>>

WritePutsSpace(text) == Puts(Word(text), "space")
WritePutsNewline(text) == Puts(Word(text), "newline")

(* Mutant: no newline is kept for the comment before it.                    *)
WriteNewlineUnforced(force) == Control("newline", "newline")

WriteNewline(force) == Control("newline", IF force THEN "force" ELSE "newline")
WriteOpen(name, next) == Puts(Lpar, "none") \o Puts(Word(name), next)
WriteOpenSpace(name) == WriteOpen(name, "space")
WriteOpenNewline(name) == WriteOpen(name, "newline")
WriteCloseNewline == Control("close", "newline")
WriteCloseSpace == Control("close", "space")

(* WriteNextChar: what a write leaves to come is a blank before the next    *)
(* piece.  Of a newline alone only a forced one is written, and a           *)
(* parenthesis that closes takes the place of any other.                    *)

BlankBefore(next, write) ==
    CASE write = "puts" -> next \in {"space", "newline", "force"}
      [] write \in {"newline", "close"} -> next = "force"
      [] write = "clear" -> FALSE

NextBefore(writes, i) == IF i = 1 THEN "none" ELSE writes[i - 1].next

(* Two places for a write, the first for the blank before its piece; the    *)
(* blank of the last write comes at the end.                                *)
Rendered(writes, k) ==
    LET i == (k + 1) \div 2
        next == NextBefore(writes, i)
        write == IF i > Len(writes) THEN "puts" ELSE writes[i].write
    IN  IF k % 2 = 1
        THEN Piece(IF BlankBefore(next, write) THEN "blank" ELSE "", next # "space")
        ELSE IF write \in {"puts", "close"} THEN writes[i].piece ELSE Piece("", "")

Render(writes) ==
    SelectSeq([k \in 1 .. 2 * Len(writes) + 1 |-> Rendered(writes, k)],
              LAMBDA piece : piece.kind # "")

-----------------------------------------------------------------------------
(* Names, vars, types and constants.                                        *)

WriteString(name, next) == Puts(Piece("name", name), next)

WriteName(name, next) ==
    WriteString(IF name \in DOMAIN Replaced THEN Replaced[name] ELSE name, next)

WriteNameOrIndex(name, index, next) ==
    IF name # NoName THEN WriteName(name, next)
    ELSE Puts(Piece("comment", index), "space")

WriteNat(n, next) == Puts(Piece("nat", n), next)

WriteVar(var, next) ==
    IF IsName(var) THEN WriteName(var.name, next) ELSE WriteNat(var.index, next)

(* The comment after an index says which block it means.                    *)
WriteBrVar(labels, var, next) ==
    IF IsName(var) THEN WriteString(var.name, next)
    ELSE WriteNat(var.index, "space")
         \o Puts(Piece("comment", Len(labels) - var.index - 1), next)

(* Control characters, '"', '\' and what is not ASCII: a backslash and two   *)
(* digits.                                                                  *)
Quote == 34
Backslash == 92
IsCharEscaped(byte) == byte < 32 \/ byte >= 127 \/ byte \in {Quote, Backslash}

HexDigit(digit) == IF digit < 10 THEN 48 + digit ELSE 87 + digit

WriteByte(byte) ==
    IF IsCharEscaped(byte)
    THEN <<Backslash, HexDigit(byte \div 16), HexDigit(byte % 16)>>
    ELSE <<byte>>

WriteQuotedData(bytes) ==
    Puts(Piece("text", FlattenSeq([i \in DOMAIN bytes |-> WriteByte(bytes[i])])),
         "space")

(* A name of the outside: none of its characters is escaped.                *)
WriteQuotedString(name, next) == Puts(Piece("quoted", name), next)

WriteTypeList(types) ==
    FlattenSeq([i \in DOMAIN types |-> WritePutsSpace(types[i])])

WriteTypes(types, name) ==
    IF types = <<>> THEN <<>>
    ELSE WriteOpenSpace(name) \o WriteTypeList(types) \o WriteCloseSpace

WriteFuncSigSpace(sig) == WriteTypes(sig.params, "param") \o WriteTypes(sig.results, "result")

(* Constants are written as signed numbers, those of v128 as four words.    *)
WriteConst(expr) ==
    WritePutsSpace(expr.op)
    \o (IF expr.op = "v128.const"
        THEN WritePutsSpace("i32")
             \o FlattenSeq([i \in 1 .. 4 |-> WriteNat(expr.value[i], "space")])
        ELSE IF expr.value < ConstValues \div 2 THEN WriteNat(expr.value, "space")
        ELSE Puts(Piece("int", expr.value - ConstValues), "space"))
    \o WriteNewline(FALSE)

(* An offset of zero and the natural alignment are left out.                *)
WriteLoadStoreExpr(expr) ==
    WritePutsSpace(expr.op)
    \o (IF expr.offset = 0 THEN <<>> ELSE Puts(Piece("offset", expr.offset), "space"))
    \o (IF expr.align = NaturalAlign(expr.op) THEN <<>>
        ELSE Puts(Piece("align", expr.align), "space"))
    \o WriteNewline(FALSE)

-----------------------------------------------------------------------------
(* Blocks.  The labels are those of the blocks around, the innermost last.  *)

Label(expr) == [type |-> expr.type, name |-> expr.label,
                params |-> expr.sig.params, results |-> expr.sig.results]

(* The signature, for if_except the exception, and a line comment when the  *)
(* block has no label.                                                      *)
WriteBeginBlock(labels, expr) ==
    WritePutsSpace(expr.op)
    \o (IF expr.label = NoName THEN <<>> ELSE WriteString(expr.label, "space"))
    \o WriteFuncSigSpace(expr.sig)
    \o (IF expr.type = "IfExcept" THEN WriteVar(expr.var, "space") ELSE <<>>)
    \o (IF expr.label # NoName THEN <<>>
        ELSE Puts(Piece("line", Len(labels)), "space"))
    \o WriteNewline(TRUE)

WriteEndBlock == WritePutsNewline("end")

(* What comes between the two lists of a block, where there is a second.    *)
WriteMiddle(expr) ==
    IF expr.false = <<>> THEN <<>>
    ELSE WritePutsSpace(IF expr.type = "Try" THEN "catch" ELSE "else")
         \o WriteNewline(TRUE)

(* An expression that has none inside it.                                   *)
WritePlain(labels, expr) ==
    CASE expr.type \in {"Br", "BrIf"} ->
            WritePutsSpace(expr.op) \o WriteBrVar(labels, expr.var, "newline")
      [] expr.type = "BrTable" ->
            WritePutsSpace(expr.op)
            \o FlattenSeq([i \in DOMAIN expr.targets |->
                   WriteBrVar(labels, expr.targets[i],
                       IF i = Len(expr.targets) THEN "newline" ELSE "space")])
      [] expr.type = "CallIndirect" ->
            WritePutsSpace(expr.op) \o WriteOpenSpace("type")
            \o WriteVar(expr.decl.type_var, "space") \o WriteCloseNewline
      [] expr.type = "Const" -> WriteConst(expr)
      [] expr.type \in MemoryAccesses -> WriteLoadStoreExpr(expr)
      [] expr.type = "SimdLaneOp" ->
            WritePutsSpace(expr.op) \o WriteNat(expr.value, "space")
            \o WriteNewline(FALSE)
      [] expr.type = "SimdShuffleOp" ->
            WritePutsSpace(expr.op)
            \o FlattenSeq([i \in 1 .. 4 |-> WriteNat(expr.value[i], "space")])
            \o WriteNewline(FALSE)
      [] expr.type = "Rethrow" -> WritePutsSpace(expr.op)
      [] VarSpace(expr.type) # "none" ->
            WritePutsSpace(expr.op) \o WriteVar(expr.var, "newline")
      [] OTHER -> WritePutsNewline(expr.op)

RECURSIVE WriteExprList(_, _)
WriteExprList(labels, exprs) ==
    FlattenSeq([i \in DOMAIN exprs |->
        IF exprs[i].type \notin Structured THEN WritePlain(labels, exprs[i])
        ELSE LET inner == Append(labels, Label(exprs[i]))
             IN  WriteBeginBlock(labels, exprs[i])
                 \o WriteExprList(inner, exprs[i].true) \o WriteMiddle(exprs[i])
                 \o WriteExprList(inner, exprs[i].false) \o WriteEndBlock])

-----------------------------------------------------------------------------
(* Folded expressions.  The state f has the writes, the labels, and the     *)
(* trees of expressions whose results nothing has used yet.  The labels of  *)
(* a block stay when it is folded.                                          *)

Tree(expr, children) == [expr |-> expr, children |-> children]

LabelsMeant(labels, var) ==
    IF IsName(var) THEN {i \in DOMAIN labels : labels[i].name = var.name}
    ELSE IF var.index < Len(labels) THEN {Len(labels) - var.index} ELSE {}

GetLabelArity(labels, var) ==
    LET found == LabelsMeant(labels, var)
        label == labels[Max(found)]
    IN  IF found = {} THEN 0
        ELSE IF label.type = "Loop" THEN Len(label.params) ELSE Len(label.results)

(* The signature of what a var of calls and throws means.                   *)
CountOf(sig) == [params |-> Len(sig.params), results |-> Len(sig.results)]

FuncCounts(module, var) ==
    LET funcs == Items(module, "func")
        index == FindIndex(NamesOf(funcs), var)
    IN  IF index >= Len(funcs) THEN [params |-> 0, results |-> 0]
        ELSE CountOf(funcs[index + 1].decl.sig)

ExceptCount(module, var) ==
    LET excepts == Items(module, "except")
        index == FindIndex(NamesOf(excepts), var)
    IN  IF index >= Len(excepts) THEN 0 ELSE Len(excepts[index + 1].types)

(* The operands and the results of the opcodes that have as many always.    *)
OpcodeCounts(expr) ==
    CASE expr.type \in {"AtomicRmw", "AtomicWake", "Binary", "Compare",
                        "SimdShuffleOp"} -> <<2, 1>>
      [] expr.type \in {"AtomicStore", "Store"} -> <<2, 0>>
      [] expr.type \in {"Const", "MemorySize", "GetGlobal", "GetLocal",
                        "Unreachable"} -> <<0, 1>>
      [] expr.type \in {"AtomicLoad", "Convert", "MemoryGrow", "Load", "TeeLocal",
                        "Unary"} -> <<1, 1>>
      [] expr.type \in {"Drop", "SetGlobal", "SetLocal"} -> <<1, 0>>
      [] expr.type \in {"Nop", "Rethrow"} -> <<0, 0>>
      [] expr.type \in {"AtomicRmwCmpxchg", "AtomicWait", "Select", "Ternary"} ->
            <<3, 1>>
      [] expr.type = "SimdLaneOp" ->
            IF expr.op = "i32x4.extract_lane" THEN <<1, 1>> ELSE <<2, 1>>

(* How many operands an expression takes, and whether it leaves a result.   *)
Counts(context, labels, expr) ==
    LET arity == GetLabelArity(labels, IF expr.type = "BrTable"
                                       THEN expr.targets[Len(expr.targets)]
                                       ELSE expr.var)
    IN CASE expr.type \in {"Block", "Loop", "Try"} -> <<0, Len(expr.sig.results)>>
         [] expr.type \in {"If", "IfExcept"} -> <<1, Len(expr.sig.results)>>
         [] expr.type = "Br" -> <<arity, 1>>
         [] expr.type = "BrIf" -> <<arity + 1, arity>>
         [] expr.type = "BrTable" -> <<arity + 1, 1>>
         [] expr.type = "Call" ->
                LET counts == FuncCounts(context.module, expr.var)
                IN  <<counts.params, counts.results>>
         [] expr.type = "CallIndirect" ->
                LET counts == CountOf(expr.decl.sig)
                IN  <<counts.params + 1, counts.results>>
         [] expr.type = "Return" -> <<Len(context.func.decl.sig.results), 1>>
         [] expr.type = "Throw" -> <<ExceptCount(context.module, expr.var), 0>>
         [] OTHER -> OpcodeCounts(expr)

RECURSIVE FlushExprTrees(_, _, _), WriteFoldedExprList(_, _, _)

FlushExprTreeStack(context, f) ==
    FlushExprTrees(context, [f EXCEPT !.trees = <<>>], f.trees)

Written(f, writes) == [f EXCEPT !.writes = @ \o writes]

(* A list of expressions in parentheses of its own, all of it written.      *)
WriteFoldedPart(context, f, name, exprs) ==
    LET opened == Written(f, IF name = "" THEN <<>> ELSE WriteOpenNewline(name))
        inside == FlushExprTreeStack(context,
                                     WriteFoldedExprList(context, opened, exprs))
    IN  Written(inside, IF name = "" THEN <<>> ELSE WriteCloseNewline)

(* A tree: the expression, then what it uses.                               *)
FlushExprTree(context, f, tree) ==
    LET expr == tree.expr
        opened == Written(f, Puts(Lpar, "none"))
        begun == [Written(opened, WriteBeginBlock(f.labels, expr))
                  EXCEPT !.labels = Append(@, Label(expr))]
        used == FlushExprTrees(context, begun, tree.children)
        closed(g) == Written(g, WriteCloseNewline)
    IN  CASE expr.type \in {"Block", "Loop"} ->
                closed(WriteFoldedPart(context, begun, "", expr.true))
          [] expr.type \in {"If", "IfExcept"} ->
                LET then == WriteFoldedPart(context, used, "then", expr.true)
                IN  closed(IF expr.false = <<>> THEN then
                           ELSE WriteFoldedPart(context, then, "else", expr.false))
          [] expr.type = "Try" ->
                closed(WriteFoldedPart(context,
                           WriteFoldedPart(context, used, "", expr.true),
                           "catch", expr.false))
          [] OTHER ->
                closed(FlushExprTrees(context,
                           Written(opened, WritePlain(f.labels, expr)),
                           tree.children))

FlushExprTrees(context, f, trees) ==
    FoldLeft(LAMBDA g, tree : FlushExprTree(context, g, tree), f, trees)

(* An expression takes the latest trees as its operands.  Without a result, *)
(* or with less trees than operands, all that there is is written.          *)
PushExpr(context, f, expr) ==
    LET counts == Counts(context, f.labels, expr)
        first == Len(f.trees) - counts[1]
        tree == Tree(expr, SubSeq(f.trees, first + 1, Len(f.trees)))
    IN  IF first < 0
        THEN FlushExprTreeStack(context, [f EXCEPT !.trees = Append(@, Tree(expr, <<>>))])
        ELSE LET pushed == [f EXCEPT !.trees = Append(SubSeq(@, 1, first), tree)]
             IN  IF counts[2] = 0 THEN FlushExprTreeStack(context, pushed) ELSE pushed

WriteFoldedExprList(context, f, exprs) ==
    FoldLeft(LAMBDA g, expr : PushExpr(context, g, expr), f, exprs)

-----------------------------------------------------------------------------
(* Fields.  An item is written with its index among those of its kind.     *)

(* Named parameters and locals stand alone, the others together.            *)
WriteTypeBindings(prefix, types, names) ==
    LET open(i) == i = 1 \/ names[i - 1] # NoName
        shut(i) == i = Len(types) \/ names[i] # NoName
    IN  FlattenSeq([i \in DOMAIN types |->
            (IF open(i) THEN WriteOpenSpace(prefix) ELSE <<>>)
            \o (IF names[i] = NoName THEN <<>> ELSE WriteString(names[i], "space"))
            \o WritePutsSpace(types[i])
            \o (IF shut(i) THEN WriteCloseSpace ELSE <<>>)])

(* BuildInlineExportMap: with imports on their own a thing imported is      *)
(* exported on its own as well.                                             *)
IsInlineExport(context, export) ==
    LET index == FindIndex(NamesOf(Items(context.module, export.kind)), export.var)
    IN  /\ context.options.inline_export
        /\ index # TooLarge
        /\ context.options.inline_import
              \/ ~IsImport(context.module, export.kind, index)

WriteInlineExports(context, kind, index) ==
    LET Here(export) ==
            /\ export.kind = kind
            /\ IsInlineExport(context, export)
            /\ FindIndex(NamesOf(Items(context.module, kind)), export.var) = index
        exports == SelectSeq(Items(context.module, "export"), Here)
    IN  FlattenSeq([i \in DOMAIN exports |->
            WriteOpenSpace("export") \o WriteQuotedString(exports[i].name, "none")
            \o WriteCloseSpace])

WriteInlineImport(context, item) ==
    IF ~context.options.inline_import \/ item.import = <<>> THEN <<>>
    ELSE WriteOpenSpace("import") \o WriteQuotedString(item.import[1], "space")
         \o WriteQuotedString(item.import[2], "space") \o WriteCloseSpace

(* What every item begins with.                                             *)
WriteBegin(context, item, index) ==
    WriteOpenSpace(item.field) \o WriteNameOrIndex(item.name, index, "space")
    \o WriteInlineExports(context, item.field, index)
    \o WriteInlineImport(context, item)

WriteBeginFunc(context, func, index) ==
    WriteBegin(context, func, index)
    \o (IF func.decl.type_var = NoVar THEN <<>>
        ELSE WriteOpenSpace("type") \o WriteVar(func.decl.type_var, "none")
             \o WriteCloseSpace)
    \o (IF func.import # <<>>
              /\ (context.options.inline_import \/ func.decl.type_var = NoVar)
        THEN WriteFuncSigSpace(func.decl.sig) ELSE <<>>)

(* The body is in the block of the function, which has no label.            *)
WriteBody(context, func) ==
    LET labels == <<[type |-> "Func", name |-> NoName, params |-> <<>>,
                     results |-> func.decl.sig.results]>>
        inside == [context EXCEPT !.func = func]
        empty == [writes |-> <<>>, labels |-> labels, trees |-> <<>>]
    IN  IF context.options.fold_exprs
        THEN WriteFoldedPart(inside, empty, "", func.exprs).writes
        ELSE WriteExprList(labels, func.exprs)

WriteFunc(context, func, index) ==
    WriteBeginFunc(context, func, index)
    \o WriteTypeBindings("param", func.decl.sig.params, func.param_names)
    \o WriteTypes(func.decl.sig.results, "result") \o WriteNewline(FALSE)
    \o WriteTypeBindings("local", func.local_types, func.local_names)
    \o WriteNewline(FALSE) \o WriteBody(context, func) \o WriteCloseNewline

WriteInitExpr(exprs) ==
    IF exprs = <<>> THEN <<>>
    ELSE Puts(Lpar, "none") \o WriteExprList(<<>>, exprs) \o Control("clear", "none")
         \o Puts(Rpar, "space")

WriteBeginGlobal(context, global, index) ==
    WriteBegin(context, global, index)
    \o (IF global.mutable
        THEN WriteOpenSpace("mut") \o WritePutsSpace(global.type) \o WriteCloseSpace
        ELSE WritePutsSpace(global.type))

WriteLimits(limits) ==
    WriteNat(limits.initial, "space")
    \o (IF limits.max = {} THEN <<>>
        ELSE WriteNat(CHOOSE m \in limits.max : TRUE, "space"))
    \o (IF limits.is_shared THEN WritePutsSpace("shared") ELSE <<>>)

(* An item that is imported has no body; tables, memories and exceptions    *)
(* have none in any case.                                                   *)
WriteItem(context, item, index) ==
    CASE item.field = "func" /\ item.import # <<>> ->
            WriteBeginFunc(context, item, index) \o WriteCloseSpace
      [] item.field = "func" /\ item.import = <<>> -> WriteFunc(context, item, index)
      [] item.field = "global" ->
            WriteBeginGlobal(context, item, index)
            \o (IF item.import # <<>> THEN WriteCloseSpace
                ELSE WriteInitExpr(item.init) \o WriteCloseNewline)
      [] item.field = "table" ->
            WriteBegin(context, item, index) \o WriteLimits(item.limits)
            \o WritePutsSpace("anyfunc") \o WriteCloseNewline
      [] item.field = "memory" ->
            WriteBegin(context, item, index) \o WriteLimits(item.limits)
            \o WriteCloseNewline
      [] item.field = "except" ->
            WriteBegin(context, item, index) \o WriteTypeList(item.types)
            \o WriteCloseNewline

(* What is around an item that is imported.                                 *)
WriteImport(context, item, writes) ==
    CASE item.import = <<>> -> writes
      [] item.import # <<>> /\ context.options.inline_import ->
            writes \o WriteNewline(FALSE)
      [] item.import # <<>> /\ ~context.options.inline_import ->
            WriteOpenSpace("import") \o WriteQuotedString(item.import[1], "space")
            \o WriteQuotedString(item.import[2], "space") \o writes
            \o WriteCloseNewline

WriteExport(context, export) ==
    IF IsInlineExport(context, export) THEN <<>>
    ELSE WriteOpenSpace("export") \o WriteQuotedString(export.name, "space")
         \o WriteOpenSpace(export.kind) \o WriteVar(export.var, "space")
         \o WriteCloseSpace \o WriteCloseNewline

WriteFuncType(type, index) ==
    WriteOpenSpace("type") \o WriteNameOrIndex(type.name, index, "space")
    \o WriteOpenSpace("func") \o WriteFuncSigSpace(type.sig) \o WriteCloseSpace
    \o WriteCloseNewline

(* A segment is written without the table or the memory it is for.          *)
WriteElemSegment(segment) ==
    WriteOpenSpace("elem") \o WriteInitExpr(segment.offset)
    \o FlattenSeq([i \in DOMAIN segment.vars |-> WriteVar(segment.vars[i], "space")])
    \o WriteCloseNewline

WriteDataSegment(segment) ==
    WriteOpenSpace("data") \o WriteInitExpr(segment.offset)
    \o WriteQuotedData(segment.data) \o WriteCloseNewline

WriteField(context, i) ==
    LET field == context.module.fields[i]
        Same(f) == f.field = field.field
        index == Len(SelectSeq(SubSeq(context.module.fields, 1, i - 1), Same))
    IN  CASE field.field \in ItemKinds ->
                WriteImport(context, field, WriteItem(context, field, index))
          [] field.field = "type" -> WriteFuncType(field, index)
          [] field.field = "export" -> WriteExport(context, field)
          [] field.field = "elem" -> WriteElemSegment(field)
          [] field.field = "data" -> WriteDataSegment(field)
          [] field.field = "start" ->
                WriteOpenSpace("start") \o WriteVar(field.var, "none")
                \o WriteCloseNewline

WriteModule(module, options) ==
    LET context == [module |-> module, options |-> options, func |-> {}]
    IN  WriteOpenSpace("module")
        \o (IF module.name = NoName THEN WriteNewline(FALSE)
            ELSE WriteName(module.name, "newline"))
        \o FlattenSeq([i \in DOMAIN module.fields |-> WriteField(context, i)])
        \o WriteCloseNewline

WriteWat(module, options) == Render(WriteModule(module, options))
=============================================================================
