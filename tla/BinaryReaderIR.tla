---------------------------- MODULE BinaryReaderIR ----------------------------
(***************************************************************************)
(* BinaryReaderIR (src/binary-reader-ir.cc) and Module::AppendField        *)
(* (src/ir.cc): the callbacks of the binary reader that build the module.  *)
(*                                                                         *)
(* The module is a record ir.  An ExprList is an index into ir.lists, as   *)
(* the code has pointers to the lists; ir.labels is label_stack_.  A       *)
(* callback that fails leaves ok FALSE.                                    *)
(***************************************************************************)
EXTENDS BinaryCodes

NewIR == [types |-> <<>>, imports |-> <<>>, funcs |-> <<>>, tables |-> <<>>,
          memories |-> <<>>, globals |-> <<>>, exports |-> <<>>,
          starts |-> <<>>, elems |-> <<>>, datas |-> <<>>, excepts |-> <<>>,
          name |-> <<>>, func_names |-> <<>>, func_bindings |-> {},
          local_bindings |-> {}, lists |-> <<>>, labels |-> <<>>, ok |-> TRUE]

Error(ir) == [ir EXCEPT !.ok = FALSE]

OnType(ir, sig) == [ir EXCEPT !.types = Append(@, sig)]

(* Imported functions are functions without a body.                         *)
AddFunc(ir, sig) ==
    [ir EXCEPT !.funcs = Append(@, [sig |-> sig, locals |-> <<>>,
                                    exprs |-> Len(ir.lists) + 1]),
               !.func_names = Append(@, <<>>),
               !.lists = Append(@, <<>>)]

OnImport(ir, import) ==
    LET added == [ir EXCEPT !.imports = Append(@, import)]
    IN  CASE import.kind = KindFunc -> AddFunc(added, import.sig)
          [] import.kind = KindTable ->
               [added EXCEPT !.tables = Append(@, import.limits)]
          [] import.kind = KindMemory ->
               [added EXCEPT !.memories = Append(@, import.limits)]
          [] import.kind = KindGlobal ->
               [added EXCEPT !.globals =
                   Append(@, [type |-> import.type, mutable |-> import.mutable])]
          [] import.kind = KindExcept ->
               [added EXCEPT !.excepts = Append(@, import.types)]

OnFunction(ir, sig_index) == AddFunc(ir, sig_index)
OnTable(ir, limits) == [ir EXCEPT !.tables = Append(@, limits)]
OnMemory(ir, limits) == [ir EXCEPT !.memories = Append(@, limits)]
OnGlobal(ir, global) == [ir EXCEPT !.globals = Append(@, global)]
OnExport(ir, export) == [ir EXCEPT !.exports = Append(@, export)]
OnStartFunction(ir, index) == [ir EXCEPT !.starts = Append(@, index)]
OnElemSegment(ir, segment) == [ir EXCEPT !.elems = Append(@, segment)]
OnDataSegment(ir, segment) == [ir EXCEPT !.datas = Append(@, segment)]
OnExceptionType(ir, types) == [ir EXCEPT !.excepts = Append(@, types)]

-----------------------------------------------------------------------------
(* Expressions *)

PushLabel(ir, label_type, list) ==
    [ir EXCEPT !.labels = Append(@, [type |-> label_type, exprs |-> list])]

PopLabel(ir) ==
    IF ir.labels = <<>> THEN Error(ir) ELSE [ir EXCEPT !.labels = Front(@)]

AppendExpr(ir, expr) ==
    IF ir.labels = <<>> THEN Error(ir)
    ELSE [ir EXCEPT !.lists[Last(ir.labels).exprs] = Append(@, expr)]

(* The expression that the top label belongs to is the last one of the      *)
(* list of the label below.                                                 *)
HasParent(ir) == Len(ir.labels) > 1
TopLabelExpr(ir) == Last(ir.lists[ir.labels[Len(ir.labels) - 1].exprs])

(* An expression with two lists: the block, or the branches of an if or try.*)
OnBlockExpr(ir, expr, label_type) ==
    LET list == Len(ir.lists) + 1
        block == expr @@ [true |-> list, false |-> list + 1]
        grown == [AppendExpr(ir, block) EXCEPT !.lists = @ \o <<<<>>, <<>>>>]
    IN  PushLabel(grown, label_type, list)

OnElseExpr(ir) ==
    IF ~HasParent(ir) \/ Last(ir.labels).type \notin {"if", "if_except"}
    THEN Error(ir)
    ELSE [ir EXCEPT !.labels[Len(ir.labels)] =
             [type |-> "else", exprs |-> TopLabelExpr(ir).false]]

OnCatchExpr(ir) ==
    IF ~HasParent(ir) \/ Last(ir.labels).type # "try" THEN Error(ir)
    ELSE [ir EXCEPT !.labels[Len(ir.labels)] =
             [type |-> "catch", exprs |-> TopLabelExpr(ir).false]]

OnEndExpr(ir) == IF ~HasParent(ir) THEN Error(ir) ELSE PopLabel(ir)

BeginFunctionBody(ir, index, locals) ==
    PushLabel([ir EXCEPT !.funcs[index + 1].locals = locals],
              "func", ir.funcs[index + 1].exprs)

EndFunctionBody(ir) == PopLabel(ir)

-----------------------------------------------------------------------------
(* Names.  An empty name is no name.                                        *)

Dot == Base - 1

(* Mutant: two functions may have one name.                                 *)
FreshNameTaken(names, name) == name

(* The name, or the name with the first number that makes it a new one.     *)
FreshName(names, name) ==
    LET numbered(n) == name \o <<Dot, n>>
    IN  IF name \notin names THEN name
        ELSE numbered(Min({n \in 1 .. Base : numbered(n) \notin names}))

OnModuleName(ir, name) ==
    IF name = <<>> THEN ir ELSE [ir EXCEPT !.name = name]

OnFunctionNamesCount(ir, count) ==
    IF count > Len(ir.funcs) THEN Error(ir) ELSE ir

OnFunctionName(ir, index, name) ==
    LET fresh == FreshName(ir.func_bindings, name)
    IN  IF name = <<>> THEN ir
        ELSE [ir EXCEPT !.func_names[index + 1] = fresh,
                        !.func_bindings = @ \union {fresh}]

NumParams(ir, index) == Len(ir.types[ir.funcs[index + 1].sig + 1].params)
NumLocals(ir, index) ==
    FoldLeft(LAMBDA n, decl : n + decl.count, 0, ir.funcs[index + 1].locals)

OnLocalNameLocalCount(ir, index, count) ==
    IF count > NumParams(ir, index) + NumLocals(ir, index) THEN Error(ir)
    ELSE ir

(* A binding to the index of a parameter or to that of a local.             *)
OnLocalName(ir, func, local_index, name) ==
    LET params == NumParams(ir, func)
        binding == IF local_index < params
                   THEN [func |-> func, of |-> "param", index |-> local_index,
                         name |-> name]
                   ELSE [func |-> func, of |-> "local",
                         index |-> local_index - params, name |-> name]
    IN  IF name = <<>> THEN ir
        ELSE [ir EXCEPT !.local_bindings = @ \union {binding}]

=============================================================================
