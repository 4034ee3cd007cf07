--------------------------------- MODULE MCText --------------------------------
(***************************************************************************)
(* Modules and texts for Text: short bodies of every order of a few        *)
(* instructions, whole modules with every field and expression, and texts  *)
(* in the forms that the writer does not use.                              *)
(***************************************************************************)
EXTENDS Text

MCReplaced == "$a b" :> "$a_b"

Sig(params, results) == Signature(params, results)
Void == Sig(<<>>, <<>>)
I32ToI32 == Sig(<<"i32">>, <<"i32">>)
Unnamed(types) == [i \in DOMAIN types |-> NoName]
Use(index, sig) == Declaration(Index(index), sig)

TypeField(name, sig) == [field |-> "type", name |-> name, sig |-> sig]
Outside(kind, names, description) == Item(kind, NoName, names) @@ description
Inside(kind, name, description) == Item(kind, name, <<>>) @@ description
FuncOf(decl, param_names, local_types, local_names, exprs) ==
    [decl |-> decl, param_names |-> param_names, local_types |-> local_types,
     local_names |-> local_names, exprs |-> exprs]
Plainly(decl, exprs) == FuncOf(decl, Unnamed(decl.sig.params), <<>>, <<>>, exprs)
Limited(initial, max) == [limits |-> [initial |-> initial, max |-> max, is_shared |-> FALSE]]
GlobalDesc(type, mutable, init) == [type |-> type, mutable |-> mutable, init |-> init]
StartField(index) == [field |-> "start", var |-> Index(index)]
Mod(fields) == [name |-> NoName, fields |-> fields]

(* Expressions.                                                             *)
Op(type, op) == [type |-> type, op |-> op]
Of(type, op, index) == Op(type, op) @@ [var |-> Index(index)]
I32(n) == Op("Const", "i32.const") @@ [value |-> n]
Access(type, op, offset, align) == Op(type, op) @@ [offset |-> offset, align |-> align]
Nest(type, op, sig, true, false) ==
    BlockExpr(type, op, Header(NoName, sig, Index(0)), true, false)
Add == Op("Binary", "i32.add")
Drop == Op("Drop", "drop")
Local(i) == Of("GetLocal", "get_local", i)
Br(i) == Of("Br", "br", i)
BrTable(targets) ==
    Op("BrTable", "br_table") @@ [targets |-> [i \in DOMAIN targets |-> Index(targets[i])]]
Block(exprs) == Nest("Block", "block", Void, exprs, <<>>)
Loop(exprs) == Nest("Loop", "loop", Void, exprs, <<>>)
If(true, false) == Nest("If", "if", Sig(<<>>, <<"i32">>), true, false)

-----------------------------------------------------------------------------
(* Bodies of a function from i32 to i32 in a module with another one.       *)

Short == {I32(1), Local(0), Add, Drop, Of("Call", "call", 1), Of("Call", "call", 0),
          Block(<<Br(0)>>), If(<<I32(2)>>, <<I32(3)>>), Op("Return", "return")}

ShortBodies == {<<>>} \cup {<<a, b, c>> : a, b, c \in Short}

WithBody(body) ==
    Mod(<<TypeField(NoName, I32ToI32), TypeField(NoName, Void),
          Inside("func", NoName, Plainly(Use(0, I32ToI32), body)),
          Inside("func", NoName, Plainly(Use(1, Void), <<>>))>>)

(* Labels of blocks beside and inside each other, a try between them.       *)
Nested ==
    <<Block(<<Loop(<<Br(1), Local(0), Of("BrIf", "br_if", 0)>>),
              Nest("Try", "try", Void,
                   <<Block(<<Local(0), BrTable(<<0, 1, 2, 0>>)>>), Br(0)>>,
                   <<Op("Rethrow", "rethrow"), Op("Nop", "nop")>>)>>),
      Loop(<<Block(<<Br(1)>>), Block(<<>>), Br(0)>>),
      Local(0), If(<<I32(1), Br(0)>>, <<I32(15)>>)>>

Throwing ==
    <<I32(3), Of("Throw", "throw", 0), Local(0),
      Nest("IfExcept", "if_except", Sig(<<>>, <<"i32">>), <<I32(4)>>, <<I32(5)>>),
      Local(0), Nest("IfExcept", "if_except", Void, <<Br(0)>>, <<>>)>>

Accesses ==
    <<I32(0), Access("Load", "i32.load", 3, 4), Access("Load", "i64.load8_u", 0, 1),
      I32(8), Access("Store", "i32.store", 1, 2), I32(0), I32(1), I32(2),
      Access("AtomicRmwCmpxchg", "i32.atomic.rmw.cmpxchg", 0, 4),
      I32(0), Op("Const", "i64.const") @@ [value |-> 12],
      Access("AtomicRmw", "i32.atomic.rmw.add", 0, 4),
      Access("AtomicLoad", "i32.atomic.load", 2, 4),
      Access("AtomicStore", "i32.atomic.store", 0, 4),
      Access("AtomicWait", "i32.atomic.wait", 0, 4),
      Access("AtomicWake", "atomic.wake", 0, 4),
      Op("MemorySize", "memory.size"), Op("MemoryGrow", "memory.grow")>>

Vectors ==
    <<Op("Const", "v128.const") @@ [value |-> <<0, 15, 8, 1>>],
      Op("SimdLaneOp", "i32x4.extract_lane") @@ [value |-> 3],
      Op("SimdLaneOp", "i32x4.replace_lane") @@ [value |-> 0],
      Op("SimdShuffleOp", "v8x16.shuffle") @@ [value |-> <<1, 2, 3, 4>>],
      Op("Ternary", "v128.bitselect"), Op("Unary", "i32.clz"),
      Op("Compare", "i32.eq"), Op("Convert", "i32.eqz"), Op("Select", "select"),
      Op("Unreachable", "unreachable")>>

Calls ==
    <<Of("GetGlobal", "get_global", 1), Local(0), Of("TeeLocal", "tee_local", 1),
      Of("SetLocal", "set_local", 2), Of("SetGlobal", "set_global", 1),
      Local(0), I32(1), Op("CallIndirect", "call_indirect") @@ [decl |-> Use(1, I32ToI32)]>>

(* A module with every field, its names from the name section.              *)
Full(body) ==
    Mod(<<TypeField(NoName, Void), TypeField(NoName, I32ToI32),
          Outside("func", <<"a", "f">>, Plainly(Use(1, I32ToI32), <<>>)),
          Outside("func", <<"a", "f">>, Plainly(Use(0, Void), <<>>)),
          Outside("global", <<"a", "g">>, GlobalDesc("i32", FALSE, <<>>)),
          Inside("func", "$a b", FuncOf(Use(1, I32ToI32), <<"$p1">>, <<"i32", "i64">>,
                                        <<"$l1", NoName>>, body)),
          Inside("func", "$f3", Plainly(Use(0, Void), <<Of("Call", "call", 2)>>)),
          Inside("func", NoName, Plainly(Use(0, Void), <<Of("Call", "call", 4)>>)),
          Inside("table", NoName, Limited(2, {4})),
          Inside("memory", NoName, Limited(1, {})),
          Inside("except", NoName, [types |-> <<"i32">>]),
          Inside("global", NoName, GlobalDesc("i32", TRUE, <<Of("GetGlobal", "get_global", 0)>>)),
          Exported("f", "func", Index(2)), Exported("g", "func", Index(2)),
          Exported("f3", "func", Index(4)), Exported("f", "memory", Index(0)),
          Exported("h", "func", Index(0)), Exported("t", "table", Index(0)),
          Exported("e", "global", Index(1)), StartField(3),
          Segment("elem", Index(0), <<I32(1)>>, <<Index(2), Index(0)>>),
          Segment("data", Index(0), <<I32(14)>>, <<>>)
              @@ [data |-> <<104, 34, 92, 0, 200, 9>>]>>)

(* The parser does not read an exception's import on the spot.              *)
ImportsOf(excepts) ==
    Mod(<<TypeField("$t0", Sig(<<"i32", "i32">>, <<>>)),
          Outside("table", <<"a", "t">>, Limited(0, {})),
          Outside("memory", <<"a", "m">>, Limited(1, {2})),
          Outside("global", <<"a", "g">>, GlobalDesc("i64", TRUE, <<>>)),
          Outside("func", <<"a", "g">>, Plainly(Use(0, Sig(<<"i32", "i32">>, <<>>)), <<>>)),
          Exported("g", "global", Index(0)), Exported("m", "memory", Index(0))>>
        \o [i \in DOMAIN excepts |-> Outside("except", <<"a", "e">>, excepts[i])])

-----------------------------------------------------------------------------
(* Texts: pieces with blanks between them.                                  *)

Spaced(pieces) ==
    [k \in 1 .. 2 * Len(pieces) |->
        IF k % 2 = 0 THEN Piece("blank", FALSE) ELSE pieces[(k + 1) \div 2]]

L == Lpar
R == Rpar
W(word) == Word(word)
N(name) == Piece("name", name)
I(n) == Piece(IF n < 0 THEN "int" ELSE "nat", n)
Q(name) == Piece("quoted", name)
B(bytes) == Piece("text", bytes)

(* An item with its exports and elements or data on the spot; operands in   *)
(* parentheses, an inner label with the name of an outer one.               *)
InlineText == Spaced(<<
    L, W("module"), N("$m"),
    L, W("func"), N("$i"), L, W("import"), Q("a"), Q("f"), R,
       L, W("param"), W("i32"), R, R,
    L, W("func"), N("$g"), L, W("export"), Q("g"), R, L, W("export"), Q("k"), R,
       L, W("param"), N("$x"), W("i32"), R, L, W("result"), W("i32"), R,
       L, W("local"), N("$y"), W("i64"), R, L, W("local"), W("i32"), W("i32"), R,
       L, W("block"), N("$l"),
          L, W("loop"), N("$l"), L, W("br"), N("$l"), R, L, W("br"), I(0), R, R, R,
       L, W("i32.add"), L, W("get_local"), N("$x"), R, L, W("i32.const"), I(-1), R, R,
    R,
    L, W("table"), N("$t"), L, W("export"), Q("t"), R, W("anyfunc"),
       L, W("elem"), N("$g"), N("$i"), R, R,
    L, W("memory"), L, W("data"), B(<<97, 92, 110>>), B(<<92, 48, 97>>), R, R,
    L, W("global"), N("$c"), L, W("mut"), W("i32"), R, L, W("i32.const"), I(7), R, R,
    L, W("start"), N("$s"), R,
    L, W("func"), N("$s"), L, W("type"), I(1), R, R,
    L, W("func"), L, W("type"), N("$u"), R, W("set_global"), N("$c"), R,
    L, W("type"), N("$u"), L, W("func"), L, W("param"), W("i32"), W("i32"), R, R, R,
    R>>)

InlineMeant ==
    Mod(<<Outside("func", <<"a", "f">>, Plainly(Use(1, Sig(<<"i32">>, <<>>)), <<>>)),
          Inside("func", NoName,
                 FuncOf(Use(2, I32ToI32), <<NoName>>, <<"i64", "i32", "i32">>,
                        <<NoName, NoName, NoName>>,
                        <<Block(<<Loop(<<Br(0), Br(0)>>)>>), Local(0), I32(15), Add>>)),
          Exported("g", "func", Index(1)), Exported("k", "func", Index(1)),
          Inside("table", NoName, Limited(2, {2})),
          Segment("elem", Index(0), <<I32(0)>>, <<Index(1), Index(0)>>),
          Exported("t", "table", Index(0)),
          Inside("memory", NoName, Limited(2, {2})),
          Segment("data", Index(0), <<I32(0)>>, <<>>) @@ [data |-> <<97, 10, 10>>],
          Inside("global", NoName, GlobalDesc("i32", TRUE, <<I32(7)>>)),
          StartField(2),
          Inside("func", NoName, Plainly(Use(1, Sig(<<"i32">>, <<>>)), <<>>)),
          Inside("func", NoName, Plainly(Use(0, Sig(<<"i32", "i32">>, <<>>)),
                                         <<Of("SetGlobal", "set_global", 0)>>)),
          TypeField(NoName, Sig(<<"i32", "i32">>, <<>>)),
          TypeField(NoName, Sig(<<"i32">>, <<>>)), TypeField(NoName, I32ToI32)>>)

(* The fields alone; every form of if, if_except and try.                   *)
FormsText == Spaced(<<
    L, W("except"), N("$e"), W("i32"), R,
    L, W("func"), L, W("param"), N("$a"), W("i32"), R,
       L, W("if"), L, W("get_local"), N("$a"), R, L, W("nop"), R, L, W("return"), R, R,
       L, W("if"), N("$i"), L, W("result"), W("i32"), R, L, W("i32.const"), I(1), R,
          L, W("then"), W("i32.const"), I(2), R,
          L, W("else"), L, W("br"), N("$i"), L, W("i32.const"), I(3), R, R, R, R,
       L, W("if_except"), N("$e"), L, W("get_local"), I(0), R, L, W("then"), R, R,
       W("if_except"), N("$x"), N("$e"), W("br"), N("$x"),
          W("else"), N("$x"), W("nop"), W("end"), N("$x"),
       W("if_except"), L, W("result"), W("i32"), R, I(0), W("i32.const"), I(1), W("end"),
       W("if_except"), N("$y"), L, W("result"), W("i32"), R, N("$e"),
          W("i32.const"), I(1), W("end"), N("$y"),
       L, W("try"), N("$z"), L, W("throw"), N("$e"), R, L, W("catch"), W("rethrow"), R, R,
       W("try"), W("nop"), W("catch"), W("br"), I(0), W("end"),
       W("block"), N("$q"), W("get_local"), N("$a"), W("br_table"), N("$q"), I(0), I(1),
          W("end"), N("$q"),
       W("if"), W("nop"), W("else"), W("end"), R>>)

FormsMeant ==
    LET ToI32 == Sig(<<>>, <<"i32">>)
        IfExcept(sig, true, false) == Nest("IfExcept", "if_except", sig, true, false)
        Nop == Op("Nop", "nop")
    IN  Mod(<<Inside("except", NoName, [types |-> <<"i32">>]),
          Inside("func", NoName, Plainly(Use(0, Sig(<<"i32">>, <<>>)),
              <<Local(0), Nest("If", "if", Void, <<Nop>>, <<Op("Return", "return")>>),
                I32(1), If(<<I32(2)>>, <<I32(3), Br(0)>>),
                Local(0), IfExcept(Void, <<>>, <<>>),
                IfExcept(Void, <<Br(0)>>, <<Nop>>), IfExcept(ToI32, <<I32(1)>>, <<>>),
                IfExcept(ToI32, <<I32(1)>>, <<>>),
                Nest("Try", "try", Void, <<Of("Throw", "throw", 0)>>,
                     <<Op("Rethrow", "rethrow")>>),
                Nest("Try", "try", Void, <<Nop>>, <<Br(0)>>),
                Block(<<Local(0), BrTable(<<0, 0, 1>>)>>),
                Nest("If", "if", Void, <<Nop>>, <<>>)>>)),
          TypeField(NoName, Sig(<<"i32">>, <<>>))>>)

(* A script: the first of its modules is the one that counts.               *)
Invoke(args) == <<L, W("invoke"), Q("f")>> \o args \o <<R>>
One == <<L, W("i32.const"), I(1), R>>

ScriptText == Spaced(
    <<L, W("assert_malformed"), L, W("module"), W("quote"), B(<<40>>), R, Q("no"), R,
      L, W("module"), W("binary"), B(<<92, 48, 48>>), B(<<97>>), R,
      L, W("register"), Q("M"), R>>
    \o Invoke(<<>>) \o <<L, W("get"), N("$m"), Q("g"), R,
      L, W("module"), N("$m"), L, W("func"), L, W("export"), Q("f"), R, R, R,
      L, W("register"), Q("N"), N("$m"), R,
      L, W("assert_return")>> \o Invoke(One) \o One
    \o <<R, L, W("assert_return_canonical_nan")>> \o Invoke(One)
    \o <<R, L, W("assert_exhaustion")>> \o Invoke(One) \o <<Q("too deep"), R,
      L, W("assert_trap")>> \o Invoke(<<>>) \o <<Q("no"), R,
      L, W("assert_trap"), L, W("module"), R, Q("no"), R,
      L, W("assert_invalid"), L, W("module"), L, W("memory"), I(9), W("shared"), R, R,
      Q("no"), R>>)

MCBinaryModules == <<0, 97>> :> WithBody(<<I32(1), Add>>)

(* Texts with an error.                                                     *)
Field(pieces) == Spaced(<<L, W("module")>> \o pieces \o <<R>>)
InFunc(pieces) == Field(<<L, W("func")>> \o pieces \o <<R>>)

WrongTexts ==
    {Field(<<L, W("memory"), I(1), R, L, W("func"), L, W("import"), Q("a"), Q("b"), R, R>>),
     Field(<<L, W("table"), I(1), R>>),
     Field(<<L, W("func"), R, L, W("import"), Q("a"), Q("b"), L, W("global"), W("i32"), R, R>>),
     Field(<<L, W("import"), Q("a"), Q("b"), L, W("data"), R, R>>),
     Field(<<L, W("func"), R>>) \o <<Lpar>>,
     Spaced(<<L, W("module"), W("quote"), B(<<40>>), R>>),
     Spaced(<<L, W("register"), Q("a"), R>>), Spaced(<<W("module")>>), <<>>,
     InFunc(<<W("try"), W("nop"), W("end")>>),
     InFunc(<<W("block"), N("$a"), W("end"), N("$b")>>),
     InFunc(<<W("block"), W("end"), N("$b")>>),
     InFunc(<<W("br_table")>>), InFunc(<<W("br")>>), InFunc(<<W("i32.const"), I(16), R>>),
     InFunc(<<W("i32.const"), I(-9)>>), InFunc(<<W("v128.const"), W("i64"), I(1)>>),
     InFunc(<<L, W("if"), L, W("nop"), R, R>>),
     InFunc(<<W("i32.load"), Piece("align", 3)>>),
     InFunc(<<L, W("i32.add"), W("nop"), R>>), InFunc(<<W("get_local"), W("nope")>>),
     InFunc(<<L, W("result"), N("$r"), W("i32"), R>>)}

-----------------------------------------------------------------------------
Options(inline_export, inline_import, fold_exprs) ==
    [inline_export |-> inline_export, inline_import |-> inline_import,
     fold_exprs |-> fold_exprs]

AllOptions == {Options(e, i, f) : e, i, f \in BOOLEAN}
FoldOrNot == {Options(TRUE, FALSE, f) : f \in BOOLEAN}

Input(tool, source, meant, refused, generate, options) ==
    [tool |-> tool, source |-> source, meant |-> meant, refused |-> refused,
     generate |-> generate, options |-> options]

Wholes == {Full(body) : body \in {Nested, Throwing, Accesses, Vectors, Calls}} \cup {ImportsOf(<<>>)}

Texts == {<<InlineText, InlineMeant>>, <<FormsText, FormsMeant>>,
          <<ScriptText, MCBinaryModules[<<0, 97>>]>>}

MCInputs ==
    {Input("wasm2wat", m, <<m>>, FALSE, g, o) : m \in Wholes, g \in BOOLEAN, o \in AllOptions}
    \cup {Input("wasm2wat", m, <<m>>, FALSE, g, o) :
              m \in {ImportsOf(<<[types |-> <<>>], [types |-> <<"i32">>]>>)},
              g \in BOOLEAN, o \in FoldOrNot}
    \cup {Input("wasm2wat", WithBody(b), <<WithBody(b)>>, TRUE, TRUE, o) :
              b \in ShortBodies, o \in FoldOrNot}
    \cup {Input("wasm2wat", WithBody(<<Add>>), <<WithBody(<<Add>>)>>, TRUE, FALSE, o) :
              o \in FoldOrNot}
    \cup {Input("wat-desugar", t[1], <<t[2]>>, FALSE, g, o) :
              t \in Texts, g \in BOOLEAN, o \in AllOptions}
    \cup {Input("wat-desugar", t, <<>>, FALSE, TRUE, o) :
              t \in WrongTexts, o \in FoldOrNot}

(* A name section that names the second of two locals.                      *)
LocalsInputs ==
    LET m == Mod(<<TypeField(NoName, Void),
                   Inside("func", NoName,
                          FuncOf(Use(0, Void), <<>>, <<"i32", "i64">>,
                                 <<NoName, "$l1">>, <<>>))>>)
    IN  {Input("wasm2wat", m, <<m>>, FALSE, FALSE, o) : o \in AllOptions}
=============================================================================
