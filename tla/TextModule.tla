------------------------------ MODULE TextModule ------------------------------
(***************************************************************************)
(* The module that the text tools share (src/ir.h, ir.cc): its fields in   *)
(* the order of the file, a var that is an index or a name, the bindings   *)
(* of names, and the visits of the expressions of a function               *)
(* (expr-visitor.cc), and the tokens that a text is read as.               *)
(*                                                                         *)
(* A name is a string, the empty one when there is none.  A binding of a   *)
(* name is kept in the thing that has the name: the multimap of a kind is  *)
(* the relation of the names and the indexes of its items.                 *)
(***************************************************************************)
EXTENDS Integers, SequencesExt, FiniteSets

CONSTANT TooLarge          (* kInvalidIndex: no index of a thing            *)
ASSUME TooLargeAssumption == TooLarge \in Nat

NoName == ""
Index(n) == [name |-> NoName, index |-> n]
Named(s) == [name |-> s, index |-> TooLarge]
NoVar == Index(TooLarge)
IsName(var) == var.name # NoName

Signature(params, results) == [params |-> params, results |-> results]

-----------------------------------------------------------------------------
(* The fields of a module.  Of what can be imported "import" holds the two  *)
(* names of the import, or nothing.                                         *)

ItemKinds == {"func", "table", "memory", "global", "except"}

HasKind(kind, field) == field.field = kind

(* funcs, tables, ...: the imported ones and the others, as they came.      *)
Items(module, kind) ==
    LET Has(field) == HasKind(kind, field) IN SelectSeq(module.fields, Has)

IsImport(module, kind, index) ==
    /\ index < Len(Items(module, kind))
    /\ Items(module, kind)[index + 1].import # <<>>

(* AppendField: a field at the end of the module.                           *)
AppendField(module, field) == [module EXCEPT !.fields = Append(@, field)]

NamesOf(items) == [i \in DOMAIN items |-> items[i].name]

-----------------------------------------------------------------------------
(* Bindings.                                                                *)

Bound(names, name) == {i \in DOMAIN names : names[i] = name}

(* Of equal names the hash finds one: which one is not said.                *)
FindIndex(names, var) ==
    IF ~IsName(var) THEN var.index
    ELSE IF Bound(names, var.name) = {} THEN TooLarge
    ELSE Min(Bound(names, var.name)) - 1

FindDuplicates(names) ==
    \E i, j \in DOMAIN names : i # j /\ names[i] = names[j] /\ names[i] # NoName

(* GetLocalIndex: a parameter is found before a local.                      *)
GetLocalIndex(func, var) ==
    LET param == FindIndex(func.param_names, var)
        local == FindIndex(func.local_names, var)
    IN  IF param # TooLarge THEN param
        ELSE IF local = TooLarge THEN TooLarge
        ELSE Len(func.decl.sig.params) + local

GetFuncTypeIndex(types, sig) ==
    LET same == {i \in DOMAIN types : types[i].sig = sig}
    IN  IF same = {} THEN TooLarge ELSE Min(same) - 1

-----------------------------------------------------------------------------
(* Expressions.                                                             *)

Structured == {"Block", "Loop", "Try", "If", "IfExcept"}

(* What an expression has of vars: the field that holds it and the space    *)
(* where it is found.                                                       *)
VarSpace(type) ==
    CASE type \in {"Br", "BrIf"} -> "label"
      [] type = "Call" -> "func"
      [] type \in {"GetGlobal", "SetGlobal"} -> "global"
      [] type \in {"GetLocal", "SetLocal", "TeeLocal"} -> "local"
      [] type \in {"Throw", "IfExcept"} -> "except"
      [] OTHER -> "none"

-----------------------------------------------------------------------------
(* The tokens of a text (wast-lexer.cc, token.cc), for the words that the  *)
(* model uses: at least one opcode of each type of token.                   *)

(* The opcodes by the type of their token, which is that of the expression. *)
ControlOpcodes ==
    [Nop |-> {"nop"}, Drop |-> {"drop"},
     Br |-> {"br"}, BrIf |-> {"br_if"}, BrTable |-> {"br_table"},
     Return |-> {"return"}, Call |-> {"call"}, CallIndirect |-> {"call_indirect"},
     GetLocal |-> {"get_local"}, SetLocal |-> {"set_local"},
     TeeLocal |-> {"tee_local"}, GetGlobal |-> {"get_global"},
     SetGlobal |-> {"set_global"}, Throw |-> {"throw"}, Rethrow |-> {"rethrow"},
     Load |-> {"i32.load", "i64.load8_u"}, Store |-> {"i32.store"},
     Block |-> {"block"}, Loop |-> {"loop"}, If |-> {"if"},
     IfExcept |-> {"if_except"}, Try |-> {"try"}]

NumericOpcodes ==
    [Const |-> {"i32.const", "i64.const", "v128.const"}, Unary |-> {"i32.clz"},
     Binary |-> {"i32.add", "i64.add"}, Compare |-> {"i32.eq"},
     Convert |-> {"i32.eqz", "i32.wrap/i64"}, Select |-> {"select"},
     Unreachable |-> {"unreachable"},
     MemorySize |-> {"memory.size"}, MemoryGrow |-> {"memory.grow"}]

AtomicOpcodes ==
    [AtomicLoad |-> {"i32.atomic.load"}, AtomicStore |-> {"i32.atomic.store"},
     AtomicRmw |-> {"i32.atomic.rmw.add"},
     AtomicRmwCmpxchg |-> {"i32.atomic.rmw.cmpxchg"},
     AtomicWake |-> {"atomic.wake"}, AtomicWait |-> {"i32.atomic.wait"}]

SimdOpcodes ==
    [Ternary |-> {"v128.bitselect"},
     SimdLaneOp |-> {"i32x4.extract_lane", "i32x4.replace_lane"},
     SimdShuffleOp |-> {"v8x16.shuffle"}]

OpcodesOf == ControlOpcodes @@ NumericOpcodes @@ AtomicOpcodes @@ SimdOpcodes

BlockInstrs == {"Block", "Loop", "If", "IfExcept", "Try"}
PlainInstrs == DOMAIN OpcodesOf \ BlockInstrs
MemoryAccesses == {"Load", "Store", "AtomicLoad", "AtomicStore", "AtomicRmw",
                   "AtomicRmwCmpxchg", "AtomicWake", "AtomicWait"}

(* The other words.                                                         *)
KeywordType ==
    [x \in {"i32", "i64", "f32", "f64", "v128"} |-> "ValueType"]
    @@ ("anyfunc" :> "Anyfunc" @@ "mut" :> "Mut" @@ "then" :> "Then"
        @@ "else" :> "Else" @@ "end" :> "End" @@ "catch" :> "Catch"
        @@ "type" :> "Type" @@ "func" :> "Func" @@ "param" :> "Param"
        @@ "result" :> "Result" @@ "local" :> "Local" @@ "global" :> "Global"
        @@ "module" :> "Module" @@ "binary" :> "Bin" @@ "quote" :> "Quote"
        @@ "table" :> "Table" @@ "memory" :> "Memory" @@ "start" :> "Start"
        @@ "elem" :> "Elem" @@ "data" :> "Data" @@ "offset" :> "Offset"
        @@ "import" :> "Import" @@ "export" :> "Export" @@ "except" :> "Except"
        @@ "register" :> "Register" @@ "invoke" :> "Invoke" @@ "get" :> "Get"
        @@ "assert_malformed" :> "AssertMalformed"
        @@ "assert_invalid" :> "AssertInvalid"
        @@ "assert_unlinkable" :> "AssertUnlinkable"
        @@ "assert_return" :> "AssertReturn"
        @@ "assert_return_canonical_nan" :> "AssertReturnCanonicalNan"
        @@ "assert_return_arithmetic_nan" :> "AssertReturnArithmeticNan"
        @@ "assert_trap" :> "AssertTrap" @@ "assert_exhaustion" :> "AssertExhaustion"
        @@ "shared" :> "Shared")

OpcodeType(word) == CHOOSE t \in DOMAIN OpcodesOf : word \in OpcodesOf[t]

WordType(word) ==
    IF word \in DOMAIN KeywordType THEN KeywordType[word]
    ELSE IF \E t \in DOMAIN OpcodesOf : word \in OpcodesOf[t] THEN OpcodeType(word)
    ELSE "Reserved"

Token(type, value) == [type |-> type, value |-> value]

(* The token of a piece that is not a comment.                              *)
TokenOf(piece) ==
    Token(CASE piece.kind = "lpar" -> "Lpar"
            [] piece.kind = "rpar" -> "Rpar"
            [] piece.kind = "word" -> WordType(piece.value)
            [] piece.kind = "name" -> "Var"
            [] piece.kind = "nat" -> "Nat"
            [] piece.kind = "int" -> "Int"
            [] piece.kind = "text" -> "Text"
            [] piece.kind = "quoted" -> "Text"
            [] piece.kind = "offset" -> "OffsetEqNat"
            [] piece.kind = "align" -> "AlignEqNat", piece.value)

(* What the longest match makes one token of when nothing is between.       *)
Atoms == {"word", "name", "nat", "int", "offset", "align"}

(* A line comment goes to the end of its line, a block comment parts two    *)
(* tokens.                                                                  *)
EndsLine(piece) == piece.kind = "blank" /\ piece.value

InComment(text, i) ==
    \E j \in {j \in 1 .. i : text[j].kind = "line"} :
        \A k \in j .. i - 1 : ~EndsLine(text[k])

Joined(text, i) == i > 1 /\ text[i].kind \in Atoms /\ text[i - 1].kind \in Atoms

(* The token that begins with a piece, if one does.                         *)
GetToken(text, i) ==
    IF \/ text[i].kind \in {"blank", "comment", "line"}
       \/ Joined(text, i)
       \/ InComment(text, i)
    THEN Token("None", "")
    ELSE IF i < Len(text) /\ Joined(text, i + 1) THEN Token("Reserved", "")
    ELSE TokenOf(text[i])

Lex(text) ==
    SelectSeq([i \in DOMAIN text |-> GetToken(text, i)],
              LAMBDA token : token.type # "None")

(* IsNaturallyAligned: how many bytes an opcode takes from memory.          *)
NaturalAlign(op) == IF op = "i64.load8_u" THEN 1 ELSE 4
=============================================================================
