------------------------------ MODULE InterpTrace -----------------------------
(***************************************************************************)
(* The places that must agree on the form of an instruction in the         *)
(* istream: BinaryReaderInterp emits it, Thread::Run executes it,          *)
(* Thread::Trace prints it with its operands before it is executed, and    *)
(* Environment::Disassemble prints it and walks on to the next             *)
(* (src/binary-reader-interp.cc, src/interp.cc).                           *)
(*                                                                         *)
(* The immediates of an instruction are the sizes of the parts that follow *)
(* the opcode.  The operands are the fields of the values that are read,   *)
(* the top of the stack last.                                              *)
(***************************************************************************)
EXTENDS InterpNumeric

(* The instructions that move the control or the stack: Run of InterpThread *)
(* executes them.  An operand has the type i32, or one that is not known.   *)
(* "data" precedes the entries of a br_table, which Run jumps over; here    *)
(* they are the default target's only.                                      *)
unknown == IntType("unknown", 4)

Control(name, form, types) == Row("control", name, form, "", types)
ControlRows ==
    {Control(name, "Plain", <<>>) : name \in {"nop", "return", "unreachable", "drop"}}
    \union {Control(name, "Immediate", <<>>) :
               name \in {"br", "get_local", "get_global", "call", "call_host",
                         "alloca", "memory.size", "i32.const", "f32.const"}}
    \union {Control(name, "Immediate", <<u32>>) :
               name \in {"br_if", "br_unless", "memory.grow"}}
    \union {Control(name, "Immediate", <<unknown>>) :
               name \in {"set_local", "set_global", "tee_local"}}
    \union {Control(name, "Immediates", <<u32>>) : name \in {"br_table", "call_indirect"}}
    \union {Control("drop_keep", "DropKeep", <<>>),
            Control("i64.const", "Const64", <<>>), Control("f64.const", "Const64", <<>>),
            Control("v128.const", "Const128", <<>>), Control("data", "Data", <<>>),
            Control("select", "Plain", <<unknown, unknown, unknown>>)}

MemoryForms == {"Load", "Store", "AtomicLoad", "AtomicStore", "AtomicRmw",
                "AtomicRmwCmpxchg", "Wait", "Wake"}

-----------------------------------------------------------------------------
(* BinaryReaderInterp *)

TableEntrySize == 12     \* offset, drop, keep

EmittedControl(row) ==
    CASE row.form = "Const64" -> <<8>>
      [] row.form = "Const128" -> <<16>>
      [] row.form = "Immediate" -> <<4>>
      [] row.form \in {"Immediates", "DropKeep"} -> <<4, 4>>
      [] row.form = "Data" -> <<4, TableEntrySize>>
      [] OTHER -> <<>>

EmittedOperator(row) ==
    CASE row.form \in MemoryForms -> <<4, 4>>      \* memory index, offset
      [] row.form \in {"ExtractLane", "ReplaceLane"} -> <<1>>
      [] row.form = "Shuffle" -> <<16>>
      [] OTHER -> <<>>

Emitted(row) ==
    IF row.op[1] = "control" THEN EmittedControl(row) ELSE EmittedOperator(row)

-----------------------------------------------------------------------------
(* Thread::Run *)

RunReads(row) ==
    CASE row.form \in MemoryForms \ {"Wait", "Wake"} -> <<4, 4>>
      [] row.form \in {"ExtractLane", "ReplaceLane"} -> <<1>>
      [] row.form \in {"Shuffle", "Const128"} -> <<16>>
      [] row.form = "Const64" -> <<8>>
      [] row.form = "Immediate" -> <<4>>
      [] row.form \in {"Immediates", "DropKeep"} -> <<4, 4>>
      [] OTHER -> <<>>

Field(T) ==
    IF T = v128 THEN "v128"
    ELSE IF T = unknown THEN "unknown"
    ELSE IF IsFloat(T) THEN IF T.bytes = 4 THEN "f32" ELSE "f64"
    ELSE IF T.bytes = 8 THEN "i64" ELSE "i32"

(* What Run pops: GetAccessAddress pops the address, the forms the others.  *)
(* wait and wake trap before they would.                                    *)
RunPops(row) ==
    LET value == Field(IF row.func = "IntExtendS" THEN row.types[1] ELSE Last(row.types))
    IN  CASE row.form \in {"Load", "AtomicLoad"} -> <<"i32">>
          [] row.form \in {"Store", "AtomicStore", "AtomicRmw", "Wake"} -> <<"i32", value>>
          [] row.form = "AtomicRmwCmpxchg" -> <<"i32", value, value>>
          [] row.form = "Wait" -> <<"i32", value, "i64">>
          [] row.form \in {"Unop", "UnopTrap", "Splat"} -> <<value>>
          [] row.form \in {"Binop", "BinopTrap"} -> <<value, value>>
          [] row.form \in {"SimdUnop", "AnyTrue", "AllTrue", "ExtractLane"} -> <<"v128">>
          [] row.form \in {"SimdBinop", "Shuffle"} -> <<"v128", "v128">>
          [] row.form = "BitSelect" -> <<"v128", "v128", "v128">>
          [] row.form = "Shift" -> <<"v128", "i32">>
          [] row.form = "ReplaceLane" -> <<"v128", value>>
          [] OTHER -> [i \in DOMAIN row.types |-> Field(row.types[i])]

-----------------------------------------------------------------------------
(* Trace and Disassemble: the opcodes as their cases list them.             *)

Ops(shapes, names) == shapes \X names
Suffixed(names, suffixes) == {name \o suffix : name \in names, suffix \in suffixes}

RmwNames(suffixes) ==
    Suffixed({"rmw.add", "rmw.sub", "rmw.and", "rmw.or", "rmw.xor", "rmw.xchg"}, suffixes)

LoadOps ==
    Ops({"i32", "i64"}, {"load8_s", "load8_u", "load16_s", "load16_u"}) \union
    Ops({"i64"}, {"load32_s", "load32_u", "atomic.load32"}) \union
    Ops({"i32", "i64"}, {"atomic.load", "atomic.load8", "atomic.load16"}) \union
    Ops({"i32", "i64", "f32", "f64", "v128"}, {"load"})

I32StoreOps ==
    Ops({"i32"}, {"atomic.wake"}
                 \union Suffixed({"store", "atomic.store"}, {"", "8", "16"})
                 \union RmwNames({"", "8", "16"}))
I64StoreOps ==
    Ops({"i64"}, Suffixed({"store", "atomic.store"}, {"", "8", "16", "32"})
                 \union RmwNames({"", "8", "16", "32"}))

I32CmpxchgOps == Ops({"i32"}, Suffixed({"rmw.cmpxchg"}, {"", "8", "16"}))
I64CmpxchgOps == Ops({"i64"}, Suffixed({"rmw.cmpxchg"}, {"", "8", "16", "32"}))

IntBinaryNames ==
    {"add", "sub", "mul", "div_s", "div_u", "rem_s", "rem_u", "and", "or", "xor",
     "shl", "shr_u", "shr_s", "eq", "ne", "lt_s", "le_s", "lt_u", "le_u", "gt_s",
     "ge_s", "gt_u", "ge_u", "rotr", "rotl"}
FloatBinaryNames ==
    {"add", "sub", "mul", "div", "min", "max", "copysign", "eq", "ne", "lt", "le",
     "gt", "ge"}
FloatUnaryNames == {"abs", "neg", "ceil", "floor", "trunc", "nearest", "sqrt"}

I32UnaryOps ==
    Ops({"i32"}, {"clz", "ctz", "popcnt", "eqz", "extend16_s", "extend8_s"})
    \union Ops({"i8x16", "i16x8", "i32x4"}, {"splat"})
I64UnaryOps ==
    Ops({"i64"}, {"clz", "ctz", "popcnt", "eqz", "extend16_s", "extend32_s", "extend8_s"})
    \union {<<"i64x2", "splat">>}
F32UnaryOps == Ops({"f32"}, FloatUnaryNames) \union {<<"f32x4", "splat">>}
F64UnaryOps == Ops({"f64"}, FloatUnaryNames) \union {<<"f64x2", "splat">>}

OfF32Ops ==
    Ops({"i32", "i64"}, {"trunc_s/f32", "trunc_u/f32", "trunc_s:sat/f32", "trunc_u:sat/f32"})
    \union {<<"f64", "promote/f32">>, <<"i32", "reinterpret/f32">>}
OfF64Ops ==
    Ops({"i32", "i64"}, {"trunc_s/f64", "trunc_u/f64", "trunc_s:sat/f64", "trunc_u:sat/f64"})
    \union {<<"f32", "demote/f64">>, <<"i64", "reinterpret/f64">>}
OfI64Ops ==
    Ops({"f32", "f64"}, {"convert_s/i64", "convert_u/i64"})
    \union {<<"i32", "wrap/i64">>, <<"f64", "reinterpret/i64">>}
OfI32Ops ==
    Ops({"f32", "f64"}, {"convert_s/i32", "convert_u/i32"})
    \union Ops({"i64"}, {"extend_s/i32", "extend_u/i32"})
    \union {<<"f32", "reinterpret/i32">>}

SmallShapes == {"i8x16", "i16x8"}
WordShapes == {"i8x16", "i16x8", "i32x4"}
LaneShapes == {"i8x16", "i16x8", "i32x4", "i64x2"}
FloatShapes == {"f32x4", "f64x2"}

SimdUnaryOps ==
    Ops(LaneShapes, {"neg", "any_true", "all_true"})
    \union Ops(FloatShapes, {"neg", "abs", "sqrt"}) \union {<<"v128", "not">>}
    \union Ops({"f32x4"}, {"convert_s/i32x4", "convert_u/i32x4"})
    \union Ops({"f64x2"}, {"convert_s/i64x2", "convert_u/i64x2"})
    \union Ops({"i32x4"}, {"trunc_s/f32x4:sat", "trunc_u/f32x4:sat"})
    \union Ops({"i64x2"}, {"trunc_s/f64x2:sat", "trunc_u/f64x2:sat"})
SimdBinaryOps ==
    Ops(LaneShapes, {"add", "sub"}) \union Ops(WordShapes, {"mul"})
    \union Ops(SmallShapes, Suffixed({"add_saturate", "sub_saturate"}, {"_s", "_u"}))
    \union Ops({"v128"}, {"and", "or", "xor"})
    \union Ops(WordShapes, {"eq", "ne"} \union
                           Suffixed({"lt", "le", "gt", "ge"}, {"_s", "_u"}))
    \union Ops(FloatShapes, {"eq", "ne", "lt", "le", "gt", "ge", "min", "max", "add",
                             "sub", "div", "mul"})
SimdShiftOps == Ops(LaneShapes, {"shl", "shr_s", "shr_u"})
ExtractOps ==
    Ops(SmallShapes, {"extract_lane_s", "extract_lane_u"})
    \union Ops({"i32x4", "i64x2", "f32x4", "f64x2"}, {"extract_lane"})

-----------------------------------------------------------------------------
(* Thread::Trace: the values that it picks.  Of one whose type it cannot    *)
(* know it shows the low word or the place.                                 *)

TraceMemory ==
    {<<LoadOps, <<"i32">>>>, <<I32StoreOps, <<"i32", "i32">>>>,
     <<I32CmpxchgOps, <<"i32", "i32", "i32">>>>,
     <<I64StoreOps, <<"i32", "i64">>>>,
     <<{<<"i32", "atomic.wait">>}, <<"i32", "i32", "i64">>>>,
     <<{<<"i64", "atomic.wait">>} \union I64CmpxchgOps, <<"i32", "i64", "i64">>>>,
     <<{<<"f32", "store">>}, <<"i32", "f32">>>>,
     <<{<<"f64", "store">>}, <<"i32", "f64">>>>,
     <<{<<"v128", "store">>}, <<"i32", "v128">>>>}

(* Mutant: the i64 instructions listed with those of i32.                   *)
TraceIntegersNarrow ==
    {<<Ops({"i32", "i64"}, IntBinaryNames), <<"i32", "i32">>>>, <<I32UnaryOps, <<"i32">>>>,
     <<I64UnaryOps, <<"i64">>>>}

TraceIntegers ==
    {<<Ops({"i32"}, IntBinaryNames), <<"i32", "i32">>>>, <<I32UnaryOps, <<"i32">>>>,
     <<Ops({"i64"}, IntBinaryNames), <<"i64", "i64">>>>, <<I64UnaryOps, <<"i64">>>>}

TraceFloats ==
    {<<Ops({"f32"}, FloatBinaryNames), <<"f32", "f32">>>>, <<F32UnaryOps, <<"f32">>>>,
     <<Ops({"f64"}, FloatBinaryNames), <<"f64", "f64">>>>, <<F64UnaryOps, <<"f64">>>>}

TraceConversions ==
    {<<OfF32Ops, <<"f32">>>>, <<OfF64Ops, <<"f64">>>>, <<OfI64Ops, <<"i64">>>>,
     <<OfI32Ops, <<"i32">>>>}

TraceLanes ==
    {<<SimdUnaryOps, <<"v128">>>>,
     <<{<<"v128", "bitselect">>}, <<"v128", "v128", "v128">>>>,
     <<ExtractOps, <<"v128">>>>, <<Ops(WordShapes, {"replace_lane"}), <<"v128", "i32">>>>,
     <<{<<"i64x2", "replace_lane">>}, <<"v128", "i64">>>>,
     <<{<<"f32x4", "replace_lane">>}, <<"v128", "f32">>>>,
     <<{<<"f64x2", "replace_lane">>}, <<"v128", "f64">>>>}

TraceVectors ==
    {<<{<<"v8x16", "shuffle">>} \union SimdBinaryOps, <<"v128", "v128">>>>,
     <<SimdShiftOps, <<"v128", "i32">>>>}

TraceControl ==
    {<<Ops({"control"}, {"br", "nop", "return", "unreachable", "drop", "memory.size",
                         "i32.const", "i64.const", "f32.const", "f64.const", "v128.const",
                         "get_local", "get_global", "call", "call_host", "alloca",
                         "drop_keep"}), <<>>>>,
     <<Ops({"control"}, {"br_if", "br_table", "call_indirect", "memory.grow",
                         "br_unless"}), <<"i32">>>>,
     <<Ops({"control"}, {"set_local", "set_global", "tee_local"}), <<"unknown">>>>,
     <<{<<"control", "select">>}, <<"unknown", "unknown", "unknown">>>>}

(* A case of the table that lists the opcode; without one the program ends. *)
CaseOf(table, op) == {c[2] : c \in {d \in table : op \in d[1]}}

TracePicks(op) ==
    CaseOf(UNION {TraceMemory, TraceIntegers, TraceFloats, TraceConversions, TraceLanes,
                  TraceVectors, TraceControl}, op)

-----------------------------------------------------------------------------
(* Environment::Disassemble: the immediates that it reads, and the number   *)
(* of operands that it shows.                                               *)

DisassembleMemory ==
    {<<LoadOps, <<4, 4>>, 1>>,
     <<I32StoreOps \union I64StoreOps \union Ops({"f32", "f64", "v128"}, {"store"}),
       <<4, 4>>, 2>>,
     <<I32CmpxchgOps \union I64CmpxchgOps \union Ops({"i32", "i64"}, {"atomic.wait"}),
       <<4, 4>>, 3>>}

DisassembleBinary ==
    {<<Ops({"i32", "i64"}, IntBinaryNames) \union Ops({"f32", "f64"}, FloatBinaryNames),
       <<>>, 2>>}
DisassembleVectors == {<<SimdBinaryOps \union SimdShiftOps, <<>>, 2>>}

DisassembleUnary ==
    {<<I32UnaryOps \union I64UnaryOps \union F32UnaryOps \union F64UnaryOps
       \union OfF32Ops \union OfF64Ops \union OfI32Ops \union OfI64Ops
       \union SimdUnaryOps, <<>>, 1>>}

DisassembleLanes ==
    {<<ExtractOps, <<1>>, 1>>,
     <<Ops(WordShapes \union {"i64x2", "f32x4", "f64x2"}, {"replace_lane"}), <<1>>, 2>>,
     <<{<<"v8x16", "shuffle">>}, <<4, 4, 4, 4>>, 2>>,
     <<{<<"v128", "bitselect">>}, <<>>, 3>>}

DisassembleControl ==
    {<<Ops({"control"}, {"nop", "return", "unreachable", "drop"}), <<>>, 0>>,
     <<Ops({"control"}, {"br", "memory.size", "i32.const", "f32.const", "get_local",
                         "get_global", "call", "call_host", "alloca"}), <<4>>, 0>>,
     <<Ops({"control"}, {"br_if", "br_unless", "memory.grow", "set_local",
                         "set_global", "tee_local"}), <<4>>, 1>>,
     <<{<<"control", "select">>}, <<>>, 3>>,
     <<{<<"control", "data">>}, <<4, TableEntrySize>>, 0>>,
     <<Ops({"control"}, {"br_table", "call_indirect"}), <<4, 4>>, 1>>,
     <<{<<"control", "drop_keep">>}, <<4, 4>>, 0>>,
     <<Ops({"control"}, {"i64.const", "f64.const"}), <<8>>, 0>>,
     <<{<<"control", "v128.const">>}, <<4, 4, 4, 4>>, 0>>}

DisassembleCases ==
    UNION {DisassembleMemory, DisassembleBinary, DisassembleVectors, DisassembleUnary,
           DisassembleLanes, DisassembleControl}
DisassembleReads(op) == {<<c[2], c[3]>> : c \in {d \in DisassembleCases : op \in d[1]}}
=============================================================================
