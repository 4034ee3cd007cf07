----------------------------- MODULE InterpNumeric ----------------------------
(***************************************************************************)
(* The instructions of the interpreter that compute: the cases of          *)
(* Thread::Run and the function templates that they call (src/interp.cc).  *)
(*                                                                         *)
(* A value is its bits (ToRep), a number, or for v128 a sequence of 16     *)
(* bytes.  A C++ type is a record.  A case of Run is a row: the form is    *)
(* the member function that pops and pushes, the function is the one it is *)
(* given, and the types are the template arguments, those of the form      *)
(* first.  An opcode is the pair of the two parts of its name.             *)
(***************************************************************************)
EXTENDS FloatTraits, Sequences, SequencesExt, Bitwise

IntType(kind, bytes) == [kind |-> kind, bytes |-> bytes]
u8 == IntType("unsigned", 1)
u16 == IntType("unsigned", 2)
u32 == IntType("unsigned", 4)
u64 == IntType("unsigned", 8)
s8 == IntType("signed", 1)
s16 == IntType("signed", 2)
s32 == IntType("signed", 4)
s64 == IntType("signed", 8)
f32 == [kind |-> "float", bytes |-> 4, format |-> F32]
f64 == [kind |-> "float", bytes |-> 8, format |-> F64]
v128 == IntType("v128", 16)

IsFloat(t) == t.kind = "float"
Width(t) == t.bytes * ByteBits
MaxOf(t) == IF t.kind = "signed" THEN 2^(Width(t) - 1) - 1 ELSE 2^Width(t) - 1
MinOf(t) == IF t.kind = "signed" THEN -2^(Width(t) - 1) ELSE 0

ToRep(t, n) == n % 2^Width(t)
FromRep(t, x) == IF x > MaxOf(t) THEN x - 2^Width(t) ELSE x

(* What a function returns that may trap.                                   *)
Ok(value) == [trap |-> "Ok", value |-> value]
TRAP(name) == [trap |-> name, value |-> 0]

Bool(b) == IF b THEN 1 ELSE 0

-----------------------------------------------------------------------------
(* Integers *)

Add(T, lhs, rhs) ==
    IF IsFloat(T) THEN FAdd(T.format, lhs, rhs)
    ELSE ToRep(T, FromRep(T, lhs) + FromRep(T, rhs))

Sub(T, lhs, rhs) ==
    IF IsFloat(T) THEN FSub(T.format, lhs, rhs)
    ELSE ToRep(T, FromRep(T, lhs) - FromRep(T, rhs))

(* A product is the same modulo the width with signed numbers, which are    *)
(* smaller.                                                                 *)
Mul(T, lhs, rhs) ==
    LET signed == [T EXCEPT !.kind = "signed"]
    IN  IF IsFloat(T) THEN FMul(T.format, lhs, rhs)
        ELSE ToRep(T, FromRep(signed, lhs) * FromRep(signed, rhs))

Saturated(T, R, result) ==
    ToRep(T, IF result < MinOf(R) THEN MinOf(R)
             ELSE IF result > MaxOf(R) THEN MaxOf(R) ELSE result)
AddSaturate(T, R, lhs, rhs) ==
    Saturated(T, R, FromRep(T, ToRep(T, FromRep(T, lhs) + FromRep(T, rhs))))

SubSaturate(T, R, lhs, rhs) ==
    Saturated(T, R, FromRep(T, ToRep(T, FromRep(T, lhs) - FromRep(T, rhs))))

IsNormalDivRemS(T, lhs, rhs) == ~(lhs = MinOf(T) /\ rhs = -1)

(* The quotient of C, towards zero.                                         *)
Quotient(n, d) ==
    LET q == (IF n < 0 THEN -n ELSE n) \div (IF d < 0 THEN -d ELSE d)
    IN  IF (n < 0) # (d < 0) THEN -q ELSE q
Remainder(n, d) == n - d * Quotient(n, d)

IntDivS(T, lhs, rhs) ==
    LET n == FromRep(T, lhs)
        d == FromRep(T, rhs)
    IN  IF d = 0 THEN TRAP("IntegerDivideByZero")
        ELSE IF ~IsNormalDivRemS(T, n, d) THEN TRAP("IntegerOverflow")
        ELSE Ok(ToRep(T, Quotient(n, d)))

IntRemS(T, lhs, rhs) ==
    LET n == FromRep(T, lhs)
        d == FromRep(T, rhs)
    IN  IF d = 0 THEN TRAP("IntegerDivideByZero")
        ELSE IF IsNormalDivRemS(T, n, d) THEN Ok(ToRep(T, Remainder(n, d)))
        ELSE Ok(0)

IntDivU(T, lhs, rhs) ==
    IF rhs = 0 THEN TRAP("IntegerDivideByZero") ELSE Ok(lhs \div rhs)
IntRemU(T, lhs, rhs) ==
    IF rhs = 0 THEN TRAP("IntegerDivideByZero") ELSE Ok(lhs % rhs)

IntAnd(lhs, rhs) == lhs & rhs
IntOr(lhs, rhs) == lhs | rhs
IntXor(lhs, rhs) == lhs ^^ rhs

Mask(T) == Width(T) - 1
ShiftLeft(T, x, n) == (x % 2^(Width(T) - n)) * 2^n
IntShl(T, lhs, rhs) == ShiftLeft(T, lhs, rhs & Mask(T))
IntShr(T, lhs, rhs) == ToRep(T, FromRep(T, lhs) \div 2^(rhs & Mask(T)))

IntRotl(T, lhs, rhs) ==
    LET amount == rhs & Mask(T)
    IN  IF amount = 0 THEN lhs
        ELSE ShiftLeft(T, lhs, amount) | (lhs \div 2^(Mask(T) + 1 - amount))
IntRotr(T, lhs, rhs) ==
    LET amount == rhs & Mask(T)
    IN  IF amount = 0 THEN lhs
        ELSE (lhs \div 2^amount) | ShiftLeft(T, lhs, Mask(T) + 1 - amount)

IntEqz(x) == Bool(x = 0)
IntNeg(T, x) == ToRep(T, -x)
IntNot(T, x) == ToRep(T, -x - 1)

Clz(T, x) == Width(T) - BitLength(x)
Ctz(T, x) == IF x = 0 THEN Width(T)
             ELSE CHOOSE n \in 0 .. Mask(T) : x % 2^n = 0 /\ (x \div 2^n) % 2 = 1
Popcount(T, x) == Cardinality({n \in 0 .. Mask(T) : (x \div 2^n) % 2 = 1})

IntExtendS(T, E, x) == ToRep(T, FromRep(E, ToRep(E, x)))

-----------------------------------------------------------------------------
(* Floats *)

(* Division by zero is undefined in C++.                                    *)
FloatDiv(T, lhs, rhs) ==
    LET f == T.format
    IN  IF IsZero(f, rhs)
        THEN IF IsNan(f, lhs) THEN lhs | kQuietNan(f)
             ELSE IF IsZero(f, lhs) THEN kQuietNan(f)
             ELSE ((lhs & kSignMask(f)) ^^ (rhs & kSignMask(f))) | kInf(f)
        ELSE FDiv(f, lhs, rhs)

FloatAbs(T, x) == x % kSignMask(T.format)
FloatNeg(T, x) == x ^^ kSignMask(T.format)
FloatCopySign(T, lhs, rhs) ==
    (lhs % kSignMask(T.format)) | (rhs & kSignMask(T.format))

Quieted(T, x) == IF IsNan(T.format, x) THEN x | kQuietNanBit(T.format) ELSE x
FloatCeil(T, x) == Quieted(T, FCeil(T.format, x))
FloatFloor(T, x) == Quieted(T, FFloor(T.format, x))
FloatTrunc(T, x) == Quieted(T, FTrunc(T.format, x))
FloatNearest(T, x) == Quieted(T, FNearest(T.format, x))
FloatSqrt(T, x) == Quieted(T, FSqrt(T.format, x))

FloatMin(T, lhs, rhs) ==
    LET f == T.format
    IN  IF IsNan(f, lhs) THEN Quieted(T, lhs)
        ELSE IF IsNan(f, rhs) THEN Quieted(T, rhs)
        ELSE IF IsZero(f, lhs) /\ IsZero(f, rhs) THEN Max({lhs, rhs})
        ELSE IF FLt(f, rhs, lhs) THEN rhs ELSE lhs

FloatMax(T, lhs, rhs) ==
    LET f == T.format
    IN  IF IsNan(f, lhs) THEN Quieted(T, lhs)
        ELSE IF IsNan(f, rhs) THEN Quieted(T, rhs)
        ELSE IF IsZero(f, lhs) /\ IsZero(f, rhs) THEN Min({lhs, rhs})
        ELSE IF FLt(f, lhs, rhs) THEN rhs ELSE lhs

(* eq and lt; le is one or the other, and ne, gt and ge are what is left.   *)
Equal(T, lhs, rhs) ==
    IF IsFloat(T) THEN FEq(T.format, lhs, rhs) ELSE lhs = rhs
Less(T, lhs, rhs) ==
    IF IsFloat(T) THEN FLt(T.format, lhs, rhs)
    ELSE FromRep(T, lhs) < FromRep(T, rhs)
Eq(T, lhs, rhs) == Bool(Equal(T, lhs, rhs))
Ne(T, lhs, rhs) == Bool(~Equal(T, lhs, rhs))
Lt(T, lhs, rhs) == Bool(Less(T, lhs, rhs))
Le(T, lhs, rhs) == Bool(Less(T, lhs, rhs) \/ Equal(T, lhs, rhs))
Gt(T, lhs, rhs) == Bool(Less(T, rhs, lhs))
Ge(T, lhs, rhs) == Bool(Less(T, rhs, lhs) \/ Equal(T, lhs, rhs))

-----------------------------------------------------------------------------
(* Conversions *)

IsConversionInRange(R, T, x) ==
    IF R.kind = "signed" THEN InRangeSigned(T.format, Width(R), x)
    ELSE InRangeUnsigned(T.format, Width(R), x)

IntTrunc(R, T, x) ==
    IF IsNan(T.format, x) THEN TRAP("InvalidConversionToInteger")
    ELSE IF ~IsConversionInRange(R, T, x) THEN TRAP("IntegerOverflow")
    ELSE Ok(ToRep(R, ToInteger(T.format, x)))

IntTruncSat(R, T, x) ==
    IF IsNan(T.format, x) THEN 0
    ELSE IF ~IsConversionInRange(R, T, x)
    THEN ToRep(R, IF Neg(T.format, x) THEN MinOf(R) ELSE MaxOf(R))
    ELSE ToRep(R, ToInteger(T.format, x))

(* Push<R>(Pop<T>()) and SimdConvert.                                       *)
Convert(R, T, x) ==
    IF ~IsFloat(R) THEN ToRep(R, FromRep(T, x))
    ELSE IF IsFloat(T) THEN FConvert(T.format, R.format, x)
    ELSE FromInteger(R.format, FromRep(T, x))

Demote(value) ==
    IF IsConversionToF32InRange(value) THEN FConvert(F64, F32, value)
    ELSE IF IsInRangeF64DemoteF32RoundToF32Max(value) THEN kInf(F32) - 1
    ELSE IF IsInRangeF64DemoteF32RoundToNegF32Max(value) THEN kNegInf(F32) - 1
    ELSE LET sign == (value \div 2^(4 * ByteBits)) & kSignMask(F32)
             payload == (value \div 2^(F64.sig - F32.sig)) % 2^F32.sig
             tag == IF IsNan(F64, value) THEN kQuietNanBit(F32) | payload ELSE 0
         IN  sign | kInf(F32) | tag

-----------------------------------------------------------------------------
(* The functions by name, with their template arguments.                    *)

UnopFunc(func, types, x) ==
    CASE func = "IntEqz" -> IntEqz(x)
      [] func = "IntNeg" -> IntNeg(types[1], x)
      [] func = "IntNot" -> IntNot(types[1], x)
      [] func = "Clz" -> Clz(types[1], x)
      [] func = "Ctz" -> Ctz(types[1], x)
      [] func = "Popcount" -> Popcount(types[1], x)
      [] func = "FloatAbs" -> FloatAbs(types[1], x)
      [] func = "FloatNeg" -> FloatNeg(types[1], x)
      [] func = "FloatCeil" -> FloatCeil(types[1], x)
      [] func = "FloatFloor" -> FloatFloor(types[1], x)
      [] func = "FloatTrunc" -> FloatTrunc(types[1], x)
      [] func = "FloatNearest" -> FloatNearest(types[1], x)
      [] func = "FloatSqrt" -> FloatSqrt(types[1], x)
      [] func = "IntTruncSat" -> IntTruncSat(types[1], types[2], x)
      [] func = "IntExtendS" -> IntExtendS(types[1], types[2], x)
      [] func = "Convert" -> Convert(types[1], types[2], x)
      [] func = "Demote" -> Demote(x)
      [] func = "Reinterpret" -> x

BinopFunc(func, types, lhs, rhs) ==
    CASE func = "Add" -> Add(types[1], lhs, rhs)
      [] func = "Sub" -> Sub(types[1], lhs, rhs)
      [] func = "Mul" -> Mul(types[1], lhs, rhs)
      [] func = "AddSaturate" -> AddSaturate(types[1], types[2], lhs, rhs)
      [] func = "SubSaturate" -> SubSaturate(types[1], types[2], lhs, rhs)
      [] func = "FloatDiv" -> FloatDiv(types[1], lhs, rhs)
      [] func = "IntAnd" -> IntAnd(lhs, rhs)
      [] func = "IntOr" -> IntOr(lhs, rhs)
      [] func = "IntXor" -> IntXor(lhs, rhs)
      [] func = "IntShl" -> IntShl(types[1], lhs, rhs)
      [] func = "IntShr" -> IntShr(types[1], lhs, rhs)
      [] func = "IntRotl" -> IntRotl(types[1], lhs, rhs)
      [] func = "IntRotr" -> IntRotr(types[1], lhs, rhs)
      [] func = "FloatMin" -> FloatMin(types[1], lhs, rhs)
      [] func = "FloatMax" -> FloatMax(types[1], lhs, rhs)
      [] func = "FloatCopySign" -> FloatCopySign(types[1], lhs, rhs)
      [] func = "Eq" -> Eq(types[1], lhs, rhs)
      [] func = "Ne" -> Ne(types[1], lhs, rhs)
      [] func = "Lt" -> Lt(types[1], lhs, rhs)
      [] func = "Le" -> Le(types[1], lhs, rhs)
      [] func = "Gt" -> Gt(types[1], lhs, rhs)
      [] func = "Ge" -> Ge(types[1], lhs, rhs)
      [] func = "Xchg" -> rhs

TrapFunc(func, types, lhs, rhs) ==
    CASE func = "IntDivS" -> IntDivS(types[1], lhs, rhs)
      [] func = "IntDivU" -> IntDivU(types[1], lhs, rhs)
      [] func = "IntRemS" -> IntRemS(types[1], lhs, rhs)
      [] func = "IntRemU" -> IntRemU(types[1], lhs, rhs)
      [] func = "IntTrunc" -> IntTrunc(types[1], types[2], lhs)

-----------------------------------------------------------------------------
(* Bytes and lanes *)

FromBytes(bytes) ==
    FoldRight(LAMBDA byte, n : n * 2^ByteBits + byte, bytes, 0)
ToBytes(n, count) == [i \in 1 .. count |-> (n \div 2^(ByteBits * (i - 1))) % 2^ByteBits]

LaneBytes(L, v, i) == SubSeq(v, (i - 1) * L.bytes + 1, i * L.bytes)
Lane(L, v, i) == FromBytes(LaneBytes(L, v, i))
LaneCount(L) == v128.bytes \div L.bytes
FromLanes(L, lanes) == FlattenSeq([i \in 1 .. LaneCount(L) |-> ToBytes(lanes[i], L.bytes)])

(* A lane as the argument of a function of type T: C++ extends it by its    *)
(* sign.                                                                    *)
LaneArg(L, T, v, i) == ToRep(T, FromRep(L, Lane(L, v, i)))

SimdUnop(L, func, types, v) ==
    FromLanes(L, [i \in 1 .. LaneCount(L) |->
                     UnopFunc(func, types, LaneArg(L, Last(types), v, i))])
SimdBinop(L, func, types, v, w) ==
    FromLanes(L, [i \in 1 .. LaneCount(L) |->
                     BinopFunc(func, types, LaneArg(L, types[1], v, i),
                               LaneArg(L, types[1], w, i))])

SimdSplat(V, lane_data) == FromLanes(V, [i \in 1 .. LaneCount(V) |-> ToRep(V, lane_data)])
SimdIsLaneTrue(L, v, true_cond) ==
    Bool(Cardinality({i \in 1 .. LaneCount(L) : Lane(L, v, i) # 0}) >= true_cond)
SimdExtractLane(R, T, v, laneidx) == LaneArg(T, R, v, laneidx + 1)
SimdReplaceLane(T, v, lane_idx, lane_val) ==
    FromLanes(T, [i \in 1 .. LaneCount(T) |->
                     IF i = lane_idx + 1 THEN ToRep(T, lane_val) ELSE Lane(T, v, i)])
Shuffle(v1, v2, imm) ==
    [i \in 1 .. 16 |-> IF imm[i] < 16 THEN v1[imm[i] + 1] ELSE v2[imm[i] - 16 + 1]]

(* Mutant: the count is not made smaller than the lane.                     *)
SimdShiftNoModulo(L, func, types, v, shift_count) ==
    SimdBinop(L, func, types, v, SimdSplat([L EXCEPT !.kind = "unsigned"], shift_count))

SimdShift(L, func, types, v, shift_count) ==
    SimdBinop(L, func, types, v,
              SimdSplat([L EXCEPT !.kind = "unsigned"], shift_count % Width(L)))

BitSelect(v1, v2, mask) ==
    SimdBinop(u64, "IntOr", <<u64>>,
              SimdBinop(u64, "IntAnd", <<u64>>, v1, mask),
              SimdBinop(u64, "IntAnd", <<u64>>, v2,
                        SimdUnop(u64, "IntNot", <<u64>>, mask)))

-----------------------------------------------------------------------------
(* Memory.  A state of the thread is its stack, the memory and a result.    *)

Stop(st, trap) == [st EXCEPT !.result = trap]
Popped(st, count) == [st EXCEPT !.stack = SubSeq(@, 1, Len(@) - count)]
Pushed(st, value) == [st EXCEPT !.stack = Append(@, value)]
Pick(st, depth) == st.stack[Len(st.stack) + 1 - depth]
Finish(st, outcome) ==
    IF outcome.trap # "Ok" THEN Stop(st, outcome.trap) ELSE Pushed(st, outcome.value)

GetAccessAddress(st, M, base, offset) ==
    IF base + offset + M.bytes > Len(st.memory) THEN TRAP("MemoryAccessOutOfBounds")
    ELSE Ok(base + offset)

GetAtomicAccessAddress(st, M, base, offset) ==
    LET access == GetAccessAddress(st, M, base, offset)
    IN  IF access.trap = "Ok" /\ access.value % M.bytes # 0
        THEN TRAP("AtomicMemoryAccessUnaligned") ELSE access

Bytes(st, M, address) == SubSeq(st.memory, address + 1, address + M.bytes)
LoadFromMemory(st, M, address) ==
    IF M = v128 THEN Bytes(st, M, address) ELSE FromBytes(Bytes(st, M, address))
Wrapped(M, value) == IF M = v128 THEN value ELSE ToBytes(value, M.bytes)
StoreToMemory(st, M, address, value) ==
    [st EXCEPT !.memory = [i \in DOMAIN @ |->
        IF i > address /\ i <= address + M.bytes THEN Wrapped(M, value)[i - address]
        ELSE @[i]]]
Extended(M, R, value) ==
    IF M = v128 \/ IsFloat(M) THEN value ELSE ToRep(R, FromRep(M, value))

Load(st, M, R, access) ==
    IF access.trap # "Ok" THEN Stop(Popped(st, 1), access.trap)
    ELSE Pushed(Popped(st, 1), Extended(M, R, LoadFromMemory(st, M, access.value)))

Store(st, M, access) ==
    IF access.trap # "Ok" THEN Stop(Popped(st, 2), access.trap)
    ELSE StoreToMemory(Popped(st, 2), M, access.value, Pick(st, 1))

AtomicRmw(st, M, R, func, access) ==
    LET read == LoadFromMemory(st, M, access.value)
        new == BinopFunc(func, <<R>>, read, ToRep(M, Pick(st, 1)))
    IN  IF access.trap # "Ok" THEN Stop(Popped(st, 2), access.trap)
        ELSE Pushed(StoreToMemory(Popped(st, 2), M, access.value, new),
                    Extended(M, R, read))

(* Mutant: the value expected is compared before it is cut to size.         *)
AtomicRmwCmpxchgWide(st, M, R, access) ==
    LET read == LoadFromMemory(st, M, access.value)
        swapped == IF read = Pick(st, 2)
                   THEN StoreToMemory(Popped(st, 3), M, access.value, Pick(st, 1))
                   ELSE Popped(st, 3)
    IN  IF access.trap # "Ok" THEN Stop(Popped(st, 3), access.trap)
        ELSE Pushed(swapped, Extended(M, R, read))

AtomicRmwCmpxchg(st, M, R, access) ==
    LET read == LoadFromMemory(st, M, access.value)
        swapped == IF read = ToRep(M, Pick(st, 2))
                   THEN StoreToMemory(Popped(st, 3), M, access.value, Pick(st, 1))
                   ELSE Popped(st, 3)
    IN  IF access.trap # "Ok" THEN Stop(Popped(st, 3), access.trap)
        ELSE Pushed(swapped, Extended(M, R, read))

-----------------------------------------------------------------------------
(* The cases of Thread::Run, as rows, and what a row does *)

Rows(shape, form, types, names) ==
    {[op |-> <<shape, p[1]>>, form |-> form, func |-> p[2], types |-> types] :
        p \in names}
Row(shape, name, form, func, types) ==
    [op |-> <<shape, name>>, form |-> form, func |-> func, types |-> types]

-----------------------------------------------------------------------------
(* Loads and stores *)

LoadRows ==
    {Row("i32", "load8_s", "Load", "", <<s8, u32>>),
     Row("i32", "load8_u", "Load", "", <<u8, u32>>),
     Row("i32", "load16_s", "Load", "", <<s16, u32>>),
     Row("i32", "load16_u", "Load", "", <<u16, u32>>),
     Row("i64", "load8_s", "Load", "", <<s8, u64>>),
     Row("i64", "load8_u", "Load", "", <<u8, u64>>),
     Row("i64", "load16_s", "Load", "", <<s16, u64>>),
     Row("i64", "load16_u", "Load", "", <<u16, u64>>),
     Row("i64", "load32_s", "Load", "", <<s32, u64>>),
     Row("i64", "load32_u", "Load", "", <<u32, u64>>),
     Row("i32", "load", "Load", "", <<u32, u32>>),
     Row("i64", "load", "Load", "", <<u64, u64>>),
     Row("f32", "load", "Load", "", <<f32, f32>>),
     Row("f64", "load", "Load", "", <<f64, f64>>)}

(* The stores of integers, atomic or not, and the atomic loads have the     *)
(* same sizes.                                                              *)
Sized(name) ==
    {<<"i32", name \o "8", u8, u32>>, <<"i32", name \o "16", u16, u32>>,
     <<"i64", name \o "8", u8, u64>>, <<"i64", name \o "16", u16, u64>>,
     <<"i64", name \o "32", u32, u64>>, <<"i32", name, u32, u32>>,
     <<"i64", name, u64, u64>>}
SizedRows(form, func, sized) ==
    {Row(p[1], p[2], form, func, <<p[3], p[4]>>) : p \in sized}

StoreRows ==
    SizedRows("Store", "", Sized("store"))
    \union {Row("f32", "store", "Store", "", <<f32, f32>>),
            Row("f64", "store", "Store", "", <<f64, f64>>)}

AtomicRows ==
    SizedRows("AtomicLoad", "", Sized("atomic.load"))
    \union SizedRows("AtomicStore", "", Sized("atomic.store"))

AtomicRmwRows ==
    UNION {SizedRows("AtomicRmw", p[2], Sized(p[1])) :
              p \in {<<"rmw.add", "Add">>, <<"rmw.sub", "Sub">>,
                     <<"rmw.and", "IntAnd">>, <<"rmw.or", "IntOr">>,
                     <<"rmw.xor", "IntXor">>, <<"rmw.xchg", "Xchg">>}}

CmpxchgRows == SizedRows("AtomicRmwCmpxchg", "", Sized("rmw.cmpxchg"))

(* Not implemented: they trap.                                              *)
WaitRows ==
    {Row("i32", "atomic.wait", "Wait", "", <<u32, u32>>),
     Row("i64", "atomic.wait", "Wait", "", <<u64, u64>>),
     Row("i32", "atomic.wake", "Wake", "", <<u32, u32>>)}

-----------------------------------------------------------------------------
(* Numbers *)

IntRows(shape, u, s) ==
    Rows(shape, "Binop", <<u>>,
         {<<"add", "Add">>, <<"sub", "Sub">>, <<"mul", "Mul">>,
          <<"and", "IntAnd">>, <<"or", "IntOr">>, <<"xor", "IntXor">>,
          <<"shl", "IntShl">>, <<"shr_u", "IntShr">>, <<"eq", "Eq">>,
          <<"ne", "Ne">>, <<"lt_u", "Lt">>, <<"le_u", "Le">>,
          <<"gt_u", "Gt">>, <<"ge_u", "Ge">>})
    \union Rows(shape, "Binop", <<s>>,
         {<<"shr_s", "IntShr">>, <<"lt_s", "Lt">>, <<"le_s", "Le">>,
          <<"gt_s", "Gt">>, <<"ge_s", "Ge">>})
    \union Rows(shape, "BinopTrap", <<s>>,
         {<<"div_s", "IntDivS">>, <<"rem_s", "IntRemS">>})
    \union Rows(shape, "BinopTrap", <<u>>,
         {<<"div_u", "IntDivU">>, <<"rem_u", "IntRemU">>})
    \union Rows(shape, "Unop", <<u>>,
         {<<"clz", "Clz">>, <<"ctz", "Ctz">>, <<"popcnt", "Popcount">>})
I32Rows == IntRows("i32", u32, s32)
I64Rows == IntRows("i64", u64, s64)

FloatRows(shape, f) ==
    Rows(shape, "Binop", <<f>>,
         {<<"add", "Add">>, <<"sub", "Sub">>, <<"mul", "Mul">>,
          <<"div", "FloatDiv">>, <<"min", "FloatMin">>, <<"max", "FloatMax">>,
          <<"copysign", "FloatCopySign">>, <<"eq", "Eq">>, <<"ne", "Ne">>,
          <<"lt", "Lt">>, <<"le", "Le">>, <<"gt", "Gt">>, <<"ge", "Ge">>})
    \union Rows(shape, "Unop", <<f>>,
         {<<"abs", "FloatAbs">>, <<"neg", "FloatNeg">>, <<"ceil", "FloatCeil">>,
          <<"floor", "FloatFloor">>, <<"trunc", "FloatTrunc">>,
          <<"nearest", "FloatNearest">>, <<"sqrt", "FloatSqrt">>})
F32Rows == FloatRows("f32", f32)
F64Rows == FloatRows("f64", f64)

TruncRowsOf(shape, u, s, f, of) ==
    {Row(shape, "trunc_s/" \o of, "UnopTrap", "IntTrunc", <<s, f>>),
     Row(shape, "trunc_u/" \o of, "UnopTrap", "IntTrunc", <<u, f>>),
     Row(shape, "trunc_s:sat/" \o of, "Unop", "IntTruncSat", <<s, f>>),
     Row(shape, "trunc_u:sat/" \o of, "Unop", "IntTruncSat", <<u, f>>)}
TruncRows ==
    TruncRowsOf("i32", u32, s32, f32, "f32") \union
    TruncRowsOf("i32", u32, s32, f64, "f64") \union
    TruncRowsOf("i64", u64, s64, f32, "f32") \union
    TruncRowsOf("i64", u64, s64, f64, "f64")

ConvertRowsOf(shape, f) ==
    {Row(shape, "convert_s/i32", "Unop", "Convert", <<f, s32>>),
     Row(shape, "convert_u/i32", "Unop", "Convert", <<f, u32>>),
     Row(shape, "convert_s/i64", "Unop", "Convert", <<f, s64>>),
     Row(shape, "convert_u/i64", "Unop", "Convert", <<f, u64>>)}
ConvertRows ==
    ConvertRowsOf("f32", f32) \union ConvertRowsOf("f64", f64) \union
    {Row("i32", "wrap/i64", "Unop", "Convert", <<u32, u64>>),
     Row("i64", "extend_s/i32", "Unop", "Convert", <<u64, s32>>),
     Row("i64", "extend_u/i32", "Unop", "Convert", <<u64, u32>>),
     Row("f32", "demote/f64", "Unop", "Demote", <<f32, f64>>),
     Row("f64", "promote/f32", "Unop", "Convert", <<f64, f32>>),
     Row("f32", "reinterpret/i32", "Unop", "Reinterpret", <<f32, u32>>),
     Row("f64", "reinterpret/i64", "Unop", "Reinterpret", <<f64, u64>>),
     Row("i32", "reinterpret/f32", "Unop", "Reinterpret", <<u32, f32>>),
     Row("i64", "reinterpret/f64", "Unop", "Reinterpret", <<u64, f64>>)}

RotateRows ==
    Rows("i32", "Binop", <<u32>>, {<<"rotr", "IntRotr">>, <<"rotl", "IntRotl">>})
    \union
    Rows("i64", "Binop", <<u64>>, {<<"rotr", "IntRotr">>, <<"rotl", "IntRotl">>})
    \union
    {Row("i32", "eqz", "Unop", "IntEqz", <<u32>>),
     Row("i64", "eqz", "Unop", "IntEqz", <<u64>>),
     Row("i32", "extend8_s", "Unop", "IntExtendS", <<u32, s8>>),
     Row("i32", "extend16_s", "Unop", "IntExtendS", <<u32, s16>>),
     Row("i64", "extend8_s", "Unop", "IntExtendS", <<u64, s8>>),
     Row("i64", "extend16_s", "Unop", "IntExtendS", <<u64, s16>>),
     Row("i64", "extend32_s", "Unop", "IntExtendS", <<u64, s32>>)}

-----------------------------------------------------------------------------
(* v128: the first type of a row is that of the lanes.                      *)

V128Rows ==
    {Row("v128", "load", "Load", "", <<v128, v128>>),
     Row("v128", "store", "Store", "", <<v128, v128>>),
     Row("v128", "not", "SimdUnop", "IntNot", <<u64, u64>>),
     Row("v128", "bitselect", "BitSelect", "", <<u64>>),
     Row("v8x16", "shuffle", "Shuffle", "", <<s8>>)}
    \union Rows("v128", "SimdBinop", <<u64, u64>>,
                {<<"and", "IntAnd">>, <<"or", "IntOr">>, <<"xor", "IntXor">>})

SplatRows ==
    {Row("i8x16", "splat", "Splat", "", <<u8, u32>>),
     Row("i16x8", "splat", "Splat", "", <<u16, u32>>),
     Row("i32x4", "splat", "Splat", "", <<u32, u32>>),
     Row("i64x2", "splat", "Splat", "", <<u64, u64>>),
     Row("f32x4", "splat", "Splat", "", <<f32, f32>>),
     Row("f64x2", "splat", "Splat", "", <<f64, f64>>)}

ExtractRows ==
    {Row("i8x16", "extract_lane_s", "ExtractLane", "", <<s8, s32>>),
     Row("i8x16", "extract_lane_u", "ExtractLane", "", <<u8, s32>>),
     Row("i16x8", "extract_lane_s", "ExtractLane", "", <<s16, s32>>),
     Row("i16x8", "extract_lane_u", "ExtractLane", "", <<u16, s32>>),
     Row("i32x4", "extract_lane", "ExtractLane", "", <<s32, s32>>),
     Row("i64x2", "extract_lane", "ExtractLane", "", <<s64, s64>>),
     Row("f32x4", "extract_lane", "ExtractLane", "", <<s32, s32>>),
     Row("f64x2", "extract_lane", "ExtractLane", "", <<s64, s64>>)}

ReplaceRows ==
    {Row("i8x16", "replace_lane", "ReplaceLane", "", <<s8, s32>>),
     Row("i16x8", "replace_lane", "ReplaceLane", "", <<s16, s32>>),
     Row("i32x4", "replace_lane", "ReplaceLane", "", <<s32, s32>>),
     Row("i64x2", "replace_lane", "ReplaceLane", "", <<s64, s64>>),
     Row("f32x4", "replace_lane", "ReplaceLane", "", <<f32, f32>>),
     Row("f64x2", "replace_lane", "ReplaceLane", "", <<f64, f64>>)}

(* The lanes of a shape, unsigned and signed, and the type that the         *)
(* function computes in.                                                    *)
IntShapes == {<<"i8x16", u8, s8, u32, s32>>, <<"i16x8", u16, s16, u32, s32>>,
              <<"i32x4", u32, s32, u32, s32>>, <<"i64x2", u64, s64, u64, s64>>}

SimdAddRows ==
    UNION {Rows(p[1], "SimdBinop", <<p[2], p[4]>>,
                IF p[1] = "i64x2" THEN {<<"add", "Add">>, <<"sub", "Sub">>}
                ELSE {<<"add", "Add">>, <<"sub", "Sub">>, <<"mul", "Mul">>})
           : p \in IntShapes}
    \union UNION {Rows(p[1], "SimdUnop", <<p[3], p[5]>>, {<<"neg", "IntNeg">>})
                  : p \in IntShapes}

SaturateRows ==
    UNION {{Row(p[1], "add_saturate_s", "SimdBinop", "AddSaturate", <<p[3], s32, p[3]>>),
            Row(p[1], "add_saturate_u", "SimdBinop", "AddSaturate", <<p[2], u32, p[2]>>),
            Row(p[1], "sub_saturate_s", "SimdBinop", "SubSaturate", <<p[3], s32, p[3]>>),
            Row(p[1], "sub_saturate_u", "SimdBinop", "SubSaturate", <<p[2], s32, p[2]>>)}
           : p \in {q \in IntShapes : q[2].bytes < 4}}

SimdShiftRows ==
    UNION {{Row(p[1], "shl", "Shift", "IntShl", <<p[2], p[4]>>),
            Row(p[1], "shr_s", "Shift", "IntShr", <<p[3], p[5]>>),
            Row(p[1], "shr_u", "Shift", "IntShr", <<p[2], p[4]>>)} : p \in IntShapes}

TrueRows ==
    UNION {{Row(p[1], "any_true", "AnyTrue", "", <<p[2]>>),
            Row(p[1], "all_true", "AllTrue", "", <<p[2]>>)} : p \in IntShapes}

SimdCompareRows ==
    UNION {Rows(p[1], "SimdBinop", <<p[3], p[5]>>,
                {<<"eq", "Eq">>, <<"ne", "Ne">>, <<"lt_s", "Lt">>,
                 <<"le_s", "Le">>, <<"gt_s", "Gt">>, <<"ge_s", "Ge">>})
           \union
           Rows(p[1], "SimdBinop", <<p[2], p[4]>>,
                {<<"lt_u", "Lt">>, <<"le_u", "Le">>, <<"gt_u", "Gt">>,
                 <<"ge_u", "Ge">>})
           : p \in {q \in IntShapes : q[2].bytes < 8}}

SimdFloatRows ==
    UNION {Rows(p[1], "SimdBinop", <<p[2], p[3]>>,
                {<<"eq", "Eq">>, <<"ne", "Ne">>, <<"lt", "Lt">>, <<"le", "Le">>,
                 <<"gt", "Gt">>, <<"ge", "Ge">>, <<"min", "FloatMin">>,
                 <<"max", "FloatMax">>, <<"add", "Add">>, <<"sub", "Sub">>,
                 <<"div", "FloatDiv">>, <<"mul", "Mul">>})
           \union
           Rows(p[1], "SimdUnop", <<p[2], p[3]>>,
                {<<"neg", "FloatNeg">>, <<"abs", "FloatAbs">>, <<"sqrt", "FloatSqrt">>})
           : p \in {<<"f32x4", s32, f32>>, <<"f64x2", s64, f64>>}}

SimdConvertRows ==
    {Row("f32x4", "convert_s/i32x4", "SimdUnop", "Convert", <<s32, f32, s32>>),
     Row("f32x4", "convert_u/i32x4", "SimdUnop", "Convert", <<u32, f32, u32>>),
     Row("f64x2", "convert_s/i64x2", "SimdUnop", "Convert", <<s64, f64, s64>>),
     Row("f64x2", "convert_u/i64x2", "SimdUnop", "Convert", <<u64, f64, u64>>),
     Row("i32x4", "trunc_s/f32x4:sat", "SimdUnop", "IntTruncSat", <<s32, s32, f32>>),
     Row("i32x4", "trunc_u/f32x4:sat", "SimdUnop", "IntTruncSat", <<u32, u32, f32>>),
     Row("i64x2", "trunc_s/f64x2:sat", "SimdUnop", "IntTruncSat", <<s64, s64, f64>>),
     Row("i64x2", "trunc_u/f64x2:sat", "SimdUnop", "IntTruncSat", <<u64, u64, f64>>)}

AllRows ==
    UNION {LoadRows, StoreRows, AtomicRows, AtomicRmwRows, CmpxchgRows, WaitRows,
           I32Rows, I64Rows, F32Rows, F64Rows, TruncRows, ConvertRows, RotateRows,
           V128Rows, SplatRows, ExtractRows, ReplaceRows, SimdAddRows,
           SaturateRows, SimdShiftRows, TrueRows, SimdCompareRows, SimdFloatRows,
           SimdConvertRows}

-----------------------------------------------------------------------------
(* What a row does to the state of the thread, with the immediate of the    *)
(* instruction: the offset of an access, a lane or the lanes of a shuffle.  *)

RunMemory(st, row, imm) ==
    LET M == row.types[1]
        R == row.types[2]
        plain(depth) == GetAccessAddress(st, M, Pick(st, depth), imm)
        atomic(depth) == GetAtomicAccessAddress(st, M, Pick(st, depth), imm)
    IN  CASE row.form = "Load" -> Load(st, M, R, plain(1))
          [] row.form = "Store" -> Store(st, M, plain(2))
          [] row.form = "AtomicLoad" -> Load(st, M, R, atomic(1))
          [] row.form = "AtomicStore" -> Store(st, M, atomic(2))
          [] row.form = "AtomicRmw" -> AtomicRmw(st, M, R, row.func, atomic(2))
          [] row.form = "AtomicRmwCmpxchg" -> AtomicRmwCmpxchg(st, M, R, atomic(3))
          [] row.form \in {"Wait", "Wake"} -> Stop(st, "Unreachable")

RunSimd(st, row, imm) ==
    LET L == row.types[1]
        x == Pick(st, 1)
    IN  CASE row.form = "SimdUnop" ->
               Pushed(Popped(st, 1), SimdUnop(L, row.func, Tail(row.types), x))
          [] row.form = "SimdBinop" ->
               Pushed(Popped(st, 2),
                      SimdBinop(L, row.func, Tail(row.types), Pick(st, 2), x))
          [] row.form = "Shift" ->
               Pushed(Popped(st, 2),
                      SimdShift(L, row.func, Tail(row.types), Pick(st, 2), x))
          [] row.form = "Splat" -> Pushed(Popped(st, 1), SimdSplat(L, x))
          [] row.form = "AnyTrue" -> Pushed(Popped(st, 1), SimdIsLaneTrue(L, x, 1))
          [] row.form = "AllTrue" ->
               Pushed(Popped(st, 1), SimdIsLaneTrue(L, x, LaneCount(L)))
          [] row.form = "ExtractLane" ->
               Pushed(Popped(st, 1), SimdExtractLane(row.types[2], L, x, imm))
          [] row.form = "ReplaceLane" ->
               Pushed(Popped(st, 2), SimdReplaceLane(L, Pick(st, 2), imm, x))
          [] row.form = "Shuffle" ->
               Pushed(Popped(st, 2), Shuffle(Pick(st, 2), x, imm))
          [] row.form = "BitSelect" ->
               Pushed(Popped(st, 3), BitSelect(Pick(st, 3), Pick(st, 2), x))

RunRow(st, row, imm) ==
    CASE row.form = "Unop" ->
           Pushed(Popped(st, 1), UnopFunc(row.func, row.types, Pick(st, 1)))
      [] row.form = "UnopTrap" ->
           Finish(Popped(st, 1), TrapFunc(row.func, row.types, Pick(st, 1), 0))
      [] row.form = "Binop" ->
           Pushed(Popped(st, 2),
                  BinopFunc(row.func, row.types, Pick(st, 2), Pick(st, 1)))
      [] row.form = "BinopTrap" ->
           Finish(Popped(st, 2),
                  TrapFunc(row.func, row.types, Pick(st, 2), Pick(st, 1)))
      [] row.form \in {"Load", "Store", "AtomicLoad", "AtomicStore", "AtomicRmw",
                       "AtomicRmwCmpxchg", "Wait", "Wake"} ->
           RunMemory(st, row, imm)
      [] OTHER -> RunSimd(st, row, imm)
=============================================================================
