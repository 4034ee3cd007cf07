------------------------------- MODULE CNumeric -------------------------------
(***************************************************************************)
(* The C that wasm2c writes for an instruction that computes (CWriter,     *)
(* src/c-writer.cc), and what the macros and inline functions that it      *)
(* calls do (src/wasm2c.c.tmpl).                                           *)
(*                                                                         *)
(* An instruction is written as one statement that assigns a stack         *)
(* variable; the definitions say what that statement computes.  The        *)
(* operators of C on the types u32, s32 and so on are those of C++ in      *)
(* InterpNumeric.                                                          *)
(***************************************************************************)
EXTENDS InterpNumeric

CTypeOf(shape) ==
    CASE shape = "i32" -> u32 [] shape = "i64" -> u64
      [] shape = "f32" -> f32 [] shape = "f64" -> f64
SignedType(T) == [T EXCEPT !.kind = "signed"]
GetShiftMask(T) == Width(T) - 1

(* What the writer calls UNIMPLEMENTED, or has no case for.                 *)
NotWritten == TRAP("NotWritten")

-----------------------------------------------------------------------------
(* Macros *)

DIV_S(T, x, y) ==
    LET n == FromRep(SignedType(T), x)
        d == FromRep(SignedType(T), y)
    IN  IF d = 0 THEN TRAP("DIV_BY_ZERO")
        ELSE IF n = MinOf(SignedType(T)) /\ d = -1 THEN TRAP("INT_OVERFLOW")
        ELSE Ok(ToRep(T, Quotient(n, d)))

REM_S(T, x, y) ==
    LET n == FromRep(SignedType(T), x)
        d == FromRep(SignedType(T), y)
    IN  IF d = 0 THEN TRAP("DIV_BY_ZERO")
        ELSE IF n = MinOf(SignedType(T)) /\ d = -1 THEN Ok(0)
        ELSE Ok(ToRep(T, Remainder(n, d)))

DIV_U(x, y) == IF y = 0 THEN TRAP("DIV_BY_ZERO") ELSE Ok(x \div y)
REM_U(x, y) == IF y = 0 THEN TRAP("DIV_BY_ZERO") ELSE Ok(x % y)

(* The second shift is by the mask less y and one more, cut by the mask: it *)
(* is 0 when y is.                                                          *)
OtherShift(T, y) == ToRep(T, GetShiftMask(T) - y + 1) & GetShiftMask(T)
ROTL(T, x, y) ==
    ShiftLeft(T, x, y & GetShiftMask(T)) | (x \div 2^OtherShift(T, y))
ROTR(T, x, y) ==
    (x \div 2^(y & GetShiftMask(T))) | ShiftLeft(T, x, OtherShift(T, y))

FMIN(T, x, y) ==
    LET f == T.format
    IN  IF ~FEq(f, x, x) \/ ~FEq(f, y, y) THEN kQuietNan(f)
        ELSE IF FEq(f, x, 0) /\ FEq(f, y, 0) THEN IF Neg(f, x) THEN x ELSE y
        ELSE IF FLt(f, x, y) THEN x ELSE y

FMAX(T, x, y) ==
    LET f == T.format
    IN  IF ~FEq(f, x, x) \/ ~FEq(f, y, y) THEN kQuietNan(f)
        ELSE IF FEq(f, x, 0) /\ FEq(f, y, 0) THEN IF Neg(f, x) THEN y ELSE x
        ELSE IF FLt(f, y, x) THEN x ELSE y

(* Mutant: the maximum as a double is in range for all.                     *)
BeyondMaxAlways(F, I, x) == FLt(F.format, FromInteger(F.format, MaxOf(I)), x)

(* The comparison with the maximum: a 32 bit integer is exact as a double,  *)
(* the others round up to one that is too large.                            *)
BeyondMax(F, I, x) ==
    LET max == FromInteger(F.format, MaxOf(I))
    IN  \/ FLt(F.format, max, x)
        \/ ~(F.bytes = 8 /\ I.bytes = 4) /\ FEq(F.format, max, x)

TRUNC_S(S, F, x) ==
    IF ~FEq(F.format, x, x) THEN TRAP("INVALID_CONVERSION")
    ELSE IF FLt(F.format, x, FromInteger(F.format, MinOf(S))) \/ BeyondMax(F, S, x)
    THEN TRAP("INT_OVERFLOW")
    ELSE Ok(ToRep(S, ToInteger(F.format, x)))

TRUNC_U(U, F, x) ==
    IF ~FEq(F.format, x, x) THEN TRAP("INVALID_CONVERSION")
    ELSE IF \/ FLt(F.format, x, kNegOne(F.format)) \/ x = kNegOne(F.format)
            \/ BeyondMax(F, U, x)
    THEN TRAP("INT_OVERFLOW")
    ELSE Ok(ToRep(U, ToInteger(F.format, x)))

-----------------------------------------------------------------------------
(* Statements *)

(* x op y with both of the type T.                                          *)
Infix(T, op, x, y) ==
    CASE op = "+" -> Add(T, x, y) [] op = "-" -> Sub(T, x, y)
      [] op = "*" -> Mul(T, x, y) [] op = "/" -> FDiv(T.format, x, y)
      [] op = "&" -> x & y [] op = "|" -> x | y [] op = "^" -> x ^^ y
      [] op = "==" -> Eq(T, x, y) [] op = "!=" -> Ne(T, x, y)
      [] op = "<" -> Lt(T, x, y) [] op = "<=" -> Le(T, x, y)
      [] op = ">" -> Gt(T, x, y) [] op = ">=" -> Ge(T, x, y)

WriteInfixBinaryExpr(T, op, x, y) == Ok(Infix(T, op, x, y))
WriteSignedBinaryExpr(T, op, x, y) == Ok(Infix(SignedType(T), op, x, y))

(* The macro or the function of the C library that is called.               *)
WritePrefixBinaryExpr(T, op, x, y) ==
    CASE op = "DIV_S" -> DIV_S(T, x, y) [] op = "DIV_U" -> DIV_U(x, y)
      [] op = "REM_S" -> REM_S(T, x, y) [] op = "REM_U" -> REM_U(x, y)
      [] op = "ROTL" -> Ok(ROTL(T, x, y)) [] op = "ROTR" -> Ok(ROTR(T, x, y))
      [] op = "FMIN" -> Ok(FMIN(T, x, y)) [] op = "FMAX" -> Ok(FMAX(T, x, y))
      [] op = "copysign" -> Ok(FloatCopySign(T, x, y))

InfixOps == [add |-> "+", sub |-> "-", mul |-> "*", div |-> "/",
             and |-> "&", or |-> "|", xor |-> "^"]
PrefixOps == [div_s |-> "DIV_S", div_u |-> "DIV_U", rem_s |-> "REM_S",
              rem_u |-> "REM_U", rotl |-> "ROTL", rotr |-> "ROTR",
              min |-> "FMIN", max |-> "FMAX", copysign |-> "copysign"]

WriteBinary(T, name, x, y) ==
    CASE name \in DOMAIN InfixOps -> WriteInfixBinaryExpr(T, InfixOps[name], x, y)
      [] name \in DOMAIN PrefixOps -> WritePrefixBinaryExpr(T, PrefixOps[name], x, y)
      [] name = "shl" -> Ok(ShiftLeft(T, x, y & GetShiftMask(T)))
      [] name = "shr_s" ->
           Ok(ToRep(T, FromRep(SignedType(T), x) \div 2^(y & GetShiftMask(T))))
      [] name = "shr_u" -> Ok(x \div 2^(y & GetShiftMask(T)))

CompareOps == [eq |-> "==", ne |-> "!=", lt |-> "<", le |-> "<=", gt |-> ">",
               ge |-> ">=", lt_u |-> "<", le_u |-> "<=", gt_u |-> ">", ge_u |-> ">="]
SignedCompareOps == [lt_s |-> "<", le_s |-> "<=", gt_s |-> ">", ge_s |-> ">="]

WriteCompare(T, name, x, y) ==
    IF name \in DOMAIN SignedCompareOps
    THEN WriteSignedBinaryExpr(T, SignedCompareOps[name], x, y)
    ELSE WriteInfixBinaryExpr(T, CompareOps[name], x, y)

WriteUnary(T, name, x) ==
    CASE name = "clz" -> Ok(IF x = 0 THEN Width(T) ELSE Clz(T, x))
      [] name = "ctz" -> Ok(IF x = 0 THEN Width(T) ELSE Ctz(T, x))
      [] name = "popcnt" -> Ok(Popcount(T, x))
      [] name = "neg" -> Ok(FNeg(T.format, x))
      [] name = "abs" -> Ok(Magnitude(T.format, x))
      [] name = "sqrt" -> Ok(FSqrt(T.format, x))
      [] name = "ceil" -> Ok(FCeil(T.format, x))
      [] name = "floor" -> Ok(FFloor(T.format, x))
      [] name = "trunc" -> Ok(FTrunc(T.format, x))
      [] name = "nearest" -> Ok(FNearest(T.format, x))
      [] name \in {"extend8_s", "extend16_s", "extend32_s"} -> NotWritten

(* The casts: (f32)(s32)x and so on.                                        *)
Casts ==
    {<<"i64", "extend_s/i32", s32>>, <<"i64", "extend_u/i32", u32>>,
     <<"i32", "wrap/i64", u64>>, <<"f32", "demote/f64", f64>>,
     <<"f64", "promote/f32", f32>>}
    \union {<<shape, "convert_s/i32", s32>> : shape \in {"f32", "f64"}}
    \union {<<shape, "convert_u/i32", u32>> : shape \in {"f32", "f64"}}
    \union {<<shape, "convert_s/i64", s64>> : shape \in {"f32", "f64"}}
    \union {<<shape, "convert_u/i64", u64>> : shape \in {"f32", "f64"}}
Reinterprets == {"reinterpret/f32", "reinterpret/f64", "reinterpret/i32", "reinterpret/i64"}

WriteConvert(shape, name, x) ==
    LET T == CTypeOf(shape)
    IN  CASE name = "eqz" -> Ok(Bool(x = 0))
          [] name = "trunc_s/f32" -> TRUNC_S(SignedType(T), f32, x)
          [] name = "trunc_s/f64" -> TRUNC_S(SignedType(T), f64, x)
          [] name = "trunc_u/f32" -> TRUNC_U(T, f32, x)
          [] name = "trunc_u/f64" -> TRUNC_U(T, f64, x)
          [] name \in Reinterprets -> Ok(x)
          [] name \in {"trunc_s:sat/f32", "trunc_s:sat/f64",
                       "trunc_u:sat/f32", "trunc_u:sat/f64"} -> NotWritten
          [] OTHER -> LET cast == CHOOSE c \in Casts : c[1] = shape /\ c[2] = name
                      IN  Ok(Convert(T, cast[3], x))

-----------------------------------------------------------------------------
(* Memory *)

(* The sum of the address and the offset has 32 bits; it is widened after.  *)
Address(base, offset) == ToRep(u32, base + offset)
MEMCHECK(memory, addr, M) == addr + M.bytes > Len(memory)

(* i64.load16_u is written as a call of i32_load16_u.                       *)
LoadTypes ==
    [load8_s |-> s8, load8_u |-> u8, load16_s |-> s16, load16_u |-> u16,
     load32_s |-> s32, load32_u |-> u32]
WriteLoad(shape, name, memory, base, offset) ==
    LET T == CTypeOf(shape)
        M == IF name = "load" THEN T ELSE LoadTypes[name]
        addr == Address(base, offset)
        read == FromBytes(SubSeq(memory, addr + 1, addr + M.bytes))
    IN  IF MEMCHECK(memory, addr, M) THEN TRAP("OOB")
        ELSE Ok(IF IsFloat(M) THEN read ELSE ToRep(T, FromRep(M, read)))

StoreTypes == [store8 |-> u8, store16 |-> u16, store32 |-> u32]
WriteStore(shape, name, memory, base, offset, value) ==
    LET M == IF name = "store" THEN CTypeOf(shape) ELSE StoreTypes[name]
        addr == Address(base, offset)
    IN  IF MEMCHECK(memory, addr, M) THEN TRAP("OOB")
        ELSE Ok(SubSeq(memory, 1, addr) \o ToBytes(ToRep(M, value), M.bytes)
                \o SubSeq(memory, addr + M.bytes + 1, Len(memory)))
=============================================================================
