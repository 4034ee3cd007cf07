--------------------------- MODULE NumericReference ---------------------------
(***************************************************************************)
(* What the instructions that compute are to do, said of their results:    *)
(* digit by digit, by the laws of division, by the order of the numbers,   *)
(* and for the lanes of a vector by what it says of a number.              *)
(*                                                                         *)
(* A name with _s is about signed numbers; a comparison gives 1 or 0, also *)
(* in a lane.                                                              *)
(***************************************************************************)
EXTENDS InterpTrace

ShapeType(shape) ==
    CASE shape \in {"i32", "i32x4"} -> u32 [] shape \in {"i64", "i64x2", "v128"} -> u64
      [] shape \in {"f32", "f32x4"} -> f32 [] shape \in {"f64", "f64x2"} -> f64
      [] shape \in {"i8x16", "v8x16"} -> u8 [] shape = "i16x8" -> u16

(* The type of what is converted: Trace shows it.                           *)
SourceType(op) ==
    CASE op \in OfF32Ops -> f32 [] op \in OfF64Ops -> f64
      [] op \in OfI32Ops -> u32 [] op \in OfI64Ops -> u64
      [] op[2] \in {"convert_s/i32x4", "convert_u/i32x4"} -> u32
      [] op[2] \in {"convert_s/i64x2", "convert_u/i64x2"} -> u64
      [] op[2] \in {"trunc_s/f32x4:sat", "trunc_u/f32x4:sat"} -> f32
      [] op[2] \in {"trunc_s/f64x2:sat", "trunc_u/f64x2:sat"} -> f64

SignedNames ==
    {"div_s", "rem_s", "shr_s", "lt_s", "le_s", "gt_s", "ge_s", "add_saturate_s",
     "sub_saturate_s", "trunc_s/f32", "trunc_s/f64", "trunc_s:sat/f32", "trunc_s:sat/f64",
     "trunc_s/f32x4:sat", "trunc_s/f64x2:sat", "convert_s/i32", "convert_s/i64",
     "convert_s/i32x4", "convert_s/i64x2", "extend_s/i32", "load8_s", "load16_s",
     "load32_s", "extract_lane_s"}
Of(T, name) == IF name \in SignedNames THEN [T EXCEPT !.kind = "signed"] ELSE T
Value(T, name, x) == FromRep(Of(T, name), x)

Digit(x, i) == (x \div 2^i) % 2
Digits(T) == 0 .. (Width(T) - 1)
Within(T, n) == n >= MinOf(T) /\ n <= MaxOf(T)
Clamped(T, n) == IF n < MinOf(T) THEN MinOf(T) ELSE IF n > MaxOf(T) THEN MaxOf(T) ELSE n
Abs(n) == IF n < 0 THEN -n ELSE n

-----------------------------------------------------------------------------
(* Integers of type T *)

DivisionLaw(n, d, q, r) ==
    n = q * d + r /\ Abs(r) < Abs(d) /\ (r # 0 => (r < 0) = (n < 0))

ShiftedTo(T, name, x, k, i) ==
    CASE name = "shl" -> IF i >= k THEN Digit(x, i - k) ELSE 0
      [] name = "shr_u" -> IF i + k < Width(T) THEN Digit(x, i + k) ELSE 0
      [] name = "shr_s" -> Digit(x, Min({i + k, Width(T) - 1}))
      [] name = "rotl" -> Digit(x, (i - k) % Width(T))
      [] name = "rotr" -> Digit(x, (i + k) % Width(T))

Bitwise(name, a, b) ==
    CASE name = "and" -> a * b [] name = "or" -> Max({a, b}) [] name = "xor" -> (a + b) % 2

Compared(name, m, n) ==
    CASE name = "eq" -> m = n [] name = "ne" -> m # n
      [] name \in {"lt", "lt_s", "lt_u"} -> m < n [] name \in {"le", "le_s", "le_u"} -> m <= n
      [] name \in {"gt", "gt_s", "gt_u"} -> m > n [] name \in {"ge", "ge_s", "ge_u"} -> m >= n
Comparisons == {"eq", "ne", "lt", "lt_s", "lt_u", "le", "le_s", "le_u", "gt", "gt_s",
                "gt_u", "ge", "ge_s", "ge_u"}
Shifts == {"shl", "shr_u", "shr_s", "rotl", "rotr"}

IntBinary(T, name, x, y, out) ==
    LET m == Value(T, name, x)
        n == Value(T, name, y)
        r == out.value
    IN  CASE name \in {"div_s", "div_u"} ->
               IF n = 0 THEN out.trap = "IntegerDivideByZero"
               ELSE IF name = "div_s" /\ m = MinOf(Of(T, name)) /\ n = -1
               THEN out.trap = "IntegerOverflow"
               ELSE /\ out.trap = "Ok"
                    /\ LET q == Value(T, name, r) IN DivisionLaw(m, n, q, m - q * n)
          [] name \in {"rem_s", "rem_u"} ->
               IF n = 0 THEN out.trap = "IntegerDivideByZero"
               ELSE /\ out.trap = "Ok"
                    /\ LET rem == Value(T, name, r)
                       IN  (m - rem) % Abs(n) = 0 /\ Abs(rem) < Abs(n)
                           /\ (rem # 0 => (rem < 0) = (m < 0))
          [] name \in Shifts ->
               \A i \in Digits(T) :
                  Digit(r, i) = ShiftedTo(T, name, x, y % Width(T), i)
          [] name \in {"and", "or", "xor"} ->
               \A i \in Digits(T) : Digit(r, i) = Bitwise(name, Digit(x, i), Digit(y, i))
          [] name \in Comparisons -> r = IF Compared(name, m, n) THEN 1 ELSE 0
          [] name = "add" -> (r - x - y) % 2^Width(T) = 0
          [] name = "sub" -> (r - x + y) % 2^Width(T) = 0
          [] name = "mul" -> (r - Value(T, "div_s", x) * Value(T, "div_s", y)) % 2^Width(T) = 0
          [] name \in {"add_saturate_s", "add_saturate_u"} ->
               Value(T, name, r) = Clamped(Of(T, name), m + n)
          [] name \in {"sub_saturate_s", "sub_saturate_u"} ->
               Value(T, name, r) = Clamped(Of(T, name), m - n)

IntUnary(T, name, x, r) ==
    CASE name = "clz" ->
           r = Cardinality({i \in Digits(T) : \A j \in Digits(T) : j >= i => Digit(x, j) = 0})
      [] name = "ctz" ->
           r = Cardinality({i \in Digits(T) : \A j \in Digits(T) : j <= i => Digit(x, j) = 0})
      [] name = "popcnt" -> r = FoldSet(LAMBDA i, n : n + Digit(x, i), 0, Digits(T))
      [] name = "eqz" -> r = IF x = 0 THEN 1 ELSE 0
      [] name = "neg" -> (r + x) % 2^Width(T) = 0
      [] name = "not" -> \A i \in Digits(T) : Digit(r, i) = 1 - Digit(x, i)
      [] name = "extend8_s" -> FromRep([T EXCEPT !.kind = "signed"], r) = FromRep(s8, ToRep(s8, x))
      [] name = "extend16_s" -> FromRep([T EXCEPT !.kind = "signed"], r) = FromRep(s16, ToRep(s16, x))
      [] name = "extend32_s" -> FromRep([T EXCEPT !.kind = "signed"], r) = FromRep(s32, ToRep(s32, x))

-----------------------------------------------------------------------------
(* Floats of type T *)

(* A NaN for a NaN, which the interpreter makes quiet.                      *)
SameFloat(T, x, r) ==
    IF IsNan(T.format, x) THEN IsArithmeticNan(T.format, r) /\ IsNan(T.format, r) ELSE r = x

(* -0 is below +0.                                                          *)
AtMost(f, x, y) ==
    Place(f, x) < Place(f, y) \/ (Place(f, x) = Place(f, y) /\ (Neg(f, x) \/ ~Neg(f, y)))

FloatBinary(T, name, x, y, r) ==
    LET f == T.format
        ordered == Ordered(f, x, y)
    IN  CASE name \in Comparisons ->
               r = IF ordered THEN IF Compared(name, Place(f, x), Place(f, y)) THEN 1 ELSE 0
                   ELSE IF name = "ne" THEN 1 ELSE 0
          [] name \in {"min", "max"} ->
               IF ~ordered THEN SameFloat(T, kQuietNan(f), r)
               ELSE /\ r \in {x, y}
                    /\ \A z \in {x, y} : IF name = "min" THEN AtMost(f, r, z) ELSE AtMost(f, z, r)
          [] name = "copysign" -> Magnitude(f, r) = Magnitude(f, x) /\ Neg(f, r) = Neg(f, y)
          [] name = "add" -> SameFloat(T, FAdd(f, x, y), r)
          [] name = "sub" -> SameFloat(T, FSub(f, x, y), r)
          [] name = "mul" -> SameFloat(T, FMul(f, x, y), r)
          [] name = "div" -> SameFloat(T, FDiv(f, x, y), r)

FloatUnary(T, name, x, r) ==
    LET f == T.format
    IN  CASE name = "abs" -> ~Neg(f, r) /\ Magnitude(f, r) = Magnitude(f, x)
          [] name = "neg" -> Neg(f, r) # Neg(f, x) /\ Magnitude(f, r) = Magnitude(f, x)
          [] name = "sqrt" -> SameFloat(T, FSqrt(f, x), r)
          [] name = "ceil" -> SameFloat(T, FCeil(f, x), r)
          [] name = "floor" -> SameFloat(T, FFloor(f, x), r)
          [] name = "trunc" -> SameFloat(T, FTrunc(f, x), r)
          [] name = "nearest" -> SameFloat(T, FNearest(f, x), r)

-----------------------------------------------------------------------------
(* Conversions of x, which has type S, to type T *)

(* A float may be converted that is between the ends; of one beyond them    *)
(* whose fraction is cut off the code says that it is too large.            *)
Between(T, f, x) ==
    /\ ~IsInf(f, x)
    /\ Within(T, ToInteger(f, x))
    /\ HasFraction(f, x) =>
          ToInteger(f, x) # (IF Neg(f, x) THEN IF MinOf(T) = 0 THEN 1 ELSE MinOf(T)
                             ELSE MaxOf(T))

Truncated(T, S, x, out) ==
    IF IsNan(S.format, x) THEN out.trap = "InvalidConversionToInteger"
    ELSE IF Between(T, S.format, x)
    THEN out.trap = "Ok" /\ FromRep(T, out.value) = ToInteger(S.format, x)
    ELSE out.trap = "IntegerOverflow"

TruncatedSat(T, S, x, r) ==
    FromRep(T, r) = IF IsNan(S.format, x) THEN 0
                    ELSE IF IsInf(S.format, x)
                    THEN IF Neg(S.format, x) THEN MinOf(T) ELSE MaxOf(T)
                    ELSE Clamped(T, ToInteger(S.format, x))

Converted(T, S, name, x, out) ==
    CASE name \in {"trunc_s/f32", "trunc_u/f32", "trunc_s/f64", "trunc_u/f64"} ->
           Truncated(Of(T, name), S, x, out)
      [] IsFloat(S) /\ ~IsFloat(T) /\ name \notin {"reinterpret/f32", "reinterpret/f64"} ->
           TruncatedSat(Of(T, name), S, x, out.value)
      [] name \in {"reinterpret/f32", "reinterpret/f64", "reinterpret/i32", "reinterpret/i64"} ->
           out.value = x
      [] IsFloat(T) /\ IsFloat(S) -> SameFloat(T, FConvert(S.format, T.format, x), out.value)
      [] IsFloat(T) -> out.value = FromInteger(T.format, Value(S, name, x))
      [] OTHER -> (out.value - Value(S, name, x)) % 2^Width(T) = 0

IsConversion(op) ==
    \/ op \in OfF32Ops \union OfF64Ops \union OfI32Ops \union OfI64Ops
    \/ op[2] \in {"convert_s/i32x4", "convert_u/i32x4", "convert_s/i64x2", "convert_u/i64x2",
                  "trunc_s/f32x4:sat", "trunc_u/f32x4:sat", "trunc_s/f64x2:sat",
                  "trunc_u/f64x2:sat"}

UnaryMeets(op, x, out) ==
    LET T == ShapeType(op[1])
    IN  IF IsConversion(op) THEN Converted(T, SourceType(op), op[2], x, out)
        ELSE IF IsFloat(T) THEN FloatUnary(T, op[2], x, out.value)
        ELSE IntUnary(T, op[2], x, out.value)

BinaryMeets(op, x, y, out) ==
    LET T == ShapeType(op[1])
    IN  IF IsFloat(T) THEN FloatBinary(T, op[2], x, y, out.value)
        ELSE IntBinary(T, op[2], x, y, out)
=============================================================================
