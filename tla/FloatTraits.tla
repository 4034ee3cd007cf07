----------------------------- MODULE FloatTraits ------------------------------
(***************************************************************************)
(* The bits and the arithmetic of the numbers of the interpreter           *)
(* (FloatTraits and IsConversionInRange, src/interp.cc).                   *)
(*                                                                         *)
(* A byte has ByteBits bits (8 in the code), and the sizes in bytes are    *)
(* those of the code.  A float is its bits, a number; its format says how  *)
(* many bits the exponent and the significand have (kSigBits).             *)
(***************************************************************************)
EXTENDS Integers, FiniteSetsExt

CONSTANTS ByteBits, F32, F64    \* F32 and F64 are formats: [exp, sig]

ASSUME FormatsAssumption ==
    /\ ByteBits \in Nat \ {0}
    /\ F32.exp \in Nat \ {0} /\ F32.sig \in Nat \ {0}
    /\ F64.exp \in Nat \ {0} /\ F64.sig \in Nat \ {0}
    /\ 1 + F32.exp + F32.sig = 4 * ByteBits
    /\ 1 + F64.exp + F64.sig = 8 * ByteBits

Bias(f) == 2^(f.exp - 1) - 1
kSignMask(f) == 2^(f.exp + f.sig)
kNegZero(f) == kSignMask(f)
kInf(f) == (2^f.exp - 1) * 2^f.sig
kNegInf(f) == kSignMask(f) + kInf(f)
kQuietNanBit(f) == 2^(f.sig - 1)
kQuietNan(f) == kInf(f) + kQuietNanBit(f)
kQuietNegNan(f) == kSignMask(f) + kQuietNan(f)

(* The bits of 2^k, and of -1.                                              *)
Power(f, k) == (Bias(f) + k) * 2^f.sig
kNegOne(f) == kSignMask(f) + Power(f, 0)

IsNan(f, bits) ==
    (bits > kInf(f) /\ bits < kNegZero(f)) \/ bits > kNegInf(f)

IsZero(f, bits) == bits \in {0, kNegZero(f)}

IsCanonicalNan(f, bits) == bits \in {kQuietNan(f), kQuietNegNan(f)}

(* All the bits of kQuietNan are set: they are the topmost below the sign.  *)
IsArithmeticNan(f, bits) == bits % kSignMask(f) >= kQuietNan(f)

-----------------------------------------------------------------------------
(* The floats that can be converted to an integer of the given width.  The  *)
(* largest that can is the one below the first that is too large; for 32    *)
(* bit integers and doubles the code has the largest integer instead.       *)

HoldsIntegers(f, width) == f.sig >= width

InRangeSigned(f, width, bits) ==
    \/ IF HoldsIntegers(f, width)
       THEN bits <= Power(f, width - 1) - 2^(f.sig - width + 2)
       ELSE bits < Power(f, width - 1)
    \/ /\ bits >= kNegZero(f)
       /\ bits <= kSignMask(f) + Power(f, width - 1)

InRangeUnsigned(f, width, bits) ==
    \/ IF HoldsIntegers(f, width)
       THEN bits <= Power(f, width) - 2^(f.sig - width + 1)
       ELSE bits < Power(f, width)
    \/ bits >= kNegZero(f) /\ bits < kNegOne(f)

(* FLT_MAX as a double, and the doubles that round to it.                   *)
F32Max == Power(F64, Bias(F32) + 1) - 2^(F64.sig - F32.sig)
F32MaxEnd == Power(F64, Bias(F32) + 1) - 2^(F64.sig - F32.sig - 1)

IsConversionToF32InRange(bits) ==
    \/ bits <= F32Max
    \/ bits >= kNegZero(F64) /\ bits <= kSignMask(F64) + F32Max

IsInRangeF64DemoteF32RoundToF32Max(bits) == bits > F32Max /\ bits < F32MaxEnd

IsInRangeF64DemoteF32RoundToNegF32Max(bits) ==
    bits > kSignMask(F64) + F32Max /\ bits < kSignMask(F64) + F32MaxEnd

-----------------------------------------------------------------------------
(* The arithmetic of floats that the compiler and the C library provide:    *)
(* the operators of float and double, sqrt, ceil, floor, trunc, nearbyint   *)
(* and the conversions, with IEEE rounding to the nearest, ties to even.    *)
(*                                                                          *)
(* A finite float is the number (-1)^neg * m * 2^e.  An operation computes  *)
(* its result exactly, or far enough that a last odd digit stands for what  *)
(* is left (as in Divided), and Rounded makes a float of it.  All NaNs      *)
(* that an operation makes are one.                                         *)

Neg(f, bits) == bits >= kSignMask(f)
Magnitude(f, bits) == bits % kSignMask(f)
IsInf(f, bits) == Magnitude(f, bits) = kInf(f)

LeastExponent(f) == 1 - Bias(f) - f.sig

Significand(f, bits) ==
    LET m == Magnitude(f, bits) IN IF m < 2^f.sig THEN m ELSE (m % 2^f.sig) + 2^f.sig

Exponent(f, bits) ==
    LeastExponent(f) - 1 + Max({Magnitude(f, bits) \div 2^f.sig, 1})

BitLength(m) == CHOOSE n \in 0 .. 30 : m < 2^n /\ (n > 0 => m >= 2^(n - 1))

Signed(f, neg, magnitude) == IF neg THEN kSignMask(f) + magnitude ELSE magnitude

(* m * 2^-shift, rounded.                                                   *)
ShiftedRight(m, shift) ==
    LET unit == 2^(IF shift > 30 THEN 30 ELSE shift)
        rest == m % unit
    IN  (m \div unit)
        + IF 2 * rest > unit \/ (2 * rest = unit /\ (m \div unit) % 2 = 1)
          THEN 1 ELSE 0

Rounded(f, neg, m, e) ==
    LET q == Max({BitLength(m) + e - (f.sig + 1), LeastExponent(f)})
        digits == IF q > e THEN ShiftedRight(m, q - e) ELSE m * 2^(e - q)
        bits == (q - LeastExponent(f)) * 2^f.sig + digits
    IN  Signed(f, neg, IF m = 0 THEN 0 ELSE IF bits > kInf(f) THEN kInf(f) ELSE bits)

-----------------------------------------------------------------------------
(* Comparisons: a float that is no NaN has a place in the order.            *)

Place(f, bits) ==
    IF Neg(f, bits) THEN -Magnitude(f, bits) ELSE Magnitude(f, bits)

Ordered(f, a, b) == ~IsNan(f, a) /\ ~IsNan(f, b)
FEq(f, a, b) == Ordered(f, a, b) /\ Place(f, a) = Place(f, b)
FLt(f, a, b) == Ordered(f, a, b) /\ Place(f, a) < Place(f, b)

-----------------------------------------------------------------------------
(* Addition: both are brought to the lesser exponent; of a number that is   *)
(* much smaller than the other only the sign counts.                        *)

SignedValue(f, bits, e) ==
    LET shift == Exponent(f, bits) - e
        m == IF shift >= 0 THEN Significand(f, bits) * 2^shift
             ELSE IF Significand(f, bits) = 0 THEN 0 ELSE 1
    IN  IF Neg(f, bits) THEN -m ELSE m

FiniteSum(f, a, b) ==
    LET top == Max({Exponent(f, a), Exponent(f, b)})
        e == Max({Min({Exponent(f, a), Exponent(f, b)}), top - (f.sig + 4)})
        sum == SignedValue(f, a, e) + SignedValue(f, b, e)
    IN  IF sum = 0 THEN Signed(f, Neg(f, a) /\ Neg(f, b), 0)
        ELSE Rounded(f, sum < 0, IF sum < 0 THEN -sum ELSE sum, e)

FAdd(f, a, b) ==
    IF ~Ordered(f, a, b) THEN kQuietNan(f)
    ELSE IF IsInf(f, a) /\ IsInf(f, b) /\ a # b THEN kQuietNan(f)
    ELSE IF IsInf(f, a) THEN a ELSE IF IsInf(f, b) THEN b
    ELSE FiniteSum(f, a, b)

FNeg(f, a) == Signed(f, ~Neg(f, a), Magnitude(f, a))
FSub(f, a, b) == IF IsNan(f, b) THEN kQuietNan(f) ELSE FAdd(f, a, FNeg(f, b))

FMul(f, a, b) ==
    LET neg == Neg(f, a) # Neg(f, b)
    IN  IF ~Ordered(f, a, b) THEN kQuietNan(f)
        ELSE IF IsInf(f, a) \/ IsInf(f, b)
        THEN IF IsZero(f, a) \/ IsZero(f, b) THEN kQuietNan(f)
             ELSE Signed(f, neg, kInf(f))
        ELSE Rounded(f, neg, Significand(f, a) * Significand(f, b),
                     Exponent(f, a) + Exponent(f, b))

Divided(f, neg, m, n, e) ==
    LET k == f.sig + 3 + Max({0, BitLength(n) - BitLength(m)})
        odd == IF (m * 2^k) % n = 0 THEN 0 ELSE 1
    IN  Rounded(f, neg, 2 * ((m * 2^k) \div n) + odd, e - k - 1)

FDiv(f, a, b) ==
    LET neg == Neg(f, a) # Neg(f, b)
    IN  IF ~Ordered(f, a, b) THEN kQuietNan(f)
        ELSE IF IsInf(f, a)
        THEN IF IsInf(f, b) THEN kQuietNan(f) ELSE Signed(f, neg, kInf(f))
        ELSE IF IsInf(f, b) THEN Signed(f, neg, 0)
        ELSE IF IsZero(f, b)
        THEN IF IsZero(f, a) THEN kQuietNan(f) ELSE Signed(f, neg, kInf(f))
        ELSE Divided(f, neg, Significand(f, a), Significand(f, b),
                     Exponent(f, a) - Exponent(f, b))

(* The largest integer whose square is at most n.                           *)
IntegerRoot(n) == CHOOSE r \in 0 .. 2^13 : r * r <= n /\ n < (r + 1) * (r + 1)

FSqrt(f, a) ==
    LET m == Significand(f, a)
        wide == 2 * (f.sig + 2) - BitLength(m)
        k == wide + ((Exponent(f, a) - wide) % 2)
        root == IntegerRoot(m * 2^k)
        odd == IF root * root = m * 2^k THEN 0 ELSE 1
    IN  IF IsNan(f, a) \/ (Neg(f, a) /\ ~IsZero(f, a)) THEN kQuietNan(f)
        ELSE IF IsInf(f, a) \/ IsZero(f, a) THEN a
        ELSE Rounded(f, FALSE, 2 * root + odd, ((Exponent(f, a) - k) \div 2) - 1)

-----------------------------------------------------------------------------
(* Integers *)

(* The integer part of a finite float, without its sign; beyond all         *)
(* integers (m * 2^20) it is cut.                                           *)
IntegerPart(f, a) ==
    LET e == Exponent(f, a)
    IN  IF e >= 0 THEN Significand(f, a) * 2^Min({e, 20})
        ELSE IF -e > f.sig THEN 0 ELSE Significand(f, a) \div 2^(-e)

HasFraction(f, a) ==
    LET e == Exponent(f, a)
    IN  /\ ~IsZero(f, a) /\ e < 0
        /\ -e > f.sig \/ Significand(f, a) % 2^(-e) # 0

(* The float to an integral one: towards zero, or a step away from it.      *)
Integral(f, a, away) ==
    IF IsNan(f, a) THEN kQuietNan(f)
    ELSE IF IsInf(f, a) \/ ~HasFraction(f, a) THEN a
    ELSE Rounded(f, Neg(f, a), IntegerPart(f, a) + IF away THEN 1 ELSE 0, 0)

FTrunc(f, a) == Integral(f, a, FALSE)
FCeil(f, a) == Integral(f, a, ~Neg(f, a))
FFloor(f, a) == Integral(f, a, Neg(f, a))
FNearest(f, a) ==
    IF IsNan(f, a) \/ IsInf(f, a) \/ ~HasFraction(f, a) THEN Integral(f, a, FALSE)
    ELSE Rounded(f, Neg(f, a), ShiftedRight(Significand(f, a), -Exponent(f, a)), 0)

(* An integer to a float, and a float in the range of integers to one.      *)
FromInteger(f, n) == Rounded(f, n < 0, IF n < 0 THEN -n ELSE n, 0)
ToInteger(f, a) == IF Neg(f, a) THEN -IntegerPart(f, a) ELSE IntegerPart(f, a)

(* A float of another format.                                               *)
FConvert(from, to, a) ==
    IF IsNan(from, a) THEN kQuietNan(to)
    ELSE IF IsInf(from, a) THEN Signed(to, Neg(from, a), kInf(to))
    ELSE Rounded(to, Neg(from, a), Significand(from, a), Exponent(from, a))
=============================================================================
