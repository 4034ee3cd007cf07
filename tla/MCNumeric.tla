------------------------------- MODULE MCNumeric ------------------------------
(***************************************************************************)
(* A byte of 2 bits: 8 and 16 bit integers stand for those of 32 and 64    *)
(* bits, and floats have 5 and 6 bits of exponent.  As in the code, an i32 *)
(* is exact as an f64 and no other integer as a float, every integer is    *)
(* in the range of the floats, and an f64 rounds to an f32.                *)
(***************************************************************************)
EXTENDS Numeric

MCF32 == [exp |-> 5, sig |-> 2]
MCF64 == [exp |-> 6, sig |-> 9]

(* The ends, zero, one and minus one of the integers.                       *)
Ends(w) == {0, 1, 3, w + 1, 2^(w - 1) - 1, 2^(w - 1), 2^w - 2, 2^w - 1}

Both(f, magnitudes) == magnitudes \union {kSignMask(f) + m : m \in magnitudes}
Special(f) == {0, 1, kInf(f) - 1, kInf(f), kInf(f) + 1}
Ones(f) == {Power(f, 0), Power(f, 0) + 2^(f.sig - 1), Power(f, 1) + 2^(f.sig - 2), Power(f, -1)}
(* Around the ends of the integers, and of the f32.                         *)
Around(f) == UNION {{Power(f, k) - 1, Power(f, k)} : k \in {7, 8, 15, 16}} \ {kInf(f) + 1}
AroundF64 == {Power(F64, 7) - 4, Power(F64, 7) - 6, Power(F64, 8) - 2,
              Power(F64, 8) - 3, F32Max, F32Max + 1, F32MaxEnd - 1, F32MaxEnd}

Repeated(s) == [i \in 1 .. 16 |-> s[((i - 1) % Len(s)) + 1]]
Vectors == {Repeated(<<0>>), Repeated(<<3>>), Repeated(<<0, 0, 0, 2, 1>>),
            Repeated(<<3, 3, 3, 1>>), Repeated(<<1, 2, 3>>),
            Repeated(<<0, 0, 0, 2, 0, 0, 1, 3>>)}

MCOperands ==
    [i32 |-> Ends(8), i64 |-> Ends(16),
     f32 |-> Both(F32, Special(F32) \union Ones(F32) \union Around(F32)),
     f64 |-> Both(F64, Special(F64) \union Ones(F64) \union Around(F64) \union AroundF64),
     v128 |-> Vectors]

MCOffsets == {0, 1, 253}
MCShuffleLanes == {[i \in 1 .. 16 |-> 2 * i - 1], [i \in 1 .. 16 |-> 32 - i]}
MCMemory == SubSeq(Repeated(<<1, 2, 3, 0, 2>>) \o Repeated(<<3, 0, 1>>), 1, 20)
=============================================================================
