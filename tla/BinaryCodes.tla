----------------------------- MODULE BinaryCodes ------------------------------
(***************************************************************************)
(* The encoding of numbers and the codes of the binary format              *)
(* (src/leb128.cc, src/binary.h, src/opcode.def), shared by the writer and *)
(* the readers.                                                            *)
(*                                                                         *)
(* A byte is a number below 2 * Base.  A digit of a LEB128 is a byte below *)
(* Base, the bytes from Base on continue (Base is 128 in the code).  A     *)
(* LEB128 has at most MaxLeb digits, the last of them below TopDigit (5    *)
(* and 16 in the code).  LebSizeGuess digits are set aside for a size that *)
(* is not yet known (LEB_SECTION_SIZE_GUESS, 1 in the code).               *)
(***************************************************************************)
EXTENDS Integers, Sequences, SequencesExt, FiniteSetsExt

CONSTANTS Base, MaxLeb, TopDigit, LebSizeGuess

ASSUME CodesAssumption ==
    /\ Base \in Nat \ {0} /\ MaxLeb \in Nat \ {0}
    /\ TopDigit \in 1 .. Base
    /\ LebSizeGuess \in 1 .. MaxLeb

Bytes == 0 .. 2 * Base - 1

(* UINT32_MAX *)
MaxU32 == TopDigit * Base^(MaxLeb - 1) - 1

U32Leb128Length(value) == Min({n \in 1 .. MaxLeb : value < Base^n})

(* Digits of a number, the least one first.                                 *)
Leb(value, n) ==
    [i \in 1 .. n |-> ((value \div Base^(i - 1)) % Base)
                      + (IF i < n THEN Base ELSE 0)]

U32(value) == Leb(value, U32Leb128Length(value))
FixedU32(value) == Leb(value, MaxLeb)

S32(value) ==
    LET half(n) == Base^n \div 2
        n == Min({k \in 1 .. MaxLeb : -half(k) <= value /\ value < half(k)})
    IN  Leb(value % Base^n, n)

(* Vectors are preceded by their length.                                    *)
Counted(items) == U32(Len(items)) \o FlattenSeq(items)

-----------------------------------------------------------------------------
Custom == 0
Type == 1
Import == 2
Function == 3
Table == 4
Memory == 5
Global == 6
Export == 7
Start == 8
Elem == 9
Code == 10
Data == 11
BinarySectionCount == 12

(* ExternalKind                                                             *)
KindFunc == 0
KindTable == 1
KindMemory == 2
KindGlobal == 3
KindExcept == 4

(* SymbolType, and the RelocTypes of indexes and of those with an addend.   *)
SymbolFunction == 0
SymbolData == 1
SymbolGlobal == 2
SymbolSection == 3
(* WABT_SYMBOL_FLAG_UNDEFINED                                               *)
Undefined == 1
FuncIndexLEB == 0
GlobalIndexLEB == 7
RelocsWithAddend == {3, 4, 5, 8, 9}

(* The first three are subsections of the names, the others of the linking  *)
(* section.                                                                 *)
ModuleNames == 0
FunctionNames == 1
LocalNames == 2
SegmentInfo == 5
InitFunctions == 6
SymbolTable == 8

(* The names of the custom sections that mean something to the reader; a    *)
(* name is a string of at most one character.                               *)
SectionName == <<1>>
SectionReloc == <<2>>
SectionLinking == <<3>>
SectionException == <<4>>

(* Types are negative numbers; the others are type indexes.                 *)
I32 == -1
I64 == -2
Anyfunc == -3
Func == -4
Void == -5

(* One opcode for each form of immediates; the SIMD ones have a second code.*)
SimdCodes == 0 .. 1

Op == [unreachable |-> 0, nop |-> 1, block |-> 2, loop |-> 3, if |-> 4,
       else |-> 5, try |-> 6, catch |-> 7, throw |-> 8, if_except |-> 9,
       end |-> 10, br |-> 11, br_table |-> 12, call |-> 13,
       call_indirect |-> 14, get_global |-> 15, load |-> 16,
       memory_size |-> 17, i32_const |-> 18, i64_const |-> 19, simd |-> 20]

=============================================================================
