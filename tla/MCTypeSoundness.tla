--------------------------- MODULE MCTypeSoundness ----------------------------
(* Small instances of TypeSoundness for TLC.                                *)
EXTENDS TypeSoundness

CONSTANT I64

Sig(ps, rs) == [params |-> ps, results |-> rs]

(* Constants of two types, a store, and a conversion or lane of a vector.   *)
MCOpcodes == {[params |-> <<>>, result |-> I32],
              [params |-> <<>>, result |-> I64],
              [params |-> <<I32, I64>>, result |-> Void],
              [params |-> <<I64>>, result |-> I32]}

(* A plain block, and with multi_value one with a parameter and a result.   *)
MCBlockTypes == {Sig(<<>>, <<>>), Sig(<<I32>>, <<I32>>)}
MCFuncTypes == {Sig(<<I64, I32>>, <<I32>>)}
MCResults == {<<I32>>}
MCExceptSigs == {<<I32>>}

=============================================================================
