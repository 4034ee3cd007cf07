---------------------------- MODULE MCBinaryFormat ----------------------------
(***************************************************************************)
(* Three modules for BinaryFormat: control flow, imports and segments, and *)
(* names with relocations.                                                 *)
(***************************************************************************)
EXTENDS BinaryFormat

Empty == [types |-> <<>>, imports |-> <<>>, funcs |-> <<>>, tables |-> <<>>,
          memories |-> <<>>, globals |-> <<>>, exports |-> <<>>,
          starts |-> <<>>, elems |-> <<>>, datas |-> <<>>, excepts |-> <<>>,
          name |-> <<>>, func_names |-> <<>>, global_names |-> <<>>,
          local_names |-> <<>>]

Sig(params, results) == [params |-> params, results |-> results]
Body(sig, locals, exprs) == [sig |-> sig, locals |-> locals, exprs |-> exprs]
Bare(op) == [op |-> op]
At(op, index) == [op |-> op, index |-> index]
Const(op, value) == [op |-> op, value |-> value]
Branches(op, sig, true, false) ==
    [op |-> op, sig |-> sig, true |-> true, false |-> false]
IfExcept(sig, index, true, false) ==
    Branches("if_except", sig, true, false) @@ [index |-> index]

ControlFlow ==
    [Empty EXCEPT
        !.types = <<Sig(<<>>, <<>>), Sig(<<I32>>, <<I32, I64>>)>>,
        !.excepts = <<<<I32>>>>,
        !.funcs =
            <<Body(0, <<[count |-> 2, type |-> I64]>>,
                   <<Branches("block", Void,
                        <<Branches("if", I32, <<At("br", 1)>>,
                                   <<Const("i32_const", -9)>>)>>, <<>>),
                     Branches("if", Void, <<>>, <<>>)>>),
              Body(1, <<>>,
                   <<Branches("loop", 1, <<Bare("nop")>>, <<>>),
                     Branches("try", Void, <<At("throw", 0)>>,
                              <<IfExcept(Void, 0, <<Bare("unreachable")>>,
                                         <<Bare("nop")>>)>>),
                     [op |-> "br_table", targets |-> <<0, 0>>]>>)>>,
        !.func_names = <<<<>>, <<>>>>, !.local_names = <<<<<<>>, <<>>>>, <<<<>>>>>>]

Limited(initial, max, is_shared) ==
    [initial |-> initial, max |-> max, is_shared |-> is_shared]

Imported(kind) == [module_name |-> <<1>>, field_name |-> <<2>>, kind |-> kind]

Linked ==
    [Empty EXCEPT
        !.types = <<Sig(<<>>, <<>>)>>,
        !.imports = <<Imported(KindFunc) @@ [sig |-> 0],
                      Imported(KindTable) @@ [limits |-> Limited(1, {}, FALSE)],
                      Imported(KindMemory) @@ [limits |-> Limited(1, {2}, TRUE)],
                      Imported(KindGlobal) @@ [type |-> I32, mutable |-> FALSE],
                      Imported(KindExcept) @@ [types |-> <<I64>>]>>,
        !.funcs = <<Body(0, <<>>, <<At("call", 0), At("call_indirect", 0)>>)>>,
        !.exports = <<[name |-> <<1>>, kind |-> KindFunc, index |-> 1],
                      [name |-> <<2>>, kind |-> KindTable, index |-> 0],
                      [name |-> <<3>>, kind |-> KindMemory, index |-> 0],
                      [name |-> <<4>>, kind |-> KindGlobal, index |-> 0],
                      [name |-> <<5>>, kind |-> KindExcept, index |-> 0]>>,
        !.elems = <<[table |-> 0, init |-> <<At("get_global", 0)>>,
                     funcs |-> <<1>>]>>,
        !.func_names = <<<<>>, <<>>>>, !.global_names = <<<<>>>>,
        !.local_names = <<<<>>, <<>>>>]

Named ==
    [Empty EXCEPT
        !.types = <<Sig(<<I32>>, <<>>)>>,
        !.tables = <<Limited(0, {1}, FALSE)>>,
        !.memories = <<Limited(1, {}, FALSE)>>,
        !.globals = <<[type |-> I64, mutable |-> TRUE,
                       init |-> <<Const("i64_const", 9)>>]>>,
        !.starts = <<0>>,
        !.funcs = <<Body(0, <<[count |-> 1, type |-> I32]>>,
                         <<At("get_global", 0), At("call", 1)>>),
                    Body(0, <<>>,
                         <<[op |-> "load", align |-> 2, offset |-> 1],
                           Bare("memory_size"), At("simd", 1)>>)>>,
        !.elems = <<[table |-> 0, init |-> <<Const("i32_const", 0)>>,
                     funcs |-> <<0, 1>>]>>,
        !.datas = <<[memory |-> 0, init |-> <<Const("i32_const", 0)>>,
                     data |-> <<31>>]>>,
        !.name = <<3>>, !.func_names = <<<<1>>, <<2>>>>,
        !.global_names = <<<<3>>>>,
        !.local_names = <<<<<<1>>, <<2>>>>, <<<<>>>>>>]

MCModules == {ControlFlow, Linked, Named}

WriteOptions(canonicalize_lebs, relocatable, write_debug_names) ==
    [canonicalize_lebs |-> canonicalize_lebs, relocatable |-> relocatable,
     write_debug_names |-> write_debug_names]

MCOptions == {WriteOptions(TRUE, FALSE, FALSE), WriteOptions(TRUE, FALSE, TRUE),
              WriteOptions(FALSE, TRUE, TRUE), WriteOptions(TRUE, TRUE, FALSE)}

MCBadBytes == {0, 1, 5, 6, 10, 16}

=============================================================================
