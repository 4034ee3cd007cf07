------------------------------- MODULE MCInterp -------------------------------
(* Small instances of Interp for TLC.                                       *)
EXTENDS Interp

Sig(params, results) == [params |-> params, results |-> results]
Func(sig, is_host, locals) ==
    [sig |-> sig, is_host |-> is_host, locals |-> locals]

(* An imported function, the entry function and one more.                   *)
MCFuncs == <<Func(Sig(<<I32>>, <<I32>>), TRUE, 0),
             Func(Sig(<<I32>>, <<I32>>), FALSE, 2),
             Func(Sig(<<>>, <<I32>>), FALSE, 0)>>
MCTable == <<3, -1, 1>>
MCArgs == {<<0>>, <<1>>, <<2>>}

Op(op) == [op |-> op]
OpI(op, i32) == [op |-> op, i32 |-> i32]
Block(op, type) == [op |-> op, type |-> type]

(* The other function calls the entry function.                             *)
MCBodies == 3 :> <<OpI("const", 0), OpI("call", 2), OpI("const", 1),
                   OpI("sub", 0)>>

Empty == Sig(<<>>, <<>>)
Value == Sig(<<>>, <<I32>>)

Control ==
    {OpI("const", 1), OpI("get_local", 0), Block("block", Value),
     Block("loop", Empty), Block("if", Value), Op("else"), Op("end"),
     OpI("br", 1), OpI("br_if", 0), OpI("br_if", 1),
     [op |-> "br_table", depths |-> <<1, 0>>], Op("return")}
Calls ==
    {OpI("get_local", 0), OpI("call", 1), OpI("call", 2), OpI("call", 3),
     OpI("call_indirect", 3), OpI("call_indirect", 1), OpI("sub", 0),
     OpI("set_global", 0), OpI("get_global", 0), Op("unreachable")}
Data ==
    {OpI("get_local", 0), OpI("set_local", 1), OpI("tee_local", 1),
     OpI("get_local", 1), Op("drop"), Op("select"), OpI("load", 1),
     OpI("store", 0), OpI("memory_size", 0), OpI("memory_grow", 0)}
MCGroups == <<Control, Calls, Data>>
MCMaxInstrs == <<7, 5, 5>>

=============================================================================
