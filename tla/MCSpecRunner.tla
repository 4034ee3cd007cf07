----------------------------- MODULE MCSpecRunner -----------------------------
(***************************************************************************)
(* Scripts of up to four commands for SpecRunner.                          *)
(***************************************************************************)
EXTENDS SpecRunner

MCF32 == [exp |-> 5, sig |-> 2]
MCF64 == [exp |-> 6, sig |-> 9]

Nullary == [params |-> <<>>, results |-> <<>>]
ToI32 == [params |-> <<>>, results |-> <<"i32">>]
ToF32 == [params |-> <<>>, results |-> <<"f32">>]
OfI32 == [params |-> <<"i32">>, results |-> <<"i32">>]

I32(n) == [type |-> "i32", value |-> n]
Limits(initial, max) == [initial |-> initial, has_max |-> max > 0, max |-> max]

Types(sigs) ==
    <<[on |-> "type_count", count |-> Len(sigs)]>>
    \o [i \in DOMAIN sigs |-> [on |-> "type", index |-> i - 1, sig |-> sigs[i]]]
ImportFunc(module, field, sig) ==
    <<[on |-> "import", kind |-> "func", module |-> <<module>>,
       field |-> <<field>>, sig |-> sig]>>
ImportOf(kind, module, field, limits) ==
    <<[on |-> "import", kind |-> kind, module |-> <<module>>,
       field |-> <<field>>, limits |-> limits]>>
ImportGlobal(module, field, mutable) ==
    <<[on |-> "import", kind |-> "global", module |-> <<module>>,
       field |-> <<field>>, type |-> "i32", mutable_ |-> mutable]>>
Functions_(sigs) ==
    <<[on |-> "function_count", count |-> Len(sigs)]>>
    \o [i \in DOMAIN sigs |-> [on |-> "function", sig |-> sigs[i]]]
Sized(on, limits) == <<[on |-> on, limits |-> limits]>>
Const(type, n) ==
    <<[on |-> "const", value |-> [type |-> type, value |-> n]]>>
GetGlobal(i) == <<[on |-> "get_global", global |-> i]>>
GlobalOf(index, count, type, mutable, init) ==
    <<[on |-> "global_count", count |-> count],
      [on |-> "global", index |-> index, type |-> type, mutable_ |-> mutable]>>
    \o init \o <<[on |-> "end_global", index |-> index]>>
Export(kind, item, name) ==
    <<[on |-> "export", kind |-> kind, item |-> item, name |-> <<name>>]>>
Start(func) == <<[on |-> "start", func |-> func]>>
ElemOf(offset, count, funcs) ==
    offset \o <<[on |-> "elem_offset"], [on |-> "elem_count", count |-> count]>>
    \o [i \in DOMAIN funcs |-> [on |-> "elem", func |-> funcs[i]]]
Body(func, does, value) ==
    <<[on |-> "body", func |-> func, does |-> does, value |-> value]>>
DataOf(offset, data) == offset \o <<[on |-> "data", data |-> data]>>
EndOfModule == <<[on |-> "end_module"]>>
EndOfFile == <<[on |-> "error"]>>

(* A module with one of everything to import.                               *)
Lib ==
    Types(<<Nullary, ToF32, OfI32>>) \o Functions_(<<0, 1, 2>>)
    \o Sized("table", Limits(2, 3)) \o Sized("memory", Limits(1, 2))
    \o GlobalOf(0, 1, "i32", FALSE, Const("i32", 1))
    \o Export("func", 0, "f") \o Export("func", 1, "nan")
    \o Export("func", 2, "grow") \o Export("table", 0, "t")
    \o Export("memory", 0, "m") \o Export("global", 0, "g")
    \o ElemOf(Const("i32", 0), 1, <<0>>)
    \o Body(0, "trap", 0) \o Body(1, "return", 126) \o Body(2, "grow", 1)
    \o DataOf(Const("i32", 0), <<1>>) \o EndOfModule

(* A module that writes in the table and the memory of another and then     *)
(* traps.                                                                   *)
User ==
    Types(<<Nullary, ToI32>>) \o ImportFunc("spectest", "print", 0)
    \o ImportFunc("a", "f", 0) \o ImportOf("table", "a", "t", Limits(2, 3))
    \o ImportOf("memory", "a", "m", Limits(1, 0)) \o ImportGlobal("a", "g", FALSE)
    \o Functions_(<<0>>) \o Start(2)
    \o ElemOf(Const("i32", 1), 1, <<2>>)
    \o Body(2, "trap", 0) \o DataOf(GetGlobal(0), <<5>>) \o EndOfModule

(* A module that does not fit the module whose function it imports.         *)
Unlinkable ==
    Types(<<ToI32>>) \o ImportFunc("spectest", "print_i32", 0)
    \o ImportOf("table", "spectest", "table", Limits(1, 0))
    \o ImportFunc("a", "f", 0) \o EndOfModule

(* A module of the things of the host, with a function of its own.          *)
Hosted ==
    Types(<<ToI32>>) \o ImportOf("table", "spectest", "table", Limits(3, 20))
    \o ImportOf("memory", "spectest", "memory", Limits(1, 2))
    \o ImportGlobal("spectest", "global_i32", FALSE)
    \o Functions_(<<0>>) \o GlobalOf(1, 1, "i32", FALSE, GetGlobal(0))
    \o Export("func", 0, "f") \o Export("global", 1, "g")
    \o Body(0, "exhaust", 0) \o EndOfModule

(* Modules that are wrong in themselves: the first segment ends beyond the  *)
(* largest index, the second module exports a mutable global.               *)
Wrapping ==
    Types(<<Nullary>>) \o Functions_(<<0>>) \o Sized("table", Limits(2, 0))
    \o ElemOf(Const("i32", 1), MaxIndex, <<0, 0>>) \o EndOfFile

Mutable ==
    GlobalOf(0, 1, "i32", TRUE, Const("i32", 1)) \o Export("global", 0, "g")
    \o EndOfModule

TooLong ==
    Types(<<Nullary>>) \o Functions_(<<0>>) \o Sized("table", Limits(1, 0))
    \o ElemOf(Const("i32", 0), 2, <<0, 0>>) \o Body(0, "return", 0) \o EndOfModule

Host2 ==
    ImportOf("memory", "spectest", "memory", Limits(2, 0)) \o EndOfModule

MCFiles == [lib |-> Lib, user |-> User, unlinkable |-> Unlinkable,
            hosted |-> Hosted, wrapping |-> Wrapping, mutable |-> Mutable,
            toolong |-> TooLong, host2 |-> Host2]

(* The hypotheses of IndexesAlwaysExist and SegmentsAlwaysInBounds hold.    *)
ASSUME HaveBodies == \A name \in DOMAIN MCFiles : BodiesRead(MCFiles[name])
ASSUME HaveShortSegments ==
    \A name \in DOMAIN MCFiles : ShortSegments(MCFiles[name], 10)

-----------------------------------------------------------------------------
Blank(type) ==
    [type |-> type, line |-> 10, name |-> <<>>, as |-> <<>>, file |-> "",
     text |-> <<>>, module_type |-> "binary", expected |-> <<>>, values |-> <<>>,
     action |-> [type |-> "invoke", module |-> <<>>, field |-> <<>>,
                 args |-> <<>>, results |-> <<>>]]

ModuleOf(file, name) == [Blank("module") EXCEPT !.file = file, !.name = name]
RegisterAs(name, as) == [Blank("register") EXCEPT !.name = name, !.as = as]
Invalid(type, file, module_type) ==
    [Blank(type) EXCEPT !.file = file, !.module_type = module_type,
                        !.text = <<"\"", "x", "\\">>]
ActionOf(type, module, field, args, results) ==
    [Blank(type) EXCEPT
        !.action = [type |-> "invoke", module |-> module, field |-> <<field>>,
                    args |-> args, results |-> results]]

NameA == <<"A", "\n">>

Modules == {ModuleOf("lib", NameA), ModuleOf("hosted", <<>>)}
Registers == {RegisterAs(NameA, <<"a">>), RegisterAs(<<>>, <<"a">>)}

Others ==
    {ModuleOf("user", <<>>),
     Invalid("assert_uninstantiable", "user", "text"),
     Invalid("assert_uninstantiable", "user", "quoted"),
     Invalid("assert_uninstantiable", "toolong", "binary"),
     Invalid("assert_unlinkable", "unlinkable", "binary"),
     Invalid("assert_unlinkable", "user", "binary"),
     Invalid("assert_malformed", "wrapping", "quoted"),
     Invalid("assert_invalid", "wrapping", "binary"),
     Invalid("assert_invalid", "mutable", "text"),
     Invalid("assert_unlinkable", "host2", "binary"),
     ActionOf("assert_trap", NameA, "f", <<>>, <<>>),
     ActionOf("assert_return_canonical_nan", NameA, "nan", <<>>, <<"f32">>),
     ActionOf("assert_return_arithmetic_nan", <<>>, "grow", <<I32(12)>>, <<"i32">>),
     ActionOf("assert_exhaustion", <<>>, "f", <<>>, <<"i32">>),
     [ActionOf("assert_return", NameA, "grow", <<I32(0)>>, <<"i32">>)
        EXCEPT !.expected = <<I32(1)>>],
     [ActionOf("action", NameA, "g", <<>>, <<"i32">>)
        EXCEPT !.action.type = "get"]}

Last_ == {ModuleOf("user", <<>>), ModuleOf("hosted", <<>>),
          Invalid("assert_unlinkable", "unlinkable", "binary"),
          ActionOf("assert_exhaustion", <<>>, "f", <<>>, <<"i32">>),
          ActionOf("assert_trap", NameA, "f", <<>>, <<>>)}

MCCommands == <<Modules, Registers \union {ModuleOf("lib", NameA)}, Others, Last_>>
=============================================================================
