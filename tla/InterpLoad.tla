------------------------------ MODULE InterpLoad ------------------------------
(***************************************************************************)
(* BinaryReaderInterp (src/binary-reader-interp.cc), the part that loads a *)
(* module: the callbacks of the binary reader outside function bodies, and *)
(* the host modules that the tools offer for import                        *)
(* (src/tools/spectest-interp.cc).  Function bodies are compiled in        *)
(* InterpReader.                                                           *)
(*                                                                         *)
(* A load is a record: the environment, the members of the reader and      *)
(* whether the last callback succeeded (ok) or failed an assertion         *)
(* (aborted).  The module being loaded is the last one of the environment. *)
(* A callback is an event, a record with the arguments of the callback; a  *)
(* file is the sequence of callbacks that the binary reader makes for it   *)
(* (BinaryReader models how it comes to them).                             *)
(*                                                                         *)
(* The environment (src/interp.h, src/interp.cc) is everything that the    *)
(* interpreter keeps of the modules that it has loaded, with mark points   *)
(* that undo a load.  It is a record of vectors.  Indexes count from zero, *)
(* as in the code: item i of a vector v is v[i + 1].  A binding hash is a  *)
(* set of bindings; the code's is a multimap, so one name may be bound     *)
(* twice and a search may then find either.                                *)
(***************************************************************************)
EXTENDS Integers, Sequences, SequencesExt, FiniteSetsExt

CONSTANTS PageSize, MaxPages,
          MaxIndex      \* UINT32_MAX: Index and IstreamOffset have 32 bits

ASSUME PagesAssumption == PageSize \in Nat \ {0} /\ MaxPages = PageSize
ASSUME MaxIndexAssumption == MaxIndex \in Nat \ {0}

-----------------------------------------------------------------------------
(* The environment *)

kInvalidIndex == -1

NewModule(is_host) ==
    [is_host |-> is_host, name |-> <<>>, exports |-> <<>>,
     memory_index |-> kInvalidIndex, table_index |-> kInvalidIndex,
     start_func_index |-> kInvalidIndex, imports |-> <<>>,
     istream_start |-> kInvalidIndex, istream_end |-> kInvalidIndex]

NewEnvironment ==
    [modules |-> <<>>, sigs |-> <<>>, funcs |-> <<>>, memories |-> <<>>,
     tables |-> <<>>, globals |-> <<>>, istream |-> <<>>,
     module_bindings |-> {}, registered_module_bindings |-> {}]

NewTable(limits) ==
    [limits |-> limits,
     func_indexes |-> [i \in 1 .. limits.initial |-> kInvalidIndex]]

Zeros(n) == [i \in 1 .. n |-> 0]

NewMemory(limits) ==
    [page_limits |-> limits, data |-> Zeros(limits.initial * PageSize)]

AppendHostModule(env, name) ==
    [env EXCEPT
        !.modules = Append(@, [NewModule(TRUE) EXCEPT !.name = name]),
        !.registered_module_bindings =
            @ \union {[name |-> name, index |-> Len(env.modules)]}]

(* FindIndex and find of a BindingHash: the indexes that it may give.       *)
Bound(bindings, name) == {b.index : b \in {c \in bindings : c.name = name}}

(* No export, or one.  Host modules may export one name twice; which export *)
(* is found then is not said.                                               *)
GetExport(module, name) ==
    LET at == {i \in DOMAIN module.exports : module.exports[i].name = name}
    IN  IF at = {} THEN <<>> ELSE <<module.exports[CHOOSE i \in at : TRUE]>>

FuncSignaturesAreEqual(env, sig_index_0, sig_index_1) ==
    env.sigs[sig_index_0 + 1] = env.sigs[sig_index_1 + 1]

GetLastModuleIndex(env) == Len(env.modules) - 1

Mark(env) ==
    [modules |-> Len(env.modules), sigs |-> Len(env.sigs),
     funcs |-> Len(env.funcs), memories |-> Len(env.memories),
     tables |-> Len(env.tables), globals |-> Len(env.globals),
     istream |-> Len(env.istream)]

(* The names of the modules that go are unbound, then everything after the  *)
(* mark is erased.  The contents of what stays are left alone.              *)
ResetToMarkPoint(env, mark) ==
    LET gone == {env.modules[i].name : i \in mark.modules + 1 .. Len(env.modules)}
                    \ {<<>>}
    IN  [env EXCEPT
            !.module_bindings = {b \in @ : b.name \notin gone},
            !.registered_module_bindings = {b \in @ : b.index < mark.modules},
            !.modules = SubSeq(@, 1, mark.modules),
            !.sigs = SubSeq(@, 1, mark.sigs),
            !.funcs = SubSeq(@, 1, mark.funcs),
            !.memories = SubSeq(@, 1, mark.memories),
            !.tables = SubSeq(@, 1, mark.tables),
            !.globals = SubSeq(@, 1, mark.globals),
            !.istream = SubSeq(@, 1, mark.istream)]

-----------------------------------------------------------------------------
(* Loading *)

NewLoad(env) ==
    [env |-> [env EXCEPT !.modules = Append(@, NewModule(FALSE))],
     sig_index_mapping |-> <<>>, func_index_mapping |-> <<>>,
     global_index_mapping |-> <<>>, num_func_imports |-> 0,
     num_global_imports |-> 0, elem_segment_infos |-> <<>>,
     data_segment_infos |-> <<>>,
     init_expr_value |-> [type |-> "void", value |-> 0],
     table_offset |-> 0, ok |-> TRUE, aborted |-> FALSE]

This(load) == Len(load.env.modules)
Module(load) == load.env.modules[This(load)]
Error(load) == [load EXCEPT !.ok = FALSE]
AbortUnless(load, holds) == [load EXCEPT !.aborted = ~holds]

TranslateSigIndexToEnv(load, i) == load.sig_index_mapping[i + 1]
TranslateFuncIndexToEnv(load, i) == load.func_index_mapping[i + 1]
TranslateGlobalIndexToEnv(load, i) == load.global_index_mapping[i + 1]
Global_(load, i) == load.env.globals[TranslateGlobalIndexToEnv(load, i) + 1]

-----------------------------------------------------------------------------
(* Types.  The mapping is made when their number is known.                  *)

OnTypeCount(load, e) ==
    [load EXCEPT !.sig_index_mapping =
        [i \in 1 .. e.count |-> Len(load.env.sigs) + i - 1]]

OnType(load, e) ==
    AbortUnless([load EXCEPT !.env.sigs = Append(@, e.sig)],
           TranslateSigIndexToEnv(load, e.index) = Len(load.env.sigs))

-----------------------------------------------------------------------------
(* Imports *)

CheckImportLimits(declared, actual) ==
    /\ actual.initial >= declared.initial
    /\ declared.has_max => actual.has_max /\ actual.max <= declared.max

(* Host modules may export one name twice.  m counts from one.              *)
AppendExport(load, m, kind, index, name) ==
    IF ~load.env.modules[m].is_host /\ GetExport(load.env.modules[m], name) # <<>>
    THEN Error(load)
    ELSE [load EXCEPT !.env.modules[m].exports =
             Append(@, [name |-> name, kind |-> kind, index |-> index])]

AddImport(load, e, sig_index) ==
    [load EXCEPT !.env.modules[This(load)].imports =
        Append(@, [kind |-> e.kind, module |-> e.module, field |-> e.field,
                   sig_index |-> sig_index])]

(* SpectestHostImportDelegate *)
HostFuncs == {"print", "print_i32", "print_f32", "print_f64",
              "print_i32_f32", "print_f64_f64"}
HostTableLimits == [initial |-> 10, has_max |-> TRUE, max |-> 20]
HostMemoryLimits == [initial |-> 1, has_max |-> TRUE, max |-> 2]
HostGlobals == [global_i32 |-> [type |-> "i32", value |-> 666],
                global_f32 |-> [type |-> "f32", value |-> 666],
                global_i64 |-> [type |-> "i64", value |-> 666],
                global_f64 |-> [type |-> "f64", value |-> 666]]

(* resize: what is cut is gone, what is added is zero.                      *)
Resized(s, n) == [i \in 1 .. n |-> IF i <= Len(s) THEN s[i] ELSE 0]

(* What an import that fails has added is erased with the load.             *)
ImportHostFunc(load, e, m, sig_index) ==
    LET index == Len(load.env.funcs)
        added == [load EXCEPT
            !.env.funcs = Append(@, [is_host |-> TRUE, sig_index |-> sig_index,
                                     offset |-> kInvalidIndex])]
    IN  IF e.field \notin {<<name>> : name \in HostFuncs} THEN Error(added)
        ELSE [AppendExport(added, m, "func", index, e.field) EXCEPT
                !.func_index_mapping = Append(@, index),
                !.num_func_imports = @ + 1]

ImportHostTable(load, e, m) ==
    LET index == Len(load.env.tables)
        table == [NewTable(e.limits) EXCEPT !.limits = HostTableLimits]
        added == [load EXCEPT !.env.tables =
            Append(@, [table EXCEPT !.func_indexes =
                          Resized(@, HostTableLimits.initial)])]
    IN  IF e.field # <<"table">> \/ ~CheckImportLimits(e.limits, HostTableLimits)
        THEN Error([load EXCEPT !.env.tables = Append(@, table)])
        ELSE AppendExport([added EXCEPT
                              !.env.modules[This(load)].table_index = index],
                          m, "table", index, e.field)

ImportHostMemory(load, e, m) ==
    LET index == Len(load.env.memories)
        memory == [page_limits |-> HostMemoryLimits,
                   data |-> Zeros(HostMemoryLimits.initial * MaxPages)]
        added == [load EXCEPT !.env.memories = Append(@, memory)]
    IN  IF e.field # <<"memory">> \/ ~CheckImportLimits(e.limits, HostMemoryLimits)
        THEN Error(added)
        ELSE AppendExport([added EXCEPT
                              !.env.modules[This(load)].memory_index = index],
                          m, "memory", index, e.field)

(* The type is the host's, the mutability the one that the module declares. *)
ImportHostGlobal(load, e, m) ==
    LET index == Len(load.env.globals)
        added(value) == [load EXCEPT !.env.globals =
            Append(@, [typed_value |-> value, mutable_ |-> e.mutable_])]
    IN  IF e.field \notin {<<name>> : name \in DOMAIN HostGlobals}
        THEN Error(added([type |-> e.type, value |-> 0]))
        ELSE [AppendExport(added(HostGlobals[e.field[1]]), m, "global", index,
                           e.field) EXCEPT
                !.global_index_mapping = Append(@, index),
                !.num_global_imports = @ + 1]

ImportHost(load, e, m, sig_index) ==
    CASE e.kind = "func" -> ImportHostFunc(load, e, m, sig_index)
      [] e.kind = "table" -> ImportHostTable(load, e, m)
      [] e.kind = "memory" -> ImportHostMemory(load, e, m)
      [] e.kind = "global" -> ImportHostGlobal(load, e, m)

(* What an export must be for the import of its kind.  The type of a global *)
(* is not checked.                                                          *)
Importable(load, e, sig_index, export) ==
    /\ export.kind = e.kind
    /\ CASE e.kind = "func" ->
              FuncSignaturesAreEqual(load.env, sig_index,
                                     load.env.funcs[export.index + 1].sig_index)
         [] e.kind = "table" ->
              CheckImportLimits(e.limits, load.env.tables[export.index + 1].limits)
         [] e.kind = "memory" ->
              CheckImportLimits(e.limits,
                                load.env.memories[export.index + 1].page_limits)
         [] e.kind = "global" -> TRUE

Imported(load, kind, index) ==
    CASE kind = "func" -> [load EXCEPT !.func_index_mapping = Append(@, index),
                                       !.num_func_imports = @ + 1]
      [] kind = "table" ->
           [load EXCEPT !.env.modules[This(load)].table_index = index]
      [] kind = "memory" ->
           [load EXCEPT !.env.modules[This(load)].memory_index = index]
      [] kind = "global" ->
           [load EXCEPT !.global_index_mapping = Append(@, index),
                        !.num_global_imports = @ + 1]

ImportDefined(load, e, m, sig_index) ==
    LET found == GetExport(load.env.modules[m], e.field)
    IN  IF found = <<>> \/ ~Importable(load, e, sig_index, found[1])
        THEN Error(load)
        ELSE Imported(load, e.kind, found[1].index)

(* "only one table allowed", "only one memory allowed"                      *)
AlreadyHas(load, kind) ==
    \/ kind = "table" /\ Module(load).table_index # kInvalidIndex
    \/ kind = "memory" /\ Module(load).memory_index # kInvalidIndex

(* found is the index that FindRegisteredModule gives, if it gives one.     *)
OnImport(load, e, found) ==
    LET sig_index == IF e.kind = "func" THEN TranslateSigIndexToEnv(load, e.sig)
                     ELSE kInvalidIndex
        noted == AddImport(load, e, sig_index)
    IN  IF AlreadyHas(load, e.kind) THEN Error(load)
        ELSE IF found = kInvalidIndex THEN Error(noted)
        ELSE IF load.env.modules[found + 1].is_host
        THEN ImportHost(noted, e, found + 1, sig_index)
        ELSE ImportDefined(noted, e, found + 1, sig_index)
-----------------------------------------------------------------------------
(* Definitions *)

(* The functions get their indexes when their number is known.              *)
OnFunctionCount(load, e) ==
    [load EXCEPT !.func_index_mapping =
        @ \o [i \in 1 .. e.count |-> Len(load.env.funcs) + i - 1]]

OnFunction(load, e) ==
    [load EXCEPT !.env.funcs =
        Append(@, [is_host |-> FALSE, offset |-> kInvalidIndex,
                   sig_index |-> TranslateSigIndexToEnv(load, e.sig)])]

OnTable(load, e) ==
    IF AlreadyHas(load, "table") THEN Error(load)
    ELSE [load EXCEPT
            !.env.tables = Append(@, NewTable(e.limits)),
            !.env.modules[This(load)].table_index = Len(load.env.tables)]

OnMemory(load, e) ==
    IF AlreadyHas(load, "memory") THEN Error(load)
    ELSE [load EXCEPT
            !.env.memories = Append(@, NewMemory(e.limits)),
            !.env.modules[This(load)].memory_index = Len(load.env.memories)]

OnGlobalCount(load, e) ==
    [load EXCEPT !.global_index_mapping =
        @ \o [i \in 1 .. e.count |-> Len(load.env.globals) + i - 1]]

BeginGlobal(load, e) ==
    AbortUnless([load EXCEPT
              !.env.globals =
                  Append(@, [typed_value |-> [type |-> e.type, value |-> 0],
                             mutable_ |-> e.mutable_]),
              !.init_expr_value.type = "void"],
           TranslateGlobalIndexToEnv(load, e.index) = Len(load.env.globals))

EndGlobalInitExpr(load, e) ==
    IF load.init_expr_value.type # Global_(load, e.index).typed_value.type
    THEN Error(load)
    ELSE [load EXCEPT
            !.env.globals[TranslateGlobalIndexToEnv(load, e.index) + 1].typed_value =
                load.init_expr_value]

(* OnInitExpr...ConstExpr                                                   *)
OnInitExprConst(load, e) == [load EXCEPT !.init_expr_value = e.value]

OnInitExprGetGlobalExpr(load, e) ==
    IF e.global >= load.num_global_imports \/ Global_(load, e.global).mutable_
    THEN Error(load)
    ELSE [load EXCEPT !.init_expr_value = Global_(load, e.global).typed_value]

(* Mutant: the index of a function in the module is taken for the           *)
(* environment's.                                                           *)
ExportIndexOfModule(load, e) ==
    CASE e.kind = "func" -> e.item
      [] e.kind = "table" -> Module(load).table_index
      [] e.kind = "memory" -> Module(load).memory_index
      [] e.kind = "global" -> TranslateGlobalIndexToEnv(load, e.item)

(* The index of an export is the environment's.                             *)
ExportIndex(load, e) ==
    CASE e.kind = "func" -> TranslateFuncIndexToEnv(load, e.item)
      [] e.kind = "table" -> Module(load).table_index
      [] e.kind = "memory" -> Module(load).memory_index
      [] e.kind = "global" -> TranslateGlobalIndexToEnv(load, e.item)

OnExport(load, e) ==
    IF e.kind = "global" /\ Global_(load, e.item).mutable_ THEN Error(load)
    ELSE AppendExport(load, This(load), e.kind, ExportIndex(load, e), e.name)

OnStartFunction(load, e) ==
    LET index == TranslateFuncIndexToEnv(load, e.func)
    IN  IF load.env.sigs[load.env.funcs[index + 1].sig_index + 1]
             # [params |-> <<>>, results |-> <<>>]
        THEN Error(load)
        ELSE [load EXCEPT !.env.modules[This(load)].start_func_index = index]

(* BeginFunctionBody, the body and EndFunctionBody: the function starts     *)
(* where the instruction stream ends.  The code that InterpReader writes is *)
(* one item here, which says what running it does.                          *)
OnFunctionBody(load, e) ==
    [load EXCEPT
        !.env.funcs[TranslateFuncIndexToEnv(load, e.func) + 1].offset =
            Len(load.env.istream),
        !.env.istream = Append(@, [does |-> e.does, value |-> e.value,
                                   memory |-> Module(load).memory_index])]

-----------------------------------------------------------------------------
(* Segments.  What they write is collected, and written when the whole      *)
(* module has been read.                                                    *)

Table_(load) == load.env.tables[Module(load).table_index + 1]
Memory_(load) == load.env.memories[Module(load).memory_index + 1]
Wrapped(n) == n % (MaxIndex + 1)

EndElemSegmentInitExpr(load) ==
    AbortUnless([load EXCEPT !.table_offset = load.init_expr_value.value],
           load.init_expr_value.type = "i32")

(* Mutant: only the offset is looked at.                                    *)
ElemCountUnchecked(load, e) ==
    IF load.table_offset > Len(Table_(load).func_indexes) THEN Error(load)
    ELSE load

(* The sum is taken in 32 bits.                                             *)
OnElemSegmentFunctionIndexCount(load, e) ==
    LET size == Len(Table_(load).func_indexes)
    IN  IF load.table_offset > size \/ Wrapped(load.table_offset + e.count) > size
        THEN Error(load) ELSE load

(* The entries written one after the other: the last one for a place stays. *)
WriteElems(tables, infos) ==
    LET for(t, at) == {n \in DOMAIN infos : /\ infos[n].table = t - 1
                                           /\ infos[n].at = at - 1}
        written(t, at) ==
            IF for(t, at) = {} THEN tables[t].func_indexes[at]
            ELSE infos[Max(for(t, at))].func_index
    IN  [t \in DOMAIN tables |->
            [limits |-> tables[t].limits,
             func_indexes |->
                 [at \in DOMAIN tables[t].func_indexes |-> written(t, at)]]]

ElemInfo(load, e) ==
    [table |-> Module(load).table_index, at |-> load.table_offset,
     func_index |-> TranslateFuncIndexToEnv(load, e.func)]

(* Mutant: an entry is written as soon as it is read.                       *)
ElemWrittenAtOnce(load, e) ==
    IF e.func >= Len(load.func_index_mapping) THEN Error(load)
    ELSE [load EXCEPT !.env.tables = WriteElems(@, <<ElemInfo(load, e)>>),
                      !.table_offset = Wrapped(@ + 1)]

OnElemSegmentFunctionIndex(load, e) ==
    IF e.func >= Len(load.func_index_mapping) THEN Error(load)
    ELSE [load EXCEPT
            !.elem_segment_infos = Append(@, ElemInfo(load, e)),
            !.table_offset = Wrapped(@ + 1)]

OnDataSegmentData(load, e) ==
    LET address == load.init_expr_value.value
    IN  AbortUnless(IF address + Len(e.data) > Len(Memory_(load).data) THEN Error(load)
               ELSE IF e.data = <<>> THEN load
               ELSE [load EXCEPT !.data_segment_infos =
                        Append(@, [memory |-> Module(load).memory_index,
                                   at |-> address, data |-> e.data])],
               load.init_expr_value.type = "i32")

WriteData(memories, infos) ==
    LET for(m, at) == {n \in DOMAIN infos :
                          /\ infos[n].memory = m - 1
                          /\ at - infos[n].at \in DOMAIN infos[n].data}
        written(m, at) ==
            IF for(m, at) = {} THEN memories[m].data[at]
            ELSE LET last == infos[Max(for(m, at))] IN last.data[at - last.at]
    IN  [m \in DOMAIN memories |->
            [page_limits |-> memories[m].page_limits,
             data |-> [at \in DOMAIN memories[m].data |-> written(m, at)]]]

EndModule(load) ==
    [load EXCEPT !.env.tables = WriteElems(@, load.elem_segment_infos),
                 !.env.memories = WriteData(@, load.data_segment_infos)]

-----------------------------------------------------------------------------
(* The callback of an event; error is that of the reader itself, as when    *)
(* the file ends too early.                                                 *)
Callback(load, e, found) ==
    CASE e.on = "type_count" -> OnTypeCount(load, e)
      [] e.on = "type" -> OnType(load, e)
      [] e.on = "import" -> OnImport(load, e, found)
      [] e.on = "function_count" -> OnFunctionCount(load, e)
      [] e.on = "function" -> OnFunction(load, e)
      [] e.on = "table" -> OnTable(load, e)
      [] e.on = "memory" -> OnMemory(load, e)
      [] e.on = "global_count" -> OnGlobalCount(load, e)
      [] e.on = "global" -> BeginGlobal(load, e)
      [] e.on = "end_global" -> EndGlobalInitExpr(load, e)
      [] e.on = "const" -> OnInitExprConst(load, e)
      [] e.on = "get_global" -> OnInitExprGetGlobalExpr(load, e)
      [] e.on = "export" -> OnExport(load, e)
      [] e.on = "start" -> OnStartFunction(load, e)
      [] e.on = "elem_offset" -> EndElemSegmentInitExpr(load)
      [] e.on = "elem_count" -> OnElemSegmentFunctionIndexCount(load, e)
      [] e.on = "elem" -> OnElemSegmentFunctionIndex(load, e)
      [] e.on = "body" -> OnFunctionBody(load, e)
      [] e.on = "data" -> OnDataSegmentData(load, e)
      [] e.on = "end_module" -> EndModule(load)
      [] e.on = "error" -> Error(load)

-----------------------------------------------------------------------------
(* What the binary reader makes sure of (src/binary-reader.cc): the         *)
(* sections come in order, a section begins with its count and an index is  *)
(* one of something that was declared.  A constant or a get_global is part  *)
(* of a section that has initialisers.                                      *)

Kinds == {"func", "table", "memory", "global"}

SectionOf ==
    [type_count |-> 1, type |-> 1, import |-> 2, function_count |-> 3,
     function |-> 3, table |-> 4, memory |-> 5, global_count |-> 6, global |-> 6,
     end_global |-> 6, export |-> 7, start |-> 8, elem_offset |-> 9,
     elem_count |-> 9, elem |-> 9, body |-> 10, data |-> 11, end_module |-> 12,
     error |-> 12]

(* Where a file declares an item of a kind, imported ones first.  The index *)
(* of the item in its module is how many are declared before.               *)
Declarations(file, kind) ==
    {n \in DOMAIN file :
        \/ file[n].on = "import" /\ file[n].kind = kind
        \/ file[n].on = (IF kind = "func" THEN "function" ELSE kind)}
ItemIndex(file, kind, n) == Cardinality({m \in Declarations(file, kind) : m < n})

(* An item that is declared before a place.                                 *)
Declared(file, kind, item, n) ==
    \E m \in Declarations(file, kind) : m < n /\ ItemIndex(file, kind, m) = item

SectionsInOrder(file) ==
    /\ \A n \in DOMAIN file :
          file[n].on \in DOMAIN SectionOf \union {"const", "get_global"}
    /\ \A m, n \in DOMAIN file :
          m < n /\ {file[m].on, file[n].on} \subseteq DOMAIN SectionOf
              => SectionOf[file[m].on] <= SectionOf[file[n].on]

(* A file ends with the end of the module, or with an error.                *)
Ended(file) ==
    /\ file # <<>> /\ file \in Seq(Range(file))
    /\ \A n \in DOMAIN file :
          n = Len(file) <=> file[n].on \in {"end_module", "error"}

(* Of every section with a count there is one at most, and no more items    *)
(* than the count says.                                                     *)
CountOf == [type |-> "type_count", function |-> "function_count",
            global |-> "global_count"]
Counted(file) ==
    /\ \A m, n \in DOMAIN file :
          m # n /\ file[m].on = file[n].on => file[m].on \notin Range(CountOf)
    /\ \A n \in DOMAIN file :
          /\ file[n].on \in Range(CountOf) => file[n].count \in Nat
          /\ file[n].on \in DOMAIN CountOf =>
                \E m \in 1 .. n - 1 : file[m].on = CountOf[file[n].on]
    /\ \A m, n \in DOMAIN file :
          /\ file[m].on = "function_count" /\ file[n].on = "function" =>
                ItemIndex(file, "func", n) < ItemIndex(file, "func", m) + file[m].count
          /\ file[m].on = "global_count" /\ file[n].on = "global" =>
                ItemIndex(file, "global", n)
                    < ItemIndex(file, "global", m) + file[m].count

(* The arguments of a callback.                                             *)
ArgumentsChecked(file) ==
    \A n \in DOMAIN file :
        LET e == file[n]
        IN  /\ e.on \in {"import", "export"} => e.kind \in Kinds
            /\ e.on \in {"table", "memory"} => e.limits.initial \in Nat
            /\ e.on = "import" /\ e.kind \in {"table", "memory"} =>
                  e.limits.initial \in Nat
            /\ e.on = "type" => e.index \in Nat
            /\ e.on = "global" => e.index = ItemIndex(file, "global", n)
            /\ n \in Declarations(file, "func") =>
                  \E m \in 1 .. n - 1 : file[m].on = "type" /\ file[m].index = e.sig
            /\ e.on = "const" =>
                  DOMAIN e.value = {"type", "value"} /\ e.value.value \in Nat
            /\ e.on = "get_global" => e.global \in Nat
            /\ e.on = "export" => Declared(file, e.kind, e.item, n)
            /\ e.on = "start" => Declared(file, "func", e.func, n)
            /\ e.on = "end_global" =>
                  \E m \in 1 .. n - 1 : file[m].on = "global" /\ file[m].index = e.index
            /\ e.on = "body" =>
                  \E m \in 1 .. n - 1 : /\ file[m].on = "function"
                                       /\ ItemIndex(file, "func", m) = e.func

(* A segment is that of a table or a memory, imported or not; the number of *)
(* its entries comes before them.                                           *)
SegmentsRead(file) ==
    \A n \in DOMAIN file :
        LET e == file[n]
        IN  /\ e.on \in {"elem_count", "elem"} =>
                  \E m \in Declarations(file, "table") : m < n
            /\ e.on = "data" => \E m \in Declarations(file, "memory") : m < n
            /\ e.on = "data" => e.data \in Seq(Range(e.data))
            /\ e.on = "elem_count" => e.count \in Nat
            /\ e.on = "elem" =>
                  \E m \in 1 .. n - 1 :
                      /\ file[m].on = "elem_count" /\ n - m <= file[m].count
                      /\ \A k \in m + 1 .. n - 1 : file[k].on = "elem"

(* A module that is read to its end has all the functions that it counts.   *)
Complete(file) ==
    Last(file).on = "end_module" =>
        \A n \in DOMAIN file :
            file[n].on = "function_count" =>
                Cardinality(Declarations(file, "func"))
                    = ItemIndex(file, "func", n) + file[n].count

FileRead(file) ==
    /\ Ended(file) /\ SectionsInOrder(file) /\ Counted(file)
    /\ ArgumentsChecked(file) /\ SegmentsRead(file) /\ Complete(file)

(* Not made sure of: the reader compares the number of bodies with that of  *)
(* functions in the code section only, so a file may do without a code      *)
(* section and leave its functions without an offset.                       *)
BodiesRead(file) ==
    Last(file).on = "end_module" =>
        \A n \in DOMAIN file :
            file[n].on = "function" =>
                \E m \in DOMAIN file :
                    file[m].on = "body" /\ file[m].func = ItemIndex(file, "func", n)

(* Nor is it that the end of a segment fits in 32 bits: it does where a     *)
(* table has at most so many entries and a segment the rest.                *)
ShortSegments(file, limit) ==
    /\ \A n \in DOMAIN file :
          file[n].on = "table" => file[n].limits.initial <= limit
    /\ Last(file).on = "end_module" =>
          \A n \in DOMAIN file :
              file[n].on = "elem_count" => limit + file[n].count <= MaxIndex
=============================================================================
