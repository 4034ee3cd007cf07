----------------------------- MODULE BinaryReader -----------------------------
(***************************************************************************)
(* BinaryReader (src/binary-reader.cc) with the delegate BinaryReaderIR.   *)
(*                                                                         *)
(* The loops and calls the reader is in are the frames of todo: a loop,    *)
(* the items left, read_end_ while it runs, and a mark: the section, the   *)
(* end of the function body or the last index or subsection read.  Every   *)
(* step reads one item.  All features are enabled and stop_on_first_error  *)
(* is set, as in every tool that builds a module.                          *)
(***************************************************************************)
EXTENDS BinaryReaderIR

CONSTANTS
    MaxPages,                     \* WABT_MAX_PAGES
    fail_on_custom_section_error,
    Magic, Version

VARIABLES
    data,     \* the bytes of the file
    offset,   \* state_.offset
    todo,
    counts,   \* num_*_, last_known_section_ and did_read_names_section_
    ir,       \* the module of the delegate
    result    \* "reading", "Ok" or "Error"

reader == <<offset, todo, counts, ir, result>>

Frame(loop, left, end, mark) ==
    [loop |-> loop, left |-> left, end |-> end, mark |-> mark]

NoCounts == [signatures |-> 0, func_imports |-> 0, table_imports |-> 0,
             memory_imports |-> 0, global_imports |-> 0, functions |-> 0,
             tables |-> 0, memories |-> 0, globals |-> 0, bodies |-> 0,
             last_known_section |-> -1, did_read_names |-> FALSE]

Top == Last(todo)
read_end == Top.end
Reading(loop) == result = "reading" /\ Top.loop = loop
Item(loop) == Reading(loop) /\ Top.left > 0

(* todo with one item less to read.                                         *)
Advance == [todo EXCEPT ![Len(todo)].left = @ - 1]
Marked(mark) == [Advance EXCEPT ![Len(todo)].mark = mark]
(* todo with a loop in the place of the top.                                *)
Become(loop, left, mark) == Append(Front(todo), Frame(loop, left, read_end, mark))

NumTotalFuncs == counts.func_imports + counts.functions
NumTotalTables == counts.table_imports + counts.tables
NumTotalMemories == counts.memory_imports + counts.memories
NumTotalGlobals == counts.global_imports + counts.globals

-----------------------------------------------------------------------------
(* What is read at a cursor c: where it is, whether all was well, and v,    *)
(* the value read last.                                                     *)

Cursor == [at |-> offset, ok |-> TRUE, v |-> 0]
Check(c, condition) == [c EXCEPT !.ok = @ /\ condition]
With(c, value) == [c EXCEPT !.v = value]
Bad(c) == [c EXCEPT !.ok = FALSE, !.v = 0]

ReadU8(c) ==
    IF ~c.ok \/ c.at + 1 > read_end THEN Bad(c)
    ELSE [c EXCEPT !.at = @ + 1, !.v = data[c.at + 1]]

(* The lengths at which a LEB128 could end.                                 *)
LebLengths(c) ==
    {n \in 1 .. MaxLeb : c.at + n <= read_end /\ data[c.at + n] < Base}

LebValue(c, n) ==
    FoldLeft(LAMBDA sum, i : sum + (data[c.at + i] % Base) * Base^(i - 1),
             0, [i \in 1 .. n |-> i])

U32Leb128(c, n) ==
    IF n = MaxLeb /\ data[c.at + n] >= TopDigit THEN Bad(c)
    ELSE [c EXCEPT !.at = @ + n, !.v = LebValue(c, n)]

ReadU32Leb128(c) ==
    IF ~c.ok \/ LebLengths(c) = {} THEN Bad(c)
    ELSE U32Leb128(c, Min(LebLengths(c)))

(* The digits above the sign repeat it.                                     *)
S32Leb128(c, n) ==
    LET top == data[c.at + n]
        negative == IF n = MaxLeb THEN top % TopDigit >= TopDigit \div 2
                    ELSE top >= Base \div 2
        repeated == top \div TopDigit = IF negative THEN (Base - 1) \div TopDigit
                                        ELSE 0
    IN  IF n = MaxLeb /\ ~repeated THEN Bad(c)
        ELSE [c EXCEPT !.at = @ + n,
                       !.v = LebValue(c, n) - IF negative THEN Base^n ELSE 0]

ReadS32Leb128(c) ==
    IF ~c.ok \/ LebLengths(c) = {} THEN Bad(c)
    ELSE S32Leb128(c, Min(LebLengths(c)))

ReadIndex(c) == ReadU32Leb128(c)

(* There is a byte left for every item.                                     *)
Countable(count) == Check(count, count.v <= read_end - count.at)
ReadCount(c) == Countable(ReadIndex(c))

BytesAt(length) ==
    IF ~length.ok \/ length.at + length.v > read_end THEN Bad(length)
    ELSE [length EXCEPT !.at = @ + length.v,
                        !.v = SubSeq(data, length.at + 1, length.at + length.v)]

ReadBytes(c) == BytesAt(ReadU32Leb128(c))

(* IsValidUtf8: the bytes with the high bit do not stand alone.             *)
Utf8(s) == IF s.ok THEN Check(s, \A i \in DOMAIN s.v : s.v[i] < Base) ELSE s
ReadStr(c) == Utf8(ReadBytes(c))

IsConcreteType(type) == type \in {I32, I64}
IsBlockType(type) ==
    IsConcreteType(type) \/ type = Void \/ type \in 0 .. counts.signatures - 1

(* The items read before the cursor d, and the one that c read.             *)
Collect(d, c) == With(c, Append(d.v, c.v))

(* n items of a kind of number, checked by the caller.                      *)
ReadIndexes(c, n) ==
    FoldLeft(LAMBDA d, i : Collect(d, ReadIndex(With(d, 0))),
             With(c, <<>>), [i \in 1 .. n |-> i])

(* A counted vector of types.                                               *)
Concrete(type) == Check(type, IsConcreteType(type.v))

TypesAt(count) ==
    IF ~count.ok THEN count
    ELSE FoldLeft(LAMBDA d, i : Collect(d, Concrete(ReadS32Leb128(With(d, 0)))),
                  With(count, <<>>), [i \in 1 .. count.v |-> i])

ReadTypes(c) == TypesAt(ReadCount(c))

Ended(c, expr) ==
    LET end == ReadU8(c) IN With(Check(end, end.v = Op.end), <<expr>>)

(* An initializer whose opcode c has read.                                  *)
InitExprAt(c, require_i32) ==
    LET const == ReadS32Leb128(c)
        index == ReadIndex(c)
    IN  CASE c.ok /\ c.v = Op.end -> With(c, <<>>)
          [] c.ok /\ c.v = Op.i32_const ->
               Ended(const, [op |-> "i32_const", value |-> const.v])
          [] c.ok /\ c.v = Op.i64_const ->
               Ended(Check(const, ~require_i32),
                     [op |-> "i64_const", value |-> const.v])
          [] c.ok /\ c.v = Op.get_global ->
               Ended(index, [op |-> "get_global", index |-> index.v])
          [] OTHER -> Bad(c)

ReadInitExpr(c, require_i32) == InitExprAt(ReadU8(c), require_i32)

(* The limits of a table or of a memory.                                    *)
ReadLimits(c, is_memory) ==
    LET flags == ReadU32Leb128(c)
        initial == ReadU32Leb128(flags)
        has_max == flags.v % 2 = 1
        is_shared == (flags.v \div 2) % 2 = 1
        max == IF has_max THEN ReadU32Leb128(initial) ELSE initial
        bounded == is_memory => initial.v <= MaxPages /\ max.v <= MaxPages
        shared == IF is_memory THEN is_shared => has_max ELSE ~is_shared
    IN  With(Check(max, bounded /\ shared /\ initial.v <= max.v),
             [initial |-> initial.v, is_shared |-> is_shared,
              max |-> IF has_max THEN {max.v} ELSE {}])

ReadTable(c) ==
    LET type == ReadS32Leb128(c) IN ReadLimits(Check(type, type.v = Anyfunc), FALSE)

ReadMemory(c) == ReadLimits(c, TRUE)

ReadGlobalHeader(c) ==
    LET type == ReadS32Leb128(c)
        mutable == ReadU8(type)
    IN  With(Check(mutable, IsConcreteType(type.v) /\ mutable.v <= 1),
             [type |-> type.v, mutable |-> mutable.v = 1])

-----------------------------------------------------------------------------
(* A step that could not read its item: the rest of a custom section is     *)
(* skipped, another one fails.                                              *)
InCustomSection == Len(todo) > 1 /\ todo[2].mark = Custom

Fail ==
    IF InCustomSection /\ ~fail_on_custom_section_error
    THEN /\ offset' = todo[2].end /\ todo' = SubSeq(todo, 1, 2)
         /\ UNCHANGED <<counts, ir, result>>
    ELSE result' = "Error" /\ UNCHANGED <<offset, todo, counts, ir>>

Accept(c, frames, new_counts, module) ==
    IF ~c.ok \/ ~module.ok THEN Fail
    ELSE /\ offset' = c.at /\ todo' = frames /\ counts' = new_counts
         /\ ir' = module /\ UNCHANGED result

ReadModule ==
    /\ Reading("module")
    /\ LET magic == ReadU8(Cursor)
           version == ReadU8(magic)
       IN  Accept(Check(version, magic.v = Magic /\ version.v = Version),
                  Become("sections", 0, 0), counts, ir)

-----------------------------------------------------------------------------
(* ReadSections *)

(* Mutant: a section may come twice.                                        *)
InOrderOrTwice(section) ==
    section = Custom \/ section >= counts.last_known_section

InOrder(section) ==
    /\ section = Custom \/ section > counts.last_known_section
    /\ counts.did_read_names => section = Custom

(* Mutant: the end of a section or subsection is not checked.               *)
FitsAlways(end) == TRUE

Fits(end) == end <= read_end

ReadSectionHeader ==
    /\ Reading("sections") /\ offset < Len(data)
    /\ LET code == ReadU32Leb128(Cursor)
           size == ReadU32Leb128(code)
           end == size.at + size.v
           checked == Check(size, /\ code.v < BinarySectionCount
                                  /\ Fits(end) /\ InOrder(code.v))
       IN  Accept(checked,
                  todo \o <<Frame("end section", 0, end, code.v),
                            Frame("begin", 0, end, code.v)>>, counts, ir)

(* A section with bytes left is an error, a custom one as well.             *)
EndSection ==
    /\ Reading("end section") /\ offset = read_end
    /\ todo' = Front(todo)
    /\ counts' = IF Top.mark = Custom THEN counts
                 ELSE [counts EXCEPT !.last_known_section = Top.mark]
    /\ UNCHANGED <<offset, ir, result>>

UnfinishedSection ==
    /\ Reading("end section") /\ offset # read_end
    /\ result' = "Error" /\ UNCHANGED <<offset, todo, counts, ir>>

EndModule ==
    /\ Reading("sections") /\ offset >= Len(data)
    /\ result' = "Ok" /\ UNCHANGED <<offset, todo, counts, ir>>

Begins(section) == Reading("begin") /\ Top.mark = section

(* The sections that begin with a count: what the count may be, and the     *)
(* counter it is kept in.                                                   *)
CountOk(section, count) ==
    CASE section \in {Table, Memory} -> count <= 1
      [] section = Elem -> count = 0 \/ NumTotalTables > 0
      [] section = Code -> count = counts.functions
      [] section = Data -> count = 0 \/ NumTotalMemories > 0
      [] OTHER -> TRUE

Counters(section, count) ==
    CASE section = Type -> [counts EXCEPT !.signatures = count]
      [] section = Function -> [counts EXCEPT !.functions = count]
      [] section = Table -> [counts EXCEPT !.tables = count]
      [] section = Memory -> [counts EXCEPT !.memories = count]
      [] section = Global -> [counts EXCEPT !.globals = count]
      [] section = Code -> [counts EXCEPT !.bodies = count]
      [] OTHER -> counts

Items == Type :> "type" @@ Import :> "import" @@ Function :> "function"
         @@ Table :> "table" @@ Memory :> "memory" @@ Global :> "global"
         @@ Export :> "export" @@ Elem :> "elem" @@ Code :> "code"
         @@ Data :> "data"

ReadSectionCount(section) ==
    /\ Begins(section)
    /\ LET count == ReadCount(Cursor)
       IN  Accept(Check(count, CountOk(section, count.v)),
                  Become(Items[section], count.v, -1),
                  Counters(section, count.v), ir)

(* The last item of a loop has been read.                                   *)
Loops == {Items[s] : s \in DOMAIN Items}
         \union {"reloc", "exception", "function name", "local function",
                 "local name", "symbol", "segment info", "init function"}

EndItems ==
    /\ result = "reading" /\ Top.loop \in Loops /\ Top.left = 0
    /\ todo' = Front(todo) /\ UNCHANGED <<offset, counts, ir, result>>

ReadType ==
    /\ Item("type")
    /\ LET form == ReadS32Leb128(Cursor)
           params == ReadTypes(Check(form, form.v = Func))
           results == ReadTypes(params)
       IN  Accept(results, Advance, counts,
                  OnType(ir, [params |-> params.v, results |-> results.v]))

(* What is imported, at a cursor that has read the kind.  An unknown kind   *)
(* is neither an import nor an error.                                       *)
ReadImportDesc(c, import) ==
    LET sig == ReadIndex(c)
        table == ReadTable(c)
        memory == ReadMemory(c)
        global == ReadGlobalHeader(c)
        types == ReadTypes(c)
        imported(counter) == [counts EXCEPT ![counter] = @ + 1]
    IN  CASE c.v = KindFunc ->
               Accept(Check(sig, sig.v < counts.signatures), Advance,
                      imported("func_imports"),
                      OnImport(ir, import @@ [sig |-> sig.v]))
          [] c.v = KindTable ->
               Accept(table, Advance, imported("table_imports"),
                      OnImport(ir, import @@ [limits |-> table.v]))
          [] c.v = KindMemory ->
               Accept(memory, Advance, imported("memory_imports"),
                      OnImport(ir, import @@ [limits |-> memory.v]))
          [] c.v = KindGlobal ->
               Accept(global, Advance, imported("global_imports"),
                      OnImport(ir, import @@ global.v))
          [] c.v = KindExcept ->
               Accept(types, Advance, counts,
                      OnImport(ir, import @@ [types |-> types.v]))
          [] OTHER -> Accept(c, Advance, counts, ir)

ReadImport ==
    /\ Item("import")
    /\ LET module_name == ReadStr(Cursor)
           field_name == ReadStr(module_name)
           kind == ReadU8(field_name)
       IN  ReadImportDesc(kind, [module_name |-> module_name.v,
                                 field_name |-> field_name.v, kind |-> kind.v])

ReadFunction ==
    /\ Item("function")
    /\ LET sig == ReadIndex(Cursor)
       IN  Accept(Check(sig, sig.v < counts.signatures), Advance, counts,
                  OnFunction(ir, sig.v))

ReadTableItem ==
    /\ Item("table")
    /\ LET table == ReadTable(Cursor)
       IN  Accept(table, Advance, counts, OnTable(ir, table.v))

ReadMemoryItem ==
    /\ Item("memory")
    /\ LET memory == ReadMemory(Cursor)
       IN  Accept(memory, Advance, counts, OnMemory(ir, memory.v))

ReadGlobal ==
    /\ Item("global")
    /\ LET header == ReadGlobalHeader(Cursor)
           init == ReadInitExpr(header, FALSE)
       IN  Accept(init, Advance, counts,
                  OnGlobal(ir, header.v @@ [init |-> init.v]))

(* Mutant: one function too many may be exported.                           *)
ExportOkPast(kind, index) == kind # KindFunc \/ index <= NumTotalFuncs

(* The exceptions may come later.                                           *)
ExportOk(kind, index) ==
    CASE kind = KindFunc -> index < NumTotalFuncs
      [] kind = KindTable -> index < NumTotalTables
      [] kind = KindMemory -> index < NumTotalMemories
      [] kind = KindGlobal -> index < NumTotalGlobals
      [] kind = KindExcept -> TRUE
      [] OTHER -> FALSE

ReadExport ==
    /\ Item("export")
    /\ LET name == ReadStr(Cursor)
           kind == ReadU8(name)
           index == ReadIndex(kind)
       IN  Accept(Check(index, ExportOk(kind.v, index.v)), Advance, counts,
                  OnExport(ir, [name |-> name.v, kind |-> kind.v,
                                index |-> index.v]))

ReadStartSection ==
    /\ Begins(Start)
    /\ LET index == ReadIndex(Cursor)
       IN  Accept(Check(index, index.v < NumTotalFuncs), Front(todo), counts,
                  OnStartFunction(ir, index.v))

ReadElemSegment ==
    /\ Item("elem")
    /\ LET table == ReadIndex(Cursor)
           init == ReadInitExpr(table, TRUE)
           count == ReadCount(init)
           funcs == ReadIndexes(count, count.v)
       IN  IF ~count.ok THEN Fail
           ELSE Accept(funcs, Advance, counts,
                       OnElemSegment(ir, [table |-> table.v, init |-> init.v,
                                          funcs |-> funcs.v]))

ReadDataSegment ==
    /\ Item("data")
    /\ LET memory == ReadIndex(Cursor)
           init == ReadInitExpr(memory, TRUE)
           bytes == ReadBytes(init)
       IN  Accept(bytes, Advance, counts,
                  OnDataSegment(ir, [memory |-> memory.v, init |-> init.v,
                                     data |-> bytes.v]))

-----------------------------------------------------------------------------
(* ReadCodeSection and ReadFunctionBody *)

ReadLocalDecls(c) ==
    LET count == ReadCount(c)
        decl(d, i) ==
            LET num == ReadIndex(With(d, 0))
                type == ReadS32Leb128(num)
            IN  With(Check(type, num.v > 0 /\ IsConcreteType(type.v)),
                     Append(d.v, [count |-> num.v, type |-> type.v]))
        decls == FoldLeft(decl, With(count, <<>>), [i \in 1 .. count.v |-> i])
        total == FoldLeft(LAMBDA n, d : n + d.count, 0, decls.v)
    IN  IF ~count.ok THEN count ELSE Check(decls, total < MaxU32)

(* Nothing compares the end of the body with that of the section.           *)
ReadFunctionHeader ==
    /\ Item("code")
    /\ LET func_index == counts.func_imports + counts.bodies - Top.left
           body_size == ReadU32Leb128(Cursor)
           end == body_size.at + body_size.v
           locals == ReadLocalDecls(body_size)
       IN  Accept(locals,
                  Append(Advance, Frame("body", 1, read_end, end)),
                  counts, BeginFunctionBody(ir, func_index, locals.v))

end_offset == Top.mark
seen_end_opcode == Top.left = 0

opcode == ReadU8(Cursor)
OpName == CHOOSE name \in DOMAIN Op : Op[name] = opcode.v

InBody == Reading("body") /\ offset < end_offset
Instr(names) == InBody /\ opcode.ok /\ opcode.v \in {Op[name] : name \in names}

ReadBare ==
    /\ Instr({"unreachable", "nop"})
    /\ Accept(opcode, todo, counts, AppendExpr(ir, [op |-> OpName]))

ReadBlock ==
    /\ Instr({"block", "loop", "if", "try"})
    /\ LET sig == ReadS32Leb128(opcode)
       IN  Accept(Check(sig, IsBlockType(sig.v)), todo, counts,
                  OnBlockExpr(ir, [op |-> OpName, sig |-> sig.v], OpName))

ReadIfExcept ==
    /\ Instr({"if_except"})
    /\ LET sig == ReadS32Leb128(opcode)
           except == ReadIndex(Check(sig, IsBlockType(sig.v)))
       IN  Accept(except, todo, counts,
                  OnBlockExpr(ir, [op |-> OpName, sig |-> sig.v,
                                   index |-> except.v], OpName))

ReadElse == Instr({"else"}) /\ Accept(opcode, todo, counts, OnElseExpr(ir))
ReadCatch == Instr({"catch"}) /\ Accept(opcode, todo, counts, OnCatchExpr(ir))

(* An end at the end of the body is that of the function, for the reader:   *)
(* OnEndFunc does nothing.                                                  *)
ReadEnd ==
    /\ Instr({"end"})
    /\ IF opcode.at = end_offset THEN Accept(opcode, Advance, counts, ir)
       ELSE Accept(opcode, todo, counts, OnEndExpr(ir))

ReadWithIndex ==
    /\ Instr({"br", "throw", "get_global"})
    /\ LET index == ReadIndex(opcode)
       IN  Accept(index, todo, counts,
                  AppendExpr(ir, [op |-> OpName, index |-> index.v]))

ReadBrTable ==
    /\ Instr({"br_table"})
    /\ LET num_targets == ReadIndex(opcode)
           targets == ReadIndexes(num_targets, num_targets.v + 1)
       IN  Accept(targets, todo, counts,
                  AppendExpr(ir, [op |-> OpName, targets |-> targets.v]))

ReadCall ==
    /\ Instr({"call"})
    /\ LET index == ReadIndex(opcode)
       IN  Accept(Check(index, index.v < NumTotalFuncs), todo, counts,
                  AppendExpr(ir, [op |-> OpName, index |-> index.v]))

ReadCallIndirect ==
    /\ Instr({"call_indirect"})
    /\ LET index == ReadIndex(opcode)
           reserved == ReadU32Leb128(index)
       IN  Accept(Check(reserved, index.v < counts.signatures /\ reserved.v = 0),
                  todo, counts,
                  AppendExpr(ir, [op |-> OpName, index |-> index.v]))

ReadLoad ==
    /\ Instr({"load"})
    /\ LET align == ReadU32Leb128(opcode)
           address == ReadU32Leb128(align)
       IN  Accept(address, todo, counts,
                  AppendExpr(ir, [op |-> OpName, align |-> align.v,
                                  offset |-> address.v]))

ReadMemorySize ==
    /\ Instr({"memory_size"})
    /\ LET reserved == ReadU32Leb128(opcode)
       IN  Accept(Check(reserved, reserved.v = 0), todo, counts,
                  AppendExpr(ir, [op |-> OpName]))

ReadConst ==
    /\ Instr({"i32_const", "i64_const"})
    /\ LET value == ReadS32Leb128(opcode)
       IN  Accept(value, todo, counts,
                  AppendExpr(ir, [op |-> OpName, value |-> value.v]))

ReadSimd ==
    /\ Instr({"simd"})
    /\ LET code == ReadU32Leb128(opcode)
       IN  Accept(Check(code, code.v \in SimdCodes), todo, counts,
                  AppendExpr(ir, [op |-> OpName, index |-> code.v]))

UnexpectedOpcode ==
    /\ InBody /\ (opcode.ok => opcode.v \notin {Op[name] : name \in DOMAIN Op})
    /\ Fail

ReadInstr ==
    \/ ReadBare \/ ReadBlock \/ ReadIfExcept \/ ReadElse \/ ReadCatch
    \/ ReadEnd \/ ReadWithIndex \/ ReadBrTable \/ ReadCall \/ ReadCallIndirect
    \/ ReadLoad \/ ReadMemorySize \/ ReadConst \/ ReadSimd \/ UnexpectedOpcode

EndBody ==
    /\ Reading("body") /\ offset >= end_offset
    /\ Accept(Check(Cursor, offset = end_offset /\ seen_end_opcode),
              Front(todo), counts, EndFunctionBody(ir))

-----------------------------------------------------------------------------
(* Custom sections *)

(* A custom section, at a cursor that has read its name.                    *)
ReadNamedSection(c) ==
    LET num_relocs == ReadCount(ReadU32Leb128(c))
        version == ReadU32Leb128(c)
        num_exceptions == ReadCount(c)
    IN  CASE c.v = SectionName -> Accept(c, Become("names", 0, -1), counts, ir)
          [] c.v = SectionReloc ->
               Accept(num_relocs, Become("reloc", num_relocs.v, -1), counts, ir)
          [] c.v = SectionLinking ->
               Accept(Check(version, version.v = 1), Become("linking", 0, -1),
                      counts, ir)
          [] c.v = SectionException ->
               Accept(num_exceptions,
                      Become("exception", num_exceptions.v, -1), counts, ir)
          [] OTHER -> Accept([c EXCEPT !.at = read_end], Front(todo), counts, ir)

ReadCustomSection ==
    /\ Begins(Custom)
    /\ LET name == ReadStr(Cursor)
       IN  IF name.ok THEN ReadNamedSection(name) ELSE Fail

ReadException ==
    /\ Item("exception")
    /\ LET types == ReadTypes(Cursor)
       IN  Accept(types, Advance, counts, OnExceptionType(ir, types.v))

ReadReloc ==
    /\ Item("reloc")
    /\ LET type == ReadU32Leb128(Cursor)
           index == ReadIndex(ReadU32Leb128(type))
       IN  Accept(IF type.v \in RelocsWithAddend THEN ReadS32Leb128(index)
                  ELSE index, Advance, counts, ir)

(* A subsection is the loop it begins with, above its end.                  *)
Subsections ==
    [names |-> ModuleNames :> "module name" @@ FunctionNames :> "function names"
               @@ LocalNames :> "local functions",
     linking |-> SymbolTable :> "symbols" @@ SegmentInfo :> "segment infos"
                 @@ InitFunctions :> "init functions"]

(* The types of the name subsections increase.  An empty one of them has no *)
(* count.                                                                   *)
ReadSubsection(section) ==
    /\ Reading(section) /\ offset < read_end
    /\ LET type == ReadU32Leb128(Cursor)
           size == ReadU32Leb128(type)
           end == size.at + size.v
           known == type.v \in DOMAIN Subsections[section]
           empty == section = "names" /\ size.v = 0
           checked == Check(size, /\ Fits(end)
                                  /\ section = "names" => type.v > Top.mark)
           begun == Append([todo EXCEPT ![Len(todo)].mark = type.v],
                           Frame("end subsection", 0, end, -1))
       IN  Accept(IF known \/ ~checked.ok THEN checked
                  ELSE [checked EXCEPT !.at = end],
                  IF ~known \/ empty THEN begun
                  ELSE Append(begun, Frame(Subsections[section][type.v], 1, end, -1)),
                  counts, ir)

EndSubsection ==
    /\ Reading("end subsection")
    /\ Accept(Check(Cursor, offset = read_end), Front(todo), counts, ir)

EndNames ==
    /\ Reading("names") /\ offset >= read_end
    /\ Accept(Cursor, Front(todo), [counts EXCEPT !.did_read_names = TRUE], ir)

EndLinking ==
    /\ Reading("linking") /\ offset >= read_end
    /\ Accept(Cursor, Front(todo), counts, ir)

ReadModuleName ==
    /\ Reading("module name")
    /\ LET name == ReadStr(Cursor)
       IN  Accept(name, Front(todo), counts, OnModuleName(ir, name.v))

ReadFunctionNamesCount ==
    /\ Reading("function names")
    /\ LET count == ReadCount(Cursor)
       IN  Accept(count, Become("function name", count.v, -1), counts,
                  OnFunctionNamesCount(ir, count.v))

(* The functions with names come in order, once each.                       *)
FunctionIndexOk(index) == index.v > Top.mark /\ index.v < NumTotalFuncs

ReadFunctionName ==
    /\ Item("function name")
    /\ LET index == ReadIndex(Cursor)
           name == ReadStr(Check(index, FunctionIndexOk(index)))
       IN  Accept(name, Marked(index.v), counts,
                  OnFunctionName(ir, index.v, name.v))

ReadLocalFunctionCount ==
    /\ Reading("local functions")
    /\ LET count == ReadCount(Cursor)
       IN  Accept(count, Become("local function", count.v, -1), counts, ir)

ReadLocalFunction ==
    /\ Item("local function")
    /\ LET index == ReadIndex(Cursor)
           num_locals == ReadCount(Check(index, FunctionIndexOk(index)))
       IN  Accept(num_locals,
                  Append(Marked(index.v),
                         Frame("local name", num_locals.v, read_end, -1)),
                  counts, OnLocalNameLocalCount(ir, index.v, num_locals.v))

(* The order of the locals is checked, not that they exist.                 *)
ReadLocalName ==
    /\ Item("local name")
    /\ LET index == ReadIndex(Cursor)
           name == ReadStr(Check(index, index.v > Top.mark))
       IN  Accept(name, Marked(index.v), counts,
                  OnLocalName(ir, Last(Front(todo)).mark, index.v, name.v))

(* The numbers of linking entries are not compared with the bytes left.     *)
LinkingItems == "symbols" :> "symbol" @@ "segment infos" :> "segment info"
                @@ "init functions" :> "init function"

ReadLinkingCount ==
    \E loop \in DOMAIN LinkingItems :
        /\ Reading(loop)
        /\ LET count == ReadU32Leb128(Cursor)
           IN  Accept(count, Become(LinkingItems[loop], count.v, -1), counts, ir)

ReadSymbol ==
    /\ Item("symbol")
    /\ LET kind == ReadU32Leb128(Cursor)
           flags == ReadU32Leb128(kind)
           defined == flags.v # Undefined
           index == ReadU32Leb128(flags)
           name == ReadStr(flags)
           size == ReadU32Leb128(ReadU32Leb128(ReadU32Leb128(name)))
           read == CASE kind.v \in {SymbolFunction, SymbolGlobal} ->
                          IF defined THEN ReadStr(index) ELSE index
                     [] kind.v = SymbolData ->
                          IF defined THEN size ELSE name
                     [] kind.v = SymbolSection -> index
                     [] OTHER -> flags
       IN  Accept(read, Advance, counts, ir)

ReadSegmentInfo ==
    /\ Item("segment info")
    /\ Accept(ReadU32Leb128(ReadU32Leb128(ReadStr(Cursor))), Advance, counts, ir)

ReadInitFunction ==
    /\ Item("init function")
    /\ Accept(ReadU32Leb128(ReadU32Leb128(Cursor)), Advance, counts, ir)

-----------------------------------------------------------------------------
ReaderInit ==
    /\ offset = 0 /\ todo = <<>> /\ counts = NoCounts /\ ir = NewIR
    /\ result = "reading"

ReadSections ==
    \/ ReadSectionHeader \/ EndSection \/ UnfinishedSection \/ EndModule
    \/ \E section \in DOMAIN Items : ReadSectionCount(section)
    \/ EndItems \/ ReadType \/ ReadImport \/ ReadFunction \/ ReadTableItem
    \/ ReadMemoryItem \/ ReadGlobal \/ ReadExport \/ ReadStartSection
    \/ ReadElemSegment \/ ReadDataSegment \/ ReadFunctionHeader \/ EndBody

ReadCustomSections ==
    \/ ReadCustomSection \/ ReadException \/ ReadReloc
    \/ \E section \in DOMAIN Subsections : ReadSubsection(section)
    \/ EndSubsection \/ EndNames \/ EndLinking \/ ReadModuleName
    \/ ReadFunctionNamesCount \/ ReadFunctionName \/ ReadLocalFunctionCount
    \/ ReadLocalFunction \/ ReadLocalName \/ ReadLinkingCount \/ ReadSymbol
    \/ ReadSegmentInfo \/ ReadInitFunction

Read == ReadModule \/ ReadSections \/ ReadInstr \/ ReadCustomSections

=============================================================================
