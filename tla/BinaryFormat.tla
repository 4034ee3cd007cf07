----------------------------- MODULE BinaryFormat -----------------------------
(***************************************************************************)
(* A module is written by BinaryWriter, its file may be damaged, and       *)
(* BinaryReader reads it back with BinaryReaderIR.                         *)
(*                                                                         *)
(* The damage is one of: a byte changed, the end cut off, a section        *)
(* repeated, left out or exchanged with the next one.                      *)
(***************************************************************************)
EXTENDS BinaryReader

CONSTANTS
    Modules,      \* the modules that are written
    Options,      \* the WriteBinaryOptions they are written with
    Damage,       \* whether files are damaged
    BadBytes      \* the bytes a byte may become

VARIABLES
    module,   \* the module that is written
    w,        \* the writer
    step,     \* the sections written so far, or Stored
    parts,    \* the bytes of the header and of each section
    damaged   \* whether the file is not the one that was written

W == INSTANCE BinaryWriter

vars == <<data, reader, module, w, step, parts, damaged>>

Stored == 99

Init ==
    /\ module \in Modules
    /\ \E options \in Options : w = W!NewWriter(options)
    /\ step = 0 /\ parts = <<>> /\ damaged = FALSE
    /\ data = <<>> /\ ReaderInit

-----------------------------------------------------------------------------
(* WriteModule *)

WriteStep(number, written) ==
    /\ step = number /\ ~w.unreachable
    /\ w' = written /\ step' = number + 1
    /\ parts' = IF Len(written.stream) = Len(w.stream) THEN parts
                ELSE Append(parts, SubSeq(written.stream, Len(w.stream) + 1,
                                          Len(written.stream)))
    /\ UNCHANGED <<data, reader, module, damaged>>

WriteHeader == WriteStep(0, W!Write(w, <<Magic, Version>>))
WriteTypes == WriteStep(1, W!TypeSection(w, module))
WriteImports == WriteStep(2, W!ImportSection(w, module))
WriteFunctions == WriteStep(3, W!FunctionSection(w, module))
WriteTables == WriteStep(4, W!TableSection(w, module))
WriteMemories == WriteStep(5, W!MemorySection(w, module))
WriteGlobals == WriteStep(6, W!GlobalSection(w, module))
WriteExports == WriteStep(7, W!ExportSection(w, module))
WriteStart == WriteStep(8, W!StartSection(w, module))
WriteElems == WriteStep(9, W!ElemSection(w, module))
WriteExceptions == WriteStep(10, W!ExceptionSection(w, module))
WriteCode == WriteStep(11, W!CodeSection(w, module))
WriteDatas == WriteStep(12, W!DataSection(w, module))
WriteNames == WriteStep(13, W!NameSection(w, module))
WriteRelocations == WriteStep(14, W!RelocSections(w, module))

WriteModule ==
    \/ WriteHeader \/ WriteTypes \/ WriteImports \/ WriteFunctions
    \/ WriteTables \/ WriteMemories \/ WriteGlobals \/ WriteExports
    \/ WriteStart \/ WriteElems \/ WriteExceptions \/ WriteCode \/ WriteDatas
    \/ WriteNames \/ WriteRelocations

-----------------------------------------------------------------------------
Store(bytes) ==
    /\ step = 15 /\ step' = Stored
    /\ data' = bytes /\ damaged' = (bytes # w.stream)
    /\ todo' = <<Frame("module", 0, Len(bytes), -1)>>
    /\ UNCHANGED <<offset, counts, ir, result, module, w, parts>>

StoreAsWritten == Store(w.stream)

StoreChanged ==
    /\ Damage
    /\ \E i \in DOMAIN w.stream, byte \in BadBytes :
           Store([w.stream EXCEPT ![i] = byte])

StoreCut == Damage /\ \E n \in 0 .. Len(w.stream) : Store(SubSeq(w.stream, 1, n))

(* parts[1] is the header.                                                  *)
StoreTwice ==
    /\ Damage
    /\ \E i \in 2 .. Len(parts) :
           Store(FlattenSeq(SubSeq(parts, 1, i) \o SubSeq(parts, i, Len(parts))))

StoreWithout ==
    Damage /\ \E i \in 2 .. Len(parts) : Store(FlattenSeq(RemoveAt(parts, i)))

StoreExchanged ==
    /\ Damage
    /\ \E i \in 2 .. Len(parts) - 1 :
           Store(FlattenSeq([parts EXCEPT ![i] = parts[i + 1],
                                          ![i + 1] = parts[i]]))

StoreFile ==
    \/ StoreAsWritten \/ StoreChanged \/ StoreCut \/ StoreTwice
    \/ StoreWithout \/ StoreExchanged

ReadFile ==
    step = Stored /\ Read /\ UNCHANGED <<data, module, w, step, parts, damaged>>

Terminating == (result # "reading" \/ w.unreachable) /\ UNCHANGED vars

Next == WriteModule \/ StoreFile \/ ReadFile \/ Terminating

Spec == Init /\ [][Next]_vars

-----------------------------------------------------------------------------
NumImports(kind) ==
    Len(SelectSeq(ir.imports, LAMBDA import : import.kind = kind))

AllLoops ==
    Loops \union DOMAIN LinkingItems
    \union {"module", "sections", "end section", "begin", "body", "names",
            "linking", "end subsection", "module name", "function names",
            "local functions"}

TypeOK ==
    /\ module \in Modules /\ w.options \in Options
    /\ step \in 0 .. 15 \union {Stored} /\ damaged \in BOOLEAN
    /\ data \in Seq(Bytes) /\ offset \in Nat
    /\ \A i \in DOMAIN todo : todo[i].loop \in AllLoops /\ todo[i].left \in Nat
    /\ result \in {"reading", "Ok", "Error"}
    /\ \A i \in DOMAIN ir.types :
           ir.types[i].params \o ir.types[i].results \in Seq({I32, I64})
    /\ \A i \in DOMAIN ir.excepts : ir.excepts[i] \in Seq({I32, I64})

(* No read passes the end of what it is in: the offset stays within the     *)
(* innermost read_end_, and each section and subsection within the one it   *)
(* is in, whatever sizes and counts the file holds.  (ReadT, ReadBytes,     *)
(* ReadEndRestoreGuard.)                                                    *)
InBounds ==
    step = Stored =>
        /\ offset <= Last(todo).end
        /\ todo[1].end = Len(data)
        /\ \A i \in 1 .. Len(todo) - 1 : todo[i + 1].end <= todo[i].end

(* Between sections the counters the reader checks indexes with are the     *)
(* sizes of the vectors of the module, in which BinaryReaderIR uses these   *)
(* indexes without a check of its own (module_->funcs[index]).              *)
CountsAgree ==
    step = Stored /\ Last(todo).loop \in {"sections", "end section"} =>
        /\ Len(ir.types) = counts.signatures
        /\ Len(ir.funcs) = NumTotalFuncs
        /\ Len(ir.tables) = NumTotalTables
        /\ Len(ir.memories) = NumTotalMemories
        /\ Len(ir.globals) = NumTotalGlobals

(* Everything a module that was accepted mentions exists, except what the   *)
(* reader leaves to the validator: labels, globals, exceptions and the      *)
(* functions and the table or memory of a segment.                          *)
MentionsExist ==
    result = "Ok" =>
        /\ \A i \in DOMAIN ir.funcs : ir.funcs[i].sig < Len(ir.types)
        /\ \A i \in DOMAIN ir.starts : ir.starts[i] < Len(ir.funcs)
        /\ \A i \in DOMAIN ir.exports :
               ir.exports[i].index <
                   CASE ir.exports[i].kind = KindFunc -> Len(ir.funcs)
                     [] ir.exports[i].kind = KindTable -> Len(ir.tables)
                     [] ir.exports[i].kind = KindMemory -> Len(ir.memories)
                     [] ir.exports[i].kind = KindGlobal -> Len(ir.globals)
                     [] OTHER -> MaxU32 + 1
        /\ \A l \in DOMAIN ir.lists : \A i \in DOMAIN ir.lists[l] :
               LET expr == ir.lists[l][i]
               IN  /\ expr.op = "call" => expr.index < Len(ir.funcs)
                   /\ expr.op = "call_indirect" => expr.index < Len(ir.types)
                   /\ "sig" \in DOMAIN expr => expr.sig < Len(ir.types)

(* Functions with a name have different names, each bound in                *)
(* func_bindings, however often the file repeats a name and whether or not  *)
(* its name section was read to the end.                                    *)
NamesUnique ==
    \A i, j \in DOMAIN ir.func_names :
        ir.func_names[i] # <<>> =>
            /\ ir.func_names[i] \in ir.func_bindings
            /\ ir.func_names[i] = ir.func_names[j] => i = j

(* The expressions of a list of the module that was read, as a tree.        *)
RECURSIVE Tree(_)
Tree(list) ==
    [i \in DOMAIN ir.lists[list] |->
        LET expr == ir.lists[list][i]
        IN  IF "sig" \notin DOMAIN expr THEN expr
            ELSE [expr EXCEPT !.true = Tree(@), !.false = Tree(@)]]

Own(items, kind) == SubSeq(items, NumImports(kind) + 1, Len(items))

LocalBinding(func, index) ==
    LET params == NumParams(ir, func)
    IN  [func |-> func, name |-> module.local_names[func + 1][index + 1],
         of |-> IF index < params THEN "param" ELSE "local",
         index |-> IF index < params THEN index ELSE index - params]

(* What was written is read back, with every combination of options:        *)
(* sections, imports, bodies with the nesting of their blocks, segments     *)
(* and, when they are written, the names.                                   *)
RoundTrip ==
    step = Stored /\ ~damaged =>
        /\ result # "Error"
        /\ result = "Ok" =>
            /\ ir.types = module.types /\ ir.imports = module.imports
            /\ [i \in DOMAIN Own(ir.funcs, KindFunc) |->
                   [Own(ir.funcs, KindFunc)[i] EXCEPT !.exprs = Tree(@)]]
               = module.funcs
            /\ Own(ir.tables, KindTable) = module.tables
            /\ Own(ir.memories, KindMemory) = module.memories
            /\ Own(ir.globals, KindGlobal) = module.globals
            /\ Own(ir.excepts, KindExcept) = module.excepts
            /\ ir.exports = module.exports /\ ir.starts = module.starts
            /\ ir.elems = module.elems /\ ir.datas = module.datas
            /\ w.options.write_debug_names =>
                /\ ir.name = module.name
                /\ ir.func_names = module.func_names
                /\ ir.local_bindings =
                       UNION {{LocalBinding(f - 1, l - 1) :
                                 l \in {k \in DOMAIN module.local_names[f] :
                                           module.local_names[f][k] # <<>>}}
                              : f \in DOMAIN module.local_names}

-----------------------------------------------------------------------------
(* Relocations *)

(* The payload of a section follows its code and its size.                  *)
Payload(part) ==
    LET size == Min({n \in 1 .. MaxLeb : part[n + 1] < Base})
    IN  SubSeq(part, size + 2, Len(part))

PointsAtSymbol(section, reloc) ==
    SubSeq(Payload(parts[section.section_index + 2]),
           reloc.offset + 1, reloc.offset + MaxLeb)
    = FixedU32(w.symbols[reloc.index + 1].element_index)

PointAtSymbols ==
    \A s \in DOMAIN w.written : \A r \in DOMAIN w.written[s].relocs :
        PointsAtSymbol(w.written[s], w.written[s].relocs[r])

(* Symbols are found by the names of functions and globals.                 *)
NamesApart ==
    LET names == module.func_names \o module.global_names
    IN  \A i, j \in DOMAIN names :
            names[i] # <<>> /\ (names[i] = names[j] => i = j)

(* A relocation that was written is at the offset, in the section it names, *)
(* of the index of its symbol, when nothing moves (no canonicalize_lebs)    *)
(* and functions and globals have names of their own.                       *)
FixedRelocations ==
    step = Stored /\ NamesApart /\ ~w.options.canonicalize_lebs => PointAtSymbols

=============================================================================
