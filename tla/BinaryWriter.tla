----------------------------- MODULE BinaryWriter -----------------------------
(***************************************************************************)
(* BinaryWriter (src/binary-writer.cc): writes a module whose names have   *)
(* been resolved, section by section.  A size is written before what it is *)
(* the size of: the writer reserves a guess of one byte, or MaxLeb bytes   *)
(* without canonicalize_lebs, and moves what follows when it knows better. *)
(*                                                                         *)
(* The state is a record w: the stream, the fields last_section_* and      *)
(* section_count_, the relocations and the symbols, and the relocations as *)
(* they were written.  An expression is a record of an opcode, its         *)
(* immediates and the expressions inside it.                               *)
(***************************************************************************)
EXTENDS BinaryCodes

NewWriter(options) ==
    [options |-> options, stream |-> <<>>, section_count |-> 0,
     section_offset |-> 0, payload_offset |-> 0,
     reloc_sections |-> <<>>, symbols |-> <<>>, written |-> <<>>,
     unreachable |-> FALSE]

Write(w, bytes) == [w EXCEPT !.stream = @ \o bytes]

WriteU32Leb128Space(w) ==
    Write(w, [i \in 1 .. (IF w.options.canonicalize_lebs THEN LebSizeGuess
                          ELSE MaxLeb) |-> 0])

(* Mutant: the size is written over what follows it.                        *)
FixupNoMove(w, offset) ==
    LET guess == IF w.options.canonicalize_lebs THEN LebSizeGuess ELSE MaxLeb
        size == Len(w.stream) - offset - guess
        written == IF w.options.canonicalize_lebs THEN U32(size)
                   ELSE FixedU32(size)
    IN  [w EXCEPT !.stream = SubSeq(@, 1, offset) \o written
                             \o SubSeq(@, offset + Len(written) + 1, Len(@))]

(* The size at the offset becomes that of what follows it.                  *)
WriteFixupU32Leb128Size(w, offset) ==
    LET guess == IF w.options.canonicalize_lebs THEN LebSizeGuess ELSE MaxLeb
        size == Len(w.stream) - offset - guess
        written == IF w.options.canonicalize_lebs THEN U32(size)
                   ELSE FixedU32(size)
    IN  [w EXCEPT !.stream = SubSeq(@, 1, offset) \o written
                             \o SubSeq(@, offset + guess + 1, Len(@))]

BeginKnownSection(w, section_code) ==
    LET begun == WriteU32Leb128Space(Write(w, <<section_code>>))
    IN  [begun EXCEPT !.section_offset = Len(w.stream) + 1,
                      !.payload_offset = Len(begun.stream)]

Str(s) == U32(Len(s)) \o s

BeginCustomSection(w, name) == Write(BeginKnownSection(w, Custom), Str(name))

(* The relocations of the latest section that has any move as well.         *)
EndSection(w) ==
    LET fixed == WriteFixupU32Leb128Size(w, w.section_offset)
        delta == Len(fixed.stream) - Len(w.stream)
        last == Len(w.reloc_sections)
    IN  [fixed EXCEPT !.section_count = @ + 1,
                      !.reloc_sections =
                          IF last = 0 THEN @
                          ELSE [@ EXCEPT ![last].relocs =
                                   [i \in DOMAIN @ |->
                                       [@[i] EXCEPT !.offset = @ + delta]]]]

(* A subsection of bytes that are known.                                    *)
Subsection(w, bytes) ==
    WriteFixupU32Leb128Size(Write(WriteU32Leb128Space(w), bytes), Len(w.stream))

-----------------------------------------------------------------------------
(* Relocations.  Symbols are found by name: things without one are the same.*)

GetSymbolIndex(w, symbol) ==
    LET known == {i \in DOMAIN w.symbols : w.symbols[i].name = symbol.name}
    IN  IF known = {} THEN Len(w.symbols) ELSE Min(known) - 1

(* Mutant: offsets from the size of the section, not from what follows it.  *)
AddRelocFromHeader(w, symbol) ==
    [w EXCEPT !.reloc_sections =
                  Append(@, [section_index |-> w.section_count,
                             relocs |-> <<[offset |-> Len(w.stream) - w.section_offset,
                                           type |-> FuncIndexLEB,
                                           index |-> GetSymbolIndex(w, symbol)]>>]),
              !.symbols = IF GetSymbolIndex(w, symbol) < Len(@) THEN @
                          ELSE Append(@, symbol)]

AddReloc(w, symbol) ==
    LET section == [section_index |-> w.section_count, relocs |-> <<>>]
        begun == IF w.reloc_sections # <<>>
                    /\ Last(w.reloc_sections).section_index = w.section_count
                 THEN w.reloc_sections ELSE Append(w.reloc_sections, section)
        reloc == [offset |-> Len(w.stream) - w.payload_offset,
                  type |-> IF symbol.type = SymbolFunction THEN FuncIndexLEB
                           ELSE GlobalIndexLEB,
                  index |-> GetSymbolIndex(w, symbol)]
    IN  [w EXCEPT !.reloc_sections =
                      [begun EXCEPT ![Len(begun)].relocs = Append(@, reloc)],
                  !.symbols = IF reloc.index < Len(@) THEN @
                              ELSE Append(@, symbol)]

WriteU32Leb128WithReloc(w, symbol) ==
    IF w.options.relocatable
    THEN Write(AddReloc(w, symbol), FixedU32(symbol.element_index))
    ELSE Write(w, U32(symbol.element_index))

FuncSymbol(module, index) ==
    [type |-> SymbolFunction, element_index |-> index,
     name |-> module.func_names[index + 1]]
GlobalSymbol(module, index) ==
    [type |-> SymbolGlobal, element_index |-> index,
     name |-> module.global_names[index + 1]]

-----------------------------------------------------------------------------
Types(types) == Counted([i \in DOMAIN types |-> S32(types[i])])

Limits(limits) ==
    U32((IF limits.max # {} THEN 1 ELSE 0) + (IF limits.is_shared THEN 2 ELSE 0))
    \o U32(limits.initial) \o FlattenSeq(SetToSeq({U32(m) : m \in limits.max}))

GlobalHeader(global) ==
    S32(global.type) \o <<IF global.mutable THEN 1 ELSE 0>>

(* A type index only when the type has no code of its own.                  *)
BlockDecl(module, sig) ==
    LET type == module.types[sig + 1]
    IN  IF sig < 0 THEN S32(sig)
        ELSE IF type.params # <<>> \/ Len(type.results) > 1 THEN S32(sig)
        ELSE IF type.results = <<>> THEN S32(Void)
        ELSE S32(type.results[1])

RECURSIVE WriteExprList(_, _, _)

(* The symbol of a type is not implemented: GetSymbolIndex ends in          *)
(* WABT_UNREACHABLE.                                                        *)
WriteExpr(w, expr, module) ==
    LET op == Write(w, <<Op[expr.op]>>)
        list(v, exprs) == WriteExprList(v, exprs, module)
        bytes(v, b) == Write(v, b)
        declared == bytes(op, BlockDecl(module, expr.sig))
        false(v) == IF expr.false = <<>> THEN v
                    ELSE list(bytes(v, <<Op.else>>), expr.false)
    IN  CASE expr.op \in {"block", "loop"} ->
               bytes(list(declared, expr.true), <<Op.end>>)
          [] expr.op = "if" ->
               bytes(false(list(declared, expr.true)), <<Op.end>>)
          [] expr.op = "if_except" ->
               bytes(false(list(bytes(declared, U32(expr.index)), expr.true)),
                     <<Op.end>>)
          [] expr.op = "try" ->
               bytes(list(bytes(list(declared, expr.true), <<Op.catch>>),
                          expr.false), <<Op.end>>)
          [] expr.op \in {"br", "throw"} -> bytes(op, U32(expr.index))
          [] expr.op = "br_table" ->
               bytes(op, U32(Len(expr.targets) - 1)
                         \o FlattenSeq([i \in DOMAIN expr.targets |->
                                           U32(expr.targets[i])]))
          [] expr.op = "call" ->
               WriteU32Leb128WithReloc(op, FuncSymbol(module, expr.index))
          [] expr.op = "get_global" ->
               WriteU32Leb128WithReloc(op, GlobalSymbol(module, expr.index))
          [] expr.op = "call_indirect" ->
               IF w.options.relocatable THEN [op EXCEPT !.unreachable = TRUE]
               ELSE bytes(op, U32(expr.index) \o U32(0))
          [] expr.op = "load" -> bytes(op, <<expr.align>> \o U32(expr.offset))
          [] expr.op = "memory_size" -> bytes(op, U32(0))
          [] expr.op \in {"i32_const", "i64_const"} -> bytes(op, S32(expr.value))
          [] expr.op = "simd" -> bytes(op, U32(expr.index))
          [] OTHER -> op

WriteExprList(w, exprs, module) ==
    FoldLeft(LAMBDA v, expr : WriteExpr(v, expr, module), w, exprs)

WriteInitExpr(w, init, module) ==
    Write(WriteExprList(w, init, module), <<Op.end>>)

WriteFunc(w, func, module) ==
    LET locals == Counted([i \in DOMAIN func.locals |->
                              U32(func.locals[i].count)
                              \o S32(func.locals[i].type)])
        body == WriteExprList(Write(w, locals), func.exprs, module)
    IN  Write(body, <<Op.end>>)

(* The size of a body is not known before it is written.  The relocations   *)
(* in it stay where they were when it moves.                                *)
WriteFuncBody(w, func, module) ==
    WriteFixupU32Leb128Size(WriteFunc(WriteU32Leb128Space(w), func, module),
                            Len(w.stream))

-----------------------------------------------------------------------------
(* WriteModule, a section at a time.                                        *)

(* A section whose items have no relocations.                               *)
Section(w, code, items) ==
    IF items = <<>> THEN w
    ELSE EndSection(Write(BeginKnownSection(w, code), Counted(items)))

TypeSection(w, module) ==
    Section(w, Type, [i \in DOMAIN module.types |->
        S32(Func) \o Types(module.types[i].params)
                  \o Types(module.types[i].results)])

ImportDesc(import) ==
    CASE import.kind = KindFunc -> U32(import.sig)
      [] import.kind = KindTable -> S32(Anyfunc) \o Limits(import.limits)
      [] import.kind = KindMemory -> Limits(import.limits)
      [] import.kind = KindGlobal -> GlobalHeader(import)
      [] import.kind = KindExcept -> Types(import.types)

ImportSection(w, module) ==
    Section(w, Import, [i \in DOMAIN module.imports |->
        LET import == module.imports[i]
        IN  Str(import.module_name) \o Str(import.field_name)
            \o <<import.kind>> \o ImportDesc(import)])

FunctionSection(w, module) ==
    Section(w, Function, [i \in DOMAIN module.funcs |-> U32(module.funcs[i].sig)])

TableSection(w, module) ==
    Section(w, Table, [i \in DOMAIN module.tables |->
        S32(Anyfunc) \o Limits(module.tables[i])])

MemorySection(w, module) ==
    Section(w, Memory, [i \in DOMAIN module.memories |->
        Limits(module.memories[i])])

GlobalSection(w, module) ==
    LET global(v, g) == WriteInitExpr(Write(v, GlobalHeader(g)), g.init, module)
    IN  IF module.globals = <<>> THEN w
        ELSE EndSection(FoldLeft(global,
                 Write(BeginKnownSection(w, Global), U32(Len(module.globals))),
                 module.globals))

ExportSection(w, module) ==
    Section(w, Export, [i \in DOMAIN module.exports |->
        Str(module.exports[i].name) \o <<module.exports[i].kind>>
        \o U32(module.exports[i].index)])

StartSection(w, module) ==
    IF module.starts = <<>> THEN w
    ELSE EndSection(Write(BeginKnownSection(w, Start), U32(Head(module.starts))))

ElemSection(w, module) ==
    LET func(v, index) == WriteU32Leb128WithReloc(v, FuncSymbol(module, index))
        segment(v, s) ==
            FoldLeft(func,
                     Write(WriteInitExpr(Write(v, U32(s.table)), s.init, module),
                           U32(Len(s.funcs))),
                     s.funcs)
    IN  IF module.elems = <<>> THEN w
        ELSE EndSection(FoldLeft(segment,
                 Write(BeginKnownSection(w, Elem), U32(Len(module.elems))),
                 module.elems))

(* The loop starts at the number of imported exceptions and ends at that of *)
(* the others, which the count before it announces.                         *)
ExceptionSection(w, module) ==
    LET imports == Len(SelectSeq(module.imports,
                                 LAMBDA import : import.kind = KindExcept))
        written == SubSeq(module.excepts, 1, Len(module.excepts) - imports)
    IN  IF module.excepts = <<>> THEN w
        ELSE EndSection(Write(BeginCustomSection(w, SectionException),
                 U32(Len(module.excepts))
                 \o FlattenSeq([i \in DOMAIN written |-> Types(written[i])])))

CodeSection(w, module) ==
    IF module.funcs = <<>> THEN w
    ELSE EndSection(FoldLeft(LAMBDA v, func : WriteFuncBody(v, func, module),
             Write(BeginKnownSection(w, Code), U32(Len(module.funcs))),
             module.funcs))

DataSection(w, module) ==
    LET segment(v, s) ==
            Write(WriteInitExpr(Write(v, U32(s.memory)), s.init, module),
                  Str(s.data))
    IN  IF module.datas = <<>> THEN w
        ELSE EndSection(FoldLeft(segment,
                 Write(BeginKnownSection(w, Data), U32(Len(module.datas))),
                 module.datas))

(* Functions without a name are left out, locals without one are not.       *)
NameSection(w, module) ==
    LET names == module.func_names
        named == SelectSeq([i \in DOMAIN names |-> i], LAMBDA i : names[i] # <<>>)
        module_name(v) == IF module.name = <<>> THEN v
                          ELSE Subsection(Write(v, U32(ModuleNames)), Str(module.name))
        func_names(v) == IF named = <<>> THEN v
                         ELSE Subsection(Write(v, U32(FunctionNames)),
                             Counted([i \in DOMAIN named |->
                                 U32(named[i] - 1) \o Str(names[named[i]])]))
        locals(i) == Counted([j \in DOMAIN module.local_names[i] |->
                         U32(j - 1) \o Str(module.local_names[i][j])])
        local_names(v) == Subsection(Write(v, U32(LocalNames)),
                              Counted([i \in DOMAIN names |-> U32(i - 1) \o locals(i)]))
    IN  IF ~w.options.write_debug_names THEN w
        ELSE EndSection(local_names(func_names(module_name(
                 BeginCustomSection(w, SectionName)))))

(* Only the entries of the symbol table for functions and globals exist.    *)
LinkingSection(w, module) ==
    LET imported(kind) == Len(SelectSeq(module.imports,
                                        LAMBDA import : import.kind = kind))
        entry(s) == <<s.type>>
                    \o (IF s.element_index < imported(IF s.type = SymbolFunction
                                                   THEN KindFunc ELSE KindGlobal)
                        THEN U32(Undefined) \o U32(s.element_index)
                        ELSE U32(0) \o U32(s.element_index) \o Str(s.name))
        begun == Write(BeginCustomSection(w, SectionLinking), U32(1))
    IN  EndSection(IF w.symbols = <<>> THEN begun
                   ELSE Subsection(Write(begun, <<SymbolTable>>),
                            Counted([i \in DOMAIN w.symbols |->
                                        entry(w.symbols[i])])))

RelocSection(w, section) ==
    LET body == Counted([i \in DOMAIN section.relocs |->
                    U32(section.relocs[i].type) \o U32(section.relocs[i].offset)
                    \o U32(section.relocs[i].index)])
        begun == [BeginCustomSection(w, SectionReloc)
                     EXCEPT !.written = Append(@, section)]
    IN  EndSection(Write(begun, U32(section.section_index) \o body))

(* EndSection also moves the relocations that WriteRelocSection has yet to  *)
(* write.                                                                   *)
RelocSections(w, module) ==
    IF ~w.options.relocatable THEN w
    ELSE FoldLeft(LAMBDA v, i : RelocSection(v, v.reloc_sections[i]),
                  LinkingSection(w, module),
                  [i \in DOMAIN w.reloc_sections |-> i])

=============================================================================
