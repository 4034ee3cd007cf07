-------------------------------- MODULE CWriter --------------------------------
(***************************************************************************)
(* wasm2c: the C code that CWriter (src/c-writer.cc) writes for a function,*)
(* and what that code does.                                                *)
(*                                                                         *)
(* The operand stack of wasm becomes C variables, one for every height and *)
(* type (StackVar), and a branch becomes a goto, before which the value of *)
(* the block is copied to the variable where its end expects it.  What     *)
(* follows a branch in the same list of expressions is not written.        *)
(*                                                                         *)
(* A writer is a record: type_stack_, label_stack_, the statements written *)
(* so far, how deep it is in expressions that are not written (dead), the  *)
(* number of names defined, and whether it has met an assert or something  *)
(* that is UNIMPLEMENTED.  A statement is a record; braces are jumps.      *)
(***************************************************************************)
EXTENDS Integers, Sequences, SequencesExt, FiniteSets

CONSTANTS
    Funcs,         \* the functions: their signatures, number of locals, is_host
    Table,         \* the function of every table entry, or -1
    Modulus,       \* values are integers modulo this power of two
    HostValue,     \* what a host function returns
    I32,           \* the type of values
    MaxCallDepth   \* WASM_RT_MAX_CALL_STACK_DEPTH

NewWriter ==
    [types |-> <<>>, labels |-> <<>>, out |-> <<>>, dead |-> 0, names |-> 0,
     ok |-> TRUE]

Abort(w) == [w EXCEPT !.ok = FALSE]
Emit(w, statements) == [w EXCEPT !.out = @ \o statements]

-----------------------------------------------------------------------------
(* The type stack *)

ResetTypeStack(w, mark) ==
    IF mark > Len(w.types) THEN Abort(w)
    ELSE [w EXCEPT !.types = SubSeq(@, 1, mark)]
PushTypes(w, types) == [w EXCEPT !.types = @ \o types]
DropTypes(w, count) == ResetTypeStack(w, Len(w.types) - count)

(* The variable of the operand with the given number of others above it: of *)
(* its own type, or of the type of the result that it is to hold.           *)
StackVarOf(w, index, type) == <<Len(w.types) - index, type>>
StackVar(w, index) == StackVarOf(w, index, w.types[Len(w.types) - index])

Statement(op, dst, args, imm) ==
    [op |-> op, dst |-> dst, args |-> args, imm |-> imm]
NoVar == <<0, I32>>
Mark(name) == Statement("label", NoVar, <<>>, name)
Goto(name) == Statement("goto", NoVar, <<>>, name)
Unless(var, name) == Statement("unless", NoVar, <<var>>, name)

-----------------------------------------------------------------------------
(* Labels *)

(* Only functions may have parameters, and nothing more than one result.    *)
PushLabel(w, type, sig) ==
    IF (type # "func" /\ sig.params # <<>>) \/ Len(sig.results) > 1
    THEN Abort(w)
    ELSE [w EXCEPT
            !.names = @ + 1,
            !.labels = Append(@, [type |-> type, name |-> w.names + 1,
                                  sig |-> sig.results, used |-> FALSE,
                                  has_else |-> FALSE,
                                  type_stack_size |-> Len(w.types)])]
PopLabel(w) == [w EXCEPT !.labels = Front(@)]

HasValue(label) == label.type # "loop" /\ label.sig # <<>>
FindLabel(w, depth) == Len(w.labels) - depth
UseLabel(w, depth) == [w EXCEPT !.labels[FindLabel(w, depth)].used = TRUE]

LabelDecl(w) ==
    IF Last(w.labels).used THEN Emit(w, <<Mark(<<"end", Last(w.labels).name>>)>>)
    ELSE w

(* Mutant: the value is left where it is.                                   *)
GotoLabelNoCopy(w, depth) ==
    LET label == w.labels[FindLabel(w, depth)]
    IN  <<Goto(<<IF label.type = "loop" THEN "loop" ELSE "end", label.name>>)>>

(* The value of the label is copied, unless it is in its place, and then    *)
(* comes the goto.                                                          *)
GotoLabel(w, depth) ==
    LET label == w.labels[FindLabel(w, depth)]
        dst == Len(w.types) - label.type_stack_size - 1
    IN  (IF HasValue(label) /\ dst # 0
         THEN <<Statement("copy", StackVarOf(w, dst, label.sig[1]),
                          <<StackVar(w, 0)>>, 0)>>
         ELSE <<>>)
        \o <<Goto(<<IF label.type = "loop" THEN "loop" ELSE "end", label.name>>)>>

(* The rest of the list is not written.                                     *)
Dead(w) == [w EXCEPT !.dead = 1]

-----------------------------------------------------------------------------
(* Blocks *)

WriteBlock(w, i) == PushLabel(w, "block", i.type)

WriteLoop(w, i) ==
    Emit(PushLabel(w, "loop", i.type), <<Mark(<<"loop", w.names + 1>>)>>)

WriteIf(w, i) ==
    LET test == Emit(w, <<Unless(StackVar(w, 0), <<"else", w.names + 1>>)>>)
    IN  PushLabel(DropTypes(test, 1), "if", i.type)

WriteElse(w) ==
    LET label == Last(w.labels)
        reset == ResetTypeStack(w, label.type_stack_size)
    IN  [Emit(reset, <<Goto(<<"fi", label.name>>), Mark(<<"else", label.name>>)>>)
            EXCEPT !.labels[Len(w.labels)].has_else = TRUE]

WriteEnd(w) ==
    LET label == Last(w.labels)
        closed == IF label.type # "if" THEN w
                  ELSE IF label.has_else THEN Emit(w, <<Mark(<<"fi", label.name>>)>>)
                  ELSE Emit(w, <<Mark(<<"else", label.name>>)>>)
        declared == IF label.type = "loop" THEN closed ELSE LabelDecl(closed)
    IN  PushTypes(PopLabel(ResetTypeStack(declared, label.type_stack_size)),
                  label.sig)

-----------------------------------------------------------------------------
(* Branches *)

WriteBr(w, depth) == Dead(Emit(UseLabel(w, depth), GotoLabel(w, depth)))

(* The condition is dropped before the value is looked for.                 *)
WriteBrIf(w, depth) ==
    LET skip == <<"skip", Len(w.out)>>
        test == DropTypes(Emit(w, <<Unless(StackVar(w, 0), skip)>>), 1)
    IN  Emit(UseLabel(test, depth), GotoLabel(test, depth) \o <<Mark(skip)>>)

(* switch: a case for every target but the last, which is the default.      *)
WriteBrTable(w, depths) ==
    LET case(n) == <<"case", Len(w.out), n>>
        popped == DropTypes(w, 1)
        used == FoldLeft(UseLabel, popped, depths)
        cases == [n \in DOMAIN depths |->
                     <<Mark(case(n))>> \o GotoLabel(popped, depths[n])]
        switch == Statement("switch", NoVar, <<StackVar(w, 0)>>,
                            [n \in DOMAIN depths |-> case(n)])
    IN  Dead(Emit(used, <<switch>> \o FlattenSeq(cases)))

WriteReturn(w) == WriteBr(w, Len(w.labels) - 1)

-----------------------------------------------------------------------------
(* Calls and simple expressions *)

Results(w, at, sig) ==
    IF sig.results = <<>> THEN NoVar ELSE StackVarOf(w, at, sig.results[1])

WriteCall(w, f) ==
    LET sig == Funcs[f].sig
        count == Len(sig.params)
        args == [n \in 1 .. count |-> StackVar(w, count - n)]
        call == Statement("call", Results(w, count - 1, sig), args, f)
    IN  IF Len(w.types) < count THEN Abort(w)
        ELSE PushTypes(DropTypes(Emit(w, <<call>>), count), sig.results)

WriteCallIndirect(w, f) ==
    LET sig == Funcs[f].sig
        count == Len(sig.params)
        args == [n \in 1 .. count + 1 |-> StackVar(w, count + 1 - n)]
        call == Statement("call_indirect", Results(w, count, sig), args, f)
    IN  IF Len(w.types) <= count THEN Abort(w)
        ELSE PushTypes(DropTypes(Emit(w, <<call>>), count + 1), sig.results)

Operands(w, count) == [n \in 1 .. count |-> StackVar(w, count - n)]

(* An expression with so many operands, of which the first gives its        *)
(* variable to the result.                                                  *)
WriteValue(w, op, count, imm) ==
    LET set == Statement(op, StackVarOf(w, count - 1, I32), Operands(w, count), imm)
    IN  PushTypes(DropTypes(Emit(w, <<set>>), count), <<I32>>)

WriteEffect(w, op, count, imm) ==
    DropTypes(Emit(w, <<Statement(op, NoVar, Operands(w, count), imm)>>), count)

(* A local is assigned and the operand stays.                               *)
WriteTeeLocal(w, n) ==
    Emit(w, <<Statement("set_local", NoVar, Operands(w, 1), n)>>)

WriteExpr(w, i) ==
    CASE i.op = "block" -> WriteBlock(w, i)
      [] i.op = "loop" -> WriteLoop(w, i)
      [] i.op = "if" -> WriteIf(w, i)
      [] i.op = "else" -> WriteElse(w)
      [] i.op = "end" -> WriteEnd(w)
      [] i.op = "br" -> WriteBr(w, i.i32)
      [] i.op = "br_if" -> WriteBrIf(w, i.i32)
      [] i.op = "br_table" -> WriteBrTable(w, i.depths)
      [] i.op = "return" -> WriteReturn(w)
      [] i.op = "unreachable" ->
           Dead(Emit(w, <<Statement("unreachable", NoVar, <<>>, 0)>>))
      [] i.op = "call" -> WriteCall(w, i.i32)
      [] i.op = "call_indirect" -> WriteCallIndirect(w, i.i32)
      [] i.op = "drop" -> DropTypes(w, 1)
      [] i.op = "tee_local" -> WriteTeeLocal(w, i.i32)
      [] i.op = "select" -> WriteValue(w, "select", 3, 0)
      [] i.op \in {"const", "get_local", "get_global", "memory_size"} ->
           WriteValue(w, i.op, 0, i.i32)
      [] i.op \in {"load", "memory_grow"} -> WriteValue(w, i.op, 1, i.i32)
      [] i.op = "sub" -> WriteValue(w, "sub", 2, 0)
      [] i.op \in {"set_local", "set_global"} -> WriteEffect(w, i.op, 1, i.i32)
      [] i.op = "store" -> WriteEffect(w, i.op, 2, i.i32)

(* An expression of the flat list: one in a list that has been left is not  *)
(* written, up to the else or the end of the block that the list belongs to.*)
WriteNext(w, i) ==
    LET live == [w EXCEPT !.dead = 0]
    IN  IF ~w.ok THEN w
        ELSE IF w.dead = 0 THEN WriteExpr(w, i)
        ELSE CASE i.op \in {"block", "loop", "if"} -> [w EXCEPT !.dead = @ + 1]
               [] i.op = "end" -> IF w.dead = 1 THEN WriteEnd(live)
                                  ELSE [w EXCEPT !.dead = @ - 1]
               [] i.op = "else" /\ w.dead = 1 -> WriteElse(live)
               [] OTHER -> w

(* A loop with nothing in it is not written.                                *)
WithoutEmptyLoops(code) ==
    LET empty(n) == /\ n \in DOMAIN code /\ code[n].op = "loop"
                    /\ n + 1 \in DOMAIN code /\ code[n + 1].op = "end"
    IN  FlattenSeq([n \in DOMAIN code |->
            IF empty(n) \/ empty(n - 1) THEN <<>> ELSE <<code[n]>>])

(* FUNC_PROLOGUE, the body, the label of the function, FUNC_EPILOGUE and    *)
(* the return of the operand that is left.                                  *)
WriteFunc(f, code) ==
    LET sig == Funcs[f].sig
        body == FoldLeft(WriteNext, PushLabel(NewWriter, "func", sig),
                         WithoutEmptyLoops(code))
        end == PushTypes(ResetTypeStack(PopLabel(LabelDecl(body)), 0), sig.results)
    IN  Emit(end, <<Statement("return", NoVar,
                              IF sig.results = <<>> THEN <<>>
                              ELSE <<StackVar(end, 0)>>, 0)>>)

-----------------------------------------------------------------------------
(* What the C code does.  A run is a record of frames and, as in the        *)
(* interpreter, a result, the values returned, the global and the memory.   *)
(* A variable has no value before it is assigned.                           *)

NewFrame(f, args) ==
    [func |-> f, pc |-> 1, vars |-> {},
     locals |-> args \o [n \in 1 .. Funcs[f].locals |-> 0]]

ValueOf(vars, var) == (CHOOSE b \in vars : b.var = var).value
HasValues(vars, args) == \A n \in DOMAIN args : \E b \in vars : b.var = args[n]
Assign(vars, var, value) ==
    {b \in vars : b.var # var} \union {[var |-> var, value |-> value]}

Stop(run, result) == [run EXCEPT !.result = result]
Top(run) == Last(run.frames)

Jump(run, code, name) ==
    [run EXCEPT !.frames[Len(run.frames)].pc =
        CHOOSE n \in DOMAIN code : code[n] = Mark(name)]
Step(run) == [run EXCEPT !.frames[Len(run.frames)].pc = @ + 1]
SetVar(run, var, value) ==
    Step([run EXCEPT !.frames[Len(run.frames)].vars = Assign(@, var, value)])

(* FUNC_PROLOGUE counts the calls.  An imported function is the host's.     *)
CallC(run, s, f, args, host) ==
    IF Funcs[f].is_host
    THEN IF host # "Ok" THEN Stop(run, "HostTrapped")
         ELSE IF s.dst = NoVar THEN Step(run) ELSE SetVar(run, s.dst, HostValue)
    ELSE IF Len(run.frames) >= MaxCallDepth THEN Stop(run, "Exhaustion")
    ELSE [run EXCEPT !.frames = Append(@, NewFrame(f, args))]

(* CALL_INDIRECT: all that can be wrong is one trap.                        *)
CallIndirect(run, s, args, host) ==
    LET index == Last(args)
    IN  IF /\ index < Len(Table)
           /\ Table[index + 1] # -1
           /\ Funcs[Table[index + 1]].sig = Funcs[s.imm].sig
        THEN CallC(run, s, Table[index + 1], Front(args), host)
        ELSE Stop(run, "CallIndirect")

(* The value goes to the variable that the call of the caller names.        *)
ReturnC(run, programs, args) ==
    IF Len(run.frames) = 1
    THEN [run EXCEPT !.result = "Returned", !.values = args]
    ELSE LET left == [run EXCEPT !.frames = Front(@)]
             s == programs[Top(left).func][Top(left).pc]
         IN  IF args = <<>> THEN Step(left) ELSE SetVar(left, s.dst, args[1])

(* The address is the sum of two 32 bit numbers in 32 bits, which is made   *)
(* 64 bits wide when it is too late; MEMCHECK.                              *)
Address(base, offset) == (base + offset) % Modulus
OutOfBounds(run, address) == address + 1 > Len(run.memory)

LoadC(run, s, address) ==
    IF OutOfBounds(run, address) THEN Stop(run, "OutOfBounds")
    ELSE SetVar(run, s.dst, run.memory[address + 1])
StoreC(run, address, value) ==
    IF OutOfBounds(run, address) THEN Stop(run, "OutOfBounds")
    ELSE Step([run EXCEPT !.memory[address + 1] = value])

Execute(run, programs, s, args, host) ==
    CASE s.op = "label" -> Step(run)
      [] s.op = "goto" -> Jump(run, programs[Top(run).func], s.imm)
      [] s.op = "unless" ->
           IF args[1] # 0 THEN Step(run)
           ELSE Jump(run, programs[Top(run).func], s.imm)
      [] s.op = "switch" ->
           Jump(run, programs[Top(run).func],
                s.imm[IF args[1] + 1 < Len(s.imm) THEN args[1] + 1 ELSE Len(s.imm)])
      [] s.op = "unreachable" -> Stop(run, "Unreachable")
      [] s.op = "return" -> ReturnC(run, programs, args)
      [] s.op = "call" -> CallC(run, s, s.imm, args, host)
      [] s.op = "call_indirect" -> CallIndirect(run, s, args, host)
      [] s.op = "const" -> SetVar(run, s.dst, s.imm)
      [] s.op = "copy" -> SetVar(run, s.dst, args[1])
      [] s.op = "select" ->
           SetVar(run, s.dst, IF args[3] # 0 THEN args[1] ELSE args[2])
      [] s.op = "sub" -> SetVar(run, s.dst, (args[1] - args[2]) % Modulus)
      [] s.op = "get_local" -> SetVar(run, s.dst, Top(run).locals[s.imm + 1])
      [] s.op = "set_local" ->
           Step([run EXCEPT !.frames[Len(run.frames)].locals[s.imm + 1] = args[1]])
      [] s.op = "get_global" -> SetVar(run, s.dst, run.global)
      [] s.op = "set_global" -> Step([run EXCEPT !.global = args[1]])
      [] s.op = "memory_size" -> SetVar(run, s.dst, Len(run.memory))
      [] s.op = "memory_grow" -> Stop(run, "Aborted")
      [] s.op = "load" -> LoadC(run, s, Address(args[1], s.imm))
      [] s.op = "store" -> StoreC(run, Address(args[1], s.imm), args[2])

(* A statement that reads a variable that has no value makes the run        *)
(* undefined.                                                               *)
ExecuteNext(run, programs, host) ==
    LET frame == Top(run)
        s == programs[frame.func][frame.pc]
    IN  IF ~HasValues(frame.vars, s.args) THEN Stop(run, "Undefined")
        ELSE Execute(run, programs, s,
                     [n \in DOMAIN s.args |-> ValueOf(frame.vars, s.args[n])], host)

(* At most count statements.                                                *)
ExecuteStatements(run, programs, host, count) ==
    LET after[n \in 0 .. count] ==
            IF n = 0 THEN run
            ELSE LET before == after[n - 1]
                 IN  IF before.result # "Ok" THEN before
                     ELSE ExecuteNext(before, programs, host)
    IN  after[count]

(* bound is a number of instructions, for each of which there are at most   *)
(* five statements.                                                         *)
RunC(programs, f, args, pages, host, bound) ==
    LET start == [frames |-> <<NewFrame(f, args)>>, result |-> "Ok",
                  values |-> <<>>, global |-> 0,
                  memory |-> [page \in 1 .. pages |-> 0]]
        after[n \in 0 .. bound] ==
            IF n = 0 THEN start
            ELSE LET run == after[n - 1]
                 IN  IF run.result # "Ok" THEN run
                     ELSE ExecuteStatements(run, programs, host, 5)
        end == after[bound]
    IN  [result |-> end.result, values |-> end.values, global |-> end.global,
         memory |-> end.memory]
=============================================================================
