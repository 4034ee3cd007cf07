-------------------------------- MODULE Interp --------------------------------
(***************************************************************************)
(* The interpreter: a module is read by BinaryReaderInterp, function by    *)
(* function and instruction by instruction, and then Executor::RunFunction *)
(* runs one of its functions on a Thread.  The reference result, of module *)
(* InterpReference, is computed when the run begins.                       *)
(***************************************************************************)
EXTENDS InterpReference

CONSTANTS
    MaxCallDepth, \* of the C code
    Groups,      \* sequence of sets of instructions: what the entry function
                 \* may be made of
    Bodies,      \* bodies of the other defined functions
    Args,        \* the values it may be called with
    HostResults, \* what host functions may do: Ok, Trap
    Pages,       \* pages of the memory
    MaxInstrs,   \* bound: instructions of the entry function, by group
    MaxRun, MaxLabels  \* bounds: opcodes of a run, nested labels

VARIABLES
    phase,  \* read, run, done or rejected
    rd,     \* the reader
    group,  \* the group of the entry function
    th,     \* the thread
    steps,  \* the instructions it has run
    ref,    \* the reference result
    c       \* what the C code of wasm2c does

vars == <<phase, rd, source, group, th, steps, host, ref, c>>

C == INSTANCE CWriter

Defined == {f \in DOMAIN Funcs : ~Funcs[f].is_host}

(* The operands that the binary reader gives with an instruction: a depth   *)
(* or an index is a number, the function that is called there (for a call   *)
(* by signature, one that has it), and a table has a default target.        *)
(* A constant is the number of its bits, never the -1 that stands for an    *)
(* offset to come.                                                          *)
Immediates(i) ==
    /\ i.op \in {"block", "loop", "if"} =>
          i.type.params \in Seq({I32}) /\ i.type.results \in Seq({I32})
    /\ i.op \in {"call", "call_indirect"} => i.i32 \in DOMAIN Funcs
    /\ i.op \in {"br", "br_if", "get_local", "set_local", "tee_local"}
                   \cup DOMAIN Opcode_Sig => i.i32 \in Nat
    /\ i.op = "br_table" => i.depths \in Seq(Nat) /\ i.depths # <<>>
    /\ i.op \in {"block", "loop", "if", "else", "end", "br", "br_if",
                  "br_table", "return", "unreachable", "call",
                  "call_indirect", "drop", "select", "get_local", "set_local",
                  "tee_local"} \cup DOMAIN Opcode_Sig

ASSUME ProgramAssumption ==
    /\ DOMAIN Funcs \subseteq Nat /\ Entry \in Defined
    /\ \A n \in DOMAIN Groups : \A i \in Groups[n] : Immediates(i)
    /\ \A f \in Defined \ {Entry} :
          \A n \in DOMAIN Bodies[f] : Immediates(Bodies[f][n])

TypeOK ==
    /\ phase \in {"read", "run", "done", "rejected"}
    /\ rd.types \in Seq({I32, AnyType}) /\ rd.labels \in Seq(Label)
    /\ rd.offsets \in [DOMAIN Funcs -> Int]
    /\ Len(rd.label_stack) = Len(rd.labels)
    /\ th.pc \in Nat
    /\ th.value_stack \in Seq(0 .. Modulus - 1) /\ th.call_stack \in Seq(Nat)
    /\ th.global \in 0 .. Modulus - 1
    /\ th.memory \in Seq(0 .. Modulus - 1)
    /\ steps \in 0 .. MaxRun

Idle == NewThread(Pages)

Init ==
    /\ phase = "read" /\ rd = BeginFunctionBody(NewReader, Entry)
    /\ source = [f \in Defined |-> <<>>]
    /\ group \in DOMAIN Groups
    /\ host \in HostResults
    /\ th = Idle /\ steps = 0 /\ ref = Idle /\ c = <<>>

-----------------------------------------------------------------------------
(* Reading *)

Compile(r, i) ==
    CASE i.op = "block" -> OnBlockExpr(r, i.type)
      [] i.op = "loop" -> OnLoopExpr(r, i.type)
      [] i.op = "if" -> OnIfExpr(r, i.type)
      [] i.op = "else" -> OnElseExpr(r)
      [] i.op = "end" -> OnEndExpr(r)
      [] i.op = "br" -> OnBrExpr(r, i.i32)
      [] i.op = "br_if" -> OnBrIfExpr(r, i.i32)
      [] i.op = "br_table" -> OnBrTableExpr(r, i.depths)
      [] i.op = "return" -> OnReturnExpr(r)
      [] i.op = "unreachable" -> OnUnreachableExpr(r)
      [] i.op = "call" -> OnCallExpr(r, i.i32)
      [] i.op = "call_indirect" -> OnCallIndirectExpr(r, i.i32)
      [] i.op = "drop" -> OnDropExpr(r)
      [] i.op = "select" -> OnSelectExpr(r)
      [] i.op \in {"get_local", "set_local", "tee_local"} ->
           OnLocalExpr(r, i.op, i.i32)
      [] OTHER -> OnOpcodeExpr(r, i.op, i.i32)

(* The reader goes on with r, or the module is not loaded.                  *)
Proceed(r) ==
    IF r.ok THEN rd' = r /\ phase' = phase
            ELSE rd' = rd /\ phase' = "rejected"

(* The next instruction of the entry function is any of its group, of       *)
(* another function that of its body.                                       *)
Instrs ==
    LET done == Len(source[rd.func])
    IN  IF rd.func = Entry
        THEN IF done < MaxInstrs[group] THEN Groups[group] ELSE {}
        ELSE {Bodies[rd.func][n] : n \in {done + 1} \cap DOMAIN Bodies[rd.func]}

(* An end that closes the function before its last byte is an error: at the *)
(* latest EndFunctionBody finds no label.                                   *)
ReadInstr(i) ==
    /\ phase = "read"
    /\ i.op \in Opens => Len(rd.labels) < MaxLabels
    /\ Proceed(IF i.op = "end" /\ Len(rd.labels) = 1 THEN Error(rd)
               ELSE Compile(rd, i))
    /\ source' = [source EXCEPT ![rd.func] = Append(@, i)]
    /\ UNCHANGED <<group, th, steps, host, ref, c>>

(* The functions after the entry function are read in their order, from a   *)
(* body whose instructions have all been read.                              *)
ReadFunctionEnd ==
    LET next == {f \in Defined : rd.offsets[f] = kInvalidIstreamOffset}
    IN  /\ phase = "read" /\ next # {}
        /\ rd.func # Entry => source[rd.func] = Bodies[rd.func]
        /\ Proceed(Checked(EndFunctionBody(rd), LAMBDA r :
                      BeginFunctionBody(r, Earliest(next))))
        /\ UNCHANGED <<source, group, th, steps, host, ref, c>>

(* wasm2c writes the functions and the C code runs.                         *)
RunProgram(values, bound) ==
    LET written == [f \in Defined |-> C!WriteFunc(f, source[f])]
    IN  IF \A f \in Defined : written[f].ok
        THEN C!RunC([f \in Defined |-> written[f].out], Entry, values, Pages,
                    host, bound)
        ELSE [result |-> "Unwritten"]

(* The end of the last function, and Executor::RunFunction: PushArgs.       *)
RunFunction(values) ==
    LET r == EndFunctionBody(rd)
    IN  /\ phase = "read"
        /\ \A f \in Defined : rd.offsets[f] # kInvalidIstreamOffset
        /\ rd.func # Entry => source[rd.func] = Bodies[rd.func]
        /\ IF r.ok
           THEN /\ rd' = r /\ phase' = "run"
                /\ th' = [FoldLeft(Push, Idle, values) EXCEPT
                             !.pc = r.offsets[Entry]]
                /\ ref' = Reference(values, Pages)
                /\ c' = RunProgram(values, ref'.steps + 1)
           ELSE /\ phase' = "rejected"
                /\ UNCHANGED <<rd, th, ref, c>>
        /\ UNCHANGED <<source, group, steps, host>>

-----------------------------------------------------------------------------
(* Running *)

(* RunDefinedFunction calls Run until its result is not Ok.                 *)
RunThread ==
    /\ phase = "run" /\ th.result = "Ok" /\ steps < MaxRun
    /\ th' = Run(th, rd.istream, Funcs, rd.offsets, host)
    /\ steps' = steps + 1
    /\ phase' = IF th'.result = "Ok" THEN "run" ELSE "done"
    /\ UNCHANGED <<rd, source, group, host, ref, c>>

Done ==
    /\ \/ phase \in {"done", "rejected"}
       \/ phase = "run" /\ steps = MaxRun
    /\ UNCHANGED vars

Next ==
    \/ \E i \in Instrs : ReadInstr(i)
    \/ ReadFunctionEnd
    \/ \E values \in Args : RunFunction(values)
    \/ RunThread
    \/ Done

Spec == Init /\ [][Next]_vars

-----------------------------------------------------------------------------
(* Properties *)

(* Both stacks keep within their fixed sizes, and an operand that is popped *)
(* is there, through every call, every entry of a function that reserves    *)
(* its locals and every branch that drops and keeps values: nothing but     *)
(* CHECK_STACK and the reader's counts keeps them so.                       *)
StacksInBounds ==
    /\ Len(th.value_stack) <= value_stack_size
    /\ Len(th.call_stack) <= call_stack_size
    /\ th.result # "Undefined"

(* When a function runs no branch, table entry or call of the istream has   *)
(* an offset that was to be filled in later: every fixup of every label and *)
(* of every function has been applied.                                      *)
FixupsApplied ==
    phase = "run" => \A n \in DOMAIN rd.istream :
                        rd.istream[n].i32 # kInvalidIstreamOffset

(* The istream does what the instructions mean: a run ends with the values, *)
(* the trap, the global and the memory of the reference, unless a stack is  *)
(* exhausted or the pages of a memory.grow wrap, and it ends when the       *)
(* reference does (an instruction is at most three opcodes of the istream,  *)
(* and a call has its alloca).                                              *)
Agrees ==
    ref.result # "GrowWraps" =>
    /\ phase = "done" =>
          \/ th.result \in {"ValueStackExhausted", "CallStackExhausted"}
          \/ /\ th.result = ref.result
             /\ th.result = "Returned" => th.value_stack = ref.value_stack
             /\ th.global = ref.global /\ th.memory = ref.memory
    /\ phase = "run" /\ ref.result # "Ok" => steps <= 3 * ref.steps + 2

(* The names that the C code has for the traps of the reference.            *)
CTrap(result) ==
    CASE result \in {"UndefinedTableIndex", "UninitializedTableElement",
                     "IndirectCallSignatureMismatch"} -> "CallIndirect"
      [] result = "MemoryAccessOutOfBounds" -> "OutOfBounds"
      [] OTHER -> result

(* The C code that wasm2c writes does what the instructions mean: it reads  *)
(* no variable that has no value, and it ends with the value, the trap, the *)
(* global and the memory of the reference, unless the calls are too deep or *)
(* the memory is to grow, which this runtime refuses.                       *)
CAgrees ==
    phase = "run" /\ steps = 0 =>
        \/ c.result \in {"Exhaustion", "Aborted"}
        \/ /\ c.result = CTrap(ref.result)
           /\ c.result = "Returned" => c.values = ref.value_stack
           /\ c.result # "Ok" => c.global = ref.global /\ c.memory = ref.memory

=============================================================================
