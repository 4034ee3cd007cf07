-------------------------------- MODULE Numeric -------------------------------
(***************************************************************************)
(* One instruction that computes, in the interpreter and in the C that     *)
(* wasm2c writes for it, from any operands of a set.                       *)
(***************************************************************************)
EXTENDS NumericReference

CONSTANTS
    Operands,       \* the values of a field: a function of its name
    Offsets,        \* the offsets of accesses to memory
    ShuffleLanes,   \* the immediates of shuffle
    Memory          \* the bytes of the memory

C == INSTANCE CNumeric

VARIABLES
    row,            \* the instruction
    imm,            \* its immediate
    operands,       \* the values on the stack, the top last
    interp,         \* the thread after it: stack, memory and result
    c,              \* what the C computes
    done            \* whether the instruction has been executed

vars == <<row, imm, operands, interp, c, done>>

(* The immediates of a row; 0 for none.                                     *)
Immediates(r) ==
    CASE r.form \in MemoryForms -> Offsets
      [] r.form \in {"ExtractLane", "ReplaceLane"} -> 0 .. (LaneCount(r.types[1]) - 1)
      [] r.form = "Shuffle" -> ShuffleLanes
      [] OTHER -> {0}

Stacks(fields) ==
    LET values(i) == Operands[fields[i]]
    IN  CASE Len(fields) = 1 -> {<<x>> : x \in values(1)}
          [] Len(fields) = 2 -> values(1) \X values(2)
          [] Len(fields) = 3 -> values(1) \X values(2) \X values(3)

Thread(stack) == [stack |-> stack, memory |-> Memory, result |-> "Ok"]

Init ==
    /\ row \in AllRows \union ControlRows
    /\ imm = 0
    /\ operands = <<>>
    /\ interp = Thread(<<>>)
    /\ c = C!NotWritten
    /\ done = FALSE

InC(r) == r.op[1] \in {"i32", "i64", "f32", "f64"}
          /\ r.form \in {"Unop", "UnopTrap", "Binop", "BinopTrap", "Load", "Store"}
UnaryNames == {"clz", "ctz", "popcnt", "neg", "abs", "sqrt", "ceil", "floor", "trunc",
               "nearest", "extend8_s", "extend16_s", "extend32_s"}

(* The C statement for an instruction (CWriter::Write for an ExprList).     *)
WriteExpr(r, args, offset) ==
    LET shape == r.op[1]
        name == r.op[2]
    IN  CASE r.form = "Load" -> C!WriteLoad(shape, name, Memory, args[1], offset)
          [] r.form = "Store" -> C!WriteStore(shape, name, Memory, args[1], offset, args[2])
          [] r.form \in {"Binop", "BinopTrap"} ->
               IF name \in Comparisons
               THEN C!WriteCompare(C!CTypeOf(shape), name, args[1], args[2])
               ELSE C!WriteBinary(C!CTypeOf(shape), name, args[1], args[2])
          [] name \in UnaryNames -> C!WriteUnary(C!CTypeOf(shape), name, args[1])
          [] OTHER -> C!WriteConvert(shape, name, args[1])

Execute ==
    /\ ~done
    /\ row \in AllRows
    /\ imm' \in Immediates(row)
    /\ operands' \in Stacks(RunPops(row))
    /\ interp' = RunRow(Thread(operands'), row, imm')
    /\ c' = IF InC(row) THEN WriteExpr(row, operands', imm') ELSE C!NotWritten
    /\ done' = TRUE
    /\ UNCHANGED row

Next == Execute
Spec == Init /\ [][Next]_vars

-----------------------------------------------------------------------------
(* What the interpreter made, as the functions return it.                   *)
Outcome ==
    IF interp.result # "Ok" THEN TRAP(interp.result)
    ELSE IF interp.stack = <<>> THEN Ok(interp.memory) ELSE Ok(Last(interp.stack))

TrapNames ==
    [Ok |-> "Ok", DIV_BY_ZERO |-> "IntegerDivideByZero", INT_OVERFLOW |-> "IntegerOverflow",
     INVALID_CONVERSION |-> "InvalidConversionToInteger", OOB |-> "MemoryAccessOutOfBounds"]

(* The instructions that move bits and do not compute with them.            *)
BitMoves == {"load", "abs", "neg", "copysign"}

SameValue(r, x, y) ==
    \/ x = y
    \/ /\ r.form # "Store" /\ r.op[1] \in {"f32", "f64"} /\ r.op[2] \notin BitMoves
       /\ IsNan(ShapeType(r.op[1]).format, x) /\ IsNan(ShapeType(r.op[1]).format, y)

(* The statement that wasm2c writes computes what the interpreter does, or  *)
(* traps for the same reason: at the ends of the integers, for zeros, NaNs  *)
(* and infinities, for shifts by the width, for floats too large for an     *)
(* integer.  Left out is an access whose address needs more than 32 bits    *)
(* (CWriter::Write(const LoadExpr&) cuts the sum).                          *)
EnginesAgree ==
    (done /\ c.trap # "NotWritten") =>
       \/ row.form \in {"Load", "Store"} /\ operands[1] + imm > MaxOf(u32)
       \/ /\ Outcome.trap = TrapNames[c.trap]
          /\ c.trap = "Ok" => SameValue(row, Outcome.value, c.value)

(* The numbers: each case of Run and the function it is given compute what  *)
(* the instruction says, from the laws of division, the digits of shifts    *)
(* and counts, the order of the floats and the rounding of conversions.     *)
NumbersMeet ==
    done =>
      /\ row.form \in {"Unop", "UnopTrap"} => UnaryMeets(row.op, operands[1], Outcome)
      /\ row.form \in {"Binop", "BinopTrap"} =>
            BinaryMeets(row.op, operands[1], operands[2], Outcome)

Result == Outcome.value
LaneOf(T, v, i) == Ok(Lane(T, v, i))

(* The vectors: every lane of the result is what the instruction for one    *)
(* number makes of the lanes, though C++ computes in a wider type; a shift  *)
(* count is taken modulo the width of a lane.                               *)
LanesMeet ==
    done =>
      LET T == ShapeType(row.op[1])
          lanes == 1 .. LaneCount(T)
          x == operands[1]
      IN  CASE row.form = "SimdUnop" ->
                 \A i \in lanes : UnaryMeets(row.op, Lane(T, x, i), LaneOf(T, Result, i))
            [] row.form = "SimdBinop" ->
                 \A i \in lanes : BinaryMeets(row.op, Lane(T, x, i), Lane(T, operands[2], i),
                                              LaneOf(T, Result, i))
            [] row.form = "Shift" ->
                 \A i \in lanes : BinaryMeets(row.op, Lane(T, x, i), operands[2],
                                              LaneOf(T, Result, i))
            [] row.form = "Splat" ->
                 \A i \in lanes : Lane(T, Result, i) = x % 2^Width(T)
            [] row.form = "AnyTrue" -> (Result = 1) = (\E i \in lanes : Lane(T, x, i) # 0)
            [] row.form = "AllTrue" -> (Result = 1) = (\A i \in lanes : Lane(T, x, i) # 0)
            [] row.form = "ExtractLane" ->
                 (Result - Value(T, row.op[2], Lane(T, x, imm + 1)))
                 % 2^(Width(T) + IF Width(T) < Width(u32) THEN Width(u32) - Width(T) ELSE 0) = 0
            [] row.form = "ReplaceLane" ->
                 \A i \in lanes : Lane(T, Result, i) = IF i = imm + 1
                                                       THEN operands[2] % 2^Width(T)
                                                       ELSE Lane(T, x, i)
            [] row.form = "Shuffle" ->
                 \A i \in 1 .. 16 : Result[i] = (x \o operands[2])[imm[i] + 1]
            [] row.form = "BitSelect" ->
                 \A i \in 1 .. 16, d \in Digits(u8) :
                    Digit(Result[i], d) = IF Digit(operands[3][i], d) = 1 THEN Digit(x[i], d)
                                          ELSE Digit(operands[2][i], d)
            [] OTHER -> TRUE

(* Every instruction that computes gives what its definition says.          *)
ResultsCorrect == NumbersMeet /\ LanesMeet

(* The type in memory, from the name of the instruction.                    *)
AccessType(op) ==
    LET sized(suffix) == {"load" \o suffix \o "_s", "load" \o suffix \o "_u"}
                         \union Suffixed({"store", "atomic.load", "atomic.store", "rmw.cmpxchg"}
                                         \union RmwNames({""}), {suffix})
    IN  IF op[1] = "v128" THEN v128
        ELSE IF op[2] \in sized("8") THEN u8 ELSE IF op[2] \in sized("16") THEN u16
        ELSE IF op[2] \in sized("32") THEN u32 ELSE ShapeType(op[1])

(* The number that the bytes of a memory are at an address.                 *)
NumberAt(memory, address, M) ==
    FoldSet(LAMBDA i, n : n + memory[address + i + 1] * 2^(ByteBits * i), 0, 0 .. (M.bytes - 1))

(* What a read-modify-write leaves in memory.                               *)
Modified(op, M, read) ==
    LET x == operands[2] % 2^Width(M)
    IN  CASE op \in Suffixed({"rmw.add"}, {"", "8", "16", "32"}) -> (read + x) % 2^Width(M)
          [] op \in Suffixed({"rmw.sub"}, {"", "8", "16", "32"}) -> (read - x) % 2^Width(M)
          [] op \in Suffixed({"rmw.and"}, {"", "8", "16", "32"}) -> read & x
          [] op \in Suffixed({"rmw.or"}, {"", "8", "16", "32"}) -> read | x
          [] op \in Suffixed({"rmw.xor"}, {"", "8", "16", "32"}) -> read ^^ x
          [] op \in Suffixed({"rmw.xchg"}, {"", "8", "16", "32"}) -> x
          [] op \in Suffixed({"rmw.cmpxchg"}, {"", "8", "16", "32"}) ->
               IF read = x THEN operands[3] % 2^Width(M) ELSE read
          [] OTHER -> x

(* Accesses: the address is the sum of the operand and the offset, without  *)
(* wrapping; an access beyond the memory traps and one that is atomic also  *)
(* when it is not aligned, and neither has written a byte; otherwise the    *)
(* result is the number read, and only the bytes of the access change.      *)
AccessesCorrect ==
    (done /\ row.form \in MemoryForms \ {"Wait", "Wake"}) =>
      LET M == AccessType(row.op)
          address == operands[1] + imm
          atomic == row.form \notin {"Load", "Store"}
          reads == row.form \notin {"Store", "AtomicStore"}
          writes == row.form \notin {"Load", "AtomicLoad"}
          old == NumberAt(Memory, address, M)
          signed == Value(M, row.op[2], old)
      IN  IF address + M.bytes > Len(Memory)
          THEN interp.result = "MemoryAccessOutOfBounds" /\ interp.memory = Memory
          ELSE IF atomic /\ address % M.bytes # 0
          THEN interp.result = "AtomicMemoryAccessUnaligned" /\ interp.memory = Memory
          ELSE /\ interp.result = "Ok"
               /\ \A i \in DOMAIN Memory \ ((address + 1) .. (address + M.bytes)) :
                     interp.memory[i] = Memory[i]
               /\ M # v128 =>
                    /\ reads => Result = signed % 2^Width(ShapeType(row.op[1]))
                    /\ NumberAt(interp.memory, address, M)
                         = IF writes THEN Modified(row.op[2], M, old) ELSE old
               /\ M = v128 => SubSeq(interp.memory, address + 1, address + 16)
                                = IF writes THEN operands[2] ELSE Result

Size(parts) == FoldSeq(LAMBDA part, n : n + part, 0, parts)

(* Those who read the istream keep in step with the one who writes it: Run  *)
(* and Disassemble have one case for every instruction that is emitted and  *)
(* step over as many bytes, and Trace picks the values that Run will pop,   *)
(* by their types.  The data of a br_table is stepped over by Disassemble,  *)
(* and is no instruction to Run and Trace.                                  *)
InStep ==
    ~done =>
      /\ row.form \notin {"Wait", "Wake", "Data"} => RunReads(row) = Emitted(row)
      /\ TracePicks(row.op) = IF row.form = "Data" THEN {} ELSE {RunPops(row)}
      /\ Cardinality(DisassembleReads(row.op)) = 1
      /\ \A d \in DisassembleReads(row.op) :
            Size(d[1]) = Size(Emitted(row)) /\ d[2] = Len(RunPops(row))
=============================================================================
