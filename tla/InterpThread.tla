----------------------------- MODULE InterpThread -----------------------------
(***************************************************************************)
(* The Thread of the interpreter (src/interp.cc) that runs an istream.     *)
(*                                                                         *)
(* The state of a thread is a record th: pc_, the value stack and the call *)
(* stack up to their tops, the global and the memory of the environment,   *)
(* and the Result.  An access below the bottom of the value stack, which   *)
(* the code does not check, has the result Undefined.                      *)
(***************************************************************************)
EXTENDS Integers, Sequences, SequencesExt

CONSTANTS
    Modulus,           \* values are integers modulo this power of two
    value_stack_size, call_stack_size,
    MaxPages,          \* page_limits.max of the memory, a page is one cell
    Table,             \* func_indexes: functions or -1
    HostValue          \* what a host function returns

ASSUME ThreadAssumption ==
    /\ Modulus \in Nat \ {0} /\ HostValue \in 0 .. Modulus - 1
    /\ value_stack_size \in Nat /\ call_stack_size \in Nat
    /\ MaxPages \in Nat

NewThread(pages) ==
    [pc |-> 0, value_stack |-> <<>>, call_stack |-> <<>>, result |-> "Ok",
     global |-> 0, memory |-> [page \in 1 .. pages |-> 0]]

Trap(th, reason) == [th EXCEPT !.result = reason]
Goto(th, offset) == [th EXCEPT !.pc = offset]

Push(th, value) ==
    IF Len(th.value_stack) >= value_stack_size
    THEN Trap(th, "ValueStackExhausted")
    ELSE [th EXCEPT !.value_stack = Append(@, value)]

Pick(th, depth) == th.value_stack[Len(th.value_stack) + 1 - depth]

Pop(th, count) ==
    IF Len(th.value_stack) < count THEN Trap(th, "Undefined")
    ELSE [th EXCEPT !.value_stack = SubSeq(@, 1, Len(@) - count)]

SetPick(th, depth, value) ==
    IF depth \notin 1 .. Len(th.value_stack) THEN Trap(th, "Undefined")
    ELSE [th EXCEPT !.value_stack[Len(th.value_stack) + 1 - depth] = value]

(* Mutant: the values to keep are not moved down.                           *)
DropKeepUnmoved(th, drop_count, keep_count) == Pop(th, drop_count)

(* The values to keep are moved one at a time, from the top.                *)
DropKeep(th, drop_count, keep_count) ==
    LET depths == [n \in 1 .. keep_count |-> n]
        moved == FoldLeft(LAMBDA t, d : SetPick(t, drop_count + d, Pick(t, d)),
                          th, depths)
    IN  Pop(moved, drop_count)

PushCall(th, pc) ==
    IF Len(th.call_stack) >= call_stack_size
    THEN Trap(th, "CallStackExhausted")
    ELSE [th EXCEPT !.call_stack = Append(@, pc)]

(* GetAccessAddress: the sum of the address and of the offset does not      *)
(* overflow.                                                                *)
Accessible(th, addr) == addr + 1 <= Len(th.memory)

(* The host function is external: it returns its results or fails.          *)
CallHost(th, func, host_result) ==
    LET popped == Pop(th, Len(func.sig.params))
    IN  IF popped.result # "Ok" THEN popped
        ELSE IF host_result # "Ok" THEN Trap(popped, "HostTrapped")
        ELSE FoldLeft(LAMBDA t, type : IF t.result = "Ok" THEN Push(t, HostValue)
                                       ELSE t,
                      popped, func.sig.results)

(* Run looks at neither call's Result: whatever CallHost has done to the    *)
(* stack stays, and the next instruction runs.                              *)
CallHostIgnored(th, func, host_result) ==
    [CallHost(th, func, host_result) EXCEPT !.result = IF @ = "Undefined" THEN @
                                                       ELSE "Ok"]

(* value_stack_top_ is moved before it is checked; after the trap nobody    *)
(* reads it until the thread is reset, so here it stays.                    *)
Alloca(th, count) ==
    IF Len(th.value_stack) + count >= value_stack_size
    THEN Trap(th, "ValueStackExhausted")
    ELSE [th EXCEPT !.value_stack = @ \o [n \in 1 .. count |-> 0]]

(* The sum is one of unsigned integers: it wraps.                           *)
MemoryGrow(th, grow_pages) ==
    LET old_page_size == Len(th.memory)
        new_page_size == (old_page_size + grow_pages) % Modulus
    IN  IF new_page_size > MaxPages \/ new_page_size >= Modulus
        THEN Push(th, Modulus - 1)
        ELSE Push([th EXCEPT !.memory =
                      [page \in 1 .. new_page_size |->
                          IF page <= old_page_size THEN @[page] ELSE 0]],
                  old_page_size)

CallIndirect(th, entry_index, sig, funcs, offsets, host_result) ==
    LET func_index == Table[entry_index + 1]
    IN  IF entry_index >= Len(Table) THEN Trap(th, "UndefinedTableIndex")
        ELSE IF func_index = -1 THEN Trap(th, "UninitializedTableElement")
        ELSE IF funcs[func_index].sig # sig
        THEN Trap(th, "IndirectCallSignatureMismatch")
        ELSE IF funcs[func_index].is_host
        THEN CallHostIgnored(th, funcs[func_index], host_result)
        ELSE LET called == PushCall(th, th.pc)
             IN  IF called.result = "Ok" THEN Goto(called, offsets[func_index])
                 ELSE called

(* How far below the top of the value stack an instruction reads it.        *)
Reach(opcode, i32) ==
    CASE opcode \in {"br_unless", "br_table", "set_global", "set_local",
                     "call_indirect", "load", "memory_grow"} -> 1
      [] opcode \in {"store", "sub"} -> 2
      [] opcode = "select" -> 3
      [] opcode = "get_local" -> i32
      [] OTHER -> 0

(* One iteration of the loop in Run.                                        *)
Run(thread, istream, funcs, offsets, host_result) ==
    LET opcode == istream[thread.pc + 1].opcode
        operand(n) == istream[thread.pc + 1 + n].i32
        entry(key) == operand(2) + 3 * (IF key >= operand(1) THEN operand(1)
                                                              ELSE key)
        at(offset) == istream[offset + 1].i32
        th(size) == Goto(thread, thread.pc + size)
        top == Pick(thread, 1)
        load_addr == top + operand(1)
        store_addr == Pick(thread, 2) + operand(1)
    IN  IF Len(thread.value_stack) < Reach(opcode, operand(1))
        THEN Trap(thread, "Undefined")
        ELSE
        CASE opcode = "select" ->
               Push(Pop(th(1), 3),
                    IF top # 0 THEN Pick(thread, 3) ELSE Pick(thread, 2))
          [] opcode = "br" -> Goto(thread, operand(1))
          [] opcode = "br_unless" ->
               Pop(IF top = 0 THEN Goto(thread, operand(1)) ELSE th(2), 1)
          [] opcode = "br_table" ->
               Goto(DropKeep(Pop(thread, 1), at(entry(top) + 1), at(entry(top) + 2)),
                    at(entry(top)))
          [] opcode = "return" ->
               IF thread.call_stack = <<>> THEN Trap(thread, "Returned")
               ELSE [thread EXCEPT !.pc = Last(thread.call_stack),
                                   !.call_stack = Front(@)]
          [] opcode = "unreachable" -> Trap(thread, "Unreachable")
          [] opcode = "const" -> Push(th(2), operand(1))
          [] opcode = "get_global" -> Push(th(2), thread.global)
          [] opcode = "set_global" -> [Pop(th(2), 1) EXCEPT !.global = top]
          [] opcode = "get_local" -> Push(th(2), Pick(thread, operand(1)))
          [] opcode = "set_local" -> SetPick(Pop(th(2), 1), operand(1), top)
          [] opcode = "tee_local" -> SetPick(th(2), operand(1), top)
          [] opcode = "call" ->
               LET called == PushCall(thread, thread.pc + 2)
               IN  IF called.result = "Ok" THEN Goto(called, operand(1))
                   ELSE called
          [] opcode = "call_indirect" ->
               CallIndirect(Pop(th(2), 1), top, funcs[operand(1)].sig, funcs,
                            offsets, host_result)
          [] opcode = "call_host" ->
               CallHostIgnored(th(2), funcs[operand(1)], host_result)
          [] opcode = "load" ->
               IF Accessible(thread, load_addr)
               THEN Push(Pop(th(2), 1), thread.memory[load_addr + 1])
               ELSE Trap(thread, "MemoryAccessOutOfBounds")
          [] opcode = "store" ->
               IF Accessible(thread, store_addr)
               THEN [Pop(th(2), 2) EXCEPT !.memory[store_addr + 1] = top]
               ELSE Trap(thread, "MemoryAccessOutOfBounds")
          [] opcode = "memory_size" -> Push(th(2), Len(thread.memory))
          [] opcode = "memory_grow" -> MemoryGrow(Pop(th(2), 1), top)
          [] opcode = "sub" ->
               Push(Pop(th(2), 2), (Pick(thread, 2) - top) % Modulus)
          [] opcode = "alloca" -> Alloca(th(2), operand(1))
          [] opcode = "drop" -> Pop(th(1), 1)
          [] opcode = "drop_keep" -> DropKeep(th(3), operand(1), operand(2))
          [] OTHER -> Trap(thread, "Undefined")

=============================================================================
