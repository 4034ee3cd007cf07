--------------------------- MODULE InterpReference ----------------------------
(***************************************************************************)
(* What a function should do: the semantics of its instructions as the     *)
(* wasm specification gives it, and not as wabt implements it.  Every      *)
(* frame has its own locals, operands and labels, a branch goes to the     *)
(* matching end, and no stack is ever full.                                *)
(***************************************************************************)
EXTENDS InterpReader, InterpThread, FiniteSets

CONSTANTS
    Entry,    \* the function that is called
    MaxSteps  \* bound: instructions of a run

VARIABLES
    source,   \* the instructions of the functions
    host      \* what host functions do in this run: Ok or Trap

Opens == {"block", "loop", "if"}

Nest(code, i, j) ==
    Cardinality({n \in i .. j : code[n].op \in Opens})
      - Cardinality({n \in i .. j : code[n].op = "end"})

Earliest(S) == CHOOSE n \in S : \A m \in S : n <= m
EndOf(code, i) == Earliest({j \in i .. Len(code) : Nest(code, i, j) = 0})
ElsesOf(code, i) == {j \in i .. EndOf(code, i) :
                        code[j].op = "else" /\ Nest(code, i, j) = 1}

(* The state: frames, and as for a thread a result, values, global, memory. *)
Frame(f, values) ==
    [func |-> f, ip |-> 1, stack |-> <<>>,
     locals |-> values \o [n \in 1 .. Funcs[f].locals |-> 0],
     labels |-> <<[height |-> 0, arity |-> Len(Funcs[f].sig.results),
                   cont |-> Len(source[f]) + 1, loop |-> FALSE]>>]

Tail_(s, count) == SubSeq(s, Len(s) - count + 1, Len(s))
Cut(s, count) == SubSeq(s, 1, Len(s) - count)

(* The top frame of a state is fr from now on.                              *)
With(st, fr) == [st EXCEPT !.frames[Len(st.frames)] = fr]

BranchTo(fr, depth) ==
    LET n == Len(fr.labels) - depth
        label == fr.labels[n]
    IN  [fr EXCEPT !.ip = label.cont,
                   !.stack = SubSeq(@, 1, label.height)
                             \o Tail_(@, label.arity),
                   !.labels = SubSeq(@, 1, IF label.loop THEN n ELSE n - 1)]

Enter(fr, i, code, ip) ==
    LET b == i.type
        loop == i.op = "loop"
    IN  [fr EXCEPT !.ip = ip,
                   !.labels = Append(@,
           [height |-> Len(fr.stack) - Len(b.params), loop |-> loop,
            arity |-> IF loop THEN Len(b.params) ELSE Len(b.results),
            cont |-> IF loop THEN fr.ip + 1 ELSE EndOf(code, fr.ip) + 1])]

CallRef(st, fr, f) ==
    LET count == Len(Funcs[f].sig.params)
        caller == [fr EXCEPT !.stack = Cut(@, count), !.ip = @ + 1]
    IN  IF ~Funcs[f].is_host
        THEN [With(st, caller) EXCEPT
                !.frames = Append(@, Frame(f, Tail_(fr.stack, count)))]
        ELSE IF host # "Ok" THEN Trap(st, "HostTrapped")
        ELSE With(st, [caller EXCEPT
                !.stack = @ \o [n \in DOMAIN Funcs[f].sig.results |-> HostValue]])

(* The results of a function go to the caller, or are those of the run.     *)
ReturnRef(st, fr) ==
    IF Len(st.frames) = 1
    THEN [st EXCEPT !.result = "Returned", !.value_stack = fr.stack]
    ELSE LET left == [st EXCEPT !.frames = Front(@)]
             caller == Last(left.frames)
         IN  With(left, [caller EXCEPT !.stack = @ \o fr.stack])

(* One instruction.  A memory.grow whose sum of pages wraps fails; what the *)
(* thread does then is no failure, so a run ends here.                      *)
StepRef(st) ==
    LET fr == Last(st.frames)
        code == source[fr.func]
        i == code[fr.ip]
        top == Last(fr.stack)
        second == fr.stack[Len(fr.stack) - 1]
        next == [fr EXCEPT !.ip = @ + 1]
        result(count, values) ==
            With(st, [next EXCEPT !.stack = Cut(@, count) \o values])
        effect(count, s) ==
            With(s, [next EXCEPT !.stack = Cut(@, count)])
    IN  IF fr.ip > Len(code) THEN ReturnRef(st, fr)
        ELSE CASE i.op \in {"block", "loop"} ->
                    With(st, Enter(fr, i, code, fr.ip + 1))
          [] i.op = "if" ->
               LET popped == [fr EXCEPT !.stack = Front(@)]
                   elses == ElsesOf(code, fr.ip)
                   ip == IF elses = {} THEN EndOf(code, fr.ip)
                                       ELSE Earliest(elses) + 1
               IN  With(st, Enter(popped, i, code,
                                  IF top # 0 THEN fr.ip + 1 ELSE ip))
          [] i.op = "else" ->
               With(st, [fr EXCEPT !.ip = Last(fr.labels).cont,
                                   !.labels = Front(@)])
          [] i.op = "end" -> With(st, [next EXCEPT !.labels = Front(@)])
          [] i.op = "br" -> With(st, BranchTo(fr, i.i32))
          [] i.op = "br_if" ->
               With(st, IF top # 0
                        THEN BranchTo([fr EXCEPT !.stack = Front(@)], i.i32)
                        ELSE [next EXCEPT !.stack = Front(@)])
          [] i.op = "br_table" ->
               LET last == Len(i.depths)
               IN  With(st, BranchTo([fr EXCEPT !.stack = Front(@)],
                               i.depths[IF top >= last THEN last ELSE top + 1]))
          [] i.op = "return" -> With(st, BranchTo(fr, Len(fr.labels) - 1))
          [] i.op = "unreachable" -> Trap(st, "Unreachable")
          [] i.op = "call" -> CallRef(st, fr, i.i32)
          [] i.op = "call_indirect" ->
               IF top >= Len(Table) THEN Trap(st, "UndefinedTableIndex")
               ELSE IF Table[top + 1] = -1
               THEN Trap(st, "UninitializedTableElement")
               ELSE IF Funcs[Table[top + 1]].sig # Funcs[i.i32].sig
               THEN Trap(st, "IndirectCallSignatureMismatch")
               ELSE CallRef(st, [fr EXCEPT !.stack = Front(@)], Table[top + 1])
          [] i.op = "const" -> result(0, <<i.i32>>)
          [] i.op = "drop" -> result(1, <<>>)
          [] i.op = "select" ->
               result(3, <<IF top # 0 THEN fr.stack[Len(fr.stack) - 2]
                                      ELSE second>>)
          [] i.op = "get_local" -> result(0, <<fr.locals[i.i32 + 1]>>)
          [] i.op = "set_local" ->
               With(st, [next EXCEPT !.stack = Front(@),
                                     !.locals[i.i32 + 1] = top])
          [] i.op = "tee_local" ->
               With(st, [next EXCEPT !.locals[i.i32 + 1] = top])
          [] i.op = "get_global" -> result(0, <<st.global>>)
          [] i.op = "set_global" -> effect(1, [st EXCEPT !.global = top])
          [] i.op = "load" ->
               IF top + i.i32 >= Len(st.memory)
               THEN Trap(st, "MemoryAccessOutOfBounds")
               ELSE result(1, <<st.memory[top + i.i32 + 1]>>)
          [] i.op = "store" ->
               IF second + i.i32 >= Len(st.memory)
               THEN Trap(st, "MemoryAccessOutOfBounds")
               ELSE effect(2, [st EXCEPT !.memory[second + i.i32 + 1] = top])
          [] i.op = "memory_size" -> result(0, <<Len(st.memory)>>)
          [] i.op = "memory_grow" ->
               IF Len(st.memory) + top >= Modulus THEN Trap(st, "GrowWraps")
               ELSE IF Len(st.memory) + top > MaxPages
               THEN result(1, <<Modulus - 1>>)
               ELSE With([st EXCEPT !.memory = @ \o [n \in 1 .. top |-> 0]],
                         [next EXCEPT !.stack = Append(Front(@),
                                                       Len(st.memory))])
          [] i.op = "sub" -> result(2, <<(second - top) % Modulus>>)

(* The state after at most MaxSteps instructions, and how many they were.   *)
Reference(values, pages) ==
    LET start == [frames |-> <<Frame(Entry, values)>>, result |-> "Ok",
                  value_stack |-> <<>>, global |-> 0, steps |-> 0,
                  memory |-> [page \in 1 .. pages |-> 0]]
        after[n \in 0 .. MaxSteps] ==
            IF n = 0 THEN start
            ELSE LET st == after[n - 1]
                 IN  IF st.result # "Ok" THEN st
                     ELSE [StepRef(st) EXCEPT !.steps = @ + 1]
        st == after[MaxSteps]
    IN  [result |-> st.result, value_stack |-> st.value_stack,
         global |-> st.global, memory |-> st.memory, steps |-> st.steps]

=============================================================================
