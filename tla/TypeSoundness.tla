---------------------------- MODULE TypeSoundness -----------------------------
(***************************************************************************)
(* The TypeChecker on the functions the Validator visits, in lockstep with *)
(* one execution of the function.                                          *)
(*                                                                         *)
(* The function is chosen one instruction at a time, in the order in which *)
(* the visitor reports it.  The execution takes one path through the same  *)
(* instructions: it is live at the current one, or it has branched and     *)
(* waits for the end, the else or the catch of the label it goes to, or it *)
(* has left (by a loop, a trap or an exception).  Its stack of values is   *)
(* known by the types of the values.  This is the semantics of wasm, and   *)
(* not a part of wabt: what the types are for.                             *)
(***************************************************************************)
EXTENDS TypeChecker

CONSTANTS
    Opcodes,     \* [params, result]: what an opcode pops and pushes
    BlockTypes,  \* [params, results] of blocks the function may have
    FuncTypes,   \* [params, results] of the functions it may call
    Results,     \* result types it may have
    ExceptSigs,  \* signatures of exceptions
    MaxStack, MaxLabels  \* bounds: operands, nested labels

(* What values have.  AnyType is the checker's own.                         *)
Operand == ValueTypes \cup {ExceptRef}

ASSUME SignaturesAssumption ==
    /\ Opcodes \subseteq
          [params : Seq(Operand), result : Operand \cup {Void}]
    /\ BlockTypes \cup FuncTypes \subseteq
          [params : Seq(Operand), results : Seq(Operand)]
    /\ Results \cup ExceptSigs \subseteq Seq(Operand)

VARIABLES
    type_stack, label_stack,
    result_,     \* Validator::result_: no method has printed
    path         \* the execution

vars == <<type_stack, label_stack, result_, path>>

TypeOK ==
    /\ type_stack \in Seq(Type)
    /\ label_stack \in Seq(Label)
    /\ result_ \in BOOLEAN
    /\ path.mode \in {"live", "end", "else", "catch", "gone", "stuck"}
    /\ path.stack \in Seq(Type) /\ path.heights \in Seq(Nat)
    /\ path.target \in Nat

Init ==
    \E sig \in Results :
       LET st == BeginFunction(sig)
       IN  /\ type_stack = st.types /\ label_stack = st.labels
           /\ result_ = TRUE
           /\ path = [mode |-> "live", stack |-> <<>>, heights |-> <<0>>,
                      target |-> 0]

St == Begin(type_stack, label_stack)

(* The Validator calls a method, ignores the Result and goes on; what the   *)
(* method printed makes its own result an error.                            *)
Visit(st) ==
    /\ type_stack' = st.types /\ label_stack' = st.labels
    /\ result_' = (result_ /\ ~st.said)

-----------------------------------------------------------------------------
(* The execution *)

Live == path.mode = "live"
Labels == Len(label_stack)

EndsWith(s, sig) ==
    Len(s) >= Len(sig) /\ SubSeq(s, Len(s) - Len(sig) + 1, Len(s)) = sig
Minus(s, sig) == SubSeq(s, 1, Len(s) - Len(sig))

Moved(mode, stack) == [path EXCEPT !.mode = mode, !.stack = stack]
Gone == [mode |-> "gone", stack |-> <<>>, heights |-> <<>>, target |-> 0]

(* Waits for label n; of the labels inside of it nothing is remembered.     *)
Waits(mode, n, stack) ==
    [mode |-> mode, stack |-> stack, target |-> n,
     heights |-> SubSeq(path.heights, 1, n)]

(* A live execution pops operands of the types in sig and goes on as next,  *)
(* or is stuck.                                                             *)
Takes(sig, next) ==
    IF ~Live THEN path
    ELSE IF EndsWith(path.stack, sig) THEN next
    ELSE Moved("stuck", path.stack)

Popped(sig) == Minus(path.stack, sig)
Falls(sig, types) == Takes(sig, Moved("live", Popped(sig) \o types))

(* A branch: to the start of a loop, of which it leaves this path, or to    *)
(* the end of the label, with the values of the label on the stack it had.  *)
Branch(depth, stack) ==
    LET n == Labels - depth
        label == label_stack[n]
        sig == br_types(label)
    IN  IF ~EndsWith(stack, sig) \/ Len(stack) < path.heights[n] + Len(sig)
        THEN Moved("stuck", stack)
        ELSE IF label.label_type = "Loop" THEN Gone
        ELSE Waits("end", n, SubSeq(stack, 1, path.heights[n]) \o sig)

Enters(p, params) ==
    IF p.mode # "live" THEN p
    ELSE [p EXCEPT !.heights = Append(@, Len(p.stack) - Len(params))]

(* To the innermost try, or out of the function.                            *)
Raises ==
    LET tries == {n \in 1 .. Labels : label_stack[n].label_type = "Try"}
    IN  IF tries = {} THEN Gone
        ELSE LET n == CHOOSE n \in tries : \A m \in tries : m <= n
             IN  IF Len(path.stack) < path.heights[n]
                 THEN Moved("stuck", path.stack)
                 ELSE Waits("catch", n, SubSeq(path.stack, 1, path.heights[n])
                                        \o <<ExceptRef>>)

(* At the else or the catch of the top label: who arrives goes to its end,  *)
(* and who waits for it goes on.                                            *)
AtSwitch(mode) ==
    IF Live THEN Waits("end", Labels, path.stack)
    ELSE IF path.mode = mode /\ path.target = Labels
    THEN [path EXCEPT !.mode = "live", !.target = 0] ELSE path

AtEnd ==
    IF Live \/ (path.mode \in {"end", "else"} /\ path.target = Labels)
    THEN [path EXCEPT !.mode = "live", !.target = 0, !.heights = Front(@)]
    ELSE path

(* A function with an error is not executed.                                *)
Execute(p) == path' = IF result_' THEN p ELSE Gone

-----------------------------------------------------------------------------
(* The instructions *)

Reading == label_stack # <<>> /\ Len(type_stack) <= MaxStack
MayNest == Reading /\ Labels < MaxLabels
Depths == 0 .. Labels   \* the last one has no label

(* Constants, locals and globals push, other opcodes are in Opcodes.        *)
OpcodeInstr(opcode) ==
    /\ Reading
    /\ Visit(CheckOpcode(St, opcode))
    /\ Execute(Falls(opcode.params,
                     IF opcode.result = Void THEN <<>> ELSE <<opcode.result>>))

CallInstr(f) ==
    /\ Reading
    /\ Visit(PopAndCheckCall(St, f.params, f.results))
    /\ Execute(Falls(f.params, f.results))

CallIndirectInstr(f) ==
    /\ Reading
    /\ Visit(OnCallIndirect(St, f.params, f.results))
    /\ Execute(Falls(f.params \o <<I32>>, f.results))

DropInstr ==
    /\ Reading
    /\ Visit(OnDrop(St))
    /\ Execute(IF Live /\ path.stack # <<>>
               THEN Moved("live", Front(path.stack)) ELSE Falls(<<I32>>, <<>>))

SelectInstr ==
    /\ Reading
    /\ Visit(OnSelect(St))
    /\ LET t == IF Len(path.stack) > 1
                THEN path.stack[Len(path.stack) - 1] ELSE I32
       IN  Execute(Falls(<<t, t, I32>>, <<t>>))

LaneOpcodes == {o \in Opcodes : o.params # <<>> /\ o.result # Void}

LaneInstr(opcode, lane_in_range) ==
    /\ Reading
    /\ Visit(OnSimdLaneOp(St, opcode, lane_in_range))
    /\ Execute(Falls(opcode.params, <<opcode.result>>))

BlockInstr(label_type, b) ==
    /\ MayNest
    /\ Visit(OnBlock(St, label_type, b.params, b.results))
    /\ Execute(Enters(Falls(b.params, b.params), b.params))

(* The condition is true, or the execution waits for the else.              *)
IfInstr(b) ==
    /\ MayNest
    /\ Visit(OnIf(St, b.params, b.results))
    /\ \E mode \in {"live", "else"} :
          LET p == Falls(b.params \o <<I32>>, b.params)
              e == Enters(p, b.params)
          IN  Execute(IF Live /\ p.mode = "live" /\ mode = "else"
                      THEN [e EXCEPT !.mode = "else", !.target = Labels + 1]
                      ELSE e)

IfExceptInstr(b, sig) ==
    /\ MayNest
    /\ Visit(OnIfExcept(St, b.params, b.results, sig))
    /\ \E mode \in {"live", "else"} :
          LET p == Falls(b.params \o <<ExceptRef>>, b.params)
              e == Enters(p, b.params)
          IN  Execute(IF ~(Live /\ p.mode = "live") THEN e
                      ELSE IF mode = "else"
                      THEN [e EXCEPT !.mode = "else", !.target = Labels + 1]
                      ELSE [e EXCEPT !.stack = @ \o sig])

(* ExprVisitor reports an else only inside of an if without one.            *)
ElseInstr ==
    /\ Reading /\ TopLabel(St).label_type \in {"If", "IfExcept"}
    /\ Visit(OnElse(St))
    /\ Execute(AtSwitch("else"))

(* A try has one catch.                                                     *)
CatchInstr ==
    /\ Reading /\ TopLabel(St).label_type = "Try"
    /\ Visit(OnCatch(St))
    /\ Execute(AtSwitch("catch"))

EndInstr ==
    /\ Reading /\ Labels > 1 /\ TopLabel(St).label_type # "Try"
    /\ Visit(OnEnd(St))
    /\ Execute(AtEnd)

BrInstr(depth) ==
    /\ Reading
    /\ Visit(OnBr(St, depth))
    /\ Execute(IF Live /\ depth < Labels THEN Branch(depth, path.stack)
               ELSE path)

BrIfInstr(depth) ==
    /\ Reading
    /\ Visit(OnBrIf(St, depth))
    /\ \E taken \in BOOLEAN :
          Execute(Takes(<<I32>>,
                        IF taken /\ depth < Labels
                        THEN Branch(depth, Popped(<<I32>>))
                        ELSE Moved("live", Popped(<<I32>>))))

(* One target of the table and the default target.                          *)
BrTableInstr(d1, d2) ==
    /\ Reading
    /\ Visit(OnBrTable(St, <<d1, d2>>))
    /\ \E d \in {d1, d2} :
          Execute(Takes(<<I32>>, IF d < Labels THEN Branch(d, Popped(<<I32>>))
                                 ELSE Gone))

ReturnInstr ==
    /\ Reading
    /\ Visit(OnReturn(St))
    /\ Execute(IF Live THEN Branch(Labels - 1, path.stack) ELSE path)

ThrowInstr(sig) ==
    /\ Reading
    /\ Visit(OnThrow(St, sig))
    /\ Execute(Takes(sig, Raises))

RethrowInstr ==
    /\ Reading
    /\ Visit(OnRethrow(St))
    /\ Execute(Takes(<<ExceptRef>>, Raises))

UnreachableInstr ==
    /\ Reading
    /\ Visit(OnUnreachable(St))
    /\ Execute(IF Live THEN Gone ELSE path)

FunctionEnd ==
    /\ Reading /\ Labels = 1
    /\ Visit(EndFunction(St))
    /\ Execute(AtEnd)

Done == ~Reading /\ UNCHANGED vars

Next ==
    \/ \E o \in Opcodes : OpcodeInstr(o)
    \/ \E f \in FuncTypes : CallInstr(f) \/ CallIndirectInstr(f)
    \/ DropInstr \/ SelectInstr
    \/ \E o \in LaneOpcodes, in_range \in BOOLEAN : LaneInstr(o, in_range)
    \/ \E b \in BlockTypes : \/ \E l \in {"Block", "Loop", "Try"} :
                                   BlockInstr(l, b)
                             \/ IfInstr(b)
                             \/ \E s \in ExceptSigs : IfExceptInstr(b, s)
    \/ ElseInstr \/ CatchInstr \/ EndInstr
    \/ \E d \in Depths : BrInstr(d) \/ BrIfInstr(d)
    \/ \E d1 \in Depths : \E d2 \in d1 .. Labels : BrTableInstr(d1, d2)
    \/ ReturnInstr
    \/ \E s \in ExceptSigs : ThrowInstr(s)
    \/ RethrowInstr \/ UnreachableInstr \/ FunctionEnd
    \/ Done

Spec == Init /\ [][Next]_vars

-----------------------------------------------------------------------------
(* Properties *)

(* The limits of nested labels never decrease and never exceed the stack,   *)
(* also after errors, which the Validator does not stop at: resize never    *)
(* grows the stack and size - limit is no negative number.                  *)
LimitsNested ==
    \A n \in DOMAIN label_stack :
        label_stack[n].type_stack_limit <=
            IF n = Labels THEN Len(type_stack)
                          ELSE label_stack[n + 1].type_stack_limit

(* As long as the Validator has found no error, an execution that is live   *)
(* at the instruction being checked has exactly the values on its stack     *)
(* that the type stack says, the instruction is not taken for unreachable,  *)
(* and no instruction misses an operand.  So the number of values under a   *)
(* label, by which the interpreter discards values at a branch, is right.   *)
Sound ==
    result_ =>
        /\ path.mode # "stuck"
        /\ Live => /\ path.stack = type_stack
                   /\ Labels > 0 => ~TopLabel(St).unreachable

-----------------------------------------------------------------------------
(* What makes Sound inductive.  The execution is related to the checker     *)
(* also while it waits: the instructions in between change nothing below    *)
(* the limit of the label it waits for, and no label outside of it.         *)

Path == [mode : {"live", "end", "else", "catch", "gone"},
         stack : Seq(Operand), heights : Seq(Nat), target : Nat]

(* Types that occur in signatures; the parameters are those of a block.     *)
Params == {<<>>} \cup {b.params : b \in BlockTypes}

Concrete(label) == /\ label.param_types \in Seq(Operand) \cap Params
                   /\ label.result_types \in Seq(Operand)

(* The heights of labels 1 to n, and that the end of none is out of reach.  *)
Heights(st, p, n) ==
    /\ Len(p.heights) = n
    /\ \A m \in 1 .. n : p.heights[m] = st.labels[m].type_stack_limit
Reachable(st, n) == \A m \in 1 .. n : ~st.labels[m].unreachable

AgreesLive(st, p) ==
    /\ p.stack = st.types
    /\ Heights(st, p, Len(st.labels)) /\ Reachable(st, Len(st.labels))

(* What a waiting execution has on top of what was there before the label.  *)
Awaited(mode, label) == CASE mode = "end"   -> label.result_types
                          [] mode = "else"  -> label.param_types
                          [] mode = "catch" -> <<ExceptRef>>

AgreesWaiting(st, p) ==
    LET label == st.labels[p.target]
    IN  /\ p.target \in 1 .. Len(st.labels)
        /\ Heights(st, p, p.target) /\ Reachable(st, p.target - 1)
        /\ p.stack = SubSeq(st.types, 1, label.type_stack_limit)
                        \o Awaited(p.mode, label)
        /\ p.mode = "else" => label.label_type \in {"If", "IfExcept"}
        /\ p.mode = "catch" => label.label_type = "Try"

Agrees(st, p) ==
    /\ p \in Path
    /\ p.mode = "live" => AgreesLive(st, p)
    /\ p.mode \in {"end", "else", "catch"} => AgreesWaiting(st, p)

(* The function is the outermost label.                                     *)
WellLabelled(st) ==
    /\ \A n \in 1 .. Len(st.labels) : Concrete(st.labels[n])
    /\ Len(st.labels) # 0 => st.labels[1].label_type = "Func"

SoundInv == result_ => WellLabelled(St) /\ Agrees(St, path)

(* An if that ends without an else has no parameters: OnEnd refuses results *)
(* and not parameters, which the false branch would leave on the stack.     *)
ElselessPlain ==
    EndInstr => (TopLabel(St).label_type \in {"If", "IfExcept"}
                    => TopLabel(St).param_types = <<>>)

=============================================================================
