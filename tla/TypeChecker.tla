----------------------------- MODULE TypeChecker ------------------------------
(***************************************************************************)
(* wabt's TypeChecker (src/type-checker.cc): the stack of operand types    *)
(* and the stack of labels of the function being read.                     *)
(*                                                                         *)
(* Its methods call one another, so they are operators on a record st of   *)
(* the two stacks and of what the running method has done: ok is the       *)
(* Result it returns, said that it called PrintError.  The Validator looks *)
(* at said only, the reader of the interpreter at ok only.                 *)
(***************************************************************************)
EXTENDS Naturals, Sequences, SequencesExt

CONSTANTS
    ValueTypes,  \* types of values, I32 among them
    I32, ExceptRef, AnyType, Void

ASSUME TypesAssumption ==
    /\ I32 \in ValueTypes /\ ExceptRef \notin ValueTypes
    /\ AnyType \notin ValueTypes \cup {ExceptRef, Void}
    /\ Void \notin ValueTypes \cup {ExceptRef}

Type == ValueTypes \cup {ExceptRef, AnyType}

LabelType == {"Func", "Block", "Loop", "If", "Else", "IfExcept", "Try",
              "Catch"}

Label == [label_type : LabelType, param_types : Seq(Type),
          result_types : Seq(Type), type_stack_limit : Nat,
          unreachable : BOOLEAN]

br_types(label) == IF label.label_type = "Loop" THEN label.param_types
                                                ELSE label.result_types

(* A method begins with no error.                                           *)
Begin(types, labels) ==
    [types |-> types, labels |-> labels, ok |-> TRUE, said |-> FALSE]

Error(st) == [st EXCEPT !.ok = FALSE]
PrintError(st) == [st EXCEPT !.said = TRUE]
ErrorIf(st, failed) == IF failed THEN PrintError(Error(st)) ELSE st

TopLabel(st) == Last(st.labels)
HasLabel(st, depth) == depth < Len(st.labels)
GetLabel(st, depth) == st.labels[Len(st.labels) - depth]

ResetTypeStackToLabel(st, label) ==
    [st EXCEPT !.types = SubSeq(@, 1, label.type_stack_limit)]

SetTop(st, label) == [st EXCEPT !.labels[Len(st.labels)] = label]

SetUnreachable(st) ==
    ResetTypeStackToLabel(SetTop(st, [TopLabel(st) EXCEPT !.unreachable = TRUE]),
                          TopLabel(st))

PushLabel(st, label_type, param_types, result_types) ==
    [st EXCEPT !.labels = Append(@,
        [label_type |-> label_type, param_types |-> param_types,
         result_types |-> result_types, type_stack_limit |-> Len(st.types),
         unreachable |-> FALSE])]

PopLabel(st) == [st EXCEPT !.labels = Front(@)]

(* A label of the wrong type is an Error of which nothing is printed.       *)
CheckLabelType(st, label_type) ==
    IF TopLabel(st).label_type = label_type THEN st ELSE Error(st)

-----------------------------------------------------------------------------
(* The type stack.  Below the limit of the top label nothing is visible;    *)
(* after an unconditional branch there is whatever one looks for.           *)

Visible(st, depth) == TopLabel(st).type_stack_limit + depth < Len(st.types)

PeekType(st, depth) ==
    IF Visible(st, depth) THEN st.types[Len(st.types) - depth] ELSE AnyType

PeekOk(st, depth) == Visible(st, depth) \/ TopLabel(st).unreachable

CheckType(actual, expected) ==
    expected = actual \/ expected = AnyType \/ actual = AnyType

PeekAndCheckType(st, depth, expected) ==
    PeekOk(st, depth) /\ CheckType(PeekType(st, depth), expected)

DropTypes(st, drop_count) ==
    IF TopLabel(st).type_stack_limit + drop_count > Len(st.types)
    THEN [ResetTypeStackToLabel(st, TopLabel(st)) EXCEPT
            !.ok = @ /\ TopLabel(st).unreachable]
    ELSE [st EXCEPT !.types = SubSeq(@, 1, Len(@) - drop_count)]

PushType(st, type) ==
    IF type = Void THEN st ELSE [st EXCEPT !.types = Append(@, type)]

PushTypes(st, types) == [st EXCEPT !.types = @ \o types]

CheckTypeStackEnd(st) ==
    ErrorIf(st, Len(st.types) # TopLabel(st).type_stack_limit)

SignatureMatches(st, sig) ==
    \A i \in DOMAIN sig : PeekAndCheckType(st, Len(sig) - i, sig[i])

CheckSignature(st, sig) == ErrorIf(st, ~SignatureMatches(st, sig))

PopAndCheckSignature(st, sig) == DropTypes(CheckSignature(st, sig), Len(sig))

PopAndCheckCall(st, param_types, result_types) ==
    PushTypes(PopAndCheckSignature(st, param_types), result_types)

(* CheckOpcode1, CheckOpcode2 and CheckOpcode3, PopAndCheckNTypes.          *)
CheckOpcode(st, opcode) ==
    PushType(PopAndCheckSignature(st, opcode.params), opcode.result)

-----------------------------------------------------------------------------
(* The methods *)

BeginFunction(sig) == PushLabel(Begin(<<>>, <<>>), "Func", <<>>, sig)

(* OnBlock, OnLoop and OnTry.                                               *)
OnBlock(st, label_type, ps, rs) ==
    PushTypes(PushLabel(PopAndCheckSignature(st, ps), label_type, ps, rs), ps)

(* Mutant: the label is pushed before the condition is popped.             *)
OnIfLabelFirst(st, ps, rs) ==
    [OnBlock(PopAndCheckSignature(st, <<I32>>), "If", ps, rs) EXCEPT
        !.labels = OnBlock(st, "If", ps, rs).labels]

OnIf(st, ps, rs) ==
    OnBlock(PopAndCheckSignature(st, <<I32>>), "If", ps, rs)

OnIfExcept(st, ps, rs, except_sig) ==
    PushTypes(OnBlock(PopAndCheckSignature(st, <<ExceptRef>>), "IfExcept",
                      ps, rs),
              except_sig)

OnBr(st, depth) ==
    IF HasLabel(st, depth)
    THEN SetUnreachable(CheckSignature(st, br_types(GetLabel(st, depth))))
    ELSE PrintError(Error(st))

OnBrIf(st, depth) ==
    LET popped == PopAndCheckSignature(st, <<I32>>)
    IN  IF HasLabel(st, depth)
        THEN LET sig == br_types(GetLabel(st, depth))
             IN  PushTypes(PopAndCheckSignature(popped, sig), sig)
        ELSE PrintError(Error(popped))

(* A target has a label, and the signature of the first one that has one.   *)
OnBrTableTarget(st, depth, br_table_sig) ==
    /\ HasLabel(st, depth)
    /\ SignatureMatches(st, br_types(GetLabel(st, depth)))
    /\ br_types(GetLabel(st, depth)) = br_table_sig

(* BeginBrTable, OnBrTableTarget for every target, EndBrTable.              *)
OnBrTable(st, depths) ==
    LET begun == PopAndCheckSignature(st, <<I32>>)
        known == SelectSeq(depths, LAMBDA d : HasLabel(st, d))
        sig == IF known = <<>> THEN <<>> ELSE br_types(GetLabel(st, known[1]))
    IN  SetUnreachable(
           ErrorIf(begun, \E i \in DOMAIN depths :
                             ~OnBrTableTarget(begun, depths[i], sig)))

OnCallIndirect(st, ps, rs) ==
    PopAndCheckCall(PopAndCheckSignature(st, <<I32>>), ps, rs)

(* The end of a true branch or of a try block: its results are checked and  *)
(* the label becomes another one.                                           *)
Switch(st, from, to, types) ==
    LET label == TopLabel(st)
        ended == CheckTypeStackEnd(PopAndCheckSignature(
                    CheckLabelType(st, from), label.result_types))
    IN  PushTypes(SetTop(ResetTypeStackToLabel(ended, label),
                         [label EXCEPT !.label_type = to,
                                       !.unreachable = FALSE]),
                  types)

(* Mutant: the else branch begins with an empty stack.                      *)
OnElseNoParams(st) == Switch(st, "If", "Else", <<>>)

OnElse(st) == Switch(st, "If", "Else", TopLabel(st).param_types)
OnCatch(st) == Switch(st, "Try", "Catch", <<ExceptRef>>)

EndLabel(st) ==
    LET label == TopLabel(st)
        ended == CheckTypeStackEnd(PopAndCheckSignature(st, label.result_types))
    IN  PopLabel(PushTypes(ResetTypeStackToLabel(ended, label),
                           label.result_types))

(* An if without else cannot have results.                                  *)
OnEnd(st) ==
    EndLabel(ErrorIf(st, /\ TopLabel(st).label_type \in {"If", "IfExcept"}
                         /\ TopLabel(st).result_types # <<>>))

EndFunction(st) == EndLabel(CheckLabelType(st, "Func"))

OnDrop(st) ==
    LET dropped == DropTypes(st, 1)
    IN  IF dropped.ok THEN dropped ELSE PrintError(dropped)

OnSelect(st) ==
    LET type == PeekType(st, 1)
        checked == ErrorIf(st, \/ ~PeekAndCheckType(st, 0, I32)
                               \/ ~PeekOk(st, 1)
                               \/ ~PeekAndCheckType(st, 2, type))
    IN  PushType(DropTypes(checked, 3), type)

OnReturn(st) ==
    SetUnreachable(PopAndCheckSignature(st, st.labels[1].result_types))

OnThrow(st, sig) == SetUnreachable(PopAndCheckSignature(st, sig))
OnRethrow(st) == SetUnreachable(PopAndCheckSignature(st, <<ExceptRef>>))
OnUnreachable(st) == SetUnreachable(st)

(* OnSimdLaneOp and OnSimdShuffleOp: a bad lane is printed, no more.        *)
OnSimdLaneOp(st, opcode, lane_in_range) ==
    CheckOpcode(IF lane_in_range THEN st ELSE PrintError(st), opcode)

=============================================================================
