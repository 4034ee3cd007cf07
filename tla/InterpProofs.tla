----------------------------- MODULE InterpProofs -----------------------------
(***************************************************************************)
(* The istream that BinaryReaderInterp writes: every operand that is left  *)
(* open is filled in before a function runs (FixupsAlways), for any        *)
(* functions, block types and instructions.                                *)
(*                                                                         *)
(* The argument: an operand that is Open is always Due, by a pair of       *)
(* depth_fixups or func_fixups or by the fixup_offset of a label that is   *)
(* an if or an else.  What is due at a label is filled in before the label *)
(* is popped, what is due at a function when its offset becomes known, and *)
(* at the end no label is left and every function has its offset.  That no *)
(* count of values to drop is taken for an open operand (a drop of -1      *)
(* would be) rests on the type checker: where a branch is accepted its     *)
(* operands lie above the limit of the top label, and the limits of nested *)
(* labels never decrease.                                                  *)
(***************************************************************************)
EXTENDS Interp, SequenceTheorems, WellFoundedInduction, TLAPS

-----------------------------------------------------------------------------
(* The reader *)

(* The opcodes that the reader writes, and the mark of an operand.          *)
Opcodes ==
    {"operand", "alloca", "drop", "drop_keep", "br", "br_unless", "br_table",
     "data", "return", "unreachable", "call", "call_host", "call_indirect",
     "select", "get_local", "set_local", "tee_local"} \cup DOMAIN Opcode_Sig

Cell == [opcode : Opcodes, i32 : Int]
LabelPlace == [offset : Int, fixup_offset : Int]

(* The fields of BinaryReaderInterp and of its type checker.                *)
Reader ==
    [types : Seq(Type), labels : Seq(Label), ok : BOOLEAN, said : BOOLEAN,
     istream : Seq(Cell), label_stack : Seq(LabelPlace),
     depth_fixups : SUBSET (Nat \X Nat),
     func_fixups : SUBSET (Defined \X Nat), func : Nat,
     offsets : [DOMAIN Funcs -> Int]]

(* The labels lie one above the other, and only the first is a function's.  *)
Stacked(st) ==
    /\ st \in Reader
    /\ \A i \in 1 .. Len(st.labels) :
          /\ st.labels[i].type_stack_limit <= Len(st.types)
          /\ \A j \in 1 .. i : st.labels[j].type_stack_limit
                                  <= st.labels[i].type_stack_limit
          /\ st.labels[i].label_type \in IF i = 1 THEN {"Func"}
                                         ELSE {"Block", "Loop", "If", "Else"}

(* Operands that are open, by their offset.                                 *)
Open(st) == {n \in Nat : /\ n + 1 \in DOMAIN st.istream
                         /\ st.istream[n + 1].i32 = kInvalidIstreamOffset}

(* The fixups that will be applied: those of a label at its end, those of a *)
(* function when its offset is known, that of an if at its else or end.     *)
Due(st) ==
    {x[2] : x \in st.depth_fixups}
    \cup {x[2] : x \in {y \in st.func_fixups :
                           st.offsets[y[1]] = kInvalidIstreamOffset}}
    \cup {st.label_stack[k].fixup_offset :
             k \in {k \in DOMAIN st.label_stack :
                       st.labels[k].label_type \in {"If", "Else"}}}

(* Between two instructions.                                                *)
Fixable(st) ==
    /\ Stacked(st)
    /\ Len(st.label_stack) = Len(st.labels)
    /\ \A x \in st.depth_fixups : x[1] < Len(st.labels)
    /\ Open(st) \subseteq Due(st)

(* What belongs to the reader and not to its type checker.                  *)
Apart(st, t) ==
    /\ t.istream = st.istream /\ t.label_stack = st.label_stack
    /\ t.depth_fixups = st.depth_fixups /\ t.func_fixups = st.func_fixups
    /\ t.func = st.func /\ t.offsets = st.offsets

(* A method of the type checker that changes operands only.                 *)
Keeps(st, t) ==
    /\ t \in Reader /\ Apart(st, t) /\ t.labels = st.labels
    /\ TopLabel(st).type_stack_limit <= Len(t.types)
    /\ t.ok => st.ok

(* With a label.                                                            *)
Within(st) == Stacked(st) /\ st.labels # <<>>

(* The operands that a label can see are as many as wanted.                 *)
Enough(st, n) ==
    \/ TopLabel(st).unreachable
    \/ TopLabel(st).type_stack_limit + n <= Len(st.types)

-----------------------------------------------------------------------------
(* The type checker *)

(* What the fields of a reader are.                                         *)
LEMMA FieldTypes ==
    ASSUME NEW st \in Reader
    PROVE  /\ st.types \in Seq(Type) /\ st.labels \in Seq(Label)
           /\ Len(st.types) \in Nat /\ Len(st.labels) \in Nat
           /\ st.ok \in BOOLEAN /\ st.said \in BOOLEAN
           /\ st.istream \in Seq(Cell) /\ Len(st.istream) \in Nat
           /\ st.label_stack \in Seq(LabelPlace) /\ Len(st.label_stack) \in Nat
           /\ st.depth_fixups \subseteq Nat \X Nat
           /\ st.func_fixups \subseteq Defined \X Nat
           /\ st.func \in Nat /\ st.offsets \in [DOMAIN Funcs -> Int]
BY DEF Reader

(* The type stack is replaced.                                              *)
LEMMA WithTypes ==
    ASSUME NEW st \in Reader, NEW types \in Seq(Type)
    PROVE  /\ [st EXCEPT !.types = types] \in Reader
           /\ [st EXCEPT !.types = types].types = types
           /\ [st EXCEPT !.types = types].labels = st.labels
           /\ [st EXCEPT !.types = types].ok = st.ok
           /\ Apart(st, [st EXCEPT !.types = types])
BY DEF Reader, Apart

(* The label stack of the type checker is replaced.                         *)
LEMMA WithLabels ==
    ASSUME NEW st \in Reader, NEW labels \in Seq(Label)
    PROVE  /\ [st EXCEPT !.labels = labels] \in Reader
           /\ [st EXCEPT !.labels = labels].labels = labels
           /\ [st EXCEPT !.labels = labels].types = st.types
           /\ [st EXCEPT !.labels = labels].ok = st.ok
           /\ Apart(st, [st EXCEPT !.labels = labels])
BY DEF Reader, Apart

(* The Result of the running method is replaced.                            *)
LEMMA WithOk ==
    ASSUME NEW st \in Reader, NEW ok \in BOOLEAN
    PROVE  /\ [st EXCEPT !.ok = ok] \in Reader
           /\ [st EXCEPT !.ok = ok].labels = st.labels
           /\ [st EXCEPT !.ok = ok].types = st.types
           /\ [st EXCEPT !.ok = ok].ok = ok
           /\ Apart(st, [st EXCEPT !.ok = ok])
BY DEF Reader, Apart

(* PrintError leaves everything but said.                                   *)
LEMMA WithSaid ==
    ASSUME NEW st \in Reader
    PROVE  /\ PrintError(st) \in Reader /\ PrintError(st).labels = st.labels
           /\ PrintError(st).types = st.types /\ PrintError(st).ok = st.ok
           /\ Apart(st, PrintError(st))
BY DEF Reader, Apart, PrintError

(* Two methods one after the other.                                         *)
LEMMA ApartTransitive ==
    ASSUME NEW st, NEW t, NEW u, Apart(st, t), Apart(t, u)
    PROVE  Apart(st, u)
BY DEF Apart

(* Two methods one after the other.                                         *)
LEMMA KeepsTransitive ==
    ASSUME NEW st, NEW t, NEW u, Keeps(st, t), Keeps(t, u)
    PROVE  Keeps(st, u)
BY ApartTransitive DEF Keeps, TopLabel

(* The top label, and the limits below it.                                  *)
LEMMA TopFacts ==
    ASSUME NEW st, Within(st)
    PROVE  /\ st \in Reader
           /\ Len(st.labels) \in Nat \ {0}
           /\ TopLabel(st) = st.labels[Len(st.labels)] /\ TopLabel(st) \in Label
           /\ TopLabel(st).type_stack_limit \in 0 .. Len(st.types)
           /\ \A i \in 1 .. Len(st.labels) :
                 /\ st.labels[i] \in Label
                 /\ st.labels[i].type_stack_limit \in 0 .. Len(st.types)
                 /\ st.labels[i].type_stack_limit
                       <= TopLabel(st).type_stack_limit
<1>1. /\ st \in Reader /\ st.types \in Seq(Type) /\ st.labels \in Seq(Label)
      /\ Len(st.types) \in Nat /\ Len(st.labels) \in Nat
  BY FieldTypes DEF Within, Stacked
<1>2. Len(st.labels) \in Nat \ {0}
  BY <1>1 DEF Within
<1>3. \A i \in 1 .. Len(st.labels) :
         /\ st.labels[i] \in Label /\ st.labels[i].type_stack_limit \in Nat
         /\ st.labels[i].type_stack_limit <= Len(st.types)
         /\ \A j \in 1 .. i : st.labels[j].type_stack_limit
                                 <= st.labels[i].type_stack_limit
  <2>1. \A i \in 1 .. Len(st.labels) : st.labels[i] \in Label
    BY <1>1, ElementOfSeq
  <2> QED  BY <1>1, <2>1 DEF Within, Stacked, Label
<1>4. TopLabel(st) = st.labels[Len(st.labels)]
  BY DEF TopLabel, Last
<1> QED  BY <1>1, <1>2, <1>3, <1>4

(* The operands change: what lies above a label still does.                 *)
LEMMA KeepsWithin ==
    ASSUME NEW st, Within(st), NEW t, Keeps(st, t)
    PROVE  /\ Within(t) /\ TopLabel(t) = TopLabel(st)
           /\ Len(t.types) \in Nat
<1>1. /\ t \in Reader /\ t.labels = st.labels /\ Len(t.types) \in Nat
      /\ TopLabel(st).type_stack_limit <= Len(t.types)
  BY FieldTypes DEF Keeps
<1>2. TopLabel(t) = TopLabel(st)
  BY <1>1 DEF TopLabel
<1>3. ASSUME NEW i \in 1 .. Len(st.labels)
      PROVE  st.labels[i].type_stack_limit <= Len(t.types)
  BY <1>1, TopFacts
<1> QED  BY <1>1, <1>2, <1>3 DEF Within, Stacked

(* An error touches neither stack.                                          *)
LEMMA ErrorKeeps ==
    ASSUME NEW st, Within(st), NEW failed \in BOOLEAN
    PROVE  /\ Keeps(st, ErrorIf(st, failed))
           /\ ErrorIf(st, failed).types = st.types
           /\ ErrorIf(st, failed).ok => ~failed
           /\ Keeps(st, Error(st)) /\ Error(st).types = st.types
           /\ ~Error(st).ok
<1>1. /\ Error(st) \in Reader /\ Error(st).labels = st.labels
      /\ Error(st).types = st.types /\ ~Error(st).ok /\ Apart(st, Error(st))
  BY WithOk, TopFacts DEF Error
<1>2. LET u == PrintError(Error(st))
      IN  /\ u \in Reader /\ u.labels = st.labels
          /\ u.types = st.types /\ ~u.ok /\ Apart(st, u)
  BY <1>1, WithSaid, ApartTransitive
<1>3. TopLabel(st).type_stack_limit <= Len(st.types) /\ Apart(st, st)
  BY TopFacts, FieldTypes DEF Apart
<1> QED  BY <1>1, <1>2, <1>3, TopFacts DEF ErrorIf, Keeps

(* ResetTypeStackToLabel leaves the operands up to the limit.               *)
LEMMA ResetKeeps ==
    ASSUME NEW st, Within(st)
    PROVE  /\ Keeps(st, ResetTypeStackToLabel(st, TopLabel(st)))
           /\ Len(ResetTypeStackToLabel(st, TopLabel(st)).types)
                 = TopLabel(st).type_stack_limit
           /\ ResetTypeStackToLabel(st, TopLabel(st)).ok = st.ok
<1> DEFINE n == TopLabel(st).type_stack_limit
           types == SubSeq(st.types, 1, n)
<1>0. st \in Reader /\ n \in 0 .. Len(st.types) /\ st.types \in Seq(Type)
  BY TopFacts, FieldTypes
<1>1. types \in Seq(Type) /\ Len(types) = n
  BY <1>0, SubSeqProperties
<1>2. ResetTypeStackToLabel(st, TopLabel(st)) = [st EXCEPT !.types = types]
  BY DEF ResetTypeStackToLabel
<1>3. n <= Len(types)
  BY <1>0, <1>1
<1> HIDE DEF types
<1> QED  BY <1>0, <1>1, <1>2, <1>3, WithTypes DEF Keeps

(* DropTypes never drops what lies below the limit.                         *)
LEMMA DropKeeps ==
    ASSUME NEW st, Within(st), NEW drop_count \in Nat
    PROVE  Keeps(st, DropTypes(st, drop_count))
<1> DEFINE n == TopLabel(st).type_stack_limit
<1>0. st \in Reader /\ n \in 0 .. Len(st.types) /\ st.types \in Seq(Type)
      /\ Len(st.types) \in Nat
  BY TopFacts, FieldTypes
<1>1. CASE n + drop_count > Len(st.types)
  <2> DEFINE r == ResetTypeStackToLabel(st, TopLabel(st))
             ok == r.ok /\ TopLabel(st).unreachable
  <2>1. Keeps(st, r) /\ r.ok = st.ok /\ r \in Reader
    BY ResetKeeps DEF Keeps
  <2>2. DropTypes(st, drop_count) = [r EXCEPT !.ok = ok]
    BY <1>1 DEF DropTypes
  <2>3. ok \in BOOLEAN /\ (ok => st.ok)
    BY <2>1, FieldTypes, TopFacts DEF Label
  <2> HIDE DEF r, ok
  <2>4. LET u == [r EXCEPT !.ok = ok]
        IN  u \in Reader /\ u.labels = r.labels /\ u.types = r.types
            /\ u.ok = ok /\ Apart(r, u)
    BY <2>1, <2>3, WithOk
  <2> QED  BY <2>1, <2>2, <2>3, <2>4, ApartTransitive DEF Keeps
<1>2. CASE ~(n + drop_count > Len(st.types))
  <2> DEFINE types == SubSeq(st.types, 1, Len(st.types) - drop_count)
  <2>1. types \in Seq(Type) /\ Len(types) = Len(st.types) - drop_count
    BY <1>0, <1>2, SubSeqProperties
  <2>2. DropTypes(st, drop_count) = [st EXCEPT !.types = types]
    BY <1>2 DEF DropTypes
  <2>3. n <= Len(types)
    BY <1>0, <1>2, <2>1
  <2> HIDE DEF types
  <2> QED  BY <1>0, <2>1, <2>2, <2>3, WithTypes DEF Keeps
<1> QED  BY <1>1, <1>2

(* PushTypes adds on top.                                                   *)
LEMMA PushKeeps ==
    ASSUME NEW st, Within(st), NEW types \in Seq(Type)
    PROVE  /\ Keeps(st, PushTypes(st, types))
           /\ Len(PushTypes(st, types).types) = Len(st.types) + Len(types)
           /\ PushTypes(st, types).ok = st.ok
<1> DEFINE pushed == st.types \o types
<1>0. st \in Reader /\ st.types \in Seq(Type) /\ Len(st.types) \in Nat
      /\ TopLabel(st).type_stack_limit \in 0 .. Len(st.types)
  BY TopFacts, FieldTypes
<1>1. pushed \in Seq(Type) /\ Len(pushed) = Len(st.types) + Len(types)
  BY <1>0, ConcatProperties
<1>2. PushTypes(st, types) = [st EXCEPT !.types = pushed]
  BY DEF PushTypes
<1>3. TopLabel(st).type_stack_limit <= Len(pushed)
  BY <1>0, <1>1, LenProperties
<1> HIDE DEF pushed
<1> QED  BY <1>0, <1>1, <1>2, <1>3, WithTypes DEF Keeps

(* PushType adds on top, or nothing for Void.                               *)
LEMMA PushOneKeeps ==
    ASSUME NEW st, Within(st), NEW type \in Type \cup {Void}
    PROVE  Keeps(st, PushType(st, type)) /\ PushType(st, type).ok = st.ok
<1> DEFINE pushed == Append(st.types, type)
<1>0. st \in Reader /\ st.types \in Seq(Type) /\ Len(st.types) \in Nat
      /\ TopLabel(st).type_stack_limit \in 0 .. Len(st.types)
  BY TopFacts, FieldTypes
<1>1. CASE type = Void
  BY <1>0, <1>1 DEF PushType, Keeps, Apart
<1>2. CASE type # Void
  <2>1. pushed \in Seq(Type) /\ Len(pushed) = Len(st.types) + 1
    BY <1>0, <1>2
  <2>2. PushType(st, type) = [st EXCEPT !.types = pushed]
    BY <1>2 DEF PushType
  <2>3. TopLabel(st).type_stack_limit <= Len(pushed)
    BY <1>0, <2>1
  <2> HIDE DEF pushed
  <2> QED  BY <1>0, <2>1, <2>2, <2>3, WithTypes DEF Keeps
<1> QED  BY <1>1, <1>2

(* A signature that matches has its operands on the stack, or the code is   *)
(* not reached.                                                             *)
LEMMA MatchesEnough ==
    ASSUME NEW st, Within(st), NEW sig \in Seq(Type), SignatureMatches(st, sig)
    PROVE  Enough(st, Len(sig))
<1>0. /\ TopLabel(st).type_stack_limit \in 0 .. Len(st.types)
      /\ Len(st.types) \in Nat /\ Len(sig) \in Nat
  BY TopFacts, FieldTypes
<1>1. CASE sig = <<>>
  BY <1>0, <1>1 DEF Enough
<1>2. CASE sig # <<>>
  <2>1. 1 \in DOMAIN sig
    BY <1>2, <1>0
  <2>2. PeekOk(st, Len(sig) - 1)
    BY <2>1 DEF SignatureMatches, PeekAndCheckType
  <2> QED  BY <1>0, <2>2 DEF PeekOk, Visible, Enough
<1> QED  BY <1>1, <1>2

(* CheckSignature and PopAndCheckSignature succeed with the operands there. *)
LEMMA SignatureKeeps ==
    ASSUME NEW st, Within(st), NEW sig \in Seq(Type)
    PROVE  /\ Keeps(st, CheckSignature(st, sig))
           /\ CheckSignature(st, sig).types = st.types
           /\ CheckSignature(st, sig).ok => Enough(st, Len(sig))
           /\ Keeps(st, PopAndCheckSignature(st, sig))
           /\ PopAndCheckSignature(st, sig).ok => Enough(st, Len(sig))
<1>1. SignatureMatches(st, sig) \in BOOLEAN
  BY DEF SignatureMatches
<1>2. /\ Keeps(st, CheckSignature(st, sig))
      /\ CheckSignature(st, sig).types = st.types
      /\ CheckSignature(st, sig).ok => Enough(st, Len(sig))
  BY <1>1, ErrorKeeps, MatchesEnough DEF CheckSignature
<1> DEFINE t == CheckSignature(st, sig)
<1>3. Within(t) /\ Len(sig) \in Nat
  BY <1>2, KeepsWithin
<1>4. Keeps(t, DropTypes(t, Len(sig)))
  BY <1>3, DropKeeps
<1>5. PopAndCheckSignature(st, sig) = DropTypes(t, Len(sig))
  BY DEF PopAndCheckSignature
<1> QED  BY <1>2, <1>4, <1>5, KeepsTransitive DEF Keeps

-----------------------------------------------------------------------------
(* Labels *)

(* Labels that may differ in being unreachable.                             *)
SameLabel(a, b) ==
    /\ a.label_type = b.label_type /\ a.type_stack_limit = b.type_stack_limit
    /\ a.param_types = b.param_types /\ a.result_types = b.result_types

(* A method that neither enters nor leaves a label.                         *)
Inside(st, t) ==
    /\ Within(t) /\ Apart(st, t)
    /\ t.ok => st.ok
    /\ Len(t.labels) = Len(st.labels)
    /\ \A i \in 1 .. Len(st.labels) : SameLabel(st.labels[i], t.labels[i])

(* A method that changes operands only.                                     *)
LEMMA KeepsInside ==
    ASSUME NEW st, Within(st), NEW t, Keeps(st, t)
    PROVE  Inside(st, t)
BY KeepsWithin DEF Inside, Keeps, SameLabel

(* Two methods one after the other.                                         *)
LEMMA InsideTransitive ==
    ASSUME NEW st, NEW t, NEW u, Inside(st, t), Inside(t, u)
    PROVE  Inside(st, u)
BY ApartTransitive DEF Inside, SameLabel

(* The top label is replaced by one with its limit.                         *)
LEMMA SetTopWithin ==
    ASSUME NEW st, Within(st), NEW label \in Label,
           label.type_stack_limit = TopLabel(st).type_stack_limit,
           label.label_type \in IF Len(st.labels) = 1 THEN {"Func"}
                                ELSE {"Block", "Loop", "If", "Else"}
    PROVE  LET t == SetTop(st, label)
           IN  /\ Within(t) /\ Apart(st, t) /\ t.types = st.types
               /\ t.ok = st.ok /\ TopLabel(t) = label
               /\ Len(t.labels) = Len(st.labels)
               /\ \A i \in 1 .. Len(st.labels) :
                     t.labels[i] = IF i = Len(st.labels) THEN label
                                   ELSE st.labels[i]
<1> DEFINE n == Len(st.labels)
           labels == [st.labels EXCEPT ![n] = label]
           t == [st EXCEPT !.labels = labels]
<1>1. /\ st \in Reader /\ n \in Nat \ {0} /\ st.labels \in Seq(Label)
      /\ TopLabel(st) = st.labels[n]
  BY TopFacts, FieldTypes
<1>2. /\ labels \in Seq(Label) /\ Len(labels) = n
      /\ \A i \in 1 .. n : labels[i] = IF i = n THEN label ELSE st.labels[i]
  BY <1>1, ExceptSeq
<1>3. SetTop(st, label) = t
  BY DEF SetTop
<1> HIDE DEF labels
<1>4. /\ t \in Reader /\ t.types = st.types /\ t.labels = labels
      /\ t.ok = st.ok /\ Apart(st, t)
  BY <1>1, <1>2, WithLabels
<1>5. \A i \in 1 .. n : labels[i].type_stack_limit
                           = st.labels[i].type_stack_limit
  BY <1>1, <1>2
<1>6. ASSUME NEW i \in 1 .. n
      PROVE  /\ labels[i].type_stack_limit <= Len(st.types)
             /\ \A j \in 1 .. i : labels[j].type_stack_limit
                                     <= labels[i].type_stack_limit
             /\ labels[i].label_type \in IF i = 1 THEN {"Func"}
                                         ELSE {"Block", "Loop", "If", "Else"}
  <2>1. /\ st.labels[i].type_stack_limit <= Len(st.types)
        /\ \A j \in 1 .. i : st.labels[j].type_stack_limit
                                <= st.labels[i].type_stack_limit
        /\ st.labels[i].label_type \in IF i = 1 THEN {"Func"}
                                       ELSE {"Block", "Loop", "If", "Else"}
    BY <1>1 DEF Within, Stacked
  <2>2. \A j \in 1 .. i : j \in 1 .. n
    BY <1>1
  <2> QED  BY <1>1, <1>2, <1>5, <2>1, <2>2
<1>7. Within(t) /\ TopLabel(t) = label
  <2>1. Stacked(t)
    BY <1>2, <1>4, <1>6 DEF Stacked
  <2>2. t.labels # <<>>
    BY <1>1, <1>2, <1>4
  <2> QED  BY <1>1, <1>2, <1>4, <2>1, <2>2 DEF Within, TopLabel, Last
<1> QED  BY <1>2, <1>3, <1>4, <1>7

(* SetUnreachable.                                                          *)
LEMMA UnreachableInside ==
    ASSUME NEW st, Within(st)
    PROVE  Inside(st, SetUnreachable(st))
<1> DEFINE label == [TopLabel(st) EXCEPT !.unreachable = TRUE]
           t == SetTop(st, label)
           u == ResetTypeStackToLabel(t, TopLabel(st))
           n == Len(st.labels)
<1>1. /\ TopLabel(st) \in Label /\ TopLabel(st) = st.labels[n]
      /\ n \in Nat \ {0} /\ n \in 1 .. n
  BY TopFacts
<1>2. label \in Label /\ SameLabel(TopLabel(st), label)
  BY <1>1 DEF Label, SameLabel
<1>3. label.label_type \in IF n = 1 THEN {"Func"}
                           ELSE {"Block", "Loop", "If", "Else"}
  BY <1>1, <1>2 DEF SameLabel, Within, Stacked
<1> HIDE DEF label
<1>4. /\ Within(t) /\ Apart(st, t) /\ t.ok = st.ok /\ TopLabel(t) = label
      /\ Len(t.labels) = n
      /\ \A i \in 1 .. n : t.labels[i] = IF i = n THEN label ELSE st.labels[i]
  BY <1>2, <1>3, SetTopWithin DEF SameLabel
<1>5. Inside(st, t)
  BY <1>1, <1>2, <1>4 DEF Inside, SameLabel
<1>6. u = ResetTypeStackToLabel(t, TopLabel(t))
  BY <1>2, <1>4 DEF ResetTypeStackToLabel, SameLabel
<1> HIDE DEF t
<1>7. Inside(t, u)
  BY <1>4, <1>6, ResetKeeps, KeepsInside
<1> QED  BY <1>5, <1>7, InsideTransitive DEF SetUnreachable, t, label

(* A new label has all there is on the stack below its limit.               *)
LEMMA PushLabelWithin ==
    ASSUME NEW st, Stacked(st), NEW label_type \in LabelType,
           label_type \in IF st.labels = <<>> THEN {"Func"}
                          ELSE {"Block", "Loop", "If"},
           NEW ps \in Seq(Type), NEW rs \in Seq(Type)
    PROVE  LET t == PushLabel(st, label_type, ps, rs)
           IN  /\ Within(t) /\ Apart(st, t) /\ t.types = st.types
               /\ t.ok = st.ok /\ Len(t.labels) = Len(st.labels) + 1
               /\ \A i \in 1 .. Len(st.labels) : t.labels[i] = st.labels[i]
               /\ t.labels[Len(st.labels) + 1] =
                     [label_type |-> label_type, param_types |-> ps,
                      result_types |-> rs, unreachable |-> FALSE,
                      type_stack_limit |-> Len(st.types)]
<1> DEFINE n == Len(st.labels)
           label == [label_type |-> label_type, param_types |-> ps,
                     result_types |-> rs, type_stack_limit |-> Len(st.types),
                     unreachable |-> FALSE]
           labels == Append(st.labels, label)
           t == [st EXCEPT !.labels = labels]
<1>1. /\ st \in Reader /\ n \in Nat /\ st.labels \in Seq(Label)
      /\ st.types \in Seq(Type) /\ Len(st.types) \in Nat
  BY FieldTypes DEF Stacked
<1>2. /\ label \in Label /\ label.type_stack_limit = Len(st.types)
      /\ label.label_type = label_type
      /\ label = [label_type |-> label_type, param_types |-> ps,
                  result_types |-> rs, unreachable |-> FALSE,
                  type_stack_limit |-> Len(st.types)]
  BY <1>1 DEF Label
<1> HIDE DEF label
<1>3. /\ labels \in Seq(Label) /\ Len(labels) = n + 1
      /\ labels[n + 1] = label
      /\ \A i \in 1 .. n : labels[i] = st.labels[i]
  BY <1>1, <1>2
<1>4. PushLabel(st, label_type, ps, rs) = t
  BY DEF PushLabel, label
<1> HIDE DEF labels
<1>5. /\ t \in Reader /\ t.types = st.types /\ t.labels = labels
      /\ t.ok = st.ok /\ Apart(st, t)
  BY <1>1, <1>3, WithLabels
<1>6. ASSUME NEW i \in 1 .. n + 1
      PROVE  /\ labels[i].type_stack_limit <= Len(st.types)
             /\ \A j \in 1 .. i : labels[j].type_stack_limit
                                     <= labels[i].type_stack_limit
             /\ labels[i].label_type \in IF i = 1 THEN {"Func"}
                                         ELSE {"Block", "Loop", "If", "Else"}
  <2>1. \A j \in 1 .. n : labels[j].type_stack_limit <= Len(st.types)
    BY <1>1, <1>3 DEF Stacked
  <2>2. CASE i = n + 1
    <3>1. \A j \in 1 .. n + 1 : labels[j].type_stack_limit <= Len(st.types)
      BY <1>1, <1>2, <1>3, <2>1
    <3>2. i = 1 <=> st.labels = <<>>
      BY <1>1, <2>2
    <3> QED  BY <1>1, <1>2, <1>3, <2>2, <3>1, <3>2
  <2>3. CASE i # n + 1
    <3>1. i \in 1 .. n /\ \A j \in 1 .. i : j \in 1 .. n
      BY <1>1, <2>3
    <3>2. /\ \A j \in 1 .. i : st.labels[j].type_stack_limit
                                  <= st.labels[i].type_stack_limit
          /\ st.labels[i].label_type \in IF i = 1 THEN {"Func"}
                                         ELSE {"Block", "Loop", "If", "Else"}
      BY <3>1 DEF Stacked
    <3> QED  BY <1>3, <2>1, <3>1, <3>2
  <2> QED  BY <2>2, <2>3
<1>7. Within(t)
  <2>1. Stacked(t)
    BY <1>3, <1>5, <1>6 DEF Stacked
  <2> QED  BY <1>1, <1>3, <1>5, <2>1 DEF Within
<1> QED  BY <1>2, <1>3, <1>4, <1>5, <1>7

(* The labels below are left.                                               *)
LEMMA PopLabelStacked ==
    ASSUME NEW st, Within(st)
    PROVE  LET t == PopLabel(st)
           IN  /\ Stacked(t) /\ Apart(st, t) /\ t.types = st.types
               /\ t.ok = st.ok /\ Len(t.labels) = Len(st.labels) - 1
               /\ \A i \in 1 .. Len(st.labels) - 1 : t.labels[i] = st.labels[i]
<1> DEFINE n == Len(st.labels)
           labels == Front(st.labels)
           t == [st EXCEPT !.labels = labels]
<1>1. /\ st \in Reader /\ n \in Nat \ {0} /\ st.labels \in Seq(Label)
  BY TopFacts, FieldTypes
<1>2. /\ labels \in Seq(Label) /\ Len(labels) = n - 1
      /\ \A i \in 1 .. n - 1 : labels[i] = st.labels[i]
  BY <1>1, SubSeqProperties DEF Front
<1>3. PopLabel(st) = t
  BY DEF PopLabel
<1> HIDE DEF labels
<1>4. /\ t \in Reader /\ t.types = st.types /\ t.labels = labels
      /\ t.ok = st.ok /\ Apart(st, t)
  BY <1>1, <1>2, WithLabels
<1>5. ASSUME NEW i \in 1 .. n - 1
      PROVE  /\ labels[i].type_stack_limit <= Len(st.types)
             /\ \A j \in 1 .. i : labels[j].type_stack_limit
                                     <= labels[i].type_stack_limit
             /\ labels[i].label_type \in IF i = 1 THEN {"Func"}
                                         ELSE {"Block", "Loop", "If", "Else"}
  <2>1. i \in 1 .. n /\ \A j \in 1 .. i : j \in 1 .. n - 1
    BY <1>1
  <2>2. /\ st.labels[i].type_stack_limit <= Len(st.types)
        /\ \A j \in 1 .. i : st.labels[j].type_stack_limit
                                <= st.labels[i].type_stack_limit
        /\ st.labels[i].label_type \in IF i = 1 THEN {"Func"}
                                       ELSE {"Block", "Loop", "If", "Else"}
    BY <2>1 DEF Within, Stacked
  <2> QED  BY <1>2, <2>1, <2>2
<1> QED  BY <1>2, <1>3, <1>4, <1>5 DEF Stacked

-----------------------------------------------------------------------------
(* The methods *)

(* The types of the functions and of a condition.                           *)
LEMMA ProgramTypes ==
    /\ I32 \in Type /\ Seq({I32}) \subseteq Seq(Type) /\ <<I32>> \in Seq(Type)
    /\ \A f \in DOMAIN Funcs : /\ Funcs[f].sig.params \in Seq(Type)
                                /\ Funcs[f].sig.results \in Seq(Type)
                                /\ Funcs[f].locals \in Nat
                                /\ Funcs[f].is_host \in BOOLEAN
<1>1. I32 \in Type
  BY TypesAssumption DEF Type
<1>2. Seq({I32}) \subseteq Seq(Type)
  BY <1>1, SeqMonotonic
<1> QED  BY <1>1, <1>2, FuncsAssumption

(* PopAndCheckCall, for a call by index and by signature.                   *)
LEMMA CallKeeps ==
    ASSUME NEW st, Within(st), NEW ps \in Seq(Type), NEW rs \in Seq(Type)
    PROVE  /\ Keeps(st, PopAndCheckCall(st, ps, rs))
           /\ Keeps(st, OnCallIndirect(st, ps, rs))
<1>1. ASSUME NEW s, Within(s) PROVE Keeps(s, PopAndCheckCall(s, ps, rs))
  <2> DEFINE popped == PopAndCheckSignature(s, ps)
  <2>1. Keeps(s, popped) /\ Within(popped)
    BY <1>1, SignatureKeeps, KeepsWithin
  <2> HIDE DEF popped
  <2>2. Keeps(popped, PushTypes(popped, rs))
    BY <2>1, PushKeeps
  <2> QED  BY <2>1, <2>2, KeepsTransitive DEF PopAndCheckCall, popped
<1> DEFINE begun == PopAndCheckSignature(st, <<I32>>)
<1>2. Keeps(st, begun) /\ Within(begun)
  BY SignatureKeeps, KeepsWithin, ProgramTypes
<1> HIDE DEF begun
<1>3. Keeps(begun, PopAndCheckCall(begun, ps, rs))
  BY <1>1, <1>2
<1> QED  BY <1>1, <1>2, <1>3, KeepsTransitive DEF OnCallIndirect, begun

(* CheckOpcode1, CheckOpcode2 and CheckOpcode3.                             *)
LEMMA OpcodeKeeps ==
    ASSUME NEW st, Within(st), NEW opcode, opcode.params \in Seq(Type),
           opcode.result \in Type \cup {Void}
    PROVE  Keeps(st, CheckOpcode(st, opcode))
<1> DEFINE popped == PopAndCheckSignature(st, opcode.params)
<1>1. Keeps(st, popped) /\ Within(popped)
  BY SignatureKeeps, KeepsWithin
<1> HIDE DEF popped
<1>2. Keeps(popped, PushType(popped, opcode.result))
  BY <1>1, PushOneKeeps
<1> QED  BY <1>1, <1>2, KeepsTransitive DEF CheckOpcode, popped

(* OnDrop and OnSelect.                                                     *)
LEMMA DropSelectKeeps ==
    ASSUME NEW st, Within(st)
    PROVE  Keeps(st, OnDrop(st)) /\ Keeps(st, OnSelect(st))
<1>1. Keeps(st, OnDrop(st))
  <2> DEFINE dropped == DropTypes(st, 1)
  <2>1. Keeps(st, dropped) /\ dropped \in Reader
    BY DropKeeps DEF Keeps
  <2> HIDE DEF dropped
  <2>2. Keeps(st, PrintError(dropped))
    BY <2>1, WithSaid, ApartTransitive DEF Keeps
  <2> QED  BY <2>1, <2>2 DEF OnDrop, dropped
<1>2. Keeps(st, OnSelect(st))
  <2> DEFINE type == PeekType(st, 1)
             failed == \/ ~PeekAndCheckType(st, 0, I32)
                       \/ ~PeekOk(st, 1)
                       \/ ~PeekAndCheckType(st, 2, type)
             checked == ErrorIf(st, failed)
             dropped == DropTypes(checked, 3)
  <2>1. type \in Type
    <3>1. AnyType \in Type
      BY DEF Type
    <3>2. /\ st.types \in Seq(Type) /\ Len(st.types) \in Nat
          /\ TopLabel(st).type_stack_limit \in 0 .. Len(st.types)
      BY TopFacts, FieldTypes
    <3>3. CASE Visible(st, 1)
      <4>1. Len(st.types) - 1 \in 1 .. Len(st.types)
        BY <3>2, <3>3 DEF Visible
      <4> QED  BY <3>2, <3>3, <4>1, ElementOfSeq DEF PeekType
    <3> QED  BY <3>1, <3>3 DEF PeekType
  <2>2. failed \in BOOLEAN
    OBVIOUS
  <2> HIDE DEF type, failed
  <2>3. Keeps(st, checked) /\ Within(checked)
    BY <2>2, ErrorKeeps, KeepsWithin
  <2> HIDE DEF checked
  <2>4. Keeps(checked, dropped) /\ Within(dropped)
    BY <2>3, DropKeeps, KeepsWithin
  <2> HIDE DEF dropped
  <2>5. Keeps(dropped, PushType(dropped, type))
    BY <2>1, <2>4, PushOneKeeps
  <2>6. OnSelect(st) = PushType(dropped, type)
    BY DEF OnSelect, dropped, checked, failed, type
  <2> QED  BY <2>3, <2>4, <2>5, <2>6, KeepsTransitive
<1> QED  BY <1>1, <1>2

(* A block is entered.                                                      *)
Enters(st, t, label_type) ==
    /\ Within(t) /\ Apart(st, t)
    /\ t.ok => st.ok
    /\ Len(t.labels) = Len(st.labels) + 1
    /\ \A i \in 1 .. Len(st.labels) : SameLabel(st.labels[i], t.labels[i])
    /\ t.labels[Len(st.labels) + 1].label_type = label_type

(* A block is entered, and operands change.                                 *)
LEMMA EntersInside ==
    ASSUME NEW st, Within(st), NEW t, NEW u, NEW label_type,
           Enters(st, t, label_type), Inside(t, u)
    PROVE  Enters(st, u, label_type)
<1> DEFINE n == Len(st.labels)
<1>1. n \in Nat /\ Len(t.labels) = n + 1
  BY TopFacts DEF Enters
<1>2. ASSUME NEW i \in 1 .. n PROVE SameLabel(st.labels[i], u.labels[i])
  <2>1. i \in 1 .. n + 1
    BY <1>1
  <2>2. SameLabel(t.labels[i], u.labels[i])
    BY <1>1, <2>1 DEF Inside
  <2>3. SameLabel(st.labels[i], t.labels[i])
    BY DEF Enters
  <2> QED  BY <2>2, <2>3 DEF SameLabel
<1>3. u.labels[n + 1].label_type = label_type
  <2>1. n + 1 \in 1 .. n + 1
    BY <1>1
  <2> QED  BY <1>1, <2>1 DEF Enters, Inside, SameLabel
<1> QED  BY <1>1, <1>2, <1>3, ApartTransitive DEF Enters, Inside

(* Operands change, and a block is entered.                                 *)
LEMMA InsideEnters ==
    ASSUME NEW st, NEW t, NEW u, NEW label_type,
           Inside(st, t), Enters(t, u, label_type)
    PROVE  Enters(st, u, label_type)
BY ApartTransitive DEF Enters, Inside, SameLabel

(* OnBlock and OnLoop.                                                      *)
LEMMA BlockEnters ==
    ASSUME NEW st, Within(st), NEW label_type \in {"Block", "Loop", "If"},
           NEW ps \in Seq(Type), NEW rs \in Seq(Type)
    PROVE  Enters(st, OnBlock(st, label_type, ps, rs), label_type)
<1> DEFINE popped == PopAndCheckSignature(st, ps)
           entered == PushLabel(popped, label_type, ps, rs)
           t == PushTypes(entered, ps)
<1>1. Keeps(st, popped) /\ Within(popped) /\ Inside(st, popped)
  BY SignatureKeeps, KeepsWithin, KeepsInside
<1> HIDE DEF popped
<1>2. label_type \in LabelType
  BY DEF LabelType
<1>3. Enters(popped, entered, label_type)
  <2>1. /\ Stacked(popped) /\ popped.labels # <<>>
        /\ label_type \in IF popped.labels = <<>> THEN {"Func"}
                          ELSE {"Block", "Loop", "If"}
    BY <1>1 DEF Within
  <2>2. /\ Within(entered) /\ Apart(popped, entered)
        /\ entered.ok = popped.ok
        /\ Len(entered.labels) = Len(popped.labels) + 1
        /\ \A i \in 1 .. Len(popped.labels) :
              entered.labels[i] = popped.labels[i]
        /\ entered.labels[Len(popped.labels) + 1] =
              [label_type |-> label_type, param_types |-> ps,
               result_types |-> rs, unreachable |-> FALSE,
               type_stack_limit |-> Len(popped.types)]
    BY <1>2, <2>1, PushLabelWithin
  <2> HIDE DEF entered
  <2> QED  BY <2>2 DEF Enters, SameLabel
<1> HIDE DEF entered
<1>4. Inside(entered, t)
  BY <1>3, PushKeeps, KeepsInside DEF Enters
<1>5. OnBlock(st, label_type, ps, rs) = t
  BY DEF OnBlock, t, entered, popped
<1> HIDE DEF t
<1>6. Enters(popped, t, label_type)
  BY <1>1, <1>3, <1>4, EntersInside
<1> QED  BY <1>1, <1>5, <1>6, InsideEnters

(* OnIf.                                                                    *)
LEMMA IfEnters ==
    ASSUME NEW st, Within(st), NEW ps \in Seq(Type), NEW rs \in Seq(Type)
    PROVE  Enters(st, OnIf(st, ps, rs), "If")
<1> DEFINE popped == PopAndCheckSignature(st, <<I32>>)
           t == OnBlock(popped, "If", ps, rs)
<1>1. Within(popped) /\ Inside(st, popped)
  BY SignatureKeeps, KeepsWithin, KeepsInside, ProgramTypes
<1> HIDE DEF popped
<1>2. Enters(popped, t, "If")
  BY <1>1, BlockEnters
<1>3. OnIf(st, ps, rs) = t
  BY DEF OnIf, popped
<1> HIDE DEF t
<1> QED  BY <1>1, <1>2, <1>3, InsideEnters

(* The label of a branch, and what it takes along.                          *)
LEMMA BranchTypes ==
    ASSUME NEW st, Within(st), NEW depth \in Nat, depth < Len(st.labels)
    PROVE  /\ Len(st.labels) - depth \in 1 .. Len(st.labels)
           /\ GetLabel(st, depth) = st.labels[Len(st.labels) - depth]
           /\ GetLabel(st, depth) \in Label
           /\ br_types(GetLabel(st, depth)) \in Seq(Type)
<1>1. Len(st.labels) - depth \in 1 .. Len(st.labels)
  BY TopFacts
<1>2. GetLabel(st, depth) \in Label
  BY <1>1, TopFacts DEF GetLabel
<1> QED  BY <1>1, <1>2 DEF GetLabel, br_types, Label

(* OnBr: the label is there, and the operands it takes along.               *)
LEMMA BrInside ==
    ASSUME NEW st, Within(st), NEW depth \in Nat, depth < Len(st.labels)
    PROVE  /\ Inside(st, OnBr(st, depth))
           /\ OnBr(st, depth).ok =>
                 Enough(st, Len(br_types(GetLabel(st, depth))))
<1> DEFINE sig == br_types(GetLabel(st, depth))
           checked == CheckSignature(st, sig)
<1>1. sig \in Seq(Type)
  BY BranchTypes
<1> HIDE DEF sig
<1>2. /\ Inside(st, checked) /\ Within(checked)
      /\ checked.ok => Enough(st, Len(sig))
  BY <1>1, SignatureKeeps, KeepsInside, KeepsWithin
<1>3. OnBr(st, depth) = SetUnreachable(checked)
  BY DEF OnBr, HasLabel, checked, sig
<1> HIDE DEF checked
<1>4. Inside(checked, SetUnreachable(checked))
  BY <1>2, UnreachableInside
<1> QED  BY <1>2, <1>3, <1>4, InsideTransitive DEF Inside, sig

(* Enough for a branch: between the limit of its label and the top.         *)
LEMMA BrIfInside ==
    ASSUME NEW st, Within(st), NEW depth \in Nat, OnBrIf(st, depth).ok
    PROVE  LET t == OnBrIf(st, depth)
           IN  /\ depth < Len(st.labels) /\ Keeps(st, t) /\ st.ok
               /\ Enough(t, Len(br_types(GetLabel(t, depth))))
<1> DEFINE popped == PopAndCheckSignature(st, <<I32>>)
           sig == br_types(GetLabel(st, depth))
           branched == PopAndCheckSignature(popped, sig)
           t == PushTypes(branched, sig)
<1>1. Keeps(st, popped) /\ Within(popped) /\ popped.labels = st.labels
  BY SignatureKeeps, KeepsWithin, ProgramTypes DEF Keeps
<1>2. ~PrintError(Error(popped)).ok
  <2> HIDE DEF popped
  <2>1. Error(popped) \in Reader /\ ~Error(popped).ok
    BY <1>1, ErrorKeeps DEF Keeps
  <2> QED  BY <2>1, WithSaid
<1>3. depth < Len(st.labels) /\ OnBrIf(st, depth) = t
  BY <1>2 DEF OnBrIf, HasLabel
<1>4. sig \in Seq(Type) /\ Len(sig) \in Nat
  BY <1>3, BranchTypes
<1> HIDE DEF popped, sig
<1>5. Keeps(popped, branched) /\ Within(branched)
  BY <1>1, <1>4, SignatureKeeps, KeepsWithin
<1> HIDE DEF branched
<1>6. /\ Keeps(branched, t) /\ Within(t)
      /\ Len(t.types) = Len(branched.types) + Len(sig)
      /\ TopLabel(t) = TopLabel(branched)
  BY <1>4, <1>5, PushKeeps, KeepsWithin
<1> HIDE DEF t
<1>7. TopLabel(branched).type_stack_limit \in 0 .. Len(branched.types)
      /\ Len(branched.types) \in Nat
  BY <1>5, TopFacts, FieldTypes
<1>8. Keeps(st, t) /\ st.ok
  BY <1>1, <1>3, <1>5, <1>6, KeepsTransitive DEF Keeps
<1>9. sig = br_types(GetLabel(t, depth))
  BY <1>8 DEF sig, GetLabel, Keeps
<1> QED  BY <1>3, <1>4, <1>6, <1>7, <1>8, <1>9 DEF Enough

(* OnBrTable: every target has its label and its operands.                  *)
LEMMA BrTableInside ==
    ASSUME NEW st, Within(st), NEW depths \in Seq(Nat),
           OnBrTable(st, depths).ok
    PROVE  LET begun == PopAndCheckSignature(st, <<I32>>)
           IN  /\ Inside(st, OnBrTable(st, depths)) /\ st.ok
               /\ Keeps(st, begun) /\ Within(begun)
               /\ \A k \in 1 .. Len(depths) :
                     /\ depths[k] \in Nat /\ depths[k] < Len(st.labels)
                     /\ Enough(begun, Len(br_types(GetLabel(begun, depths[k]))))
<1> DEFINE begun == PopAndCheckSignature(st, <<I32>>)
           known == SelectSeq(depths, LAMBDA d : HasLabel(st, d))
           sig == IF known = <<>> THEN <<>>
                  ELSE br_types(GetLabel(st, known[1]))
           failed == \E i \in DOMAIN depths :
                        ~OnBrTableTarget(begun, depths[i], sig)
           checked == ErrorIf(begun, failed)
<1>1. Keeps(st, begun) /\ Within(begun) /\ begun.labels = st.labels
  BY SignatureKeeps, KeepsWithin, ProgramTypes DEF Keeps
<1>2. OnBrTable(st, depths) = SetUnreachable(checked)
  BY DEF OnBrTable
<1> HIDE DEF begun, sig
<1>3. failed \in BOOLEAN
  OBVIOUS
<1>4. Keeps(begun, checked) /\ Within(checked) /\ (checked.ok => ~failed)
  <2> HIDE DEF failed
  <2> QED  BY <1>1, <1>3, ErrorKeeps, KeepsWithin
<1>5. Inside(checked, SetUnreachable(checked))
  <2> HIDE DEF checked
  <2> QED  BY <1>4, UnreachableInside
<1>6. Inside(st, checked)
  <2> HIDE DEF checked
  <2> QED  BY <1>1, <1>4, KeepsTransitive, KeepsInside
<1>7. Inside(st, OnBrTable(st, depths)) /\ checked.ok /\ st.ok
  <2> HIDE DEF checked
  <2> QED  BY <1>2, <1>5, <1>6, InsideTransitive DEF Inside
<1>8. ASSUME NEW k \in 1 .. Len(depths)
      PROVE  /\ depths[k] \in Nat /\ depths[k] < Len(st.labels)
             /\ Enough(begun, Len(br_types(GetLabel(begun, depths[k]))))
  <2>1. depths[k] \in Nat /\ k \in DOMAIN depths
    BY ElementOfSeq
  <2>2. OnBrTableTarget(begun, depths[k], sig)
    BY <1>4, <1>7, <2>1
  <2>3. depths[k] < Len(begun.labels)
    BY <2>2 DEF OnBrTableTarget, HasLabel
  <2>4. /\ SignatureMatches(begun, br_types(GetLabel(begun, depths[k])))
        /\ br_types(GetLabel(begun, depths[k])) \in Seq(Type)
    BY <1>1, <2>1, <2>2, <2>3, BranchTypes DEF OnBrTableTarget
  <2> QED  BY <1>1, <2>1, <2>3, <2>4, MatchesEnough
<1> QED  BY <1>1, <1>7, <1>8 DEF begun

(* The label of the function.                                               *)
LEMMA FunctionLabel ==
    ASSUME NEW st, Within(st)
    PROVE  /\ 1 \in 1 .. Len(st.labels) /\ st.labels[1] \in Label
           /\ st.labels[1].result_types \in Seq(Type)
           /\ st.labels[1].label_type = "Func"
<1>1. 1 \in 1 .. Len(st.labels)
  BY TopFacts
<1> QED  BY <1>1, TopFacts DEF Label, Within, Stacked

(* OnReturn, with the results there, and OnUnreachable.                     *)
LEMMA ReturnInside ==
    ASSUME NEW st, Within(st)
    PROVE  /\ Inside(st, OnReturn(st)) /\ Inside(st, OnUnreachable(st))
           /\ OnReturn(st).ok => Enough(st, Len(st.labels[1].result_types))
<1> DEFINE popped == PopAndCheckSignature(st, st.labels[1].result_types)
<1>1. /\ Inside(st, popped) /\ Within(popped)
      /\ popped.ok => Enough(st, Len(st.labels[1].result_types))
  BY FunctionLabel, SignatureKeeps, KeepsInside, KeepsWithin
<1> HIDE DEF popped
<1>2. Inside(popped, SetUnreachable(popped))
  BY <1>1, UnreachableInside
<1>3. OnReturn(st) = SetUnreachable(popped)
  BY DEF OnReturn, popped
<1> QED  BY <1>1, <1>2, <1>3, InsideTransitive, UnreachableInside
         DEF OnUnreachable, Inside

(* The check at the end of a label.                                         *)
LEMMA EndedKeeps ==
    ASSUME NEW st, Within(st)
    PROVE  LET types == TopLabel(st).result_types
               ended == CheckTypeStackEnd(PopAndCheckSignature(st, types))
               reset == ResetTypeStackToLabel(ended, TopLabel(st))
           IN  /\ Keeps(st, reset) /\ types \in Seq(Type)
               /\ Len(reset.types) = TopLabel(st).type_stack_limit
               /\ reset.ok => Enough(st, Len(types))
<1> DEFINE types == TopLabel(st).result_types
           popped == PopAndCheckSignature(st, types)
           failed == Len(popped.types) # TopLabel(popped).type_stack_limit
           ended == ErrorIf(popped, failed)
           reset == ResetTypeStackToLabel(ended, TopLabel(st))
<1>1. types \in Seq(Type)
  BY TopFacts DEF Label
<1> HIDE DEF types
<1>2. /\ Keeps(st, popped) /\ Within(popped) /\ TopLabel(popped) = TopLabel(st)
      /\ popped.ok => Enough(st, Len(types))
  BY <1>1, SignatureKeeps, KeepsWithin
<1>3. failed \in BOOLEAN
  OBVIOUS
<1>4. CheckTypeStackEnd(popped) = ended
  BY DEF CheckTypeStackEnd
<1> HIDE DEF popped, failed
<1>5. /\ Keeps(popped, ended) /\ Within(ended)
      /\ TopLabel(ended) = TopLabel(popped)
  BY <1>2, <1>3, ErrorKeeps, KeepsWithin
<1> HIDE DEF ended
<1>6. /\ Keeps(ended, reset)
      /\ Len(reset.types) = TopLabel(ended).type_stack_limit
  BY <1>2, <1>5, ResetKeeps
<1> HIDE DEF reset
<1>7. Keeps(st, reset) /\ (reset.ok => popped.ok)
  BY <1>2, <1>5, <1>6, KeepsTransitive DEF Keeps
<1> QED  BY <1>1, <1>2, <1>4, <1>5, <1>6, <1>7
         DEF types, popped, reset

(* A label type that is not the one expected.                               *)
LEMMA LabelTypeKeeps ==
    ASSUME NEW st, Within(st), NEW label_type
    PROVE  /\ Keeps(st, CheckLabelType(st, label_type))
           /\ CheckLabelType(st, label_type).types = st.types
           /\ CheckLabelType(st, label_type).ok =>
                 TopLabel(st).label_type = label_type
<1>1. Keeps(st, st)
  BY TopFacts DEF Keeps, Apart
<1> QED  BY <1>1, ErrorKeeps DEF CheckLabelType

(* OnElse succeeds for an if only, which becomes an else.                   *)
LEMMA ElseInside ==
    ASSUME NEW st, Within(st), OnElse(st).ok
    PROVE  LET t == OnElse(st)
               n == Len(st.labels)
           IN  /\ Within(t) /\ Apart(st, t) /\ st.ok
               /\ Len(t.labels) = n /\ n # 1
               /\ TopLabel(st).label_type = "If"
               /\ \A i \in 1 .. n - 1 : SameLabel(st.labels[i], t.labels[i])
               /\ t.labels[n].label_type = "Else"
<1> DEFINE n == Len(st.labels)
           label == TopLabel(st)
           checked == CheckLabelType(st, "If")
           ended == CheckTypeStackEnd(PopAndCheckSignature(checked,
                                                           label.result_types))
           reset == ResetTypeStackToLabel(ended, label)
           next == [label EXCEPT !.label_type = "Else", !.unreachable = FALSE]
           set == SetTop(reset, next)
           t == PushTypes(set, label.param_types)
<1>1. OnElse(st) = t
  BY DEF OnElse, Switch
<1>2. label \in Label /\ label = st.labels[n] /\ n \in Nat \ {0} /\ n \in 1 .. n
  BY TopFacts
<1>3. /\ Keeps(st, checked) /\ Within(checked) /\ TopLabel(checked) = label
      /\ checked.ok => label.label_type = "If"
  BY LabelTypeKeeps, KeepsWithin
<1> HIDE DEF checked
<1>4. Keeps(checked, reset) /\ Within(reset) /\ TopLabel(reset) = label
  BY <1>3, EndedKeeps, KeepsWithin
<1> HIDE DEF reset
<1>5. /\ Keeps(st, reset) /\ reset.labels = st.labels /\ Apart(st, reset)
      /\ reset.ok => st.ok /\ checked.ok
  BY <1>3, <1>4, KeepsTransitive DEF Keeps
<1>6. /\ next \in Label /\ next.type_stack_limit = label.type_stack_limit
      /\ next.label_type = "Else" /\ label.param_types \in Seq(Type)
  BY <1>2 DEF Label, LabelType
<1> HIDE DEF next, label
<1>7. CASE n # 1
  <2>1. /\ Within(set) /\ Apart(reset, set) /\ set.ok = reset.ok
        /\ Len(set.labels) = n
        /\ \A i \in 1 .. n : set.labels[i] = IF i = n THEN next
                                             ELSE st.labels[i]
    BY <1>4, <1>5, <1>6, <1>7, SetTopWithin
  <2> HIDE DEF set
  <2>2. Keeps(set, t) /\ Within(t)
    BY <1>6, <2>1, PushKeeps, KeepsWithin
  <2> HIDE DEF t
  <2>3. Apart(st, t) /\ t.labels = set.labels /\ (t.ok => reset.ok)
    BY <1>5, <2>1, <2>2, ApartTransitive DEF Keeps
  <2>4. \A i \in 1 .. n - 1 : SameLabel(st.labels[i], t.labels[i])
    BY <1>2, <2>1, <2>3 DEF SameLabel
  <2>5. t.labels[n].label_type = "Else"
    BY <1>2, <1>6, <2>1, <2>3
  <2> QED  BY <1>1, <1>3, <1>5, <1>7, <2>1, <2>2, <2>3, <2>4, <2>5 DEF label
<1>8. CASE n = 1
  <2>1. label.label_type = "Func"
    BY <1>2, <1>8, FunctionLabel
  <2>2. ~reset.ok
    BY <1>3, <1>5, <2>1
  <2>3. set \in Reader /\ ~set.ok
    <3> DEFINE labels == [reset.labels EXCEPT ![Len(reset.labels)] = next]
    <3>1. /\ reset \in Reader /\ reset.labels \in Seq(Label)
          /\ Len(reset.labels) \in 1 .. Len(reset.labels)
      BY <1>5, <1>8, FieldTypes DEF Keeps
    <3>2. labels \in Seq(Label)
      BY <1>6, <3>1, ExceptSeq
    <3>3. set = [reset EXCEPT !.labels = labels]
      BY DEF SetTop
    <3> HIDE DEF labels, set
    <3> QED  BY <2>2, <3>1, <3>2, <3>3, WithLabels
  <2>4. ~t.ok
    <3> HIDE DEF set
    <3> DEFINE types == set.types \o label.param_types
    <3>1. types \in Seq(Type)
      BY <1>6, <2>3, FieldTypes, ConcatProperties
    <3>2. t = [set EXCEPT !.types = types]
      BY DEF PushTypes
    <3> HIDE DEF types, t
    <3> QED  BY <2>3, <3>1, <3>2, WithTypes
  <2> QED  BY <1>1, <2>4
<1> QED  BY <1>7, <1>8

(* A label is left.                                                         *)
Left(st, t) ==
    /\ Stacked(t) /\ Apart(st, t)
    /\ t.ok => st.ok
    /\ Len(t.labels) = Len(st.labels) - 1
    /\ \A i \in 1 .. Len(st.labels) - 1 : SameLabel(st.labels[i], t.labels[i])

(* PopLabel with the results of the label left on the stack.                *)
LEMMA EndLabelLeft ==
    ASSUME NEW st, Within(st)
    PROVE  /\ Left(st, EndLabel(st))
           /\ EndLabel(st).ok => Enough(st, Len(TopLabel(st).result_types))
<1> DEFINE label == TopLabel(st)
           ended == CheckTypeStackEnd(PopAndCheckSignature(st,
                                                           label.result_types))
           reset == ResetTypeStackToLabel(ended, label)
           pushed == PushTypes(reset, label.result_types)
           t == PopLabel(pushed)
<1>1. EndLabel(st) = t
  BY DEF EndLabel
<1>2. /\ Keeps(st, reset) /\ label.result_types \in Seq(Type)
      /\ reset.ok => Enough(st, Len(label.result_types))
  BY EndedKeeps
<1> HIDE DEF reset, label
<1>3. /\ Keeps(reset, pushed) /\ Keeps(st, pushed) /\ Within(pushed)
  BY <1>2, KeepsWithin, PushKeeps, KeepsTransitive
<1> HIDE DEF pushed
<1>4. /\ Stacked(t) /\ Apart(pushed, t) /\ t.ok = pushed.ok
      /\ Len(t.labels) = Len(pushed.labels) - 1
      /\ \A i \in 1 .. Len(pushed.labels) - 1 : t.labels[i] = pushed.labels[i]
  BY <1>3, PopLabelStacked
<1> HIDE DEF t
<1> QED  BY <1>1, <1>2, <1>3, <1>4, ApartTransitive
         DEF Left, Keeps, SameLabel, label

(* OnEnd.                                                                   *)
LEMMA EndLeft ==
    ASSUME NEW st, Within(st)
    PROVE  Left(st, OnEnd(st))
<1> DEFINE failed == /\ TopLabel(st).label_type \in {"If", "IfExcept"}
                     /\ TopLabel(st).result_types # <<>>
           checked == ErrorIf(st, failed)
<1>1. failed \in BOOLEAN
  OBVIOUS
<1>2. OnEnd(st) = EndLabel(checked)
  BY DEF OnEnd
<1> HIDE DEF failed
<1>3. Keeps(st, checked) /\ Within(checked)
  BY <1>1, ErrorKeeps, KeepsWithin
<1> HIDE DEF checked
<1>4. Left(checked, EndLabel(checked))
  BY <1>3, EndLabelLeft
<1> QED  BY <1>2, <1>3, <1>4, ApartTransitive DEF Left, Keeps

(* EndFunction succeeds with the label of the function alone.               *)
LEMMA FunctionLeft ==
    ASSUME NEW st, Within(st), EndFunction(st).ok
    PROVE  /\ Left(st, EndFunction(st)) /\ Len(st.labels) = 1 /\ st.ok
           /\ Enough(st, Len(st.labels[1].result_types))
<1> DEFINE checked == CheckLabelType(st, "Func")
<1>1. /\ Keeps(st, checked) /\ Within(checked)
      /\ TopLabel(checked) = TopLabel(st) /\ checked.types = st.types
      /\ checked.ok => TopLabel(st).label_type = "Func"
  BY LabelTypeKeeps, KeepsWithin
<1>2. EndFunction(st) = EndLabel(checked)
  BY DEF EndFunction
<1> HIDE DEF checked
<1>3. /\ Left(checked, EndLabel(checked))
      /\ Enough(checked, Len(TopLabel(checked).result_types))
  BY <1>1, <1>2, EndLabelLeft
<1>4. Left(st, EndFunction(st)) /\ st.ok /\ checked.ok
  BY <1>1, <1>2, <1>3, ApartTransitive DEF Left, Keeps
<1>5. Len(st.labels) = 1
  <2>1. /\ Len(st.labels) \in Nat \ {0} /\ Len(st.labels) \in 1 .. Len(st.labels)
        /\ st.labels[Len(st.labels)].label_type = "Func"
    BY <1>1, <1>4, TopFacts
  <2>2. st.labels[Len(st.labels)].label_type
           \in IF Len(st.labels) = 1 THEN {"Func"}
               ELSE {"Block", "Loop", "If", "Else"}
    BY <2>1 DEF Within, Stacked
  <2> QED  BY <2>1, <2>2
<1> QED  BY <1>1, <1>3, <1>4, <1>5, TopFacts DEF Enough

-----------------------------------------------------------------------------
(* The istream *)

(* What is written leaves the labels as they are, and every operand that it *)
(* leaves open is due.                                                      *)
Grows(st, t) ==
    /\ t \in Reader
    /\ t.types = st.types /\ t.labels = st.labels /\ t.ok = st.ok
    /\ t.label_stack = st.label_stack
    /\ t.func = st.func /\ t.offsets = st.offsets
    /\ st.depth_fixups \subseteq t.depth_fixups
    /\ \A x \in t.depth_fixups \ st.depth_fixups : x[1] < Len(st.label_stack)
    /\ st.func_fixups \subseteq t.func_fixups
    /\ Open(t) \subseteq Open(st) \cup Due(t)

(* What was due still is.                                                   *)
LEMMA GrowsDue ==
    ASSUME NEW st, NEW t, Grows(st, t)
    PROVE  Due(st) \subseteq Due(t)
BY DEF Grows, Due

(* Two pieces of code one after the other.                                  *)
LEMMA GrowsTransitive ==
    ASSUME NEW st, NEW t, NEW u, Grows(st, t), Grows(t, u)
    PROVE  Grows(st, u)
<1>1. Due(t) \subseteq Due(u)
  BY GrowsDue
<1>2. Open(u) \subseteq Open(st) \cup Due(u)
  BY <1>1 DEF Grows
<1> QED  BY <1>2 DEF Grows

(* So all that is open stays due.                                           *)
LEMMA GrowsFixable ==
    ASSUME NEW st, Fixable(st), NEW t, Grows(st, t)
    PROVE  Fixable(t)
<1>1. Stacked(t) /\ Len(t.label_stack) = Len(t.labels)
  BY DEF Grows, Fixable, Stacked
<1>2. \A x \in t.depth_fixups : x[1] < Len(t.labels)
  BY DEF Grows, Fixable
<1>3. Open(t) \subseteq Due(t)
  BY GrowsDue DEF Grows, Fixable
<1> QED  BY <1>1, <1>2, <1>3 DEF Fixable

(* The type checker changes none of this.                                   *)
LEMMA InsideFixable ==
    ASSUME NEW st, Fixable(st), NEW t, Inside(st, t)
    PROVE  Fixable(t)
<1>1. Open(t) = Open(st)
  BY DEF Open, Inside, Apart
<1>2. \A k \in DOMAIN st.label_stack :
         st.labels[k].label_type = t.labels[k].label_type
  <2>1. DOMAIN st.label_stack = 1 .. Len(st.labels)
    BY FieldTypes DEF Fixable, Stacked
  <2> QED  BY <2>1 DEF Inside, SameLabel
<1>3. Due(t) = Due(st)
  BY <1>2 DEF Due, Inside, Apart
<1> QED  BY <1>1, <1>3 DEF Fixable, Inside, Within, Apart

(* The istream is replaced: what is due stays due.                          *)
LEMMA WithIstream ==
    ASSUME NEW st \in Reader, NEW istream \in Seq(Cell)
    PROVE  LET t == [st EXCEPT !.istream = istream]
           IN  /\ t \in Reader /\ t.istream = istream
               /\ t.types = st.types /\ t.labels = st.labels /\ t.ok = st.ok
               /\ t.label_stack = st.label_stack
               /\ t.func = st.func /\ t.offsets = st.offsets
               /\ t.depth_fixups = st.depth_fixups
               /\ t.func_fixups = st.func_fixups /\ Due(t) = Due(st)
BY DEF Reader, Due

(* Opcodes and operands are cells.                                          *)
LEMMA CellTypes ==
    /\ \A i32 \in Int : Operand(i32) \in Cell /\ Operand(i32).i32 = i32
    /\ \A opcode \in Opcodes : /\ Opcode(opcode) \in Cell
                              /\ Opcode(opcode).i32 = 0
<1>1. "operand" \in Opcodes
  BY DEF Opcodes
<1>2. ASSUME NEW i32 \in Int
      PROVE  Operand(i32) \in Cell /\ Operand(i32).i32 = i32
  BY <1>1 DEF Cell, Operand
<1>3. ASSUME NEW opcode \in Opcodes
      PROVE  Opcode(opcode) \in Cell /\ Opcode(opcode).i32 = 0
  BY DEF Cell, Opcode
<1> QED  BY <1>2, <1>3

(* Emit leaves open what it writes as such, at its offset.                  *)
LEMMA EmitOpens ==
    ASSUME NEW st \in Reader, NEW cells \in Seq(Cell)
    PROVE  LET t == Emit(st, cells)
           IN  /\ t \in Reader /\ Len(t.istream) = Len(st.istream) + Len(cells)
               /\ t.types = st.types /\ t.labels = st.labels /\ t.ok = st.ok
               /\ t.label_stack = st.label_stack
               /\ t.func = st.func /\ t.offsets = st.offsets
               /\ t.depth_fixups = st.depth_fixups
               /\ t.func_fixups = st.func_fixups /\ Due(t) = Due(st)
               /\ \A n \in Open(t) :
                     \/ n \in Open(st)
                     \/ \E k \in 1 .. Len(cells) :
                           /\ n = Len(st.istream) + k - 1
                           /\ cells[k].i32 = kInvalidIstreamOffset
<1> DEFINE istream == st.istream \o cells
           t == [st EXCEPT !.istream = istream]
           len == Len(st.istream)
           more == Len(cells)
<1>1. /\ st.istream \in Seq(Cell) /\ len \in Nat
      /\ more \in Nat
  BY FieldTypes
<1>2. /\ istream \in Seq(Cell) /\ Len(istream) = len + more
      /\ \A k \in 1 .. len + more :
            istream[k] = IF k <= len THEN st.istream[k]
                         ELSE cells[k - len]
  BY <1>1, ConcatProperties
<1>3. Emit(st, cells) = t
  BY DEF Emit
<1> HIDE DEF istream, len, more
<1>4. ASSUME NEW j \in 1 .. len + more, istream[j].i32 = kInvalidIstreamOffset
      PROVE  \/ j \in 1 .. len /\ st.istream[j].i32 = kInvalidIstreamOffset
             \/ \E k \in 1 .. more :
                   j = len + k /\ cells[k].i32 = kInvalidIstreamOffset
  <2>1. CASE j <= len
    BY <1>1, <1>2, <1>4, <2>1
  <2>2. CASE ~(j <= len)
    <3> DEFINE k == j - len
    <3>1. istream[j] = cells[k]
      BY <1>2, <2>2
    <3>2. k \in 1 .. more /\ j = len + k
      BY <1>1, <2>2
    <3> QED  BY <1>4, <3>1, <3>2
  <2> QED  BY <2>1, <2>2
<1>5. ASSUME NEW n \in Open(t)
      PROVE  \/ n \in Open(st)
             \/ \E k \in 1 .. more :
                   /\ n = len + k - 1
                   /\ cells[k].i32 = kInvalidIstreamOffset
  <2>1. /\ n \in Nat /\ n + 1 \in 1 .. len + more
        /\ istream[n + 1].i32 = kInvalidIstreamOffset
    BY <1>2, <1>5, WithIstream, LenProperties DEF Open
  <2>2. CASE n + 1 \in 1 .. len /\ st.istream[n + 1].i32 = kInvalidIstreamOffset
    BY <1>1, <2>1, <2>2, FieldTypes DEF Open, len
  <2>3. CASE \E k \in 1 .. more :
                n + 1 = len + k /\ cells[k].i32 = kInvalidIstreamOffset
    BY <1>1, <2>1, <2>3
  <2> QED  BY <1>4, <2>1, <2>2, <2>3
<1> HIDE DEF t
<1>6. /\ t \in Reader /\ t.istream = istream
      /\ t.types = st.types /\ t.labels = st.labels /\ t.ok = st.ok
      /\ t.label_stack = st.label_stack
      /\ t.func = st.func /\ t.offsets = st.offsets
      /\ t.depth_fixups = st.depth_fixups
      /\ t.func_fixups = st.func_fixups /\ Due(t) = Due(st)
  BY <1>2, WithIstream DEF t
<1> QED  BY <1>2, <1>3, <1>5, <1>6 DEF len, more

(* Nothing is left open.                                                    *)
Writes(st, t) ==
    /\ t \in Reader
    /\ t.types = st.types /\ t.labels = st.labels /\ t.ok = st.ok
    /\ t.label_stack = st.label_stack
    /\ t.func = st.func /\ t.offsets = st.offsets
    /\ t.depth_fixups = st.depth_fixups /\ t.func_fixups = st.func_fixups
    /\ Open(t) \subseteq Open(st)

(* Code with no open operand is a special case.                             *)
LEMMA WritesGrows ==
    ASSUME NEW st, NEW t, Writes(st, t)
    PROVE  Grows(st, t)
BY DEF Writes, Grows

(* Two pieces of code one after the other.                                  *)
LEMMA WritesTransitive ==
    ASSUME NEW st, NEW t, NEW u, Writes(st, t), Writes(t, u)
    PROVE  Writes(st, u)
BY DEF Writes

(* Emit of cells none of which is open.                                     *)
LEMMA EmitWrites ==
    ASSUME NEW st \in Reader, NEW cells \in Seq(Cell),
           \A k \in 1 .. Len(cells) : cells[k].i32 # kInvalidIstreamOffset
    PROVE  Writes(st, Emit(st, cells))
BY EmitOpens DEF Writes

(* EmitI32At closes the operands it fills in, and changes no other.         *)
LEMMA FillsOpen ==
    ASSUME NEW st \in Reader, NEW offsets, NEW i32 \in Nat
    PROVE  LET t == EmitI32At(st, offsets, i32)
           IN  /\ t \in Reader /\ Len(t.istream) = Len(st.istream)
               /\ t.types = st.types /\ t.labels = st.labels /\ t.ok = st.ok
               /\ t.label_stack = st.label_stack
               /\ t.func = st.func /\ t.offsets = st.offsets
               /\ t.depth_fixups = st.depth_fixups
               /\ t.func_fixups = st.func_fixups /\ Due(t) = Due(st)
               /\ Open(t) \subseteq Open(st) \ offsets
<1> DEFINE istream == [n \in DOMAIN st.istream |->
                          IF n - 1 \in offsets THEN Operand(i32)
                          ELSE st.istream[n]]
           t == [st EXCEPT !.istream = istream]
<1>1. st.istream \in Seq(Cell) /\ Len(st.istream) \in Nat
      /\ DOMAIN st.istream = 1 .. Len(st.istream)
  BY FieldTypes
<1>2. \A n \in 1 .. Len(st.istream) : st.istream[n] \in Cell
  BY <1>1, ElementOfSeq
<1>3. Operand(i32) \in Cell /\ Operand(i32).i32 # kInvalidIstreamOffset
  BY CellTypes DEF kInvalidIstreamOffset
<1>4. \A n \in 1 .. Len(st.istream) :
         istream[n] = IF n - 1 \in offsets THEN Operand(i32) ELSE st.istream[n]
  BY <1>1
<1>5. istream \in [1 .. Len(st.istream) -> Cell]
  BY <1>1, <1>2, <1>3
<1>6. EmitI32At(st, offsets, i32) = t
  BY DEF EmitI32At
<1> HIDE DEF istream
<1>7. istream \in Seq(Cell) /\ Len(istream) = Len(st.istream)
      /\ DOMAIN istream = 1 .. Len(st.istream)
  BY <1>1, <1>5, SeqDef, LenProperties
<1> HIDE DEF t
<1>8. /\ t \in Reader /\ t.istream = istream
      /\ t.types = st.types /\ t.labels = st.labels /\ t.ok = st.ok
      /\ t.label_stack = st.label_stack
      /\ t.func = st.func /\ t.offsets = st.offsets
      /\ t.depth_fixups = st.depth_fixups
      /\ t.func_fixups = st.func_fixups /\ Due(t) = Due(st)
  BY <1>7, WithIstream DEF t
<1>9. ASSUME NEW n \in Open(t)
      PROVE  n \in Open(st) \ offsets
  <2>1. /\ n \in Nat /\ n + 1 \in 1 .. Len(st.istream)
        /\ istream[n + 1].i32 = kInvalidIstreamOffset
    BY <1>7, <1>8, <1>9 DEF Open
  <2>2. n \notin offsets /\ istream[n + 1] = st.istream[n + 1]
    BY <1>3, <1>4, <2>1
  <2> QED  BY <1>1, <2>1, <2>2 DEF Open
<1> QED  BY <1>6, <1>7, <1>8, <1>9

(* Nothing is written.                                                      *)
LEMMA WritesSelf ==
    ASSUME NEW st \in Reader
    PROVE  Writes(st, st)
BY DEF Writes

(* One cell.                                                                *)
LEMMA EmitOne ==
    ASSUME NEW st \in Reader, NEW a \in Cell, a.i32 # kInvalidIstreamOffset
    PROVE  Writes(st, Emit(st, <<a>>))
<1>1. <<a>> \in Seq(Cell) /\ \A k \in 1 .. Len(<<a>>) : <<a>>[k] = a
  OBVIOUS
<1> QED  BY <1>1, EmitWrites

(* Two cells.                                                               *)
LEMMA EmitTwo ==
    ASSUME NEW st \in Reader, NEW a \in Cell, NEW b \in Cell,
           a.i32 # kInvalidIstreamOffset, b.i32 # kInvalidIstreamOffset
    PROVE  Writes(st, Emit(st, <<a, b>>))
<1>1. <<a, b>> \in Seq(Cell) /\ \A k \in 1 .. Len(<<a, b>>) :
                                   <<a, b>>[k] \in {a, b}
  OBVIOUS
<1> DEFINE cells == <<a, b>>
<1> HIDE DEF cells
<1>2. \A k \in 1 .. Len(cells) : cells[k].i32 # kInvalidIstreamOffset
  BY <1>1 DEF cells
<1>3. cells \in Seq(Cell)
  BY <1>1 DEF cells
<1>4. Writes(st, Emit(st, cells))
  BY <1>2, <1>3, EmitWrites
<1> QED  BY <1>4 DEF cells

(* Three cells.                                                             *)
LEMMA EmitThree ==
    ASSUME NEW st \in Reader, NEW a \in Cell, NEW b \in Cell, NEW d \in Cell,
           a.i32 # kInvalidIstreamOffset, b.i32 # kInvalidIstreamOffset,
           d.i32 # kInvalidIstreamOffset
    PROVE  Writes(st, Emit(st, <<a, b, d>>))
<1>1. <<a, b, d>> \in Seq(Cell) /\ \A k \in 1 .. Len(<<a, b, d>>) :
                                      <<a, b, d>>[k] \in {a, b, d}
  OBVIOUS
<1> DEFINE cells == <<a, b, d>>
<1> HIDE DEF cells
<1>2. \A k \in 1 .. Len(cells) : cells[k].i32 # kInvalidIstreamOffset
  BY <1>1 DEF cells
<1>3. cells \in Seq(Cell)
  BY <1>1 DEF cells
<1>4. Writes(st, Emit(st, cells))
  BY <1>2, <1>3, EmitWrites
<1> QED  BY <1>4 DEF cells

(* An opcode, alone or with an operand that is known.                       *)
LEMMA EmitOpcode ==
    ASSUME NEW st \in Reader, NEW opcode \in Opcodes, NEW i32 \in Nat
    PROVE  /\ Writes(st, Emit(st, <<Opcode(opcode)>>))
           /\ Writes(st, Emit(st, <<Opcode(opcode), Operand(i32)>>))
<1>1. /\ Opcode(opcode) \in Cell /\ Operand(i32) \in Cell
      /\ Opcode(opcode).i32 # kInvalidIstreamOffset
      /\ Operand(i32).i32 # kInvalidIstreamOffset
  BY CellTypes DEF kInvalidIstreamOffset
<1> QED  BY <1>1, EmitOne, EmitTwo

(* EmitDropKeep, for numbers that are not negative.                         *)
LEMMA EmitDropKeepWrites ==
    ASSUME NEW st \in Reader, NEW count, count.drop \in Nat, count.keep \in Nat
    PROVE  Writes(st, EmitDropKeep(st, count))
<1>1. "drop" \in Opcodes /\ "drop_keep" \in Opcodes
  BY DEF Opcodes
<1>2. /\ Opcode("drop_keep") \in Cell
      /\ Operand(count.drop) \in Cell /\ Operand(count.keep) \in Cell
      /\ Opcode("drop_keep").i32 # kInvalidIstreamOffset
      /\ Operand(count.drop).i32 # kInvalidIstreamOffset
      /\ Operand(count.keep).i32 # kInvalidIstreamOffset
  BY <1>1, CellTypes DEF kInvalidIstreamOffset
<1>3. /\ Writes(st, Emit(st, <<Opcode("drop")>>))
      /\ Writes(st, Emit(st, <<Opcode("drop_keep"), Operand(count.drop),
                              Operand(count.keep)>>))
  <2>1. Writes(st, Emit(st, <<Opcode("drop")>>))
    BY <1>1, EmitOpcode
  <2> QED  BY <1>2, <2>1, EmitThree
<1> QED  BY <1>3, WritesSelf DEF EmitDropKeep

(* An offset that is not known yet is noted as a fixup.                     *)
LEMMA EmitBrOffsetGrows ==
    ASSUME NEW st \in Reader, NEW depth \in Nat, depth < Len(st.label_stack)
    PROVE  Grows(st, EmitBrOffset(st, depth))
<1> DEFINE offset == LabelAt(st, depth).offset
           here == Len(st.istream)
           top == Len(st.label_stack) - 1 - depth
           fixed == IF offset = kInvalidIstreamOffset THEN {<<top, here>>}
                    ELSE {}
           noted == [st EXCEPT !.depth_fixups = @ \cup fixed]
           cells == <<Operand(offset)>>
           t == Emit(noted, cells)
<1>1. /\ st.label_stack \in Seq(LabelPlace) /\ Len(st.label_stack) \in Nat
      /\ here \in Nat /\ top \in Nat /\ top < Len(st.label_stack)
      /\ Len(st.label_stack) - depth \in 1 .. Len(st.label_stack)
  BY FieldTypes
<1>2. offset \in Int
  <2>1. st.label_stack[Len(st.label_stack) - depth] \in LabelPlace
    BY <1>1, ElementOfSeq
  <2> QED  BY <2>1 DEF LabelAt, LabelPlace
<1>3. fixed \subseteq Nat \X Nat /\ \A x \in fixed : x[1] = top /\ x[2] = here
  BY <1>1
<1>4. offset = kInvalidIstreamOffset => <<top, here>> \in fixed
  OBVIOUS
<1>5. EmitBrOffset(st, depth) = t
  BY DEF EmitBrOffset, GetIstreamOffset
<1> HIDE DEF offset, here, fixed, top
<1>6. /\ noted \in Reader
      /\ noted.types = st.types /\ noted.labels = st.labels
      /\ noted.ok = st.ok /\ noted.label_stack = st.label_stack
      /\ noted.func = st.func /\ noted.offsets = st.offsets
      /\ noted.depth_fixups = st.depth_fixups \cup fixed
      /\ noted.func_fixups = st.func_fixups /\ noted.istream = st.istream
  BY <1>3 DEF Reader
<1> HIDE DEF noted
<1>7. /\ cells \in Seq(Cell) /\ Len(cells) = 1 /\ cells[1].i32 = offset
  BY <1>2, CellTypes
<1> HIDE DEF cells
<1>8. /\ t \in Reader
      /\ t.types = noted.types /\ t.labels = noted.labels /\ t.ok = noted.ok
      /\ t.label_stack = noted.label_stack
      /\ t.func = noted.func /\ t.offsets = noted.offsets
      /\ t.depth_fixups = noted.depth_fixups
      /\ t.func_fixups = noted.func_fixups
      /\ \A n \in Open(t) :
            \/ n \in Open(noted)
            \/ \E k \in 1 .. Len(cells) :
                  /\ n = Len(noted.istream) + k - 1
                  /\ cells[k].i32 = kInvalidIstreamOffset
  BY <1>6, <1>7, EmitOpens
<1> HIDE DEF t
<1>9. ASSUME NEW n \in Open(t)
      PROVE  n \in Open(st) \cup Due(t)
  <2>1. Open(noted) = Open(st)
    BY <1>6 DEF Open
  <2>2. CASE n = here /\ offset = kInvalidIstreamOffset
    <3>1. <<top, here>> \in t.depth_fixups /\ <<top, here>>[2] = n
      BY <1>4, <1>6, <1>8, <2>2
    <3>2. n \in {x[2] : x \in t.depth_fixups}
      BY <3>1
    <3> QED  BY <3>2 DEF Due
  <2>3. Len(noted.istream) = here
    BY <1>6 DEF here
  <2>4. ASSUME NEW k \in 1 .. Len(cells), n = Len(noted.istream) + k - 1,
               cells[k].i32 = kInvalidIstreamOffset
        PROVE  n = here /\ offset = kInvalidIstreamOffset
    <3>1. k = 1
      BY <1>7
    <3> QED  BY <1>1, <1>7, <2>3, <2>4, <3>1
  <2> QED  BY <1>8, <1>9, <2>1, <2>2, <2>4
<1>10. \A x \in t.depth_fixups \ st.depth_fixups : x[1] < Len(st.label_stack)
  BY <1>1, <1>3, <1>6, <1>8
<1> QED  BY <1>5, <1>6, <1>8, <1>9, <1>10 DEF Grows

(* A function that has not been read is noted as a fixup.                   *)
LEMMA EmitFuncOffsetGrows ==
    ASSUME NEW st \in Reader, NEW f \in Defined
    PROVE  Grows(st, EmitFuncOffset(st, f))
<1> DEFINE offset == st.offsets[f]
           here == Len(st.istream)
           fixed == IF offset = kInvalidIstreamOffset THEN {<<f, here>>} ELSE {}
           noted == [st EXCEPT !.func_fixups = @ \cup fixed]
           cells == <<Operand(offset)>>
           t == Emit(noted, cells)
<1>1. here \in Nat /\ offset \in Int
  BY FieldTypes DEF Defined
<1>2. fixed \subseteq Defined \X Nat
  BY <1>1
<1>3. offset = kInvalidIstreamOffset => <<f, here>> \in fixed
  OBVIOUS
<1>4. EmitFuncOffset(st, f) = t
  BY DEF EmitFuncOffset, GetIstreamOffset
<1> HIDE DEF offset, here, fixed
<1>5. /\ noted \in Reader
      /\ noted.types = st.types /\ noted.labels = st.labels
      /\ noted.ok = st.ok /\ noted.label_stack = st.label_stack
      /\ noted.func = st.func /\ noted.offsets = st.offsets
      /\ noted.depth_fixups = st.depth_fixups
      /\ noted.func_fixups = st.func_fixups \cup fixed
      /\ noted.istream = st.istream
  BY <1>2 DEF Reader
<1> HIDE DEF noted
<1>6. /\ cells \in Seq(Cell) /\ Len(cells) = 1 /\ cells[1].i32 = offset
  BY <1>1, CellTypes
<1> HIDE DEF cells
<1>7. /\ t \in Reader
      /\ t.types = noted.types /\ t.labels = noted.labels /\ t.ok = noted.ok
      /\ t.label_stack = noted.label_stack
      /\ t.func = noted.func /\ t.offsets = noted.offsets
      /\ t.depth_fixups = noted.depth_fixups
      /\ t.func_fixups = noted.func_fixups
      /\ \A n \in Open(t) :
            \/ n \in Open(noted)
            \/ \E k \in 1 .. Len(cells) :
                  /\ n = Len(noted.istream) + k - 1
                  /\ cells[k].i32 = kInvalidIstreamOffset
  BY <1>5, <1>6, EmitOpens
<1> HIDE DEF t
<1>8. ASSUME NEW n \in Open(t)
      PROVE  n \in Open(st) \cup Due(t)
  <2>1. Open(noted) = Open(st)
    BY <1>5 DEF Open
  <2>2. CASE n = here /\ offset = kInvalidIstreamOffset
    <3> DEFINE y == <<f, here>>
    <3>1. /\ y \in t.func_fixups /\ y[2] = n /\ y[1] = f
          /\ t.offsets[f] = kInvalidIstreamOffset
      BY <1>3, <1>5, <1>7, <2>2 DEF offset
    <3> HIDE DEF y
    <3>2. n \in {x[2] : x \in {z \in t.func_fixups :
                                  t.offsets[z[1]] = kInvalidIstreamOffset}}
      BY <3>1
    <3> QED  BY <3>2 DEF Due
  <2>3. Len(noted.istream) = here
    BY <1>5 DEF here
  <2>4. ASSUME NEW k \in 1 .. Len(cells), n = Len(noted.istream) + k - 1,
               cells[k].i32 = kInvalidIstreamOffset
        PROVE  n = here /\ offset = kInvalidIstreamOffset
    <3>1. k = 1
      BY <1>6
    <3> QED  BY <1>1, <1>6, <2>3, <2>4, <3>1
  <2> QED  BY <1>7, <1>8, <2>1, <2>2, <2>4
<1> QED  BY <1>4, <1>5, <1>7, <1>8 DEF Grows

(* EmitBr: drop and keep, the opcode and the offset.                        *)
LEMMA EmitBrGrows ==
    ASSUME NEW st \in Reader, NEW depth \in Nat, depth < Len(st.label_stack),
           NEW count, count.drop \in Nat, count.keep \in Nat
    PROVE  Grows(st, EmitBr(st, depth, count))
<1> DEFINE dropped == EmitDropKeep(st, count)
           begun == Emit(dropped, <<Opcode("br")>>)
<1>1. Grows(st, dropped)
  BY EmitDropKeepWrites, WritesGrows
<1> HIDE DEF dropped
<1>2. Grows(dropped, begun)
  <2>1. "br" \in Opcodes
    BY DEF Opcodes
  <2> QED  BY <1>1, <2>1, EmitOpcode, WritesGrows DEF Grows
<1> HIDE DEF begun
<1>3. Grows(begun, EmitBrOffset(begun, depth))
  BY <1>1, <1>2, EmitBrOffsetGrows DEF Grows
<1>4. EmitBr(st, depth, count) = EmitBrOffset(begun, depth)
  BY DEF EmitBr, begun, dropped
<1> QED  BY <1>1, <1>2, <1>3, <1>4, GrowsTransitive

-----------------------------------------------------------------------------
(* Values to drop and keep *)

(* No branch drops less than nothing: its label's limit is not above that   *)
(* of the top label, which has the values to keep above it.                 *)
LEMMA BrCount ==
    ASSUME NEW st, Within(st), NEW depth \in Nat, depth < Len(st.labels),
           Enough(st, Len(br_types(GetLabel(st, depth))))
    PROVE  /\ GetBrDropKeepCount(st, depth).drop \in Nat
           /\ GetBrDropKeepCount(st, depth).keep \in Nat
<1> DEFINE label == GetLabel(st, depth)
           keep == Len(br_types(label))
           drop == Len(st.types) - label.type_stack_limit - keep
<1>1. /\ Len(st.labels) - depth \in 1 .. Len(st.labels)
      /\ label = st.labels[Len(st.labels) - depth] /\ keep \in Nat
  BY BranchTypes
<1>2. /\ label.type_stack_limit \in Nat
      /\ label.type_stack_limit <= TopLabel(st).type_stack_limit
      /\ TopLabel(st).type_stack_limit \in Nat /\ Len(st.types) \in Nat
  BY <1>1, TopFacts, FieldTypes
<1>3. GetBrDropKeepCount(st, depth) =
         [keep |-> keep, drop |-> IF TopLabel(st).unreachable THEN 0 ELSE drop]
  BY DEF GetBrDropKeepCount
<1>4. TopLabel(st).unreachable
         \/ TopLabel(st).type_stack_limit + keep <= Len(st.types)
  BY DEF Enough
<1>5. ASSUME ~TopLabel(st).unreachable PROVE drop \in Nat
  <2> DEFINE limit == label.type_stack_limit
             top == TopLabel(st).type_stack_limit
             len == Len(st.types)
  <2>1. /\ limit \in Nat /\ top \in Nat /\ len \in Nat /\ keep \in Nat
        /\ limit <= top /\ top + keep <= len
    BY <1>1, <1>2, <1>4, <1>5
  <2> HIDE DEF limit, top, len, keep
  <2>2. len - limit - keep \in Nat
    BY <2>1
  <2> QED  BY <2>2 DEF limit, len
<1>6. keep \in Nat
  BY <1>1
<1> HIDE DEF keep, drop
<1> QED  BY <1>3, <1>5, <1>6

(* A return drops the locals and the parameters, too.                       *)
LEMMA ReturnCount ==
    ASSUME NEW st, Within(st), Len(st.label_stack) = Len(st.labels),
           st.func \in Defined,
           Enough(st, Len(st.labels[1].result_types))
    PROVE  /\ GetReturnDropKeepCount(st).drop \in Nat
           /\ GetReturnDropKeepCount(st).keep \in Nat
<1> DEFINE depth == Len(st.label_stack) - 1
           count == GetBrDropKeepCount(st, depth)
<1>1. depth \in Nat /\ depth < Len(st.labels) /\ Len(st.labels) - depth = 1
  BY TopFacts
<1>2. GetLabel(st, depth) = st.labels[1]
  BY <1>1 DEF GetLabel
<1>3. br_types(GetLabel(st, depth)) = st.labels[1].result_types
  BY <1>2, FunctionLabel DEF br_types
<1>4. count.drop \in Nat /\ count.keep \in Nat
  BY <1>1, <1>3, BrCount
<1>5. ParamAndLocalCount(st.func) \in Nat
  BY ProgramTypes, LenProperties DEF ParamAndLocalCount, Defined
<1>6. GetReturnDropKeepCount(st) =
         [count EXCEPT !.drop = @ + ParamAndLocalCount(st.func)]
  BY DEF GetReturnDropKeepCount
<1>7. count = [keep |-> count.keep, drop |-> count.drop]
  BY DEF GetBrDropKeepCount
<1> HIDE DEF count
<1> QED  BY <1>4, <1>5, <1>6, <1>7

-----------------------------------------------------------------------------
(* The label stack of the reader *)

(* A label is pushed, with the fixup of its if.                             *)
LEMMA Push_LabelFixable ==
    ASSUME NEW st, Fixable(st), NEW t, Stacked(t),
           Len(t.labels) = Len(st.labels) + 1,
           \A i \in 1 .. Len(st.labels) : SameLabel(st.labels[i], t.labels[i]),
           t.label_stack = st.label_stack, t.depth_fixups = st.depth_fixups,
           t.func_fixups = st.func_fixups, t.offsets = st.offsets,
           NEW offset \in Int, NEW fixup_offset \in Int,
           Open(t) \subseteq Open(st) \cup
              (IF t.labels[Len(st.labels) + 1].label_type = "If"
               THEN {fixup_offset} ELSE {})
    PROVE  LET u == Push_Label(t, offset, fixup_offset)
           IN  /\ Fixable(u) /\ u.labels = t.labels /\ u.func = t.func
               /\ u.ok = t.ok
<1> DEFINE n == Len(st.labels)
           place == [offset |-> offset, fixup_offset |-> fixup_offset]
           label_stack == Append(st.label_stack, place)
           u == [t EXCEPT !.label_stack = label_stack]
<1>1. /\ t \in Reader /\ st.label_stack \in Seq(LabelPlace) /\ n \in Nat
      /\ Len(st.label_stack) = n /\ DOMAIN st.label_stack = 1 .. n
  BY FieldTypes DEF Fixable, Stacked
<1>2. place \in LabelPlace /\ place.fixup_offset = fixup_offset
  BY DEF LabelPlace
<1>3. Push_Label(t, offset, fixup_offset) = u
  BY DEF Push_Label
<1> HIDE DEF place
<1>4. /\ label_stack \in Seq(LabelPlace) /\ Len(label_stack) = n + 1
      /\ DOMAIN label_stack = 1 .. n + 1
      /\ \A k \in 1 .. n : label_stack[k] = st.label_stack[k]
      /\ label_stack[n + 1] = place
  BY <1>1, <1>2
<1> HIDE DEF label_stack
<1>5. /\ u \in Reader /\ u.label_stack = label_stack
      /\ u.types = t.types /\ u.labels = t.labels /\ u.func = t.func
      /\ u.ok = t.ok /\ u.istream = t.istream /\ u.depth_fixups = t.depth_fixups
      /\ u.func_fixups = t.func_fixups /\ u.offsets = t.offsets
  BY <1>1, <1>4 DEF Reader
<1> HIDE DEF u
<1>6. Stacked(u)
  BY <1>5 DEF Stacked
<1>7. \A x \in u.depth_fixups : x[1] < n + 1
  <2>1. \A x \in st.depth_fixups : x[1] \in Nat /\ x[1] < n
    BY FieldTypes DEF Fixable, Stacked
  <2> QED  BY <1>1, <1>5, <2>1
<1>8. \A k \in 1 .. n : st.labels[k].label_type = u.labels[k].label_type
  BY <1>5 DEF SameLabel
<1>9. Due(st) \subseteq Due(u)
  <2>1. ASSUME NEW k \in 1 .. n, st.labels[k].label_type \in {"If", "Else"}
        PROVE  st.label_stack[k].fixup_offset \in Due(u)
    <3>1. k \in DOMAIN u.label_stack /\ u.labels[k].label_type \in {"If", "Else"}
      BY <1>1, <1>4, <1>5, <1>8, <2>1
    <3>2. u.label_stack[k] = st.label_stack[k]
      BY <1>4, <1>5
    <3> QED  BY <3>1, <3>2 DEF Due
  <2> QED  BY <1>1, <1>5, <2>1 DEF Due
<1>10. u.labels[n + 1].label_type = "If" => fixup_offset \in Due(u)
  <2>1. n + 1 \in DOMAIN u.label_stack
    BY <1>1, <1>4, <1>5
  <2>2. u.label_stack[n + 1].fixup_offset = fixup_offset
    BY <1>2, <1>4, <1>5
  <2> QED  BY <2>1, <2>2 DEF Due
<1>11. Open(u) = Open(t)
  BY <1>5 DEF Open
<1>12. Open(u) \subseteq Due(u)
  BY <1>5, <1>9, <1>10, <1>11 DEF Fixable
<1> QED  BY <1>1, <1>3, <1>4, <1>5, <1>6, <1>7, <1>12 DEF Fixable

(* A label is popped, the branches to which have been filled in.            *)
LEMMA Pop_LabelFixable ==
    ASSUME NEW st, Fixable(st), NEW t, Stacked(t), st.labels # <<>>,
           Len(t.labels) = Len(st.labels) - 1,
           \A i \in 1 .. Len(st.labels) - 1 :
              SameLabel(st.labels[i], t.labels[i]),
           t.label_stack = st.label_stack,
           t.depth_fixups = {x \in st.depth_fixups :
                                x[1] # Len(st.labels) - 1},
           t.func_fixups = st.func_fixups, t.offsets = st.offsets,
           \A n \in Open(t) :
              /\ n \in Open(st)
              /\ <<Len(st.labels) - 1, n>> \notin st.depth_fixups
              /\ st.labels[Len(st.labels)].label_type \in {"If", "Else"}
                    => n # st.label_stack[Len(st.labels)].fixup_offset
    PROVE  LET u == Pop_Label(t)
           IN  /\ Fixable(u) /\ u.labels = t.labels /\ u.func = t.func
               /\ u.ok = t.ok /\ u.offsets = t.offsets
<1> DEFINE n == Len(st.labels)
           label_stack == Front(st.label_stack)
           depth_fixups == {x \in t.depth_fixups : x[1] < n - 1}
           u == [t EXCEPT !.label_stack = label_stack,
                          !.depth_fixups = depth_fixups]
<1>1. /\ t \in Reader /\ st.label_stack \in Seq(LabelPlace)
      /\ st.labels \in Seq(Label) /\ n \in Nat \ {0}
      /\ Len(st.label_stack) = n /\ DOMAIN st.label_stack = 1 .. n
  BY FieldTypes DEF Fixable, Stacked
<1>2. Pop_Label(t) = u
  BY <1>1 DEF Pop_Label
<1>3. /\ label_stack \in Seq(LabelPlace) /\ Len(label_stack) = n - 1
      /\ DOMAIN label_stack = 1 .. n - 1
      /\ \A k \in 1 .. n - 1 : label_stack[k] = st.label_stack[k]
  <2>1. label_stack = SubSeq(st.label_stack, 1, n - 1)
    BY <1>1 DEF Front
  <2>2. SubSeq(st.label_stack, 1, n - 1) \in Seq(LabelPlace)
    BY <1>1, SubSeqProperties
  <2> QED  BY <1>1, <2>1, <2>2, SubSeqProperties
<1>4. \A x \in st.depth_fixups : x \in Nat \X Nat /\ x[1] < n
  BY FieldTypes DEF Fixable, Stacked
<1>5. depth_fixups \subseteq Nat \X Nat /\ depth_fixups = t.depth_fixups
  BY <1>1, <1>4
<1> HIDE DEF label_stack, depth_fixups
<1>6. /\ u \in Reader /\ u.label_stack = label_stack
      /\ u.types = t.types /\ u.labels = t.labels /\ u.func = t.func
      /\ u.ok = t.ok /\ u.istream = t.istream
      /\ u.depth_fixups = t.depth_fixups
      /\ u.func_fixups = t.func_fixups /\ u.offsets = t.offsets
  BY <1>1, <1>3, <1>5 DEF Reader
<1> HIDE DEF u
<1>7. Stacked(u)
  BY <1>6 DEF Stacked
<1>8. \A x \in u.depth_fixups : x[1] < n - 1
  BY <1>1, <1>4, <1>6
<1>9. \A k \in 1 .. n - 1 : st.labels[k].label_type = u.labels[k].label_type
  BY <1>6 DEF SameLabel
<1>10. ASSUME NEW o \in Open(u)
       PROVE  o \in Due(u)
  <2>1. /\ o \in Open(st) /\ <<n - 1, o>> \notin st.depth_fixups
        /\ st.labels[n].label_type \in {"If", "Else"}
              => o # st.label_stack[n].fixup_offset
    BY <1>6 DEF Open
  <2>2. CASE o \in {x[2] : x \in st.depth_fixups}
    <3>1. PICK x \in st.depth_fixups : x[2] = o
      BY <2>2
    <3>2. x = <<x[1], x[2]>> /\ x[1] # n - 1
      BY <1>4, <2>1, <3>1
    <3>3. x \in u.depth_fixups
      BY <1>6, <3>2
    <3> QED  BY <3>1, <3>3 DEF Due
  <2>3. CASE o \in {x[2] : x \in {y \in st.func_fixups :
                                     st.offsets[y[1]] = kInvalidIstreamOffset}}
    BY <1>6, <2>3 DEF Due
  <2>4. CASE o \in {st.label_stack[k].fixup_offset :
                       k \in {k \in DOMAIN st.label_stack :
                                st.labels[k].label_type \in {"If", "Else"}}}
    <3>1. PICK k \in 1 .. n : /\ st.labels[k].label_type \in {"If", "Else"}
                              /\ st.label_stack[k].fixup_offset = o
      BY <1>1, <2>4
    <3>2. k # n /\ k \in 1 .. n - 1
      BY <1>1, <2>1, <3>1
    <3>3. /\ k \in DOMAIN u.label_stack
          /\ u.labels[k].label_type \in {"If", "Else"}
          /\ u.label_stack[k].fixup_offset = o
      BY <1>3, <1>6, <1>9, <3>1, <3>2
    <3> QED  BY <3>3 DEF Due
  <2> QED  BY <2>1, <2>2, <2>3, <2>4 DEF Fixable, Due
<1> QED  BY <1>1, <1>2, <1>3, <1>6, <1>7, <1>8, <1>10 DEF Fixable

-----------------------------------------------------------------------------
(* The instructions *)

(* The reader between two instructions of a function.                       *)
Reading(st) ==
    Fixable(st) /\ st.ok /\ st.labels # <<>> /\ st.func \in Defined

(* What the lemmas on the type checker want.                                *)
LEMMA ReadingFacts ==
    ASSUME NEW st, Reading(st)
    PROVE  /\ st \in Reader /\ Within(st) /\ Stacked(st)
           /\ Len(st.label_stack) = Len(st.labels)
           /\ Len(st.labels) \in Nat \ {0}
BY TopFacts DEF Reading, Fixable, Within, Stacked

(* Operands change and something is written.                                *)
LEMMA GrowsReads ==
    ASSUME NEW st, Reading(st), NEW t, Inside(st, t), NEW u, Grows(t, u), u.ok
    PROVE  Reading(u)
<1>1. Fixable(t) /\ t.labels # <<>> /\ t.func = st.func
  BY ReadingFacts, InsideFixable DEF Reading, Inside, Within, Apart
<1>2. Fixable(u) /\ u.labels = t.labels /\ u.func = t.func
  BY <1>1, GrowsFixable DEF Grows
<1> QED  BY <1>1, <1>2 DEF Reading

(* Its fields after a method of the type checker.                           *)
LEMMA InsideReader ==
    ASSUME NEW st, NEW t, Inside(st, t)
    PROVE  /\ t \in Reader /\ Within(t) /\ t.label_stack = st.label_stack
           /\ t.func = st.func
BY DEF Inside, Within, Stacked, Apart

(* A block is entered and its label pushed.                                 *)
LEMMA EntersReads ==
    ASSUME NEW st, Reading(st), NEW label_type, NEW t, Enters(st, t, label_type),
           NEW v \in Reader, v.labels = t.labels, v.types = t.types,
           v.label_stack = t.label_stack, v.depth_fixups = t.depth_fixups,
           v.func_fixups = t.func_fixups, v.offsets = t.offsets,
           v.func = t.func,
           NEW offset \in Int, NEW fixup_offset \in Int,
           Open(v) \subseteq Open(t) \cup
              (IF label_type = "If" THEN {fixup_offset} ELSE {}),
           Push_Label(v, offset, fixup_offset).ok
    PROVE  Reading(Push_Label(v, offset, fixup_offset))
<1> DEFINE u == Push_Label(v, offset, fixup_offset)
<1>1. Stacked(v) /\ v.labels # <<>>
  BY DEF Enters, Within, Stacked
<1>2. Open(t) = Open(st)
  BY DEF Enters, Apart, Open
<1>3. /\ Len(v.labels) = Len(st.labels) + 1
      /\ \A i \in 1 .. Len(st.labels) : SameLabel(st.labels[i], v.labels[i])
      /\ v.labels[Len(st.labels) + 1].label_type = label_type
      /\ v.label_stack = st.label_stack /\ v.depth_fixups = st.depth_fixups
      /\ v.func_fixups = st.func_fixups /\ v.offsets = st.offsets
      /\ v.func = st.func
  BY DEF Enters, Apart
<1>4. Fixable(u) /\ u.labels = v.labels /\ u.func = v.func
  BY <1>1, <1>2, <1>3, Push_LabelFixable DEF Reading
<1> QED  BY <1>1, <1>3, <1>4 DEF Reading

(* OnBlockExpr and OnLoopExpr.                                              *)
LEMMA BlockReads ==
    ASSUME NEW st, Reading(st), NEW b,
           b.params \in Seq(Type), b.results \in Seq(Type)
    PROVE  /\ OnBlockExpr(st, b).ok => Reading(OnBlockExpr(st, b))
           /\ OnLoopExpr(st, b).ok => Reading(OnLoopExpr(st, b))
<1>1. ASSUME NEW label_type \in {"Block", "Loop"}, NEW offset \in Int
      PROVE  LET t == OnBlock(st, label_type, b.params, b.results)
                 u == Push_Label(t, offset, kInvalidIstreamOffset)
             IN  u.ok => Reading(u)
  <2> DEFINE t == OnBlock(st, label_type, b.params, b.results)
             u == Push_Label(t, offset, kInvalidIstreamOffset)
  <2> SUFFICES ASSUME u.ok PROVE Reading(u)
    OBVIOUS
  <2>1. Enters(st, t, label_type)
    BY ReadingFacts, BlockEnters
  <2>2. t \in Reader
    BY <2>1 DEF Enters, Within, Stacked
  <2> HIDE DEF t
  <2> QED  BY <2>1, <2>2, EntersReads DEF kInvalidIstreamOffset
<1>2. OnBlockExpr(st, b).ok => Reading(OnBlockExpr(st, b))
  <2> DEFINE t == OnBlock(st, "Block", b.params, b.results)
  <2>1. OnBlockExpr(st, b) =
           IF t.ok THEN Push_Label(t, kInvalidIstreamOffset,
                                   kInvalidIstreamOffset) ELSE t
    BY DEF OnBlockExpr, Checked
  <2>2. LET u == Push_Label(t, kInvalidIstreamOffset, kInvalidIstreamOffset)
        IN  u.ok => Reading(u)
    BY <1>1 DEF kInvalidIstreamOffset
  <2> QED  BY <2>1, <2>2
<1>3. OnLoopExpr(st, b).ok => Reading(OnLoopExpr(st, b))
  <2> DEFINE t == OnBlock(st, "Loop", b.params, b.results)
  <2>1. OnLoopExpr(st, b) =
           IF t.ok THEN Push_Label(t, GetIstreamOffset(t),
                                   kInvalidIstreamOffset) ELSE t
    BY DEF OnLoopExpr, Checked
  <2>2. GetIstreamOffset(t) \in Int
    <3>1. t \in Reader
      BY ReadingFacts, BlockEnters DEF Enters, Within, Stacked
    <3> HIDE DEF t
    <3> QED  BY <3>1, FieldTypes DEF GetIstreamOffset
  <2>3. LET u == Push_Label(t, GetIstreamOffset(t), kInvalidIstreamOffset)
        IN  u.ok => Reading(u)
    BY <1>1, <2>2
  <2> QED  BY <2>1, <2>3
<1> QED  BY <1>2, <1>3

(* An opcode whose operand is left open.                                    *)
LEMMA EmitOpen ==
    ASSUME NEW st \in Reader, NEW opcode \in Opcodes
    PROVE  LET t == Emit(st, <<Opcode(opcode), Operand(kInvalidIstreamOffset)>>)
           IN  /\ t \in Reader /\ Len(t.istream) = Len(st.istream) + 2
               /\ t.types = st.types /\ t.labels = st.labels /\ t.ok = st.ok
               /\ t.label_stack = st.label_stack
               /\ t.func = st.func /\ t.offsets = st.offsets
               /\ t.depth_fixups = st.depth_fixups
               /\ t.func_fixups = st.func_fixups /\ Due(t) = Due(st)
               /\ Open(t) \subseteq Open(st) \cup {Len(st.istream) + 1}
<1> DEFINE cells == <<Opcode(opcode), Operand(kInvalidIstreamOffset)>>
           t == Emit(st, cells)
<1>1. Len(st.istream) \in Nat
  BY FieldTypes
<1>2. /\ cells \in Seq(Cell) /\ Len(cells) = 2
      /\ cells[1].i32 # kInvalidIstreamOffset
  <2>1. Opcode(opcode) \in Cell /\ Opcode(opcode).i32 = 0
    BY CellTypes
  <2>2. Operand(kInvalidIstreamOffset) \in Cell
    BY CellTypes DEF kInvalidIstreamOffset
  <2> QED  BY <2>1, <2>2 DEF kInvalidIstreamOffset
<1> HIDE DEF cells
<1>3. /\ t \in Reader /\ Len(t.istream) = Len(st.istream) + Len(cells)
      /\ t.types = st.types /\ t.labels = st.labels /\ t.ok = st.ok
      /\ t.label_stack = st.label_stack
      /\ t.func = st.func /\ t.offsets = st.offsets
      /\ t.depth_fixups = st.depth_fixups
      /\ t.func_fixups = st.func_fixups /\ Due(t) = Due(st)
      /\ \A n \in Open(t) :
            \/ n \in Open(st)
            \/ \E k \in 1 .. Len(cells) :
                  /\ n = Len(st.istream) + k - 1
                  /\ cells[k].i32 = kInvalidIstreamOffset
  BY <1>2, EmitOpens
<1> HIDE DEF t
<1>4. Open(t) \subseteq Open(st) \cup {Len(st.istream) + 1}
  <2>1. ASSUME NEW k \in 1 .. Len(cells), NEW n,
               n = Len(st.istream) + k - 1,
               cells[k].i32 = kInvalidIstreamOffset
        PROVE  n = Len(st.istream) + 1
    <3>1. k = 2
      BY <1>2, <2>1
    <3> QED  BY <1>1, <2>1, <3>1
  <2> QED  BY <1>3, <2>1
<1> QED  BY <1>2, <1>3, <1>4 DEF t, cells

(* br_unless has an operand that is open: the fixup of the label.           *)
LEMMA IfReads ==
    ASSUME NEW st, Reading(st), NEW b, b.params \in Seq(Type),
           b.results \in Seq(Type), OnIfExpr(st, b).ok
    PROVE  Reading(OnIfExpr(st, b))
<1> DEFINE t == OnIf(st, b.params, b.results)
           v == Emit(t, <<Opcode("br_unless"), Operand(kInvalidIstreamOffset)>>)
           u == Push_Label(v, kInvalidIstreamOffset, GetIstreamOffset(t) + 1)
<1>1. OnIfExpr(st, b) = IF t.ok THEN u ELSE t
  BY DEF OnIfExpr, Checked
<1>2. Enters(st, t, "If")
  BY ReadingFacts, IfEnters
<1>3. t \in Reader
  BY <1>2 DEF Enters, Within, Stacked
<1> HIDE DEF t
<1>4. /\ v \in Reader
      /\ v.types = t.types /\ v.labels = t.labels /\ v.ok = t.ok
      /\ v.label_stack = t.label_stack
      /\ v.func = t.func /\ v.offsets = t.offsets
      /\ v.depth_fixups = t.depth_fixups
      /\ v.func_fixups = t.func_fixups
      /\ Open(v) \subseteq Open(t) \cup {Len(t.istream) + 1}
  BY <1>3, EmitOpen DEF Opcodes
<1> HIDE DEF v
<1>5. u.ok => Reading(u)
  <2>1. GetIstreamOffset(t) + 1 = Len(t.istream) + 1
        /\ Len(t.istream) + 1 \in Int /\ kInvalidIstreamOffset \in Int
    BY <1>3, FieldTypes DEF GetIstreamOffset, kInvalidIstreamOffset
  <2> QED  BY <1>2, <1>4, <2>1, EntersReads
<1> HIDE DEF u
<1>6. t.ok /\ OnIfExpr(st, b) = u
  BY <1>1
<1> QED  BY <1>5, <1>6

(* The branch over the else is open; that of the if, to here, is filled in. *)
LEMMA ElseReads ==
    ASSUME NEW st, Reading(st), OnElseExpr(st).ok
    PROVE  Reading(OnElseExpr(st))
<1> DEFINE r == OnElse(st)
           n == Len(st.labels)
           v == Emit(r, <<Opcode("br"), Operand(kInvalidIstreamOffset)>>)
           here == GetIstreamOffset(v)
           old == r.label_stack[Len(r.label_stack)].fixup_offset
           place == [st.label_stack[n] EXCEPT !.fixup_offset = here - 1]
           label_stack == [st.label_stack EXCEPT ![n] = place]
           w == [v EXCEPT !.label_stack = label_stack]
           u == EmitI32At(w, {old}, here)
<1>1. /\ st \in Reader /\ Within(st) /\ n \in Nat \ {0} /\ n \in 1 .. n
      /\ st.label_stack \in Seq(LabelPlace) /\ Len(st.label_stack) = n
      /\ DOMAIN st.label_stack = 1 .. n
  BY ReadingFacts, FieldTypes
<1>2. r.ok /\ OnElseExpr(st) =
         EmitI32At([v EXCEPT !.label_stack[Len(r.label_stack)].fixup_offset =
                                here - 1], {old}, here)
  BY DEF OnElseExpr, Checked
<1>3. /\ Within(r) /\ Apart(st, r) /\ Len(r.labels) = n
      /\ \A i \in 1 .. n - 1 : SameLabel(st.labels[i], r.labels[i])
      /\ r.labels[n].label_type = "Else"
  BY <1>1, <1>2, ElseInside
<1> HIDE DEF r
<1>4. /\ r \in Reader /\ r.label_stack = st.label_stack
      /\ old = st.label_stack[n].fixup_offset
      /\ Len(r.istream) \in Nat /\ r.istream = st.istream
  BY <1>1, <1>3, FieldTypes DEF Apart, Within, Stacked
<1>5. /\ v \in Reader /\ Len(v.istream) = Len(r.istream) + 2
      /\ v.types = r.types /\ v.labels = r.labels
      /\ v.label_stack = r.label_stack
      /\ v.func = r.func /\ v.offsets = r.offsets
      /\ v.depth_fixups = r.depth_fixups
      /\ v.func_fixups = r.func_fixups
      /\ Open(v) \subseteq Open(r) \cup {Len(r.istream) + 1}
  BY <1>4, EmitOpen DEF Opcodes
<1> HIDE DEF v
<1>6. here \in Nat /\ here - 1 = Len(st.istream) + 1
  BY <1>4, <1>5 DEF GetIstreamOffset
<1> HIDE DEF here
<1>7. st.label_stack[n] \in LabelPlace
  BY <1>1, ElementOfSeq
<1>8. place \in LabelPlace /\ place.fixup_offset = here - 1
  BY <1>6, <1>7 DEF LabelPlace
<1>9. OnElseExpr(st) = u
  BY <1>1, <1>2, <1>4, <1>5
<1> HIDE DEF place, old
<1>10. /\ label_stack \in Seq(LabelPlace) /\ Len(label_stack) = n
       /\ DOMAIN label_stack = 1 .. n
       /\ \A k \in 1 .. n : label_stack[k] = IF k = n THEN place
                                             ELSE st.label_stack[k]
  BY <1>1, <1>8, ExceptSeq, LenProperties
<1> HIDE DEF label_stack
<1>11. /\ w \in Reader /\ w.types = r.types /\ w.labels = r.labels
       /\ w.label_stack = label_stack /\ w.istream = v.istream
       /\ w.func = st.func /\ w.offsets = st.offsets
       /\ w.depth_fixups = st.depth_fixups /\ w.func_fixups = st.func_fixups
  BY <1>3, <1>5, <1>10 DEF Reader, Apart
<1> HIDE DEF w
<1>12. /\ u \in Reader /\ u.types = w.types /\ u.labels = w.labels
       /\ u.label_stack = w.label_stack
       /\ u.func = w.func /\ u.offsets = w.offsets
       /\ u.depth_fixups = w.depth_fixups /\ u.func_fixups = w.func_fixups
       /\ Open(u) \subseteq Open(w) \ {old}
  BY <1>6, <1>11, FillsOpen
<1> HIDE DEF u
<1>13. ASSUME NEW o \in Open(u)
       PROVE  o \in Due(u)
  <2>1. Open(w) = Open(v) /\ Open(r) = Open(st)
    BY <1>4, <1>11 DEF Open
  <2>2. o # old /\ (o \in Due(st) \/ o = here - 1)
    BY <1>4, <1>5, <1>6, <1>12, <2>1 DEF Reading, Fixable
  <2>3. CASE o = here - 1
    <3>1. /\ n \in DOMAIN u.label_stack /\ u.labels[n].label_type = "Else"
          /\ u.label_stack[n].fixup_offset = o
      BY <1>1, <1>3, <1>8, <1>10, <1>11, <1>12, <2>3
    <3> QED  BY <3>1 DEF Due
  <2>4. CASE o \in {x[2] : x \in st.depth_fixups}
    BY <1>11, <1>12, <2>4 DEF Due
  <2>5. CASE o \in {x[2] : x \in {y \in st.func_fixups :
                                     st.offsets[y[1]] = kInvalidIstreamOffset}}
    BY <1>11, <1>12, <2>5 DEF Due
  <2>6. CASE o \in {st.label_stack[k].fixup_offset :
                       k \in {k \in DOMAIN st.label_stack :
                                st.labels[k].label_type \in {"If", "Else"}}}
    <3>1. PICK k \in 1 .. n : /\ st.labels[k].label_type \in {"If", "Else"}
                              /\ st.label_stack[k].fixup_offset = o
      BY <1>1, <2>6
    <3>2. k # n /\ k \in 1 .. n - 1
      BY <1>1, <1>4, <2>2, <3>1
    <3>3. /\ k \in DOMAIN u.label_stack
          /\ u.labels[k].label_type \in {"If", "Else"}
          /\ u.label_stack[k].fixup_offset = o
      BY <1>3, <1>10, <1>11, <1>12, <3>1, <3>2 DEF SameLabel
    <3> QED  BY <3>3 DEF Due
  <2> QED  BY <2>2, <2>3, <2>4, <2>5, <2>6 DEF Due
<1>14. Stacked(u) /\ u.labels # <<>>
  BY <1>3, <1>11, <1>12 DEF Within, Stacked
<1>15. Fixable(u)
  BY <1>3, <1>10, <1>11, <1>12, <1>13, <1>14 DEF Fixable, Reading
<1> QED  BY <1>9, <1>11, <1>12, <1>14, <1>15 DEF Reading

(* The fixups of the top label are filled in with the offset here.          *)
LEMMA FixupTopOpen ==
    ASSUME NEW st \in Reader
    PROVE  LET top == Len(st.label_stack) - 1
               t == FixupTopLabel(st)
           IN  /\ t \in Reader
               /\ t.types = st.types /\ t.labels = st.labels /\ t.ok = st.ok
               /\ t.label_stack = st.label_stack
               /\ t.func = st.func /\ t.offsets = st.offsets
               /\ t.depth_fixups = {x \in st.depth_fixups : x[1] # top}
               /\ t.func_fixups = st.func_fixups
               /\ \A n \in Open(t) :
                     n \in Open(st) /\ <<top, n>> \notin st.depth_fixups
<1> DEFINE top == Len(st.label_stack) - 1
           fixups == {x \in st.depth_fixups : x[1] = top}
           rest == st.depth_fixups \ fixups
           v == EmitI32At(st, {x[2] : x \in fixups}, GetIstreamOffset(st))
           t == [v EXCEPT !.depth_fixups = rest]
<1>1. GetIstreamOffset(st) \in Nat /\ st.depth_fixups \subseteq Nat \X Nat
  BY FieldTypes DEF GetIstreamOffset
<1>2. /\ v \in Reader
      /\ v.types = st.types /\ v.labels = st.labels /\ v.ok = st.ok
      /\ v.label_stack = st.label_stack
      /\ v.func = st.func /\ v.offsets = st.offsets
      /\ v.depth_fixups = st.depth_fixups
      /\ v.func_fixups = st.func_fixups
      /\ Open(v) \subseteq Open(st) \ {x[2] : x \in fixups}
  BY <1>1, FillsOpen
<1>3. FixupTopLabel(st) = t
  BY <1>2 DEF FixupTopLabel
<1>4. rest \subseteq Nat \X Nat /\ rest = {x \in st.depth_fixups : x[1] # top}
  BY <1>1
<1>5. \A n : <<top, n>> \in st.depth_fixups => n \in {x[2] : x \in fixups}
  <2>1. ASSUME NEW n, <<top, n>> \in st.depth_fixups
        PROVE  n \in {x[2] : x \in fixups}
    <3>1. <<top, n>> \in fixups /\ <<top, n>>[2] = n
      BY <2>1
    <3> QED  BY <3>1
  <2> QED  BY <2>1
<1> HIDE DEF fixups, rest, v
<1>6. /\ t \in Reader
      /\ t.types = v.types /\ t.labels = v.labels /\ t.ok = v.ok
      /\ t.label_stack = v.label_stack
      /\ t.func = v.func /\ t.offsets = v.offsets
      /\ t.depth_fixups = rest /\ t.func_fixups = v.func_fixups
      /\ t.istream = v.istream
  BY <1>2, <1>4 DEF Reader
<1> HIDE DEF t
<1>7. Open(t) = Open(v)
  BY <1>6 DEF Open
<1> QED  BY <1>2, <1>3, <1>4, <1>5, <1>6, <1>7

(* An end within the function: the branches to it and the if are filled in. *)
LEMMA EndReads ==
    ASSUME NEW st, Reading(st), Len(st.labels) # 1, OnEndExpr(st).ok
    PROVE  Reading(OnEndExpr(st))
<1> DEFINE r == OnEnd(st)
           n == Len(st.labels)
           fixups == IF TopLabel(st).label_type \in {"If", "Else"}
                     THEN {LabelAt(r, 0).fixup_offset} ELSE {}
           v == EmitI32At(r, fixups, GetIstreamOffset(r))
           w == FixupTopLabel(v)
           u == Pop_Label(w)
<1>1. /\ Within(st) /\ n \in Nat \ {0} /\ Len(st.label_stack) = n
      /\ TopLabel(st) = st.labels[n]
  BY ReadingFacts, TopFacts
<1>2. r.ok /\ OnEndExpr(st) = u
  BY DEF OnEndExpr, Checked
<1>3. Left(st, r)
  BY <1>1, EndLeft
<1> HIDE DEF r
<1>4. /\ r \in Reader /\ Stacked(r) /\ Len(r.labels) = n - 1
      /\ r.label_stack = st.label_stack /\ r.depth_fixups = st.depth_fixups
      /\ r.func_fixups = st.func_fixups /\ r.offsets = st.offsets
      /\ r.func = st.func /\ r.istream = st.istream
      /\ \A i \in 1 .. n - 1 : SameLabel(st.labels[i], r.labels[i])
  BY <1>3 DEF Left, Apart, Stacked
<1>5. GetIstreamOffset(r) \in Nat
  BY <1>4, FieldTypes DEF GetIstreamOffset
<1>6. /\ v \in Reader /\ v.types = r.types /\ v.labels = r.labels
      /\ v.ok = r.ok /\ v.label_stack = r.label_stack
      /\ v.func = r.func /\ v.offsets = r.offsets
      /\ v.depth_fixups = r.depth_fixups /\ v.func_fixups = r.func_fixups
      /\ Open(v) \subseteq Open(r) \ fixups
  BY <1>4, <1>5, FillsOpen
<1>7. st.labels[n].label_type \in {"If", "Else"} =>
         st.label_stack[n].fixup_offset \in fixups
  BY <1>1, <1>4 DEF LabelAt
<1> HIDE DEF v, fixups
<1>8. /\ w \in Reader /\ w.types = v.types /\ w.labels = v.labels
      /\ w.ok = v.ok /\ w.label_stack = v.label_stack
      /\ w.func = v.func /\ w.offsets = v.offsets
      /\ w.depth_fixups = {x \in v.depth_fixups :
                              x[1] # Len(v.label_stack) - 1}
      /\ w.func_fixups = v.func_fixups
      /\ \A o \in Open(w) :
            o \in Open(v) /\ <<Len(v.label_stack) - 1, o>> \notin v.depth_fixups
  BY <1>6, FixupTopOpen
<1> HIDE DEF w
<1>9. /\ Stacked(w) /\ w.labels = r.labels /\ w.label_stack = st.label_stack
      /\ w.func_fixups = st.func_fixups /\ w.offsets = st.offsets
      /\ w.depth_fixups = {x \in st.depth_fixups : x[1] # n - 1}
      /\ w.func = st.func
  BY <1>1, <1>4, <1>6, <1>8 DEF Stacked
<1>10. \A o \in Open(w) :
          /\ o \in Open(st) /\ <<n - 1, o>> \notin st.depth_fixups
          /\ st.labels[n].label_type \in {"If", "Else"}
                => o # st.label_stack[n].fixup_offset
  <2>1. Open(r) = Open(st)
    BY <1>4 DEF Open
  <2>2. Len(v.label_stack) = n /\ v.depth_fixups = st.depth_fixups
    BY <1>1, <1>4, <1>6
  <2> QED  BY <1>6, <1>7, <1>8, <2>1, <2>2
<1>11. Fixable(u) /\ u.labels = w.labels /\ u.func = w.func
  <2>1. Len(w.labels) = n - 1
    BY <1>4, <1>9
  <2>2. \A i \in 1 .. n - 1 : SameLabel(st.labels[i], w.labels[i])
    BY <1>4, <1>9
  <2>3. st.labels # <<>> /\ Fixable(st)
    BY DEF Reading
  <2> QED  BY <1>9, <1>10, <2>1, <2>2, <2>3, Pop_LabelFixable
<1> HIDE DEF u
<1>12. u.labels # <<>>
  <2>1. Len(u.labels) = n - 1 /\ n - 1 # 0
    BY <1>1, <1>4, <1>9, <1>11
  <2> QED  BY <2>1
<1> QED  BY <1>2, <1>9, <1>11, <1>12 DEF Reading

(* Between two functions.                                                   *)
Finished(st) == Fixable(st) /\ st.ok /\ st.labels = <<>>

(* At the end of a function all its branches have been filled in.           *)
LEMMA EndFunctionFinishes ==
    ASSUME NEW st, Reading(st), EndFunctionBody(st).ok
    PROVE  /\ Finished(EndFunctionBody(st))
           /\ EndFunctionBody(st).offsets = st.offsets
<1> DEFINE fixed == FixupTopLabel(st)
           n == Len(st.labels)
           count == GetReturnDropKeepCount(fixed)
           r == EndFunction(fixed)
           dropped == EmitDropKeep(r, count)
           w == Emit(dropped, <<Opcode("return")>>)
           u == Pop_Label(w)
<1>1. /\ st \in Reader /\ Within(st) /\ n \in Nat \ {0}
      /\ Len(st.label_stack) = n /\ st.func \in Defined
  BY ReadingFacts DEF Reading
<1>2. r.ok /\ EndFunctionBody(st) = u
  BY DEF EndFunctionBody, Checked
<1>3. /\ fixed \in Reader
      /\ fixed.types = st.types /\ fixed.labels = st.labels
      /\ fixed.ok = st.ok /\ fixed.label_stack = st.label_stack
      /\ fixed.func = st.func /\ fixed.offsets = st.offsets
      /\ fixed.depth_fixups = {x \in st.depth_fixups : x[1] # n - 1}
      /\ fixed.func_fixups = st.func_fixups
      /\ \A o \in Open(fixed) :
            o \in Open(st) /\ <<n - 1, o>> \notin st.depth_fixups
  BY <1>1, FixupTopOpen
<1> HIDE DEF fixed
<1>4. Within(fixed)
  BY <1>1, <1>3 DEF Within, Stacked
<1>5. /\ Left(fixed, r) /\ n = 1
      /\ Enough(fixed, Len(fixed.labels[1].result_types))
  BY <1>2, <1>3, <1>4, FunctionLeft
<1>6. count.drop \in Nat /\ count.keep \in Nat
  BY <1>1, <1>3, <1>4, <1>5, ReturnCount
<1> HIDE DEF count, r
<1>7. /\ r \in Reader /\ Stacked(r) /\ Len(r.labels) = n - 1
      /\ r.label_stack = st.label_stack
      /\ r.depth_fixups = fixed.depth_fixups
      /\ r.func_fixups = st.func_fixups /\ r.offsets = st.offsets
      /\ r.istream = fixed.istream
  BY <1>3, <1>5 DEF Left, Apart, Stacked
<1>8. Writes(r, dropped) /\ dropped \in Reader
  BY <1>6, <1>7, EmitDropKeepWrites DEF Writes
<1> HIDE DEF dropped
<1>9. Writes(dropped, w)
  BY <1>8, EmitOpcode DEF Opcodes
<1> HIDE DEF w
<1>10. Writes(r, w)
  BY <1>8, <1>9, WritesTransitive
<1>11. /\ Stacked(w) /\ w.labels = r.labels
       /\ w.label_stack = st.label_stack
       /\ w.depth_fixups = {x \in st.depth_fixups : x[1] # n - 1}
       /\ w.func_fixups = st.func_fixups /\ w.offsets = st.offsets
  BY <1>3, <1>7, <1>10 DEF Stacked, Writes
<1>12. \A o \in Open(w) :
          /\ o \in Open(st) /\ <<n - 1, o>> \notin st.depth_fixups
          /\ st.labels[n].label_type \notin {"If", "Else"}
  <2>1. Open(r) = Open(fixed)
    BY <1>7 DEF Open
  <2>2. st.labels[n].label_type = "Func"
    BY <1>1, <1>5, FunctionLabel
  <2> QED  BY <1>3, <1>10, <2>1, <2>2 DEF Writes
<1>13. /\ Fixable(u) /\ u.labels = w.labels /\ u.offsets = w.offsets
  <2>1. Len(w.labels) = n - 1
    BY <1>7, <1>11
  <2>2. \A i \in 1 .. n - 1 : SameLabel(st.labels[i], w.labels[i])
    BY <1>5
  <2>3. st.labels # <<>> /\ Fixable(st)
    BY DEF Reading
  <2> QED  BY <1>11, <1>12, <2>1, <2>2, <2>3, Pop_LabelFixable
<1>14. u.labels = <<>>
  <2>1. u.labels \in Seq(Label) /\ Len(u.labels) = 0
    BY <1>5, <1>7, <1>11, <1>13, FieldTypes
  <2> QED  BY <2>1, EmptySeq
<1> HIDE DEF u
<1> QED  BY <1>2, <1>11, <1>13, <1>14 DEF Finished

(* The calls of the function that were read before it are filled in.        *)
LEMMA BeginFunctionReads ==
    ASSUME NEW st, Finished(st), NEW f \in Defined
    PROVE  Reading(BeginFunctionBody(st, f))
<1> DEFINE offset == GetIstreamOffset(st)
           begun == [st EXCEPT !.offsets[f] = offset, !.func = f,
                               !.depth_fixups = {}, !.label_stack = <<>>,
                               !.types = <<>>, !.labels = <<>>]
           calls == {x[2] : x \in {y \in st.func_fixups : y[1] = f}}
           fixed == EmitI32At(begun, calls, offset)
           v == PushLabel(fixed, "Func", <<>>, Funcs[f].sig.results)
           label == Push_Label(v, kInvalidIstreamOffset,
                               kInvalidIstreamOffset)
           u == Emit(label, <<Opcode("alloca"), Operand(Funcs[f].locals)>>)
<1>1. /\ st \in Reader /\ offset \in Nat
      /\ DOMAIN st.offsets = DOMAIN Funcs /\ f \in DOMAIN Funcs /\ f \in Nat
      /\ st.label_stack = <<>> /\ st.depth_fixups = {}
  <2>1. st \in Reader
    BY DEF Finished, Fixable, Stacked
  <2>2. Len(st.label_stack) = 0
    BY DEF Finished, Fixable
  <2>3. st.label_stack = <<>>
    BY <2>1, <2>2, FieldTypes, EmptySeq
  <2>4. \A x \in st.depth_fixups : x[1] \in Nat /\ x[1] < 0
    BY <2>1, FieldTypes DEF Finished, Fixable
  <2>5. st.depth_fixups = {}
    BY <2>4
  <2> QED  BY <2>1, <2>3, <2>5, FieldTypes, ProgramAssumption
           DEF GetIstreamOffset, Defined
<1>2. BeginFunctionBody(st, f) = IF Funcs[f].locals = 0 THEN label ELSE u
  BY DEF BeginFunctionBody
<1> HIDE DEF offset
<1>3. [st.offsets EXCEPT ![f] = offset] \in [DOMAIN Funcs -> Int]
  BY <1>1, FieldTypes
<1>4. <<>> \in Seq(Type) /\ <<>> \in Seq(Label) /\ <<>> \in Seq(LabelPlace)
  BY EmptySeq
<1>5. /\ begun \in Reader /\ begun.istream = st.istream
      /\ begun.types = <<>> /\ begun.labels = <<>> /\ begun.ok = st.ok
      /\ begun.label_stack = <<>> /\ begun.func = f
      /\ begun.depth_fixups = {} /\ begun.func_fixups = st.func_fixups
      /\ begun.offsets = [st.offsets EXCEPT ![f] = offset]
  BY <1>1, <1>3, <1>4 DEF Reader
<1> HIDE DEF begun
<1>6. /\ fixed \in Reader
      /\ fixed.types = <<>> /\ fixed.labels = <<>> /\ fixed.ok = st.ok
      /\ fixed.label_stack = <<>> /\ fixed.func = f
      /\ fixed.depth_fixups = {} /\ fixed.func_fixups = st.func_fixups
      /\ fixed.offsets = [st.offsets EXCEPT ![f] = offset]
      /\ Open(fixed) \subseteq Open(begun) \ calls
  BY <1>1, <1>5, FillsOpen
<1> HIDE DEF fixed
<1>7. ASSUME NEW o \in Open(fixed)
      PROVE  o \in Due(fixed)
  <2>1. o \in Open(st) /\ o \notin calls
    BY <1>5, <1>6 DEF Open
  <2>2. o \in {x[2] : x \in {y \in st.func_fixups :
                                st.offsets[y[1]] = kInvalidIstreamOffset}}
    BY <1>1, <2>1 DEF Finished, Fixable, Due
  <2>3. PICK y \in st.func_fixups :
           y[2] = o /\ st.offsets[y[1]] = kInvalidIstreamOffset
    BY <2>2
  <2>4. y[1] # f /\ y[1] \in DOMAIN Funcs
    BY <1>1, <2>1, <2>3, FieldTypes DEF Defined
  <2>5. fixed.offsets[y[1]] = kInvalidIstreamOffset
    BY <1>1, <1>6, <2>3, <2>4
  <2> QED  BY <1>6, <2>3, <2>5 DEF Due
<1>8. Fixable(fixed) /\ Stacked(fixed)
  BY <1>6, <1>7 DEF Fixable, Stacked
<1>9. /\ Within(v) /\ Apart(fixed, v) /\ v.ok = fixed.ok
      /\ Len(v.labels) = Len(fixed.labels) + 1
      /\ v.labels[Len(fixed.labels) + 1].label_type = "Func"
  <2>1. Funcs[f].sig.results \in Seq(Type) /\ "Func" \in LabelType
    BY <1>1, ProgramTypes DEF LabelType
  <2>2. "Func" \in IF fixed.labels = <<>> THEN {"Func"}
                   ELSE {"Block", "Loop", "If"}
    BY <1>6
  <2>3. v.labels[Len(fixed.labels) + 1] =
           [label_type |-> "Func", param_types |-> <<>>,
            result_types |-> Funcs[f].sig.results, unreachable |-> FALSE,
            type_stack_limit |-> Len(fixed.types)]
    BY <1>4, <1>8, <2>1, <2>2, PushLabelWithin
  <2>4. /\ Within(v) /\ Apart(fixed, v) /\ v.ok = fixed.ok
        /\ Len(v.labels) = Len(fixed.labels) + 1
    BY <1>4, <1>8, <2>1, <2>2, PushLabelWithin
  <2> HIDE DEF v
  <2>5. v.labels[Len(fixed.labels) + 1].label_type = "Func"
    BY <2>3
  <2> QED  BY <2>4, <2>5
<1> HIDE DEF v
<1>10. /\ Fixable(label) /\ label.labels = v.labels /\ label.func = v.func
      /\ label.ok = v.ok
  <2>1. Open(v) = Open(fixed)
    BY <1>9 DEF Open, Apart
  <2>2. /\ v.label_stack = fixed.label_stack
        /\ v.depth_fixups = fixed.depth_fixups
        /\ v.func_fixups = fixed.func_fixups /\ v.offsets = fixed.offsets
    BY <1>9 DEF Apart
  <2>3. \A i \in 1 .. Len(fixed.labels) :
           SameLabel(fixed.labels[i], v.labels[i])
    BY <1>6
  <2>4. Stacked(v) /\ kInvalidIstreamOffset \in Int
    BY <1>9 DEF Within, kInvalidIstreamOffset
  <2> QED  BY <1>8, <1>9, <2>1, <2>2, <2>3, <2>4, Push_LabelFixable
<1> HIDE DEF label
<1>11. Reading(label)
  BY <1>6, <1>9, <1>10 DEF Reading, Finished, Within, Apart
<1>12. Reading(u)
  <2>1. label \in Reader /\ Funcs[f].locals \in Nat /\ Inside(label, label)
    BY <1>1, <1>11, ReadingFacts, ProgramTypes
       DEF Inside, Apart, SameLabel
  <2>2. Grows(label, u)
    BY <2>1, EmitOpcode, WritesGrows DEF Opcodes
  <2>3. u.ok
    BY <1>11, <2>2 DEF Grows, Reading
  <2> QED  BY <1>11, <2>1, <2>2, <2>3, GrowsReads
<1> QED  BY <1>2, <1>11, <1>12

-----------------------------------------------------------------------------
(* Branches *)

(* OnBrExpr, with the counts from before the type checker's method.         *)
LEMMA BrReads ==
    ASSUME NEW st, Reading(st), NEW depth \in Nat, OnBrExpr(st, depth).ok
    PROVE  Reading(OnBrExpr(st, depth))
<1> DEFINE r == OnBr(st, depth)
           count == GetBrDropKeepCount(st, depth)
           u == EmitBr(r, depth, count)
<1>1. /\ st \in Reader /\ Within(st) /\ Len(st.labels) \in Nat
      /\ Len(st.label_stack) = Len(st.labels)
  BY ReadingFacts
<1>2. HasLabel(st, depth)
  <2>1. ~Error(st).ok
    BY <1>1, ErrorKeeps
  <2> QED  BY <2>1 DEF OnBrExpr
<1>3. r.ok /\ OnBrExpr(st, depth) = u
  BY <1>2 DEF OnBrExpr, Checked
<1>4. depth < Len(st.labels)
  BY <1>2 DEF HasLabel
<1>5. Inside(st, r) /\ Enough(st, Len(br_types(GetLabel(st, depth))))
  BY <1>1, <1>3, <1>4, BrInside
<1>6. count.drop \in Nat /\ count.keep \in Nat
  BY <1>1, <1>4, <1>5, BrCount
<1> HIDE DEF r, count
<1>7. r \in Reader /\ depth < Len(r.label_stack)
  BY <1>1, <1>4, <1>5, InsideReader
<1>8. Grows(r, u)
  BY <1>6, <1>7, EmitBrGrows
<1> QED  BY <1>3, <1>5, <1>8, GrowsReads

(* The branch over the branch is open until the branch has been written.    *)
LEMMA BrIfReads ==
    ASSUME NEW st, Reading(st), NEW depth \in Nat, OnBrIfExpr(st, depth).ok
    PROVE  Reading(OnBrIfExpr(st, depth))
<1> DEFINE r == OnBrIf(st, depth)
           count == GetBrDropKeepCount(r, depth)
           over == GetIstreamOffset(r) + 1
           v == Emit(r, <<Opcode("br_unless"), Operand(kInvalidIstreamOffset)>>)
           w == EmitBr(v, depth, count)
           u == EmitI32At(w, {over}, GetIstreamOffset(w))
<1>1. /\ st \in Reader /\ Within(st) /\ Len(st.labels) \in Nat
      /\ Len(st.label_stack) = Len(st.labels)
  BY ReadingFacts
<1>2. r.ok /\ OnBrIfExpr(st, depth) = u
  BY DEF OnBrIfExpr, Checked
<1>3. /\ depth < Len(st.labels) /\ Keeps(st, r)
      /\ Enough(r, Len(br_types(GetLabel(r, depth))))
  BY <1>1, <1>2, BrIfInside
<1> HIDE DEF r
<1>4. /\ Inside(st, r) /\ Within(r) /\ depth < Len(r.labels)
      /\ depth < Len(r.label_stack) /\ r \in Reader
  BY <1>1, <1>3, KeepsInside, KeepsWithin, InsideReader DEF Keeps
<1>5. count.drop \in Nat /\ count.keep \in Nat
  BY <1>3, <1>4, BrCount
<1> HIDE DEF count
<1>6. /\ v \in Reader
      /\ v.types = r.types /\ v.labels = r.labels /\ v.ok = r.ok
      /\ v.label_stack = r.label_stack
      /\ v.func = r.func /\ v.offsets = r.offsets
      /\ v.depth_fixups = r.depth_fixups
      /\ v.func_fixups = r.func_fixups /\ Due(v) = Due(r)
      /\ Open(v) \subseteq Open(r) \cup {over}
  <2>1. "br_unless" \in Opcodes /\ Len(r.istream) + 1 = over
    BY DEF Opcodes, GetIstreamOffset
  <2> QED  BY <1>4, <2>1, EmitOpen
<1> HIDE DEF v, over
<1>7. Grows(v, w) /\ w \in Reader
  BY <1>4, <1>5, <1>6, EmitBrGrows DEF Grows
<1> HIDE DEF w
<1>8. GetIstreamOffset(w) \in Nat
  BY <1>7, FieldTypes DEF GetIstreamOffset
<1>9. /\ u \in Reader
      /\ u.types = w.types /\ u.labels = w.labels /\ u.ok = w.ok
      /\ u.label_stack = w.label_stack
      /\ u.func = w.func /\ u.offsets = w.offsets
      /\ u.depth_fixups = w.depth_fixups
      /\ u.func_fixups = w.func_fixups /\ Due(u) = Due(w)
      /\ Open(u) \subseteq Open(w) \ {over}
  BY <1>7, <1>8, FillsOpen
<1> HIDE DEF u
<1>10. Open(u) \subseteq Open(r) \cup Due(u)
  BY <1>6, <1>7, <1>9 DEF Grows
<1>11. Grows(r, u)
  BY <1>6, <1>7, <1>9, <1>10 DEF Grows
<1> QED  BY <1>2, <1>4, <1>11, GrowsReads

(* OnReturnExpr.                                                            *)
LEMMA ReturnReads ==
    ASSUME NEW st, Reading(st), OnReturnExpr(st).ok
    PROVE  Reading(OnReturnExpr(st))
<1> DEFINE r == OnReturn(st)
           count == GetReturnDropKeepCount(st)
           dropped == EmitDropKeep(r, count)
           u == Emit(dropped, <<Opcode("return")>>)
<1>1. /\ Within(st) /\ Len(st.label_stack) = Len(st.labels)
      /\ st.func \in Defined
  BY ReadingFacts DEF Reading
<1>2. r.ok /\ OnReturnExpr(st) = u
  BY DEF OnReturnExpr, Checked
<1>3. Inside(st, r) /\ Enough(st, Len(st.labels[1].result_types))
  BY <1>1, <1>2, ReturnInside
<1>4. count.drop \in Nat /\ count.keep \in Nat
  BY <1>1, <1>3, ReturnCount
<1> HIDE DEF r, count
<1>5. Writes(r, dropped) /\ dropped \in Reader
  BY <1>3, <1>4, InsideReader, EmitDropKeepWrites DEF Writes
<1> HIDE DEF dropped
<1>6. Writes(dropped, u)
  BY <1>5, EmitOpcode DEF Opcodes
<1>7. Grows(r, u)
  BY <1>5, <1>6, WritesTransitive, WritesGrows
<1> QED  BY <1>2, <1>3, <1>7, GrowsReads

(* What is written after an instruction is one opcode.                      *)
LEMMA OpcodeReads ==
    ASSUME NEW st, Reading(st), NEW r, Inside(st, r),
           NEW opcode \in Opcodes, NEW i32 \in Nat
    PROVE  /\ LET u == Emit(r, <<Opcode(opcode)>>)
              IN  u.ok => Reading(u)
           /\ LET u == Emit(r, <<Opcode(opcode), Operand(i32)>>)
              IN  u.ok => Reading(u)
<1>1. r \in Reader
  BY InsideReader
<1> DEFINE one == Emit(r, <<Opcode(opcode)>>)
           two == Emit(r, <<Opcode(opcode), Operand(i32)>>)
<1>2. Grows(r, one) /\ Grows(r, two)
  BY <1>1, EmitOpcode, WritesGrows
<1> HIDE DEF one, two
<1>3. (one.ok => Reading(one)) /\ (two.ok => Reading(two))
  BY <1>2, GrowsReads
<1> QED  BY <1>3 DEF one, two

(* OnUnreachableExpr.                                                       *)
LEMMA UnreachableReads ==
    ASSUME NEW st, Reading(st), OnUnreachableExpr(st).ok
    PROVE  Reading(OnUnreachableExpr(st))
<1>1. Inside(st, OnUnreachable(st))
  BY ReadingFacts, ReturnInside
<1>2. "unreachable" \in Opcodes
  BY DEF Opcodes
<1> QED  BY <1>1, <1>2, OpcodeReads DEF OnUnreachableExpr

-----------------------------------------------------------------------------
(* The other instructions *)

(* OnCallExpr and OnCallIndirectExpr.                                       *)
LEMMA CallReads ==
    ASSUME NEW st, Reading(st), NEW f \in DOMAIN Funcs
    PROVE  /\ OnCallExpr(st, f).ok => Reading(OnCallExpr(st, f))
           /\ OnCallIndirectExpr(st, f).ok => Reading(OnCallIndirectExpr(st, f))
<1> DEFINE ps == Funcs[f].sig.params
           rs == Funcs[f].sig.results
<1>1. /\ Within(st) /\ ps \in Seq(Type) /\ rs \in Seq(Type) /\ f \in Nat
      /\ Funcs[f].is_host \in BOOLEAN
  BY ReadingFacts, ProgramTypes, ProgramAssumption
<1>2. /\ "call_host" \in Opcodes /\ "call" \in Opcodes
      /\ "call_indirect" \in Opcodes
  BY DEF Opcodes
<1>3. ASSUME OnCallExpr(st, f).ok PROVE Reading(OnCallExpr(st, f))
  <2> DEFINE r == PopAndCheckCall(st, ps, rs)
             host_ == Emit(r, <<Opcode("call_host"), Operand(f)>>)
             begun == Emit(r, <<Opcode("call")>>)
             u == EmitFuncOffset(begun, f)
  <2>1. Inside(st, r)
    BY <1>1, CallKeeps, KeepsInside
  <2>2. r.ok /\ OnCallExpr(st, f) = IF Funcs[f].is_host THEN host_ ELSE u
    BY <1>3 DEF OnCallExpr, Checked
  <2> HIDE DEF r
  <2>3. CASE Funcs[f].is_host
    <3>1. OnCallExpr(st, f) = host_
      BY <2>2, <2>3
    <3>2. host_.ok => Reading(host_)
      BY <1>1, <1>2, <2>1, OpcodeReads
    <3> QED  BY <1>3, <3>1, <3>2
  <2>4. CASE ~Funcs[f].is_host
    <3>1. f \in Defined
      BY <2>4 DEF Defined
    <3>2. Grows(r, begun) /\ begun \in Reader
      BY <1>2, <2>1, InsideReader, EmitOpcode, WritesGrows DEF Grows
    <3> HIDE DEF begun
    <3>3. Grows(r, u)
      BY <3>1, <3>2, EmitFuncOffsetGrows, GrowsTransitive
    <3> HIDE DEF u
    <3>4. OnCallExpr(st, f) = u
      BY <2>2, <2>4
    <3> QED  BY <1>3, <2>1, <3>3, <3>4, GrowsReads
  <2> QED  BY <2>3, <2>4
<1>4. ASSUME OnCallIndirectExpr(st, f).ok
      PROVE  Reading(OnCallIndirectExpr(st, f))
  <2> DEFINE r == OnCallIndirect(st, ps, rs)
             u == Emit(r, <<Opcode("call_indirect"), Operand(f)>>)
  <2>1. Inside(st, r)
    BY <1>1, CallKeeps, KeepsInside
  <2>2. r.ok /\ OnCallIndirectExpr(st, f) = u
    BY <1>4 DEF OnCallIndirectExpr, Checked
  <2> HIDE DEF r
  <2>3. u.ok => Reading(u)
    BY <1>1, <1>2, <2>1, OpcodeReads
  <2> QED  BY <1>4, <2>2, <2>3
<1> QED  BY <1>3, <1>4

(* OnDropExpr and OnSelectExpr.                                             *)
LEMMA DropSelectReads ==
    ASSUME NEW st, Reading(st)
    PROVE  /\ OnDropExpr(st).ok => Reading(OnDropExpr(st))
           /\ OnSelectExpr(st).ok => Reading(OnSelectExpr(st))
<1>1. Inside(st, OnDrop(st)) /\ Inside(st, OnSelect(st))
  BY ReadingFacts, DropSelectKeeps, KeepsInside
<1>2. "drop" \in Opcodes /\ "select" \in Opcodes
  BY DEF Opcodes
<1>3. ASSUME NEW opcode \in Opcodes, NEW r, Inside(st, r)
      PROVE  LET u == Emit(r, <<Opcode(opcode)>>)
             IN  (IF r.ok THEN u ELSE r).ok => Reading(IF r.ok THEN u ELSE r)
  BY <1>3, OpcodeReads
<1>4. OnDropExpr(st) =
         IF OnDrop(st).ok THEN Emit(OnDrop(st), <<Opcode("drop")>>)
         ELSE OnDrop(st)
  BY DEF OnDropExpr, Checked
<1>5. OnSelectExpr(st) =
         IF OnSelect(st).ok THEN Emit(OnSelect(st), <<Opcode("select")>>)
         ELSE OnSelect(st)
  BY DEF OnSelectExpr, Checked
<1> QED  BY <1>1, <1>2, <1>3, <1>4, <1>5

(* The entries of a table of branches: three operands for every target.     *)
LEMMA ThreeEach ==
    ASSUME NEW m \in Nat, NEW n \in 1 .. 3 * m
    PROVE  /\ (n + 2) \div 3 \in 1 .. m /\ (n + 2) % 3 \in 0 .. 2
           /\ n = 3 * ((n + 2) \div 3) + ((n + 2) % 3) - 2
OBVIOUS

(* The first operand of an entry may be open, and is noted as a fixup.      *)
LEMMA BrTableReads ==
    ASSUME NEW st, Reading(st), NEW depths \in Seq(Nat), depths # <<>>,
           OnBrTableExpr(st, depths).ok
    PROVE  Reading(OnBrTableExpr(st, depths))
<1> DEFINE m == Len(depths)
           begun == PopAndCheckSignature(st, <<I32>>)
           r == OnBrTable(st, depths)
           table == GetIstreamOffset(st) + 5
           entry(k) == BrTableEntry(st, depths[k],
                                    GetBrDropKeepCount(begun, depths[k]))
           entries == [n \in 1 .. 3 * m |->
                          Operand(entry((n + 2) \div 3)[((n + 2) % 3) + 1])]
           forward == {k \in DOMAIN depths :
                          entry(k)[1] = kInvalidIstreamOffset}
           fixed == {<<Len(st.label_stack) - 1 - depths[k],
                       table + 3 * (k - 1)>> : k \in forward}
           first == <<Opcode("br_table"), Operand(m - 1), Operand(table),
                      Opcode("data"), Operand(3 * m)>>
           cells == first \o entries
           noted == [r EXCEPT !.depth_fixups = @ \cup fixed]
           u == Emit(noted, cells)
<1>1. /\ st \in Reader /\ Within(st) /\ Len(st.labels) \in Nat
      /\ Len(st.label_stack) = Len(st.labels) /\ Len(st.istream) \in Nat
      /\ st.label_stack \in Seq(LabelPlace)
      /\ m \in Nat \ {0} /\ table = Len(st.istream) + 5
      /\ DOMAIN depths = 1 .. m
  BY ReadingFacts, FieldTypes DEF GetIstreamOffset
<1>2. r.ok /\ OnBrTableExpr(st, depths) = u
  <2>1. OnBrTableExpr(st, depths) = IF r.ok THEN u ELSE r
    BY DEF OnBrTableExpr, Checked
  <2> HIDE DEF r, u
  <2> QED  BY <2>1
<1>3. /\ Inside(st, r) /\ Keeps(st, begun) /\ Within(begun)
      /\ \A k \in 1 .. m :
            /\ depths[k] \in Nat /\ depths[k] < Len(st.labels)
            /\ Enough(begun, Len(br_types(GetLabel(begun, depths[k]))))
  BY <1>1, <1>2, BrTableInside
<1> HIDE DEF r, begun
<1>4. ASSUME NEW k \in 1 .. m
      PROVE  /\ entry(k)[1] \in Int
             /\ entry(k)[2] \in Nat /\ entry(k)[3] \in Nat
  <2> DEFINE count == GetBrDropKeepCount(begun, depths[k])
  <2>1. depths[k] < Len(begun.labels) /\ depths[k] \in Nat
    BY <1>3 DEF Keeps
  <2>2. count.drop \in Nat /\ count.keep \in Nat
    BY <1>3, <2>1, BrCount
  <2> HIDE DEF count
  <2>3. Len(st.label_stack) - depths[k] \in 1 .. Len(st.label_stack)
    BY <1>1, <1>3
  <2>4. LabelAt(st, depths[k]) \in LabelPlace
    BY <1>1, <2>3, ElementOfSeq DEF LabelAt
  <2> QED  BY <2>2, <2>4 DEF BrTableEntry, LabelPlace, count
<1> HIDE DEF entry, table
<1>5. fixed \subseteq Nat \X Nat /\ \A x \in fixed : x[1] < Len(st.label_stack)
  <2>1. ASSUME NEW k \in forward
        PROVE  /\ Len(st.label_stack) - 1 - depths[k] \in Nat
               /\ Len(st.label_stack) - 1 - depths[k] < Len(st.label_stack)
               /\ table + 3 * (k - 1) \in Nat
    <3>1. k \in 1 .. m
      BY <1>1
    <3>2. depths[k] \in Nat /\ depths[k] < Len(st.label_stack)
      BY <1>1, <1>3, <3>1
    <3>3. Len(st.label_stack) \in Nat /\ table \in Nat
      BY <1>1
    <3> QED  BY <3>1, <3>2, <3>3
  <2> QED  BY <2>1
<1>6. ASSUME NEW n \in 1 .. 3 * m
      PROVE  /\ entries[n] \in Cell
             /\ entries[n].i32 = kInvalidIstreamOffset =>
                   \E x \in fixed : x[2] = table + n - 1
  <2> DEFINE k == (n + 2) \div 3
             j == (n + 2) % 3
             i32 == entry(k)[j + 1]
  <2>1. k \in 1 .. m /\ j \in 0 .. 2 /\ n = 3 * k + j - 2
    BY <1>1, ThreeEach
  <2>2. entries[n] = Operand(i32)
    OBVIOUS
  <2> HIDE DEF k, j
  <2>3. i32 \in Int /\ (j # 0 => i32 # kInvalidIstreamOffset)
    <3>1. j = 0 \/ j = 1 \/ j = 2
      BY <2>1
    <3>2. CASE j = 0
      BY <1>4, <2>1, <3>2
    <3>3. CASE j = 1
      BY <1>4, <2>1, <3>3 DEF kInvalidIstreamOffset
    <3>4. CASE j = 2
      BY <1>4, <2>1, <3>4 DEF kInvalidIstreamOffset
    <3> QED  BY <3>1, <3>2, <3>3, <3>4
  <2>4. entries[n] \in Cell /\ entries[n].i32 = i32
    BY <2>2, <2>3, CellTypes
  <2>5. ASSUME i32 = kInvalidIstreamOffset
        PROVE  \E x \in fixed : x[2] = table + n - 1
    <3>1. j = 0 /\ k \in forward
      BY <1>1, <2>1, <2>3, <2>5
    <3> DEFINE x == <<Len(st.label_stack) - 1 - depths[k],
                      table + 3 * (k - 1)>>
    <3>2. x \in fixed
      BY <3>1
    <3>3. x[2] = table + n - 1
      BY <1>1, <2>1, <3>1
    <3> QED  BY <3>2, <3>3
  <2> QED  BY <2>4, <2>5
<1>7. entries \in Seq(Cell) /\ Len(entries) = 3 * m
  <2>1. 3 * m \in Nat /\ entries \in [1 .. 3 * m -> Cell]
    BY <1>1, <1>6
  <2> HIDE DEF entries
  <2>2. entries \in Seq(Cell)
    BY <2>1, SeqDef
  <2> QED  BY <2>1, <2>2, LenProperties
<1>8. /\ first \in Seq(Cell) /\ Len(first) = 5
      /\ \A n \in 1 .. 5 : first[n].i32 # kInvalidIstreamOffset
  <2>1. /\ "br_table" \in Opcodes /\ "data" \in Opcodes
        /\ m - 1 \in Nat /\ table \in Nat /\ 3 * m \in Nat
    BY <1>1 DEF Opcodes
  <2> DEFINE good == {a \in Cell : a.i32 # kInvalidIstreamOffset}
  <2>2. /\ Opcode("br_table") \in good /\ Operand(m - 1) \in good
        /\ Operand(table) \in good /\ Opcode("data") \in good
        /\ Operand(3 * m) \in good
    BY <2>1, CellTypes DEF kInvalidIstreamOffset
  <2> HIDE DEF good
  <2>3. first \in Seq(good) /\ Len(first) = 5
    BY <2>2
  <2> HIDE DEF first
  <2>4. \A n \in 1 .. 5 : first[n] \in good
    BY <2>3, ElementOfSeq
  <2>5. good \subseteq Cell
    BY DEF good
  <2>6. first \in Seq(Cell)
    BY <2>3, <2>5, SeqMonotonic
  <2> QED  BY <2>3, <2>4, <2>6 DEF good
<1> HIDE DEF entries, first, fixed
<1>9. /\ cells \in Seq(Cell) /\ Len(cells) = 5 + 3 * m
      /\ \A i \in 1 .. 5 + 3 * m :
            cells[i] = IF i <= 5 THEN first[i] ELSE entries[i - 5]
  <2>1. /\ cells \in Seq(Cell) /\ Len(cells) = Len(first) + Len(entries)
        /\ \A i \in 1 .. Len(first) + Len(entries) :
              cells[i] = IF i <= Len(first) THEN first[i]
                         ELSE entries[i - Len(first)]
    <3>1. first \in Seq(Cell) /\ entries \in Seq(Cell)
      BY <1>7, <1>8
    <3> QED  BY <3>1, ConcatProperties
  <2> HIDE DEF cells
  <2> QED  BY <1>7, <1>8, <2>1
<1> HIDE DEF cells
<1>10. ASSUME NEW i \in 1 .. 5 + 3 * m, cells[i].i32 = kInvalidIstreamOffset
       PROVE  \E x \in fixed : x[2] = Len(st.istream) + i - 1
  <2>1. CASE i <= 5
    BY <1>1, <1>8, <1>9, <1>10, <2>1
  <2>2. CASE ~(i <= 5)
    <3> DEFINE n == i - 5
    <3>1. n \in 1 .. 3 * m /\ table + n - 1 = Len(st.istream) + i - 1
      BY <1>1, <2>2
    <3>2. entries[n].i32 = kInvalidIstreamOffset
      BY <1>9, <1>10, <2>2
    <3> HIDE DEF n
    <3> QED  BY <1>6, <3>1, <3>2
  <2> QED  BY <2>1, <2>2
<1>11. /\ r \in Reader /\ r.label_stack = st.label_stack
       /\ r.istream = st.istream
  BY <1>3, InsideReader DEF Inside, Apart
<1>12. /\ noted \in Reader
       /\ noted.types = r.types /\ noted.labels = r.labels
       /\ noted.ok = r.ok /\ noted.label_stack = r.label_stack
       /\ noted.func = r.func /\ noted.offsets = r.offsets
       /\ noted.depth_fixups = r.depth_fixups \cup fixed
       /\ noted.func_fixups = r.func_fixups /\ noted.istream = r.istream
  BY <1>5, <1>11 DEF Reader
<1> HIDE DEF noted
<1>13. /\ u \in Reader
       /\ u.types = noted.types /\ u.labels = noted.labels
       /\ u.ok = noted.ok /\ u.label_stack = noted.label_stack
       /\ u.func = noted.func /\ u.offsets = noted.offsets
       /\ u.depth_fixups = noted.depth_fixups
       /\ u.func_fixups = noted.func_fixups
       /\ \A o \in Open(u) :
             \/ o \in Open(noted)
             \/ \E k \in 1 .. Len(cells) :
                   /\ o = Len(noted.istream) + k - 1
                   /\ cells[k].i32 = kInvalidIstreamOffset
  BY <1>9, <1>12, EmitOpens
<1> HIDE DEF u
<1>14. Open(u) \subseteq Open(r) \cup Due(u)
  <2>1. Open(noted) = Open(r)
    BY <1>12 DEF Open
  <2>2. ASSUME NEW i \in 1 .. Len(cells), NEW o,
               o = Len(noted.istream) + i - 1,
               cells[i].i32 = kInvalidIstreamOffset
        PROVE  o \in Due(u)
    <3>1. PICK x \in fixed : x[2] = Len(st.istream) + i - 1
      BY <1>9, <1>10, <2>2
    <3>2. x \in u.depth_fixups /\ x[2] = o
      BY <1>11, <1>12, <1>13, <2>2, <3>1
    <3> QED  BY <3>2 DEF Due
  <2> QED  BY <1>13, <2>1, <2>2
<1>15. Grows(r, u)
  BY <1>5, <1>11, <1>12, <1>13, <1>14 DEF Grows
<1> QED  BY <1>2, <1>3, <1>15, GrowsReads

(* The index of a local, translated, is never negative.                     *)
LEMMA LocalReads ==
    ASSUME NEW st, Reading(st), NEW index \in Nat,
           NEW opcode \in {"get_local", "set_local", "tee_local"},
           OnLocalExpr(st, opcode, index).ok
    PROVE  Reading(OnLocalExpr(st, opcode, index))
<1> DEFINE count == ParamAndLocalCount(st.func)
<1>1. /\ st \in Reader /\ Within(st) /\ st.func \in Defined
  BY ReadingFacts DEF Reading
<1>2. count \in Nat
  BY <1>1, ProgramTypes, LenProperties DEF ParamAndLocalCount, Defined
<1>3. index < count
  <2>1. ~PrintError(Error(st)).ok
    <3>1. Error(st) \in Reader /\ ~Error(st).ok
      BY <1>1, ErrorKeeps DEF Keeps
    <3> QED  BY <3>1, WithSaid
  <2>2. CASE index >= count
    <3>1. OnLocalExpr(st, opcode, index) = PrintError(Error(st))
      BY <2>2 DEF OnLocalExpr
    <3> QED  BY <2>1, <3>1
  <2> QED  BY <1>2, <2>2
<1>4. OnLocalExpr(st, opcode, index) =
         CASE opcode = "get_local" -> OnGetLocalExpr(st, index)
           [] opcode = "set_local" -> OnSetLocalExpr(st, index)
           [] opcode = "tee_local" -> OnTeeLocalExpr(st, index)
  BY <1>2, <1>3 DEF OnLocalExpr
<1>5. ASSUME NEW r, r \in Reader, r.func = st.func
      PROVE  TranslateLocalIndex(r, index) \in Nat
  BY <1>2, <1>3, <1>5, FieldTypes DEF TranslateLocalIndex
<1>6. /\ "get_local" \in Opcodes /\ "set_local" \in Opcodes
      /\ "tee_local" \in Opcodes /\ I32 \in Type /\ <<I32>> \in Seq(Type)
  BY ProgramTypes DEF Opcodes
<1>7. CASE opcode = "get_local"
  <2> DEFINE r == PushType(st, I32)
             u == Emit(r, <<Opcode("get_local"),
                            Operand(TranslateLocalIndex(st, index))>>)
  <2>1. Inside(st, r)
    BY <1>1, <1>6, PushOneKeeps, KeepsInside
  <2>2. OnLocalExpr(st, opcode, index) = u
    BY <1>4, <1>7 DEF OnGetLocalExpr
  <2>3. TranslateLocalIndex(st, index) \in Nat
    BY <1>1, <1>5
  <2> HIDE DEF r
  <2> QED  BY <1>6, <2>1, <2>2, <2>3, OpcodeReads
<1>8. CASE opcode = "set_local"
  <2> DEFINE r == PopAndCheckSignature(st, <<I32>>)
             u == Emit(r, <<Opcode("set_local"),
                            Operand(TranslateLocalIndex(r, index))>>)
  <2>1. Inside(st, r)
    BY <1>1, <1>6, SignatureKeeps, KeepsInside
  <2>2. OnLocalExpr(st, opcode, index) = IF r.ok THEN u ELSE r
    BY <1>4, <1>8 DEF OnSetLocalExpr, Checked
  <2> HIDE DEF r
  <2>3. TranslateLocalIndex(r, index) \in Nat
    BY <1>5, <2>1, InsideReader
  <2> HIDE DEF u
  <2>4. OnLocalExpr(st, opcode, index) = u
    BY <2>2
  <2>5. u.ok => Reading(u)
    BY <1>6, <2>1, <2>3, OpcodeReads DEF u
  <2> QED  BY <2>4, <2>5
<1>9. CASE opcode = "tee_local"
  <2> DEFINE sig == [params |-> <<I32>>, result |-> I32]
             r == CheckOpcode(st, sig)
             u == Emit(r, <<Opcode("tee_local"),
                            Operand(TranslateLocalIndex(r, index))>>)
  <2>1. sig.params \in Seq(Type) /\ sig.result \in Type \cup {Void}
    BY <1>6
  <2>2. OnLocalExpr(st, opcode, index) = IF r.ok THEN u ELSE r
    BY <1>4, <1>9 DEF OnTeeLocalExpr, Checked
  <2> HIDE DEF sig
  <2>3. Inside(st, r)
    BY <1>1, <2>1, OpcodeKeeps, KeepsInside
  <2> HIDE DEF r
  <2>4. TranslateLocalIndex(r, index) \in Nat
    BY <1>5, <2>3, InsideReader
  <2> HIDE DEF u
  <2>5. OnLocalExpr(st, opcode, index) = u
    BY <2>2
  <2>6. u.ok => Reading(u)
    BY <1>6, <2>3, <2>4, OpcodeReads DEF u
  <2> QED  BY <2>5, <2>6
<1> QED  BY <1>7, <1>8, <1>9

(* The types of the other opcodes.                                          *)
LEMMA OpcodeSignatures ==
    /\ DOMAIN Opcode_Sig = {"const", "sub", "get_global", "set_global", "load",
                            "store", "memory_size", "memory_grow"}
    /\ \A opcode \in DOMAIN Opcode_Sig :
          /\ Opcode_Sig[opcode].params \in Seq(Type)
          /\ Opcode_Sig[opcode].result \in Type \cup {Void}
<1>1. /\ I32 \in Type /\ <<>> \in Seq(Type) /\ <<I32>> \in Seq(Type)
      /\ <<I32, I32>> \in Seq(Type)
  BY ProgramTypes
<1>2. DOMAIN Opcode_Sig = {"const", "sub", "get_global", "set_global", "load",
                           "store", "memory_size", "memory_grow"}
  BY DEF Opcode_Sig
<1>3. ASSUME NEW opcode \in DOMAIN Opcode_Sig
      PROVE  /\ Opcode_Sig[opcode].params \in {<<>>, <<I32>>, <<I32, I32>>}
             /\ Opcode_Sig[opcode].result \in {I32, Void}
  BY <1>2 DEF Opcode_Sig
<1> QED  BY <1>1, <1>2, <1>3

(* OnOpcodeExpr.                                                            *)
LEMMA OtherReads ==
    ASSUME NEW st, Reading(st), NEW opcode \in DOMAIN Opcode_Sig,
           NEW i32 \in Nat, OnOpcodeExpr(st, opcode, i32).ok
    PROVE  Reading(OnOpcodeExpr(st, opcode, i32))
<1> DEFINE r == CheckOpcode(st, Opcode_Sig[opcode])
           u == Emit(r, <<Opcode(opcode), Operand(i32)>>)
<1>1. Inside(st, r)
  BY ReadingFacts, OpcodeSignatures, OpcodeKeeps, KeepsInside
<1>2. OnOpcodeExpr(st, opcode, i32) = IF r.ok THEN u ELSE r
  BY DEF OnOpcodeExpr, Checked
<1> HIDE DEF r
<1>3. opcode \in Opcodes
  BY DEF Opcodes
<1>4. u.ok => Reading(u)
  BY <1>1, <1>3, OpcodeReads
<1> QED  BY <1>2, <1>4

(* Every handler, for an instruction as the binary reader gives it.         *)
LEMMA CompileReads ==
    ASSUME NEW st, Reading(st), NEW i, Immediates(i),
           i.op = "end" => Len(st.labels) # 1, Compile(st, i).ok
    PROVE  Reading(Compile(st, i))
<1>1. CASE i.op \in {"block", "loop", "if"}
  <2>1. i.type.params \in Seq(Type) /\ i.type.results \in Seq(Type)
    BY <1>1, ProgramTypes DEF Immediates
  <2>2. CASE i.op = "block"
    <3>1. Compile(st, i) = OnBlockExpr(st, i.type)
      BY <2>2 DEF Compile
    <3> QED  BY <2>1, <3>1, BlockReads
  <2>3. CASE i.op = "loop"
    <3>1. Compile(st, i) = OnLoopExpr(st, i.type)
      BY <2>3 DEF Compile
    <3> QED  BY <2>1, <3>1, BlockReads
  <2>4. CASE i.op = "if"
    <3>1. Compile(st, i) = OnIfExpr(st, i.type)
      BY <2>4 DEF Compile
    <3> QED  BY <2>1, <3>1, IfReads
  <2> QED  BY <1>1, <2>2, <2>3, <2>4
<1>2. CASE i.op = "else"
  <2>1. Compile(st, i) = OnElseExpr(st)
    BY <1>2 DEF Compile
  <2> QED  BY <2>1, ElseReads
<1>3. CASE i.op = "end"
  <2>1. Compile(st, i) = OnEndExpr(st)
    BY <1>3 DEF Compile
  <2> QED  BY <1>3, <2>1, EndReads
<1>4. CASE i.op = "br"
  <2>1. Compile(st, i) = OnBrExpr(st, i.i32) /\ i.i32 \in Nat
    BY <1>4 DEF Compile, Immediates
  <2> QED  BY <2>1, BrReads
<1>5. CASE i.op = "br_if"
  <2>1. Compile(st, i) = OnBrIfExpr(st, i.i32) /\ i.i32 \in Nat
    BY <1>5 DEF Compile, Immediates
  <2> QED  BY <2>1, BrIfReads
<1>6. CASE i.op = "br_table"
  <2>1. /\ Compile(st, i) = OnBrTableExpr(st, i.depths)
        /\ i.depths \in Seq(Nat) /\ i.depths # <<>>
    BY <1>6 DEF Compile, Immediates
  <2> QED  BY <2>1, BrTableReads
<1>7. CASE i.op = "return"
  <2>1. Compile(st, i) = OnReturnExpr(st)
    BY <1>7 DEF Compile
  <2> QED  BY <2>1, ReturnReads
<1>8. CASE i.op = "unreachable"
  <2>1. Compile(st, i) = OnUnreachableExpr(st)
    BY <1>8 DEF Compile
  <2> QED  BY <2>1, UnreachableReads
<1>9. CASE i.op = "call"
  <2>1. Compile(st, i) = OnCallExpr(st, i.i32) /\ i.i32 \in DOMAIN Funcs
    BY <1>9 DEF Compile, Immediates
  <2> QED  BY <2>1, CallReads
<1>10. CASE i.op = "call_indirect"
  <2>1. /\ Compile(st, i) = OnCallIndirectExpr(st, i.i32)
        /\ i.i32 \in DOMAIN Funcs
    BY <1>10 DEF Compile, Immediates
  <2> QED  BY <2>1, CallReads
<1>11. CASE i.op = "drop"
  <2>1. Compile(st, i) = OnDropExpr(st)
    BY <1>11 DEF Compile
  <2> QED  BY <2>1, DropSelectReads
<1>12. CASE i.op = "select"
  <2>1. Compile(st, i) = OnSelectExpr(st)
    BY <1>12 DEF Compile
  <2> QED  BY <2>1, DropSelectReads
<1>13. CASE i.op \in {"get_local", "set_local", "tee_local"}
  <2>1. Compile(st, i) = OnLocalExpr(st, i.op, i.i32) /\ i.i32 \in Nat
    BY <1>13 DEF Compile, Immediates
  <2> QED  BY <1>13, <2>1, LocalReads
<1>14. CASE i.op \in DOMAIN Opcode_Sig
  <2>1. Compile(st, i) = OnOpcodeExpr(st, i.op, i.i32) /\ i.i32 \in Nat
    BY <1>14, OpcodeSignatures DEF Compile, Immediates
  <2> QED  BY <1>14, <2>1, OtherReads
<1> QED  BY <1>1, <1>2, <1>3, <1>4, <1>5, <1>6, <1>7, <1>8, <1>9, <1>10,
            <1>11, <1>12, <1>13, <1>14 DEF Immediates

-----------------------------------------------------------------------------
(* The module *)

(* The inductive invariant.                                                 *)
FixupsInv ==
    /\ phase = "read" => Reading(rd) /\ group \in DOMAIN Groups
    /\ phase = "run" => rd \in Reader /\ Open(rd) = {}

(* BeginFunctionBody of the entry function, on an istream that is empty.    *)
LEMMA InitFixups == Init => FixupsInv
<1> SUFFICES ASSUME Init PROVE FixupsInv
  OBVIOUS
<1>1. NewReader \in Reader
  <2>1. <<>> \in Seq(Type) /\ <<>> \in Seq(Label) /\ <<>> \in Seq(Cell)
        /\ <<>> \in Seq(LabelPlace)
    BY EmptySeq
  <2>2. [f \in DOMAIN Funcs |-> kInvalidIstreamOffset]
           \in [DOMAIN Funcs -> Int]
    BY DEF kInvalidIstreamOffset
  <2> QED  BY <2>1, <2>2 DEF NewReader, Reader
<1>2. /\ NewReader.labels = <<>> /\ NewReader.label_stack = <<>>
      /\ NewReader.istream = <<>> /\ NewReader.depth_fixups = {}
      /\ NewReader.ok
  BY DEF NewReader
<1> HIDE DEF NewReader
<1>3. Finished(NewReader)
  <2>1. Open(NewReader) = {}
    BY <1>2 DEF Open
  <2> QED  BY <1>1, <1>2, <2>1 DEF Finished, Fixable, Stacked
<1>4. Reading(BeginFunctionBody(NewReader, Entry))
  BY <1>3, BeginFunctionReads, ProgramAssumption
<1> QED  BY <1>4 DEF Init, FixupsInv

(* A set of functions that is not empty has a first one.                    *)
LEMMA EarliestIn ==
    ASSUME NEW S, S \subseteq Nat, S # {}
    PROVE  Earliest(S) \in S
<1>1. PICK x \in S : \A y \in S : ~(<<y, x>> \in OpToRel(<, Nat))
  BY NatLessThanWellFounded, WFMin
<1>2. ASSUME NEW y \in S PROVE x <= y
  <2>1. ~(y < x)
    <3>1. CASE y < x
      <4>1. <<y, x>> \in Nat \X Nat /\ <<y, x>>[1] < <<y, x>>[2]
        BY <3>1
      <4>2. <<y, x>> \in OpToRel(<, Nat)
        BY <4>1 DEF OpToRel
      <4> QED  BY <1>1, <4>2
    <3> QED  BY <3>1
  <2> QED  BY <2>1
<1> QED  BY <1>2 DEF Earliest

(* One step per action.                                                     *)
LEMMA StepFixups == FixupsInv /\ [Next]_vars => FixupsInv'
<1> SUFFICES ASSUME FixupsInv, [Next]_vars
             PROVE  FixupsInv'
  OBVIOUS
<1>1. ASSUME NEW r, phase = "read", r.ok => Reading(r), Proceed(r),
             UNCHANGED group
      PROVE  FixupsInv'
  <2>1. CASE r.ok
    BY <1>1, <2>1 DEF Proceed, FixupsInv
  <2>2. CASE ~r.ok
    BY <1>1, <2>2 DEF Proceed, FixupsInv
  <2> QED  BY <2>1, <2>2
<1>2. ASSUME phase = "read" PROVE Reading(rd) /\ rd.func \in Defined
  BY <1>2 DEF FixupsInv, Reading
<1>3. ASSUME NEW i \in Instrs, ReadInstr(i)
      PROVE  FixupsInv'
  <2> DEFINE last == i.op = "end" /\ Len(rd.labels) = 1
             r == IF last THEN Error(rd) ELSE Compile(rd, i)
  <2>1. phase = "read" /\ Proceed(r) /\ UNCHANGED group
    BY <1>3 DEF ReadInstr
  <2>2. Reading(rd) /\ rd.func \in Defined /\ group \in DOMAIN Groups
    BY <1>2, <2>1 DEF FixupsInv
  <2>3. Immediates(i)
    <3>1. CASE rd.func = Entry
      <4>1. i \in Groups[group]
        BY <3>1 DEF Instrs
      <4> QED  BY <2>2, <4>1, ProgramAssumption
    <3>2. CASE rd.func # Entry
      <4>1. PICK n \in DOMAIN Bodies[rd.func] : i = Bodies[rd.func][n]
        BY <3>2 DEF Instrs
      <4> QED  BY <2>2, <3>2, <4>1, ProgramAssumption
    <3> QED  BY <3>1, <3>2
  <2>4. r.ok => Reading(r)
    <3>1. CASE last
      <4>1. ~Error(rd).ok
        BY <2>2, ReadingFacts, ErrorKeeps
      <4> QED  BY <3>1, <4>1
    <3>2. CASE ~last
      <4>1. r = Compile(rd, i) /\ (i.op = "end" => Len(rd.labels) # 1)
        BY <3>2
      <4> QED  BY <2>2, <2>3, <4>1, CompileReads
    <3> QED  BY <3>1, <3>2
  <2> HIDE DEF r
  <2> QED  BY <1>1, <2>1, <2>4
<1>4. ASSUME ReadFunctionEnd
      PROVE  FixupsInv'
  <2> DEFINE next == {f \in Defined : rd.offsets[f] = kInvalidIstreamOffset}
             ended == EndFunctionBody(rd)
             begun == BeginFunctionBody(ended, Earliest(next))
             r == IF ended.ok THEN begun ELSE ended
  <2>1. phase = "read" /\ next # {} /\ Proceed(r) /\ UNCHANGED group
    BY <1>4 DEF ReadFunctionEnd, Checked
  <2>2. Reading(rd)
    BY <1>2, <2>1
  <2>3. Earliest(next) \in Defined
    <3>1. next \subseteq Nat
      BY ProgramAssumption DEF Defined
    <3> QED  BY <2>1, <3>1, EarliestIn
  <2> HIDE DEF next
  <2>4. ended.ok => Reading(begun)
    BY <2>2, <2>3, EndFunctionFinishes, BeginFunctionReads
  <2> HIDE DEF ended, begun
  <2>5. r.ok => Reading(r)
    BY <2>4
  <2> HIDE DEF r
  <2> QED  BY <1>1, <2>1, <2>5
<1>5. ASSUME NEW values \in Args, RunFunction(values)
      PROVE  FixupsInv'
  <2> DEFINE r == EndFunctionBody(rd)
  <2>1. /\ phase = "read"
        /\ \A f \in Defined : rd.offsets[f] # kInvalidIstreamOffset
    BY <1>5 DEF RunFunction
  <2>2. CASE r.ok
    <3>1. rd' = r /\ phase' = "run"
      BY <1>5, <2>2 DEF RunFunction
    <3>2. Finished(r) /\ r.offsets = rd.offsets
      BY <1>2, <2>1, <2>2, EndFunctionFinishes
    <3> HIDE DEF r
    <3>3. r \in Reader /\ Len(r.labels) = 0
      BY <3>2 DEF Finished, Fixable, Stacked
    <3>4. DOMAIN r.label_stack = {}
      BY <3>2, <3>3, FieldTypes DEF Finished, Fixable
    <3>5. r.depth_fixups = {}
      <4>1. \A x \in r.depth_fixups : x[1] \in Nat /\ x[1] < 0
        BY <3>2, <3>3, FieldTypes DEF Finished, Fixable
      <4> QED  BY <4>1
    <3>6. {y \in r.func_fixups : r.offsets[y[1]] = kInvalidIstreamOffset} = {}
      BY <2>1, <3>2, <3>3, FieldTypes
    <3>7. Due(r) = {}
      BY <3>4, <3>5, <3>6 DEF Due
    <3>8. Open(r) = {}
      BY <3>2, <3>7 DEF Finished, Fixable
    <3> QED  BY <3>1, <3>3, <3>8 DEF FixupsInv
  <2>3. CASE ~r.ok
    <3>1. phase' = "rejected"
      BY <1>5, <2>3 DEF RunFunction
    <3> QED  BY <3>1 DEF FixupsInv
  <2> QED  BY <2>2, <2>3
<1>6. ASSUME RunThread
      PROVE  FixupsInv'
  BY <1>6 DEF RunThread, FixupsInv
<1>7. CASE UNCHANGED vars
  BY <1>7 DEF vars, FixupsInv
<1> QED  BY <1>3, <1>4, <1>5, <1>6, <1>7 DEF Next, Done

(* FixupsApplied of every module of every size: when a function runs no     *)
(* branch, entry of a table or call of the istream is still to be filled    *)
(* in.  The code relies on it without a check: EmitI32At is called from     *)
(* FixupTopLabel, OnElseExpr, OnEndExpr and BeginFunctionBody only, and the *)
(* interpreter jumps to whatever offset it reads.                           *)
THEOREM FixupsAlways == Spec => []FixupsApplied
<1>1. FixupsInv => FixupsApplied
  <2> SUFFICES ASSUME FixupsInv, phase = "run", NEW n \in DOMAIN rd.istream
               PROVE  rd.istream[n].i32 # kInvalidIstreamOffset
    BY DEF FixupsApplied
  <2>1. rd \in Reader /\ Open(rd) = {}
    BY DEF FixupsInv
  <2>2. n - 1 \in Nat /\ (n - 1) + 1 = n
    BY <2>1, FieldTypes
  <2> QED  BY <2>1, <2>2 DEF Open
<1> QED  BY <1>1, InitFixups, StepFixups, PTL DEF Spec
=============================================================================
