------------------------- MODULE TypeSoundnessProofs --------------------------
(***************************************************************************)
(* The type stack and the labels of the TypeChecker, for functions of any  *)
(* length with labels nested to any depth and any types and signatures,    *)
(* also after errors; and, as long as there is no error, the execution     *)
(* beside them.                                                            *)
(***************************************************************************)
EXTENDS TypeSoundness, SequenceTheorems, WellFoundedInduction, TLAPS

(* The states of the checker.                                               *)
Checker == [types : Seq(Type), labels : Seq(Label), ok : BOOLEAN,
            said : BOOLEAN]

Nested(st) ==
    /\ st \in Checker
    /\ \A n \in 1 .. Len(st.labels) :
          st.labels[n].type_stack_limit <=
              IF n = Len(st.labels) THEN Len(st.types)
              ELSE st.labels[n + 1].type_stack_limit

(* With a label: what every method but BeginFunction is called with.        *)
Open(st) == Nested(st) /\ Len(st.labels) # 0

(* What a method that changes operands only makes of the state: the labels, *)
(* and the operands below the limit of the top one, are what they were.     *)
Keeps(st, t) ==
    /\ Open(t) /\ t.labels = st.labels
    /\ \A i \in 1 .. TopLabel(st).type_stack_limit : t.types[i] = st.types[i]

-----------------------------------------------------------------------------
(* The types that occur *)

(* Every operand has a type.                                                *)
LEMMA OperandTypes ==
    /\ Operand \subseteq Type /\ AnyType \notin Operand
    /\ Seq(Operand) \subseteq Seq(Type)
<1>1. Operand \subseteq Type /\ AnyType \notin Operand
  BY TypesAssumption DEF Operand, Type
<1> QED  BY <1>1, SeqMonotonic

(* The types of single operands.                                            *)
LEMMA SingleTypes ==
    /\ I32 \in Operand /\ ExceptRef \in Operand
    /\ <<I32>> \in Seq(Operand) /\ <<ExceptRef>> \in Seq(Operand)
    /\ I32 \in Type /\ ExceptRef \in Type
    /\ <<I32>> \in Seq(Type) /\ <<ExceptRef>> \in Seq(Type)
    /\ <<>> \in Seq(Type) /\ <<>> \in Seq(Operand)
<1>1. I32 \in Operand /\ ExceptRef \in Operand
  BY TypesAssumption DEF Operand
<1> QED  BY <1>1, OperandTypes

(* The signatures a function may mention.                                   *)
LEMMA SignatureTypes ==
    /\ \A o \in Opcodes : /\ o.params \in Seq(Operand)
                           /\ o.params \in Seq(Type)
                           /\ o.result \in Operand \cup {Void}
                           /\ o.result \in Type \cup {Void}
    /\ \A b \in BlockTypes \cup FuncTypes :
          /\ b.params \in Seq(Operand) /\ b.results \in Seq(Operand)
          /\ b.params \in Seq(Type) /\ b.results \in Seq(Type)
    /\ \A b \in BlockTypes : b.params \in Params
    /\ \A s \in Results \cup ExceptSigs : s \in Seq(Operand) /\ s \in Seq(Type)
<1>1. ASSUME NEW o \in Opcodes
      PROVE  o.params \in Seq(Operand) /\ o.result \in Operand \cup {Void}
  BY SignaturesAssumption
<1>2. ASSUME NEW b \in BlockTypes \cup FuncTypes
      PROVE  b.params \in Seq(Operand) /\ b.results \in Seq(Operand)
  BY SignaturesAssumption
<1>3. ASSUME NEW s \in Results \cup ExceptSigs PROVE s \in Seq(Operand)
  BY SignaturesAssumption
<1> QED  BY <1>1, <1>2, <1>3, OperandTypes DEF Params

-----------------------------------------------------------------------------
(* The stacks *)

(* The label on top and its limit.                                          *)
LEMMA TopFacts ==
    ASSUME NEW st, Open(st)
    PROVE  /\ Len(st.labels) \in Nat \ {0} /\ Len(st.types) \in Nat
           /\ st.types \in Seq(Type) /\ st.labels \in Seq(Label)
           /\ TopLabel(st) = st.labels[Len(st.labels)] /\ TopLabel(st) \in Label
           /\ TopLabel(st).type_stack_limit \in 0 .. Len(st.types)
<1>1. /\ st.types \in Seq(Type) /\ st.labels \in Seq(Label)
      /\ Len(st.labels) \in Nat \ {0} /\ Len(st.types) \in Nat
  BY DEF Open, Nested, Checker
<1>2. /\ TopLabel(st) = st.labels[Len(st.labels)] /\ TopLabel(st) \in Label
  BY <1>1, ElementOfSeq DEF TopLabel, Last
<1>3. TopLabel(st).type_stack_limit \in 0 .. Len(st.types)
  <2>1. st.labels[Len(st.labels)].type_stack_limit <= Len(st.types)
    BY <1>1 DEF Open, Nested
  <2>2. TopLabel(st).type_stack_limit \in Nat
    BY <1>2 DEF Label
  <2> QED  BY <1>1, <1>2, <2>1, <2>2
<1> QED  BY <1>1, <1>2, <1>3

(* One method after another.                                                *)
LEMMA KeepsTransitive ==
    ASSUME NEW st, NEW t, NEW u, Keeps(st, t), Keeps(t, u)
    PROVE  Keeps(st, u)
BY DEF Keeps, TopLabel

(* Other operands, down to the limit.                                       *)
LEMMA WithTypes ==
    ASSUME NEW st, Open(st), NEW types \in Seq(Type),
           TopLabel(st).type_stack_limit <= Len(types),
           \A i \in 1 .. TopLabel(st).type_stack_limit :
              types[i] = st.types[i]
    PROVE  /\ Keeps(st, [st EXCEPT !.types = types])
           /\ [st EXCEPT !.types = types].types = types
<1> DEFINE t == [st EXCEPT !.types = types]
<1>1. /\ t \in Checker /\ t.types = types /\ t.labels = st.labels
  BY DEF Open, Nested, Checker
<1>2. Open(t)
  BY <1>1, TopFacts DEF Open, Nested
<1> QED  BY <1>1, <1>2 DEF Keeps

(* An error is noted.                                                       *)
LEMMA ErrorKeeps ==
    ASSUME NEW st, Open(st), NEW failed
    PROVE  /\ Keeps(st, Error(st)) /\ Error(st).types = st.types
           /\ Keeps(st, PrintError(st)) /\ PrintError(st).types = st.types
           /\ Keeps(st, ErrorIf(st, failed))
           /\ ErrorIf(st, failed).types = st.types
<1>1. ASSUME NEW s, Open(s)
      PROVE  /\ Keeps(s, Error(s)) /\ Error(s).types = s.types
             /\ Keeps(s, PrintError(s)) /\ PrintError(s).types = s.types
  <2>1. /\ Error(s) \in Checker /\ Error(s).labels = s.labels
        /\ Error(s).types = s.types
        /\ PrintError(s) \in Checker /\ PrintError(s).labels = s.labels
        /\ PrintError(s).types = s.types
    BY <1>1 DEF Open, Nested, Checker, Error, PrintError
  <2> QED  BY <1>1, <2>1 DEF Keeps, Open, Nested, TopLabel
<1>2. Keeps(st, Error(st)) /\ Error(st).types = st.types
  BY <1>1
<1>3. /\ Keeps(Error(st), PrintError(Error(st)))
      /\ PrintError(Error(st)).types = Error(st).types
  BY <1>1, <1>2 DEF Keeps
<1> QED  BY <1>1, <1>2, <1>3 DEF ErrorIf, Keeps, TopLabel

(* The operands of the label are discarded.                                 *)
LEMMA ResetKeeps ==
    ASSUME NEW st, Open(st)
    PROVE  /\ Keeps(st, ResetTypeStackToLabel(st, TopLabel(st)))
           /\ Len(ResetTypeStackToLabel(st, TopLabel(st)).types) =
                 TopLabel(st).type_stack_limit
<1> DEFINE n == TopLabel(st).type_stack_limit
           types == SubSeq(st.types, 1, n)
<1>1. /\ types \in Seq(Type) /\ Len(types) = n
      /\ \A i \in 1 .. n : types[i] = st.types[i]
  BY TopFacts, SubSeqProperties
<1>2. ResetTypeStackToLabel(st, TopLabel(st)) = [st EXCEPT !.types = types]
  BY DEF ResetTypeStackToLabel
<1>3. n <= Len(types)
  BY <1>1, TopFacts
<1> HIDE DEF types
<1> QED  BY <1>1, <1>2, <1>3, WithTypes

(* Operands are popped, as far as there are any above the limit.            *)
LEMMA DropKeeps ==
    ASSUME NEW st, Open(st), NEW drop_count \in Nat
    PROVE  Keeps(st, DropTypes(st, drop_count))
<1> DEFINE n == TopLabel(st).type_stack_limit
<1>1. n \in Nat /\ Len(st.types) \in Nat /\ n <= Len(st.types)
      /\ st.types \in Seq(Type)
  BY TopFacts
<1>2. CASE n + drop_count > Len(st.types)
  <2> DEFINE r == ResetTypeStackToLabel(st, TopLabel(st))
             ok == r.ok /\ TopLabel(st).unreachable
  <2>1. Keeps(st, r)
    BY ResetKeeps
  <2>2. DropTypes(st, drop_count) = [r EXCEPT !.ok = ok]
    BY <1>2 DEF DropTypes
  <2>3. ok \in BOOLEAN
    BY <2>1, TopFacts DEF Keeps, Open, Nested, Checker, Label
  <2> HIDE DEF r, ok
  <2>4. /\ [r EXCEPT !.ok = ok] \in Checker
        /\ [r EXCEPT !.ok = ok].types = r.types
        /\ [r EXCEPT !.ok = ok].labels = r.labels
    BY <2>1, <2>3 DEF Keeps, Open, Nested, Checker
  <2> QED  BY <2>1, <2>2, <2>4 DEF Keeps, Open, Nested, TopLabel
<1>3. CASE ~(n + drop_count > Len(st.types))
  <2> DEFINE types == SubSeq(st.types, 1, Len(st.types) - drop_count)
  <2>1. /\ types \in Seq(Type) /\ Len(types) = Len(st.types) - drop_count
        /\ \A i \in 1 .. n : types[i] = st.types[i]
    BY <1>1, <1>3, SubSeqProperties
  <2>2. n <= Len(types)
    BY <1>1, <1>3, <2>1
  <2>3. DropTypes(st, drop_count) = [st EXCEPT !.types = types]
    BY <1>3 DEF DropTypes
  <2> HIDE DEF types
  <2> QED  BY <2>1, <2>2, <2>3, WithTypes
<1> QED  BY <1>2, <1>3

(* Operands are pushed.                                                     *)
LEMMA PushKeeps ==
    ASSUME NEW st, Open(st)
    PROVE  /\ \A type \in Type \cup {Void} : Keeps(st, PushType(st, type))
           /\ \A types \in Seq(Type) : Keeps(st, PushTypes(st, types))
<1>0. /\ Len(st.types) \in Nat /\ st.types \in Seq(Type)
      /\ TopLabel(st).type_stack_limit \in 0 .. Len(st.types)
  BY TopFacts
<1>1. ASSUME NEW type \in Type \cup {Void} PROVE Keeps(st, PushType(st, type))
  <2>1. CASE type = Void
    BY <2>1 DEF PushType, Keeps
  <2>2. CASE type # Void
    <3> DEFINE pushed == Append(st.types, type)
    <3>1. /\ pushed \in Seq(Type) /\ Len(pushed) = Len(st.types) + 1
          /\ \A i \in 1 .. Len(st.types) : pushed[i] = st.types[i]
      BY <1>0, <2>2
    <3>2. /\ TopLabel(st).type_stack_limit <= Len(pushed)
          /\ \A i \in 1 .. TopLabel(st).type_stack_limit :
                pushed[i] = st.types[i]
      BY <1>0, <3>1
    <3>3. PushType(st, type) = [st EXCEPT !.types = pushed]
      BY <2>2 DEF PushType
    <3> HIDE DEF pushed
    <3> QED  BY <3>1, <3>2, <3>3, WithTypes
  <2> QED  BY <2>1, <2>2
<1>2. ASSUME NEW types \in Seq(Type) PROVE Keeps(st, PushTypes(st, types))
  <2> DEFINE pushed == st.types \o types
  <2>1. /\ pushed \in Seq(Type) /\ Len(pushed) = Len(st.types) + Len(types)
        /\ \A i \in 1 .. Len(st.types) : pushed[i] = st.types[i]
    BY <1>0, ConcatProperties, LenProperties
  <2>2. /\ TopLabel(st).type_stack_limit <= Len(pushed)
        /\ \A i \in 1 .. TopLabel(st).type_stack_limit :
              pushed[i] = st.types[i]
    BY <1>0, <2>1, LenProperties
  <2>3. PushTypes(st, types) = [st EXCEPT !.types = pushed]
    BY DEF PushTypes
  <2> HIDE DEF pushed
  <2> QED  BY <2>1, <2>2, <2>3, WithTypes
<1> QED  BY <1>1, <1>2

-----------------------------------------------------------------------------
(* The labels *)

(* The label on top changes, its limit does not.                            *)
LEMMA SetTopOpen ==
    ASSUME NEW st, Open(st), NEW label \in Label,
           label.type_stack_limit = TopLabel(st).type_stack_limit
    PROVE  /\ Open(SetTop(st, label)) /\ SetTop(st, label).types = st.types
           /\ TopLabel(SetTop(st, label)) = label
           /\ Len(SetTop(st, label).labels) = Len(st.labels)
<1> DEFINE n == Len(st.labels)
           labels == [st.labels EXCEPT ![n] = label]
           t == [st EXCEPT !.labels = labels]
<1>1. /\ n \in Nat \ {0} /\ n \in 1 .. n /\ st.labels \in Seq(Label)
      /\ TopLabel(st) = st.labels[n]
  BY TopFacts
<1>2. /\ labels \in Seq(Label) /\ Len(labels) = n
      /\ \A i \in 1 .. n : labels[i] = IF i = n THEN label ELSE st.labels[i]
  BY <1>1, ExceptSeq
<1>3. SetTop(st, label) = t
  BY DEF SetTop
<1> HIDE DEF labels
<1>4. t \in Checker /\ t.types = st.types /\ t.labels = labels
  BY <1>2 DEF Open, Nested, Checker
<1>5. \A i \in 1 .. n : labels[i].type_stack_limit
                           = st.labels[i].type_stack_limit
  BY <1>1, <1>2
<1>6. ASSUME NEW i \in 1 .. n
      PROVE  labels[i].type_stack_limit <=
                IF i = n THEN Len(st.types) ELSE labels[i + 1].type_stack_limit
  BY <1>1, <1>5 DEF Open, Nested
<1>7. Open(t)
  BY <1>1, <1>2, <1>4, <1>6 DEF Open, Nested
<1>8. TopLabel(t) = label
  BY <1>1, <1>2, <1>4 DEF TopLabel, Last
<1> QED  BY <1>2, <1>3, <1>4, <1>7, <1>8

(* A label is entered; what is on the stack is below it.                    *)
LEMMA PushLabelOpen ==
    ASSUME NEW st, Nested(st), NEW label_type \in LabelType,
           NEW ps \in Seq(Type), NEW rs \in Seq(Type)
    PROVE  Open(PushLabel(st, label_type, ps, rs))
<1> DEFINE n == Len(st.labels)
           label == [label_type |-> label_type, param_types |-> ps,
                     result_types |-> rs, type_stack_limit |-> Len(st.types),
                     unreachable |-> FALSE]
           labels == Append(st.labels, label)
           t == [st EXCEPT !.labels = labels]
<1>1. /\ n \in Nat /\ st.labels \in Seq(Label) /\ st.types \in Seq(Type)
      /\ Len(st.types) \in Nat
  BY DEF Nested, Checker
<1>2. label \in Label /\ label.type_stack_limit = Len(st.types)
  BY <1>1 DEF Label
<1>3. /\ labels \in Seq(Label) /\ Len(labels) = n + 1
      /\ labels[n + 1] = label
      /\ \A i \in 1 .. n : labels[i] = st.labels[i]
  <2> HIDE DEF label
  <2> QED  BY <1>1, <1>2
<1>4. PushLabel(st, label_type, ps, rs) = t
  BY DEF PushLabel
<1> HIDE DEF label, labels
<1>5. t \in Checker /\ t.types = st.types /\ t.labels = labels
  BY <1>3 DEF Nested, Checker
<1>6. ASSUME NEW i \in 1 .. (n + 1)
      PROVE  labels[i].type_stack_limit <=
                IF i = n + 1 THEN Len(st.types)
                ELSE labels[i + 1].type_stack_limit
  <2>1. CASE i = n + 1
    BY <1>1, <1>2, <1>3, <2>1
  <2>2. CASE i = n
    BY <1>1, <1>2, <1>3, <2>2, SMTT(30) DEF Nested
  <2>3. CASE i < n
    <3>1. i \in 1 .. n /\ i + 1 \in 1 .. n
      BY <1>1, <2>3
    <3>2. st.labels[i].type_stack_limit <= st.labels[i + 1].type_stack_limit
      BY <1>1, <2>3, <3>1 DEF Nested
    <3>3. labels[i] = st.labels[i] /\ labels[i + 1] = st.labels[i + 1]
      BY <1>3, <3>1
    <3> QED  BY <1>1, <2>3, <3>1, <3>2, <3>3
  <2>4. i = n + 1 \/ i = n \/ i < n
    BY <1>1
  <2> QED  BY <2>1, <2>2, <2>3, <2>4
<1>7. Len(t.labels) = n + 1 /\ n + 1 # 0
  BY <1>1, <1>3, <1>5
<1> QED  BY <1>4, <1>5, <1>6, <1>7 DEF Open, Nested

(* A label is left.                                                         *)
LEMMA PopLabelNested ==
    ASSUME NEW st, Open(st) PROVE Nested(PopLabel(st))
<1> DEFINE n == Len(st.labels)
           labels == Front(st.labels)
           t == [st EXCEPT !.labels = labels]
<1>1. /\ n \in Nat \ {0} /\ st.labels \in Seq(Label) /\ st.types \in Seq(Type)
      /\ TopLabel(st) = st.labels[n]
      /\ TopLabel(st).type_stack_limit \in 0 .. Len(st.types)
      /\ Len(st.types) \in Nat
  BY TopFacts
<1>2. /\ labels \in Seq(Label) /\ Len(labels) = n - 1
      /\ \A i \in 1 .. (n - 1) : labels[i] = st.labels[i]
  BY <1>1, SubSeqProperties DEF Front
<1>3. PopLabel(st) = t
  BY DEF PopLabel
<1> HIDE DEF labels
<1>4. t \in Checker /\ t.types = st.types /\ t.labels = labels
  BY <1>2 DEF Open, Nested, Checker
<1>5. ASSUME NEW i \in 1 .. (n - 1)
      PROVE  labels[i].type_stack_limit <=
                IF i = n - 1 THEN Len(st.types)
                ELSE labels[i + 1].type_stack_limit
  <2>1. /\ i \in 1 .. n /\ i # n /\ i + 1 \in 1 .. n
        /\ labels[i] = st.labels[i]
    BY <1>1, <1>2
  <2>2. st.labels[i].type_stack_limit <= st.labels[i + 1].type_stack_limit
    BY <2>1 DEF Open, Nested
  <2>3. st.labels[i].type_stack_limit \in Nat
    <3>1. st.labels[i] \in Label
      BY <1>1, <2>1, ElementOfSeq
    <3> QED  BY <3>1 DEF Label
  <2>4. CASE i = n - 1
    BY <1>1, <2>1, <2>2, <2>3, <2>4
  <2>5. CASE i # n - 1
    BY <1>1, <1>2, <2>1, <2>2, <2>5
  <2> QED  BY <2>4, <2>5
<1> QED  BY <1>1, <1>2, <1>3, <1>4, <1>5 DEF Nested

-----------------------------------------------------------------------------
(* The operands of a signature on a stack *)

(* A stack that ends with a signature is what is below it, and it.          *)
LEMMA EndsWithFacts ==
    ASSUME NEW S, NEW s \in Seq(S), NEW sig \in Seq(S), EndsWith(s, sig)
    PROVE  /\ Minus(s, sig) \in Seq(S) /\ Len(sig) <= Len(s)
           /\ Len(Minus(s, sig)) = Len(s) - Len(sig)
           /\ \A i \in 1 .. Len(s) - Len(sig) : Minus(s, sig)[i] = s[i]
           /\ Minus(s, sig) \o sig = s
<1>1. /\ Len(s) \in Nat /\ Len(sig) \in Nat /\ Len(sig) <= Len(s)
      /\ SubSeq(s, Len(s) - Len(sig) + 1, Len(s)) = sig
  BY LenProperties DEF EndsWith
<1> DEFINE k == Len(s) - Len(sig)
<1>2. k \in 0 .. Len(s)
  BY <1>1
<1>3. /\ SubSeq(s, 1, k) \in Seq(S) /\ Len(SubSeq(s, 1, k)) = k
      /\ \A i \in 1 .. k : SubSeq(s, 1, k)[i] = s[i]
  BY <1>1, <1>2, SubSeqProperties, ElementOfSeq
<1>4. SubSeq(s, 1, k) \o SubSeq(s, k + 1, Len(s)) = SubSeq(s, 1, Len(s))
  <2>1. 1 \in 1 .. Len(s) + 1 /\ k \in 1 - 1 .. Len(s) /\ Len(s) \in k .. Len(s)
    BY <1>1, <1>2
  <2> HIDE DEF k
  <2> QED  BY <2>1, ConcatAdjacentSubSeq
<1>5. SubSeq(s, 1, Len(s)) = s
  BY SubSeqFull
<1> QED  BY <1>1, <1>3, <1>4, <1>5 DEF Minus

(* Operand by operand.                                                      *)
LEMMA EndsWithIntro ==
    ASSUME NEW S, NEW s \in Seq(S), NEW sig \in Seq(S), Len(sig) <= Len(s),
           \A i \in 1 .. Len(sig) : s[Len(s) - Len(sig) + i] = sig[i]
    PROVE  EndsWith(s, sig)
<1>1. Len(s) \in Nat /\ Len(sig) \in Nat
  BY LenProperties
<1> DEFINE k == Len(s) - Len(sig)
           t == SubSeq(s, k + 1, Len(s))
<1>2. k \in Nat /\ k + Len(sig) = Len(s)
  BY <1>1
<1>3. /\ t \in Seq(S) /\ Len(t) = Len(sig)
      /\ \A i \in 1 .. Len(sig) : t[i] = s[k + i]
  <2>1. \A i \in k + 1 .. Len(s) : s[i] \in S
    BY <1>1, <1>2, ElementOfSeq
  <2>2. /\ t \in Seq(S)
        /\ Len(t) = IF k + 1 <= Len(s) THEN Len(s) - (k + 1) + 1 ELSE 0
        /\ \A i \in 1 .. Len(s) - (k + 1) + 1 : t[i] = s[k + 1 + i - 1]
    <3> HIDE DEF k
    <3> QED  BY <1>1, <1>2, <2>1, SubSeqProperties
  <2> HIDE DEF t, k
  <2>3. Len(s) - (k + 1) + 1 = Len(sig) /\ (k + 1 <= Len(s) \/ Len(sig) = 0)
    BY <1>1, <1>2
  <2>4. \A i \in 1 .. Len(sig) : t[i] = s[k + i]
    <3>1. \A i \in 1 .. Len(sig) : k + 1 + i - 1 = k + i
      BY <1>1, <1>2
    <3> QED  BY <2>2, <2>3, <3>1
  <2> QED  BY <1>1, <2>2, <2>3, <2>4
<1>4. t = sig
  <2> HIDE DEF t
  <2> QED  BY <1>1, <1>3, SeqEqual
<1> QED  BY <1>1, <1>4 DEF EndsWith

(* Two signatures popped one after the other, the last one first.           *)
LEMMA EndsWithBoth ==
    ASSUME NEW S, NEW s \in Seq(S), NEW a \in Seq(S), NEW b \in Seq(S),
           EndsWith(s, b), EndsWith(Minus(s, b), a)
    PROVE  /\ EndsWith(s, a \o b)
           /\ Minus(s, a \o b) = Minus(Minus(s, b), a)
<1> DEFINE m == Minus(s, b)
           u == Minus(m, a)
<1>1. /\ m \in Seq(S) /\ Len(m) = Len(s) - Len(b) /\ Len(b) <= Len(s)
      /\ m \o b = s /\ \A i \in 1 .. Len(m) : m[i] = s[i]
  BY EndsWithFacts
<1> HIDE DEF m
<1>2. /\ u \in Seq(S) /\ Len(u) = Len(m) - Len(a) /\ Len(a) <= Len(m)
      /\ u \o a = m /\ \A i \in 1 .. Len(u) : u[i] = m[i]
  <2>1. EndsWith(m, a)
    BY DEF m
  <2>2. /\ u \in Seq(S) /\ Len(a) <= Len(m)
        /\ Len(u) = Len(m) - Len(a)
        /\ \A i \in 1 .. Len(m) - Len(a) : u[i] = m[i]
        /\ u \o a = m
    BY <1>1, <2>1, EndsWithFacts
  <2> QED  BY <2>2
<1> HIDE DEF u
<1>3. /\ Len(s) \in Nat /\ Len(a) \in Nat /\ Len(b) \in Nat
      /\ a \o b \in Seq(S) /\ Len(a \o b) = Len(a) + Len(b)
  BY LenProperties, ConcatProperties
<1>5. Len(u) \in Nat /\ Len(s) - Len(a \o b) = Len(u)
  BY <1>1, <1>2, <1>3
<1>6. ASSUME NEW i \in 1 .. Len(a \o b)
      PROVE  s[Len(u) + i] = (a \o b)[i]
  <2>1. i \in 1 .. Len(a) + Len(b)
    BY <1>3
  <2>2. (a \o b)[i] = IF i <= Len(a) THEN a[i] ELSE b[i - Len(a)]
    BY <2>1, ConcatProperties
  <2>3. s[Len(u) + i] = IF Len(u) + i <= Len(m) THEN m[Len(u) + i]
                        ELSE b[Len(u) + i - Len(m)]
    <3>1. Len(u) + i \in 1 .. Len(m) + Len(b)
      BY <1>1, <1>2, <1>3, <1>5, <2>1
    <3>2. (m \o b)[Len(u) + i] = IF Len(u) + i <= Len(m) THEN m[Len(u) + i]
                                 ELSE b[Len(u) + i - Len(m)]
      <4>1. m \in Seq(S)
        BY <1>1
      <4> QED  BY <3>1, <4>1, ConcatProperties
    <3>3. m \o b = s
      BY <1>1
    <3> QED  BY <3>2, <3>3, Zenon
  <2>4. CASE i <= Len(a)
    <3>0. u \in Seq(S)
      BY <1>2
    <3>1. Len(u) + i \in 1 .. Len(u) + Len(a) /\ Len(u) + i <= Len(m)
          /\ ~(Len(u) + i <= Len(u)) /\ Len(u) + i - Len(u) = i
      BY <1>1, <1>2, <1>3, <1>5, <2>1, <2>4
    <3>2. (u \o a)[Len(u) + i] = IF Len(u) + i <= Len(u) THEN u[Len(u) + i]
                                 ELSE a[Len(u) + i - Len(u)]
      BY <3>0, <3>1, ConcatProperties
    <3>3. u \o a = m
      BY <1>2
    <3>4. m[Len(u) + i] = IF Len(u) + i <= Len(u) THEN u[Len(u) + i]
                          ELSE a[Len(u) + i - Len(u)]
      BY <3>2, <3>3, Zenon
    <3> QED  BY <2>2, <2>3, <2>4, <3>1, <3>4
  <2>5. CASE ~(i <= Len(a))
    <3>1. ~(Len(u) + i <= Len(m)) /\ Len(u) + i - Len(m) = i - Len(a)
      BY <1>1, <1>2, <1>3, <1>5, <2>1, <2>5
    <3> QED  BY <2>2, <2>3, <2>5, <3>1
  <2> QED  BY <2>4, <2>5
<1>7. EndsWith(s, a \o b)
  <2>1. Len(a \o b) <= Len(s)
    BY <1>1, <1>2, <1>3
  <2> DEFINE c == a \o b
  <2>2. /\ c \in Seq(S) /\ Len(c) <= Len(s)
        /\ \A i \in 1 .. Len(c) : s[Len(s) - Len(c) + i] = c[i]
    BY <1>3, <1>5, <1>6, <2>1
  <2> HIDE DEF c
  <2>3. EndsWith(s, c)
    BY <2>2, EndsWithIntro
  <2> QED  BY <2>3 DEF c
<1>8. Minus(s, a \o b) = u
  <2> DEFINE v == Minus(s, a \o b)
  <2>1. /\ v \in Seq(S) /\ Len(v) = Len(u)
        /\ \A i \in 1 .. Len(u) : v[i] = s[i]
    <3> DEFINE c == a \o b
    <3>1. /\ c \in Seq(S) /\ EndsWith(s, c) /\ Len(s) - Len(c) = Len(u)
      BY <1>3, <1>5, <1>7
    <3> HIDE DEF c
    <3>2. /\ Minus(s, c) \in Seq(S) /\ Len(Minus(s, c)) = Len(s) - Len(c)
          /\ \A i \in 1 .. Len(s) - Len(c) : Minus(s, c)[i] = s[i]
      BY <3>1, EndsWithFacts
    <3>3. v = Minus(s, c)
      BY DEF c
    <3> HIDE DEF v
    <3> QED  BY <3>1, <3>2, <3>3
  <2>2. \A i \in 1 .. Len(u) : u[i] = s[i]
    <3>1. \A i \in 1 .. Len(u) : i \in 1 .. Len(m)
      BY <1>1, <1>2, <1>3, <1>5
    <3> QED  BY <1>1, <1>2, <3>1
  <2> HIDE DEF v
  <2>3. v = u
    BY <1>2, <2>1, <2>2, SeqEqual
  <2> QED  BY <2>3 DEF v
<1> QED  BY <1>7, <1>8 DEF u, m

(* The bottom of a stack depends on the operands there.                     *)
LEMMA SamePrefix ==
    ASSUME NEW S, NEW s \in Seq(S), NEW T, NEW t \in Seq(T),
           NEW n \in Nat, n <= Len(s), n <= Len(t),
           \A i \in 1 .. n : s[i] = t[i]
    PROVE  SubSeq(s, 1, n) = SubSeq(t, 1, n)
<1> DEFINE U == S \cup T
           a == SubSeq(s, 1, n)
           b == SubSeq(t, 1, n)
<1>1. s \in Seq(U) /\ t \in Seq(U) /\ Len(s) \in Nat /\ Len(t) \in Nat
  BY SeqMonotonic, LenProperties
<1> HIDE DEF U
<1>2. /\ a \in Seq(U) /\ Len(a) = n /\ \A i \in 1 .. n : a[i] = s[i]
  BY <1>1, SubSeqProperties, ElementOfSeq
<1>3. /\ b \in Seq(U) /\ Len(b) = n /\ \A i \in 1 .. n : b[i] = t[i]
  BY <1>1, SubSeqProperties, ElementOfSeq
<1> HIDE DEF a, b
<1>4. a = b
  BY <1>2, <1>3, SeqEqual
<1> QED  BY <1>4 DEF a, b

(* A set of positions in a sequence has a last one.                         *)
LEMMA LastPosition ==
    ASSUME NEW N \in Nat, NEW P, P \subseteq 1 .. N, P # {}
    PROVE  \E n \in P : \A m \in P : m <= n
<1> DEFINE R == OpToRel(<, Nat)
           T == {k \in 0 .. N : N - k \in P}
<1>1. T \subseteq Nat /\ T # {}
  <2>1. PICK n : n \in P
    OBVIOUS
  <2>2. N - n \in 0 .. N /\ N - (N - n) = n
    BY <2>1
  <2>3. N - n \in T
    BY <2>1, <2>2
  <2> QED  BY <2>3
<1> HIDE DEF T
<1>2. PICK k \in T : \A y \in T : ~(<<y, k>> \in R)
  BY <1>1, NatLessThanWellFounded, WFMin
<1>3. \A y \in T : ~(y < k)
  BY <1>1, <1>2 DEF OpToRel
<1>4. N - k \in P /\ k \in 0 .. N
  BY <1>2 DEF T
<1>5. ASSUME NEW m \in P PROVE m <= N - k
  <2>1. m \in 1 .. N
    OBVIOUS
  <2>2. N - m \in 0 .. N /\ N - (N - m) = m
    BY <2>1
  <2>3. N - m \in T
    BY <2>2 DEF T
  <2>4. ~(N - m < k)
    BY <1>3, <2>3
  <2> QED  BY <1>4, <2>1, <2>4
<1> QED  BY <1>4, <1>5

(* Outer labels have lower limits, by any number of labels.                 *)
LEMMA LimitsOrdered ==
    ASSUME NEW st, Open(st), NEW m \in 1 .. Len(st.labels),
           NEW n \in m .. Len(st.labels)
    PROVE  /\ st.labels[m].type_stack_limit \in Nat
           /\ st.labels[m].type_stack_limit <= st.labels[n].type_stack_limit
           /\ st.labels[n].type_stack_limit <= Len(st.types)
<1> DEFINE limit(i) == st.labels[i].type_stack_limit
           L == Len(st.labels)
<1>1. L \in Nat /\ st.labels \in Seq(Label) /\ Len(st.types) \in Nat
  BY TopFacts
<1>2. \A i \in 1 .. L : limit(i) \in Nat
  <2>1. \A i \in 1 .. L : st.labels[i] \in Label
    BY <1>1, ElementOfSeq
  <2> QED  BY <2>1 DEF Label
<1>3. \A i \in 1 .. L : i # L => limit(i) <= limit(i + 1)
  BY DEF Open, Nested
<1>4. limit(L) <= Len(st.types)
  BY <1>1, TopFacts
<1> HIDE DEF limit, L
<1>5. ASSUME NEW a \in 1 .. L, NEW b \in a .. L PROVE limit(a) <= limit(b)
  <2> DEFINE P == {i \in 1 .. b : limit(i) > limit(b)}
  <2> SUFFICES ASSUME P # {} PROVE FALSE
    <3>1. a \in 1 .. b /\ b \in 1 .. L
      BY <1>1
    <3>2. P = {} => ~(limit(a) > limit(b))
      BY <3>1
    <3> QED  BY <1>2, <3>1, <3>2
  <2>1. PICK i \in P : \A j \in P : j <= i
    <3>1. b \in Nat /\ P \subseteq 1 .. b
      BY <1>1
    <3> HIDE DEF P
    <3> QED  BY <3>1, LastPosition
  <2>2. /\ i \in 1 .. L /\ b \in 1 .. L /\ i + 1 \in 1 .. b /\ i # L
        /\ i + 1 \in 1 .. L
    <3>1. i \in 1 .. b /\ b \in 1 .. L /\ limit(i) > limit(b)
      BY <1>1, <2>1
    <3>2. limit(b) \in Nat
      BY <1>2, <3>1
    <3>3. i # b
      BY <3>1, <3>2
    <3> QED  BY <1>1, <3>1, <3>3
  <2>3. limit(i + 1) <= limit(b)
    <3>1. i + 1 \notin P
      BY <2>1, <2>2
    <3> QED  BY <1>2, <2>2, <3>1
  <2>4. limit(i) <= limit(i + 1) /\ limit(i) > limit(b)
    BY <1>3, <2>1, <2>2
  <2>5. limit(i) \in Nat /\ limit(i + 1) \in Nat /\ limit(b) \in Nat
    BY <1>2, <2>2
  <2> QED  BY <2>3, <2>4, <2>5
<1>6. /\ m \in 1 .. L /\ n \in m .. L /\ n \in 1 .. L /\ L \in n .. L
      /\ L \in 1 .. L
  BY <1>1 DEF L
<1>7. limit(m) <= limit(n) /\ limit(n) <= limit(L)
  BY <1>5, <1>6
<1>8. limit(m) \in Nat /\ limit(n) \in Nat /\ limit(L) \in Nat
  BY <1>2, <1>6
<1>9. limit(n) <= Len(st.types)
  BY <1>1, <1>4, <1>7, <1>8
<1> QED  BY <1>7, <1>8, <1>9 DEF limit

-----------------------------------------------------------------------------
(* What an instruction inside of a label leaves alone *)

SameLabel(a, b) ==
    /\ a.label_type = b.label_type /\ a.type_stack_limit = b.type_stack_limit
    /\ a.param_types = b.param_types /\ a.result_types = b.result_types

(* The labels there are stay, but for what is reachable in the top one, and *)
(* so does what is below its limit.  There may be more labels.              *)
Inside(st, t) ==
    /\ Open(t) /\ Len(st.labels) <= Len(t.labels)
    /\ \A i \in 1 .. Len(st.labels) :
          /\ SameLabel(t.labels[i], st.labels[i])
          /\ i # Len(st.labels) => t.labels[i] = st.labels[i]
    /\ \A i \in 1 .. Len(t.labels) :
          i > Len(st.labels) => Concrete(t.labels[i])
    /\ \A i \in 1 .. TopLabel(st).type_stack_limit : t.types[i] = st.types[i]

(* Who changes operands only is inside.                                     *)
LEMMA KeepsInside ==
    ASSUME NEW st, Open(st), NEW t, Keeps(st, t) PROVE Inside(st, t)
<1>1. Len(st.labels) \in Nat
  BY TopFacts
<1> QED  BY <1>1 DEF Keeps, Inside, SameLabel

(* One instruction after another.                                           *)
LEMMA InsideTransitive ==
    ASSUME NEW st, Open(st), NEW t, Inside(st, t), NEW u, Inside(t, u)
    PROVE  Inside(st, u)
<1> DEFINE n == Len(st.labels)
           m == Len(t.labels)
           k == Len(u.labels)
<1>1. /\ Open(t) /\ Open(u)
      /\ n \in Nat \ {0} /\ m \in Nat /\ k \in Nat /\ n <= m /\ m <= k
  BY TopFacts DEF Inside
<1>2. /\ \A i \in 1 .. n : /\ SameLabel(t.labels[i], st.labels[i])
                           /\ i # n => t.labels[i] = st.labels[i]
      /\ \A i \in 1 .. m : i > n => Concrete(t.labels[i])
      /\ \A i \in 1 .. TopLabel(st).type_stack_limit : t.types[i] = st.types[i]
  BY DEF Inside
<1>3. /\ \A i \in 1 .. m : /\ SameLabel(u.labels[i], t.labels[i])
                           /\ i # m => u.labels[i] = t.labels[i]
      /\ \A i \in 1 .. k : i > m => Concrete(u.labels[i])
      /\ \A i \in 1 .. TopLabel(t).type_stack_limit : u.types[i] = t.types[i]
  BY DEF Inside
<1>4. ASSUME NEW i \in 1 .. n
      PROVE  /\ SameLabel(u.labels[i], st.labels[i])
             /\ i # n => u.labels[i] = st.labels[i]
  <2>1. i \in 1 .. m /\ (i # n => i # m)
    BY <1>1
  <2> QED  BY <1>2, <1>3, <2>1 DEF SameLabel
<1>5. ASSUME NEW i \in 1 .. k, i > n PROVE Concrete(u.labels[i])
  <2>1. CASE i \in 1 .. m
    BY <1>2, <1>3, <1>5, <2>1 DEF Concrete, SameLabel
  <2>2. CASE i \notin 1 .. m
    BY <1>1, <1>3, <1>5, <2>2
  <2> QED  BY <2>1, <2>2
<1>6. ASSUME NEW i \in 1 .. TopLabel(st).type_stack_limit
      PROVE  u.types[i] = st.types[i]
  <2>1. /\ TopLabel(t) = t.labels[m] /\ TopLabel(st) = st.labels[n]
        /\ TopLabel(st).type_stack_limit \in Nat
        /\ TopLabel(t).type_stack_limit \in Nat
    BY <1>1, TopFacts
  <2>2. t.labels[n].type_stack_limit <= t.labels[m].type_stack_limit
    BY <1>1, LimitsOrdered
  <2>3. t.labels[n].type_stack_limit = TopLabel(st).type_stack_limit
    BY <1>1, <1>2, <2>1 DEF SameLabel
  <2>4. i \in 1 .. TopLabel(t).type_stack_limit
    BY <2>1, <2>2, <2>3
  <2> QED  BY <1>2, <1>3, <2>4
<1> QED  BY <1>1, <1>4, <1>5, <1>6 DEF Inside

(* The rest of the label is unreachable.                                    *)
LEMMA UnreachableInside ==
    ASSUME NEW st, Open(st) PROVE Inside(st, SetUnreachable(st))
<1> DEFINE n == Len(st.labels)
           label == [TopLabel(st) EXCEPT !.unreachable = TRUE]
           s == SetTop(st, label)
           t == SetUnreachable(st)
<1>1. /\ label \in Label /\ SameLabel(label, TopLabel(st))
      /\ label.type_stack_limit = TopLabel(st).type_stack_limit
  BY TopFacts DEF Label, SameLabel
<1>2. /\ n \in Nat \ {0} /\ n \in 1 .. n /\ TopLabel(st) = st.labels[n]
      /\ st.labels \in Seq(Label)
  BY TopFacts
<1> HIDE DEF label
<1>3. /\ Open(s) /\ TopLabel(s) = label /\ s.types = st.types
      /\ Len(s.labels) = n
  BY <1>1, SetTopOpen
<1>4. s.labels = [st.labels EXCEPT ![n] = label]
  BY DEF SetTop, Open, Nested, Checker
<1>5. \A i \in 1 .. n : s.labels[i] = IF i = n THEN label ELSE st.labels[i]
  BY <1>1, <1>2, <1>4, ExceptSeq
<1>6. t = ResetTypeStackToLabel(s, TopLabel(s))
  <2>1. t = ResetTypeStackToLabel(s, TopLabel(st))
    BY DEF SetUnreachable, label
  <2> HIDE DEF s
  <2> QED  BY <1>1, <1>3, <2>1 DEF ResetTypeStackToLabel
<1> HIDE DEF s, t
<1>7. Keeps(s, t)
  BY <1>3, <1>6, ResetKeeps
<1>8. t.labels = s.labels /\ Open(t)
  BY <1>7 DEF Keeps
<1>9. \A i \in 1 .. TopLabel(st).type_stack_limit : t.types[i] = st.types[i]
  BY <1>1, <1>3, <1>7 DEF Keeps
<1>10. \A i \in 1 .. n : /\ SameLabel(t.labels[i], st.labels[i])
                         /\ i # n => t.labels[i] = st.labels[i]
  BY <1>1, <1>2, <1>5, <1>8 DEF SameLabel
<1>11. Len(t.labels) = n
  BY <1>3, <1>8
<1>12. Inside(st, t)
  BY <1>2, <1>8, <1>9, <1>10, <1>11 DEF Inside
<1> QED  BY <1>12 DEF t

(* A label is entered.                                                      *)
LEMMA PushLabelInside ==
    ASSUME NEW st, Open(st), NEW label_type \in LabelType,
           NEW ps \in Seq(Operand), ps \in Params, NEW rs \in Seq(Operand),
           NEW t, t = PushLabel(st, label_type, ps, rs)
    PROVE  LET n == Len(st.labels) + 1
           IN  /\ Inside(st, t) /\ Open(t) /\ t.types = st.types
               /\ Len(t.labels) = n /\ TopLabel(t) = t.labels[n]
               /\ t.labels[n].type_stack_limit = Len(st.types)
               /\ t.labels[n].label_type = label_type
               /\ t.labels[n].param_types = ps
               /\ t.labels[n].result_types = rs
               /\ ~t.labels[n].unreachable
               /\ \A i \in 1 .. Len(st.labels) : t.labels[i] = st.labels[i]
<1> DEFINE n == Len(st.labels)
           label == [label_type |-> label_type, param_types |-> ps,
                     result_types |-> rs, type_stack_limit |-> Len(st.types),
                     unreachable |-> FALSE]
<1>1. ps \in Seq(Type) /\ rs \in Seq(Type) /\ n \in Nat \ {0}
      /\ st.labels \in Seq(Label)
      /\ TopLabel(st).type_stack_limit \in 0 .. Len(st.types)
      /\ Len(st.types) \in Nat
  BY OperandTypes, TopFacts
<1>2. Open(t)
  BY <1>1, PushLabelOpen DEF Open
<1>3. t.labels = Append(st.labels, label) /\ t.types = st.types
  BY DEF PushLabel, Open, Nested, Checker
<1>4. /\ label.type_stack_limit = Len(st.types)
      /\ label.label_type = label_type /\ label.param_types = ps
      /\ label.result_types = rs /\ label.unreachable = FALSE
      /\ label \in Label
  BY <1>1 DEF Label
<1> HIDE DEF label
<1>5. /\ Len(t.labels) = n + 1 /\ t.labels[n + 1] = label
      /\ \A i \in 1 .. n : t.labels[i] = st.labels[i]
  BY <1>1, <1>3, <1>4
<1>6. TopLabel(t) = t.labels[n + 1]
  BY <1>2, <1>5, TopFacts
<1>7. Inside(st, t)
  <2>1. \A i \in 1 .. Len(t.labels) :
           i > Len(st.labels) => Concrete(t.labels[i])
    <3>1. \A i \in 1 .. n + 1 : i > n => i = n + 1
      BY <1>1
    <3>2. Concrete(t.labels[n + 1])
      BY <1>4, <1>5 DEF Concrete
    <3> QED  BY <1>5, <3>1, <3>2
  <2> QED  BY <1>1, <1>2, <1>3, <1>5, <2>1 DEF Inside, SameLabel
<1> QED  BY <1>2, <1>3, <1>4, <1>5, <1>6, <1>7

-----------------------------------------------------------------------------
(* The methods *)

(* The operands of a signature are checked and popped, others pushed.       *)
LEMMA SignatureKeeps ==
    ASSUME NEW st, Open(st), NEW sig \in Seq(Type)
    PROVE  /\ Keeps(st, CheckSignature(st, sig))
           /\ Keeps(st, PopAndCheckSignature(st, sig))
           /\ \A rs \in Seq(Type) : Keeps(st, PopAndCheckCall(st, sig, rs))
           /\ \A type \in Type \cup {Void} :
                 Keeps(st, PushType(PopAndCheckSignature(st, sig), type))
<1> DEFINE checked == CheckSignature(st, sig)
           popped == PopAndCheckSignature(st, sig)
<1>1. Keeps(st, checked)
  BY ErrorKeeps DEF CheckSignature
<1>2. Len(sig) \in Nat
  BY LenProperties
<1>3. popped = DropTypes(checked, Len(sig))
  BY DEF PopAndCheckSignature
<1> HIDE DEF checked, popped
<1>4. Keeps(st, popped) /\ Open(popped)
  <2>1. Open(checked)
    BY <1>1 DEF Keeps
  <2>2. Keeps(checked, popped)
    BY <1>2, <1>3, <2>1, DropKeeps
  <2> QED  BY <1>1, <2>2, KeepsTransitive DEF Keeps
<1>5. ASSUME NEW type \in Type \cup {Void}
      PROVE  Keeps(st, PushType(popped, type))
  BY <1>4, PushKeeps, KeepsTransitive
<1>6. ASSUME NEW rs \in Seq(Type) PROVE Keeps(st, PushTypes(popped, rs))
  BY <1>4, PushKeeps, KeepsTransitive
<1> QED  BY <1>1, <1>4, <1>5, <1>6 DEF checked, popped, PopAndCheckCall

(* A function is begun with empty stacks.                                   *)
LEMMA BeginFunctionOpen ==
    ASSUME NEW sig \in Seq(Type) PROVE Open(BeginFunction(sig))
<1> DEFINE st == Begin(<<>>, <<>>)
<1>1. st \in Checker /\ Len(st.labels) = 0
  BY DEF Begin, Checker
<1>2. Nested(st)
  BY <1>1 DEF Nested
<1>3. "Func" \in LabelType /\ <<>> \in Seq(Type)
  BY DEF LabelType
<1> HIDE DEF st
<1>4. Open(PushLabel(st, "Func", <<>>, sig))
  BY <1>2, <1>3, PushLabelOpen
<1> QED  BY <1>4 DEF BeginFunction, st

(* The methods that enter a block.                                          *)
LEMMA BlockInside ==
    ASSUME NEW st, Open(st), NEW label_type \in LabelType,
           NEW ps \in Seq(Operand), ps \in Params, NEW rs \in Seq(Operand)
    PROVE  Inside(st, OnBlock(st, label_type, ps, rs))
<1> DEFINE popped == PopAndCheckSignature(st, ps)
           entered == PushLabel(popped, label_type, ps, rs)
           pushed == OnBlock(st, label_type, ps, rs)
<1>1. ps \in Seq(Type)
  BY OperandTypes
<1>2. Inside(st, popped) /\ Open(popped)
  BY <1>1, SignatureKeeps, KeepsInside DEF Keeps
<1>3. Inside(popped, entered) /\ Open(entered)
  <2> HIDE DEF popped
  <2> QED  BY <1>2, PushLabelInside
<1>4. pushed = PushTypes(entered, ps)
  BY DEF OnBlock
<1> HIDE DEF popped, entered, pushed
<1>5. Inside(entered, pushed)
  BY <1>1, <1>3, <1>4, PushKeeps, KeepsInside
<1>6. Inside(st, pushed)
  BY <1>2, <1>3, <1>5, InsideTransitive
<1> QED  BY <1>6 DEF pushed

(* The same with a condition or an exception on top.                        *)
LEMMA IfInside ==
    ASSUME NEW st, Open(st), NEW ps \in Seq(Operand), ps \in Params,
           NEW rs \in Seq(Operand), NEW except_sig \in Seq(Operand)
    PROVE  /\ Inside(st, OnIf(st, ps, rs))
           /\ Inside(st, OnIfExcept(st, ps, rs, except_sig))
<1>1. "If" \in LabelType /\ "IfExcept" \in LabelType
  BY DEF LabelType
<1>2. ASSUME NEW sig \in Seq(Type)
      PROVE  /\ Open(PopAndCheckSignature(st, sig))
             /\ Inside(st, PopAndCheckSignature(st, sig))
  BY SignatureKeeps, KeepsInside DEF Keeps
<1>3. ASSUME NEW sig \in Seq(Type), NEW l \in LabelType
      PROVE  Inside(st, OnBlock(PopAndCheckSignature(st, sig), l, ps, rs))
  <2> DEFINE popped == PopAndCheckSignature(st, sig)
  <2>1. Open(popped) /\ Inside(st, popped)
    BY <1>2
  <2> HIDE DEF popped
  <2>2. Inside(popped, OnBlock(popped, l, ps, rs))
    BY <2>1, BlockInside
  <2>3. Inside(st, OnBlock(popped, l, ps, rs))
    BY <2>1, <2>2, InsideTransitive
  <2> QED  BY <2>3 DEF popped
<1>4. Inside(st, OnIf(st, ps, rs))
  BY <1>1, <1>3, SingleTypes DEF OnIf
<1>5. Inside(st, OnIfExcept(st, ps, rs, except_sig))
  <2> DEFINE t == OnBlock(PopAndCheckSignature(st, <<ExceptRef>>), "IfExcept",
                          ps, rs)
  <2>1. Inside(st, t)
    BY <1>1, <1>3, SingleTypes
  <2>2. OnIfExcept(st, ps, rs, except_sig) = PushTypes(t, except_sig)
    BY DEF OnIfExcept
  <2> HIDE DEF t
  <2>3. Open(t) /\ except_sig \in Seq(Type)
    BY <2>1, OperandTypes DEF Inside
  <2>4. Inside(t, PushTypes(t, except_sig))
    BY <2>3, PushKeeps, KeepsInside
  <2> QED  BY <2>1, <2>2, <2>4, InsideTransitive
<1> QED  BY <1>4, <1>5

(* What a branch to a label takes is a signature.                           *)
LEMMA BranchTypes ==
    ASSUME NEW st, Open(st), NEW depth \in Nat, HasLabel(st, depth)
    PROVE  br_types(GetLabel(st, depth)) \in Seq(Type)
<1>1. GetLabel(st, depth) \in Label
  <2>1. Len(st.labels) - depth \in 1 .. Len(st.labels)
        /\ st.labels \in Seq(Label)
    BY TopFacts DEF HasLabel
  <2> QED  BY <2>1, ElementOfSeq DEF GetLabel
<1> QED  BY <1>1 DEF br_types, Label

(* Operands are popped and the rest of the label is unreachable.            *)
LEMMA LeaveInside ==
    ASSUME NEW st, Open(st), NEW t, Keeps(st, t)
    PROVE  Inside(st, SetUnreachable(t))
<1>1. Inside(st, t) /\ Inside(t, SetUnreachable(t))
  BY KeepsInside, UnreachableInside DEF Keeps
<1> QED  BY <1>1, InsideTransitive

(* The methods that branch.                                                 *)
LEMMA BranchInside ==
    ASSUME NEW st, Open(st), NEW depth \in Nat
    PROVE  Inside(st, OnBr(st, depth)) /\ Inside(st, OnBrIf(st, depth))
<1>1. ASSUME NEW s, Open(s) PROVE Keeps(s, PrintError(Error(s)))
  <2>1. Keeps(s, Error(s))
    BY <1>1, ErrorKeeps
  <2>2. Keeps(Error(s), PrintError(Error(s)))
    BY <2>1, ErrorKeeps DEF Keeps
  <2> QED  BY <2>1, <2>2, KeepsTransitive
<1>2. Inside(st, OnBr(st, depth))
  <2>1. CASE HasLabel(st, depth)
    <3>1. Keeps(st, CheckSignature(st, br_types(GetLabel(st, depth))))
      BY <2>1, BranchTypes, SignatureKeeps
    <3> QED  BY <2>1, <3>1, LeaveInside DEF OnBr
  <2>2. CASE ~HasLabel(st, depth)
    BY <1>1, <2>2, KeepsInside DEF OnBr
  <2> QED  BY <2>1, <2>2
<1>3. Inside(st, OnBrIf(st, depth))
  <2> DEFINE popped == PopAndCheckSignature(st, <<I32>>)
             sig == br_types(GetLabel(st, depth))
  <2>1. Keeps(st, popped) /\ Open(popped)
    BY SignatureKeeps, SingleTypes DEF Keeps
  <2>2. OnBrIf(st, depth) =
           IF HasLabel(st, depth) THEN PopAndCheckCall(popped, sig, sig)
           ELSE PrintError(Error(popped))
    BY DEF OnBrIf, PopAndCheckCall
  <2>3. HasLabel(st, depth) => sig \in Seq(Type)
    BY BranchTypes
  <2> HIDE DEF popped, sig
  <2>4. HasLabel(st, depth) => Keeps(popped, PopAndCheckCall(popped, sig, sig))
    BY <2>1, <2>3, SignatureKeeps
  <2>5. Keeps(popped, PrintError(Error(popped)))
    BY <1>1, <2>1
  <2>6. Keeps(popped, OnBrIf(st, depth))
    BY <2>2, <2>4, <2>5
  <2> QED  BY <2>1, <2>6, KeepsTransitive, KeepsInside
<1> QED  BY <1>2, <1>3

(* A table of branches.                                                     *)
LEMMA BrTableInside ==
    ASSUME NEW st, Open(st), NEW depths PROVE Inside(st, OnBrTable(st, depths))
<1> DEFINE begun == PopAndCheckSignature(st, <<I32>>)
<1>1. Keeps(st, begun)
  BY SignatureKeeps, SingleTypes
<1> HIDE DEF begun
<1>2. ASSUME NEW failed PROVE Inside(st, SetUnreachable(ErrorIf(begun, failed)))
  <2>1. Keeps(begun, ErrorIf(begun, failed))
    BY <1>1, ErrorKeeps DEF Keeps
  <2> QED  BY <1>1, <2>1, KeepsTransitive, LeaveInside
<1> QED  BY <1>2 DEF OnBrTable, begun

(* The end of a branch or of a label: what is on the stack is checked, and  *)
(* replaced by what the label says.                                         *)
LEMMA EndedKeeps ==
    ASSUME NEW st, NEW begun, Open(st), Keeps(st, begun)
    PROVE  LET label == TopLabel(st)
               ended == CheckTypeStackEnd(PopAndCheckSignature(
                           begun, label.result_types))
           IN  Keeps(st, ResetTypeStackToLabel(ended, label))
<1> DEFINE label == TopLabel(st)
           popped == PopAndCheckSignature(begun, label.result_types)
           ended == CheckTypeStackEnd(popped)
<1>1. label.result_types \in Seq(Type)
  BY TopFacts DEF Label
<1>2. Keeps(st, popped)
  <2>1. Keeps(begun, popped)
    BY <1>1, SignatureKeeps DEF Keeps
  <2> QED  BY <2>1, KeepsTransitive
<1>3. Keeps(st, ended)
  <2> HIDE DEF popped
  <2>1. Keeps(popped, ended)
    BY <1>2, ErrorKeeps DEF CheckTypeStackEnd, Keeps
  <2> QED  BY <1>2, <2>1, KeepsTransitive
<1>4. TopLabel(ended) = label
  <2> HIDE DEF ended
  <2> QED  BY <1>3 DEF Keeps, TopLabel
<1> HIDE DEF ended, label
<1>5. Keeps(ended, ResetTypeStackToLabel(ended, label))
  BY <1>3, <1>4, ResetKeeps DEF Keeps
<1>6. Keeps(st, ResetTypeStackToLabel(ended, label))
  BY <1>3, <1>5, KeepsTransitive
<1> QED  BY <1>6 DEF ended, label

(* An else or a catch.                                                      *)
LEMMA SwitchOpen ==
    ASSUME NEW st, Open(st), NEW from, NEW to \in LabelType,
           NEW types \in Seq(Type)
    PROVE  Open(Switch(st, from, to, types))
<1> DEFINE label == TopLabel(st)
           begun == CheckLabelType(st, from)
           reset == ResetTypeStackToLabel(
                       CheckTypeStackEnd(PopAndCheckSignature(
                          begun, label.result_types)), label)
           next == [label EXCEPT !.label_type = to, !.unreachable = FALSE]
<1>1. Keeps(st, begun)
  BY ErrorKeeps DEF CheckLabelType, Keeps
<1>2. Keeps(st, reset)
  <2> HIDE DEF begun
  <2> QED  BY <1>1, EndedKeeps
<1>3. next \in Label /\ next.type_stack_limit = label.type_stack_limit
  BY TopFacts DEF Label
<1>4. Switch(st, from, to, types) = PushTypes(SetTop(reset, next), types)
  BY DEF Switch
<1> HIDE DEF reset, next
<1>5. TopLabel(reset) = label
  BY <1>2 DEF Keeps, TopLabel
<1>6. Open(SetTop(reset, next))
  BY <1>2, <1>3, <1>5, SetTopOpen DEF Keeps
<1> QED  BY <1>4, <1>6, PushKeeps DEF Keeps

(* The end of a label.                                                      *)
LEMMA EndLabelNested ==
    ASSUME NEW st, Open(st) PROVE Nested(EndLabel(st))
<1> DEFINE label == TopLabel(st)
           reset == ResetTypeStackToLabel(
                       CheckTypeStackEnd(PopAndCheckSignature(
                          st, label.result_types)), label)
<1>1. Keeps(st, reset)
  BY EndedKeeps DEF Keeps
<1>2. label.result_types \in Seq(Type)
  BY TopFacts DEF Label
<1>3. EndLabel(st) = PopLabel(PushTypes(reset, label.result_types))
  BY DEF EndLabel
<1> HIDE DEF reset, label
<1>4. Open(PushTypes(reset, label.result_types))
  BY <1>1, <1>2, PushKeeps DEF Keeps
<1> QED  BY <1>3, <1>4, PopLabelNested

(* A select pushes the type it has found.                                   *)
LEMMA SelectKeeps ==
    ASSUME NEW st, Open(st) PROVE Keeps(st, OnSelect(st))
<1> DEFINE type == PeekType(st, 1)
<1>1. type \in Type
  <2>1. CASE Visible(st, 1)
    <3>1. Len(st.types) - 1 \in 1 .. Len(st.types) /\ st.types \in Seq(Type)
      BY <2>1, TopFacts DEF Visible
    <3> QED  BY <2>1, <3>1, ElementOfSeq DEF PeekType
  <2>2. CASE ~Visible(st, 1)
    BY <2>2 DEF PeekType, Type
  <2> QED  BY <2>1, <2>2
<1> HIDE DEF type
<1>2. ASSUME NEW failed
      PROVE  Keeps(st, PushType(DropTypes(ErrorIf(st, failed), 3), type))
  <2> DEFINE checked == ErrorIf(st, failed)
             dropped == DropTypes(checked, 3)
  <2>1. Keeps(st, checked) /\ Open(checked)
    BY ErrorKeeps DEF Keeps
  <2> HIDE DEF checked
  <2>2. Keeps(checked, dropped) /\ Open(dropped)
    BY <2>1, DropKeeps DEF Keeps
  <2> HIDE DEF dropped
  <2>3. Keeps(dropped, PushType(dropped, type))
    BY <1>1, <2>2, PushKeeps
  <2>4. Keeps(st, PushType(dropped, type))
    BY <2>1, <2>2, <2>3, KeepsTransitive
  <2> QED  BY <2>4 DEF checked, dropped
<1> QED  BY <1>2 DEF OnSelect, type

(* The other methods that leave nothing reachable, and a drop.              *)
LEMMA OtherInside ==
    ASSUME NEW st, Open(st), NEW sig \in Seq(Type)
    PROVE  /\ Inside(st, OnThrow(st, sig)) /\ Inside(st, OnRethrow(st))
           /\ Inside(st, OnReturn(st)) /\ Keeps(st, OnDrop(st))
           /\ Inside(st, OnUnreachable(st))
<1>1. /\ Inside(st, OnThrow(st, sig)) /\ Inside(st, OnRethrow(st))
      /\ Inside(st, OnUnreachable(st))
  <2>1. /\ Keeps(st, PopAndCheckSignature(st, sig))
        /\ Keeps(st, PopAndCheckSignature(st, <<ExceptRef>>))
    BY SignatureKeeps, SingleTypes
  <2> QED  BY <2>1, LeaveInside, UnreachableInside
           DEF OnThrow, OnRethrow, OnUnreachable
<1>2. Inside(st, OnReturn(st))
  <2>1. st.labels[1].result_types \in Seq(Type)
    <3>1. 1 \in 1 .. Len(st.labels) /\ st.labels \in Seq(Label)
      BY TopFacts
    <3>2. st.labels[1] \in Label
      BY <3>1, ElementOfSeq
    <3> QED  BY <3>2 DEF Label
  <2>2. Keeps(st, PopAndCheckSignature(st, st.labels[1].result_types))
    BY <2>1, SignatureKeeps
  <2> QED  BY <2>2, LeaveInside DEF OnReturn
<1>3. Keeps(st, OnDrop(st))
  <2> DEFINE dropped == DropTypes(st, 1)
  <2>1. Keeps(st, dropped)
    BY DropKeeps
  <2>2. OnDrop(st) = IF dropped.ok THEN dropped ELSE PrintError(dropped)
    BY DEF OnDrop
  <2> HIDE DEF dropped
  <2>3. Keeps(dropped, PrintError(dropped))
    BY <2>1, ErrorKeeps DEF Keeps
  <2> QED  BY <2>1, <2>2, <2>3, KeepsTransitive
<1> QED  BY <1>1, <1>2, <1>3

-----------------------------------------------------------------------------
(* The instructions *)

(* What the validator has after a method.                                   *)
LEMMA VisitNested ==
    ASSUME NEW st, Nested(st), Visit(st) PROVE Nested(St)'
<1>1. type_stack' = st.types /\ label_stack' = st.labels
  BY DEF Visit
<1>2. /\ Begin(type_stack', label_stack') \in Checker
      /\ Begin(type_stack', label_stack').types = st.types
      /\ Begin(type_stack', label_stack').labels = st.labels
  BY <1>1 DEF Begin, Nested, Checker
<1>3. Nested(Begin(type_stack', label_stack'))
  BY <1>2 DEF Nested
<1> QED  BY <1>3 DEF St

(* While the function is read there is a label.                             *)
LEMMA ReadingOpen == Nested(St) /\ Reading => Open(St)
<1> SUFFICES ASSUME Nested(St), Reading PROVE Open(St)
  OBVIOUS
<1>1. St.labels = label_stack /\ label_stack \in Seq(Label)
      /\ label_stack # <<>>
  BY DEF St, Begin, Nested, Checker, Reading
<1>2. Len(label_stack) # 0
  BY <1>1, EmptySeq
<1> QED  BY <1>1, <1>2 DEF Open

(* The function begins with its own label.                                  *)
LEMMA InitNested == Init => Nested(St)
<1> SUFFICES ASSUME NEW sig \in Results,
                    type_stack = BeginFunction(sig).types,
                    label_stack = BeginFunction(sig).labels
             PROVE  Nested(St)
  BY DEF Init
<1>1. Nested(BeginFunction(sig))
  BY BeginFunctionOpen, SignatureTypes DEF Open
<1>2. /\ St \in Checker /\ St.types = BeginFunction(sig).types
      /\ St.labels = BeginFunction(sig).labels
  BY <1>1 DEF Nested, Checker, St, Begin
<1> QED  BY <1>1, <1>2 DEF Nested

(* What the checker and a waiting execution do at an instruction inside of  *)
(* a label.                                                                 *)
Passes == \E t : Inside(St, t) /\ Visit(t) /\ (~Live => Execute(path))

(* Opcodes and calls.                                                       *)
LEMMA OperandSteps ==
    ASSUME Open(St),
           \/ \E o \in Opcodes : OpcodeInstr(o)
           \/ \E f \in FuncTypes : CallInstr(f) \/ CallIndirectInstr(f)
           \/ DropInstr \/ SelectInstr
           \/ \E o \in LaneOpcodes, in_range \in BOOLEAN :
                 LaneInstr(o, in_range)
    PROVE  Passes
<1>0. ASSUME NEW sig, NEW types, ~Live PROVE Falls(sig, types) = path
  BY <1>0 DEF Falls, Takes
<1>1. ASSUME NEW o \in Opcodes, NEW st, Open(st)
      PROVE  Keeps(st, CheckOpcode(st, o))
  <2>1. o.params \in Seq(Type) /\ o.result \in Type \cup {Void}
    BY SignatureTypes
  <2> QED  BY <1>1, <2>1, SignatureKeeps DEF CheckOpcode
<1>2. ASSUME NEW o \in Opcodes, OpcodeInstr(o) PROVE Passes
  <2>1. Inside(St, CheckOpcode(St, o))
    BY <1>1, KeepsInside
  <2> QED  BY <1>0, <1>2, <2>1 DEF OpcodeInstr, Passes
<1>3. ASSUME NEW f \in FuncTypes, CallInstr(f) \/ CallIndirectInstr(f)
      PROVE  Passes
  <2>1. f.params \in Seq(Type) /\ f.results \in Seq(Type)
    BY SignatureTypes
  <2>2. Inside(St, PopAndCheckCall(St, f.params, f.results))
    BY <2>1, SignatureKeeps, KeepsInside
  <2>3. Inside(St, OnCallIndirect(St, f.params, f.results))
    <3> DEFINE popped == PopAndCheckSignature(St, <<I32>>)
    <3>1. Keeps(St, popped) /\ Open(popped)
      BY SignatureKeeps, SingleTypes DEF Keeps
    <3>2. OnCallIndirect(St, f.params, f.results)
             = PopAndCheckCall(popped, f.params, f.results)
      BY DEF OnCallIndirect
    <3> HIDE DEF popped
    <3>3. Keeps(popped, OnCallIndirect(St, f.params, f.results))
      BY <2>1, <3>1, <3>2, SignatureKeeps
    <3> QED  BY <3>1, <3>3, KeepsTransitive, KeepsInside
  <2> QED  BY <1>0, <1>3, <2>2, <2>3 DEF CallInstr, CallIndirectInstr, Passes
<1>4. ASSUME DropInstr \/ SelectInstr PROVE Passes
  <2>1. Inside(St, OnDrop(St)) /\ Inside(St, OnSelect(St))
    BY OtherInside, SelectKeeps, SingleTypes, KeepsInside
  <2> QED  BY <1>0, <1>4, <2>1 DEF DropInstr, SelectInstr, Passes
<1>5. ASSUME NEW o \in LaneOpcodes, NEW in_range \in BOOLEAN,
             LaneInstr(o, in_range)
      PROVE  Passes
  <2>1. o \in Opcodes
    BY DEF LaneOpcodes
  <2>2. Keeps(St, PrintError(St)) /\ Open(PrintError(St))
    BY ErrorKeeps DEF Keeps
  <2>3. /\ Keeps(St, CheckOpcode(St, o))
        /\ Keeps(PrintError(St), CheckOpcode(PrintError(St), o))
    BY <1>1, <2>1, <2>2
  <2>4. Inside(St, OnSimdLaneOp(St, o, in_range))
    BY <2>2, <2>3, KeepsTransitive, KeepsInside DEF OnSimdLaneOp
  <2> QED  BY <1>0, <1>5, <2>4 DEF LaneInstr, Passes
<1> QED  BY <1>2, <1>3, <1>4, <1>5

(* Blocks.                                                                  *)
LEMMA BlockSteps ==
    ASSUME Open(St),
           \E b \in BlockTypes : \/ \E l \in {"Block", "Loop", "Try"} :
                                       BlockInstr(l, b)
                                 \/ IfInstr(b)
                                 \/ \E s \in ExceptSigs : IfExceptInstr(b, s)
    PROVE  Passes
<1>0. ASSUME NEW sig, NEW types, NEW params, ~Live
      PROVE  Enters(Falls(sig, types), params) = path
  BY <1>0 DEF Falls, Takes, Enters, Live
<1>1. ASSUME NEW b \in BlockTypes
      PROVE  /\ b.params \in Seq(Operand) /\ b.results \in Seq(Operand)
             /\ b.params \in Params
  BY SignatureTypes
<1>2. ASSUME NEW b \in BlockTypes, NEW l \in {"Block", "Loop", "Try"},
             BlockInstr(l, b)
      PROVE  Passes
  <2>1. l \in LabelType
    BY DEF LabelType
  <2>2. Inside(St, OnBlock(St, l, b.params, b.results))
    BY <1>1, <2>1, BlockInside
  <2> QED  BY <1>0, <1>2, <2>2 DEF BlockInstr, Passes
<1>3. ASSUME NEW b \in BlockTypes, IfInstr(b) PROVE Passes
  <2>1. Inside(St, OnIf(St, b.params, b.results))
    BY <1>1, IfInside, SingleTypes
  <2>2. ~Live => Execute(path)
    BY <1>0, <1>3 DEF IfInstr
  <2> QED  BY <1>3, <2>1, <2>2 DEF IfInstr, Passes
<1>4. ASSUME NEW b \in BlockTypes, NEW s \in ExceptSigs, IfExceptInstr(b, s)
      PROVE  Passes
  <2>1. s \in Seq(Operand)
    BY SignatureTypes
  <2>2. Inside(St, OnIfExcept(St, b.params, b.results, s))
    BY <1>1, <2>1, IfInside
  <2>3. ~Live => Execute(path)
    BY <1>0, <1>4 DEF IfExceptInstr
  <2> QED  BY <1>4, <2>2, <2>3 DEF IfExceptInstr, Passes
<1> QED  BY <1>2, <1>3, <1>4

(* Branches, returns and exceptions.                                        *)
LEMMA BranchSteps ==
    ASSUME Open(St),
           \/ \E d \in Depths : BrInstr(d) \/ BrIfInstr(d)
           \/ \E d1 \in Depths : \E d2 \in d1 .. Labels : BrTableInstr(d1, d2)
           \/ ReturnInstr
           \/ \E s \in ExceptSigs : ThrowInstr(s)
           \/ RethrowInstr \/ UnreachableInstr
    PROVE  Passes
<1>0. ASSUME NEW sig, NEW next, ~Live PROVE Takes(sig, next) = path
  BY <1>0 DEF Takes
<1>1. ASSUME NEW d \in Depths, BrInstr(d) \/ BrIfInstr(d) PROVE Passes
  <2>1. d \in Nat
    <3>1. Labels \in Nat
      BY TopFacts DEF Labels, St, Begin
    <3> QED  BY <3>1 DEF Depths
  <2>2. Inside(St, OnBr(St, d)) /\ Inside(St, OnBrIf(St, d))
    BY <2>1, BranchInside
  <2> QED  BY <1>0, <1>1, <2>2 DEF BrInstr, BrIfInstr, Passes
<1>2. ASSUME NEW d1 \in Depths, NEW d2 \in d1 .. Labels, BrTableInstr(d1, d2)
      PROVE  Passes
  <2>1. Inside(St, OnBrTable(St, <<d1, d2>>))
    BY BrTableInside
  <2>2. ~Live => Execute(path)
    BY <1>0, <1>2 DEF BrTableInstr
  <2> QED  BY <1>2, <2>1, <2>2 DEF BrTableInstr, Passes
<1>3. ASSUME NEW s \in ExceptSigs, ThrowInstr(s) PROVE Passes
  <2>1. Inside(St, OnThrow(St, s))
    BY OtherInside, SignatureTypes
  <2> QED  BY <1>0, <1>3, <2>1 DEF ThrowInstr, Passes
<1>4. ASSUME ReturnInstr \/ RethrowInstr \/ UnreachableInstr PROVE Passes
  <2>1. /\ Inside(St, OnReturn(St)) /\ Inside(St, OnRethrow(St))
        /\ Inside(St, OnUnreachable(St))
    BY OtherInside, SingleTypes
  <2> QED  BY <1>0, <1>4, <2>1
           DEF ReturnInstr, RethrowInstr, UnreachableInstr, Passes
<1> QED  BY <1>1, <1>2, <1>3, <1>4

(* The middles and the ends of blocks.                                      *)
LEMMA SwitchSteps ==
    ASSUME Open(St), ElseInstr \/ CatchInstr \/ EndInstr \/ FunctionEnd
    PROVE  Nested(St)'
<1>1. ASSUME ElseInstr \/ CatchInstr PROVE Nested(St)'
  <2>1. /\ "Else" \in LabelType /\ "Catch" \in LabelType
        /\ TopLabel(St).param_types \in Seq(Type)
    BY TopFacts DEF LabelType, Label
  <2>2. Open(OnElse(St)) /\ Open(OnCatch(St))
    BY <2>1, SwitchOpen, SingleTypes DEF OnElse, OnCatch
  <2> QED  BY <1>1, <2>2, VisitNested DEF ElseInstr, CatchInstr, Open
<1>2. ASSUME EndInstr PROVE Nested(St)'
  <2>1. \A failed : Nested(EndLabel(ErrorIf(St, failed)))
    BY ErrorKeeps, EndLabelNested DEF Keeps
  <2>2. Nested(OnEnd(St))
    BY <2>1 DEF OnEnd
  <2> QED  BY <1>2, <2>2, VisitNested DEF EndInstr
<1>3. ASSUME FunctionEnd PROVE Nested(St)'
  <2>1. Open(CheckLabelType(St, "Func"))
    BY ErrorKeeps DEF CheckLabelType, Keeps
  <2>2. Nested(EndFunction(St))
    BY <2>1, EndLabelNested DEF EndFunction
  <2> QED  BY <1>3, <2>2, VisitNested DEF FunctionEnd
<1> QED  BY <1>1, <1>2, <1>3

(* Every step keeps the limits nested.                                      *)
LEMMA StepNested == Nested(St) /\ [Next]_vars => Nested(St)'
<1> SUFFICES ASSUME Nested(St), [Next]_vars PROVE Nested(St)'
  OBVIOUS
<1>1. CASE UNCHANGED vars
  <2>1. St' = St
    BY <1>1 DEF vars, St
  <2> QED  BY <2>1 DEF Nested
<1>2. CASE Next /\ ~Reading
  BY <1>1, <1>2 DEF Next, Done, OpcodeInstr, CallInstr, CallIndirectInstr,
     DropInstr, SelectInstr, LaneInstr, BlockInstr, IfInstr, IfExceptInstr,
     MayNest, ElseInstr, CatchInstr, EndInstr, BrInstr, BrIfInstr,
     BrTableInstr, ReturnInstr, ThrowInstr, RethrowInstr, UnreachableInstr,
     FunctionEnd
<1>3. CASE Next /\ Reading
  <2>1. Open(St)
    BY <1>3, ReadingOpen
  <2>2. CASE Passes
    <3>1. PICK t : Inside(St, t) /\ Visit(t)
      BY <2>2 DEF Passes
    <3> QED  BY <3>1, VisitNested DEF Inside, Open
  <2> QED  BY <1>3, <2>1, <2>2, OperandSteps, BlockSteps, BranchSteps,
              SwitchSteps DEF Next, Done
<1> QED  BY <1>1, <1>2, <1>3

(* The types on the stack and the labels are what they should be, and the   *)
(* limits nested, in every state of every execution.                        *)
THEOREM Invariance == Spec => []Nested(St)
<1>1. Init => Nested(St)
  BY InitNested
<1>2. Nested(St) /\ [Next]_vars => Nested(St)'
  BY StepNested
<1> QED  BY <1>1, <1>2, PTL DEF Spec

(* The limits of nested labels never decrease and never exceed the stack,   *)
(* also after errors: resize of TypeChecker never grows the type stack.     *)
THEOREM LimitsNestedAlways == Spec => []LimitsNested
<1>1. Nested(St) => LimitsNested
  <2> SUFFICES ASSUME Nested(St) PROVE LimitsNested
    OBVIOUS
  <2>1. /\ St.labels = label_stack /\ St.types = type_stack
        /\ label_stack \in Seq(Label) /\ Labels = Len(label_stack)
    BY DEF St, Begin, Nested, Checker, Labels
  <2>2. DOMAIN label_stack = 1 .. Len(label_stack)
    BY <2>1, LenProperties
  <2> QED  BY <2>1, <2>2 DEF Nested, LimitsNested
<1> QED  BY <1>1, Invariance, PTL

-----------------------------------------------------------------------------
(* What the checker accepts where the code is reachable *)

(* Nothing was printed, so nothing was wrong.                               *)
LEMMA NotSaid ==
    ASSUME NEW st, st \in Checker, NEW failed, ~ErrorIf(st, failed).said
    PROVE  ~failed /\ ErrorIf(st, failed) = st /\ ~st.said
<1>1. CASE failed
  <2>1. ErrorIf(st, failed).said
    BY <1>1 DEF ErrorIf, PrintError, Error, Checker
  <2> QED  BY <2>1
<1>2. CASE ~failed
  BY <1>2 DEF ErrorIf
<1> QED  BY <1>1, <1>2

(* What neither checks nor prints.                                          *)
LEMMA SaidSame ==
    ASSUME NEW st, st \in Checker, NEW x, NEW label
    PROVE  /\ DropTypes(st, x).said = st.said
           /\ PushType(st, x).said = st.said
           /\ PushTypes(st, x).said = st.said
           /\ ResetTypeStackToLabel(st, label).said = st.said
           /\ SetTop(st, label).said = st.said
           /\ SetUnreachable(st).said = st.said
           /\ PopLabel(st).said = st.said
<1>1. /\ ResetTypeStackToLabel(st, label).said = st.said
      /\ PushType(st, x).said = st.said /\ PushTypes(st, x).said = st.said
      /\ SetTop(st, label).said = st.said /\ PopLabel(st).said = st.said
  BY DEF Checker, ResetTypeStackToLabel, PushType, PushTypes, SetTop, PopLabel
<1>2. DropTypes(st, x).said = st.said
  BY DEF Checker, DropTypes, ResetTypeStackToLabel
<1>3. SetUnreachable(st).said = st.said
  BY DEF Checker, SetUnreachable, ResetTypeStackToLabel, SetTop
<1> QED  BY <1>1, <1>2, <1>3

(* A signature that matches is on top of the stack, above the limit.        *)
LEMMA Matches ==
    ASSUME NEW st, Open(st), ~TopLabel(st).unreachable,
           st.types \in Seq(Operand), NEW sig \in Seq(Operand),
           SignatureMatches(st, sig)
    PROVE  /\ EndsWith(st.types, sig)
           /\ TopLabel(st).type_stack_limit + Len(sig) <= Len(st.types)
<1> DEFINE n == TopLabel(st).type_stack_limit
           L == Len(st.types)
           k == Len(sig)
<1>1. n \in Nat /\ L \in Nat /\ n <= L /\ k \in Nat /\ DOMAIN sig = 1 .. k
  BY TopFacts, LenProperties
<1>2. ASSUME NEW i \in 1 .. k
      PROVE  /\ n + (k - i) < L
             /\ st.types[L - (k - i)] = sig[i]
  <2>1. PeekAndCheckType(st, k - i, sig[i])
    BY <1>1, <1>2 DEF SignatureMatches
  <2>2. Visible(st, k - i)
    BY <2>1 DEF PeekAndCheckType, PeekOk
  <2>3. n + (k - i) < L
    BY <2>2 DEF Visible
  <2>4. L - (k - i) \in 1 .. L
    BY <1>1, <2>3
  <2>5. st.types[L - (k - i)] \in Operand /\ sig[i] \in Operand
    BY <2>4, ElementOfSeq
  <2>6. CheckType(st.types[L - (k - i)], sig[i])
    BY <2>1, <2>2 DEF PeekAndCheckType, PeekType
  <2>7. st.types[L - (k - i)] # AnyType /\ sig[i] # AnyType
    BY <2>5, OperandTypes
  <2> QED  BY <2>3, <2>6, <2>7 DEF CheckType
<1> HIDE DEF n, L, k
<1>3. n + k <= L
  <2>1. CASE k = 0
    BY <1>1, <2>1
  <2>2. CASE k # 0
    <3>1. n + (k - 1) < L
      BY <1>1, <1>2, <2>2
    <3> QED  BY <1>1, <3>1
  <2> QED  BY <2>1, <2>2
<1>4. \A i \in 1 .. k : st.types[L - k + i] = sig[i]
  <2>1. \A i \in 1 .. k : L - k + i = L - (k - i)
    BY <1>1
  <2> QED  BY <1>2, <2>1
<1>5. k <= L
  BY <1>1, <1>3
<1>6. EndsWith(st.types, sig)
  BY <1>4, <1>5, EndsWithIntro DEF L, k
<1> QED  BY <1>3, <1>6 DEF n, L, k

(* So it is popped without an error, and nothing else.                      *)
LEMMA Accepts ==
    ASSUME NEW st, Open(st), ~TopLabel(st).unreachable,
           st.types \in Seq(Operand), NEW sig \in Seq(Operand),
           ~PopAndCheckSignature(st, sig).said
    PROVE  /\ EndsWith(st.types, sig) /\ ~st.said
           /\ PopAndCheckSignature(st, sig) =
                 [st EXCEPT !.types = Minus(st.types, sig)]
           /\ Minus(st.types, sig) \in Seq(Operand)
           /\ TopLabel(st).type_stack_limit <= Len(Minus(st.types, sig))
           /\ \A i \in 1 .. TopLabel(st).type_stack_limit :
                 Minus(st.types, sig)[i] = st.types[i]
<1>1. st \in Checker
  BY DEF Open, Nested
<1> DEFINE checked == CheckSignature(st, sig)
<1>2. checked \in Checker
  BY ErrorKeeps DEF CheckSignature, Keeps, Open, Nested
<1>3. ~checked.said
  <2>1. PopAndCheckSignature(st, sig) = DropTypes(checked, Len(sig))
    BY DEF PopAndCheckSignature
  <2> HIDE DEF checked
  <2> QED  BY <1>2, <2>1, SaidSame
<1>4. SignatureMatches(st, sig) /\ checked = st /\ ~st.said
  BY <1>1, <1>3, NotSaid DEF CheckSignature
<1>5. /\ EndsWith(st.types, sig)
      /\ TopLabel(st).type_stack_limit + Len(sig) <= Len(st.types)
  BY <1>4, Matches
<1>6. PopAndCheckSignature(st, sig) = DropTypes(st, Len(sig))
  BY <1>4 DEF PopAndCheckSignature
<1>7. /\ TopLabel(st).type_stack_limit \in Nat /\ Len(st.types) \in Nat
      /\ Len(sig) \in Nat
  BY TopFacts, LenProperties
<1>8. DropTypes(st, Len(sig)) = [st EXCEPT !.types = Minus(st.types, sig)]
  BY <1>5, <1>7 DEF DropTypes, Minus
<1>9. /\ Minus(st.types, sig) \in Seq(Operand)
      /\ Len(Minus(st.types, sig)) = Len(st.types) - Len(sig)
      /\ \A i \in 1 .. Len(st.types) - Len(sig) :
            Minus(st.types, sig)[i] = st.types[i]
  BY <1>5, EndsWithFacts
<1>10. \A i \in 1 .. TopLabel(st).type_stack_limit :
          i \in 1 .. Len(st.types) - Len(sig)
  BY <1>5, <1>7
<1> QED  BY <1>4, <1>5, <1>6, <1>7, <1>8, <1>9, <1>10

(* A live execution has the operands the checker wants, and after it the    *)
(* state is the same but for the operands.                                  *)
LEMMA AcceptsOpen ==
    ASSUME NEW st, Open(st), ~TopLabel(st).unreachable,
           st.types \in Seq(Operand), NEW sig \in Seq(Operand),
           ~PopAndCheckSignature(st, sig).said
    PROVE  LET t == PopAndCheckSignature(st, sig)
           IN  /\ EndsWith(st.types, sig) /\ ~st.said
               /\ Keeps(st, t) /\ t.types = Minus(st.types, sig)
               /\ t.types \in Seq(Operand)
               /\ TopLabel(t) = TopLabel(st) /\ Open(t)
<1> DEFINE t == PopAndCheckSignature(st, sig)
           types == Minus(st.types, sig)
<1>1. /\ EndsWith(st.types, sig) /\ ~st.said
      /\ t = [st EXCEPT !.types = types] /\ types \in Seq(Operand)
  BY Accepts
<1>2. t.types = types
  BY <1>1 DEF Open, Nested, Checker
<1>3. Keeps(st, t)
  BY SignatureKeeps, OperandTypes
<1> HIDE DEF t, types
<1>4. TopLabel(t) = TopLabel(st) /\ Open(t)
  BY <1>3 DEF Keeps, TopLabel
<1>5. t.types \in Seq(Operand)
  BY <1>1, <1>2
<1> QED  BY <1>1, <1>2, <1>3, <1>4, <1>5 DEF t, types

-----------------------------------------------------------------------------
(* The execution and the checker *)

(* Who waits for a label goes on waiting for it.                            *)
LEMMA InsideAgrees ==
    ASSUME NEW st, Open(st), NEW t, Inside(st, t), WellLabelled(st)
    PROVE  /\ WellLabelled(t)
           /\ \A p : p.mode # "live" /\ Agrees(st, p) => Agrees(t, p)
<1> DEFINE n == Len(st.labels)
           m == Len(t.labels)
<1>1. n \in Nat \ {0} /\ m \in Nat /\ n <= m /\ Open(t)
  BY TopFacts DEF Inside
<1>2. WellLabelled(t)
  <2>1. ASSUME NEW i \in 1 .. m PROVE Concrete(t.labels[i])
    <3>1. CASE i \in 1 .. n
      BY <3>1 DEF WellLabelled, Inside, SameLabel, Concrete
    <3>2. CASE i \notin 1 .. n
      BY <1>1, <3>2 DEF Inside
    <3> QED  BY <3>1, <3>2
  <2>2. t.labels[1].label_type = "Func"
    BY <1>1 DEF WellLabelled, Inside, SameLabel
  <2> QED  BY <2>1, <2>2 DEF WellLabelled
<1>3. ASSUME NEW p, p \in Path, AgreesWaiting(st, p) PROVE AgreesWaiting(t, p)
  <2> DEFINE k == p.target
             label == st.labels[k]
             limit == label.type_stack_limit
  <2>1. /\ k \in 1 .. n /\ Heights(st, p, k) /\ Reachable(st, k - 1)
        /\ p.stack = SubSeq(st.types, 1, limit) \o Awaited(p.mode, label)
        /\ p.mode = "else" => label.label_type \in {"If", "IfExcept"}
        /\ p.mode = "catch" => label.label_type = "Try"
    BY <1>3 DEF AgreesWaiting
  <2>2. k \in 1 .. m /\ SameLabel(t.labels[k], label)
    BY <1>1, <2>1 DEF Inside
  <2>3. Heights(t, p, k)
    <3>1. \A i \in 1 .. k : /\ i \in 1 .. n
                            /\ p.heights[i] = st.labels[i].type_stack_limit
      BY <1>1, <2>1 DEF Heights
    <3> QED  BY <2>1, <3>1 DEF Heights, Inside, SameLabel
  <2>4. Reachable(t, k - 1)
    <3>1. \A i \in 1 .. k - 1 : i \in 1 .. n /\ i # n
      BY <1>1, <2>1
    <3> QED  BY <2>1, <3>1 DEF Reachable, Inside
  <2>5. SubSeq(t.types, 1, limit) = SubSeq(st.types, 1, limit)
    <3>1. /\ limit \in Nat /\ limit <= TopLabel(st).type_stack_limit
          /\ TopLabel(st).type_stack_limit \in Nat
          /\ limit <= Len(st.types)
      <4>1. TopLabel(st) = st.labels[n] /\ n \in k .. n /\ k \in k .. n
            /\ TopLabel(st).type_stack_limit \in Nat
        BY <1>1, <2>1, TopFacts
      <4> QED  BY <2>1, <4>1, LimitsOrdered
    <3>2. limit <= Len(t.types)
      <4>1. k \in k .. m
        BY <2>2
      <4>2. t.labels[k].type_stack_limit <= Len(t.types)
        BY <1>1, <2>2, <4>1, LimitsOrdered
      <4> QED  BY <2>2, <4>2 DEF SameLabel
    <3>3. \A i \in 1 .. limit : t.types[i] = st.types[i]
      BY <3>1 DEF Inside
    <3>4. st.types \in Seq(Type) /\ t.types \in Seq(Type)
      BY <1>1, TopFacts
    <3> HIDE DEF limit
    <3> QED  BY <3>1, <3>2, <3>3, <3>4, SamePrefix
  <2>6. Awaited(p.mode, t.labels[k]) = Awaited(p.mode, label)
    BY <2>2 DEF Awaited, SameLabel
  <2> QED  BY <2>1, <2>2, <2>3, <2>4, <2>5, <2>6 DEF AgreesWaiting, SameLabel
<1> QED  BY <1>2, <1>3 DEF Agrees

(* An execution is live, and agrees with the checker.                       *)
Ready == Open(St) /\ WellLabelled(St) /\ Agrees(St, path) /\ Live

(* What an execution that is ready knows.                                   *)
LEMMA ReadyFacts ==
    ASSUME Ready
    PROVE  /\ St.types = type_stack /\ St.labels = label_stack
           /\ Labels = Len(St.labels) /\ Labels \in Nat \ {0} /\ ~St.said
           /\ St \in Checker /\ St.types \in Seq(Operand)
           /\ path \in Path /\ path.stack = St.types
           /\ Heights(St, path, Labels) /\ Reachable(St, Labels)
           /\ TopLabel(St) = St.labels[Labels] /\ ~TopLabel(St).unreachable
<1>1. /\ St.types = type_stack /\ St.labels = label_stack
      /\ Labels = Len(St.labels) /\ ~St.said /\ St \in Checker
  BY DEF Ready, St, Begin, Labels, Open, Nested
<1>2. /\ path \in Path /\ path.stack = St.types
      /\ Heights(St, path, Labels) /\ Reachable(St, Labels)
  BY <1>1 DEF Ready, Agrees, AgreesLive, Live
<1>3. path.stack \in Seq(Operand)
  BY <1>2 DEF Path
<1>4. TopLabel(St) = St.labels[Labels] /\ Labels \in Nat \ {0}
  BY <1>1, TopFacts DEF Ready
<1>5. ~St.labels[Labels].unreachable
  BY <1>2, <1>4 DEF Reachable
<1> QED  BY <1>1, <1>2, <1>3, <1>4, <1>5

(* What is left to show of an instruction.                                  *)
LEMMA Settles ==
    ASSUME NEW t, t \in Checker, Visit(t), NEW p, Execute(p),
           ~t.said => WellLabelled(t) /\ Agrees(t, p)
    PROVE  SoundInv'
<1> SUFFICES ASSUME result_' PROVE WellLabelled(St') /\ Agrees(St', path')
  BY DEF SoundInv
<1>1. WellLabelled(t) /\ Agrees(t, p) /\ path' = p
  BY DEF Visit, Execute
<1>2. St'.types = t.types /\ St'.labels = t.labels
  BY DEF Visit, St, Begin
<1>3. WellLabelled(St')
  BY <1>1, <1>2 DEF WellLabelled
<1>4. Agrees(St', p)
  BY <1>1, <1>2
  DEF Agrees, AgreesLive, AgreesWaiting, Heights, Reachable
<1> QED  BY <1>1, <1>3, <1>4

(* Who has left agrees with every checker.                                  *)
LEMMA GoneAgrees == \A t : Agrees(t, Gone)
BY DEF Agrees, Gone, Path

(* Operands are popped and others pushed.                                   *)
LEMMA CallAccepted ==
    ASSUME NEW st, Open(st), ~TopLabel(st).unreachable,
           st.types \in Seq(Operand), NEW sig \in Seq(Operand),
           NEW types \in Seq(Operand),
           ~PopAndCheckCall(st, sig, types).said
    PROVE  LET t == PopAndCheckCall(st, sig, types)
           IN  /\ EndsWith(st.types, sig) /\ ~st.said /\ Keeps(st, t)
               /\ t.types = Minus(st.types, sig) \o types
               /\ t.types \in Seq(Operand)
<1> DEFINE popped == PopAndCheckSignature(st, sig)
           t == PopAndCheckCall(st, sig, types)
<1>1. Keeps(st, t) /\ popped \in Checker
  BY SignatureKeeps, OperandTypes DEF Keeps, Open, Nested
<1>2. t = PushTypes(popped, types)
  BY DEF PopAndCheckCall
<1>3. ~popped.said
  <2> HIDE DEF popped
  <2> QED  BY <1>1, <1>2, SaidSame
<1>4. /\ EndsWith(st.types, sig) /\ ~st.said
      /\ popped.types = Minus(st.types, sig) /\ popped.types \in Seq(Operand)
  BY <1>3, AcceptsOpen
<1> HIDE DEF popped
<1>5. t.types = popped.types \o types
  BY <1>1, <1>2 DEF PushTypes, Checker
<1> HIDE DEF t
<1>6. t.types \in Seq(Operand)
  BY <1>4, <1>5, ConcatProperties
<1> QED  BY <1>1, <1>4, <1>5, <1>6 DEF t

(* A live execution that has other operands than before.                    *)
LEMMA LiveTypes ==
    ASSUME Ready, NEW t, Keeps(St, t), t.types \in Seq(Operand)
    PROVE  WellLabelled(t) /\ Agrees(t, Moved("live", t.types))
<1> DEFINE p == Moved("live", t.types)
<1>1. t.labels = St.labels /\ Labels = Len(t.labels)
  BY ReadyFacts DEF Keeps
<1>2. WellLabelled(t)
  BY <1>1 DEF WellLabelled, Ready
<1>3. /\ p \in Path /\ p.stack = t.types /\ p.mode = "live"
      /\ p.heights = path.heights
  BY ReadyFacts DEF Moved, Path
<1> HIDE DEF p
<1>4. AgreesLive(t, p)
  BY <1>1, <1>3, ReadyFacts DEF AgreesLive, Heights, Reachable
<1>5. Agrees(t, p)
  BY <1>3, <1>4 DEF Agrees
<1> QED  BY <1>2, <1>5 DEF p

(* The same after it took operands and pushed others.                       *)
LEMMA LiveFalls ==
    ASSUME Ready, NEW t, Keeps(St, t), t.types \in Seq(Operand),
           NEW sig, NEW types, EndsWith(St.types, sig),
           t.types = Minus(St.types, sig) \o types
    PROVE  /\ WellLabelled(t) /\ Agrees(t, Falls(sig, types))
           /\ Falls(sig, types) = Moved("live", t.types)
<1>1. Falls(sig, types) = Moved("live", t.types)
  BY ReadyFacts DEF Falls, Takes, Popped, Ready
<1> QED  BY <1>1, LiveTypes

(* PushType pushes at most one type.                                        *)
LEMMA PushTypeIs ==
    ASSUME NEW st, st \in Checker, st.types \in Seq(Operand),
           NEW type \in Operand \cup {Void}
    PROVE  PushType(st, type) =
              PushTypes(st, IF type = Void THEN <<>> ELSE <<type>>)
<1>1. CASE type = Void
  <2>1. st.types \o <<>> = st.types
    BY ConcatEmptySeq
  <2>2. [st EXCEPT !.types = st.types] = st
    BY DEF Checker
  <2> QED  BY <1>1, <2>1, <2>2 DEF PushType, PushTypes
<1>2. CASE type # Void
  <2>1. Append(st.types, type) = st.types \o <<type>>
    BY <1>2, AppendIsConcat
  <2> QED  BY <1>2, <2>1 DEF PushType, PushTypes
<1> QED  BY <1>1, <1>2

(* The same for an opcode.                                                  *)
LEMMA OpcodeAccepted ==
    ASSUME NEW o \in Opcodes, NEW st, Open(st), ~TopLabel(st).unreachable,
           st.types \in Seq(Operand), ~CheckOpcode(st, o).said
    PROVE  LET types == IF o.result = Void THEN <<>> ELSE <<o.result>>
               t == CheckOpcode(st, o)
           IN  /\ EndsWith(st.types, o.params) /\ ~st.said /\ Keeps(st, t)
               /\ t.types = Minus(st.types, o.params) \o types
               /\ t.types \in Seq(Operand)
<1> DEFINE types == IF o.result = Void THEN <<>> ELSE <<o.result>>
           popped == PopAndCheckSignature(st, o.params)
<1>1. /\ o.params \in Seq(Operand) /\ o.params \in Seq(Type)
      /\ o.result \in Operand \cup {Void}
  BY SignatureTypes
<1>2. types \in Seq(Operand)
  BY <1>1
<1>3. popped \in Checker
  BY <1>1, SignatureKeeps DEF Keeps, Open, Nested
<1>4. popped.types \in Seq(Operand)
  <2>1. CheckOpcode(st, o) = PushType(popped, o.result)
    BY DEF CheckOpcode
  <2>2. ~popped.said
    <3> HIDE DEF popped
    <3> QED  BY <1>3, <2>1, SaidSame
  <2> QED  BY <1>1, <2>2, AcceptsOpen
<1>5. CheckOpcode(st, o) = PopAndCheckCall(st, o.params, types)
  <2> HIDE DEF popped
  <2>1. PushType(popped, o.result) = PushTypes(popped, types)
    BY <1>1, <1>3, <1>4, PushTypeIs
  <2> QED  BY <2>1 DEF CheckOpcode, PopAndCheckCall, popped
<1> HIDE DEF types
<1>6. LET t == PopAndCheckCall(st, o.params, types)
      IN  /\ EndsWith(st.types, o.params) /\ ~st.said /\ Keeps(st, t)
          /\ t.types = Minus(st.types, o.params) \o types
          /\ t.types \in Seq(Operand)
  BY <1>1, <1>2, <1>5, CallAccepted
<1> QED  BY <1>5, <1>6 DEF types

(* Where nothing was printed, the signature matched, and nothing had been   *)
(* printed before.                                                          *)
LEMMA SaidBefore ==
    ASSUME NEW st, Open(st), NEW sig \in Seq(Type), NEW types
    PROVE  /\ ~PopAndCheckSignature(st, sig).said =>
                 ~st.said /\ SignatureMatches(st, sig)
           /\ ~PopAndCheckCall(st, sig, types).said =>
                 ~PopAndCheckSignature(st, sig).said
<1> DEFINE checked == CheckSignature(st, sig)
           popped == PopAndCheckSignature(st, sig)
<1>1. st \in Checker /\ checked \in Checker /\ popped \in Checker
  BY SignatureKeeps DEF Keeps, Open, Nested
<1>2. ~checked.said => ~st.said /\ SignatureMatches(st, sig)
  BY <1>1, NotSaid DEF CheckSignature
<1>3. popped.said = checked.said
  <2>1. popped = DropTypes(checked, Len(sig))
    BY DEF PopAndCheckSignature
  <2> HIDE DEF checked, popped
  <2> QED  BY <1>1, <2>1, SaidSame
<1>4. PopAndCheckCall(st, sig, types).said = popped.said
  <2>1. PopAndCheckCall(st, sig, types) = PushTypes(popped, types)
    BY DEF PopAndCheckCall
  <2> HIDE DEF popped
  <2> QED  BY <1>1, <2>1, SaidSame
<1> QED  BY <1>2, <1>3, <1>4

(* A live execution at an opcode or a call has the operands it needs.       *)
LEMMA LiveOperands ==
    ASSUME Ready,
           \/ \E o \in Opcodes : OpcodeInstr(o)
           \/ \E f \in FuncTypes : CallInstr(f) \/ CallIndirectInstr(f)
           \/ \E o \in LaneOpcodes, in_range \in BOOLEAN :
                 LaneInstr(o, in_range)
    PROVE  SoundInv'
<1>0. /\ Open(St) /\ St \in Checker /\ ~TopLabel(St).unreachable
      /\ St.types \in Seq(Operand)
  BY ReadyFacts DEF Ready
<1>1. ASSUME NEW o \in Opcodes, ~CheckOpcode(St, o).said
      PROVE  /\ WellLabelled(CheckOpcode(St, o))
             /\ Agrees(CheckOpcode(St, o),
                       Falls(o.params, IF o.result = Void THEN <<>>
                                       ELSE <<o.result>>))
  <2> DEFINE types == IF o.result = Void THEN <<>> ELSE <<o.result>>
             t == CheckOpcode(St, o)
  <2>1. /\ EndsWith(St.types, o.params) /\ Keeps(St, t)
        /\ t.types = Minus(St.types, o.params) \o types
        /\ t.types \in Seq(Operand)
    BY <1>0, <1>1, OpcodeAccepted
  <2> HIDE DEF types, t
  <2>2. WellLabelled(t) /\ Agrees(t, Falls(o.params, types))
    BY <2>1, LiveFalls
  <2> QED  BY <2>2 DEF types, t
<1>2. ASSUME NEW o \in Opcodes, OpcodeInstr(o) PROVE SoundInv'
  <2>1. CheckOpcode(St, o) \in Checker
    BY <1>0, SignatureTypes, SignatureKeeps
    DEF CheckOpcode, Keeps, Open, Nested
  <2> QED  BY <1>1, <1>2, <2>1, Settles DEF OpcodeInstr
<1>3. ASSUME NEW f \in FuncTypes, CallInstr(f) PROVE SoundInv'
  <2> DEFINE t == PopAndCheckCall(St, f.params, f.results)
  <2>1. /\ f.params \in Seq(Operand) /\ f.results \in Seq(Operand)
        /\ f.params \in Seq(Type) /\ f.results \in Seq(Type)
    BY SignatureTypes
  <2>2. t \in Checker
    BY <1>0, <2>1, SignatureKeeps DEF Keeps, Open, Nested
  <2>3. ASSUME ~t.said
        PROVE  WellLabelled(t) /\ Agrees(t, Falls(f.params, f.results))
    <3>1. /\ EndsWith(St.types, f.params) /\ Keeps(St, t)
          /\ t.types = Minus(St.types, f.params) \o f.results
          /\ t.types \in Seq(Operand)
      BY <1>0, <2>1, <2>3, CallAccepted
    <3> HIDE DEF t
    <3> QED  BY <3>1, LiveFalls
  <2>4. Visit(t) /\ Execute(Falls(f.params, f.results))
    BY <1>3 DEF CallInstr
  <2> HIDE DEF t
  <2> QED  BY <2>2, <2>3, <2>4, Settles
<1>4. ASSUME NEW f \in FuncTypes, CallIndirectInstr(f) PROVE SoundInv'
  <2> DEFINE popped == PopAndCheckSignature(St, <<I32>>)
             t == PopAndCheckCall(popped, f.params, f.results)
             sig == f.params \o <<I32>>
  <2>1. /\ f.params \in Seq(Operand) /\ f.results \in Seq(Operand)
        /\ f.params \in Seq(Type) /\ f.results \in Seq(Type)
    BY SignatureTypes
  <2>2. Keeps(St, popped) /\ Open(popped) /\ popped \in Checker
    BY <1>0, SignatureKeeps, SingleTypes DEF Keeps, Open, Nested
  <2>3. t \in Checker /\ Keeps(popped, t)
    <3> HIDE DEF popped
    <3>1. Keeps(popped, t)
      BY <2>1, <2>2, SignatureKeeps
    <3> HIDE DEF t
    <3> QED  BY <3>1 DEF Keeps, Open, Nested
  <2>4. ASSUME ~t.said
        PROVE  WellLabelled(t) /\ Agrees(t, Falls(sig, f.results))
    <3>1. ~popped.said
      <4> HIDE DEF popped
      <4> QED  BY <2>1, <2>2, <2>4, SaidBefore
    <3>2. /\ EndsWith(St.types, <<I32>>)
          /\ popped.types = Minus(St.types, <<I32>>)
          /\ popped.types \in Seq(Operand) /\ TopLabel(popped) = TopLabel(St)
      BY <1>0, <3>1, AcceptsOpen, SingleTypes
    <3> HIDE DEF popped
    <3>3. /\ EndsWith(popped.types, f.params)
          /\ t.types = Minus(popped.types, f.params) \o f.results
          /\ t.types \in Seq(Operand)
      BY <1>0, <2>1, <2>2, <2>4, <3>2, CallAccepted
    <3>4. /\ EndsWith(St.types, sig)
          /\ Minus(St.types, sig) = Minus(popped.types, f.params)
      <4> DEFINE one == <<I32>>
                 below == Minus(St.types, one)
      <4>1. /\ one \in Seq(Operand) /\ EndsWith(St.types, one)
            /\ EndsWith(below, f.params) /\ popped.types = below
        BY <3>2, <3>3, SingleTypes
      <4> HIDE DEF one
      <4>2. /\ EndsWith(St.types, f.params \o one)
            /\ Minus(St.types, f.params \o one) = Minus(below, f.params)
        BY <1>0, <2>1, <4>1, EndsWithBoth
      <4> QED  BY <4>1, <4>2 DEF one
    <3>5. Keeps(St, t)
      BY <2>2, <2>3, KeepsTransitive
    <3> HIDE DEF t, sig
    <3> QED  BY <3>3, <3>4, <3>5, LiveFalls
  <2>5. Visit(t) /\ Execute(Falls(sig, f.results))
    BY <1>4 DEF CallIndirectInstr, OnCallIndirect
  <2> HIDE DEF t, sig
  <2> QED  BY <2>3, <2>4, <2>5, Settles
<1>5. ASSUME NEW o \in LaneOpcodes, NEW in_range \in BOOLEAN,
             LaneInstr(o, in_range)
      PROVE  SoundInv'
  <2> DEFINE t == OnSimdLaneOp(St, o, in_range)
  <2>1. o \in Opcodes /\ o.result # Void
    BY DEF LaneOpcodes
  <2>2. ASSUME NEW st, Open(st)
        PROVE  CheckOpcode(st, o) \in Checker
    BY <2>1, <2>2, SignatureTypes, SignatureKeeps
    DEF CheckOpcode, Keeps, Open, Nested
  <2>3. Open(PrintError(St)) /\ PrintError(St).said
        /\ TopLabel(PrintError(St)) = TopLabel(St)
        /\ PrintError(St).types = St.types
    BY <1>0, ErrorKeeps DEF Keeps, PrintError, Checker, TopLabel
  <2>4. t \in Checker
    BY <1>0, <2>2, <2>3 DEF OnSimdLaneOp
  <2>5. ASSUME ~t.said
        PROVE  WellLabelled(t) /\ Agrees(t, Falls(o.params, <<o.result>>))
    <3>1. CASE in_range
      BY <1>1, <2>1, <2>5, <3>1 DEF OnSimdLaneOp
    <3>2. CASE ~in_range
      <4>1. t = CheckOpcode(PrintError(St), o)
        BY <3>2 DEF OnSimdLaneOp
      <4>2. ~PrintError(St).said
        BY <1>0, <2>1, <2>3, <2>5, <4>1, OpcodeAccepted
      <4> QED  BY <2>3, <4>2
    <3> QED  BY <3>1, <3>2
  <2>6. Visit(t) /\ Execute(Falls(o.params, <<o.result>>))
    BY <1>5 DEF LaneInstr
  <2> HIDE DEF t
  <2> QED  BY <2>4, <2>5, <2>6, Settles
<1> QED  BY <1>2, <1>3, <1>4, <1>5

(* A drop and a select.                                                     *)
LEMMA LiveDrop ==
    ASSUME Ready, DropInstr PROVE SoundInv'
<1> DEFINE dropped == DropTypes(St, 1)
           t == OnDrop(St)
           n == TopLabel(St).type_stack_limit
           L == Len(St.types)
<1>0. /\ Open(St) /\ St \in Checker /\ TopLabel(St).unreachable = FALSE
      /\ St.types \in Seq(Operand) /\ path.stack = St.types
      /\ n \in Nat /\ L \in Nat /\ n <= L
  <2>1. TopLabel(St).unreachable \in BOOLEAN
    BY TopFacts DEF Ready, Label
  <2> QED  BY <2>1, ReadyFacts, TopFacts DEF Ready
<1>1. Keeps(St, t) /\ t \in Checker
  BY <1>0, OtherInside, SingleTypes DEF Keeps, Open, Nested
<1>2. Keeps(St, dropped) /\ dropped \in Checker
  BY <1>0, DropKeeps DEF Keeps, Open, Nested
<1>3. t = IF dropped.ok THEN dropped ELSE PrintError(dropped)
  BY DEF OnDrop
<1>4. ASSUME ~t.said
      PROVE  /\ path.stack # <<>> /\ t.types = Front(path.stack)
             /\ t.types \in Seq(Operand)
  <2>1. dropped.ok
    <3> HIDE DEF dropped
    <3> QED  BY <1>2, <1>3, <1>4 DEF PrintError, Checker
  <2>2. ~(n + 1 > L)
    <3>1. CASE n + 1 > L
      <4> DEFINE r == ResetTypeStackToLabel(St, TopLabel(St))
      <4>1. r \in Checker
        BY <1>0, ResetKeeps DEF Keeps, Open, Nested
      <4>2. dropped = [r EXCEPT !.ok = r.ok /\ TopLabel(St).unreachable]
        BY <3>1 DEF DropTypes
      <4> HIDE DEF r
      <4>3. dropped.ok = (r.ok /\ TopLabel(St).unreachable)
        BY <4>1, <4>2 DEF Checker
      <4> QED  BY <1>0, <2>1, <4>3
    <3> QED  BY <3>1
  <2>3. dropped = [St EXCEPT !.types = SubSeq(St.types, 1, L - 1)]
    BY <2>2 DEF DropTypes
  <2>4. t.types = SubSeq(St.types, 1, L - 1)
    <3>1. dropped.types = SubSeq(St.types, 1, L - 1)
      BY <1>0, <2>3 DEF Checker
    <3> HIDE DEF dropped
    <3> QED  BY <1>3, <2>1, <3>1
  <2>5. L >= 1
    BY <1>0, <2>2
  <2>6. path.stack # <<>>
    BY <1>0, <2>5, EmptySeq
  <2>7. SubSeq(St.types, 1, L - 1) \in Seq(Operand)
    <3>1. \A i \in 1 .. L - 1 : St.types[i] \in Operand
      BY <1>0, ElementOfSeq
    <3> QED  BY <1>0, <3>1, SubSeqProperties
  <2> QED  BY <1>0, <2>4, <2>6, <2>7 DEF Front
<1> HIDE DEF t
<1>5. ASSUME ~t.said
      PROVE  WellLabelled(t) /\ Agrees(t, Moved("live", Front(path.stack)))
  BY <1>1, <1>4, <1>5, LiveTypes
<1>6. Visit(t)
  BY DEF DropInstr, t
<1>7. ASSUME ~t.said PROVE Execute(Moved("live", Front(path.stack)))
  BY <1>4, <1>7 DEF DropInstr, Ready
<1>8. CASE ~t.said
  BY <1>1, <1>5, <1>6, <1>7, <1>8, Settles
<1>9. CASE t.said
  BY <1>6, <1>9 DEF Visit, SoundInv
<1> QED  BY <1>8, <1>9

(* A live execution at a select.                                            *)
LEMMA LiveSelect ==
    ASSUME Ready, SelectInstr PROVE SoundInv'
<1> DEFINE type == PeekType(St, 1)
           failed == \/ ~PeekAndCheckType(St, 0, I32) \/ ~PeekOk(St, 1)
                     \/ ~PeekAndCheckType(St, 2, type)
           checked == ErrorIf(St, failed)
           dropped == DropTypes(checked, 3)
           t == OnSelect(St)
           n == TopLabel(St).type_stack_limit
           L == Len(St.types)
           sig == <<type, type, I32>>
           found == IF Len(path.stack) > 1
                    THEN path.stack[Len(path.stack) - 1] ELSE I32
<1>0. /\ Open(St) /\ St \in Checker /\ ~TopLabel(St).unreachable
      /\ St.types \in Seq(Operand) /\ path.stack = St.types
      /\ n \in Nat /\ L \in Nat /\ n <= L
  BY ReadyFacts, TopFacts DEF Ready
<1>1. Keeps(St, t) /\ t \in Checker
  BY <1>0, SelectKeeps DEF Keeps, Open, Nested
<1>2. t = PushType(dropped, type)
  BY DEF OnSelect
<1>3. ASSUME ~t.said
      PROVE  /\ WellLabelled(t)
             /\ Agrees(t, Falls(<<found, found, I32>>, <<found>>))
  <2>1. dropped \in Checker /\ checked \in Checker
    <3>1. Open(checked)
      BY <1>0, ErrorKeeps DEF Keeps
    <3> HIDE DEF checked
    <3> QED  BY <3>1, DropKeeps DEF Keeps, Open, Nested
  <2>2. ~checked.said
    <3>1. t.said = dropped.said
      <4> HIDE DEF dropped, type, t
      <4> QED  BY <1>2, <2>1, SaidSame
    <3> HIDE DEF checked, t
    <3> QED  BY <1>3, <2>1, <3>1, SaidSame
  <2>3. checked = St /\ ~failed
    <3> HIDE DEF failed
    <3> QED  BY <1>0, <2>2, NotSaid
  <2>4. n + 2 < L
    BY <1>0, <2>3 DEF PeekAndCheckType, PeekOk, Visible
  <2>5. /\ Visible(St, 0) /\ Visible(St, 1) /\ Visible(St, 2)
        /\ L - 1 \in 1 .. L /\ L - 2 \in 1 .. L /\ L \in 1 .. L /\ L - 0 = L
    BY <1>0, <2>4 DEF Visible
  <2>6. /\ type = St.types[L - 1] /\ type \in Operand
    BY <1>0, <2>5, ElementOfSeq DEF PeekType
  <2>7. CheckType(St.types[L], I32) /\ CheckType(St.types[L - 2], type)
    BY <2>3, <2>5 DEF PeekAndCheckType, PeekType
  <2>8. /\ St.types[L] \in Operand /\ St.types[L - 2] \in Operand
        /\ I32 \in Operand
    BY <1>0, <2>5, ElementOfSeq, SingleTypes
  <2>9. St.types[L] = I32 /\ St.types[L - 2] = type
    BY <2>6, <2>7, <2>8, OperandTypes DEF CheckType
  <2> HIDE DEF type
  <2>10. sig \in Seq(Operand) /\ Len(sig) = 3 /\ <<type>> \in Seq(Operand)
    BY <2>6, <2>8
  <2>11. EndsWith(St.types, sig)
    <3>1. \A i \in 1 .. 3 : St.types[L - 3 + i] = sig[i]
      <4>1. L - 3 + 1 = L - 2 /\ L - 3 + 2 = L - 1 /\ L - 3 + 3 = L
        BY <1>0
      <4>2. sig[1] = type /\ sig[2] = type /\ sig[3] = I32
        OBVIOUS
      <4>3. \A i \in 1 .. 3 : i = 1 \/ i = 2 \/ i = 3
        OBVIOUS
      <4> HIDE DEF sig
      <4> QED  BY <2>6, <2>9, <4>1, <4>2, <4>3
    <3>2. 3 <= L
      BY <1>0, <2>4
    <3> HIDE DEF sig
    <3> QED  BY <1>0, <2>10, <3>1, <3>2, EndsWithIntro
  <2>12. dropped.types = Minus(St.types, sig)
    <3>1. ~(n + 3 > L)
      BY <1>0, <2>4
    <3>2. dropped = [St EXCEPT !.types = SubSeq(St.types, 1, L - 3)]
      BY <2>3, <3>1 DEF DropTypes
    <3> QED  BY <1>0, <2>10, <3>2 DEF Minus, Checker
  <2>13. Minus(St.types, sig) \in Seq(Operand)
    <3> HIDE DEF sig
    <3> QED  BY <1>0, <2>10, <2>11, EndsWithFacts
  <2>14. t.types = Minus(St.types, sig) \o <<type>>
    <3>1. type # Void
      BY <2>6, TypesAssumption DEF Operand
    <3>2. t = PushTypes(dropped, <<type>>)
      <4> HIDE DEF dropped, t, sig
      <4> QED  BY <1>2, <2>1, <2>6, <2>12, <2>13, <3>1, PushTypeIs
    <3> HIDE DEF dropped, t, sig
    <3> QED  BY <2>1, <2>12, <3>2 DEF PushTypes, Checker
  <2>15. t.types \in Seq(Operand)
    <3> HIDE DEF sig
    <3> QED  BY <2>10, <2>13, <2>14, ConcatProperties
  <2>16. found = type
    BY <1>0, <2>4, <2>6
  <2>17. WellLabelled(t) /\ Agrees(t, Falls(sig, <<type>>))
    <3> HIDE DEF t, sig
    <3> QED  BY <1>1, <2>11, <2>14, <2>15, LiveFalls
  <2> QED  BY <2>16, <2>17
<1>4. Visit(t) /\ Execute(Falls(<<found, found, I32>>, <<found>>))
  BY DEF SelectInstr
<1> HIDE DEF t, found
<1> QED  BY <1>1, <1>3, <1>4, Settles

(* Other operands for an execution that is live at another state.           *)
LEMMA LiveOthers ==
    ASSUME NEW st, NEW p, WellLabelled(st), Agrees(st, p), p.mode = "live",
           NEW t, Keeps(st, t), t.types \in Seq(Operand)
    PROVE  WellLabelled(t) /\ Agrees(t, [p EXCEPT !.stack = t.types])
<1> DEFINE q == [p EXCEPT !.stack = t.types]
<1>1. t.labels = st.labels /\ p \in Path /\ AgreesLive(st, p)
  BY DEF Keeps, Agrees
<1>2. WellLabelled(t)
  BY <1>1 DEF WellLabelled
<1>3. /\ q \in Path /\ q.stack = t.types /\ q.mode = "live"
      /\ q.heights = p.heights
  BY <1>1 DEF Path
<1> HIDE DEF q
<1>4. AgreesLive(t, q)
  BY <1>1, <1>3 DEF AgreesLive, Heights, Reachable
<1>5. Agrees(t, q)
  BY <1>3, <1>4 DEF Agrees
<1> QED  BY <1>2, <1>5 DEF q

(* A live execution enters a block, or goes to its else: its operands are   *)
(* the same, and the height of the new label is below the parameters.       *)
LEMMA LiveEnters ==
    ASSUME Ready, NEW st, Keeps(St, st), st.types \in Seq(Operand),
           NEW l \in LabelType, NEW ps \in Seq(Operand), ps \in Params,
           NEW rs \in Seq(Operand), ~OnBlock(st, l, ps, rs).said
    PROVE  LET t == OnBlock(st, l, ps, rs)
               e == Enters(Moved("live", st.types), ps)
           IN  /\ EndsWith(st.types, ps) /\ ~st.said /\ t.types = st.types
               /\ WellLabelled(t) /\ Agrees(t, e) /\ e.mode = "live"
               /\ e.stack = st.types
               /\ l \in {"If", "IfExcept"} =>
                     Agrees(t, [e EXCEPT !.mode = "else",
                                         !.target = Labels + 1])
<1> DEFINE popped == PopAndCheckSignature(st, ps)
           entered == PushLabel(popped, l, ps, rs)
           t == OnBlock(st, l, ps, rs)
           q == Moved("live", st.types)
           e == Enters(q, ps)
           w == [e EXCEPT !.mode = "else", !.target = Labels + 1]
           h == Len(st.types) - Len(ps)
<1>1. /\ Open(st) /\ st.labels = St.labels /\ TopLabel(st) = TopLabel(St)
      /\ ~TopLabel(st).unreachable /\ st \in Checker
  BY ReadyFacts DEF Keeps, TopLabel, Open, Nested
<1>2. t = PushTypes(entered, ps)
  BY DEF OnBlock
<1>3. Keeps(st, popped) /\ Open(popped) /\ popped \in Checker
  BY <1>1, SignatureKeeps, OperandTypes DEF Keeps, Open, Nested
<1>4. /\ Inside(popped, entered) /\ Open(entered)
      /\ entered.types = popped.types
      /\ Len(entered.labels) = Len(popped.labels) + 1
      /\ entered.labels[Len(popped.labels) + 1].type_stack_limit
            = Len(popped.types)
      /\ entered.labels[Len(popped.labels) + 1].label_type = l
      /\ entered.labels[Len(popped.labels) + 1].param_types = ps
      /\ ~entered.labels[Len(popped.labels) + 1].unreachable
      /\ \A i \in 1 .. Len(popped.labels) :
            entered.labels[i] = popped.labels[i]
  <2> HIDE DEF popped
  <2>1. entered = PushLabel(popped, l, ps, rs)
    OBVIOUS
  <2> HIDE DEF entered
  <2>2. Open(popped)
    BY <1>3
  <2>3. /\ Inside(popped, entered) /\ Open(entered)
        /\ entered.types = popped.types
        /\ Len(entered.labels) = Len(popped.labels) + 1
    BY <2>1, <2>2, PushLabelInside
  <2>4. LET label == entered.labels[Len(popped.labels) + 1]
        IN  /\ label.type_stack_limit = Len(popped.types)
            /\ label.label_type = l /\ label.param_types = ps
            /\ ~label.unreachable
    BY <2>1, <2>2, PushLabelInside
  <2>5. \A i \in 1 .. Len(popped.labels) :
           entered.labels[i] = popped.labels[i]
    BY <2>1, <2>2, PushLabelInside
  <2> QED  BY <2>3, <2>4, <2>5
<1>5. ~popped.said
  <2>1. entered \in Checker /\ entered.said = popped.said
    <3> HIDE DEF popped
    <3> QED  BY <1>3, <1>4 DEF PushLabel, Open, Nested, Checker
  <2> HIDE DEF entered
  <2> QED  BY <1>2, <2>1, SaidSame
<1>6. /\ EndsWith(st.types, ps) /\ ~st.said
      /\ popped.types = Minus(st.types, ps)
  BY <1>1, <1>5, AcceptsOpen
<1>7. /\ Minus(st.types, ps) \o ps = st.types /\ Len(ps) <= Len(st.types)
      /\ Len(Minus(st.types, ps)) = h
      /\ Minus(st.types, ps) \in Seq(Operand)
      /\ \A i \in 1 .. h : Minus(st.types, ps)[i] = st.types[i]
  BY <1>6, EndsWithFacts
<1>8. h \in Nat /\ Len(st.types) \in Nat /\ h <= Len(st.types)
  BY <1>7, LenProperties
<1> HIDE DEF popped, entered
<1>9. t.types = st.types /\ t.labels = entered.labels
  <2>1. t.types = popped.types \o ps /\ t.labels = entered.labels
    BY <1>2, <1>4 DEF PushTypes, Open, Nested, Checker
  <2> HIDE DEF t
  <2> QED  BY <1>6, <1>7, <2>1, Zenon
<1> HIDE DEF t, h
<1>10. popped.labels = St.labels /\ Labels = Len(St.labels)
       /\ Labels \in Nat \ {0}
  BY <1>1, <1>3, ReadyFacts DEF Keeps
<1>11. /\ Len(t.labels) = Labels + 1
       /\ t.labels[Labels + 1].type_stack_limit = h
       /\ t.labels[Labels + 1].label_type = l
       /\ t.labels[Labels + 1].param_types = ps
       /\ ~t.labels[Labels + 1].unreachable
       /\ \A i \in 1 .. Labels : t.labels[i] = St.labels[i]
  BY <1>4, <1>6, <1>7, <1>9, <1>10
<1>12. WellLabelled(t)
  <2>1. WellLabelled(popped)
    BY <1>10 DEF WellLabelled, Ready
  <2>2. WellLabelled(entered)
    BY <1>3, <1>4, <2>1, InsideAgrees
  <2> QED  BY <1>9, <2>2 DEF WellLabelled
<1>13. /\ q \in Path /\ q.mode = "live" /\ q.stack = st.types
       /\ q.heights = path.heights
  BY ReadyFacts DEF Moved, Path
<1> HIDE DEF q
<1>14. e = [q EXCEPT !.heights = Append(q.heights, h)]
  BY <1>13 DEF Enters, h
<1>15. /\ path.heights \in Seq(Nat) /\ Len(path.heights) = Labels
       /\ \A i \in 1 .. Labels :
             path.heights[i] = St.labels[i].type_stack_limit
  BY ReadyFacts DEF Heights, Path
<1> DEFINE hs == Append(path.heights, h)
<1>16. /\ hs \in Seq(Nat) /\ Len(hs) = Labels + 1 /\ hs[Labels + 1] = h
       /\ \A i \in 1 .. Labels : hs[i] = path.heights[i]
  BY <1>8, <1>15, AppendProperties
<1> HIDE DEF hs
<1>17. e \in Path /\ e.mode = "live" /\ e.stack = st.types /\ e.heights = hs
  BY <1>13, <1>14, <1>16 DEF Path, hs
<1> HIDE DEF e
<1>18. \A i \in 1 .. Labels + 1 : i \in 1 .. Labels \/ i = Labels + 1
  BY <1>10
<1>19. \A i \in 1 .. Labels + 1 : hs[i] = t.labels[i].type_stack_limit
  BY <1>11, <1>15, <1>16, <1>18
<1>20. \A i \in 1 .. Labels : ~t.labels[i].unreachable
  BY <1>10, <1>11, ReadyFacts DEF Reachable
<1>21. Agrees(t, e)
  <2>1. AgreesLive(t, e)
    BY <1>9, <1>11, <1>16, <1>17, <1>18, <1>19, <1>20
    DEF AgreesLive, Heights, Reachable
  <2> QED  BY <1>17, <2>1 DEF Agrees
<1>22. ASSUME l \in {"If", "IfExcept"} PROVE Agrees(t, w)
  <2>1. /\ w \in Path /\ w.mode = "else" /\ w.stack = st.types
        /\ w.heights = hs /\ w.target = Labels + 1
    <3> DEFINE k == Labels + 1
    <3>1. k \in Nat
      BY <1>10
    <3> HIDE DEF k
    <3>2. w = [e EXCEPT !.mode = "else", !.target = k]
      BY DEF k
    <3>3. w \in Path
      BY <1>17, <3>1, <3>2 DEF Path
    <3>4. /\ w.mode = "else" /\ w.stack = e.stack /\ w.heights = e.heights
          /\ w.target = k
      BY <1>17, <3>2 DEF Path
    <3> QED  BY <1>17, <3>3, <3>4 DEF k
  <2> HIDE DEF w
  <2>2. SubSeq(t.types, 1, h) = Minus(st.types, ps)
    BY <1>9 DEF Minus, h
  <2>3. SubSeq(t.types, 1, h) \o ps = st.types
    <3>1. Minus(st.types, ps) \o ps = st.types
      BY <1>7
    <3> QED  BY <2>2, <3>1, Zenon
  <2>4. Awaited(w.mode, t.labels[w.target]) = ps
    BY <1>11, <2>1 DEF Awaited
  <2>5. Heights(t, w, w.target)
    BY <1>16, <1>19, <2>1 DEF Heights
  <2>6. Reachable(t, w.target - 1)
    <3>1. w.target - 1 = Labels
      BY <1>10, <2>1
    <3> QED  BY <1>20, <3>1 DEF Reachable
  <2>7. w.target \in 1 .. Len(t.labels)
    BY <1>10, <1>11, <2>1
  <2>8. /\ t.labels[w.target].type_stack_limit = h
        /\ t.labels[w.target].label_type \in {"If", "IfExcept"}
    BY <1>11, <1>22, <2>1
  <2>9. w.stack = SubSeq(t.types, 1, h) \o Awaited(w.mode, t.labels[w.target])
    BY <2>1, <2>3, <2>4, Zenon
  <2>10. AgreesWaiting(t, w)
    BY <2>1, <2>5, <2>6, <2>7, <2>8, <2>9 DEF AgreesWaiting
  <2> QED  BY <2>1, <2>10 DEF Agrees
<1> QED  BY <1>6, <1>9, <1>12, <1>17, <1>21, <1>22 DEF t, e, q

(* What OnBlock has printed.                                                *)
LEMMA BlockSaid ==
    ASSUME NEW st, Open(st), NEW l \in LabelType, NEW ps \in Seq(Operand),
           ps \in Params, NEW rs \in Seq(Operand)
    PROVE  /\ OnBlock(st, l, ps, rs) \in Checker
           /\ st.said => OnBlock(st, l, ps, rs).said
<1> DEFINE popped == PopAndCheckSignature(st, ps)
           entered == PushLabel(popped, l, ps, rs)
           t == OnBlock(st, l, ps, rs)
<1>1. Inside(st, t)
  BY BlockInside
<1>2. t \in Checker
  <2> HIDE DEF t
  <2> QED  BY <1>1 DEF Inside, Open, Nested
<1>3. /\ popped \in Checker /\ Open(popped) /\ (st.said => popped.said)
  BY SaidBefore, SignatureKeeps, OperandTypes DEF Keeps, Open, Nested
<1>4. t = PushTypes(entered, ps)
  BY DEF OnBlock
<1> HIDE DEF popped
<1>5. entered \in Checker /\ entered.said = popped.said
  <2>1. Open(entered)
    BY <1>3, PushLabelInside
  <2> QED  BY <1>3, <2>1 DEF PushLabel, Open, Nested, Checker
<1> HIDE DEF entered
<1>6. t.said = entered.said
  BY <1>4, <1>5, SaidSame
<1> QED  BY <1>2, <1>3, <1>5, <1>6

(* A live execution at a block, a loop or a try.                            *)
LEMMA LiveBlock ==
    ASSUME Ready, NEW b \in BlockTypes, NEW l \in {"Block", "Loop", "Try"},
           BlockInstr(l, b)
    PROVE  SoundInv'
<1> DEFINE t == OnBlock(St, l, b.params, b.results)
           e == Enters(Falls(b.params, b.params), b.params)
<1>1. /\ Open(St) /\ St.types \in Seq(Operand) /\ l \in LabelType
      /\ b.params \in Seq(Operand) /\ b.results \in Seq(Operand)
      /\ b.params \in Params /\ Keeps(St, St)
  BY ReadyFacts, SignatureTypes DEF Ready, LabelType, Keeps
<1>2. t \in Checker
  BY <1>1, BlockSaid
<1>3. ASSUME ~t.said PROVE WellLabelled(t) /\ Agrees(t, e)
  <2>1. /\ EndsWith(St.types, b.params) /\ WellLabelled(t)
        /\ Agrees(t, Enters(Moved("live", St.types), b.params))
    BY <1>1, <1>3, LiveEnters
  <2>2. Minus(St.types, b.params) \o b.params = St.types
    BY <1>1, <2>1, EndsWithFacts
  <2>3. Falls(b.params, b.params) = Moved("live", St.types)
    BY <1>1, <2>1, <2>2, LiveFalls
  <2> QED  BY <2>1, <2>3
<1>4. Visit(t) /\ Execute(e)
  BY DEF BlockInstr
<1> HIDE DEF t, e
<1> QED  BY <1>2, <1>3, <1>4, Settles

(* The condition of an if is popped, then the parameters.                   *)
LEMMA LiveCondition ==
    ASSUME Ready, NEW type \in Operand, NEW l \in LabelType,
           NEW ps \in Seq(Operand), ps \in Params, NEW rs \in Seq(Operand),
           ~OnBlock(PopAndCheckSignature(St, <<type>>), l, ps, rs).said
    PROVE  LET st == PopAndCheckSignature(St, <<type>>)
           IN  /\ Keeps(St, st) /\ st.types \in Seq(Operand)
               /\ Falls(ps \o <<type>>, ps) = Moved("live", st.types)
<1> DEFINE one == <<type>>
           st == PopAndCheckSignature(St, one)
           below == Minus(St.types, one)
<1>1. /\ Open(St) /\ St.types \in Seq(Operand) /\ ~TopLabel(St).unreachable
      /\ path.stack = St.types /\ Live
  BY ReadyFacts DEF Ready
<1>2. one \in Seq(Operand) /\ one \in Seq(Type)
  BY OperandTypes
<1> HIDE DEF one
<1>3. Keeps(St, st) /\ Open(st)
  BY <1>1, <1>2, SignatureKeeps DEF Keeps
<1>4. ~st.said
  <2> HIDE DEF st
  <2>1. ~OnBlock(st, l, ps, rs).said
    BY DEF st, one
  <2> QED  BY <1>3, <2>1, BlockSaid
<1>5. /\ EndsWith(St.types, one) /\ st.types = below
      /\ st.types \in Seq(Operand)
  BY <1>1, <1>2, <1>4, AcceptsOpen
<1>6. EndsWith(st.types, ps)
  <2> HIDE DEF st
  <2>1. ~OnBlock(st, l, ps, rs).said
    BY DEF st, one
  <2> QED  BY <1>3, <1>5, <2>1, LiveEnters
<1> HIDE DEF st
<1>7. /\ EndsWith(St.types, ps \o one)
      /\ Minus(St.types, ps \o one) = Minus(below, ps)
  <2>1. EndsWith(below, ps)
    BY <1>5, <1>6
  <2> QED  BY <1>1, <1>2, <1>5, <2>1, EndsWithBoth
<1>8. Minus(below, ps) \o ps = below
  <2>1. EndsWith(below, ps) /\ below \in Seq(Operand)
    BY <1>5, <1>6
  <2> HIDE DEF below
  <2> QED  BY <2>1, EndsWithFacts
<1>9. Falls(ps \o one, ps) = Moved("live", Minus(below, ps) \o ps)
  <2> DEFINE sig == ps \o one
  <2>1. EndsWith(path.stack, sig) /\ Minus(path.stack, sig) = Minus(below, ps)
    BY <1>1, <1>7
  <2> HIDE DEF sig
  <2>2. Falls(sig, ps) = Moved("live", Minus(below, ps) \o ps)
    BY <1>1, <2>1 DEF Falls, Takes, Popped
  <2> QED  BY <2>2 DEF sig
<1>10. Falls(ps \o one, ps) = Moved("live", st.types)
  BY <1>5, <1>8, <1>9
<1> QED  BY <1>3, <1>5, <1>10 DEF st, one

(* A live execution at an if, with either condition.                        *)
LEMMA LiveIf ==
    ASSUME Ready, NEW b \in BlockTypes, IfInstr(b) PROVE SoundInv'
<1> DEFINE st == PopAndCheckSignature(St, <<I32>>)
           t == OnBlock(st, "If", b.params, b.results)
           q == Falls(b.params \o <<I32>>, b.params)
           e == Enters(q, b.params)
           w == [e EXCEPT !.mode = "else", !.target = Labels + 1]
<1>1. /\ Open(St) /\ "If" \in LabelType /\ b.params \in Seq(Operand)
      /\ b.results \in Seq(Operand) /\ b.params \in Params /\ Live
  BY SignatureTypes DEF Ready, LabelType
<1>2. t \in Checker
  <2>1. Open(st)
    BY <1>1, SignatureKeeps, SingleTypes DEF Keeps
  <2> HIDE DEF st
  <2> QED  BY <1>1, <2>1, BlockSaid
<1>3. ASSUME ~t.said
      PROVE  WellLabelled(t) /\ Agrees(t, e) /\ Agrees(t, w)
  <2>1. /\ Keeps(St, st) /\ st.types \in Seq(Operand)
        /\ q = Moved("live", st.types)
    BY <1>1, <1>3, LiveCondition, SingleTypes
  <2>2. e = Enters(Moved("live", st.types), b.params)
    BY <2>1
  <2> HIDE DEF st
  <2> DEFINE f == Enters(Moved("live", st.types), b.params)
  <2>3. /\ WellLabelled(t) /\ Agrees(t, f)
        /\ Agrees(t, [f EXCEPT !.mode = "else", !.target = Labels + 1])
    BY <1>1, <1>3, <2>1, LiveEnters
  <2> QED  BY <2>2, <2>3
<1>4. Visit(t) /\ (Execute(e) \/ Execute(w))
  <2>1. Visit(t)
    BY DEF IfInstr, OnIf
  <2>2. PICK mode \in {"live", "else"} :
           Execute(IF Live /\ q.mode = "live" /\ mode = "else" THEN w ELSE e)
    BY DEF IfInstr
  <2> QED  BY <2>1, <2>2
<1> HIDE DEF t, e, w
<1> QED  BY <1>2, <1>3, <1>4, Settles

(* A live execution at an if_except, with either outcome.                   *)
LEMMA LiveIfExcept ==
    ASSUME Ready, NEW b \in BlockTypes, NEW s \in ExceptSigs,
           IfExceptInstr(b, s)
    PROVE  SoundInv'
<1> DEFINE st == PopAndCheckSignature(St, <<ExceptRef>>)
           t == OnBlock(st, "IfExcept", b.params, b.results)
           u == PushTypes(t, s)
           q == Falls(b.params \o <<ExceptRef>>, b.params)
           e == Enters(q, b.params)
           w == [e EXCEPT !.mode = "else", !.target = Labels + 1]
           x == [e EXCEPT !.stack = e.stack \o s]
<1>1. /\ Open(St) /\ "IfExcept" \in LabelType /\ b.params \in Seq(Operand)
      /\ b.results \in Seq(Operand) /\ b.params \in Params /\ Live
      /\ s \in Seq(Operand) /\ s \in Seq(Type)
  BY SignatureTypes DEF Ready, LabelType
<1>2. t \in Checker /\ Open(t)
  <2>1. Open(st)
    BY <1>1, SignatureKeeps, SingleTypes DEF Keeps
  <2> HIDE DEF st
  <2>2. Inside(st, t)
    BY <1>1, <2>1, BlockInside
  <2> HIDE DEF t
  <2> QED  BY <2>2 DEF Inside, Open, Nested
<1>3. Keeps(t, u) /\ u \in Checker /\ u.types = t.types \o s /\ u.said = t.said
  <2> HIDE DEF t
  <2>1. Keeps(t, u) /\ u \in Checker
    BY <1>1, <1>2, PushKeeps DEF Keeps, Open, Nested
  <2> QED  BY <1>2, <2>1 DEF PushTypes, Checker
<1>4. ASSUME ~u.said
      PROVE  /\ WellLabelled(u) /\ Agrees(u, x) /\ Agrees(u, w)
             /\ q.mode = "live"
  <2>0. ~t.said
    BY <1>3, <1>4
  <2>1. /\ Keeps(St, st) /\ st.types \in Seq(Operand)
        /\ q = Moved("live", st.types)
    BY <1>1, <2>0, LiveCondition, SingleTypes
  <2> DEFINE f == Enters(Moved("live", st.types), b.params)
  <2>2. e = f
    BY <2>1
  <2>3. /\ WellLabelled(t) /\ Agrees(t, f) /\ f.mode = "live"
        /\ f.stack = st.types /\ t.types = st.types
        /\ Agrees(t, [f EXCEPT !.mode = "else", !.target = Labels + 1])
    <3> HIDE DEF st
    <3>1. /\ WellLabelled(t) /\ Agrees(t, f)
          /\ Agrees(t, [f EXCEPT !.mode = "else", !.target = Labels + 1])
      BY <1>1, <2>0, <2>1, LiveEnters
    <3>2. t.types = st.types
      BY <1>1, <2>0, <2>1, LiveEnters
    <3>3. f.mode = "live" /\ f.stack = st.types
      BY DEF Enters, Moved
    <3> QED  BY <3>1, <3>2, <3>3
  <2> HIDE DEF f
  <2>4. /\ WellLabelled(t) /\ Agrees(t, e) /\ e.mode = "live"
        /\ e.stack = t.types /\ Agrees(t, w)
    BY <2>2, <2>3
  <2>5. w.mode = "else"
    <3>1. e \in Path
      BY <2>4 DEF Agrees
    <3> HIDE DEF e
    <3> QED  BY <3>1 DEF Path
  <2>6. t.types \in Seq(Operand)
    BY <2>1, <2>3
  <2>7. q.mode = "live"
    <3>1. path \in Path
      BY ReadyFacts
    <3> HIDE DEF st
    <3> QED  BY <2>1, <3>1 DEF Moved, Path
  <2> HIDE DEF t, e, w, u, q
  <2>8. WellLabelled(u) /\ Agrees(u, w)
    BY <1>2, <1>3, <2>4, <2>5, KeepsInside, InsideAgrees
  <2>9. u.types \in Seq(Operand)
    BY <1>1, <1>3, <2>6, ConcatProperties
  <2>10. Agrees(u, [e EXCEPT !.stack = u.types])
    BY <1>3, <2>4, <2>9, LiveOthers
  <2>11. u.types = e.stack \o s
    BY <1>3, <2>4, Zenon
  <2> QED  BY <2>7, <2>8, <2>10, <2>11
<1>5. Visit(u)
  BY DEF IfExceptInstr, OnIfExcept
<1>6. ASSUME q.mode = "live" PROVE Execute(w) \/ Execute(x)
  <2>1. PICK mode \in {"live", "else"} :
           Execute(IF ~(Live /\ q.mode = "live") THEN e
                   ELSE IF mode = "else" THEN w ELSE x)
    BY DEF IfExceptInstr
  <2> QED  BY <1>1, <1>6, <2>1
<1> HIDE DEF u, x, w, q
<1>7. CASE ~u.said
  BY <1>3, <1>4, <1>5, <1>6, <1>7, Settles
<1>8. CASE u.said
  BY <1>5, <1>8 DEF Visit, SoundInv
<1> QED  BY <1>7, <1>8

(* A live execution goes to a label, with what the label wants.             *)
LEMMA WaitsAgrees ==
    ASSUME Ready, NEW n \in 1 .. Labels, NEW mode \in {"end", "catch"},
           mode = "catch" => St.labels[n].label_type = "Try"
    PROVE  LET stack == SubSeq(St.types, 1, St.labels[n].type_stack_limit)
                           \o Awaited(mode, St.labels[n])
           IN  /\ Agrees(St, Waits(mode, n, stack))
               /\ Waits(mode, n, stack).mode = mode
<1> DEFINE limit == St.labels[n].type_stack_limit
           prefix == SubSeq(St.types, 1, limit)
           awaited == Awaited(mode, St.labels[n])
           stack == prefix \o awaited
           hs == SubSeq(path.heights, 1, n)
           p == Waits(mode, n, stack)
<1>1. /\ Open(St) /\ Labels = Len(St.labels) /\ Labels \in Nat
      /\ St.types \in Seq(Operand) /\ path \in Path
      /\ path.heights \in Seq(Nat) /\ Len(path.heights) = Labels
      /\ \A i \in 1 .. Labels :
            path.heights[i] = St.labels[i].type_stack_limit
      /\ \A i \in 1 .. Labels : ~St.labels[i].unreachable
  BY ReadyFacts DEF Ready, Heights, Reachable, Path
<1>2. limit \in Nat /\ limit <= Len(St.types)
  <2>1. n \in n .. Labels
    BY <1>1
  <2> QED  BY <1>1, <2>1, LimitsOrdered
<1>3. prefix \in Seq(Operand)
  <2>1. \A i \in 1 .. limit : St.types[i] \in Operand
    BY <1>1, <1>2, ElementOfSeq, LenProperties
  <2> QED  BY <1>2, <2>1, SubSeqProperties
<1>4. awaited \in Seq(Operand)
  <2>1. Concrete(St.labels[n])
    BY <1>1 DEF Ready, WellLabelled
  <2> QED  BY <2>1, SingleTypes DEF Awaited, Concrete
<1>5. stack \in Seq(Operand)
  <2> HIDE DEF prefix, awaited
  <2> QED  BY <1>3, <1>4, ConcatProperties
<1>6. /\ hs \in Seq(Nat) /\ Len(hs) = n
      /\ \A i \in 1 .. n : hs[i] = path.heights[i]
  <2>1. \A i \in 1 .. n : path.heights[i] \in Nat
    BY <1>1, ElementOfSeq
  <2> QED  BY <1>1, <2>1, SubSeqProperties
<1> HIDE DEF stack, hs
<1>7. /\ p.mode = mode /\ p.stack = stack /\ p.target = n /\ p.heights = hs
      /\ p \in Path
  BY <1>1, <1>5, <1>6 DEF Waits, Path, hs
<1> HIDE DEF p
<1>8. Heights(St, p, n) /\ Reachable(St, n - 1)
  <2>1. \A i \in 1 .. n : i \in 1 .. Labels
    BY <1>1
  <2>2. \A i \in 1 .. n - 1 : i \in 1 .. Labels
    BY <1>1
  <2> QED  BY <1>1, <1>6, <1>7, <2>1, <2>2 DEF Heights, Reachable
<1>9. p.stack = SubSeq(St.types, 1, St.labels[p.target].type_stack_limit)
                   \o Awaited(p.mode, St.labels[p.target])
  BY <1>7 DEF stack
<1>10. AgreesWaiting(St, p)
  BY <1>1, <1>7, <1>8, <1>9 DEF AgreesWaiting
<1>11. Agrees(St, p)
  BY <1>7, <1>10 DEF Agrees
<1> QED  BY <1>7, <1>11 DEF p, stack

(* A branch of a live execution whose operands match what the label takes   *)
(* finds them, above the height of the label, and agrees afterwards.        *)
LEMMA BranchAgrees ==
    ASSUME Ready, NEW st, Keeps(St, st), st.types \in Seq(Operand),
           NEW depth \in Nat, depth < Labels,
           SignatureMatches(st, br_types(GetLabel(St, depth)))
    PROVE  /\ Agrees(St, Branch(depth, st.types))
           /\ Branch(depth, st.types).mode # "live"
<1> DEFINE n == Labels - depth
           label == St.labels[n]
           sig == br_types(label)
           limit == label.type_stack_limit
           top == TopLabel(St).type_stack_limit
           stack == st.types
<1>1. /\ Open(St) /\ Labels = Len(St.labels) /\ Labels \in Nat
      /\ St.labels = label_stack /\ TopLabel(St) = St.labels[Labels]
      /\ n \in 1 .. Labels /\ ~TopLabel(St).unreachable
      /\ path.heights[n] = limit
      /\ St.types \in Seq(Operand)
  BY ReadyFacts DEF Ready, Heights
<1>2. /\ Open(st) /\ TopLabel(st) = TopLabel(St)
      /\ \A i \in 1 .. top : st.types[i] = St.types[i]
  BY DEF Keeps, TopLabel
<1>3. GetLabel(St, depth) = label
  BY <1>1 DEF GetLabel
<1>4. sig \in Seq(Operand)
  BY <1>1 DEF Ready, WellLabelled, Concrete, br_types
<1>5. EndsWith(stack, sig) /\ top + Len(sig) <= Len(stack)
  BY <1>1, <1>2, <1>3, <1>4, Matches
<1>6. /\ limit \in Nat /\ top \in Nat /\ limit <= top
      /\ limit <= Len(St.types) /\ Len(sig) \in Nat /\ Len(stack) \in Nat
  <2>1. Labels \in n .. Labels /\ n \in n .. Labels /\ Labels \in 1 .. Labels
    BY <1>1
  <2> QED  BY <1>1, <1>4, <2>1, LimitsOrdered, LenProperties, SMTT(30)
<1>7. ~(~EndsWith(stack, sig) \/ Len(stack) < path.heights[n] + Len(sig))
  BY <1>1, <1>5, <1>6, SMTT(30)
<1>8. Branch(depth, stack) =
         IF label.label_type = "Loop" THEN Gone
         ELSE Waits("end", n, SubSeq(stack, 1, path.heights[n]) \o sig)
  BY <1>1, <1>7 DEF Branch
<1>9. CASE label.label_type = "Loop"
  BY <1>8, <1>9, GoneAgrees DEF Gone
<1>10. CASE label.label_type # "Loop"
  <2>1. sig = Awaited("end", label)
    BY <1>10 DEF br_types, Awaited
  <2>2. SubSeq(stack, 1, limit) = SubSeq(St.types, 1, limit)
    <3>1. limit <= Len(stack) /\ \A i \in 1 .. limit : i \in 1 .. top
      BY <1>5, <1>6
    <3> HIDE DEF limit, top
    <3> QED  BY <1>1, <1>2, <1>6, <3>1, SamePrefix
  <2>3. Branch(depth, stack) =
           Waits("end", n, SubSeq(St.types, 1, limit) \o Awaited("end", label))
    BY <1>1, <1>8, <1>10, <2>1, <2>2
  <2>4. LET s == SubSeq(St.types, 1, limit) \o Awaited("end", label)
        IN  /\ Agrees(St, Waits("end", n, s))
            /\ Waits("end", n, s).mode = "end"
    <3> HIDE DEF n
    <3> QED  BY <1>1, WaitsAgrees
  <2> QED  BY <2>3, <2>4
<1> QED  BY <1>9, <1>10

(* An exception goes to the innermost try, or out of the function.          *)
LEMMA RaisesAgrees ==
    ASSUME Ready PROVE Agrees(St, Raises) /\ Raises.mode # "live"
<1> DEFINE tries == {n \in 1 .. Labels : label_stack[n].label_type = "Try"}
           n == CHOOSE k \in tries : \A m \in tries : m <= k
           limit == St.labels[n].type_stack_limit
<1>1. CASE tries = {}
  BY <1>1, GoneAgrees DEF Raises, Gone
<1>2. CASE tries # {}
  <2>1. /\ Open(St) /\ Labels = Len(St.labels) /\ Labels \in Nat
        /\ St.labels = label_stack /\ path.stack = St.types
        /\ \A i \in 1 .. Labels :
              path.heights[i] = St.labels[i].type_stack_limit
    BY ReadyFacts DEF Ready, Heights
  <2>2. n \in tries
    <3>1. \E k \in tries : \A m \in tries : m <= k
      <4>1. tries \subseteq 1 .. Labels
        OBVIOUS
      <4> HIDE DEF tries
      <4> QED  BY <1>2, <2>1, <4>1, LastPosition
    <3> HIDE DEF tries
    <3> QED  BY <3>1
  <2>3. n \in 1 .. Labels /\ St.labels[n].label_type = "Try"
    BY <2>1, <2>2
  <2>4. Raises = IF Len(path.stack) < path.heights[n]
                 THEN Moved("stuck", path.stack)
                 ELSE Waits("catch", n, SubSeq(path.stack, 1, path.heights[n])
                                        \o <<ExceptRef>>)
    BY <1>2 DEF Raises
  <2> HIDE DEF n, tries
  <2>5. limit \in Nat /\ limit <= Len(St.types) /\ Len(St.types) \in Nat
    <3>1. n \in n .. Labels
      BY <2>1, <2>3
    <3> QED  BY <2>1, <2>3, <3>1, LimitsOrdered, TopFacts
  <2>6. path.heights[n] = limit /\ ~(Len(path.stack) < path.heights[n])
    BY <2>1, <2>3, <2>5
  <2>7. Awaited("catch", St.labels[n]) = <<ExceptRef>>
    BY DEF Awaited
  <2>8. Raises = Waits("catch", n, SubSeq(St.types, 1, limit)
                                   \o Awaited("catch", St.labels[n]))
    BY <2>1, <2>4, <2>6, <2>7
  <2>9. LET s == SubSeq(St.types, 1, limit) \o Awaited("catch", St.labels[n])
        IN  /\ Agrees(St, Waits("catch", n, s))
            /\ Waits("catch", n, s).mode = "catch"
    BY <2>3, WaitsAgrees
  <2> QED  BY <2>8, <2>9
<1> QED  BY <1>1, <1>2

(* An execution that stops being live at an instruction inside of a label.  *)
LEMMA Leaves ==
    ASSUME Ready, NEW t, Inside(St, t), Visit(t), NEW p, Execute(p),
           ~t.said => Agrees(St, p) /\ p.mode # "live"
    PROVE  SoundInv'
<1>1. t \in Checker
  BY DEF Inside, Open, Nested
<1>2. ~t.said => WellLabelled(t) /\ Agrees(t, p)
  BY InsideAgrees DEF Ready
<1> QED  BY <1>1, <1>2, Settles

(* A live execution at a br.                                                *)
LEMMA LiveBr ==
    ASSUME Ready, NEW d \in Depths, BrInstr(d) PROVE SoundInv'
<1> DEFINE sig == br_types(GetLabel(St, d))
           checked == CheckSignature(St, sig)
           t == OnBr(St, d)
           p == Branch(d, path.stack)
<1>1. /\ Open(St) /\ St \in Checker /\ Labels = Len(St.labels) /\ Live
      /\ Labels \in Nat /\ path.stack = St.types /\ St.types \in Seq(Operand)
      /\ Keeps(St, St)
  BY ReadyFacts DEF Ready, Keeps
<1>2. d \in Nat
  BY <1>1 DEF Depths
<1>3. Inside(St, t) /\ Visit(t)
  BY <1>1, <1>2, BranchInside DEF BrInstr
<1>4. ASSUME ~t.said PROVE d < Labels /\ Agrees(St, p) /\ p.mode # "live"
  <2>1. HasLabel(St, d)
    <3>1. CASE ~HasLabel(St, d)
      <4>1. t = PrintError(Error(St))
        BY <3>1 DEF OnBr
      <4>2. t.said
        BY <1>1, <4>1 DEF PrintError, Error, Checker
      <4> QED  BY <1>4, <4>2
    <3> QED  BY <3>1
  <2>2. d < Labels
    BY <1>1, <2>1 DEF HasLabel
  <2>3. sig \in Seq(Type)
    BY <1>1, <1>2, <2>1, BranchTypes
  <2>4. checked \in Checker
    BY <1>1, <2>3, SignatureKeeps DEF Keeps, Open, Nested
  <2>5. t = SetUnreachable(checked)
    BY <2>1 DEF OnBr
  <2>6. ~checked.said
    <3> HIDE DEF checked
    <3> QED  BY <1>4, <2>4, <2>5, SaidSame
  <2>7. SignatureMatches(St, sig)
    BY <1>1, <2>6, NotSaid DEF CheckSignature
  <2> QED  BY <1>1, <1>2, <2>2, <2>7, BranchAgrees
<1>5. ASSUME ~t.said PROVE Execute(p)
  BY <1>1, <1>4, <1>5 DEF BrInstr
<1> HIDE DEF t, p
<1>6. CASE ~t.said
  BY <1>3, <1>4, <1>5, <1>6, Leaves
<1>7. CASE t.said
  BY <1>3, <1>7 DEF Visit, SoundInv
<1> QED  BY <1>6, <1>7

(* A condition is popped.                                                   *)
LEMMA LivePopped ==
    ASSUME Ready, NEW sig \in Seq(Operand),
           ~PopAndCheckSignature(St, sig).said
    PROVE  LET popped == PopAndCheckSignature(St, sig)
           IN  /\ Keeps(St, popped) /\ popped.types \in Seq(Operand)
               /\ Popped(sig) = popped.types /\ Open(popped)
               /\ \A next : Takes(sig, next) = next
<1> DEFINE popped == PopAndCheckSignature(St, sig)
<1>1. /\ EndsWith(St.types, sig) /\ Keeps(St, popped)
      /\ popped.types = Minus(St.types, sig)
      /\ popped.types \in Seq(Operand) /\ Open(popped)
  BY ReadyFacts, AcceptsOpen DEF Ready
<1> HIDE DEF popped
<1>2. Popped(sig) = popped.types
  BY <1>1, ReadyFacts DEF Popped
<1>3. \A next : Takes(sig, next) = next
  BY <1>1, ReadyFacts DEF Takes, Ready
<1> QED  BY <1>1, <1>2, <1>3 DEF popped

(* A live execution at a br_if, taken or not.                               *)
LEMMA LiveBrIf ==
    ASSUME Ready, NEW d \in Depths, BrIfInstr(d) PROVE SoundInv'
<1> DEFINE one == <<I32>>
           popped == PopAndCheckSignature(St, one)
           sig == br_types(GetLabel(St, d))
           t == OnBrIf(St, d)
           p == Branch(d, Popped(one))
           q == Moved("live", Popped(one))
<1>1. /\ Open(St) /\ St \in Checker /\ Labels = Len(St.labels) /\ Live
      /\ Labels \in Nat /\ path.stack = St.types
      /\ ~TopLabel(St).unreachable
  BY ReadyFacts DEF Ready
<1>2. d \in Nat
  BY <1>1 DEF Depths
<1>3. Inside(St, t) /\ Visit(t)
  BY <1>1, <1>2, BranchInside DEF BrIfInstr
<1>4. one \in Seq(Operand) /\ one \in Seq(Type)
  BY SingleTypes
<1>5. Keeps(St, popped) /\ Open(popped) /\ popped \in Checker
  BY <1>1, <1>4, SignatureKeeps DEF Keeps, Open, Nested
<1>6. ASSUME ~t.said
      PROVE  /\ d < Labels /\ Agrees(St, p) /\ p.mode # "live"
             /\ WellLabelled(t) /\ Agrees(t, q)
             /\ \A next : Takes(one, next) = next
  <2>1. HasLabel(St, d)
    <3>1. CASE ~HasLabel(St, d)
      <4>1. t = PrintError(Error(popped))
        BY <3>1 DEF OnBrIf
      <4>2. t.said
        <5> HIDE DEF popped
        <5> QED  BY <1>5, <4>1 DEF PrintError, Error, Checker
      <4> QED  BY <1>6, <4>2
    <3> QED  BY <3>1
  <2>2. d < Labels
    BY <1>1, <2>1 DEF HasLabel
  <2>3. sig \in Seq(Type)
    BY <1>1, <1>2, <2>1, BranchTypes
  <2>4. sig \in Seq(Operand)
    <3>1. Labels - d \in 1 .. Labels
      BY <1>1, <1>2, <2>2
    <3> QED  BY <1>1, <3>1
             DEF Ready, WellLabelled, Concrete, br_types, GetLabel
  <2>5. t = PopAndCheckCall(popped, sig, sig)
    BY <2>1 DEF OnBrIf, PopAndCheckCall
  <2> HIDE DEF sig
  <2>6. ~PopAndCheckSignature(popped, sig).said
    <3> HIDE DEF popped
    <3> QED  BY <1>5, <1>6, <2>3, <2>5, SaidBefore
  <2>7. ~popped.said /\ SignatureMatches(popped, sig)
    <3> HIDE DEF popped
    <3> QED  BY <1>5, <2>3, <2>6, SaidBefore
  <2>8. /\ popped.types \in Seq(Operand) /\ Popped(one) = popped.types
        /\ \A next : Takes(one, next) = next
    <3> HIDE DEF one
    <3> QED  BY <1>4, <2>7, LivePopped
  <2>9. Agrees(St, p) /\ p.mode # "live"
    <3> HIDE DEF popped
    <3>1. /\ Agrees(St, Branch(d, popped.types))
          /\ Branch(d, popped.types).mode # "live"
      BY <1>2, <1>5, <2>2, <2>7, <2>8, BranchAgrees DEF sig
    <3> QED  BY <2>8, <3>1
  <2>10. t.types = popped.types
    <3> HIDE DEF popped
    <3>1. TopLabel(popped) = TopLabel(St)
      BY <1>5 DEF Keeps, TopLabel
    <3>2. /\ EndsWith(popped.types, sig)
          /\ t.types = Minus(popped.types, sig) \o sig
      BY <1>1, <1>5, <1>6, <2>4, <2>5, <2>8, <3>1, CallAccepted
    <3>3. Minus(popped.types, sig) \o sig = popped.types
      BY <2>4, <2>8, <3>2, EndsWithFacts
    <3> QED  BY <3>2, <3>3, Zenon
  <2>11. Keeps(St, t)
    <3> HIDE DEF popped
    <3>1. Keeps(popped, t)
      BY <1>5, <2>3, <2>5, SignatureKeeps
    <3> QED  BY <1>5, <3>1, KeepsTransitive
  <2>12. WellLabelled(t) /\ Agrees(t, Moved("live", t.types))
    <3> HIDE DEF t
    <3> QED  BY <2>8, <2>10, <2>11, LiveTypes
  <2> QED  BY <2>2, <2>8, <2>9, <2>10, <2>12
<1>7. ASSUME ~t.said PROVE Execute(p) \/ Execute(q)
  <2>1. PICK taken \in BOOLEAN :
           Execute(Takes(one, IF taken /\ d < Labels THEN p ELSE q))
    BY DEF BrIfInstr
  <2> HIDE DEF p, q, one, t
  <2> QED  BY <1>6, <1>7, <2>1
<1> HIDE DEF t, p, q
<1>8. t \in Checker
  BY <1>3 DEF Inside, Open, Nested
<1>9. CASE ~t.said
  BY <1>3, <1>6, <1>7, <1>8, <1>9, Leaves, Settles
<1>10. CASE t.said
  BY <1>3, <1>10 DEF Visit, SoundInv
<1> QED  BY <1>9, <1>10

(* A live execution at a br_table, at either target.                        *)
LEMMA LiveBrTable ==
    ASSUME Ready, NEW d1 \in Depths, NEW d2 \in d1 .. Labels,
           BrTableInstr(d1, d2)
    PROVE  SoundInv'
<1> DEFINE one == <<I32>>
           popped == PopAndCheckSignature(St, one)
           depths == <<d1, d2>>
           known == SelectSeq(depths, LAMBDA d : HasLabel(St, d))
           sig == IF known = <<>> THEN <<>>
                  ELSE br_types(GetLabel(St, known[1]))
           failed == \E i \in DOMAIN depths :
                        ~OnBrTableTarget(popped, depths[i], sig)
           checked == ErrorIf(popped, failed)
           t == OnBrTable(St, depths)
           p(d) == IF d < Labels THEN Branch(d, Popped(one)) ELSE Gone
<1>1. /\ Open(St) /\ Labels = Len(St.labels) /\ Live /\ Labels \in Nat
  BY ReadyFacts DEF Ready
<1>2. d1 \in Nat /\ d2 \in Nat
  BY <1>1 DEF Depths
<1>3. Inside(St, t) /\ Visit(t)
  BY <1>1, BrTableInside DEF BrTableInstr
<1>4. one \in Seq(Operand) /\ one \in Seq(Type)
  BY SingleTypes
<1>5. Keeps(St, popped) /\ Open(popped) /\ popped \in Checker
  BY <1>1, <1>4, SignatureKeeps DEF Keeps, Open, Nested
<1>6. ASSUME ~t.said
      PROVE  /\ \A d \in {d1, d2} : /\ Agrees(St, p(d)) /\ p(d).mode # "live"
             /\ \A next : Takes(one, next) = next
  <2>1. t = SetUnreachable(checked)
    BY DEF OnBrTable
  <2>2. checked \in Checker
    <3> HIDE DEF popped, failed
    <3> QED  BY <1>5, ErrorKeeps DEF Keeps, Open, Nested
  <2>3. ~checked.said
    <3> HIDE DEF checked, t
    <3> QED  BY <1>6, <2>1, <2>2, SaidSame
  <2>4. ~failed /\ ~popped.said
    <3> HIDE DEF failed, popped
    <3> QED  BY <1>5, <2>3, NotSaid
  <2>5. /\ popped.types \in Seq(Operand) /\ Popped(one) = popped.types
        /\ \A next : Takes(one, next) = next
    <3> HIDE DEF one
    <3> QED  BY <1>4, <2>4, LivePopped
  <2>6. ASSUME NEW d \in {d1, d2} PROVE Agrees(St, p(d)) /\ p(d).mode # "live"
    <3>1. OnBrTableTarget(popped, d, sig)
      <4>1. 1 \in DOMAIN depths /\ 2 \in DOMAIN depths
            /\ depths[1] = d1 /\ depths[2] = d2
        OBVIOUS
      <4> HIDE DEF depths, popped, sig
      <4> QED  BY <2>4, <4>1
    <3> HIDE DEF popped, sig
    <3>2. popped.labels = St.labels /\ d \in Nat
      BY <1>2, <1>5 DEF Keeps
    <3>3. d < Labels /\ SignatureMatches(popped, br_types(GetLabel(St, d)))
      BY <1>1, <3>1, <3>2 DEF OnBrTableTarget, HasLabel, GetLabel
    <3>4. /\ Agrees(St, Branch(d, popped.types))
          /\ Branch(d, popped.types).mode # "live"
      BY <1>5, <2>5, <3>2, <3>3, BranchAgrees
    <3> QED  BY <2>5, <3>3, <3>4
  <2> QED  BY <2>5, <2>6
<1>7. PICK d \in {d1, d2} : Execute(Takes(one, p(d)))
  BY DEF BrTableInstr
<1> HIDE DEF t, p, one
<1>8. CASE ~t.said
  <2>1. Execute(p(d))
    BY <1>6, <1>7, <1>8
  <2> QED  BY <1>3, <1>6, <1>8, <2>1, Leaves
<1>9. CASE t.said
  BY <1>3, <1>9 DEF Visit, SoundInv
<1> QED  BY <1>8, <1>9

(* A live execution at a return.                                            *)
LEMMA LiveReturn ==
    ASSUME Ready, ReturnInstr PROVE SoundInv'
<1> DEFINE sig == St.labels[1].result_types
           popped == PopAndCheckSignature(St, sig)
           t == OnReturn(St)
           p == Branch(Labels - 1, path.stack)
<1>1. /\ Open(St) /\ Labels = Len(St.labels) /\ Live
      /\ Labels \in Nat \ {0} /\ path.stack = St.types
      /\ St.types \in Seq(Operand) /\ Keeps(St, St)
  BY ReadyFacts DEF Ready, Keeps
<1>2. Inside(St, t) /\ Visit(t) /\ Execute(p)
  BY <1>1, OtherInside, SingleTypes DEF ReturnInstr
<1>3. /\ St.labels[1].label_type = "Func" /\ sig \in Seq(Operand)
      /\ sig \in Seq(Type)
  BY <1>1, OperandTypes DEF Ready, WellLabelled, Concrete
<1>4. ASSUME ~t.said PROVE Agrees(St, p) /\ p.mode # "live"
  <2>1. popped \in Checker /\ t = SetUnreachable(popped)
    BY <1>1, <1>3, SignatureKeeps DEF OnReturn, Keeps, Open, Nested
  <2>2. ~popped.said
    <3> HIDE DEF popped
    <3> QED  BY <1>4, <2>1, SaidSame
  <2>3. SignatureMatches(St, sig)
    BY <1>1, <1>3, <2>2, SaidBefore
  <2>4. br_types(GetLabel(St, Labels - 1)) = sig
    <3>1. Len(St.labels) - (Labels - 1) = 1
      BY <1>1
    <3> QED  BY <1>3, <3>1 DEF GetLabel, br_types
  <2>5. Labels - 1 \in Nat /\ Labels - 1 < Labels
    BY <1>1
  <2> QED  BY <1>1, <2>3, <2>4, <2>5, BranchAgrees
<1> HIDE DEF t, p
<1> QED  BY <1>2, <1>4, Leaves

(* A live execution that throws.                                            *)
LEMMA LiveRaises ==
    ASSUME Ready, NEW sig \in Seq(Operand),
           Visit(SetUnreachable(PopAndCheckSignature(St, sig))),
           Execute(Takes(sig, Raises))
    PROVE  SoundInv'
<1> DEFINE popped == PopAndCheckSignature(St, sig)
           t == SetUnreachable(popped)
<1>1. Keeps(St, popped) /\ popped \in Checker
  BY OperandTypes, SignatureKeeps DEF Ready, Keeps, Open, Nested
<1>2. Inside(St, t) /\ t.said = popped.said
  <2> HIDE DEF popped
  <2> QED  BY <1>1, LeaveInside, SaidSame DEF Ready
<1>3. ASSUME ~t.said
      PROVE  /\ Agrees(St, Takes(sig, Raises))
             /\ Takes(sig, Raises).mode # "live"
  <2>1. Takes(sig, Raises) = Raises
    BY <1>2, <1>3, LivePopped
  <2> QED  BY <2>1, RaisesAgrees
<1>4. Visit(t)
  OBVIOUS
<1> HIDE DEF t
<1> QED  BY <1>2, <1>3, <1>4, Leaves

(* Branches, returns and exceptions of a live execution.                    *)
LEMMA LiveBranches ==
    ASSUME Ready,
           \/ \E d \in Depths : BrInstr(d) \/ BrIfInstr(d)
           \/ \E d1 \in Depths : \E d2 \in d1 .. Labels : BrTableInstr(d1, d2)
           \/ ReturnInstr
           \/ \E s \in ExceptSigs : ThrowInstr(s)
           \/ RethrowInstr \/ UnreachableInstr
    PROVE  SoundInv'
<1>1. ASSUME NEW s \in ExceptSigs, ThrowInstr(s) PROVE SoundInv'
  BY <1>1, LiveRaises, SignatureTypes DEF ThrowInstr, OnThrow
<1>2. ASSUME RethrowInstr PROVE SoundInv'
  BY <1>2, LiveRaises, SingleTypes DEF RethrowInstr, OnRethrow
<1>3. ASSUME UnreachableInstr PROVE SoundInv'
  <2>1. Inside(St, OnUnreachable(St))
    BY OtherInside, SingleTypes DEF Ready
  <2>2. Visit(OnUnreachable(St)) /\ Execute(Gone)
    BY <1>3 DEF UnreachableInstr, Ready
  <2>3. Agrees(St, Gone) /\ Gone.mode # "live"
    BY GoneAgrees DEF Gone
  <2> QED  BY <2>1, <2>2, <2>3, Leaves
<1> QED  BY <1>1, <1>2, <1>3, LiveBr, LiveBrIf, LiveBrTable, LiveReturn

(* The end of a branch or of a label leaves what was there before it.  From *)
(* where the end is reachable there were the results and nothing else.      *)
LEMMA EndedShape ==
    ASSUME NEW st, Open(st), NEW begun, Keeps(st, begun),
           begun.types = st.types
    PROVE  LET label == TopLabel(st)
               prefix == SubSeq(st.types, 1, label.type_stack_limit)
               ended == CheckTypeStackEnd(PopAndCheckSignature(
                           begun, label.result_types))
               reset == ResetTypeStackToLabel(ended, label)
           IN  /\ reset.types = prefix /\ Keeps(st, reset)
               /\ ~reset.said => ~begun.said
               /\ /\ ~reset.said /\ ~label.unreachable
                  /\ st.types \in Seq(Operand)
                  /\ label.result_types \in Seq(Operand)
                  => st.types = prefix \o label.result_types
<1> DEFINE label == TopLabel(st)
           limit == label.type_stack_limit
           results == label.result_types
           prefix == SubSeq(st.types, 1, limit)
           popped == PopAndCheckSignature(begun, results)
           ended == CheckTypeStackEnd(popped)
           reset == ResetTypeStackToLabel(ended, label)
<1>1. /\ Open(begun) /\ TopLabel(begun) = label /\ results \in Seq(Type)
      /\ limit \in Nat /\ limit <= Len(st.types) /\ Len(st.types) \in Nat
      /\ st.types \in Seq(Type)
  BY TopFacts DEF Keeps, TopLabel, Label
<1>2. Keeps(begun, popped) /\ Open(popped) /\ popped \in Checker
      /\ popped.labels = st.labels
  BY <1>1, SignatureKeeps DEF Keeps, Open, Nested
<1>3. Keeps(st, reset)
  BY EndedKeeps
<1>4. Keeps(popped, ended) /\ Open(ended) /\ ended \in Checker
      /\ ended.types = popped.types /\ TopLabel(popped) = label
  <2> HIDE DEF popped
  <2> QED  BY <1>2, ErrorKeeps, ZenonT(40)
           DEF CheckTypeStackEnd, Keeps, Open, Nested, TopLabel
<1>5. reset.types = prefix
  <2>1. Keeps(st, ended)
    <3> HIDE DEF popped, ended
    <3> QED  BY <1>2, <1>4, KeepsTransitive
  <2> HIDE DEF ended
  <2>2. reset.types = SubSeq(ended.types, 1, limit)
    BY <1>4 DEF ResetTypeStackToLabel, Checker
  <2>3. /\ ended.types \in Seq(Type) /\ limit <= Len(ended.types)
        /\ \A i \in 1 .. limit : ended.types[i] = st.types[i]
    <3>1. TopLabel(ended) = label
      BY <2>1 DEF Keeps, TopLabel
    <3> QED  BY <1>4, <2>1, <3>1, TopFacts DEF Keeps
  <2>4. SubSeq(ended.types, 1, limit) = prefix
    <3> HIDE DEF limit
    <3> QED  BY <1>1, <2>3, SamePrefix
  <2> QED  BY <2>2, <2>4
<1>6. ASSUME ~reset.said
      PROVE  /\ ~popped.said /\ Len(popped.types) = limit
  <2>1. ~ended.said
    <3> HIDE DEF ended
    <3> QED  BY <1>4, <1>6, SaidSame
  <2> HIDE DEF popped
  <2> QED  BY <1>2, <1>4, <2>1, NotSaid DEF CheckTypeStackEnd
<1>7. ASSUME ~reset.said PROVE ~begun.said
  BY <1>1, <1>6, <1>7, SaidBefore
<1>8. ASSUME ~reset.said, ~label.unreachable, st.types \in Seq(Operand),
             results \in Seq(Operand)
      PROVE  st.types = prefix \o results
  <2>1. ~popped.said /\ Len(popped.types) = limit
    BY <1>6, <1>8
  <2>2. /\ EndsWith(st.types, results)
        /\ popped.types = Minus(st.types, results)
    <3> HIDE DEF results
    <3> QED  BY <1>1, <1>8, <2>1, AcceptsOpen
  <2>3. /\ Minus(st.types, results) \o results = st.types
        /\ Len(Minus(st.types, results)) = Len(st.types) - Len(results)
    <3> HIDE DEF results
    <3> QED  BY <1>8, <2>2, EndsWithFacts
  <2>4. Minus(st.types, results) = prefix
    <3>1. Len(st.types) - Len(results) = limit
      BY <2>1, <2>2, <2>3
    <3> QED  BY <3>1 DEF Minus
  <2>5. Minus(st.types, results) \o results = st.types
    BY <2>3
  <2> HIDE DEF prefix, results
  <2> QED  BY <2>4, <2>5, Zenon
<1> QED  BY <1>3, <1>5, <1>7, <1>8

-----------------------------------------------------------------------------
(* The middles and the ends of blocks *)

(* The outer labels, and what is below the one on top, are as before.       *)
Above(st, t) ==
    LET n == Len(st.labels)
        limit == TopLabel(st).type_stack_limit
    IN  /\ Nested(t) /\ n - 1 <= Len(t.labels)
        /\ \A i \in 1 .. n - 1 : t.labels[i] = st.labels[i]
        /\ limit <= Len(t.types)
        /\ \A i \in 1 .. limit : t.types[i] = st.types[i]

(* Then who waits for an outer label goes on waiting, and so does who waits *)
(* for the end of the one on top as long as it is there.                    *)
LEMMA OuterAgrees ==
    ASSUME NEW st, Open(st), NEW t, Above(st, t), NEW p, AgreesWaiting(st, p),
           p.target = Len(st.labels) =>
              /\ p.mode = "end" /\ Len(t.labels) = Len(st.labels)
              /\ LET a == t.labels[p.target]
                     b == st.labels[p.target]
                 IN  /\ a.type_stack_limit = b.type_stack_limit
                     /\ a.result_types = b.result_types
    PROVE  AgreesWaiting(t, p)
<1> DEFINE n == Len(st.labels)
           k == p.target
           label == st.labels[k]
           limit == label.type_stack_limit
<1>1. /\ k \in 1 .. n /\ Heights(st, p, k) /\ Reachable(st, k - 1)
      /\ p.stack = SubSeq(st.types, 1, limit) \o Awaited(p.mode, label)
      /\ p.mode = "else" => label.label_type \in {"If", "IfExcept"}
      /\ p.mode = "catch" => label.label_type = "Try"
  BY DEF AgreesWaiting
<1>2. /\ n \in Nat \ {0} /\ TopLabel(st) = st.labels[n]
      /\ st.types \in Seq(Type) /\ TopLabel(st).type_stack_limit \in Nat
      /\ TopLabel(st).type_stack_limit <= Len(st.types)
      /\ Len(st.types) \in Nat
  BY TopFacts
<1>3. /\ Len(t.labels) \in Nat /\ n - 1 <= Len(t.labels)
      /\ t.types \in Seq(Type)
  BY DEF Above, Nested, Checker
<1>4. k \in 1 .. Len(t.labels)
  BY <1>1, <1>2, <1>3
<1>5. \A i \in 1 .. k - 1 : t.labels[i] = st.labels[i]
  BY <1>1, <1>2 DEF Above
<1>6. /\ t.labels[k].type_stack_limit = limit
      /\ Awaited(p.mode, t.labels[k]) = Awaited(p.mode, label)
      /\ p.mode = "else" => t.labels[k].label_type = label.label_type
      /\ p.mode = "catch" => t.labels[k].label_type = label.label_type
  <2>1. CASE k = n
    BY <2>1 DEF Awaited
  <2>2. CASE k # n
    <3>1. k \in 1 .. n - 1
      BY <1>1, <1>2, <2>2
    <3> QED  BY <3>1 DEF Above
  <2> QED  BY <2>1, <2>2
<1>7. Heights(t, p, k)
  <2>1. \A i \in 1 .. k : i = k \/ i \in 1 .. k - 1
    BY <1>1, <1>2
  <2> QED  BY <1>1, <1>5, <1>6, <2>1 DEF Heights
<1>8. Reachable(t, k - 1)
  BY <1>1, <1>5 DEF Reachable
<1>9. SubSeq(t.types, 1, limit) = SubSeq(st.types, 1, limit)
  <2>1. limit \in Nat /\ limit <= TopLabel(st).type_stack_limit
    <3>1. n \in k .. n
      BY <1>1, <1>2
    <3> QED  BY <1>1, <1>2, <3>1, LimitsOrdered
  <2>2. /\ limit <= Len(t.types) /\ limit <= Len(st.types)
        /\ Len(t.types) \in Nat
    BY <1>2, <1>3, <2>1, LenProperties DEF Above
  <2>3. \A i \in 1 .. limit : t.types[i] = st.types[i]
    <3>1. \A i \in 1 .. limit : i \in 1 .. TopLabel(st).type_stack_limit
      BY <1>2, <2>1
    <3>2. \A i \in 1 .. TopLabel(st).type_stack_limit :
             t.types[i] = st.types[i]
      BY DEF Above
    <3> QED  BY <3>1, <3>2
  <2> HIDE DEF limit
  <2> QED  BY <1>2, <1>3, <2>1, <2>2, <2>3, SamePrefix
<1> QED  BY <1>1, <1>4, <1>6, <1>7, <1>8, <1>9 DEF AgreesWaiting

(* What is below the limit of the top label and then other operands.        *)
LEMMA PrefixTypes ==
    ASSUME NEW st, Open(st), NEW types \in Seq(Type)
    PROVE  LET limit == TopLabel(st).type_stack_limit
               u == SubSeq(st.types, 1, limit) \o types
           IN  /\ limit <= Len(u)
               /\ \A i \in 1 .. limit : u[i] = st.types[i]
<1> DEFINE limit == TopLabel(st).type_stack_limit
           prefix == SubSeq(st.types, 1, limit)
           u == prefix \o types
<1>1. /\ limit \in Nat /\ limit <= Len(st.types) /\ Len(st.types) \in Nat
      /\ st.types \in Seq(Type)
  BY TopFacts
<1>2. /\ prefix \in Seq(Type) /\ Len(prefix) = limit
      /\ \A i \in 1 .. limit : prefix[i] = st.types[i]
  BY <1>1, SubSeqProperties
<1> HIDE DEF limit, prefix
<1>3. /\ Len(u) = limit + Len(types)
      /\ \A i \in 1 .. limit : u[i] = prefix[i]
  <2>1. /\ Len(u) = Len(prefix) + Len(types)
        /\ \A i \in 1 .. Len(prefix) : u[i] = prefix[i]
    <3>1. prefix \in Seq(Type) /\ Len(prefix) \in Nat /\ Len(types) \in Nat
      BY <1>2, LenProperties
    <3> QED  BY <3>1
  <2> HIDE DEF u
  <2> QED  BY <1>2, <2>1
<1>4. limit <= Len(u) /\ \A i \in 1 .. limit : u[i] = st.types[i]
  BY <1>1, <1>2, <1>3, LenProperties
<1> QED  BY <1>4 DEF limit, prefix

(* An else or a catch: the label on top is another one and reachable, and   *)
(* the stack is what the label found and what the new branch begins with.   *)
LEMMA SwitchShape ==
    ASSUME NEW st, Open(st), NEW from, NEW to \in LabelType,
           NEW types \in Seq(Type)
    PROVE  LET t == Switch(st, from, to, types)
               n == Len(st.labels)
               label == TopLabel(st)
               prefix == SubSeq(st.types, 1, label.type_stack_limit)
           IN  /\ Open(t) /\ Above(st, t) /\ Len(t.labels) = n
               /\ t.labels[n].type_stack_limit = label.type_stack_limit
               /\ t.labels[n].param_types = label.param_types
               /\ t.labels[n].result_types = label.result_types
               /\ ~t.labels[n].unreachable
               /\ t.types = prefix \o types
               /\ /\ ~t.said /\ ~label.unreachable
                  /\ st.types \in Seq(Operand)
                  /\ label.result_types \in Seq(Operand)
                  => st.types = prefix \o label.result_types
<1> DEFINE n == Len(st.labels)
           label == TopLabel(st)
           limit == label.type_stack_limit
           prefix == SubSeq(st.types, 1, limit)
           begun == CheckLabelType(st, from)
           reset == ResetTypeStackToLabel(
                       CheckTypeStackEnd(PopAndCheckSignature(
                          begun, label.result_types)), label)
           next == [label EXCEPT !.label_type = to, !.unreachable = FALSE]
           set == SetTop(reset, next)
           t == PushTypes(set, types)
<1>0. t = Switch(st, from, to, types) /\ Open(t)
  <2>1. t = Switch(st, from, to, types)
    BY DEF Switch
  <2> QED  BY <2>1, SwitchOpen
<1>1. Keeps(st, begun) /\ begun.types = st.types
  BY ErrorKeeps DEF CheckLabelType, Keeps
<1>2. /\ reset.types = prefix /\ Keeps(st, reset)
      /\ /\ ~reset.said /\ ~label.unreachable
         /\ st.types \in Seq(Operand)
         /\ label.result_types \in Seq(Operand)
         => st.types = prefix \o label.result_types
  <2> HIDE DEF begun
  <2> QED  BY <1>1, EndedShape
<1>3. /\ next \in Label /\ next.type_stack_limit = limit
      /\ next.param_types = label.param_types
      /\ next.result_types = label.result_types /\ ~next.unreachable
  BY TopFacts DEF Label
<1> HIDE DEF reset, next, prefix
<1>4. /\ TopLabel(reset) = label /\ Open(reset) /\ reset.labels = st.labels
      /\ reset \in Checker
  BY <1>2 DEF Keeps, TopLabel, Open, Nested
<1>5. /\ Open(set) /\ set.types = reset.types /\ TopLabel(set) = next
      /\ Len(set.labels) = n /\ set \in Checker
  BY <1>2, <1>3, <1>4, SetTopOpen DEF Open, Nested
<1>6. \A i \in 1 .. n - 1 : set.labels[i] = st.labels[i]
  <2>1. n \in Nat \ {0} /\ n \in 1 .. n /\ st.labels \in Seq(Label)
    BY TopFacts
  <2>2. \A i \in 1 .. n - 1 : i \in 1 .. n /\ i # n
    BY <2>1
  <2>3. set.labels = [st.labels EXCEPT ![n] = next]
    BY <1>4 DEF SetTop, Checker
  <2> HIDE DEF set
  <2> QED  BY <1>3, <2>1, <2>2, <2>3, ExceptSeq
<1>7. set.labels[n] = next /\ n \in Nat \ {0}
  BY <1>5, TopFacts
<1>8. set.said = reset.said
  BY <1>4, SaidSame
<1> HIDE DEF set
<1>9. /\ t.labels = set.labels /\ t.types = prefix \o types
      /\ t.said = set.said
  BY <1>2, <1>5 DEF PushTypes, Checker
<1> HIDE DEF t
<1>10. Above(st, t)
  <2>1. /\ limit <= Len(t.types)
        /\ \A i \in 1 .. limit : t.types[i] = st.types[i]
    BY <1>9, PrefixTypes DEF prefix
  <2>2. Nested(t) /\ n - 1 <= Len(t.labels)
    BY <1>0, <1>5, <1>7, <1>9 DEF Open
  <2> QED  BY <1>6, <1>9, <2>1, <2>2 DEF Above
<1>11. /\ ~t.said /\ ~label.unreachable /\ st.types \in Seq(Operand)
       /\ label.result_types \in Seq(Operand)
       => st.types = prefix \o label.result_types
  BY <1>2, <1>8, <1>9
<1>12. t.labels[n] = next /\ Len(t.labels) = n
  BY <1>5, <1>7, <1>9
<1> QED  BY <1>0, <1>3, <1>9, <1>10, <1>11, <1>12 DEF prefix

(* An execution at an else or a catch: one that arrives waits for the end   *)
(* from there on, with the results; one that waits for it goes on, with     *)
(* what the new branch begins with; any other is not concerned.             *)
LEMMA SwitchAgrees ==
    ASSUME Open(St), WellLabelled(St), Agrees(St, path),
           NEW mode \in {"else", "catch"}, NEW from,
           NEW to \in {"Else", "Catch"},
           mode = "else" => TopLabel(St).label_type \in {"If", "IfExcept"},
           mode = "catch" => TopLabel(St).label_type = "Try",
           ~Switch(St, from, to, Awaited(mode, TopLabel(St))).said
    PROVE  LET t == Switch(St, from, to, Awaited(mode, TopLabel(St)))
           IN  t \in Checker /\ WellLabelled(t) /\ Agrees(t, AtSwitch(mode))
<1> DEFINE label == TopLabel(St)
           types == Awaited(mode, label)
           prefix == SubSeq(St.types, 1, label.type_stack_limit)
           t == Switch(St, from, to, types)
<1>1. /\ Labels = Len(St.labels) /\ Labels \in Nat \ {0} /\ label \in Label
      /\ label = St.labels[Labels] /\ Labels \in 1 .. Labels
  BY TopFacts DEF Labels, St, Begin
<1>2. /\ label.param_types \in Seq(Operand) /\ label.param_types \in Params
      /\ label.result_types \in Seq(Operand)
  BY <1>1 DEF WellLabelled, Concrete
<1>3. types \in Seq(Type) /\ to \in LabelType
  BY <1>2, OperandTypes, SingleTypes DEF Awaited, LabelType
<1>4. /\ Open(t) /\ Above(St, t) /\ Len(t.labels) = Len(St.labels)
      /\ LET next == t.labels[Len(St.labels)]
         IN  /\ next.type_stack_limit = label.type_stack_limit
             /\ next.param_types = label.param_types
             /\ next.result_types = label.result_types /\ ~next.unreachable
      /\ t.types = prefix \o types
      /\ /\ ~t.said /\ ~label.unreachable /\ St.types \in Seq(Operand)
         /\ label.result_types \in Seq(Operand)
         => St.types = prefix \o label.result_types
  <2> HIDE DEF types
  <2> QED  BY <1>3, SwitchShape, ZenonT(40)
<1>5. ~t.said
  OBVIOUS
<1> HIDE DEF t, types
<1>6. \A i \in 1 .. Labels - 1 : t.labels[i] = St.labels[i]
  BY <1>1, <1>4 DEF Above
<1>7. \A i \in 1 .. Labels : i = Labels \/ i \in 1 .. Labels - 1
  BY <1>1
<1>8. \A i \in 1 .. Labels :
         t.labels[i].type_stack_limit = St.labels[i].type_stack_limit
  BY <1>1, <1>4, <1>6, <1>7
<1>9. WellLabelled(t)
  <2>1. \A i \in 1 .. Labels : Concrete(t.labels[i])
    BY <1>1, <1>2, <1>4, <1>6, <1>7 DEF WellLabelled, Concrete
  <2>2. t.labels[1].label_type = "Func"
    <3>1. Labels # 1
      BY <1>1 DEF WellLabelled
    <3>2. 1 \in 1 .. Labels - 1
      <4>1. Labels \in Nat \ {0}
        BY <1>1
      <4> QED  BY <3>1, <4>1
    <3> QED  BY <1>1, <1>6, <3>2 DEF WellLabelled
  <2> QED  BY <1>1, <1>4, <2>1, <2>2 DEF WellLabelled
<1>10. path \in Path
  BY DEF Agrees
<1>11. ASSUME NEW p, p \in Path, AgreesWaiting(St, p), p.mode # "live",
              p.target = Labels => p.mode = "end"
       PROVE  Agrees(t, p)
  <2>1. /\ Labels = Len(St.labels) /\ Len(t.labels) = Labels
        /\ Above(St, t)
        /\ t.labels[Labels].type_stack_limit
              = St.labels[Labels].type_stack_limit
        /\ t.labels[Labels].result_types = St.labels[Labels].result_types
    BY <1>1, <1>4
  <2>2. AgreesWaiting(t, p)
    BY <1>11, <2>1, OuterAgrees
  <2> QED  BY <1>11, <2>2 DEF Agrees
<1>12. CASE Live
  <2> DEFINE stack == prefix \o label.result_types
             p == Waits("end", Labels, stack)
  <2>1. Ready
    BY <1>12 DEF Ready
  <2>2. path.stack = St.types /\ ~label.unreachable
        /\ St.types \in Seq(Operand)
    BY <2>1, ReadyFacts
  <2>3. AtSwitch(mode) = p
    <3>1. path.stack = stack
      BY <1>2, <1>4, <1>5, <2>2
    <3> QED  BY <1>12, <3>1 DEF AtSwitch
  <2>4. Awaited("end", label) = label.result_types
    BY DEF Awaited
  <2>5. Agrees(St, p) /\ p.mode = "end" /\ p.target = Labels
    <3>1. Agrees(St, p) /\ p.mode = "end"
      BY <1>1, <2>1, <2>4, WaitsAgrees
    <3> QED  BY <3>1 DEF Waits
  <2> HIDE DEF p
  <2>6. AgreesWaiting(St, p) /\ p \in Path
    BY <2>5 DEF Agrees
  <2>7. Agrees(t, p)
    BY <1>11, <2>5, <2>6
  <2> QED  BY <1>4, <1>9, <2>3, <2>7 DEF t, types, Open, Nested
<1>13. CASE ~Live /\ path.mode = mode /\ path.target = Labels
  <2> DEFINE p == [path EXCEPT !.mode = "live", !.target = 0]
  <2>1. AtSwitch(mode) = p
    BY <1>13 DEF AtSwitch
  <2>2. /\ p \in Path /\ p.mode = "live" /\ p.stack = path.stack
        /\ p.heights = path.heights
    BY <1>10 DEF Path
  <2>3. /\ Heights(St, path, Labels) /\ Reachable(St, Labels - 1)
        /\ path.stack = prefix \o types
    BY <1>1, <1>13 DEF Agrees, AgreesWaiting, types
  <2> HIDE DEF p
  <2>4. Heights(t, p, Labels)
    BY <1>8, <2>2, <2>3 DEF Heights
  <2>5. Reachable(t, Labels)
    BY <1>1, <1>4, <1>6, <1>7, <2>3 DEF Reachable
  <2>6. AgreesLive(t, p)
    BY <1>1, <1>4, <2>2, <2>3, <2>4, <2>5 DEF AgreesLive
  <2>7. Agrees(t, p)
    BY <2>2, <2>6 DEF Agrees
  <2> QED  BY <1>4, <1>9, <2>1, <2>7 DEF t, types, Open, Nested
<1>14. CASE ~Live /\ ~(path.mode = mode /\ path.target = Labels)
  <2>1. AtSwitch(mode) = path
    BY <1>14 DEF AtSwitch
  <2>2. CASE path.mode = "gone"
    <3>1. Agrees(t, path)
      BY <1>10, <2>2 DEF Agrees
    <3> QED  BY <1>4, <1>9, <2>1, <3>1 DEF t, types, Open, Nested
  <2>3. CASE path.mode \in {"end", "else", "catch"}
    <3>1. AgreesWaiting(St, path)
      BY <2>3 DEF Agrees
    <3>2. path.target = Labels => path.mode = "end"
      BY <1>1, <1>14, <2>3, <3>1 DEF AgreesWaiting
    <3>3. Agrees(t, path)
      BY <1>10, <1>11, <1>14, <3>1, <3>2 DEF Live
    <3> QED  BY <1>4, <1>9, <2>1, <3>3 DEF t, types, Open, Nested
  <2>4. path.mode \in {"end", "else", "catch", "gone"}
    BY <1>10, <1>14 DEF Path, Live
  <2> QED  BY <2>2, <2>3, <2>4
<1> QED  BY <1>12, <1>13, <1>14

(* An else, a catch.                                                        *)
LEMMA MiddleSound ==
    ASSUME Open(St), SoundInv, ElseInstr \/ CatchInstr
    PROVE  SoundInv'
<1>1. CASE ~result_
  <2>1. ~result_'
    BY <1>1 DEF ElseInstr, CatchInstr, Visit
  <2> QED  BY <2>1 DEF SoundInv
<1>2. CASE result_ /\ ElseInstr
  <2> DEFINE types == Awaited("else", TopLabel(St))
             t == Switch(St, "If", "Else", types)
  <2>1. types = TopLabel(St).param_types
    BY DEF Awaited
  <2>2. /\ Visit(t) /\ Execute(AtSwitch("else"))
        /\ TopLabel(St).label_type \in {"If", "IfExcept"}
    BY <1>2, <2>1 DEF ElseInstr, OnElse
  <2>3. t \in Checker
    <3>1. TopLabel(St).param_types \in Seq(Type) /\ "Else" \in LabelType
      BY TopFacts DEF Label, LabelType
    <3>2. types \in Seq(Type)
      BY <2>1, <3>1
    <3> HIDE DEF types
    <3> QED  BY <3>1, <3>2, SwitchOpen DEF Open, Nested
  <2>4. ~t.said => WellLabelled(t) /\ Agrees(t, AtSwitch("else"))
    BY <1>2, <2>2, SwitchAgrees DEF SoundInv
  <2> HIDE DEF t
  <2> QED  BY <2>2, <2>3, <2>4, Settles
<1>3. CASE result_ /\ CatchInstr
  <2> DEFINE types == Awaited("catch", TopLabel(St))
             t == Switch(St, "Try", "Catch", types)
  <2>1. types = <<ExceptRef>>
    BY DEF Awaited
  <2>2. /\ Visit(t) /\ Execute(AtSwitch("catch"))
        /\ TopLabel(St).label_type = "Try"
    BY <1>3, <2>1 DEF CatchInstr, OnCatch
  <2>3. t \in Checker
    <3>1. types \in Seq(Type) /\ "Catch" \in LabelType
      BY <2>1, SingleTypes DEF LabelType
    <3> HIDE DEF types
    <3> QED  BY <3>1, SwitchOpen DEF Open, Nested
  <2>4. ~t.said => WellLabelled(t) /\ Agrees(t, AtSwitch("catch"))
    BY <1>3, <2>2, SwitchAgrees DEF SoundInv
  <2> HIDE DEF t
  <2> QED  BY <2>2, <2>3, <2>4, Settles
<1> QED  BY <1>1, <1>2, <1>3

(* The end of a label: what the label found, and its results.               *)
LEMMA EndShape ==
    ASSUME NEW st, Open(st), NEW begun, Keeps(st, begun),
           begun.types = st.types
    PROVE  LET t == EndLabel(begun)
               n == Len(st.labels)
               label == TopLabel(st)
               prefix == SubSeq(st.types, 1, label.type_stack_limit)
           IN  /\ Above(st, t) /\ Len(t.labels) = n - 1
               /\ t.types = prefix \o label.result_types
               /\ ~t.said => ~begun.said
               /\ /\ ~t.said /\ ~label.unreachable
                  /\ st.types \in Seq(Operand)
                  /\ label.result_types \in Seq(Operand)
                  => st.types = prefix \o label.result_types
<1> DEFINE n == Len(st.labels)
           label == TopLabel(st)
           results == label.result_types
           limit == label.type_stack_limit
           prefix == SubSeq(st.types, 1, limit)
           reset == ResetTypeStackToLabel(
                       CheckTypeStackEnd(PopAndCheckSignature(
                          begun, results)), label)
           pushed == PushTypes(reset, results)
           t == EndLabel(begun)
<1>1. TopLabel(begun) = label /\ Open(begun)
  BY DEF Keeps, TopLabel
<1>2. t = PopLabel(pushed) /\ Nested(t)
  BY <1>1, EndLabelNested DEF EndLabel
<1>3. /\ reset.types = prefix /\ Keeps(st, reset)
      /\ ~reset.said => ~begun.said
      /\ /\ ~reset.said /\ ~label.unreachable
         /\ st.types \in Seq(Operand) /\ results \in Seq(Operand)
         => st.types = prefix \o results
  BY EndedShape
<1>4. /\ n \in Nat \ {0} /\ st.labels \in Seq(Label) /\ results \in Seq(Type)
  BY TopFacts DEF Label
<1> HIDE DEF reset, prefix, t
<1>5. reset \in Checker /\ reset.labels = st.labels
  BY <1>3 DEF Keeps, Open, Nested
<1>6. /\ pushed \in Checker /\ pushed.types = prefix \o results
      /\ pushed.labels = st.labels /\ pushed.said = reset.said
  <2>1. Keeps(reset, pushed)
    BY <1>3, <1>4, PushKeeps DEF Keeps
  <2>2. pushed \in Checker
    BY <2>1 DEF Keeps, Open, Nested
  <2> QED  BY <1>3, <1>5, <2>2 DEF PushTypes, Checker
<1> HIDE DEF pushed
<1>7. /\ t.types = prefix \o results /\ t.labels = Front(st.labels)
      /\ t.said = reset.said
  BY <1>2, <1>6 DEF PopLabel, Checker
<1>8. /\ Len(Front(st.labels)) = n - 1
      /\ \A i \in 1 .. n - 1 : Front(st.labels)[i] = st.labels[i]
  BY <1>4, SubSeqProperties DEF Front
<1>9. Above(st, t)
  <2>1. /\ limit <= Len(t.types)
        /\ \A i \in 1 .. limit : t.types[i] = st.types[i]
    BY <1>4, <1>7, PrefixTypes DEF prefix
  <2>2. n - 1 <= Len(t.labels)
    BY <1>4, <1>7, <1>8
  <2> QED  BY <1>2, <1>7, <1>8, <2>1, <2>2 DEF Above
<1> QED  BY <1>3, <1>7, <1>8, <1>9 DEF prefix, t

(* An execution at the end of a label: one that is there or waits for the   *)
(* end goes on with the results, and so does one whose condition was false  *)
(* if the parameters, which it has, are the results.                        *)
LEMMA EndAgrees ==
    ASSUME Open(St), WellLabelled(St), Agrees(St, path),
           NEW begun, Keeps(St, begun), begun.types = St.types,
           ~EndLabel(begun).said, TopLabel(St).label_type # "Try",
           path.mode = "else" /\ path.target = Labels =>
              TopLabel(St).param_types = TopLabel(St).result_types
    PROVE  LET t == EndLabel(begun)
           IN  WellLabelled(t) /\ Agrees(t, AtEnd)
<1> DEFINE label == TopLabel(St)
           results == label.result_types
           prefix == SubSeq(St.types, 1, label.type_stack_limit)
           t == EndLabel(begun)
<1>1. /\ Labels = Len(St.labels) /\ Labels \in Nat \ {0}
      /\ label = St.labels[Labels] /\ Labels \in 1 .. Labels
  BY TopFacts DEF Labels, St, Begin
<1>2. results \in Seq(Operand)
  BY <1>1 DEF WellLabelled, Concrete
<1>3. /\ Above(St, t) /\ Len(t.labels) = Len(St.labels) - 1
      /\ t.types = prefix \o results
      /\ /\ ~t.said /\ ~label.unreachable /\ St.types \in Seq(Operand)
         /\ results \in Seq(Operand)
         => St.types = prefix \o results
  BY EndShape
<1>4. ~t.said
  OBVIOUS
<1> HIDE DEF t
<1>5. /\ \A i \in 1 .. Labels - 1 : t.labels[i] = St.labels[i]
      /\ \A i \in 1 .. Labels - 1 : i \in 1 .. Labels
      /\ Len(t.labels) = Labels - 1
  BY <1>1, <1>3 DEF Above
<1>6. WellLabelled(t)
  <2>1. Len(t.labels) # 0 => 1 \in 1 .. Labels - 1
    <3>1. Labels \in Nat \ {0}
      BY <1>1
    <3> QED  BY <1>5, <3>1
  <2> QED  BY <1>1, <1>5, <2>1 DEF WellLabelled
<1>7. path \in Path /\ path.heights \in Seq(Nat)
  BY DEF Agrees, Path
<1>8. CASE Live \/ (path.mode \in {"end", "else"} /\ path.target = Labels)
  <2> DEFINE p == [path EXCEPT !.mode = "live", !.target = 0,
                               !.heights = Front(path.heights)]
  <2>1. AtEnd = p
    BY <1>8 DEF AtEnd
  <2>2. /\ Heights(St, path, Labels) /\ Reachable(St, Labels - 1)
        /\ path.stack = prefix \o results
    <3>1. CASE Live
      <4>1. Ready
        BY <3>1 DEF Ready
      <4>2. /\ path.stack = St.types /\ ~label.unreachable
            /\ St.types \in Seq(Operand)
            /\ Heights(St, path, Labels) /\ Reachable(St, Labels)
        BY <4>1, ReadyFacts
      <4>3. St.types = prefix \o results
        BY <1>2, <1>3, <1>4, <4>2
      <4> QED  BY <1>5, <4>2, <4>3 DEF Reachable
    <3>2. CASE ~Live
      <4>1. path.mode \in {"end", "else"} /\ path.target = Labels
        BY <1>8, <3>2
      <4>2. AgreesWaiting(St, path)
        BY <4>1 DEF Agrees
      <4>3. Awaited(path.mode, label) = results
        BY <4>1 DEF Awaited
      <4> QED  BY <1>1, <4>1, <4>2, <4>3 DEF AgreesWaiting
    <3> QED  BY <3>1, <3>2
  <2>3. /\ Front(path.heights) \in Seq(Nat)
        /\ Len(Front(path.heights)) = Labels - 1
        /\ \A i \in 1 .. Labels - 1 :
              Front(path.heights)[i] = path.heights[i]
    <3>1. Len(path.heights) = Labels /\ Labels \in Nat \ {0}
      BY <1>1, <2>2 DEF Heights
    <3>2. \A i \in 1 .. Labels - 1 : path.heights[i] \in Nat
      BY <1>5, <1>7, <3>1, ElementOfSeq
    <3> QED  BY <1>7, <3>1, <3>2, SubSeqProperties DEF Front
  <2>4. /\ p \in Path /\ p.mode = "live" /\ p.stack = path.stack
        /\ p.heights = Front(path.heights)
    BY <1>7, <2>3 DEF Path
  <2> HIDE DEF p
  <2>5. Heights(t, p, Labels - 1)
    BY <1>5, <2>2, <2>3, <2>4 DEF Heights
  <2>6. Reachable(t, Labels - 1)
    BY <1>5, <2>2 DEF Reachable
  <2>7. AgreesLive(t, p)
    BY <1>3, <1>5, <2>2, <2>4, <2>5, <2>6 DEF AgreesLive
  <2>8. Agrees(t, p)
    BY <2>4, <2>7 DEF Agrees
  <2> QED  BY <1>6, <2>1, <2>8 DEF t
<1>9. CASE ~(Live \/ (path.mode \in {"end", "else"} /\ path.target = Labels))
  <2>1. AtEnd = path
    BY <1>9 DEF AtEnd
  <2>2. CASE path.mode = "gone"
    <3>1. Agrees(t, path)
      BY <1>7, <2>2 DEF Agrees
    <3> QED  BY <1>6, <2>1, <3>1 DEF t
  <2>3. CASE path.mode \in {"end", "else", "catch"}
    <3>1. AgreesWaiting(St, path)
      BY <2>3 DEF Agrees
    <3>2. path.target # Labels
      BY <1>1, <1>9, <2>3, <3>1 DEF AgreesWaiting
    <3>3. AgreesWaiting(t, path)
      BY <1>1, <1>3, <3>1, <3>2, OuterAgrees
    <3>4. Agrees(t, path)
      BY <1>7, <1>9, <3>3 DEF Agrees, Live
    <3> QED  BY <1>6, <2>1, <3>4 DEF t
  <2>4. path.mode \in {"end", "else", "catch", "gone"}
    BY <1>7, <1>9 DEF Path, Live
  <2> QED  BY <2>2, <2>3, <2>4
<1> QED  BY <1>8, <1>9

(* The end of a block and of the function.                                  *)
LEMMA EndSound ==
    ASSUME Open(St), SoundInv, result_ => ElselessPlain,
           EndInstr \/ FunctionEnd
    PROVE  SoundInv'
<1>1. CASE ~result_
  <2>1. ~result_'
    BY <1>1 DEF EndInstr, FunctionEnd, Visit
  <2> QED  BY <2>1 DEF SoundInv
<1>2. ASSUME result_, NEW begun, Keeps(St, begun), begun.types = St.types,
             Visit(EndLabel(begun)), Execute(AtEnd),
             TopLabel(St).label_type # "Try",
             /\ ~begun.said /\ TopLabel(St).label_type \in {"If", "IfExcept"}
             => TopLabel(St).param_types = TopLabel(St).result_types
      PROVE  SoundInv'
  <2>1. EndLabel(begun) \in Checker
    BY <1>2, EndLabelNested DEF Keeps, Nested
  <2>2. ASSUME ~EndLabel(begun).said
        PROVE  WellLabelled(EndLabel(begun)) /\ Agrees(EndLabel(begun), AtEnd)
    <3>1. ~begun.said
      BY <1>2, <2>2, EndShape
    <3>2. ASSUME path.mode = "else", path.target = Labels
          PROVE  TopLabel(St).label_type \in {"If", "IfExcept"}
      <4>1. AgreesWaiting(St, path)
        BY <1>2, <3>2 DEF SoundInv, Agrees
      <4>2. TopLabel(St) = St.labels[Labels]
        BY TopFacts DEF Labels, St, Begin
      <4> QED  BY <3>2, <4>1, <4>2 DEF AgreesWaiting
    <3> QED  BY <1>2, <2>2, <3>1, <3>2, EndAgrees DEF SoundInv
  <2> QED  BY <1>2, <2>1, <2>2, Settles
<1>3. CASE result_ /\ EndInstr
  <2> DEFINE failed == /\ TopLabel(St).label_type \in {"If", "IfExcept"}
                       /\ TopLabel(St).result_types # <<>>
             begun == ErrorIf(St, failed)
  <2>1. Keeps(St, begun) /\ begun.types = St.types
    BY ErrorKeeps
  <2>2. /\ Visit(EndLabel(begun)) /\ Execute(AtEnd)
        /\ TopLabel(St).label_type # "Try"
    BY <1>3 DEF EndInstr, OnEnd
  <2>3. ~begun.said => ~failed
    <3>1. St \in Checker
      BY DEF Open, Nested
    <3> HIDE DEF failed
    <3> QED  BY <3>1, NotSaid
  <2>4. TopLabel(St).label_type \in {"If", "IfExcept"}
           => TopLabel(St).param_types = <<>>
    BY <1>3 DEF ElselessPlain
  <2>5. ~begun.said /\ TopLabel(St).label_type \in {"If", "IfExcept"}
           => TopLabel(St).param_types = TopLabel(St).result_types
    <3> HIDE DEF begun
    <3> QED  BY <2>3, <2>4
  <2> HIDE DEF begun
  <2> QED  BY <1>2, <1>3, <2>1, <2>2, <2>5
<1>4. CASE result_ /\ FunctionEnd
  <2> DEFINE begun == CheckLabelType(St, "Func")
  <2>1. Keeps(St, begun) /\ begun.types = St.types
    BY ErrorKeeps DEF CheckLabelType, Keeps
  <2>2. Visit(EndLabel(begun)) /\ Execute(AtEnd) /\ Labels = 1
    BY <1>4 DEF FunctionEnd, EndFunction
  <2>3. TopLabel(St).label_type = "Func"
    <3>1. TopLabel(St) = St.labels[1] /\ Len(St.labels) # 0
      BY <2>2, TopFacts DEF Labels, St, Begin
    <3> QED  BY <1>4, <3>1 DEF SoundInv, WellLabelled
  <2> HIDE DEF begun
  <2> QED  BY <1>2, <1>4, <2>1, <2>2, <2>3
<1> QED  BY <1>1, <1>3, <1>4

(* Every step keeps the execution and the checker together.                 *)
LEMMA StepSound ==
    ASSUME Nested(St), SoundInv, result_ => ElselessPlain, [Next]_vars
    PROVE  SoundInv'
<1>1. CASE UNCHANGED vars
  <2>1. St' = St /\ path' = path /\ result_' = result_
    BY <1>1 DEF vars, St
  <2> QED  BY <2>1 DEF SoundInv
<1>2. CASE Next /\ ~Reading
  BY <1>1, <1>2 DEF Next, Done, OpcodeInstr, CallInstr, CallIndirectInstr,
     DropInstr, SelectInstr, LaneInstr, BlockInstr, IfInstr, IfExceptInstr,
     MayNest, ElseInstr, CatchInstr, EndInstr, BrInstr, BrIfInstr,
     BrTableInstr, ReturnInstr, ThrowInstr, RethrowInstr, UnreachableInstr,
     FunctionEnd
<1>3. CASE Next /\ Reading
  <2>1. Open(St)
    BY <1>3, ReadingOpen
  <2>2. CASE Passes /\ ~(result_ /\ Live)
    <3>1. PICK t : Inside(St, t) /\ Visit(t) /\ (~Live => Execute(path))
      BY <2>2 DEF Passes
    <3>2. CASE ~result_
      <4>1. ~result_'
        BY <3>1, <3>2 DEF Visit
      <4> QED  BY <4>1 DEF SoundInv
    <3>3. CASE result_ /\ ~Live
      <4>1. WellLabelled(St) /\ Agrees(St, path)
        BY <3>3 DEF SoundInv
      <4>2. WellLabelled(t) /\ Agrees(t, path)
        BY <2>1, <3>1, <3>3, <4>1, InsideAgrees DEF Live
      <4>3. t \in Checker
        BY <3>1 DEF Inside, Open, Nested
      <4> QED  BY <3>1, <3>3, <4>2, <4>3, Settles
    <3> QED  BY <2>2, <3>2, <3>3
  <2>3. ASSUME result_, Live PROVE Ready
    BY <2>1, <2>3 DEF Ready, SoundInv
  <2>4. CASE \/ \E o \in Opcodes : OpcodeInstr(o)
             \/ \E f \in FuncTypes : CallInstr(f) \/ CallIndirectInstr(f)
             \/ DropInstr \/ SelectInstr
             \/ \E o \in LaneOpcodes, in_range \in BOOLEAN :
                   LaneInstr(o, in_range)
    BY <2>1, <2>2, <2>3, <2>4, OperandSteps, LiveOperands, LiveDrop,
       LiveSelect
  <2>5. CASE \E b \in BlockTypes :
                \/ \E l \in {"Block", "Loop", "Try"} : BlockInstr(l, b)
                \/ IfInstr(b)
                \/ \E s \in ExceptSigs : IfExceptInstr(b, s)
    BY <2>1, <2>2, <2>3, <2>5, BlockSteps, LiveBlock, LiveIf, LiveIfExcept
  <2>6. CASE \/ \E d \in Depths : BrInstr(d) \/ BrIfInstr(d)
             \/ \E d1 \in Depths : \E d2 \in d1 .. Labels :
                   BrTableInstr(d1, d2)
             \/ ReturnInstr
             \/ \E s \in ExceptSigs : ThrowInstr(s)
             \/ RethrowInstr \/ UnreachableInstr
    BY <2>1, <2>2, <2>3, <2>6, BranchSteps, LiveBranches
  <2>7. CASE ElseInstr \/ CatchInstr
    BY <2>1, <2>7, MiddleSound
  <2>8. CASE EndInstr \/ FunctionEnd
    BY <2>1, <2>8, EndSound
  <2> QED  BY <1>3, <2>4, <2>5, <2>6, <2>7, <2>8 DEF Next, Done
<1> QED  BY <1>1, <1>2, <1>3

(* A function begins with an empty stack and its own label.                 *)
LEMMA InitSound == Init => SoundInv
<1> SUFFICES ASSUME NEW sig \in Results,
                    type_stack = BeginFunction(sig).types,
                    label_stack = BeginFunction(sig).labels,
                    path = [mode |-> "live", stack |-> <<>>,
                            heights |-> << 0 >>, target |-> 0]
             PROVE  WellLabelled(St) /\ Agrees(St, path)
  BY DEF Init, SoundInv
<1> DEFINE label == [label_type |-> "Func", param_types |-> <<>>,
                     result_types |-> sig, type_stack_limit |-> 0,
                     unreachable |-> FALSE]
<1>1. St.types = <<>> /\ St.labels = <<label>>
  <2>1. /\ BeginFunction(sig).types = <<>>
        /\ BeginFunction(sig).labels = Append(<<>>, label)
    BY DEF BeginFunction, PushLabel, Begin
  <2>2. Append(<<>>, label) = <<label>>
    <3> HIDE DEF label
    <3> QED  OBVIOUS
  <2> QED  BY <2>1, <2>2 DEF St, Begin
<1>2. sig \in Seq(Operand)
  BY SignatureTypes
<1>3. /\ Len(St.labels) = 1 /\ St.labels[1].label_type = "Func"
      /\ St.labels[1].param_types = <<>> /\ St.labels[1].result_types = sig
      /\ St.labels[1].type_stack_limit = 0 /\ ~St.labels[1].unreachable
  BY <1>1
<1>4. WellLabelled(St)
  <2>1. \A n \in 1 .. Len(St.labels) : n = 1
    BY <1>3
  <2>2. Concrete(St.labels[1])
    BY <1>2, <1>3, SingleTypes DEF Concrete, Params
  <2> QED  BY <1>3, <2>1, <2>2 DEF WellLabelled
<1>5. path \in Path /\ path.mode = "live" /\ path.stack = <<>>
      /\ Len(path.heights) = 1 /\ path.heights[1] = 0
  BY DEF Path
<1>6. AgreesLive(St, path)
  BY <1>1, <1>3, <1>5 DEF AgreesLive, Heights, Reachable
<1> QED  BY <1>4, <1>5, <1>6 DEF Agrees

(* So the stack of the execution is the one the checker knows.              *)
LEMMA SoundInvSound == Nested(St) /\ SoundInv => Sound
<1> SUFFICES ASSUME Nested(St), WellLabelled(St), Agrees(St, path)
             PROVE  /\ path.mode # "stuck"
                    /\ Live => /\ path.stack = type_stack
                               /\ Labels > 0 => ~TopLabel(St).unreachable
  BY DEF SoundInv, Sound
<1>1. path.mode # "stuck"
  BY DEF Agrees, Path
<1>2. ASSUME Live PROVE path.stack = type_stack
  BY <1>2 DEF Agrees, AgreesLive, Live, St, Begin
<1>3. ASSUME Live, Labels > 0 PROVE ~TopLabel(St).unreachable
  <2>1. Open(St)
    BY <1>3 DEF Open, Labels, St, Begin
  <2>2. Ready
    BY <1>3, <2>1 DEF Ready
  <2> QED  BY <2>2, ReadyFacts
<1> QED  BY <1>1, <1>2, <1>3

(* In a function that validates, an execution that is live has the values   *)
(* the checker says and never misses an operand, if every if that ends      *)
(* without an else has no parameters.  TypeChecker::OnEnd does not refuse   *)
(* one that has.                                                            *)
THEOREM SoundAlways == Spec /\ [][ElselessPlain]_vars => []Sound
<1>1. Init => SoundInv
  BY InitSound
<1>2. Nested(St) /\ SoundInv /\ [Next]_vars /\ [ElselessPlain]_vars
         => SoundInv'
  <2> SUFFICES ASSUME Nested(St), SoundInv, [Next]_vars, [ElselessPlain]_vars
               PROVE  SoundInv'
    OBVIOUS
  <2>1. CASE UNCHANGED vars
    <3>1. St' = St /\ path' = path /\ result_' = result_
      BY <2>1 DEF vars, St
    <3> QED  BY <3>1 DEF SoundInv
  <2>2. CASE ElselessPlain
    BY <2>2, StepSound
  <2> QED  BY <2>1, <2>2
<1>3. Nested(St) /\ SoundInv => Sound
  BY SoundInvSound
<1> QED  BY <1>1, <1>2, <1>3, Invariance, PTL DEF Spec

(* Without multi_value, which is off by default, blocks have no parameters, *)
(* and a function that validates is sound.                                  *)
THEOREM SoundWithoutParameters ==
    (\A b \in BlockTypes : b.params = <<>>) => (Spec => []Sound)
<1> SUFFICES ASSUME \A b \in BlockTypes : b.params = <<>>
             PROVE  Spec => []Sound
  OBVIOUS
<1>1. Init => SoundInv
  BY InitSound
<1>2. Nested(St) /\ SoundInv /\ [Next]_vars => SoundInv'
  <2> SUFFICES ASSUME Nested(St), SoundInv, [Next]_vars PROVE SoundInv'
    OBVIOUS
  <2>1. ASSUME result_, EndInstr PROVE TopLabel(St).param_types = <<>>
    <3>1. Open(St)
      BY <2>1, ReadingOpen DEF EndInstr
    <3>2. Concrete(TopLabel(St))
      BY <2>1, <3>1, TopFacts DEF SoundInv, WellLabelled
    <3> QED  BY <3>2 DEF Concrete, Params
  <2>2. result_ => ElselessPlain
    BY <2>1 DEF ElselessPlain
  <2> QED  BY <2>2, StepSound
<1> QED  BY <1>1, <1>2, SoundInvSound, Invariance, PTL DEF Spec

=============================================================================
