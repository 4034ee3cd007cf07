--------------------------- MODULE InterpLoadProofs ---------------------------
(***************************************************************************)
(* What the callbacks of a load (InterpLoad) do to the environment that    *)
(* they work on, for every file that the binary reader may read.           *)
(*                                                                         *)
(* Read says what is known of a load after some callbacks.  It relates     *)
(* three things: the environment as it was (Kept: nothing of it is moved   *)
(* or changed, and until the end of the module nothing of it is written),  *)
(* the new module with its index mappings, and the items that the file has *)
(* declared so far (ItemRead).  The hard part are the mappings: indexes    *)
(* are handed out when the number of items is known, before the items are  *)
(* there, so a mapping and the vector that it points into agree only if    *)
(* the items come in the number and in the order that was announced        *)
(* (Mapped, FuncPlaces).                                                   *)
(*                                                                         *)
(* CallbackWorks: every callback keeps Read.  ResetWhole: what is left of  *)
(* an environment after a load that is undone refers to nothing that went. *)
(***************************************************************************)
EXTENDS SpecRunner, SequenceTheorems, FiniteSetTheorems, TLAPS

-----------------------------------------------------------------------------
(* The environment *)

(* A sequence of anything.                                                  *)
IsSeq(s) == s \in Seq(Range(s))

Vectors == {"modules", "sigs", "funcs", "memories", "tables", "globals",
            "istream"}
Fields == Vectors \cup {"module_bindings", "registered_module_bindings"}

ModuleFields == {"is_host", "name", "exports", "memory_index", "table_index",
                 "start_func_index", "imports", "istream_start", "istream_end"}

IsModule(m) == DOMAIN m = ModuleFields /\ IsSeq(m.exports)

(* The fields that the callbacks rely on.                                   *)
Environment(e) ==
    /\ DOMAIN e = Fields
    /\ \A v \in Vectors : IsSeq(e[v])
    /\ \A i \in 1 .. Len(e.modules) : IsModule(e.modules[i])
    /\ \A i \in 1 .. Len(e.tables) : IsSeq(e.tables[i].func_indexes)

(* An index that a vector has.                                              *)
IndexOf(s, index) == index \in 0 .. Len(s) - 1

(* What a module refers to is there.                                        *)
ModuleWhole(e, m) ==
    /\ \A i \in 1 .. Len(m.exports) : ExportExists(e, m.exports[i])
    /\ m.table_index = -1 \/ IndexOf(e.tables, m.table_index)
    /\ m.memory_index = -1 \/ IndexOf(e.memories, m.memory_index)
    /\ m.start_func_index = -1 \/ IndexOf(e.funcs, m.start_func_index)
    /\ m.istream_start \in Int /\ m.istream_end \in Int
    /\ m.istream_start <= m.istream_end /\ m.istream_end <= Len(e.istream)

(* IndexesExist of an environment, but for the offsets of functions.        *)
Whole(e) ==
    /\ Environment(e)
    /\ Len(e.modules) >= 1
    /\ \A k \in 1 .. Len(e.funcs) : IndexOf(e.sigs, e.funcs[k].sig_index)
    /\ \A i \in 1 .. Len(e.modules) :
          e.modules[i].is_host \/ ModuleWhole(e, e.modules[i])
    /\ \A b \in e.module_bindings \cup e.registered_module_bindings :
          IndexOf(e.modules, b.index)

(* Every function of an environment has an offset.                          *)
HasBodies(e) ==
    \A k \in 1 .. Len(e.funcs) :
        e.funcs[k].is_host \/ IndexOf(e.istream, e.funcs[k].offset)

(* What was there stays where it is, and nothing of it is changed but the   *)
(* contents of tables and memories and the exports of host modules.         *)
Kept(e, base) ==
    /\ \A v \in Vectors : Len(base[v]) <= Len(e[v])
    /\ \A v \in {"sigs", "funcs", "globals", "istream"} :
          \A i \in 1 .. Len(base[v]) : e[v][i] = base[v][i]
    /\ \A i \in 1 .. Len(base.modules) :
          \/ e.modules[i] = base.modules[i]
          \/ e.modules[i].is_host /\ base.modules[i].is_host
    /\ \A i \in 1 .. Len(base.tables) :
          Len(e.tables[i].func_indexes) = Len(base.tables[i].func_indexes)
    /\ \A i \in 1 .. Len(base.memories) :
          e.memories[i].page_limits.max = base.memories[i].page_limits.max
    /\ e.module_bindings = base.module_bindings
    /\ e.registered_module_bindings = base.registered_module_bindings

(* Nor have these been written.                                             *)
Unwritten(e, base) ==
    \A v \in {"tables", "memories"} :
        \A i \in 1 .. Len(base[v]) : e[v][i] = base[v][i]

(* A load works on the environment base.                                    *)
Begun(e, base) ==
    Environment(base) /\ Environment(e) /\ Kept(e, base) /\ Unwritten(e, base)

-----------------------------------------------------------------------------
(* Sequences *)

LEMMA SeqFacts ==
    ASSUME NEW s, IsSeq(s)
    PROVE  Len(s) \in Nat /\ DOMAIN s = 1 .. Len(s)
BY DEF IsSeq

LEMMA FunctionIsSeq ==
    ASSUME NEW n \in Nat, NEW s, s = [i \in 1 .. n |-> s[i]]
    PROVE  IsSeq(s) /\ Len(s) = n
BY DEF IsSeq, Range

LEMMA AppendFacts ==
    ASSUME NEW s, IsSeq(s), NEW x
    PROVE  /\ IsSeq(Append(s, x)) /\ Len(Append(s, x)) = Len(s) + 1
           /\ \A i \in 1 .. Len(s) : Append(s, x)[i] = s[i]
           /\ Append(s, x)[Len(s) + 1] = x
<1>1. s \in Seq(Range(s) \cup {x})
  BY DEF IsSeq, Range
<1>2. /\ Append(s, x) \in Seq(Range(s) \cup {x})
      /\ Len(Append(s, x)) = Len(s) + 1
      /\ \A i \in 1 .. Len(s) : Append(s, x)[i] = s[i]
      /\ Append(s, x)[Len(s) + 1] = x
  BY <1>1
<1>3. IsSeq(Append(s, x))
  BY <1>2 DEF IsSeq, Range
<1> QED BY <1>2, <1>3

LEMMA SeqIsSeq ==
    ASSUME NEW S, NEW s \in Seq(S)
    PROVE  IsSeq(s)
BY DEF IsSeq, Range

Updated(s, i, x) == [s EXCEPT ![i] = x]

LEMMA UpdateFacts ==
    ASSUME NEW s, IsSeq(s), NEW i \in 1 .. Len(s), NEW x
    PROVE  /\ IsSeq(Updated(s, i, x)) /\ Len(Updated(s, i, x)) = Len(s)
           /\ \A j \in 1 .. Len(s) : j # i => Updated(s, i, x)[j] = s[j]
           /\ Updated(s, i, x)[i] = x
<1> DEFINE after == Updated(s, i, x)
<1>1. DOMAIN s = 1 .. Len(s) /\ Len(s) \in Nat
  BY SeqFacts
<1>2. /\ after = [j \in 1 .. Len(s) |-> after[j]]
      /\ \A j \in 1 .. Len(s) : j # i => after[j] = s[j]
      /\ after[i] = x
  BY <1>1 DEF Updated
<1>3. IsSeq(after) /\ Len(after) = Len(s)
  <2> HIDE DEF after
  <2> QED BY <1>1, <1>2, FunctionIsSeq
<1> QED BY <1>2, <1>3

Joined(s, t) == s \o t

LEMMA ConcatFacts ==
    ASSUME NEW s, IsSeq(s), NEW t, IsSeq(t)
    PROVE  /\ IsSeq(Joined(s, t)) /\ Len(Joined(s, t)) = Len(s) + Len(t)
           /\ \A i \in 1 .. Len(s) : Joined(s, t)[i] = s[i]
           /\ \A i \in 1 .. Len(t) : Joined(s, t)[Len(s) + i] = t[i]
<1>1. s \in Seq(Range(s) \cup Range(t)) /\ t \in Seq(Range(s) \cup Range(t))
  BY DEF IsSeq, Range
<1>2. /\ s \o t \in Seq(Range(s) \cup Range(t))
      /\ Len(s \o t) = Len(s) + Len(t)
      /\ \A i \in 1 .. Len(s) + Len(t) :
            (s \o t)[i] = IF i <= Len(s) THEN s[i] ELSE t[i - Len(s)]
  BY <1>1, ConcatProperties
<1>3. IsSeq(s \o t)
  BY <1>2, SeqIsSeq
<1> QED BY <1>2, <1>3, SeqFacts DEF Joined

LEMMA PrefixFacts ==
    ASSUME NEW s, IsSeq(s), NEW n \in 0 .. Len(s)
    PROVE  /\ IsSeq(SubSeq(s, 1, n)) /\ Len(SubSeq(s, 1, n)) = n
           /\ SubSeq(s, 1, n) = [i \in 1 .. n |-> s[i]]
<1>1. s \in Seq(Range(s))
  BY DEF IsSeq
<1>2. n \in Nat /\ SubSeq(s, 1, n) = [i \in 1 .. n |-> s[i]]
  BY <1>1, SeqFacts
<1> QED BY <1>2, FunctionIsSeq

-----------------------------------------------------------------------------
LEMMA BegunLengths ==
    ASSUME NEW e, NEW base, Begun(e, base)
    PROVE  /\ \A v \in Vectors : /\ Len(base[v]) \in Nat /\ Len(e[v]) \in Nat
                                 /\ Len(base[v]) <= Len(e[v])
           /\ Len(base.modules) \in Nat /\ Len(e.modules) \in Nat
           /\ Len(base.sigs) \in Nat /\ Len(e.sigs) \in Nat
           /\ Len(base.funcs) \in Nat /\ Len(e.funcs) \in Nat
           /\ Len(base.memories) \in Nat /\ Len(e.memories) \in Nat
           /\ Len(base.tables) \in Nat /\ Len(e.tables) \in Nat
           /\ Len(base.globals) \in Nat /\ Len(e.globals) \in Nat
           /\ Len(base.istream) \in Nat /\ Len(e.istream) \in Nat
           /\ Len(base.modules) <= Len(e.modules)
           /\ Len(base.sigs) <= Len(e.sigs) /\ Len(base.funcs) <= Len(e.funcs)
           /\ Len(base.memories) <= Len(e.memories)
           /\ Len(base.tables) <= Len(e.tables)
           /\ Len(base.globals) <= Len(e.globals)
           /\ Len(base.istream) <= Len(e.istream)
<1>1. \A v \in Vectors : /\ Len(base[v]) \in Nat /\ Len(e[v]) \in Nat
                         /\ Len(base[v]) <= Len(e[v])
  BY SeqFacts DEF Begun, Environment, Kept
<1> QED BY <1>1 DEF Vectors

LEMMA EnvironmentVectors ==
    ASSUME NEW e, Environment(e)
    PROVE  /\ IsSeq(e.modules) /\ IsSeq(e.sigs) /\ IsSeq(e.funcs)
           /\ IsSeq(e.memories) /\ IsSeq(e.tables) /\ IsSeq(e.globals)
           /\ IsSeq(e.istream)
BY DEF Environment, Vectors

(* What a callback may do to an environment. *)

(* An item is added at the end of a vector.                                 *)
LEMMA AppendBegun ==
    ASSUME NEW e, NEW base, Begun(e, base),
           NEW v \in Vectors \ {"modules"}, NEW x, NEW after,
           DOMAIN after = Fields,
           after[v] = Append(e[v], x),
           \A w \in Fields \ {v} : after[w] = e[w],
           v = "tables" => IsSeq(x.func_indexes)
    PROVE  Begun(after, base)
<1>1. \A w \in Vectors : /\ Len(base[w]) \in Nat /\ Len(e[w]) \in Nat
                         /\ Len(base[w]) <= Len(e[w])
  BY BegunLengths
<1>2. IsSeq(e[v])
  BY DEF Begun, Environment
<1>3. /\ IsSeq(after[v]) /\ Len(after[v]) = Len(e[v]) + 1
      /\ \A i \in 1 .. Len(e[v]) : after[v][i] = e[v][i]
      /\ after[v][Len(e[v]) + 1] = x
  BY <1>2, AppendFacts
<1>4. \A w \in Vectors : /\ Len(e[w]) <= Len(after[w])
                         /\ \A i \in 1 .. Len(e[w]) : after[w][i] = e[w][i]
  BY <1>1, <1>3 DEF Fields
<1>5. Environment(after)
  <2>1. \A w \in Vectors : IsSeq(after[w])
    BY <1>3 DEF Begun, Environment, Fields
  <2>2. after.modules = e.modules
    BY DEF Fields, Vectors
  <2>3. \A i \in 1 .. Len(after.tables) : IsSeq(after.tables[i].func_indexes)
    <3>1. CASE v = "tables"
      <4>1. /\ Len(after.tables) = Len(e.tables) + 1
            /\ \A i \in 1 .. Len(e.tables) : after.tables[i] = e.tables[i]
            /\ after.tables[Len(e.tables) + 1] = x
            /\ Len(e.tables) \in Nat
        BY <3>1, <1>1, <1>3
      <4>2. \A i \in 1 .. Len(e.tables) : IsSeq(e.tables[i].func_indexes)
        BY DEF Begun, Environment
      <4> QED BY <3>1, <4>1, <4>2, SMTT(30)
    <3>2. CASE v # "tables"
      <4>1. after.tables = e.tables
        BY <3>2 DEF Fields, Vectors
      <4> QED BY <4>1 DEF Begun, Environment
    <3> QED BY <3>1, <3>2
  <2> QED BY <2>1, <2>2, <2>3 DEF Begun, Environment
<1>6. Kept(after, base)
  <2>1. \A w \in Vectors :
           /\ Len(base[w]) <= Len(after[w])
           /\ \A i \in 1 .. Len(base[w]) : after[w][i] = e[w][i]
    BY <1>1, <1>3, <1>4 DEF Begun, Kept, Fields
  <2>2. /\ after.module_bindings = e.module_bindings
        /\ after.registered_module_bindings = e.registered_module_bindings
    BY DEF Fields, Vectors
  <2>3. \A w \in {"modules", "sigs", "funcs", "memories", "tables", "globals",
                  "istream"} :
           \A i \in 1 .. Len(base[w]) : after[w][i] = e[w][i]
    BY <2>1 DEF Vectors
  <2>4. Kept(e, base)
    BY DEF Begun
  <2>5. /\ \A i \in 1 .. Len(base.modules) : after.modules[i] = e.modules[i]
        /\ \A i \in 1 .. Len(base.tables) : after.tables[i] = e.tables[i]
        /\ \A i \in 1 .. Len(base.memories) : after.memories[i] = e.memories[i]
    BY <2>3
  <2>6. \A w \in {"sigs", "funcs", "globals", "istream"} :
           \A i \in 1 .. Len(base[w]) : after[w][i] = base[w][i]
    BY <2>3, <2>4 DEF Kept
  <2>7. \A w \in Vectors : Len(base[w]) <= Len(after[w])
    BY <2>1
  <2>8. /\ \A i \in 1 .. Len(base.modules) :
              \/ after.modules[i] = base.modules[i]
              \/ after.modules[i].is_host /\ base.modules[i].is_host
        /\ \A i \in 1 .. Len(base.tables) :
              Len(after.tables[i].func_indexes) = Len(base.tables[i].func_indexes)
        /\ \A i \in 1 .. Len(base.memories) :
              after.memories[i].page_limits.max = base.memories[i].page_limits.max
    BY <2>4, <2>5, SMTT(30) DEF Kept
  <2> QED BY <2>2, <2>4, <2>6, <2>7, <2>8 DEF Kept
<1>7. Unwritten(after, base)
  <2>1. \A w \in Vectors : \A i \in 1 .. Len(base[w]) : after[w][i] = e[w][i]
    BY <1>1, <1>4
  <2> QED BY <2>1 DEF Begun, Unwritten, Vectors
<1> QED BY <1>5, <1>6, <1>7 DEF Begun

(* An item that the load added is changed.                                  *)
LEMMA UpdateBegun ==
    ASSUME NEW e, NEW base, Begun(e, base),
           NEW v \in {"funcs", "globals"},
           NEW i \in Len(base[v]) + 1 .. Len(e[v]), NEW x, NEW after,
           DOMAIN after = Fields,
           after[v] = Updated(e[v], i, x),
           \A w \in Fields \ {v} : after[w] = e[w]
    PROVE  Begun(after, base)
<1>1. \A w \in Vectors : /\ Len(base[w]) \in Nat /\ Len(e[w]) \in Nat
                         /\ Len(base[w]) <= Len(e[w])
  BY BegunLengths
<1>2. IsSeq(e[v]) /\ i \in 1 .. Len(e[v])
  <2>1. v \in Vectors
    BY DEF Vectors
  <2> QED BY <1>1, <2>1 DEF Begun, Environment
<1>3. /\ IsSeq(after[v]) /\ Len(after[v]) = Len(e[v])
      /\ \A j \in 1 .. Len(e[v]) : j # i => after[v][j] = e[v][j]
  BY <1>2, UpdateFacts
<1>4. \A w \in Vectors : /\ Len(after[w]) = Len(e[w])
                         /\ \A j \in 1 .. Len(base[w]) : after[w][j] = e[w][j]
  BY <1>1, <1>3, SMTT(30) DEF Begun, Kept, Fields
<1>5. /\ after.modules = e.modules /\ after.tables = e.tables
      /\ after.memories = e.memories
      /\ after.module_bindings = e.module_bindings
      /\ after.registered_module_bindings = e.registered_module_bindings
  BY DEF Fields, Vectors
<1>6. Environment(after)
  <2>1. \A w \in Vectors : IsSeq(after[w])
    BY <1>3 DEF Begun, Environment, Fields
  <2> QED BY <2>1, <1>5 DEF Begun, Environment
<1>7. Kept(after, base)
  <2>1. Kept(e, base)
    BY DEF Begun
  <2>2. ASSUME NEW w \in {"sigs", "funcs", "globals", "istream"},
               NEW j \in 1 .. Len(base[w])
        PROVE  after[w][j] = base[w][j]
    <3>1. w \in Vectors
      BY DEF Vectors
    <3> QED BY <3>1, <1>4, <2>1 DEF Kept
  <2>3. \A w \in Vectors : Len(base[w]) <= Len(after[w])
    BY <1>4, <2>1 DEF Kept
  <2> QED BY <1>5, <2>1, <2>2, <2>3 DEF Kept
<1>8. Unwritten(after, base)
  BY <1>5 DEF Begun, Unwritten
<1> QED BY <1>6, <1>7, <1>8 DEF Begun

(* The module that is loaded is changed, or a module of the host.           *)
LEMMA ModuleBegun ==
    ASSUME NEW e, NEW base, Begun(e, base),
           NEW i \in 1 .. Len(e.modules), NEW x, NEW after,
           DOMAIN after = Fields,
           after.modules = Updated(e.modules, i, x),
           \A w \in Fields \ {"modules"} : after[w] = e[w],
           IsModule(x),
           i > Len(base.modules) \/ (e.modules[i].is_host /\ x.is_host)
    PROVE  Begun(after, base)
<1>1. \A w \in Vectors : /\ Len(base[w]) \in Nat /\ Len(e[w]) \in Nat
                         /\ Len(base[w]) <= Len(e[w])
  BY BegunLengths
<1>2. IsSeq(e.modules)
  BY DEF Begun, Environment, Vectors
<1>3. /\ IsSeq(after.modules) /\ Len(after.modules) = Len(e.modules)
      /\ \A j \in 1 .. Len(e.modules) : j # i => after.modules[j] = e.modules[j]
      /\ after.modules[i] = x
  BY <1>2, UpdateFacts
<1>4. \A w \in Vectors : Len(after[w]) = Len(e[w])
  BY <1>3 DEF Fields
<1>5. /\ after.tables = e.tables /\ after.memories = e.memories
      /\ after.sigs = e.sigs /\ after.funcs = e.funcs
      /\ after.globals = e.globals /\ after.istream = e.istream
      /\ after.module_bindings = e.module_bindings
      /\ after.registered_module_bindings = e.registered_module_bindings
  BY DEF Fields, Vectors
<1>6. Environment(after)
  <2>1. \A w \in Vectors : IsSeq(after[w])
    BY <1>3 DEF Begun, Environment, Fields
  <2> QED BY <2>1, <1>3, <1>5 DEF Begun, Environment
<1>7. Kept(after, base)
  <2>1. ASSUME NEW j \in 1 .. Len(base.modules)
        PROVE  \/ after.modules[j] = base.modules[j]
               \/ after.modules[j].is_host /\ base.modules[j].is_host
    <3>1. j \in 1 .. Len(e.modules) /\ Len(base.modules) \in Nat
      BY BegunLengths
    <3>2. \/ e.modules[j] = base.modules[j]
          \/ e.modules[j].is_host /\ base.modules[j].is_host
      BY DEF Begun, Kept
    <3> QED BY <3>1, <3>2, <1>3
  <2> QED BY <1>4, <1>5, <2>1, SMTT(30) DEF Begun, Kept
<1>8. Unwritten(after, base)
  BY <1>5 DEF Begun, Unwritten
<1> QED BY <1>6, <1>7, <1>8 DEF Begun

-----------------------------------------------------------------------------
(* What a file is *)

LEMMA FileFacts ==
    ASSUME NEW file, FileRead(file)
    PROVE  Len(file) \in Nat /\ Len(file) >= 1 /\ DOMAIN file = 1 .. Len(file)
<1>1. file # <<>> /\ file \in Seq(Range(file))
  BY DEF FileRead, Ended
<1> QED BY <1>1

Before(file, kind, n) == {m \in Declarations(file, kind) : m < n}

LEMMA BeforeFacts ==
    ASSUME NEW file, FileRead(file), NEW kind, NEW n
    PROVE  /\ IsFiniteSet(Before(file, kind, n))
           /\ ItemIndex(file, kind, n) = Cardinality(Before(file, kind, n))
           /\ ItemIndex(file, kind, n) \in Nat
<1>1. IsFiniteSet(1 .. Len(file))
  BY FileFacts, FS_Interval
<1>2. Before(file, kind, n) \subseteq 1 .. Len(file)
  BY FileFacts DEF Before, Declarations
<1>3. IsFiniteSet(Before(file, kind, n))
  BY <1>1, <1>2, FS_Subset
<1>4. ItemIndex(file, kind, n) = Cardinality(Before(file, kind, n))
  BY DEF ItemIndex, Before
<1> QED BY <1>3, <1>4, FS_CardinalityType

(* An index counts the declarations.                                        *)
LEMMA NextIndex ==
    ASSUME NEW file, FileRead(file), NEW kind, NEW n \in 1 .. Len(file)
    PROVE  ItemIndex(file, kind, n + 1)
               = ItemIndex(file, kind, n)
                   + (IF n \in Declarations(file, kind) THEN 1 ELSE 0)
<1>1. n \in Nat /\ \A m \in Declarations(file, kind) : m \in Nat
  BY FileFacts DEF Declarations
<1>2. CASE n \in Declarations(file, kind)
  <2>1. Before(file, kind, n + 1) = Before(file, kind, n) \cup {n}
    <3>1. \A m \in Declarations(file, kind) : m < n + 1 <=> m < n \/ m = n
      BY <1>1
    <3> QED BY <1>2, <3>1 DEF Before
  <2>2. n \notin Before(file, kind, n)
    BY <1>1 DEF Before
  <2> QED BY <1>2, <2>1, <2>2, BeforeFacts, FS_AddElement
<1>3. CASE n \notin Declarations(file, kind)
  <2>1. Before(file, kind, n + 1) = Before(file, kind, n)
    BY <1>1, <1>3 DEF Before
  <2> QED BY <1>3, <2>1, BeforeFacts
<1> QED BY <1>2, <1>3

LEMMA IndexesGrow ==
    ASSUME NEW file, FileRead(file), NEW kind,
           NEW m \in 1 .. Len(file) + 1, NEW n \in 1 .. Len(file) + 1
    PROVE  /\ m <= n => ItemIndex(file, kind, m) <= ItemIndex(file, kind, n)
           /\ m < n /\ m \in Declarations(file, kind)
                  => ItemIndex(file, kind, m) < ItemIndex(file, kind, n)
<1>1. ASSUME NEW k \in 1 .. Len(file) + 1, k <= n
      PROVE  ItemIndex(file, kind, k) <= ItemIndex(file, kind, n)
  <2>1. Before(file, kind, k) \subseteq Before(file, kind, n)
    <3>1. \A d \in Declarations(file, kind) : d \in Nat
      BY FileFacts DEF Declarations
    <3> QED BY <1>1, <3>1, FileFacts DEF Before
  <2> QED BY <2>1, BeforeFacts, FS_Subset
<1>2. m <= n => ItemIndex(file, kind, m) <= ItemIndex(file, kind, n)
  BY <1>1
<1>3. ASSUME m < n, m \in Declarations(file, kind)
      PROVE  ItemIndex(file, kind, m) < ItemIndex(file, kind, n)
  <2>1. m + 1 \in 1 .. Len(file) + 1 /\ m + 1 <= n /\ m \in 1 .. Len(file)
    BY <1>3, FileFacts
  <2>2. ItemIndex(file, kind, m + 1) = ItemIndex(file, kind, m) + 1
    BY <1>3, <2>1, NextIndex
  <2>3. ItemIndex(file, kind, m + 1) <= ItemIndex(file, kind, n)
    BY <1>1, <2>1
  <2> QED BY <2>2, <2>3, BeforeFacts
<1> QED BY <1>2, <1>3

LEMMA FirstIndex ==
    ASSUME NEW file, FileRead(file), NEW kind
    PROVE  ItemIndex(file, kind, 1) = 0
<1>1. Before(file, kind, 1) = {}
  BY FileFacts DEF Before, Declarations
<1> QED BY <1>1, BeforeFacts, FS_EmptySet

LEMMA LastIndex ==
    ASSUME NEW file, FileRead(file), NEW kind
    PROVE  ItemIndex(file, kind, Len(file) + 1)
               = Cardinality(Declarations(file, kind))
<1>1. Before(file, kind, Len(file) + 1) = Declarations(file, kind)
  BY FileFacts DEF Before, Declarations
<1> QED BY <1>1, BeforeFacts

LEMMA SectionOrder ==
    ASSUME NEW file, FileRead(file),
           NEW m \in 1 .. Len(file), NEW n \in 1 .. Len(file)
    PROVE  /\ /\ file[m].on = "type"
              /\ n \in Declarations(file, "func")
              => m < n
           /\ /\ file[m].on = "import"
              /\ file[n].on \in {"function_count", "function", "global_count",
                                 "global"}
              => m < n
<1>1. ASSUME {file[m].on, file[n].on} \subseteq DOMAIN SectionOf,
             SectionOf[file[m].on] < SectionOf[file[n].on]
      PROVE  m < n
  <2>1. SectionOf[file[m].on] \in Nat /\ SectionOf[file[n].on] \in Nat
    <3>1. \A s \in DOMAIN SectionOf : SectionOf[s] \in Nat
      BY DEF SectionOf
    <3> QED BY <1>1, <3>1
  <2>2. m # n
    BY <1>1, <2>1
  <2>3. n < m => SectionOf[file[n].on] <= SectionOf[file[m].on]
    BY <1>1, FileFacts DEF FileRead, SectionsInOrder
  <2> QED BY <1>1, <2>1, <2>2, <2>3, FileFacts
<1>2. ASSUME file[m].on = "type", n \in Declarations(file, "func")
      PROVE  m < n
  <2>1. file[n].on \in {"import", "function"}
    BY <1>2 DEF Declarations
  <2> QED BY <1>1, <1>2, <2>1 DEF SectionOf
<1>3. ASSUME file[m].on = "import",
             file[n].on \in {"function_count", "function", "global_count", "global"}
      PROVE  m < n
  BY <1>1, <1>3 DEF SectionOf
<1> QED BY <1>2, <1>3

(* Of counts there is one.                                                  *)
LEMMA CountsOnce ==
    ASSUME NEW file, FileRead(file),
           NEW m \in 1 .. Len(file), NEW n \in 1 .. Len(file),
           file[m].on \in {"type_count", "function_count", "global_count"},
           file[n].on = file[m].on
    PROVE  m = n /\ file[m].count \in Nat
<1>1. file[m].on \in Range(CountOf)
  BY DEF Range, CountOf
<1> QED BY <1>1, FileFacts DEF FileRead, Counted

LEMMA CountComesFirst ==
    ASSUME NEW file, FileRead(file), NEW n \in 1 .. Len(file)
    PROVE  /\ file[n].on = "type" =>
                 \E m \in 1 .. n - 1 : file[m].on = "type_count"
           /\ file[n].on = "function" =>
                 \E m \in 1 .. n - 1 : file[m].on = "function_count"
           /\ file[n].on = "global" =>
                 \E m \in 1 .. n - 1 : file[m].on = "global_count"
<1>1. DOMAIN CountOf = {"type", "function", "global"}
      /\ CountOf["type"] = "type_count"
      /\ CountOf["function"] = "function_count"
      /\ CountOf["global"] = "global_count"
  BY DEF CountOf
<1>2. file[n].on \in DOMAIN CountOf =>
          \E m \in 1 .. n - 1 : file[m].on = CountOf[file[n].on]
  BY FileFacts DEF FileRead, Counted
<1> QED BY <1>1, <1>2

Counters == [func |-> "function_count", global |-> "global_count"]
Definers == [func |-> "function", global |-> "global"]

(* A mapping has the items that have been declared, and once these are      *)
(* counted all that will be.                                                *)
Mapped(mapping, file, kind, n) ==
    /\ IsSeq(mapping)
    /\ (\A p \in 1 .. n - 1 : file[p].on # Counters[kind])
           => Len(mapping) = ItemIndex(file, kind, n)
    /\ \A p \in 1 .. n - 1 :
          file[p].on = Counters[kind]
              => Len(mapping) = ItemIndex(file, kind, p) + file[p].count

LEMMA MappedImport ==
    ASSUME NEW file, FileRead(file), NEW n \in 1 .. Len(file),
           NEW kind \in {"func", "global"}, NEW mapping, NEW x,
           Mapped(mapping, file, kind, n),
           file[n].on = "import", file[n].kind = kind
    PROVE  /\ Mapped(Append(mapping, x), file, kind, n + 1)
           /\ Len(mapping) = ItemIndex(file, kind, n)
<1>1. \A p \in 1 .. n : file[p].on # Counters[kind]
  <2>1. \A p \in 1 .. Len(file) : file[p].on = Counters[kind] => n < p
    BY SectionOrder DEF Counters
  <2>2. \A p \in 1 .. n : p \in 1 .. Len(file) /\ ~(n < p)
    BY FileFacts
  <2> QED BY <2>1, <2>2
<1>2. n \in Nat /\ n + 1 - 1 = n /\ \A p \in 1 .. n - 1 : p \in 1 .. n
  BY FileFacts
<1>3. n \in Declarations(file, kind)
  BY FileFacts DEF Declarations
<1>4. Len(mapping) = ItemIndex(file, kind, n) /\ IsSeq(mapping)
  BY <1>1, <1>2 DEF Mapped
<1>5. IsSeq(Append(mapping, x)) /\ Len(Append(mapping, x)) = Len(mapping) + 1
  BY <1>4, AppendFacts
<1>6. ItemIndex(file, kind, n + 1) = ItemIndex(file, kind, n) + 1
  BY <1>3, NextIndex
<1> DEFINE longer == Append(mapping, x)
<1>7. IsSeq(longer) /\ Len(longer) = ItemIndex(file, kind, n + 1)
  BY <1>4, <1>5, <1>6
<1> HIDE DEF longer
<1>8. Mapped(longer, file, kind, n + 1)
  <2>1. \A p \in 1 .. n + 1 - 1 : file[p].on # Counters[kind]
    BY <1>1, <1>2
  <2> QED BY <1>7, <2>1 DEF Mapped
<1> QED BY <1>4, <1>8 DEF longer

LEMMA MappedCount ==
    ASSUME NEW file, FileRead(file), NEW n \in 1 .. Len(file),
           NEW kind \in {"func", "global"}, NEW mapping, NEW more,
           Mapped(mapping, file, kind, n),
           file[n].on = Counters[kind], IsSeq(more), Len(more) = file[n].count
    PROVE  /\ Mapped(Joined(mapping, more), file, kind, n + 1)
           /\ Len(mapping) = ItemIndex(file, kind, n)
           /\ file[n].count \in Nat
<1>1. file[n].on \in {"function_count", "global_count"}
  BY DEF Counters
<1>2. \A p \in 1 .. Len(file) : file[p].on = Counters[kind] => p = n
  BY <1>1, CountsOnce
<1>3. n \in Nat /\ n + 1 - 1 = n
      /\ \A p \in 1 .. n - 1 : p \in 1 .. Len(file) /\ p # n
  BY FileFacts
<1>4. Len(mapping) = ItemIndex(file, kind, n) /\ IsSeq(mapping)
  BY <1>2, <1>3 DEF Mapped
<1>5. /\ IsSeq(Joined(mapping, more))
      /\ Len(Joined(mapping, more)) = ItemIndex(file, kind, n) + file[n].count
  <2>1. IsSeq(Joined(mapping, more)) /\ Len(Joined(mapping, more)) = Len(mapping) + Len(more)
    BY <1>4, ConcatFacts
  <2> QED BY <1>4, <2>1
<1>6. \A p \in 1 .. n : p \in 1 .. Len(file)
  BY FileFacts
<1>7. file[n].count \in Nat
  BY <1>1, CountsOnce
<1> DEFINE longer == Joined(mapping, more)
<1> HIDE DEF longer
<1>8. Mapped(longer, file, kind, n + 1)
  <2>1. IsSeq(longer) /\ Len(longer) = ItemIndex(file, kind, n) + file[n].count
    BY <1>5 DEF longer
  <2>2. \A p \in 1 .. n + 1 - 1 : file[p].on = Counters[kind] => p = n
    BY <1>2, <1>3, <1>6
  <2>3. n \in 1 .. n + 1 - 1
    BY <1>3
  <2> QED BY <2>1, <2>2, <2>3 DEF Mapped
<1> QED BY <1>4, <1>7, <1>8 DEF longer

(* Nothing else changes it.                                                 *)
LEMMA MappedStays ==
    ASSUME NEW file, FileRead(file), NEW n \in 1 .. Len(file),
           NEW kind \in {"func", "global"}, NEW mapping,
           Mapped(mapping, file, kind, n), file[n].on # Counters[kind],
           ~(file[n].on = "import" /\ file[n].kind = kind)
    PROVE  Mapped(mapping, file, kind, n + 1)
<1>1. n \in Nat /\ n + 1 - 1 = n /\ \A p \in 1 .. n : p = n \/ p \in 1 .. n - 1
  BY FileFacts
<1>2. ASSUME \A p \in 1 .. n : file[p].on # Counters[kind]
      PROVE  Len(mapping) = ItemIndex(file, kind, n + 1)
  <2>1. \A p \in 1 .. n - 1 : file[p].on # Counters[kind]
    BY <1>1, <1>2
  <2>2. n \notin Declarations(file, kind)
    <3>1. file[n].on # Definers[kind]
      BY <2>1, CountComesFirst DEF Counters, Definers
    <3> QED BY <3>1 DEF Declarations, Definers
  <2>3. Len(mapping) = ItemIndex(file, kind, n)
    BY <2>1 DEF Mapped
  <2> QED BY <2>2, <2>3, NextIndex, BeforeFacts
<1> QED BY <1>1, <1>2 DEF Mapped

(* An item that is defined has its place.                                   *)
LEMMA MappedItem ==
    ASSUME NEW file, FileRead(file), NEW n \in 1 .. Len(file),
           NEW kind \in {"func", "global"}, NEW mapping,
           Mapped(mapping, file, kind, n), file[n].on = Definers[kind]
    PROVE  IndexOf(mapping, ItemIndex(file, kind, n))
<1>1. PICK p \in 1 .. n - 1 : file[p].on = Counters[kind]
  BY CountComesFirst DEF Definers, Counters
<1>2. p \in 1 .. Len(file) /\ n \in Nat
  BY FileFacts
<1>3. Len(mapping) = ItemIndex(file, kind, p) + file[p].count
  BY <1>1 DEF Mapped
<1>4. ItemIndex(file, kind, n) < ItemIndex(file, kind, p) + file[p].count
  BY <1>1, <1>2, FileFacts DEF FileRead, Counted, Definers, Counters
<1>5. file[p].count \in Nat
  BY <1>1, <1>2, CountsOnce DEF Counters
<1> QED BY <1>3, <1>4, <1>5, BeforeFacts DEF IndexOf

-----------------------------------------------------------------------------
(* A load after the first n - 1 callbacks of a file *)

LoadFields == {"env", "sig_index_mapping", "func_index_mapping",
               "global_index_mapping", "num_func_imports", "num_global_imports",
               "elem_segment_infos", "data_segment_infos", "init_expr_value",
               "table_offset", "ok", "aborted"}

(* A type has the index that the module gives it.                           *)
TypeRead(ld, e) ==
    LET index == TranslateSigIndexToEnv(ld, e.index)
    IN  IndexOf(ld.env.sigs, index) /\ ld.env.sigs[index + 1] = e.sig

(* So has a function, imported or not.                                      *)
FuncRead(ld, file, m) ==
    LET item == ItemIndex(file, "func", m)
        index == TranslateFuncIndexToEnv(ld, item)
        sig_index == ld.env.funcs[index + 1].sig_index
    IN  /\ IndexOf(ld.func_index_mapping, item) /\ IndexOf(ld.env.funcs, index)
        /\ IndexOf(ld.env.sigs, sig_index)
        /\ ld.env.sigs[sig_index + 1] = DeclaredSig(file, m)

GlobalRead(ld, file, m, base) ==
    LET item == ItemIndex(file, "global", m)
        index == TranslateGlobalIndexToEnv(ld, item)
    IN  /\ IndexOf(ld.global_index_mapping, item) /\ IndexOf(ld.env.globals, index)
        /\ file[m].on = "global" => Len(base.globals) <= index

ExportRead(ld, e) ==
    /\ IndexOf(ld.func_index_mapping, e.item)
    /\ \E i \in 1 .. Len(Module(ld).exports) :
          /\ Module(ld).exports[i].name = e.name
          /\ Module(ld).exports[i].index = TranslateFuncIndexToEnv(ld, e.item)

(* What the callback m left.                                                *)
ItemRead(ld, file, m, base) ==
    /\ file[m].on = "type" => TypeRead(ld, file[m])
    /\ m \in Declarations(file, "func") => FuncRead(ld, file, m)
    /\ m \in Declarations(file, "global") => GlobalRead(ld, file, m, base)
    /\ m \in Declarations(file, "table") => Module(ld).table_index # -1
    /\ m \in Declarations(file, "memory") => Module(ld).memory_index # -1
    /\ file[m].on = "export" /\ file[m].kind = "func" => ExportRead(ld, file[m])

(* Functions that have been counted will come to lie where the mapping says,*)
(* which is behind base.                                                    *)
FuncPlaces(ld, file, n, base) ==
    \A p \in 1 .. n - 1 :
        file[p].on = "function_count" =>
            LET first == ItemIndex(file, "func", p)
                start == Len(ld.env.funcs) - ItemIndex(file, "func", n)
            IN  /\ Len(base.funcs) <= start + first
                /\ \A i \in first + 1 .. first + file[p].count :
                      ld.func_index_mapping[i] = start + i - 1

(* A function that has been declared waits for its body.                    *)
Bodiless(ld, file, n, index) ==
    \E m \in 1 .. n - 1 :
        /\ file[m].on = "function"
        /\ TranslateFuncIndexToEnv(ld, ItemIndex(file, "func", m)) = index
        /\ \A b \in 1 .. n - 1 :
              file[b].on = "body" => file[b].func # ItemIndex(file, "func", m)

FuncFields == {"is_host", "sig_index", "offset"}

(* The functions that the load has added.                                   *)
FuncsWhole(ld, file, n, base) ==
    \A k \in Len(base.funcs) + 1 .. Len(ld.env.funcs) :
        LET func == ld.env.funcs[k]
        IN  /\ DOMAIN func = FuncFields /\ IndexOf(ld.env.sigs, func.sig_index)
            /\ \/ func.is_host
               \/ IndexOf(ld.env.istream, func.offset)
               \/ Bodiless(ld, file, n, k - 1)

Read(ld, file, n, base) ==
    /\ DOMAIN ld = LoadFields
    /\ Environment(base) /\ Environment(ld.env) /\ Kept(ld.env, base)
    /\ Len(ld.env.modules) = Len(base.modules) + 1
    /\ ~Module(ld).is_host /\ ModuleWhole(ld.env, Module(ld))
    /\ Mapped(ld.func_index_mapping, file, "func", n)
    /\ Mapped(ld.global_index_mapping, file, "global", n)
    /\ \A m \in 1 .. n - 1 : ItemRead(ld, file, m, base)
    /\ FuncPlaces(ld, file, n, base) /\ FuncsWhole(ld, file, n, base)

-----------------------------------------------------------------------------
(* What every callback leaves as it is *)

Longer(e, after) ==
    /\ Len(after.modules) = Len(e.modules)
    /\ Len(e.sigs) <= Len(after.sigs) /\ Len(e.funcs) <= Len(after.funcs)
    /\ Len(e.memories) <= Len(after.memories)
    /\ Len(e.tables) <= Len(after.tables)
    /\ Len(e.globals) <= Len(after.globals)
    /\ Len(e.istream) <= Len(after.istream)

ModuleGrows(m, after) ==
    /\ ~after.is_host
    /\ m.table_index # -1 => after.table_index # -1
    /\ m.memory_index # -1 => after.memory_index # -1
    /\ Len(m.exports) <= Len(after.exports)
    /\ \A i \in 1 .. Len(m.exports) : after.exports[i] = m.exports[i]

Prefix(s, t) == Len(s) <= Len(t) /\ \A i \in 1 .. Len(s) : t[i] = s[i]

Grows(a, b) ==
    /\ DOMAIN b = LoadFields /\ Environment(b.env)
    /\ Longer(a.env, b.env)
    /\ \A i \in 1 .. Len(a.env.sigs) : b.env.sigs[i] = a.env.sigs[i]
    /\ \A k \in 1 .. Len(a.env.funcs) :
          /\ DOMAIN b.env.funcs[k] = DOMAIN a.env.funcs[k]
          /\ b.env.funcs[k].sig_index = a.env.funcs[k].sig_index
          /\ b.env.funcs[k].is_host = a.env.funcs[k].is_host
          /\ \/ b.env.funcs[k].offset = a.env.funcs[k].offset
             \/ IndexOf(b.env.istream, b.env.funcs[k].offset)
    /\ ModuleGrows(Module(a), Module(b))
    /\ Prefix(a.func_index_mapping, b.func_index_mapping)
    /\ Prefix(a.global_index_mapping, b.global_index_mapping)

LEMMA Lengths ==
    ASSUME NEW e, Environment(e)
    PROVE  /\ Len(e.modules) \in Nat /\ Len(e.sigs) \in Nat
           /\ Len(e.funcs) \in Nat /\ Len(e.memories) \in Nat
           /\ Len(e.tables) \in Nat /\ Len(e.globals) \in Nat
           /\ Len(e.istream) \in Nat
BY EnvironmentVectors, SeqFacts

LEMMA IndexStays ==
    ASSUME NEW s, NEW t, Len(s) \in Nat, Len(t) \in Nat, Len(s) <= Len(t),
           NEW index, IndexOf(s, index)
    PROVE  IndexOf(t, index) /\ index + 1 \in 1 .. Len(s) /\ index \in Nat
BY DEF IndexOf

LEMMA PrefixStays ==
    ASSUME NEW s, NEW t, IsSeq(s), IsSeq(t), Prefix(s, t),
           NEW index, IndexOf(s, index)
    PROVE  IndexOf(t, index) /\ t[index + 1] = s[index + 1]
BY SeqFacts DEF IndexOf, Prefix

LEMMA ModuleStays ==
    ASSUME NEW e, NEW after, NEW m, Environment(e), Environment(after),
           Longer(e, after), ModuleWhole(e, m)
    PROVE  ModuleWhole(after, m)
<1>1. /\ Len(e.funcs) \in Nat /\ Len(e.memories) \in Nat
      /\ Len(e.tables) \in Nat /\ Len(e.globals) \in Nat
      /\ Len(e.istream) \in Nat
      /\ Len(after.funcs) \in Nat /\ Len(after.memories) \in Nat
      /\ Len(after.tables) \in Nat /\ Len(after.globals) \in Nat
      /\ Len(after.istream) \in Nat
      /\ Len(e.funcs) <= Len(after.funcs) /\ Len(e.memories) <= Len(after.memories)
      /\ Len(e.tables) <= Len(after.tables) /\ Len(e.globals) <= Len(after.globals)
      /\ Len(e.istream) <= Len(after.istream)
  BY Lengths DEF Longer
<1>2. ASSUME NEW i \in 1 .. Len(m.exports)
      PROVE  ExportExists(after, m.exports[i])
  <2> DEFINE x == m.exports[i]
  <2>1. \/ x.kind = "func" /\ IndexOf(e.funcs, x.index)
        \/ x.kind = "table" /\ IndexOf(e.tables, x.index)
        \/ x.kind = "memory" /\ IndexOf(e.memories, x.index)
        \/ x.kind = "global" /\ IndexOf(e.globals, x.index)
    BY DEF ModuleWhole, ExportExists, IndexOf
  <2>2. \/ x.kind = "func" /\ IndexOf(after.funcs, x.index)
        \/ x.kind = "table" /\ IndexOf(after.tables, x.index)
        \/ x.kind = "memory" /\ IndexOf(after.memories, x.index)
        \/ x.kind = "global" /\ IndexOf(after.globals, x.index)
    <3> HIDE DEF x
    <3> QED BY <1>1, <2>1, IndexStays
  <2> QED BY <2>2 DEF ExportExists, IndexOf
<1>3. /\ m.table_index = -1 \/ IndexOf(e.tables, m.table_index)
      /\ m.memory_index = -1 \/ IndexOf(e.memories, m.memory_index)
      /\ m.start_func_index = -1 \/ IndexOf(e.funcs, m.start_func_index)
      /\ m.istream_start \in Int /\ m.istream_end \in Int
      /\ m.istream_start <= m.istream_end /\ m.istream_end <= Len(e.istream)
  BY DEF ModuleWhole
<1>4. /\ m.table_index = -1 \/ IndexOf(after.tables, m.table_index)
      /\ m.memory_index = -1 \/ IndexOf(after.memories, m.memory_index)
      /\ m.start_func_index = -1 \/ IndexOf(after.funcs, m.start_func_index)
      /\ m.istream_start \in Int /\ m.istream_end \in Int
      /\ m.istream_start <= m.istream_end
      /\ m.istream_end <= Len(after.istream)
  <2>1. m.table_index = -1 \/ IndexOf(after.tables, m.table_index)
    BY <1>1, <1>3, IndexStays
  <2>2. m.memory_index = -1 \/ IndexOf(after.memories, m.memory_index)
    BY <1>1, <1>3, IndexStays
  <2>3. m.start_func_index = -1 \/ IndexOf(after.funcs, m.start_func_index)
    BY <1>1, <1>3, IndexStays
  <2> QED BY <1>1, <1>3, <2>1, <2>2, <2>3
<1> QED BY <1>2, <1>4 DEF ModuleWhole

LEMMA ItemStays ==
    ASSUME NEW file, FileRead(file), NEW n \in 1 .. Len(file) + 1, NEW base,
           NEW a, NEW b, Environment(a.env), Grows(a, b),
           IsSeq(a.func_index_mapping), IsSeq(a.global_index_mapping),
           IsSeq(b.func_index_mapping), IsSeq(b.global_index_mapping),
           IsModule(Module(a)), IsModule(Module(b)),
           NEW m \in 1 .. n - 1, ItemRead(a, file, m, base),
           \/ b.sig_index_mapping = a.sig_index_mapping
           \/ n <= Len(file) /\ file[n].on = "type_count"
    PROVE  ItemRead(b, file, m, base)
<1>1. /\ Len(a.env.sigs) \in Nat /\ Len(b.env.sigs) \in Nat
      /\ Len(a.env.funcs) \in Nat /\ Len(b.env.funcs) \in Nat
      /\ Len(a.env.globals) \in Nat /\ Len(b.env.globals) \in Nat
      /\ Len(a.env.sigs) <= Len(b.env.sigs)
      /\ Len(a.env.funcs) <= Len(b.env.funcs)
      /\ Len(a.env.globals) <= Len(b.env.globals)
  BY Lengths DEF Grows, Longer
<1>2. m \in 1 .. Len(file) /\ m < n /\ n \in Nat
  BY FileFacts
<1>3. ASSUME file[m].on = "type" PROVE TypeRead(b, file[m])
  <2>1. b.sig_index_mapping = a.sig_index_mapping
    <3>1. PICK p \in 1 .. m - 1 : file[p].on = "type_count"
      BY <1>2, <1>3, CountComesFirst
    <3>2. p \in 1 .. Len(file) /\ p # n
      BY <1>2
    <3>3. n <= Len(file) => n \in 1 .. Len(file)
      BY FileFacts
    <3> QED BY <3>1, <3>2, <3>3, CountsOnce
  <2> DEFINE index == TranslateSigIndexToEnv(a, file[m].index)
  <2>2. IndexOf(a.env.sigs, index) /\ a.env.sigs[index + 1] = file[m].sig
    BY <1>3 DEF ItemRead, TypeRead
  <2>3. TranslateSigIndexToEnv(b, file[m].index) = index
    BY <2>1 DEF TranslateSigIndexToEnv
  <2> HIDE DEF index
  <2>4. IndexOf(b.env.sigs, index) /\ index + 1 \in 1 .. Len(a.env.sigs)
    BY <1>1, <2>2, IndexStays
  <2>5. b.env.sigs[index + 1] = file[m].sig
    BY <2>2, <2>4 DEF Grows
  <2> QED BY <2>3, <2>4, <2>5 DEF TypeRead
<1>4. ASSUME m \in Declarations(file, "func") PROVE FuncRead(b, file, m)
  <2> DEFINE item == ItemIndex(file, "func", m)
             index == TranslateFuncIndexToEnv(a, item)
             sig_index == a.env.funcs[index + 1].sig_index
  <2>1. /\ IndexOf(a.func_index_mapping, item) /\ IndexOf(a.env.funcs, index)
        /\ IndexOf(a.env.sigs, sig_index)
        /\ a.env.sigs[sig_index + 1] = DeclaredSig(file, m)
    BY <1>4 DEF ItemRead, FuncRead
  <2>2. /\ IndexOf(b.func_index_mapping, item)
        /\ b.func_index_mapping[item + 1] = a.func_index_mapping[item + 1]
    BY <2>1, PrefixStays DEF Grows
  <2>3. TranslateFuncIndexToEnv(b, item) = index
    BY <2>2 DEF TranslateFuncIndexToEnv
  <2> HIDE DEF index, item
  <2>4. IndexOf(b.env.funcs, index) /\ index + 1 \in 1 .. Len(a.env.funcs)
    BY <1>1, <2>1, IndexStays
  <2>5. b.env.funcs[index + 1].sig_index = sig_index
    BY <2>4 DEF Grows
  <2> HIDE DEF sig_index
  <2>6. sig_index + 1 \in 1 .. Len(a.env.sigs) /\ IndexOf(b.env.sigs, sig_index)
    BY <1>1, <2>1, IndexStays
  <2>7. b.env.sigs[sig_index + 1] = a.env.sigs[sig_index + 1]
    BY <2>6 DEF Grows
  <2>8. /\ IndexOf(b.env.sigs, b.env.funcs[index + 1].sig_index)
        /\ b.env.sigs[b.env.funcs[index + 1].sig_index + 1] = DeclaredSig(file, m)
    BY <2>1, <2>5, <2>6, <2>7
  <2> QED BY <2>2, <2>3, <2>4, <2>8 DEF FuncRead, item
<1>5. ASSUME m \in Declarations(file, "global") PROVE GlobalRead(b, file, m, base)
  <2> DEFINE item == ItemIndex(file, "global", m)
             index == TranslateGlobalIndexToEnv(a, item)
  <2>1. /\ IndexOf(a.global_index_mapping, item) /\ IndexOf(a.env.globals, index)
        /\ file[m].on = "global" => Len(base.globals) <= index
    BY <1>5 DEF ItemRead, GlobalRead
  <2>2. /\ IndexOf(b.global_index_mapping, item)
        /\ b.global_index_mapping[item + 1] = a.global_index_mapping[item + 1]
    BY <2>1, PrefixStays DEF Grows
  <2>3. TranslateGlobalIndexToEnv(b, item) = index
    BY <2>2 DEF TranslateGlobalIndexToEnv
  <2> HIDE DEF index, item
  <2>4. IndexOf(b.env.globals, index)
    BY <1>1, <2>1, IndexStays
  <2> QED BY <2>1, <2>2, <2>3, <2>4 DEF GlobalRead, item
<1>6. ASSUME file[m].on = "export", file[m].kind = "func"
      PROVE  ExportRead(b, file[m])
  <2>1. IndexOf(a.func_index_mapping, file[m].item)
    BY <1>6 DEF ItemRead, ExportRead
  <2>2. PICK i \in 1 .. Len(Module(a).exports) :
              /\ Module(a).exports[i].name = file[m].name
              /\ Module(a).exports[i].index
                     = TranslateFuncIndexToEnv(a, file[m].item)
    BY <1>6 DEF ItemRead, ExportRead
  <2>3. /\ IndexOf(b.func_index_mapping, file[m].item)
        /\ b.func_index_mapping[file[m].item + 1]
               = a.func_index_mapping[file[m].item + 1]
    BY <2>1, PrefixStays DEF Grows
  <2>4. TranslateFuncIndexToEnv(b, file[m].item)
            = TranslateFuncIndexToEnv(a, file[m].item)
    BY <2>3 DEF TranslateFuncIndexToEnv
  <2>5. /\ Module(b).exports[i] = Module(a).exports[i]
        /\ Len(Module(a).exports) <= Len(Module(b).exports)
    BY <2>2 DEF Grows, ModuleGrows
  <2>6. i \in 1 .. Len(Module(b).exports)
    <3>1. Len(Module(a).exports) \in Nat /\ Len(Module(b).exports) \in Nat
      BY SeqFacts DEF IsModule
    <3> QED BY <2>5, <3>1
  <2> QED BY <2>2, <2>3, <2>4, <2>5, <2>6 DEF ExportRead
<1>7. /\ m \in Declarations(file, "table") => Module(b).table_index # -1
      /\ m \in Declarations(file, "memory") => Module(b).memory_index # -1
  BY DEF ItemRead, Grows, ModuleGrows
<1> QED BY <1>3, <1>4, <1>5, <1>6, <1>7 DEF ItemRead

(* What is left to show of a callback that is no error.                     *)
LEMMA StepRead ==
    ASSUME NEW file, FileRead(file), NEW n \in 1 .. Len(file), NEW base,
           NEW a, NEW b, Read(a, file, n, base), Grows(a, b),
           Kept(b.env, base), ModuleWhole(b.env, Module(b)),
           b.sig_index_mapping = a.sig_index_mapping \/ file[n].on = "type_count",
           Mapped(b.func_index_mapping, file, "func", n + 1),
           Mapped(b.global_index_mapping, file, "global", n + 1),
           ItemRead(b, file, n, base),
           FuncPlaces(b, file, n + 1, base), FuncsWhole(b, file, n + 1, base)
    PROVE  Read(b, file, n + 1, base)
<1>1. /\ Environment(base) /\ Environment(a.env) /\ Environment(b.env)
      /\ Len(b.env.modules) = Len(base.modules) + 1
      /\ ~Module(b).is_host /\ DOMAIN b = LoadFields
      /\ Len(a.env.modules) = Len(base.modules) + 1
  BY DEF Read, Grows, Longer, ModuleGrows
<1>2. IsModule(Module(a)) /\ IsModule(Module(b))
  <2>1. Len(base.modules) \in Nat
    BY <1>1, Lengths
  <2>2. Len(a.env.modules) \in 1 .. Len(a.env.modules)
        /\ Len(b.env.modules) \in 1 .. Len(b.env.modules)
    BY <1>1, <2>1
  <2> QED BY <1>1, <2>2 DEF Module, This, Environment
<1>3. /\ IsSeq(a.func_index_mapping) /\ IsSeq(a.global_index_mapping)
      /\ IsSeq(b.func_index_mapping) /\ IsSeq(b.global_index_mapping)
  BY DEF Read, Mapped
<1>4. ASSUME NEW m \in 1 .. n + 1 - 1 PROVE ItemRead(b, file, m, base)
  <2>1. m = n \/ m \in 1 .. n - 1
    BY FileFacts
  <2>2. \A k \in 1 .. n - 1 : ItemRead(a, file, k, base)
    BY DEF Read
  <2>3. n \in 1 .. Len(file) + 1 /\ n <= Len(file)
    BY FileFacts
  <2> QED BY <1>1, <1>2, <1>3, <2>1, <2>2, <2>3, ItemStays
<1> QED BY <1>1, <1>4 DEF Read

(* Functions that had a body, or wait for one, still do.                    *)
LEMMA FuncsStay ==
    ASSUME NEW file, FileRead(file), NEW n \in 1 .. Len(file), NEW base,
           NEW a, NEW b, Read(a, file, n, base), Grows(a, b),
           IsSeq(b.func_index_mapping), file[n].on # "body",
           NEW k \in Len(base.funcs) + 1 .. Len(a.env.funcs)
    PROVE  LET func == b.env.funcs[k]
           IN  /\ DOMAIN func = FuncFields /\ IndexOf(b.env.sigs, func.sig_index)
               /\ \/ func.is_host
                  \/ IndexOf(b.env.istream, func.offset)
                  \/ Bodiless(b, file, n + 1, k - 1)
<1>1. /\ Len(a.env.sigs) \in Nat /\ Len(b.env.sigs) \in Nat
      /\ Len(a.env.funcs) \in Nat /\ Len(base.funcs) \in Nat
      /\ Len(a.env.istream) \in Nat /\ Len(b.env.istream) \in Nat
      /\ Len(a.env.sigs) <= Len(b.env.sigs)
      /\ Len(a.env.istream) <= Len(b.env.istream)
  BY Lengths DEF Read, Grows, Longer
<1>2. k \in 1 .. Len(a.env.funcs)
  BY <1>1
<1> DEFINE f == a.env.funcs[k]
           g == b.env.funcs[k]
<1>3. /\ DOMAIN g = DOMAIN f
      /\ g.sig_index = f.sig_index /\ g.is_host = f.is_host
      /\ g.offset = f.offset \/ IndexOf(b.env.istream, g.offset)
  BY <1>2 DEF Grows
<1>4. /\ DOMAIN f = FuncFields /\ IndexOf(a.env.sigs, f.sig_index)
      /\ f.is_host \/ IndexOf(a.env.istream, f.offset) \/ Bodiless(a, file, n, k - 1)
  BY DEF Read, FuncsWhole
<1>5. ASSUME Bodiless(a, file, n, k - 1) PROVE Bodiless(b, file, n + 1, k - 1)
  <2>1. PICK m \in 1 .. n - 1 :
           /\ file[m].on = "function"
           /\ TranslateFuncIndexToEnv(a, ItemIndex(file, "func", m)) = k - 1
           /\ \A c \in 1 .. n - 1 :
                 file[c].on = "body" => file[c].func # ItemIndex(file, "func", m)
    BY <1>5 DEF Bodiless
  <2>2. m \in 1 .. n + 1 - 1 /\ m \in 1 .. Len(file)
        /\ \A c \in 1 .. n + 1 - 1 : c = n \/ c \in 1 .. n - 1
    BY FileFacts
  <2>3. m \in Declarations(file, "func")
    BY <2>1, <2>2, FileFacts DEF Declarations
  <2>4. IndexOf(a.func_index_mapping, ItemIndex(file, "func", m))
    BY <2>1, <2>3 DEF Read, ItemRead, FuncRead
  <2>5. IsSeq(a.func_index_mapping)
    BY DEF Read, Mapped
  <2>6. TranslateFuncIndexToEnv(b, ItemIndex(file, "func", m)) = k - 1
    BY <2>1, <2>4, <2>5, PrefixStays DEF TranslateFuncIndexToEnv, Grows
  <2> QED BY <2>1, <2>2, <2>6 DEF Bodiless
<1> HIDE DEF f, g
<1>6. IndexOf(b.env.sigs, g.sig_index)
  BY <1>1, <1>3, <1>4, IndexStays
<1>7. IndexOf(a.env.istream, f.offset) => IndexOf(b.env.istream, f.offset)
  BY <1>1, IndexStays
<1>8. \/ g.is_host
      \/ IndexOf(b.env.istream, g.offset)
      \/ Bodiless(b, file, n + 1, k - 1)
  BY <1>3, <1>4, <1>5, <1>7
<1> QED BY <1>3, <1>4, <1>6, <1>8 DEF g

(* A callback that adds no function.                                        *)
LEMMA OtherRead ==
    ASSUME NEW file, FileRead(file), NEW n \in 1 .. Len(file), NEW base,
           NEW a, NEW b, Read(a, file, n, base), Grows(a, b),
           Kept(b.env, base), ModuleWhole(b.env, Module(b)),
           b.sig_index_mapping = a.sig_index_mapping \/ file[n].on = "type_count",
           file[n].on \notin {"function", "function_count", "body"},
           ~(file[n].on = "import" /\ file[n].kind = "func"),
           b.func_index_mapping = a.func_index_mapping,
           Len(b.env.funcs) = Len(a.env.funcs),
           Mapped(b.global_index_mapping, file, "global", n + 1),
           ItemRead(b, file, n, base)
    PROVE  Read(b, file, n + 1, base)
<1>1. Mapped(a.func_index_mapping, file, "func", n)
  BY DEF Read
<1>2. Mapped(b.func_index_mapping, file, "func", n + 1)
  BY <1>1, MappedStays DEF Counters
<1>3. ItemIndex(file, "func", n + 1) = ItemIndex(file, "func", n)
  <2>1. n \notin Declarations(file, "func")
    BY DEF Declarations
  <2> QED BY <2>1, NextIndex, BeforeFacts
<1>4. \A p \in 1 .. n + 1 - 1 : p = n \/ p \in 1 .. n - 1
  BY FileFacts
<1>5. FuncPlaces(b, file, n + 1, base)
  <2>1. FuncPlaces(a, file, n, base)
    BY DEF Read
  <2> QED BY <1>3, <1>4, <2>1 DEF FuncPlaces
<1>6. FuncsWhole(b, file, n + 1, base)
  <2>1. IsSeq(b.func_index_mapping) /\ file[n].on # "body"
    BY <1>2 DEF Mapped
  <2> QED BY <2>1, FuncsStay DEF FuncsWhole
<1> QED BY <1>2, <1>5, <1>6, StepRead

(* A callback that does not touch the environment.                          *)
LEMMA QuietGrows ==
    ASSUME NEW file, NEW n, NEW base, NEW a, NEW b, Read(a, file, n, base),
           DOMAIN b = LoadFields, b.env = a.env,
           \/ b.func_index_mapping = a.func_index_mapping
           \/ Prefix(a.func_index_mapping, b.func_index_mapping),
           IsSeq(b.global_index_mapping),
           Prefix(a.global_index_mapping, b.global_index_mapping)
    PROVE  /\ Grows(a, b) /\ Kept(b.env, base) /\ Module(b) = Module(a)
           /\ ModuleWhole(b.env, Module(b))
<1>1. Environment(a.env) /\ Kept(a.env, base) /\ ModuleWhole(a.env, Module(a))
      /\ ~Module(a).is_host /\ IsSeq(a.func_index_mapping)
  BY DEF Read, Mapped
<1>2. Module(b) = Module(a)
  BY DEF Module, This
<1>3. Longer(a.env, b.env)
  BY <1>1, Lengths DEF Longer
<1>4. Prefix(a.func_index_mapping, b.func_index_mapping)
  BY <1>1, SeqFacts DEF Prefix
<1>5. ModuleGrows(Module(a), Module(b))
  <2>1. Len(a.env.modules) \in 1 .. Len(a.env.modules)
    <3>1. Len(base.modules) \in Nat /\ Len(a.env.modules) = Len(base.modules) + 1
      BY Lengths DEF Read
    <3> QED BY <3>1
  <2>2. Len(Module(a).exports) \in Nat
    BY <1>1, <2>1, SeqFacts DEF Module, This, Environment, IsModule
  <2> QED BY <1>1, <1>2, <2>2 DEF ModuleGrows
<1> QED BY <1>1, <1>2, <1>3, <1>4, <1>5 DEF Grows

(* A module is changed between two callbacks.                               *)
LEMMA ReadKeeps ==
    ASSUME NEW file, FileRead(file), NEW n \in 1 .. Len(file) + 1, NEW base,
           NEW a, NEW b, Read(a, file, n, base), DOMAIN b = LoadFields,
           b.sig_index_mapping = a.sig_index_mapping,
           b.func_index_mapping = a.func_index_mapping,
           b.global_index_mapping = a.global_index_mapping,
           Grows(a, b), Kept(b.env, base), ModuleWhole(b.env, Module(b)),
           b.env.sigs = a.env.sigs, b.env.funcs = a.env.funcs,
           b.env.istream = a.env.istream
    PROVE  Read(b, file, n, base)
<1>1. /\ Environment(base) /\ Environment(a.env) /\ Environment(b.env)
      /\ Len(b.env.modules) = Len(base.modules) + 1
      /\ ~Module(b).is_host
      /\ Len(a.env.modules) = Len(base.modules) + 1
  BY DEF Read, Grows, Longer, ModuleGrows
<1>2. IsModule(Module(a)) /\ IsModule(Module(b))
  <2>1. Len(base.modules) \in Nat
    BY <1>1, Lengths
  <2>2. Len(a.env.modules) \in 1 .. Len(a.env.modules)
        /\ Len(b.env.modules) \in 1 .. Len(b.env.modules)
    BY <1>1, <2>1
  <2> QED BY <1>1, <2>2 DEF Module, This, Environment
<1>3. /\ Mapped(b.func_index_mapping, file, "func", n)
      /\ Mapped(b.global_index_mapping, file, "global", n)
      /\ IsSeq(a.func_index_mapping) /\ IsSeq(a.global_index_mapping)
      /\ IsSeq(b.func_index_mapping) /\ IsSeq(b.global_index_mapping)
  BY DEF Read, Mapped
<1>4. ASSUME NEW m \in 1 .. n - 1 PROVE ItemRead(b, file, m, base)
  <2>1. ItemRead(a, file, m, base)
    BY DEF Read
  <2> QED BY <1>1, <1>2, <1>3, <2>1, ItemStays
<1>5. FuncPlaces(b, file, n, base)
  BY DEF Read, FuncPlaces
<1>6. FuncsWhole(b, file, n, base)
  BY DEF Read, FuncsWhole, Bodiless, TranslateFuncIndexToEnv
<1> QED BY <1>1, <1>3, <1>4, <1>5, <1>6 DEF Read

-----------------------------------------------------------------------------
(* The callbacks *)

(* What a load must be after the callback n.                                *)
Works(b, file, n, base) ==
    /\ Begun(b.env, base)
    /\ b.ok /\ ~b.aborted => Read(b, file, n + 1, base)

QuietEvents == {"const", "get_global", "elem_offset", "elem_count", "elem", "data"}

LEMMA QuietWorks ==
    ASSUME NEW file, FileRead(file), NEW n \in 1 .. Len(file), NEW base,
           NEW a, NEW b, Read(a, file, n, base), Unwritten(a.env, base),
           file[n].on \in QuietEvents \/ ~b.ok,
           DOMAIN b = LoadFields, b.env = a.env,
           b.sig_index_mapping = a.sig_index_mapping,
           b.func_index_mapping = a.func_index_mapping,
           b.global_index_mapping = a.global_index_mapping
    PROVE  Works(b, file, n, base)
<1>1. Begun(b.env, base)
  BY DEF Read, Begun
<1>2. ASSUME b.ok, ~b.aborted PROVE Read(b, file, n + 1, base)
  <2>1. file[n].on \in QuietEvents
    BY <1>2
  <2>2. Mapped(a.global_index_mapping, file, "global", n)
    BY DEF Read
  <2>3. IsSeq(b.global_index_mapping)
        /\ Prefix(a.global_index_mapping, b.global_index_mapping)
    BY <2>2, SeqFacts DEF Mapped, Prefix
  <2>4. /\ Grows(a, b) /\ Kept(b.env, base) /\ ModuleWhole(b.env, Module(b))
    BY <2>3, QuietGrows
  <2>5. Mapped(b.global_index_mapping, file, "global", n + 1)
    BY <2>1, <2>2, MappedStays DEF QuietEvents, Counters
  <2>6. ItemRead(b, file, n, base)
    BY <2>1 DEF QuietEvents, ItemRead, Declarations
  <2>7. file[n].on \notin {"function", "function_count", "body", "import"}
    BY <2>1 DEF QuietEvents
  <2> QED BY <2>4, <2>5, <2>6, <2>7, OtherRead
<1> QED BY <1>1, <1>2 DEF Works

LEMMA QuietCallbacks ==
    ASSUME NEW file, FileRead(file), NEW n \in 1 .. Len(file), NEW base,
           NEW a, Read(a, file, n, base), Unwritten(a.env, base),
           NEW found, file[n].on \in QuietEvents \cup {"error"}
    PROVE  Works(Callback(a, file[n], found), file, n, base)
<1> DEFINE e == file[n]
           Quiet(b) == /\ DOMAIN b = LoadFields /\ b.env = a.env
                       /\ b.sig_index_mapping = a.sig_index_mapping
                       /\ b.func_index_mapping = a.func_index_mapping
                       /\ b.global_index_mapping = a.global_index_mapping
<1>1. DOMAIN a = LoadFields
  BY DEF Read
<1>2. Quiet(Error(a)) /\ ~Error(a).ok
  BY <1>1 DEF Error, LoadFields
<1>3. Quiet(OnInitExprConst(a, e))
  BY <1>1 DEF OnInitExprConst, LoadFields
<1>4. Quiet(OnInitExprGetGlobalExpr(a, e))
  <2>1. Quiet([a EXCEPT !.init_expr_value = Global_(a, e.global).typed_value])
    BY <1>1 DEF LoadFields
  <2> QED BY <1>2, <2>1 DEF OnInitExprGetGlobalExpr
<1>5. Quiet(EndElemSegmentInitExpr(a))
  BY <1>1 DEF EndElemSegmentInitExpr, AbortUnless, LoadFields
<1>6. Quiet(OnElemSegmentFunctionIndexCount(a, e))
  BY <1>1, <1>2 DEF OnElemSegmentFunctionIndexCount
<1>7. Quiet(OnElemSegmentFunctionIndex(a, e))
  <2>1. Quiet([a EXCEPT
                  !.elem_segment_infos = Append(@, ElemInfo(a, e)),
                  !.table_offset = Wrapped(@ + 1)])
    BY <1>1 DEF LoadFields
  <2> QED BY <1>2, <2>1 DEF OnElemSegmentFunctionIndex
<1>8. Quiet(OnDataSegmentData(a, e))
  <2> DEFINE more == [a EXCEPT !.data_segment_infos =
                        Append(@, [memory |-> Module(a).memory_index,
                                   at |-> a.init_expr_value.value,
                                   data |-> e.data])]
             next == IF a.init_expr_value.value + Len(e.data) > Len(Memory_(a).data)
                     THEN Error(a)
                     ELSE IF e.data = <<>> THEN a ELSE more
  <2>1. Quiet(more) /\ Quiet(a)
    BY <1>1 DEF LoadFields
  <2>2. Quiet(next)
    BY <1>2, <2>1
  <2>3. OnDataSegmentData(a, e)
            = AbortUnless(next, a.init_expr_value.type = "i32")
    BY DEF OnDataSegmentData
  <2> HIDE DEF next
  <2> QED BY <2>2, <2>3 DEF AbortUnless, LoadFields
<1> HIDE DEF Quiet
<1>9. Quiet(Callback(a, e, found)) /\ (e.on \in QuietEvents \/ ~Callback(a, e, found).ok)
  <2>1. CASE e.on = "const" BY <1>3, <2>1 DEF Callback, QuietEvents
  <2>2. CASE e.on = "get_global" BY <1>4, <2>2 DEF Callback, QuietEvents
  <2>3. CASE e.on = "elem_offset" BY <1>5, <2>3 DEF Callback, QuietEvents
  <2>4. CASE e.on = "elem_count" BY <1>6, <2>4 DEF Callback, QuietEvents
  <2>5. CASE e.on = "elem" BY <1>7, <2>5 DEF Callback, QuietEvents
  <2>6. CASE e.on = "data" BY <1>8, <2>6 DEF Callback, QuietEvents
  <2>7. CASE e.on = "error" BY <1>2, <2>7 DEF Callback, QuietEvents
  <2> QED BY <2>1, <2>2, <2>3, <2>4, <2>5, <2>6, <2>7 DEF QuietEvents
<1> QED BY <1>9, QuietWorks DEF Quiet

(* The counts change the mappings only.                                     *)
LEMMA TypeCountWorks ==
    ASSUME NEW file, FileRead(file), NEW n \in 1 .. Len(file), NEW base,
           NEW a, Read(a, file, n, base), Unwritten(a.env, base),
           file[n].on = "type_count"
    PROVE  Works(OnTypeCount(a, file[n]), file, n, base)
<1> DEFINE b == OnTypeCount(a, file[n])
<1>1. /\ DOMAIN b = LoadFields /\ b.env = a.env
      /\ b.func_index_mapping = a.func_index_mapping
      /\ b.global_index_mapping = a.global_index_mapping
  BY DEF Read, OnTypeCount, LoadFields
<1> HIDE DEF b
<1>2. Begun(b.env, base)
  BY <1>1 DEF Read, Begun
<1>3. Mapped(a.global_index_mapping, file, "global", n)
  BY DEF Read
<1>4. IsSeq(b.global_index_mapping)
      /\ Prefix(a.global_index_mapping, b.global_index_mapping)
  BY <1>1, <1>3, SeqFacts DEF Mapped, Prefix
<1>5. /\ Grows(a, b) /\ Kept(b.env, base) /\ ModuleWhole(b.env, Module(b))
  BY <1>1, <1>4, QuietGrows
<1>6. Mapped(b.global_index_mapping, file, "global", n + 1)
  BY <1>1, <1>3, MappedStays DEF Counters
<1>7. ItemRead(b, file, n, base)
  BY DEF ItemRead, Declarations
<1>8. Read(b, file, n + 1, base)
  BY <1>1, <1>5, <1>6, <1>7, OtherRead
<1> QED BY <1>2, <1>8 DEF Works, b

LEMMA GlobalCountWorks ==
    ASSUME NEW file, FileRead(file), NEW n \in 1 .. Len(file), NEW base,
           NEW a, Read(a, file, n, base), Unwritten(a.env, base),
           file[n].on = "global_count"
    PROVE  Works(OnGlobalCount(a, file[n]), file, n, base)
<1> DEFINE b == OnGlobalCount(a, file[n])
           more == [i \in 1 .. file[n].count |-> Len(a.env.globals) + i - 1]
<1>1. /\ DOMAIN b = LoadFields /\ b.env = a.env
      /\ b.func_index_mapping = a.func_index_mapping
      /\ b.sig_index_mapping = a.sig_index_mapping
      /\ b.global_index_mapping = Joined(a.global_index_mapping, more)
  BY DEF Read, OnGlobalCount, LoadFields, Joined
<1>2. file[n].count \in Nat
  BY CountsOnce
<1>3. IsSeq(more) /\ Len(more) = file[n].count
  BY <1>2, FunctionIsSeq
<1> HIDE DEF b, more
<1>4. Begun(b.env, base)
  BY <1>1 DEF Read, Begun
<1>5. Mapped(a.global_index_mapping, file, "global", n)
  BY DEF Read
<1>6. Mapped(b.global_index_mapping, file, "global", n + 1)
  <2>1. Counters["global"] = "global_count"
    BY DEF Counters
  <2>2. file[n].on = Counters["global"] /\ "global" \in {"func", "global"}
    BY <2>1
  <2>3. Mapped(Joined(a.global_index_mapping, more), file, "global", n + 1)
    BY <1>3, <1>5, <2>2, MappedCount
  <2> QED BY <1>1, <2>3
<1>7. IsSeq(b.global_index_mapping)
      /\ Prefix(a.global_index_mapping, b.global_index_mapping)
  <2>1. IsSeq(a.global_index_mapping)
    BY <1>5 DEF Mapped
  <2>2. /\ Len(Joined(a.global_index_mapping, more))
               = Len(a.global_index_mapping) + Len(more)
        /\ \A i \in 1 .. Len(a.global_index_mapping) :
              Joined(a.global_index_mapping, more)[i] = a.global_index_mapping[i]
    <3> DEFINE s == a.global_index_mapping
    <3>1. IsSeq(s) /\ IsSeq(more)
      BY <1>3, <2>1
    <3> HIDE DEF s
    <3>2. /\ Len(Joined(s, more)) = Len(s) + Len(more)
          /\ \A i \in 1 .. Len(s) : Joined(s, more)[i] = s[i]
      BY <3>1, ConcatFacts
    <3> QED BY <3>2 DEF s
  <2>3. Len(a.global_index_mapping) <= Len(a.global_index_mapping) + Len(more)
    BY <1>2, <1>3, <2>1, SeqFacts
  <2> QED BY <1>1, <1>6, <2>2, <2>3 DEF Prefix, Mapped
<1>8. /\ Grows(a, b) /\ Kept(b.env, base) /\ ModuleWhole(b.env, Module(b))
  BY <1>1, <1>7, QuietGrows
<1>9. ItemRead(b, file, n, base)
  BY DEF ItemRead, Declarations
<1>10. Read(b, file, n + 1, base)
  BY <1>1, <1>6, <1>8, <1>9, OtherRead
<1> QED BY <1>4, <1>10 DEF Works, b

LEMMA FunctionCountWorks ==
    ASSUME NEW file, FileRead(file), NEW n \in 1 .. Len(file), NEW base,
           NEW a, Read(a, file, n, base), Unwritten(a.env, base),
           file[n].on = "function_count"
    PROVE  Works(OnFunctionCount(a, file[n]), file, n, base)
<1> DEFINE b == OnFunctionCount(a, file[n])
           more == [i \in 1 .. file[n].count |-> Len(a.env.funcs) + i - 1]
           first == ItemIndex(file, "func", n)
<1>1. /\ DOMAIN b = LoadFields /\ b.env = a.env
      /\ b.global_index_mapping = a.global_index_mapping
      /\ b.sig_index_mapping = a.sig_index_mapping
      /\ b.func_index_mapping = Joined(a.func_index_mapping, more)
  BY DEF Read, OnFunctionCount, LoadFields, Joined
<1>2. file[n].count \in Nat
  BY CountsOnce
<1>3. IsSeq(more) /\ Len(more) = file[n].count
  BY <1>2, FunctionIsSeq
<1>4. \A i \in 1 .. file[n].count : more[i] = Len(a.env.funcs) + i - 1
  OBVIOUS
<1> HIDE DEF b, more
<1>5. Begun(b.env, base)
  BY <1>1 DEF Read, Begun
<1>6. Mapped(a.func_index_mapping, file, "func", n)
      /\ Mapped(a.global_index_mapping, file, "global", n)
  BY DEF Read
<1>7. Mapped(b.func_index_mapping, file, "func", n + 1)
      /\ Len(a.func_index_mapping) = first
  <2>1. file[n].on = Counters["func"] /\ "func" \in {"func", "global"}
    BY DEF Counters
  <2>2. Mapped(Joined(a.func_index_mapping, more), file, "func", n + 1)
        /\ Len(a.func_index_mapping) = first
    BY <1>3, <1>6, <2>1, MappedCount
  <2> QED BY <1>1, <2>2
<1>8. /\ IsSeq(a.func_index_mapping) /\ first \in Nat
      /\ IsSeq(b.func_index_mapping)
      /\ Len(Joined(a.func_index_mapping, more)) = first + Len(more)
      /\ \A i \in 1 .. Len(a.func_index_mapping) :
            Joined(a.func_index_mapping, more)[i] = a.func_index_mapping[i]
      /\ \A i \in 1 .. Len(more) :
            Joined(a.func_index_mapping, more)[Len(a.func_index_mapping) + i] = more[i]
  <2>1. IsSeq(a.func_index_mapping) /\ IsSeq(b.func_index_mapping)
    BY <1>6, <1>7 DEF Mapped
  <2>2. /\ Len(Joined(a.func_index_mapping, more))
               = Len(a.func_index_mapping) + Len(more)
        /\ \A i \in 1 .. Len(a.func_index_mapping) :
              Joined(a.func_index_mapping, more)[i] = a.func_index_mapping[i]
        /\ \A i \in 1 .. Len(more) :
            Joined(a.func_index_mapping, more)[Len(a.func_index_mapping) + i] = more[i]
    <3> DEFINE s == a.func_index_mapping
    <3>1. IsSeq(s) /\ IsSeq(more)
      BY <1>3, <2>1
    <3> HIDE DEF s
    <3>2. /\ Len(Joined(s, more)) = Len(s) + Len(more)
          /\ \A i \in 1 .. Len(s) : Joined(s, more)[i] = s[i]
          /\ \A i \in 1 .. Len(more) : Joined(s, more)[Len(s) + i] = more[i]
      BY <3>1, ConcatFacts
    <3> QED BY <3>2 DEF s
  <2> QED BY <1>7, <2>1, <2>2, BeforeFacts
<1>9. Prefix(a.func_index_mapping, b.func_index_mapping)
  BY <1>1, <1>2, <1>3, <1>7, <1>8 DEF Prefix
<1>10. IsSeq(b.global_index_mapping)
      /\ Prefix(a.global_index_mapping, b.global_index_mapping)
  BY <1>1, <1>6, SeqFacts DEF Mapped, Prefix
<1>11. /\ Grows(a, b) /\ Kept(b.env, base) /\ ModuleWhole(b.env, Module(b))
  BY <1>1, <1>9, <1>10, QuietGrows
<1>12. Mapped(b.global_index_mapping, file, "global", n + 1)
  BY <1>1, <1>6, MappedStays DEF Counters
<1>13. ItemRead(b, file, n, base)
  BY DEF ItemRead, Declarations
<1>14. FuncPlaces(b, file, n + 1, base)
  <2> SUFFICES ASSUME NEW p \in 1 .. n + 1 - 1, file[p].on = "function_count"
               PROVE  LET at_ == ItemIndex(file, "func", p)
                          start == Len(b.env.funcs) - ItemIndex(file, "func", n + 1)
                      IN  /\ Len(base.funcs) <= start + at_
                          /\ \A i \in at_ + 1 .. at_ + file[p].count :
                                b.func_index_mapping[i] = start + i - 1
    BY DEF FuncPlaces
  <2>1. p = n
    BY FileFacts, CountsOnce
  <2>2. ItemIndex(file, "func", n + 1) = first
    <3>1. n \notin Declarations(file, "func")
      BY DEF Declarations
    <3> QED BY <3>1, <1>8, NextIndex
  <2>3. Len(base.funcs) <= Len(a.env.funcs)
        /\ Len(base.funcs) \in Nat /\ Len(a.env.funcs) \in Nat
    BY <1>1, <1>5, BegunLengths
  <2>4. ASSUME NEW i \in first + 1 .. first + file[n].count
        PROVE  b.func_index_mapping[i] = Len(a.env.funcs) - first + i - 1
    <3> HIDE DEF first
    <3>0. first \in Nat
      BY <1>8
    <3>1. i - first \in 1 .. file[n].count /\ first + (i - first) = i
      BY <1>2, <3>0
    <3>2. Joined(a.func_index_mapping, more)[i] = more[i - first]
      BY <1>3, <1>7, <1>8, <3>1
    <3>3. more[i - first] = Len(a.env.funcs) + (i - first) - 1
      BY <1>4, <3>1
    <3> QED BY <1>1, <2>3, <3>0, <3>2, <3>3
  <2> HIDE DEF first
  <2>5. Len(base.funcs) <= Len(a.env.funcs) - first + first
    BY <1>8, <2>3
  <2> QED BY <1>1, <2>1, <2>2, <2>4, <2>5 DEF first
<1>15. FuncsWhole(b, file, n + 1, base)
  BY <1>1, <1>8, <1>11, FuncsStay DEF FuncsWhole
<1>16. Read(b, file, n + 1, base)
  BY <1>1, <1>7, <1>11, <1>12, <1>13, <1>14, <1>15, StepRead
<1> QED BY <1>5, <1>16 DEF Works, b

(* The environment after a callback that adds an item or changes a module.  *)
Added(e, after, v, x) ==
    /\ DOMAIN after = Fields /\ after[v] = Append(e[v], x)
    /\ \A w \in Fields \ {v} : after[w] = e[w]

ModuleSet(e, after, i, x) ==
    /\ DOMAIN after = Fields /\ after.modules = Updated(e.modules, i, x)
    /\ \A w \in Fields \ {"modules"} : after[w] = e[w]

Extended(e, after) ==
    /\ Len(after.modules) = Len(e.modules)
    /\ \A w \in Vectors \ {"modules"} : Prefix(e[w], after[w])

LEMMA AddedExtends ==
    ASSUME NEW e, NEW base, Begun(e, base),
           NEW v \in Vectors \ {"modules"}, NEW x, NEW after,
           Added(e, after, v, x), v = "tables" => IsSeq(x.func_indexes)
    PROVE  /\ Begun(after, base) /\ Extended(e, after)
           /\ after.modules = e.modules
           /\ Len(after[v]) = Len(e[v]) + 1 /\ after[v][Len(e[v]) + 1] = x
<1>1. Begun(after, base)
  BY AppendBegun DEF Added
<1>2. IsSeq(e[v]) /\ after[v] = Append(e[v], x)
  BY DEF Begun, Environment, Added
<1>3. /\ Len(after[v]) = Len(e[v]) + 1 /\ Len(e[v]) \in Nat
      /\ after[v][Len(e[v]) + 1] = x
      /\ \A i \in 1 .. Len(e[v]) : after[v][i] = e[v][i]
  BY <1>2, AppendFacts, SeqFacts
<1>4. after.modules = e.modules
  BY DEF Added, Fields, Vectors
<1>5. ASSUME NEW w \in Vectors \ {"modules"} PROVE Prefix(e[w], after[w])
  <2>1. CASE w = v BY <1>3, <2>1 DEF Prefix
  <2>2. CASE w # v
    <3>1. after[w] = e[w] /\ Len(e[w]) \in Nat
      BY <2>2, BegunLengths DEF Added, Fields
    <3> QED BY <3>1 DEF Prefix
  <2> QED BY <2>1, <2>2
<1> QED BY <1>1, <1>3, <1>4, <1>5 DEF Extended

LEMMA ModuleSetExtends ==
    ASSUME NEW e, NEW base, Begun(e, base), NEW after,
           NEW i \in 1 .. Len(e.modules), NEW x,
           ModuleSet(e, after, i, x), IsModule(x),
           i > Len(base.modules) \/ (e.modules[i].is_host /\ x.is_host)
    PROVE  /\ Begun(after, base) /\ Extended(e, after)
           /\ \A j \in 1 .. Len(e.modules) :
                 after.modules[j] = IF j = i THEN x ELSE e.modules[j]
<1>1. Begun(after, base)
  BY ModuleBegun DEF ModuleSet
<1>2. IsSeq(e.modules) /\ after.modules = Updated(e.modules, i, x)
  BY EnvironmentVectors DEF Begun, ModuleSet
<1>3. /\ Len(after.modules) = Len(e.modules)
      /\ \A j \in 1 .. Len(e.modules) : j # i => after.modules[j] = e.modules[j]
      /\ after.modules[i] = x
  BY <1>2, UpdateFacts
<1>4. ASSUME NEW w \in Vectors \ {"modules"} PROVE Prefix(e[w], after[w])
  <2>1. after[w] = e[w] /\ Len(e[w]) \in Nat
    BY BegunLengths DEF ModuleSet, Fields
  <2> QED BY <2>1 DEF Prefix
<1> QED BY <1>1, <1>3, <1>4 DEF Extended

LEMMA ExtendedTwice ==
    ASSUME NEW e, NEW mid, NEW after, NEW base,
           Begun(e, base), Begun(mid, base), Begun(after, base),
           Extended(e, mid), Extended(mid, after)
    PROVE  Extended(e, after)
<1>1. ASSUME NEW w \in Vectors \ {"modules"} PROVE Prefix(e[w], after[w])
  <2>1. /\ Len(e[w]) \in Nat /\ Len(mid[w]) \in Nat /\ Len(after[w]) \in Nat
        /\ Prefix(e[w], mid[w]) /\ Prefix(mid[w], after[w])
    BY BegunLengths DEF Extended
  <2> QED BY <2>1 DEF Prefix
<1> QED BY <1>1 DEF Extended

LEMMA ExtendedGrows ==
    ASSUME NEW file, NEW n, NEW base, NEW a, NEW b, Read(a, file, n, base),
           DOMAIN b = LoadFields, Begun(b.env, base), Extended(a.env, b.env),
           ModuleGrows(Module(a), Module(b)),
           \/ b.func_index_mapping = a.func_index_mapping
           \/ Prefix(a.func_index_mapping, b.func_index_mapping),
           \/ b.global_index_mapping = a.global_index_mapping
           \/ Prefix(a.global_index_mapping, b.global_index_mapping)
    PROVE  /\ Grows(a, b) /\ Kept(b.env, base) /\ Longer(a.env, b.env)
<1>1. /\ Environment(a.env) /\ Environment(b.env) /\ Kept(b.env, base)
      /\ IsSeq(a.func_index_mapping) /\ IsSeq(a.global_index_mapping)
  BY DEF Read, Begun, Mapped
<1>2. /\ Prefix(a.env.sigs, b.env.sigs) /\ Prefix(a.env.funcs, b.env.funcs)
      /\ Prefix(a.env.memories, b.env.memories)
      /\ Prefix(a.env.tables, b.env.tables)
      /\ Prefix(a.env.globals, b.env.globals)
      /\ Prefix(a.env.istream, b.env.istream)
      /\ Len(b.env.modules) = Len(a.env.modules)
  BY DEF Extended, Vectors
<1>3. Longer(a.env, b.env)
  BY <1>2 DEF Longer, Prefix
<1>4. /\ \A i \in 1 .. Len(a.env.sigs) : b.env.sigs[i] = a.env.sigs[i]
      /\ \A i \in 1 .. Len(a.env.funcs) : b.env.funcs[i] = a.env.funcs[i]
  BY <1>2 DEF Prefix
<1>5. /\ Prefix(a.func_index_mapping, b.func_index_mapping)
      /\ Prefix(a.global_index_mapping, b.global_index_mapping)
  BY <1>1, SeqFacts DEF Prefix
<1> QED BY <1>1, <1>3, <1>4, <1>5 DEF Grows

(* The module that is being loaded.                                         *)
LEMMA ThisModule ==
    ASSUME NEW file, NEW n, NEW base, NEW a, Read(a, file, n, base)
    PROVE  /\ This(a) \in 1 .. Len(a.env.modules)
           /\ This(a) > Len(base.modules) /\ This(a) = Len(a.env.modules)
           /\ IsModule(Module(a)) /\ Len(Module(a).exports) \in Nat
           /\ Module(a) = a.env.modules[This(a)]
           /\ ModuleGrows(Module(a), Module(a))
<1>1. /\ Len(base.modules) \in Nat /\ Len(a.env.modules) = Len(base.modules) + 1
      /\ ~Module(a).is_host
  BY Lengths DEF Read
<1>2. This(a) \in 1 .. Len(a.env.modules) /\ This(a) > Len(base.modules)
  BY <1>1 DEF This
<1>3. IsModule(Module(a))
  BY <1>2 DEF Module, This, Read, Environment
<1>4. Len(Module(a).exports) \in Nat
  BY <1>3, SeqFacts DEF IsModule
<1> QED BY <1>1, <1>2, <1>3, <1>4 DEF ModuleGrows, Module, This

LEMMA ReadBegun ==
    ASSUME NEW file, NEW n, NEW base, NEW a, Read(a, file, n, base),
           Unwritten(a.env, base)
    PROVE  Begun(a.env, base)
BY DEF Read, Begun

LEMMA TypeWorks ==
    ASSUME NEW file, FileRead(file), NEW n \in 1 .. Len(file), NEW base,
           NEW a, Read(a, file, n, base), Unwritten(a.env, base),
           file[n].on = "type"
    PROVE  Works(OnType(a, file[n]), file, n, base)
<1> DEFINE e == file[n]
           b == OnType(a, e)
<1>1. /\ DOMAIN b = LoadFields
      /\ b.sig_index_mapping = a.sig_index_mapping
      /\ b.func_index_mapping = a.func_index_mapping
      /\ b.global_index_mapping = a.global_index_mapping
      /\ Added(a.env, b.env, "sigs", e.sig)
  BY DEF Read, Environment, OnType, AbortUnless, LoadFields, Fields, Vectors, Added
<1>2. ~b.aborted => TranslateSigIndexToEnv(a, e.index) = Len(a.env.sigs)
  <2> DEFINE next == [a EXCEPT !.env.sigs = Append(@, e.sig)]
             holds == TranslateSigIndexToEnv(a, e.index) = Len(a.env.sigs)
  <2>1. DOMAIN next = LoadFields /\ b = AbortUnless(next, holds)
    BY DEF Read, LoadFields, OnType
  <2> HIDE DEF next, holds, b
  <2>2. b.aborted = ~holds
    BY <2>1, Zenon DEF AbortUnless, LoadFields
  <2> QED BY <2>2 DEF holds
<1> HIDE DEF b
<1>3. /\ Begun(b.env, base) /\ Extended(a.env, b.env)
      /\ b.env.modules = a.env.modules
      /\ Len(b.env.sigs) = Len(a.env.sigs) + 1
      /\ b.env.sigs[Len(a.env.sigs) + 1] = e.sig
  <2>1. "sigs" \in Vectors \ {"modules"}
    BY DEF Vectors
  <2> QED BY <1>1, <2>1, ReadBegun, AddedExtends
<1>4. Module(b) = Module(a) /\ ModuleGrows(Module(a), Module(a))
  BY <1>3, ThisModule DEF Module, This
<1>5. Grows(a, b) /\ Kept(b.env, base) /\ Longer(a.env, b.env)
  BY <1>1, <1>3, <1>4, ExtendedGrows
<1>6. ModuleWhole(b.env, Module(b))
  BY <1>3, <1>4, <1>5, ModuleStays DEF Read, Begun
<1>7. Len(b.env.funcs) = Len(a.env.funcs)
  BY <1>1 DEF Added, Fields, Vectors
<1>8. Mapped(b.global_index_mapping, file, "global", n + 1)
  <2>1. Mapped(a.global_index_mapping, file, "global", n)
    BY DEF Read
  <2> QED BY <1>1, <2>1, MappedStays DEF Counters
<1>9. ASSUME ~b.aborted PROVE ItemRead(b, file, n, base)
  <2>1. TranslateSigIndexToEnv(b, e.index) = Len(a.env.sigs)
    BY <1>1, <1>2, <1>9 DEF TranslateSigIndexToEnv
  <2>2. Len(a.env.sigs) \in Nat
    BY ReadBegun, BegunLengths
  <2>3. TypeRead(b, e)
    BY <1>3, <2>1, <2>2 DEF TypeRead, IndexOf
  <2> QED BY <2>3 DEF ItemRead, Declarations
<1>10. ASSUME ~b.aborted PROVE Read(b, file, n + 1, base)
  BY <1>1, <1>5, <1>6, <1>7, <1>8, <1>9, <1>10, OtherRead
<1> QED BY <1>3, <1>10 DEF Works, b

(* An item is added, and the module being loaded refers to it.              *)
LEMMA ThisSet ==
    ASSUME NEW file, NEW n, NEW base, NEW a, Read(a, file, n, base),
           NEW mid, Begun(mid, base), Extended(a.env, mid), Begun(a.env, base),
           mid.modules = a.env.modules,
           NEW after, NEW x, ModuleSet(mid, after, This(a), x), IsModule(x)
    PROVE  /\ Begun(after, base) /\ Extended(a.env, after)
           /\ after.modules[Len(after.modules)] = x
           /\ \A w \in Fields \ {"modules"} : after[w] = mid[w]
<1> DEFINE i == This(a)
<1>1. /\ i \in 1 .. Len(mid.modules) /\ i > Len(base.modules)
      /\ i = Len(mid.modules)
      /\ Len(base.modules) \in Nat /\ Len(mid.modules) \in Nat
  BY ThisModule, BegunLengths
<1>2. ModuleSet(mid, after, i, x)
  OBVIOUS
<1> HIDE DEF i
<1>3. /\ Begun(after, base) /\ Extended(mid, after)
      /\ \A j \in 1 .. Len(mid.modules) :
            after.modules[j] = IF j = i THEN x ELSE mid.modules[j]
  BY <1>1, <1>2, ModuleSetExtends, SMTT(30)
<1>4. Extended(a.env, after)
  BY <1>3, ExtendedTwice
<1>5. after.modules[Len(after.modules)] = x
  BY <1>1, <1>3 DEF Extended
<1> QED BY <1>3, <1>4, <1>5 DEF ModuleSet

LEMMA ThisSetWorks ==
    ASSUME NEW file, FileRead(file), NEW n \in 1 .. Len(file), NEW base,
           NEW a, Read(a, file, n, base), NEW b, NEW mid,
           Begun(a.env, base), Begun(mid, base), Extended(a.env, mid),
           mid.modules = a.env.modules, mid.funcs = a.env.funcs,
           DOMAIN b = LoadFields,
           b.sig_index_mapping = a.sig_index_mapping,
           b.func_index_mapping = a.func_index_mapping,
           b.global_index_mapping = a.global_index_mapping,
           NEW x, ModuleSet(mid, b.env, This(a), x), IsModule(x),
           file[n].on \notin {"type", "function", "function_count", "body", "global",
                              "global_count"},
           file[n].on = "import" => file[n].kind \in {"table", "memory"},
           file[n].on = "export" /\ file[n].kind = "func" => ExportRead(b, file[n]),
           ModuleGrows(Module(a), x), ModuleWhole(b.env, x),
           n \in Declarations(file, "table") => x.table_index # -1,
           n \in Declarations(file, "memory") => x.memory_index # -1
    PROVE  Works(b, file, n, base)
<1>1. /\ Begun(b.env, base) /\ Extended(a.env, b.env) /\ Module(b) = x
      /\ b.env.funcs = mid.funcs
  <2> DEFINE after == b.env
  <2>1. ModuleSet(mid, after, This(a), x)
    OBVIOUS
  <2> HIDE DEF after
  <2>2. /\ Begun(after, base) /\ Extended(a.env, after)
        /\ after.modules[Len(after.modules)] = x
        /\ \A w \in Fields \ {"modules"} : after[w] = mid[w]
    BY <2>1, ThisSet
  <2>3. after["funcs"] = mid["funcs"]
    BY <2>2 DEF Fields, Vectors
  <2> QED BY <2>2, <2>3 DEF after, Module, This
<1>2. Grows(a, b) /\ Kept(b.env, base)
  BY <1>1, ExtendedGrows
<1>3. Mapped(b.global_index_mapping, file, "global", n + 1)
  <2>1. Mapped(a.global_index_mapping, file, "global", n)
    BY DEF Read
  <2> QED BY <2>1, MappedStays DEF Counters
<1>4. ItemRead(b, file, n, base)
  BY <1>1 DEF ItemRead, Declarations
<1>5. Read(b, file, n + 1, base)
  BY <1>1, <1>2, <1>3, <1>4, OtherRead
<1> QED BY <1>1, <1>5 DEF Works

WithField(m, field, value) == [m EXCEPT ![field] = value]

(* A new table or memory is the module's own.                               *)
LEMMA ModuleHas ==
    ASSUME NEW file, NEW n, NEW base, NEW a, Read(a, file, n, base),
           NEW field \in {"table_index", "memory_index", "start_func_index"},
           NEW index, index # -1,
           NEW x, x = WithField(Module(a), field, index)
    PROVE  /\ IsModule(x)
           /\ field = "start_func_index" \/ Module(a)[field] = -1
                 => ModuleGrows(Module(a), x)
           /\ x[field] = index
           /\ \A after :
                 /\ Environment(after) /\ Longer(a.env, after)
                 /\ field = "table_index" => IndexOf(after.tables, index)
                 /\ field = "memory_index" => IndexOf(after.memories, index)
                 /\ field = "start_func_index" => IndexOf(after.funcs, index)
                 => ModuleWhole(after, x)
<1>1. /\ IsModule(Module(a)) /\ Len(Module(a).exports) \in Nat
      /\ ~Module(a).is_host /\ ModuleWhole(a.env, Module(a))
      /\ Environment(a.env)
  BY ThisModule DEF Read
<1>2. /\ DOMAIN x = ModuleFields /\ x[field] = index
      /\ \A f \in ModuleFields \ {field} : x[f] = Module(a)[f]
  BY <1>1 DEF IsModule, ModuleFields, WithField
<1>3. /\ x.exports = Module(a).exports /\ x.is_host = Module(a).is_host
      /\ x.istream_start = Module(a).istream_start
      /\ x.istream_end = Module(a).istream_end
  BY <1>2 DEF ModuleFields
<1>4. IsModule(x)
  BY <1>1, <1>2, <1>3 DEF IsModule
<1>5. ASSUME field = "start_func_index" \/ Module(a)[field] = -1
      PROVE  ModuleGrows(Module(a), x)
  <2>1. /\ Module(a).table_index # -1 => x.table_index # -1
        /\ Module(a).memory_index # -1 => x.memory_index # -1
    BY <1>2, <1>5 DEF ModuleFields
  <2> QED BY <1>1, <1>3, <2>1 DEF ModuleGrows
<1>6. ASSUME NEW after, Environment(after), Longer(a.env, after),
             field = "table_index" => IndexOf(after.tables, index),
             field = "memory_index" => IndexOf(after.memories, index),
             field = "start_func_index" => IndexOf(after.funcs, index)
      PROVE  ModuleWhole(after, x)
  <2>1. ModuleWhole(after, Module(a))
    BY <1>1, <1>6, ModuleStays
  <2>2. CASE field = "table_index"
    <3>1. /\ x.memory_index = Module(a).memory_index
          /\ x.start_func_index = Module(a).start_func_index
          /\ x.table_index = index /\ IndexOf(after.tables, index)
      BY <1>2, <1>6, <2>2 DEF ModuleFields
    <3> QED BY <1>3, <2>1, <3>1 DEF ModuleWhole
  <2>3. CASE field = "memory_index"
    <3>1. /\ x.table_index = Module(a).table_index
          /\ x.start_func_index = Module(a).start_func_index
          /\ x.memory_index = index /\ IndexOf(after.memories, index)
      BY <1>2, <1>6, <2>3 DEF ModuleFields
    <3> QED BY <1>3, <2>1, <3>1 DEF ModuleWhole
  <2>4. CASE field = "start_func_index"
    <3>1. /\ x.table_index = Module(a).table_index
          /\ x.memory_index = Module(a).memory_index
          /\ x.start_func_index = index /\ IndexOf(after.funcs, index)
      BY <1>2, <1>6, <2>4 DEF ModuleFields
    <3> QED BY <1>3, <2>1, <3>1 DEF ModuleWhole
  <2> QED BY <2>2, <2>3, <2>4
<1> QED BY <1>2, <1>4, <1>5, <1>6

LEMMA ErrorWorks ==
    ASSUME NEW file, FileRead(file), NEW n \in 1 .. Len(file), NEW base,
           NEW a, Read(a, file, n, base), Unwritten(a.env, base)
    PROVE  Works(Error(a), file, n, base)
<1>1. DOMAIN a = LoadFields
  BY DEF Read
<1>2. /\ DOMAIN Error(a) = LoadFields /\ Error(a).env = a.env
      /\ Error(a).sig_index_mapping = a.sig_index_mapping
      /\ Error(a).func_index_mapping = a.func_index_mapping
      /\ Error(a).global_index_mapping = a.global_index_mapping
      /\ ~Error(a).ok
  BY <1>1 DEF Error, LoadFields
<1> QED BY <1>2, QuietWorks

(* A table or a memory is added, which the module had none of.              *)
LEMMA SizedAdded ==
    ASSUME NEW file, FileRead(file), NEW n \in 1 .. Len(file), NEW base,
           NEW a, Read(a, file, n, base), Begun(a.env, base),
           NEW v \in {"tables", "memories"},
           NEW field \in {"table_index", "memory_index"},
           v = "tables" <=> field = "table_index",
           NEW item, v = "tables" => IsSeq(item.func_indexes),
           Module(a)[field] = -1,
           NEW mid, Added(a.env, mid, v, item),
           NEW b, DOMAIN b = LoadFields,
           b.sig_index_mapping = a.sig_index_mapping,
           b.func_index_mapping = a.func_index_mapping,
           b.global_index_mapping = a.global_index_mapping,
           NEW x, x = WithField(Module(a), field, Len(a.env[v])),
           ModuleSet(mid, b.env, This(a), x),
           \/ file[n].on = "table" /\ v = "tables"
           \/ file[n].on = "memory" /\ v = "memories"
           \/ file[n].on = "import" /\ file[n].kind = "table" /\ v = "tables"
           \/ file[n].on = "import" /\ file[n].kind = "memory" /\ v = "memories"
    PROVE  Works(b, file, n, base)
<1> DEFINE index == Len(a.env[v])
<1>1. index \in Nat /\ index # -1
  <2>1. v \in Vectors
    BY DEF Vectors
  <2> QED BY <2>1, BegunLengths
<1>2. /\ Begun(mid, base) /\ Extended(a.env, mid) /\ mid.modules = a.env.modules
      /\ Len(mid[v]) = index + 1
  <2>1. v \in Vectors \ {"modules"}
    BY DEF Vectors
  <2> QED BY <2>1, AddedExtends
<1>3. mid.funcs = a.env.funcs
  BY DEF Added, Fields, Vectors
<1> HIDE DEF index
<1>4. x = WithField(Module(a), field, index)
  BY DEF index
<1>5. /\ IsModule(x) /\ ModuleGrows(Module(a), x) /\ x[field] = index
      /\ \A after : /\ Environment(after) /\ Longer(a.env, after)
                    /\ IndexOf(after[v], index)
                    => ModuleWhole(after, x)
  <2>1. field \in {"table_index", "memory_index", "start_func_index"}
    OBVIOUS
  <2>2. /\ IsModule(x) /\ ModuleGrows(Module(a), x) /\ x[field] = index
        /\ \A after :
              /\ Environment(after) /\ Longer(a.env, after)
              /\ field = "table_index" => IndexOf(after.tables, index)
              /\ field = "memory_index" => IndexOf(after.memories, index)
              /\ field = "start_func_index" => IndexOf(after.funcs, index)
              => ModuleWhole(after, x)
    BY <1>1, <1>4, <2>1, ModuleHas
  <2> QED BY <2>2
<1>6. ModuleWhole(b.env, x)
  <2>1. /\ Begun(b.env, base) /\ Extended(a.env, b.env)
        /\ b.env[v] = mid[v]
        /\ b.env.modules[Len(b.env.modules)] = x
    <3> DEFINE after == b.env
    <3>1. ModuleSet(mid, after, This(a), x)
      OBVIOUS
    <3> HIDE DEF after
    <3>2. /\ Begun(after, base) /\ Extended(a.env, after)
          /\ after.modules[Len(after.modules)] = x
          /\ \A w \in Fields \ {"modules"} : after[w] = mid[w]
      BY <1>2, <1>5, <3>1, ThisSet
    <3> QED BY <3>2 DEF after, Fields, Vectors
  <2>2. Longer(a.env, b.env) /\ Environment(b.env)
    <3>1. Module(b) = x
      BY <2>1 DEF Module, This
    <3> QED BY <1>5, <2>1, <3>1, ExtendedGrows DEF Begun
  <2>3. IndexOf(b.env[v], index)
    BY <1>1, <1>2, <2>1 DEF IndexOf
  <2> QED BY <1>5, <2>2, <2>3
<1>7. /\ n \in Declarations(file, "table") => x.table_index # -1
      /\ n \in Declarations(file, "memory") => x.memory_index # -1
  BY <1>1, <1>5 DEF Declarations
<1>8. /\ file[n].on \notin {"type", "function", "function_count", "body", "export",
                           "global", "global_count"}
      /\ file[n].on = "import" => file[n].kind \in {"table", "memory"}
  OBVIOUS
<1> QED BY <1>2, <1>3, <1>5, <1>6, <1>7, <1>8, ThisSetWorks

LEMMA NewTableIsSeq ==
    ASSUME NEW limits, limits.initial \in Nat
    PROVE  IsSeq(NewTable(limits).func_indexes)
<1> DEFINE entries == [i \in 1 .. limits.initial |-> kInvalidIndex]
<1>1. IsSeq(entries)
  BY FunctionIsSeq
<1>2. NewTable(limits).func_indexes = entries
  BY DEF NewTable
<1> HIDE DEF entries
<1> QED BY <1>1, <1>2

LEMMA TableWorks ==
    ASSUME NEW file, FileRead(file), NEW n \in 1 .. Len(file), NEW base,
           NEW a, Read(a, file, n, base), Unwritten(a.env, base),
           file[n].on = "table"
    PROVE  Works(OnTable(a, file[n]), file, n, base)
<1>1. CASE AlreadyHas(a, "table")
  BY <1>1, ErrorWorks DEF OnTable
<1>2. CASE ~AlreadyHas(a, "table")
  <2> DEFINE b == OnTable(a, file[n])
             table == NewTable(file[n].limits)
             mid == [a.env EXCEPT !.tables = Append(@, table)]
             x == WithField(Module(a), "table_index", Len(a.env["tables"]))
  <2>1. Begun(a.env, base) /\ Module(a)["table_index"] = -1
    BY <1>2, ReadBegun DEF AlreadyHas, kInvalidIndex
  <2>2. IsSeq(table.func_indexes)
    BY FileFacts, NewTableIsSeq DEF FileRead, ArgumentsChecked
  <2> HIDE DEF table
  <2>3. Added(a.env, mid, "tables", table)
    BY <2>1 DEF Added, Begun, Environment, Fields, Vectors
  <2>4. /\ DOMAIN b = LoadFields
        /\ b.sig_index_mapping = a.sig_index_mapping
        /\ b.func_index_mapping = a.func_index_mapping
        /\ b.global_index_mapping = a.global_index_mapping
        /\ ModuleSet(mid, b.env, This(a), x)
    BY <1>2, <2>1
       DEF Read, OnTable, LoadFields, ModuleSet, Begun, Environment, Fields,
           Vectors, Updated, Module, This, WithField, table
  <2> HIDE DEF b, mid, x
  <2>5. x = WithField(Module(a), "table_index", Len(a.env["tables"]))
    BY DEF x
  <2>6. Works(b, file, n, base)
    BY <2>1, <2>2, <2>3, <2>4, <2>5, SizedAdded
  <2> QED BY <2>6 DEF b
<1> QED BY <1>1, <1>2

LEMMA MemoryWorks ==
    ASSUME NEW file, FileRead(file), NEW n \in 1 .. Len(file), NEW base,
           NEW a, Read(a, file, n, base), Unwritten(a.env, base),
           file[n].on = "memory"
    PROVE  Works(OnMemory(a, file[n]), file, n, base)
<1>1. CASE AlreadyHas(a, "memory")
  BY <1>1, ErrorWorks DEF OnMemory
<1>2. CASE ~AlreadyHas(a, "memory")
  <2> DEFINE b == OnMemory(a, file[n])
             memory == NewMemory(file[n].limits)
             mid == [a.env EXCEPT !.memories = Append(@, memory)]
             x == WithField(Module(a), "memory_index", Len(a.env["memories"]))
  <2>1. Begun(a.env, base) /\ Module(a)["memory_index"] = -1
    BY <1>2, ReadBegun DEF AlreadyHas, kInvalidIndex
  <2> HIDE DEF memory
  <2>2. Added(a.env, mid, "memories", memory)
    BY <2>1 DEF Added, Begun, Environment, Fields, Vectors
  <2>3. /\ DOMAIN b = LoadFields
        /\ b.sig_index_mapping = a.sig_index_mapping
        /\ b.func_index_mapping = a.func_index_mapping
        /\ b.global_index_mapping = a.global_index_mapping
        /\ ModuleSet(mid, b.env, This(a), x)
    BY <1>2, <2>1
       DEF Read, OnMemory, LoadFields, ModuleSet, Begun, Environment, Fields,
           Vectors, Updated, Module, This, WithField, memory
  <2> HIDE DEF b, mid, x
  <2>4. x = WithField(Module(a), "memory_index", Len(a.env["memories"]))
    BY DEF x
  <2>5. Works(b, file, n, base)
    BY <2>1, <2>2, <2>3, <2>4, SizedAdded
  <2> QED BY <2>5 DEF b
<1> QED BY <1>1, <1>2

(* What callbacks refer to has been declared.                               *)
LEMMA DeclaredItem ==
    ASSUME NEW file, FileRead(file), NEW n \in 1 .. Len(file), NEW base,
           NEW a, Read(a, file, n, base), NEW kind, NEW item,
           Declared(file, kind, item, n)
    PROVE  /\ kind = "func" =>
                 /\ IndexOf(a.func_index_mapping, item)
                 /\ IndexOf(a.env.funcs, TranslateFuncIndexToEnv(a, item))
           /\ kind = "global" =>
                 IndexOf(a.env.globals, TranslateGlobalIndexToEnv(a, item))
           /\ kind = "table" => IndexOf(a.env.tables, Module(a).table_index)
           /\ kind = "memory" => IndexOf(a.env.memories, Module(a).memory_index)
<1>1. PICK m \in Declarations(file, kind) : m < n /\ ItemIndex(file, kind, m) = item
  BY DEF Declared
<1>2. m \in 1 .. n - 1
  BY <1>1, FileFacts DEF Declarations
<1>3. ItemRead(a, file, m, base) /\ ModuleWhole(a.env, Module(a))
  BY <1>2 DEF Read
<1>4. CASE kind = "func"
  BY <1>1, <1>3, <1>4 DEF ItemRead, FuncRead
<1>5. CASE kind = "global"
  BY <1>1, <1>3, <1>5 DEF ItemRead, GlobalRead
<1>6. CASE kind = "table"
  BY <1>3, <1>6 DEF ItemRead, ModuleWhole
<1>7. CASE kind = "memory"
  BY <1>3, <1>7 DEF ItemRead, ModuleWhole
<1> QED BY <1>4, <1>5, <1>6, <1>7

(* The signature that a function is declared to have.                       *)
LEMMA DeclaredType ==
    ASSUME NEW file, FileRead(file), NEW n \in 1 .. Len(file), NEW base,
           NEW a, Read(a, file, n, base), n \in Declarations(file, "func")
    PROVE  LET sig_index == TranslateSigIndexToEnv(a, file[n].sig)
           IN  /\ IndexOf(a.env.sigs, sig_index)
               /\ a.env.sigs[sig_index + 1] = DeclaredSig(file, n)
<1> DEFINE IsType(m) == file[m].on = "type" /\ file[m].index = file[n].sig
           type == CHOOSE m \in DOMAIN file : IsType(m)
<1>1. \E m \in 1 .. n - 1 : IsType(m)
  BY FileFacts DEF FileRead, ArgumentsChecked
<1>2. \E m \in DOMAIN file : IsType(m)
  BY <1>1, FileFacts
<1>3. type \in DOMAIN file /\ IsType(type)
  BY <1>2
<1>4. DeclaredSig(file, n) = file[type].sig
  BY DEF DeclaredSig
<1> HIDE DEF type
<1>5. type \in 1 .. n - 1
  <2>1. type \in 1 .. Len(file)
    BY <1>3, FileFacts
  <2>2. type < n
    BY <1>3, <2>1, SectionOrder
  <2> QED BY <2>1, <2>2, FileFacts
<1>6. TypeRead(a, file[type])
  BY <1>3, <1>5 DEF Read, ItemRead
<1> QED BY <1>3, <1>4, <1>6 DEF TypeRead

LEMMA GlobalWorks ==
    ASSUME NEW file, FileRead(file), NEW n \in 1 .. Len(file), NEW base,
           NEW a, Read(a, file, n, base), Unwritten(a.env, base),
           file[n].on = "global"
    PROVE  Works(BeginGlobal(a, file[n]), file, n, base)
<1> DEFINE e == file[n]
           b == BeginGlobal(a, e)
           x == [typed_value |-> [type |-> e.type, value |-> 0],
                 mutable_ |-> e.mutable_]
           next == [a EXCEPT !.env.globals = Append(@, x),
                             !.init_expr_value.type = "void"]
           holds == TranslateGlobalIndexToEnv(a, e.index) = Len(a.env.globals)
<1>1. /\ DOMAIN next = LoadFields
      /\ next.sig_index_mapping = a.sig_index_mapping
      /\ next.func_index_mapping = a.func_index_mapping
      /\ next.global_index_mapping = a.global_index_mapping
      /\ Added(a.env, next.env, "globals", x)
  <2> HIDE DEF x
  <2> QED BY DEF Read, Environment, LoadFields, Fields, Vectors, Added
<1>2. b = AbortUnless(next, holds)
  BY DEF BeginGlobal
<1> HIDE DEF next, holds, b, x
<1>3. /\ DOMAIN b = LoadFields /\ b.env = next.env
      /\ b.sig_index_mapping = a.sig_index_mapping
      /\ b.func_index_mapping = a.func_index_mapping
      /\ b.global_index_mapping = a.global_index_mapping
  BY <1>1, <1>2 DEF AbortUnless, LoadFields
<1>4. b.aborted = ~holds
  BY <1>1, <1>2, Zenon DEF AbortUnless, LoadFields
<1>5. /\ Begun(b.env, base) /\ Extended(a.env, b.env)
      /\ b.env.modules = a.env.modules
      /\ Len(b.env.globals) = Len(a.env.globals) + 1
  <2>1. "globals" \in Vectors \ {"modules"}
    BY DEF Vectors
  <2>2. /\ Begun(next.env, base) /\ Extended(a.env, next.env)
        /\ next.env.modules = a.env.modules
        /\ Len(next.env["globals"]) = Len(a.env["globals"]) + 1
    BY <1>1, <2>1, ReadBegun, AddedExtends
  <2> QED BY <1>3, <2>2
<1>6. Module(b) = Module(a) /\ ModuleGrows(Module(a), Module(a))
  BY <1>5, ThisModule DEF Module, This
<1>7. Grows(a, b) /\ Kept(b.env, base) /\ Longer(a.env, b.env)
  BY <1>3, <1>5, <1>6, ExtendedGrows
<1>8. ModuleWhole(b.env, Module(b))
  BY <1>5, <1>6, <1>7, ModuleStays DEF Read, Begun
<1>9. Len(b.env.funcs) = Len(a.env.funcs)
  BY <1>1, <1>3 DEF Added, Fields, Vectors
<1>10. Mapped(a.global_index_mapping, file, "global", n)
  BY DEF Read
<1>11. Mapped(b.global_index_mapping, file, "global", n + 1)
  BY <1>3, <1>10, MappedStays DEF Counters
<1>12. ASSUME ~b.aborted PROVE ItemRead(b, file, n, base)
  <2> DEFINE item == ItemIndex(file, "global", n)
  <2>1. e.index = item
    BY FileFacts DEF FileRead, ArgumentsChecked
  <2>2. IndexOf(b.global_index_mapping, item)
    BY <1>3, <1>10, MappedItem DEF Definers
  <2>3. TranslateGlobalIndexToEnv(b, item) = Len(a.env.globals)
    BY <1>3, <1>4, <1>12, <2>1 DEF TranslateGlobalIndexToEnv, holds
  <2>4. /\ Len(a.env.globals) \in Nat /\ Len(base.globals) \in Nat
        /\ Len(base.globals) <= Len(a.env.globals)
    BY ReadBegun, BegunLengths
  <2>5. GlobalRead(b, file, n, base)
    BY <1>5, <2>2, <2>3, <2>4 DEF GlobalRead, IndexOf
  <2> QED BY <2>5 DEF ItemRead, Declarations
<1>13. ASSUME ~b.aborted PROVE Read(b, file, n + 1, base)
  BY <1>3, <1>7, <1>8, <1>9, <1>11, <1>12, <1>13, OtherRead
<1> QED BY <1>5, <1>13 DEF Works, b

LEMMA EndGlobalWorks ==
    ASSUME NEW file, FileRead(file), NEW n \in 1 .. Len(file), NEW base,
           NEW a, Read(a, file, n, base), Unwritten(a.env, base),
           file[n].on = "end_global"
    PROVE  Works(EndGlobalInitExpr(a, file[n]), file, n, base)
<1> DEFINE e == file[n]
           index == TranslateGlobalIndexToEnv(a, e.index)
           x == [a.env.globals[index + 1] EXCEPT !.typed_value = a.init_expr_value]
           b == [a EXCEPT !.env.globals[index + 1].typed_value = a.init_expr_value]
<1>1. EndGlobalInitExpr(a, e) \in {Error(a), b}
  BY DEF EndGlobalInitExpr
<1>2. Works(b, file, n, base)
  <2>1. /\ index \in Int /\ Len(base.globals) <= index
        /\ IndexOf(a.env.globals, index)
    <3>1. PICK m \in 1 .. n - 1 : file[m].on = "global" /\ file[m].index = e.index
      BY FileFacts DEF FileRead, ArgumentsChecked
    <3>2. m \in DOMAIN file
      BY FileFacts
    <3>3. m \in Declarations(file, "global") /\ e.index = ItemIndex(file, "global", m)
      BY <3>1, <3>2 DEF FileRead, ArgumentsChecked, Declarations
    <3>4. GlobalRead(a, file, m, base)
      BY <3>3 DEF Read, ItemRead
    <3> QED BY <3>1, <3>3, <3>4 DEF GlobalRead, IndexOf
  <2>2. /\ DOMAIN b = LoadFields
        /\ b.sig_index_mapping = a.sig_index_mapping
        /\ b.func_index_mapping = a.func_index_mapping
        /\ b.global_index_mapping = a.global_index_mapping
        /\ DOMAIN b.env = Fields
        /\ b.env.globals = Updated(a.env.globals, index + 1, x)
        /\ \A w \in Fields \ {"globals"} : b.env[w] = a.env[w]
    <3> HIDE DEF index
    <3> QED BY DEF Read, Environment, LoadFields, Fields, Vectors, Updated
  <2> HIDE DEF b, x, index
  <2>3. Begun(a.env, base)
    BY ReadBegun
  <2>4. /\ index + 1 \in Len(base.globals) + 1 .. Len(a.env.globals)
        /\ index + 1 \in 1 .. Len(a.env.globals)
    BY <2>1, <2>3, BegunLengths DEF IndexOf
  <2>5. Begun(b.env, base)
    <3> DEFINE after == b.env
    <3>1. /\ "globals" \in {"funcs", "globals"}
          /\ index + 1 \in Len(base["globals"]) + 1 .. Len(a.env["globals"])
          /\ DOMAIN after = Fields
          /\ after["globals"] = Updated(a.env["globals"], index + 1, x)
          /\ \A w \in Fields \ {"globals"} : after[w] = a.env[w]
      BY <2>2, <2>4
    <3> HIDE DEF after
    <3>2. Begun(after, base)
      BY <2>3, <3>1, UpdateBegun
    <3> QED BY <3>2 DEF after
  <2>6. Len(b.env.globals) = Len(a.env.globals)
    BY <2>2, <2>3, <2>4, EnvironmentVectors, UpdateFacts DEF Begun
  <2>7. /\ b.env.modules = a.env.modules /\ b.env.sigs = a.env.sigs
        /\ b.env.funcs = a.env.funcs /\ b.env.memories = a.env.memories
        /\ b.env.tables = a.env.tables /\ b.env.istream = a.env.istream
    BY <2>2 DEF Fields, Vectors
  <2>8. Longer(a.env, b.env)
    BY <2>3, <2>6, <2>7, BegunLengths DEF Longer
  <2>9. Module(b) = Module(a) /\ ModuleGrows(Module(a), Module(a))
    BY <2>7, ThisModule DEF Module, This
  <2>10. Mapped(a.func_index_mapping, file, "func", n)
         /\ Mapped(a.global_index_mapping, file, "global", n)
    BY DEF Read
  <2>11. /\ Prefix(a.func_index_mapping, b.func_index_mapping)
         /\ Prefix(a.global_index_mapping, b.global_index_mapping)
    BY <2>2, <2>10, SeqFacts DEF Mapped, Prefix
  <2>12. Grows(a, b)
    BY <2>2, <2>5, <2>7, <2>8, <2>9, <2>11 DEF Grows, Begun
  <2>13. ModuleWhole(b.env, Module(b))
    BY <2>3, <2>5, <2>8, <2>9, ModuleStays DEF Read, Begun
  <2>14. Mapped(b.global_index_mapping, file, "global", n + 1)
    BY <2>2, <2>10, MappedStays DEF Counters
  <2>15. ItemRead(b, file, n, base)
    BY DEF ItemRead, Declarations
  <2>16. Read(b, file, n + 1, base)
    BY <2>2, <2>5, <2>7, <2>12, <2>13, <2>14, <2>15, OtherRead DEF Begun
  <2> QED BY <2>5, <2>16 DEF Works
<1> QED BY <1>1, <1>2, ErrorWorks

WithExport(m, x) == [m EXCEPT !.exports = Append(@, x)]

LEMMA ExportAdded ==
    ASSUME NEW m, IsModule(m), NEW export, NEW x, x = WithExport(m, export)
    PROVE  /\ IsModule(x) /\ Len(x.exports) = Len(m.exports) + 1
           /\ Len(m.exports) \in Nat /\ x.exports[Len(m.exports) + 1] = export
           /\ \A i \in 1 .. Len(m.exports) : x.exports[i] = m.exports[i]
           /\ \A f \in ModuleFields \ {"exports"} : x[f] = m[f]
           /\ x.is_host = m.is_host
<1>1. DOMAIN m = ModuleFields /\ IsSeq(m.exports)
  BY DEF IsModule
<1>2. /\ DOMAIN x = ModuleFields /\ x.exports = Append(m.exports, export)
      /\ \A f \in ModuleFields \ {"exports"} : x[f] = m[f]
  BY <1>1 DEF WithExport, ModuleFields
<1>3. /\ IsSeq(x.exports) /\ Len(x.exports) = Len(m.exports) + 1
      /\ Len(m.exports) \in Nat /\ x.exports[Len(m.exports) + 1] = export
      /\ \A i \in 1 .. Len(m.exports) : x.exports[i] = m.exports[i]
  BY <1>1, <1>2, AppendFacts, SeqFacts
<1>4. x.is_host = m.is_host
  BY <1>2 DEF ModuleFields
<1> QED BY <1>2, <1>3, <1>4 DEF IsModule

(* What an export of the module refers to is there.                         *)
LEMMA ExportWhole ==
    ASSUME NEW e, NEW m, IsModule(m), ModuleWhole(e, m), NEW export,
           ExportExists(e, export), NEW x, x = WithExport(m, export)
    PROVE  ModuleWhole(e, x)
<1>1. /\ Len(x.exports) = Len(m.exports) + 1
      /\ Len(m.exports) \in Nat /\ x.exports[Len(m.exports) + 1] = export
      /\ \A i \in 1 .. Len(m.exports) : x.exports[i] = m.exports[i]
      /\ \A f \in ModuleFields \ {"exports"} : x[f] = m[f]
  BY ExportAdded
<1>2. ASSUME NEW i \in 1 .. Len(x.exports) PROVE ExportExists(e, x.exports[i])
  <2>1. i \in 1 .. Len(m.exports) \/ i = Len(m.exports) + 1
    BY <1>1
  <2> QED BY <1>1, <2>1 DEF ModuleWhole
<1>3. /\ x.table_index = m.table_index /\ x.memory_index = m.memory_index
      /\ x.start_func_index = m.start_func_index
      /\ x.istream_start = m.istream_start /\ x.istream_end = m.istream_end
  BY <1>1 DEF ModuleFields
<1> QED BY <1>2, <1>3 DEF ModuleWhole

(* The module that is loaded is changed and nothing else.                   *)
LEMMA OnlyThisSet ==
    ASSUME NEW file, FileRead(file), NEW n \in 1 .. Len(file), NEW base,
           NEW a, Read(a, file, n, base), Unwritten(a.env, base), NEW b,
           DOMAIN b = LoadFields,
           b.sig_index_mapping = a.sig_index_mapping,
           b.func_index_mapping = a.func_index_mapping,
           b.global_index_mapping = a.global_index_mapping,
           NEW x, ModuleSet(a.env, b.env, This(a), x), IsModule(x),
           file[n].on \in {"export", "start"},
           file[n].on = "export" /\ file[n].kind = "func" => ExportRead(b, file[n]),
           ModuleGrows(Module(a), x), ModuleWhole(b.env, x)
    PROVE  Works(b, file, n, base)
<1>1. Begun(a.env, base)
  BY ReadBegun
<1>2. Extended(a.env, a.env)
  BY <1>1, BegunLengths DEF Extended, Prefix
<1>3. n \notin Declarations(file, "table") /\ n \notin Declarations(file, "memory")
  BY DEF Declarations
<1> DEFINE mid == a.env
<1>4. /\ Begun(mid, base) /\ Extended(a.env, mid)
      /\ mid.modules = a.env.modules /\ mid.funcs = a.env.funcs
      /\ ModuleSet(mid, b.env, This(a), x)
  BY <1>1, <1>2
<1> HIDE DEF mid
<1>5. /\ file[n].on \notin {"type", "function", "function_count", "body", "global",
                           "global_count"}
      /\ file[n].on # "import"
  OBVIOUS
<1> QED BY <1>1, <1>3, <1>4, <1>5, ThisSetWorks

(* It and what it has stays, but for its exports.                           *)
LEMMA OnlyThisLonger ==
    ASSUME NEW file, NEW n, NEW base, NEW a, Read(a, file, n, base),
           Unwritten(a.env, base),
           NEW after, NEW x, ModuleSet(a.env, after, This(a), x), IsModule(x)
    PROVE  /\ Environment(after) /\ Longer(a.env, after)
           /\ after.modules[Len(after.modules)] = x
           /\ \A w \in Fields \ {"modules"} : after[w] = a.env[w]
<1>1. Begun(a.env, base)
  BY ReadBegun
<1>2. Extended(a.env, a.env)
  BY <1>1, BegunLengths DEF Extended, Prefix
<1>3. /\ Begun(after, base) /\ Extended(a.env, after)
      /\ after.modules[Len(after.modules)] = x
      /\ \A w \in Fields \ {"modules"} : after[w] = a.env[w]
  <2> DEFINE mid == a.env
  <2>1. /\ Begun(mid, base) /\ Extended(a.env, mid)
        /\ mid.modules = a.env.modules /\ ModuleSet(mid, after, This(a), x)
        /\ Begun(a.env, base)
    BY <1>1, <1>2
  <2> HIDE DEF mid
  <2>2. /\ Begun(after, base) /\ Extended(a.env, after)
        /\ after.modules[Len(after.modules)] = x
        /\ \A w \in Fields \ {"modules"} : after[w] = mid[w]
    BY <2>1, ThisSet
  <2> QED BY <2>2 DEF mid
<1>4. Longer(a.env, after)
  BY <1>3 DEF Extended, Longer, Prefix, Vectors
<1> QED BY <1>3, <1>4 DEF Begun

LEMMA ExportWorks ==
    ASSUME NEW file, FileRead(file), NEW n \in 1 .. Len(file), NEW base,
           NEW a, Read(a, file, n, base), Unwritten(a.env, base),
           file[n].on = "export"
    PROVE  Works(OnExport(a, file[n]), file, n, base)
<1> DEFINE e == file[n]
           export == [name |-> e.name, kind |-> e.kind, index |-> ExportIndex(a, e)]
           x == WithExport(Module(a), export)
           b == [a EXCEPT !.env.modules[This(a)].exports = Append(@, export)]
<1>1. OnExport(a, e) \in {Error(a), b}
  BY DEF OnExport, AppendExport
<1>2. Works(b, file, n, base)
  <2>1. /\ DOMAIN b = LoadFields
        /\ b.sig_index_mapping = a.sig_index_mapping
        /\ b.func_index_mapping = a.func_index_mapping
        /\ b.global_index_mapping = a.global_index_mapping
        /\ ModuleSet(a.env, b.env, This(a), x)
    <3> HIDE DEF export
    <3> QED BY DEF Read, LoadFields, ModuleSet, Environment, Fields, Vectors,
                   Updated, Module, This, WithExport
  <2>2. IsModule(Module(a)) /\ ModuleWhole(a.env, Module(a)) /\ ~Module(a).is_host
    BY ThisModule DEF Read
  <2>3. /\ export.name = e.name /\ export.kind = e.kind
        /\ export.index = ExportIndex(a, e)
    OBVIOUS
  <2>4. Declared(file, e.kind, e.item, n) /\ e.kind \in Kinds
    BY FileFacts DEF FileRead, ArgumentsChecked
  <2>5. ExportExists(a.env, export)
    <3>1. /\ e.kind = "func" =>
                IndexOf(a.env.funcs, TranslateFuncIndexToEnv(a, e.item))
          /\ e.kind = "global" =>
                IndexOf(a.env.globals, TranslateGlobalIndexToEnv(a, e.item))
          /\ e.kind = "table" => IndexOf(a.env.tables, Module(a).table_index)
          /\ e.kind = "memory" => IndexOf(a.env.memories, Module(a).memory_index)
      <4> DEFINE kind == e.kind
                 item == e.item
      <4>1. Declared(file, kind, item, n)
        BY <2>4
      <4> HIDE DEF kind, item
      <4>2. /\ kind = "func" =>
                  IndexOf(a.env.funcs, TranslateFuncIndexToEnv(a, item))
            /\ kind = "global" =>
                  IndexOf(a.env.globals, TranslateGlobalIndexToEnv(a, item))
            /\ kind = "table" => IndexOf(a.env.tables, Module(a).table_index)
            /\ kind = "memory" => IndexOf(a.env.memories, Module(a).memory_index)
        BY <4>1, DeclaredItem
      <4> QED BY <4>2 DEF kind, item
    <3> HIDE DEF export
    <3>2. CASE e.kind = "func"
      <4>1. export.index = TranslateFuncIndexToEnv(a, e.item)
        BY <2>3, <3>2 DEF ExportIndex
      <4> QED BY <2>3, <3>1, <3>2, <4>1 DEF ExportExists, IndexOf
    <3>3. CASE e.kind = "table"
      <4>1. export.index = Module(a).table_index
        BY <2>3, <3>3 DEF ExportIndex
      <4> QED BY <2>3, <3>1, <3>3, <4>1 DEF ExportExists, IndexOf
    <3>4. CASE e.kind = "memory"
      <4>1. export.index = Module(a).memory_index
        BY <2>3, <3>4 DEF ExportIndex
      <4> QED BY <2>3, <3>1, <3>4, <4>1 DEF ExportExists, IndexOf
    <3>5. CASE e.kind = "global"
      <4>1. export.index = TranslateGlobalIndexToEnv(a, e.item)
        BY <2>3, <3>5 DEF ExportIndex
      <4> QED BY <2>3, <3>1, <3>5, <4>1 DEF ExportExists, IndexOf
    <3> QED BY <2>4, <3>2, <3>3, <3>4, <3>5 DEF Kinds
  <2> HIDE DEF b, x, export
  <2>6. x = WithExport(Module(a), export)
    BY DEF x
  <2>7. /\ IsModule(x) /\ Len(x.exports) = Len(Module(a).exports) + 1
        /\ Len(Module(a).exports) \in Nat
        /\ x.exports[Len(Module(a).exports) + 1] = export
        /\ \A i \in 1 .. Len(Module(a).exports) : x.exports[i] = Module(a).exports[i]
        /\ \A f \in ModuleFields \ {"exports"} : x[f] = Module(a)[f]
        /\ x.is_host = Module(a).is_host
    BY <2>2, <2>6, ExportAdded
  <2>8. ModuleGrows(Module(a), x)
    BY <2>2, <2>7 DEF ModuleGrows, ModuleFields
  <2>9. ModuleWhole(a.env, x)
    BY <2>2, <2>5, <2>6, ExportWhole
  <2>10. Environment(b.env) /\ Longer(a.env, b.env) /\ Environment(a.env)
         /\ b.env.modules[Len(b.env.modules)] = x
    <3> DEFINE after == b.env
    <3>1. ModuleSet(a.env, after, This(a), x) /\ IsModule(x)
      BY <2>1, <2>7
    <3> HIDE DEF after
    <3>2. /\ Environment(after) /\ Longer(a.env, after)
          /\ after.modules[Len(after.modules)] = x
      BY <3>1, OnlyThisLonger
    <3> QED BY <3>2 DEF after, Read
  <2>11. ModuleWhole(b.env, x)
    BY <2>9, <2>10, ModuleStays
  <2>12. Module(b) = x
    BY <2>10 DEF Module, This
  <2>13. ASSUME e.kind = "func" PROVE ExportRead(b, e)
    <3>1. IndexOf(a.func_index_mapping, e.item)
      <4> DEFINE kind == e.kind
                 item == e.item
      <4>1. Declared(file, kind, item, n) /\ kind = "func"
        BY <2>4, <2>13
      <4> HIDE DEF kind, item
      <4>2. IndexOf(a.func_index_mapping, item)
        BY <4>1, DeclaredItem
      <4> QED BY <4>2 DEF item
    <3>2. export.index = TranslateFuncIndexToEnv(b, e.item)
      BY <2>1, <2>3, <2>13 DEF ExportIndex, TranslateFuncIndexToEnv
    <3>3. Len(Module(a).exports) + 1 \in 1 .. Len(x.exports)
      BY <2>7
    <3> QED BY <2>1, <2>3, <2>7, <2>12, <3>1, <3>2, <3>3 DEF ExportRead
  <2> QED BY <2>1, <2>7, <2>8, <2>11, <2>13, OnlyThisSet
<1> QED BY <1>1, <1>2, ErrorWorks

LEMMA StartWorks ==
    ASSUME NEW file, FileRead(file), NEW n \in 1 .. Len(file), NEW base,
           NEW a, Read(a, file, n, base), Unwritten(a.env, base),
           file[n].on = "start"
    PROVE  Works(OnStartFunction(a, file[n]), file, n, base)
<1> DEFINE index == TranslateFuncIndexToEnv(a, file[n].func)
           x == WithField(Module(a), "start_func_index", index)
           b == [a EXCEPT !.env.modules[This(a)].start_func_index = index]
<1>1. OnStartFunction(a, file[n]) \in {Error(a), b}
  BY DEF OnStartFunction
<1>2. Works(b, file, n, base)
  <2>1. IndexOf(a.env.funcs, index)
    <3> DEFINE kind == "func"
               item == file[n].func
    <3>1. Declared(file, kind, item, n)
      BY FileFacts DEF FileRead, ArgumentsChecked
    <3>2. kind = "func"
      OBVIOUS
    <3> HIDE DEF kind, item
    <3>3. IndexOf(a.env.funcs, TranslateFuncIndexToEnv(a, item))
      BY <3>1, <3>2, DeclaredItem
    <3> QED BY <3>3 DEF item
  <2> HIDE DEF index
  <2>2. /\ DOMAIN b = LoadFields
        /\ b.sig_index_mapping = a.sig_index_mapping
        /\ b.func_index_mapping = a.func_index_mapping
        /\ b.global_index_mapping = a.global_index_mapping
        /\ ModuleSet(a.env, b.env, This(a), x)
    BY DEF Read, LoadFields, ModuleSet, Environment, Fields, Vectors,
           Updated, Module, This, WithField
  <2> HIDE DEF b, x
  <2>3. index # -1
    BY <2>1 DEF IndexOf
  <2>4. x = WithField(Module(a), "start_func_index", index)
    BY DEF x
  <2>5. /\ IsModule(x) /\ ModuleGrows(Module(a), x)
        /\ \A after : /\ Environment(after) /\ Longer(a.env, after)
                      /\ IndexOf(after.funcs, index)
                      => ModuleWhole(after, x)
    <3> DEFINE field == "start_func_index"
    <3>1. /\ field \in {"table_index", "memory_index", "start_func_index"}
          /\ x = WithField(Module(a), field, index)
          /\ field = "start_func_index"
      BY <2>4
    <3> HIDE DEF field
    <3>2. /\ IsModule(x)
          /\ field = "start_func_index" \/ Module(a)[field] = -1
                 => ModuleGrows(Module(a), x)
          /\ \A after :
                /\ Environment(after) /\ Longer(a.env, after)
                /\ field = "table_index" => IndexOf(after.tables, index)
                /\ field = "memory_index" => IndexOf(after.memories, index)
                /\ field = "start_func_index" => IndexOf(after.funcs, index)
                => ModuleWhole(after, x)
      BY <2>3, <3>1, ModuleHas
    <3> QED BY <3>1, <3>2
  <2>6. /\ Environment(b.env) /\ Longer(a.env, b.env)
        /\ b.env.funcs = a.env.funcs
    <3> DEFINE after == b.env
    <3>1. ModuleSet(a.env, after, This(a), x) /\ IsModule(x)
      BY <2>2, <2>5
    <3> HIDE DEF after
    <3>2. Environment(after) /\ Longer(a.env, after)
      BY <3>1, OnlyThisLonger
    <3>3. after["funcs"] = a.env["funcs"]
      BY <3>1 DEF ModuleSet, Fields, Vectors
    <3> QED BY <3>2, <3>3 DEF after
  <2>7. ModuleWhole(b.env, x)
    BY <2>1, <2>5, <2>6
  <2> QED BY <2>2, <2>5, <2>7, OnlyThisSet
<1> QED BY <1>1, <1>2, ErrorWorks

(* A body before the declaration of a function is that of another one.      *)
LEMMA BodiesBefore ==
    ASSUME NEW file, FileRead(file), NEW n \in 1 .. Len(file),
           file[n].on = "function", NEW c \in 1 .. n, file[c].on = "body"
    PROVE  file[c].func # ItemIndex(file, "func", n)
<1>1. c \in 1 .. Len(file)
  BY FileFacts
<1>2. PICK m \in 1 .. c - 1 : /\ file[m].on = "function"
                              /\ ItemIndex(file, "func", m) = file[c].func
  BY <1>1, FileFacts DEF FileRead, ArgumentsChecked
<1>3. m \in 1 .. Len(file) /\ m < n
  BY <1>1, FileFacts
<1>4. m \in Declarations(file, "func")
  BY <1>2, <1>3, FileFacts DEF Declarations
<1>5. m \in 1 .. Len(file) + 1 /\ n \in 1 .. Len(file) + 1
  BY <1>3, FileFacts
<1>6. ItemIndex(file, "func", m) < ItemIndex(file, "func", n)
  BY <1>3, <1>4, <1>5, IndexesGrow
<1> QED BY <1>2, <1>6, BeforeFacts

(* Where a function that a file defines comes to lie.                       *)
LEMMA FuncPlace ==
    ASSUME NEW file, FileRead(file), NEW n \in 1 .. Len(file), NEW base,
           NEW a, Read(a, file, n, base),
           NEW m \in 1 .. n, file[m].on = "function"
    PROVE  LET item == ItemIndex(file, "func", m)
               index == TranslateFuncIndexToEnv(a, item)
           IN  /\ index = Len(a.env.funcs) - ItemIndex(file, "func", n) + item
               /\ Len(base.funcs) <= index
<1> DEFINE item == ItemIndex(file, "func", m)
           start == Len(a.env.funcs) - ItemIndex(file, "func", n)
<1>1. m \in 1 .. Len(file)
  BY FileFacts
<1>2. PICK p \in 1 .. m - 1 : file[p].on = "function_count"
  BY <1>1, CountComesFirst
<1>3. p \in 1 .. n - 1 /\ p \in 1 .. Len(file) /\ p <= m
      /\ p \in 1 .. Len(file) + 1 /\ m \in 1 .. Len(file) + 1
  BY <1>1, FileFacts
<1> DEFINE first == ItemIndex(file, "func", p)
<1>4. first \in Nat /\ item \in Nat /\ start \in Int
      /\ Len(base.funcs) \in Nat /\ Len(a.env.funcs) \in Nat
  <2>1. ItemIndex(file, "func", n) \in Nat /\ first \in Nat /\ item \in Nat
    BY BeforeFacts
  <2>2. Len(base.funcs) \in Nat /\ Len(a.env.funcs) \in Nat
    BY Lengths DEF Read
  <2> DEFINE next == ItemIndex(file, "func", n)
             length == Len(a.env.funcs)
  <2>3. next \in Nat /\ length \in Nat
    BY <2>1, <2>2
  <2> HIDE DEF next, length
  <2>4. length - next \in Int
    BY <2>3
  <2> QED BY <2>1, <2>2, <2>4 DEF next, length
<1>5. first <= item /\ item < first + file[p].count /\ file[p].count \in Nat
  <2>1. first <= item
    BY <1>3, IndexesGrow
  <2>2. file[p].count \in Nat
    BY <1>2, <1>3, CountsOnce
  <2>3. item < first + file[p].count
    BY <1>1, <1>2, <1>3, FileFacts DEF FileRead, Counted
  <2> QED BY <2>1, <2>2, <2>3
<1>6. /\ Len(base.funcs) <= start + first
      /\ \A i \in first + 1 .. first + file[p].count :
            a.func_index_mapping[i] = start + i - 1
  BY <1>2, <1>3 DEF Read, FuncPlaces
<1> HIDE DEF item, start, first
<1>7. item + 1 \in first + 1 .. first + file[p].count
  <2> DEFINE count == file[p].count
  <2>1. count \in Nat /\ first <= item /\ item < first + count
    BY <1>5
  <2> HIDE DEF count
  <2>2. item + 1 \in first + 1 .. first + count
    BY <1>4, <2>1
  <2> QED BY <2>2 DEF count
<1>8. a.func_index_mapping[item + 1] = start + item
  BY <1>4, <1>6, <1>7
<1>9. Len(base.funcs) <= start + item
  BY <1>4, <1>5, <1>6
<1> QED BY <1>8, <1>9 DEF item, start, TranslateFuncIndexToEnv

LEMMA FunctionWorks ==
    ASSUME NEW file, FileRead(file), NEW n \in 1 .. Len(file), NEW base,
           NEW a, Read(a, file, n, base), Unwritten(a.env, base),
           file[n].on = "function"
    PROVE  Works(OnFunction(a, file[n]), file, n, base)
<1> DEFINE e == file[n]
           item == ItemIndex(file, "func", n)
           sig_index == TranslateSigIndexToEnv(a, e.sig)
           func == [is_host |-> FALSE, offset |-> kInvalidIndex,
                    sig_index |-> sig_index]
           b == OnFunction(a, e)
<1>1. /\ DOMAIN b = LoadFields
      /\ b.sig_index_mapping = a.sig_index_mapping
      /\ b.func_index_mapping = a.func_index_mapping
      /\ b.global_index_mapping = a.global_index_mapping
      /\ Added(a.env, b.env, "funcs", func)
  BY DEF Read, Environment, OnFunction, LoadFields, Fields, Vectors, Added
<1>2. /\ DOMAIN func = FuncFields /\ func.sig_index = sig_index
  BY DEF FuncFields
<1>3. n \in Declarations(file, "func") /\ n \in 1 .. n /\ n + 1 - 1 = n /\ n \in Nat
  BY FileFacts DEF Declarations
<1>4. /\ IndexOf(a.env.sigs, sig_index)
      /\ a.env.sigs[sig_index + 1] = DeclaredSig(file, n)
  BY <1>3, DeclaredType
<1> HIDE DEF b, func, sig_index, item
<1>5. /\ Begun(b.env, base) /\ Extended(a.env, b.env)
      /\ b.env.modules = a.env.modules
      /\ Len(b.env.funcs) = Len(a.env.funcs) + 1
      /\ b.env.funcs[Len(a.env.funcs) + 1] = func
      /\ b.env.sigs = a.env.sigs
  <2>1. "funcs" \in Vectors \ {"modules"}
    BY DEF Vectors
  <2>2. /\ Begun(b.env, base) /\ Extended(a.env, b.env)
        /\ b.env.modules = a.env.modules
        /\ Len(b.env["funcs"]) = Len(a.env["funcs"]) + 1
        /\ b.env["funcs"][Len(a.env["funcs"]) + 1] = func
    BY <1>1, <2>1, ReadBegun, AddedExtends, SMTT(30)
  <2> QED BY <1>1, <2>2 DEF Added, Fields, Vectors
<1>6. Module(b) = Module(a) /\ ModuleGrows(Module(a), Module(a))
  BY <1>5, ThisModule DEF Module, This
<1>7. Grows(a, b) /\ Kept(b.env, base) /\ Longer(a.env, b.env)
  BY <1>1, <1>5, <1>6, ExtendedGrows
<1>8. ModuleWhole(b.env, Module(b))
  BY <1>5, <1>6, <1>7, ModuleStays DEF Read, Begun
<1>9. Mapped(a.func_index_mapping, file, "func", n)
      /\ Mapped(a.global_index_mapping, file, "global", n)
  BY DEF Read
<1>10. Mapped(b.func_index_mapping, file, "func", n + 1)
       /\ Mapped(b.global_index_mapping, file, "global", n + 1)
  BY <1>1, <1>9, MappedStays DEF Counters
<1>11. TranslateFuncIndexToEnv(b, item) = Len(a.env.funcs)
       /\ item \in Nat /\ Len(a.env.funcs) \in Nat /\ Len(base.funcs) \in Nat
  <2>1. /\ TranslateFuncIndexToEnv(a, item) = Len(a.env.funcs) - item + item
        /\ Len(base.funcs) <= TranslateFuncIndexToEnv(a, item)
    BY <1>3, FuncPlace DEF item
  <2>2. item \in Nat
    BY BeforeFacts DEF item
  <2>3. Len(a.env.funcs) \in Nat /\ Len(base.funcs) \in Nat
    BY Lengths DEF Read
  <2> QED BY <1>1, <2>1, <2>2, <2>3 DEF TranslateFuncIndexToEnv
<1>12. FuncRead(b, file, n)
  <2>1. IndexOf(b.func_index_mapping, item)
    BY <1>1, <1>9, MappedItem DEF Definers, item
  <2>2. IndexOf(b.env.funcs, Len(a.env.funcs))
    BY <1>5, <1>11 DEF IndexOf
  <2> QED BY <1>2, <1>4, <1>5, <1>11, <2>1, <2>2 DEF FuncRead, item
<1>13. ItemRead(b, file, n, base)
  BY <1>12 DEF ItemRead, Declarations
<1>14. FuncPlaces(b, file, n + 1, base)
  <2>1. ItemIndex(file, "func", n + 1) = item + 1
    BY <1>3, NextIndex DEF item
  <2>2. Len(b.env.funcs) - ItemIndex(file, "func", n + 1)
            = Len(a.env.funcs) - ItemIndex(file, "func", n)
    <3> DEFINE length == Len(a.env.funcs)
               longer == Len(b.env.funcs)
               next == ItemIndex(file, "func", n + 1)
    <3>1. length \in Nat /\ item \in Nat /\ longer = length + 1 /\ next = item + 1
      BY <1>5, <1>11, <2>1
    <3> HIDE DEF length, longer, next
    <3>2. longer - next = length - item
      BY <3>1
    <3> QED BY <3>2 DEF length, longer, next, item
  <2>3. FuncPlaces(a, file, n, base)
    BY DEF Read
  <2>4. ASSUME NEW p \in 1 .. n + 1 - 1, file[p].on = "function_count"
        PROVE  p \in 1 .. n - 1
    BY <1>3, <2>4
  <2> QED BY <1>1, <2>2, <2>3, <2>4 DEF FuncPlaces
<1>15. FuncsWhole(b, file, n + 1, base)
  <2> SUFFICES ASSUME NEW k \in Len(base.funcs) + 1 .. Len(b.env.funcs)
               PROVE  LET f == b.env.funcs[k]
                      IN  /\ DOMAIN f = FuncFields /\ IndexOf(b.env.sigs, f.sig_index)
                          /\ \/ f.is_host
                             \/ IndexOf(b.env.istream, f.offset)
                             \/ Bodiless(b, file, n + 1, k - 1)
    BY DEF FuncsWhole
  <2>1. CASE k \in Len(base.funcs) + 1 .. Len(a.env.funcs)
    <3>1. IsSeq(b.func_index_mapping) /\ file[n].on # "body"
      BY <1>10 DEF Mapped
    <3> QED BY <1>7, <2>1, <3>1, FuncsStay
  <2>2. CASE k = Len(a.env.funcs) + 1
    <3>1. Bodiless(b, file, n + 1, k - 1)
      <4>1. \A c \in 1 .. n + 1 - 1 : file[c].on = "body" => file[c].func # item
        BY <1>3, BodiesBefore DEF item
      <4>2. k - 1 = Len(a.env.funcs)
        BY <1>11, <2>2
      <4> QED BY <1>3, <1>11, <4>1, <4>2, SMTT(30) DEF Bodiless, item
    <3> QED BY <1>2, <1>4, <1>5, <2>2, <3>1
  <2>3. \/ k \in Len(base.funcs) + 1 .. Len(a.env.funcs)
        \/ k = Len(a.env.funcs) + 1
    BY <1>5, <1>11
  <2> QED BY <2>1, <2>2, <2>3
<1>16. Read(b, file, n + 1, base)
  BY <1>1, <1>7, <1>8, <1>10, <1>13, <1>14, <1>15, StepRead
<1> QED BY <1>5, <1>16 DEF Works, b

LEMMA BodyWorks ==
    ASSUME NEW file, FileRead(file), NEW n \in 1 .. Len(file), NEW base,
           NEW a, Read(a, file, n, base), Unwritten(a.env, base),
           file[n].on = "body"
    PROVE  Works(OnFunctionBody(a, file[n]), file, n, base)
<1> DEFINE e == file[n]
           index == TranslateFuncIndexToEnv(a, e.func)
           code == [does |-> e.does, value |-> e.value,
                    memory |-> Module(a).memory_index]
           func == [a.env.funcs[index + 1] EXCEPT !.offset = Len(a.env.istream)]
           mid == [a.env EXCEPT !.funcs = Updated(@, index + 1, func)]
           b == OnFunctionBody(a, e)
<1>1. PICK m \in 1 .. n - 1 : /\ file[m].on = "function"
                              /\ ItemIndex(file, "func", m) = e.func
  BY FileFacts DEF FileRead, ArgumentsChecked
<1>2. FuncRead(a, file, m)
  <2>1. m \in Declarations(file, "func")
    BY <1>1, FileFacts DEF Declarations
  <2> QED BY <2>1 DEF Read, ItemRead
<1>3. IndexOf(a.env.funcs, index) /\ Len(base.funcs) <= index
  <2>1. m \in 1 .. n
    BY <1>1, FileFacts
  <2>2. Len(base.funcs) <= TranslateFuncIndexToEnv(a, ItemIndex(file, "func", m))
    BY <1>1, <2>1, FuncPlace
  <2> QED BY <1>1, <1>2, <2>2 DEF FuncRead
<1>4. Begun(a.env, base)
  BY ReadBegun
<1>5. /\ Len(base.funcs) \in Nat /\ Len(a.env.funcs) \in Nat
      /\ Len(a.env.istream) \in Nat
  BY <1>4, BegunLengths
<1>6. /\ index + 1 \in Len(base.funcs) + 1 .. Len(a.env.funcs)
      /\ index + 1 \in 1 .. Len(a.env.funcs) /\ index \in Nat
  BY <1>3, <1>5 DEF IndexOf
<1> HIDE DEF index
<1>7. /\ DOMAIN b = LoadFields
      /\ b.sig_index_mapping = a.sig_index_mapping
      /\ b.func_index_mapping = a.func_index_mapping
      /\ b.global_index_mapping = a.global_index_mapping
      /\ DOMAIN mid = Fields
      /\ mid.funcs = Updated(a.env.funcs, index + 1, func)
      /\ \A w \in Fields \ {"funcs"} : mid[w] = a.env[w]
      /\ Added(mid, b.env, "istream", code)
  <2> HIDE DEF code
  <2> QED BY DEF Read, Environment, OnFunctionBody, LoadFields, Fields, Vectors,
                 Updated, Added, index, code
<1>8. /\ DOMAIN a.env.funcs[index + 1] = FuncFields
      /\ DOMAIN func = FuncFields /\ func.offset = Len(a.env.istream)
      /\ func.sig_index = a.env.funcs[index + 1].sig_index
      /\ func.is_host = a.env.funcs[index + 1].is_host
  <2>1. DOMAIN a.env.funcs[index + 1] = FuncFields
    BY <1>6 DEF Read, FuncsWhole
  <2> QED BY <2>1 DEF FuncFields
<1> HIDE DEF b, mid, func, code
<1>9. Begun(mid, base)
  <2>1. /\ "funcs" \in {"funcs", "globals"}
        /\ index + 1 \in Len(base["funcs"]) + 1 .. Len(a.env["funcs"])
        /\ DOMAIN mid = Fields
        /\ mid["funcs"] = Updated(a.env["funcs"], index + 1, func)
        /\ \A w \in Fields \ {"funcs"} : mid[w] = a.env[w]
    BY <1>6, <1>7
  <2> QED BY <1>4, <2>1, UpdateBegun, SMTT(30)
<1>10. /\ Len(mid.funcs) = Len(a.env.funcs) /\ mid.funcs[index + 1] = func
       /\ \A k \in 1 .. Len(a.env.funcs) :
             k # index + 1 => mid.funcs[k] = a.env.funcs[k]
  <2>1. IsSeq(a.env.funcs)
    BY <1>4, EnvironmentVectors DEF Begun
  <2>2. mid.funcs = Updated(a.env.funcs, index + 1, func)
    BY <1>7
  <2> QED BY <1>6, <2>1, <2>2, UpdateFacts
<1>11. /\ Begun(b.env, base) /\ Len(b.env.istream) = Len(mid.istream) + 1
       /\ Prefix(mid.istream, b.env.istream)
  <2>1. "istream" \in Vectors \ {"modules"}
    BY DEF Vectors
  <2>2. /\ Begun(b.env, base) /\ Extended(mid, b.env)
        /\ Len(b.env["istream"]) = Len(mid["istream"]) + 1
    BY <1>7, <1>9, <2>1, AddedExtends
  <2> QED BY <2>1, <2>2 DEF Extended
<1>12. /\ b.env.modules = a.env.modules /\ b.env.sigs = a.env.sigs
       /\ b.env.memories = a.env.memories /\ b.env.tables = a.env.tables
       /\ b.env.globals = a.env.globals /\ b.env.funcs = mid.funcs
       /\ mid.istream = a.env.istream
  BY <1>7 DEF Added, Fields, Vectors
<1>12a. Len(b.env.istream) = Len(a.env.istream) + 1
  BY <1>11, <1>12
<1>13. IndexOf(b.env.istream, func.offset)
  BY <1>5, <1>8, <1>12a DEF IndexOf
<1>14. Longer(a.env, b.env)
  <2>1. Len(a.env.istream) <= Len(b.env.istream)
    BY <1>5, <1>12a
  <2> QED BY <1>4, <1>10, <1>12, <2>1, BegunLengths DEF Longer
<1>15. Module(b) = Module(a) /\ ModuleGrows(Module(a), Module(a))
  BY <1>12, ThisModule DEF Module, This
<1>16. Mapped(a.func_index_mapping, file, "func", n)
       /\ Mapped(a.global_index_mapping, file, "global", n)
  BY DEF Read
<1>17. Mapped(b.func_index_mapping, file, "func", n + 1)
       /\ Mapped(b.global_index_mapping, file, "global", n + 1)
  BY <1>7, <1>16, MappedStays DEF Counters
<1>18. Grows(a, b)
  <2>1. /\ Prefix(a.func_index_mapping, b.func_index_mapping)
        /\ Prefix(a.global_index_mapping, b.global_index_mapping)
    BY <1>7, <1>16, SeqFacts DEF Mapped, Prefix
  <2>2. ASSUME NEW k \in 1 .. Len(a.env.funcs)
        PROVE  /\ DOMAIN b.env.funcs[k] = DOMAIN a.env.funcs[k]
               /\ b.env.funcs[k].sig_index = a.env.funcs[k].sig_index
               /\ b.env.funcs[k].is_host = a.env.funcs[k].is_host
               /\ \/ b.env.funcs[k].offset = a.env.funcs[k].offset
                  \/ IndexOf(b.env.istream, b.env.funcs[k].offset)
    <3>1. CASE k = index + 1
      <4>1. b.env.funcs[k] = func
        BY <1>10, <1>12, <3>1
      <4> QED BY <1>8, <1>13, <3>1, <4>1
    <3>2. CASE k # index + 1
      <4>1. b.env.funcs[k] = a.env.funcs[k]
        BY <1>10, <1>12, <3>2
      <4> QED BY <4>1
    <3> QED BY <3>1, <3>2
  <2> QED BY <1>7, <1>11, <1>12, <1>14, <1>15, <2>1, <2>2 DEF Grows, Begun
<1>19. ModuleWhole(b.env, Module(b))
  BY <1>11, <1>14, <1>15, <1>4, ModuleStays DEF Read, Begun
<1>20. ItemRead(b, file, n, base)
  BY DEF ItemRead, Declarations
<1>21. FuncPlaces(b, file, n + 1, base)
  <2>1. ItemIndex(file, "func", n + 1) = ItemIndex(file, "func", n)
    <3>1. n \notin Declarations(file, "func")
      BY DEF Declarations
    <3> QED BY <3>1, NextIndex, BeforeFacts
  <2>2. \A p \in 1 .. n + 1 - 1 : p = n \/ p \in 1 .. n - 1
    BY FileFacts
  <2>3. FuncPlaces(a, file, n, base)
    BY DEF Read
  <2> QED BY <1>7, <1>10, <1>12, <2>1, <2>2, <2>3 DEF FuncPlaces
<1>22. FuncsWhole(b, file, n + 1, base)
  <2> SUFFICES ASSUME NEW k \in Len(base.funcs) + 1 .. Len(b.env.funcs)
               PROVE  LET f == b.env.funcs[k]
                      IN  /\ DOMAIN f = FuncFields /\ IndexOf(b.env.sigs, f.sig_index)
                          /\ \/ f.is_host
                             \/ IndexOf(b.env.istream, f.offset)
                             \/ Bodiless(b, file, n + 1, k - 1)
    BY DEF FuncsWhole
  <2>1. /\ k \in Len(base.funcs) + 1 .. Len(a.env.funcs)
        /\ k \in 1 .. Len(a.env.funcs) /\ k \in Nat
    BY <1>5, <1>10, <1>12
  <2>2. /\ DOMAIN a.env.funcs[k] = FuncFields
        /\ IndexOf(a.env.sigs, a.env.funcs[k].sig_index)
        /\ \/ a.env.funcs[k].is_host
           \/ IndexOf(a.env.istream, a.env.funcs[k].offset)
           \/ Bodiless(a, file, n, k - 1)
    BY <2>1 DEF Read, FuncsWhole
  <2>3. CASE k = index + 1
    <3>1. b.env.funcs[k] = func
      BY <1>10, <1>12, <2>3
    <3> QED BY <1>8, <1>12, <1>13, <2>2, <2>3, <3>1
  <2>4. CASE k # index + 1
    <3>1. b.env.funcs[k] = a.env.funcs[k]
      BY <1>10, <1>12, <2>1, <2>4
    <3>2. ASSUME Bodiless(a, file, n, k - 1) PROVE Bodiless(b, file, n + 1, k - 1)
      <4>1. PICK d \in 1 .. n - 1 :
               /\ file[d].on = "function"
               /\ TranslateFuncIndexToEnv(a, ItemIndex(file, "func", d)) = k - 1
               /\ \A c \in 1 .. n - 1 :
                     file[c].on = "body" => file[c].func # ItemIndex(file, "func", d)
        BY <3>2 DEF Bodiless
      <4>2. d \in 1 .. n + 1 - 1
            /\ \A c \in 1 .. n + 1 - 1 : c = n \/ c \in 1 .. n - 1
        BY FileFacts
      <4>3. e.func # ItemIndex(file, "func", d)
        BY <1>6, <2>1, <2>4, <4>1 DEF index
      <4>4. TranslateFuncIndexToEnv(b, ItemIndex(file, "func", d)) = k - 1
        BY <1>7, <4>1 DEF TranslateFuncIndexToEnv
      <4> QED BY <4>1, <4>2, <4>3, <4>4 DEF Bodiless
    <3>3. ASSUME IndexOf(a.env.istream, a.env.funcs[k].offset)
          PROVE  IndexOf(b.env.istream, a.env.funcs[k].offset)
      <4> DEFINE s == a.env.istream
                 t == b.env.istream
      <4>1. Len(s) \in Nat /\ Len(t) = Len(s) + 1 /\ IndexOf(s, a.env.funcs[k].offset)
        BY <1>5, <1>12a, <3>3
      <4> HIDE DEF s, t
      <4>2. Len(t) \in Nat /\ Len(s) <= Len(t)
        BY <4>1
      <4>3. IndexOf(t, a.env.funcs[k].offset)
        BY <4>1, <4>2, IndexStays
      <4> QED BY <4>3 DEF t
    <3> QED BY <1>12, <2>2, <3>1, <3>2, <3>3
  <2> QED BY <2>3, <2>4
<1>23. Read(b, file, n + 1, base)
  BY <1>7, <1>11, <1>17, <1>18, <1>19, <1>20, <1>21, <1>22, StepRead DEF Begun
<1> QED BY <1>11, <1>23 DEF Works, b

(* What segments write leaves the sizes of tables and memories.             *)
LEMMA ElemsWritten ==
    ASSUME NEW tables, IsSeq(tables),
           \A i \in 1 .. Len(tables) : IsSeq(tables[i].func_indexes), NEW infos,
           NEW after, after = WriteElems(tables, infos)
    PROVE  /\ IsSeq(after) /\ Len(after) = Len(tables)
           /\ \A i \in 1 .. Len(tables) :
                 /\ IsSeq(after[i].func_indexes)
                 /\ Len(after[i].func_indexes) = Len(tables[i].func_indexes)
<1>1. Len(tables) \in Nat /\ DOMAIN tables = 1 .. Len(tables)
  BY SeqFacts
<1>2. /\ DOMAIN after = DOMAIN tables /\ after = [t \in DOMAIN tables |-> after[t]]
      /\ \A t \in DOMAIN tables :
            /\ after[t].func_indexes
                   = [at_ \in DOMAIN tables[t].func_indexes |-> after[t].func_indexes[at_]]
  BY DEF WriteElems
<1> HIDE DEF WriteElems
<1>3. IsSeq(after) /\ Len(after) = Len(tables)
  BY <1>1, <1>2, FunctionIsSeq
<1>4. ASSUME NEW i \in 1 .. Len(tables)
      PROVE  /\ IsSeq(after[i].func_indexes)
             /\ Len(after[i].func_indexes) = Len(tables[i].func_indexes)
  <2> DEFINE s == tables[i].func_indexes
             t == after[i].func_indexes
  <2>1. IsSeq(s)
    OBVIOUS
  <2>2. t = [at_ \in DOMAIN s |-> t[at_]]
    BY <1>1, <1>2
  <2> HIDE DEF s, t
  <2>3. Len(s) \in Nat /\ t = [at_ \in 1 .. Len(s) |-> t[at_]]
    BY <2>1, <2>2, SeqFacts
  <2>4. IsSeq(t) /\ Len(t) = Len(s)
    BY <2>3, FunctionIsSeq
  <2> QED BY <2>4 DEF s, t
<1> QED BY <1>3, <1>4

LEMMA DataWritten ==
    ASSUME NEW memories, IsSeq(memories), NEW infos,
           NEW after, after = WriteData(memories, infos)
    PROVE  /\ IsSeq(after) /\ Len(after) = Len(memories)
           /\ \A i \in 1 .. Len(memories) :
                 after[i].page_limits = memories[i].page_limits
<1>1. Len(memories) \in Nat /\ DOMAIN memories = 1 .. Len(memories)
  BY SeqFacts
<1>2. /\ after = [m \in DOMAIN memories |-> after[m]]
      /\ \A m \in DOMAIN memories : after[m].page_limits = memories[m].page_limits
  BY DEF WriteData
<1>3. IsSeq(after) /\ Len(after) = Len(memories)
  BY <1>1, <1>2, FunctionIsSeq
<1> QED BY <1>1, <1>2, <1>3

(* Of the environment before the load only the contents of tables and       *)
(* memories are changed by the end of the module.                           *)
LEMMA EndModuleWorks ==
    ASSUME NEW file, FileRead(file), NEW n \in 1 .. Len(file), NEW base,
           NEW a, Read(a, file, n, base), file[n].on = "end_module"
    PROVE  Read(EndModule(a), file, n + 1, base)
<1> DEFINE b == EndModule(a)
<1>1. /\ DOMAIN b = LoadFields
      /\ b.sig_index_mapping = a.sig_index_mapping
      /\ b.func_index_mapping = a.func_index_mapping
      /\ b.global_index_mapping = a.global_index_mapping
      /\ DOMAIN b.env = Fields
      /\ b.env.tables = WriteElems(a.env.tables, a.elem_segment_infos)
      /\ b.env.memories = WriteData(a.env.memories, a.data_segment_infos)
      /\ b.env.modules = a.env.modules /\ b.env.sigs = a.env.sigs
      /\ b.env.funcs = a.env.funcs /\ b.env.globals = a.env.globals
      /\ b.env.istream = a.env.istream
      /\ b.env.module_bindings = a.env.module_bindings
      /\ b.env.registered_module_bindings = a.env.registered_module_bindings
  BY DEF Read, Environment, EndModule, LoadFields, Fields, Vectors
<1> HIDE DEF b
<1>2. /\ Environment(a.env) /\ Kept(a.env, base) /\ Environment(base)
      /\ \A i \in 1 .. Len(a.env.tables) : IsSeq(a.env.tables[i].func_indexes)
  BY DEF Read, Environment
<1>3. /\ IsSeq(b.env.tables) /\ Len(b.env.tables) = Len(a.env.tables)
      /\ \A i \in 1 .. Len(a.env.tables) :
            /\ IsSeq(b.env.tables[i].func_indexes)
            /\ Len(b.env.tables[i].func_indexes) = Len(a.env.tables[i].func_indexes)
  <2> DEFINE tables == a.env.tables
             after == b.env.tables
             infos == a.elem_segment_infos
  <2>1. /\ IsSeq(tables) /\ after = WriteElems(tables, infos)
        /\ \A i \in 1 .. Len(tables) : IsSeq(tables[i].func_indexes)
    BY <1>1, <1>2, EnvironmentVectors
  <2> HIDE DEF tables, after, infos
  <2>2. /\ IsSeq(after) /\ Len(after) = Len(tables)
        /\ \A i \in 1 .. Len(tables) :
              /\ IsSeq(after[i].func_indexes)
              /\ Len(after[i].func_indexes) = Len(tables[i].func_indexes)
    BY <2>1, ElemsWritten
  <2> QED BY <2>2 DEF tables, after
<1>4. /\ IsSeq(b.env.memories) /\ Len(b.env.memories) = Len(a.env.memories)
      /\ \A i \in 1 .. Len(a.env.memories) :
            b.env.memories[i].page_limits = a.env.memories[i].page_limits
  <2> DEFINE memories == a.env.memories
             after == b.env.memories
             infos == a.data_segment_infos
  <2>1. IsSeq(memories) /\ after = WriteData(memories, infos)
    BY <1>1, <1>2, EnvironmentVectors
  <2> HIDE DEF memories, after, infos
  <2>2. /\ IsSeq(after) /\ Len(after) = Len(memories)
        /\ \A i \in 1 .. Len(memories) :
              after[i].page_limits = memories[i].page_limits
    BY <2>1, DataWritten
  <2> QED BY <2>2 DEF memories, after
<1>5. Environment(b.env)
  <2>1. \A v \in Vectors : IsSeq(b.env[v])
    BY <1>1, <1>2, <1>3, <1>4, EnvironmentVectors DEF Vectors
  <2> QED BY <1>1, <1>2, <1>3, <2>1 DEF Environment
<1>6. \A v \in Vectors : Len(b.env[v]) = Len(a.env[v])
  BY <1>1, <1>3, <1>4 DEF Vectors
<1>7. Kept(b.env, base)
  <2>1. \A v \in Vectors : Len(base[v]) <= Len(b.env[v])
    BY <1>2, <1>6 DEF Kept
  <2>2. \A v \in {"sigs", "funcs", "globals", "istream"} : b.env[v] = a.env[v]
    BY <1>1
  <2>3. /\ Len(base.tables) <= Len(a.env.tables) /\ Len(base.tables) \in Nat
        /\ Len(base.memories) <= Len(a.env.memories) /\ Len(base.memories) \in Nat
        /\ Len(a.env.tables) \in Nat /\ Len(a.env.memories) \in Nat
    BY <1>2, Lengths DEF Kept, Vectors
  <2>4. \A i \in 1 .. Len(base.tables) :
           Len(b.env.tables[i].func_indexes) = Len(base.tables[i].func_indexes)
    BY <1>2, <1>3, <2>3 DEF Kept
  <2>5. \A i \in 1 .. Len(base.memories) :
           b.env.memories[i].page_limits.max = base.memories[i].page_limits.max
    <3> SUFFICES ASSUME NEW i \in 1 .. Len(base.memories)
                 PROVE  b.env.memories[i].page_limits.max
                            = base.memories[i].page_limits.max
      OBVIOUS
    <3>1. a.env.memories[i].page_limits.max = base.memories[i].page_limits.max
      BY <1>2 DEF Kept
    <3>2. b.env.memories[i].page_limits = a.env.memories[i].page_limits
      BY <1>4, <2>3
    <3> QED BY <3>1, <3>2
  <2>6. \A v \in {"sigs", "funcs", "globals", "istream"} :
           \A i \in 1 .. Len(base[v]) : b.env[v][i] = base[v][i]
    <3>1. Kept(a.env, base)
      BY <1>2
    <3>2. \A v \in {"sigs", "funcs", "globals", "istream"} :
             \A i \in 1 .. Len(base[v]) : a.env[v][i] = base[v][i]
      BY <3>1 DEF Kept
    <3>3. ASSUME NEW v \in {"sigs", "funcs", "globals", "istream"},
                 NEW i \in 1 .. Len(base[v])
          PROVE  b.env[v][i] = base[v][i]
      <4>1. b.env[v] = a.env[v]
        BY <2>2
      <4>2. a.env[v][i] = base[v][i]
        BY <3>2
      <4> QED BY <4>1, <4>2
    <3> QED BY <3>3
  <2>7. \A i \in 1 .. Len(base.modules) :
           \/ b.env.modules[i] = base.modules[i]
           \/ b.env.modules[i].is_host /\ base.modules[i].is_host
    BY <1>1, <1>2 DEF Kept
  <2>8. /\ b.env.module_bindings = base.module_bindings
        /\ b.env.registered_module_bindings = base.registered_module_bindings
    BY <1>1, <1>2 DEF Kept
  <2> QED BY <2>1, <2>4, <2>5, <2>6, <2>7, <2>8 DEF Kept
<1>8. Longer(a.env, b.env)
  BY <1>1, <1>2, <1>3, <1>4, Lengths DEF Longer
<1>9. Module(b) = Module(a) /\ ModuleGrows(Module(a), Module(a))
  BY <1>1, ThisModule DEF Module, This
<1>10. Mapped(a.func_index_mapping, file, "func", n)
       /\ Mapped(a.global_index_mapping, file, "global", n)
  BY DEF Read
<1>11. /\ Prefix(a.func_index_mapping, b.func_index_mapping)
       /\ Prefix(a.global_index_mapping, b.global_index_mapping)
  BY <1>1, <1>10, SeqFacts DEF Mapped, Prefix
<1>12. Grows(a, b)
  BY <1>1, <1>5, <1>8, <1>9, <1>11 DEF Grows
<1>13. ModuleWhole(b.env, Module(b))
  BY <1>2, <1>5, <1>8, <1>9, ModuleStays DEF Read
<1>14. Mapped(b.global_index_mapping, file, "global", n + 1)
  BY <1>1, <1>10, MappedStays DEF Counters
<1>15. ItemRead(b, file, n, base)
  BY DEF ItemRead, Declarations
<1>16. Read(b, file, n + 1, base)
  BY <1>1, <1>7, <1>12, <1>13, <1>14, <1>15, OtherRead
<1> QED BY <1>16 DEF b
-----------------------------------------------------------------------------
(* Imports *)

(* The import is noted in the module.                                       *)
LEMMA ImportNoted ==
    ASSUME NEW file, FileRead(file), NEW n \in 1 .. Len(file), NEW base,
           NEW a, Read(a, file, n, base), Unwritten(a.env, base),
           NEW e, NEW sig_index, NEW b, b = AddImport(a, e, sig_index)
    PROVE  /\ Read(b, file, n, base) /\ Unwritten(b.env, base)
           /\ b.sig_index_mapping = a.sig_index_mapping
           /\ b.env.sigs = a.env.sigs /\ Len(b.env.modules) = Len(a.env.modules)
           /\ \A i \in 1 .. Len(base.modules) : b.env.modules[i] = a.env.modules[i]
           /\ Module(b).table_index = Module(a).table_index
           /\ Module(b).memory_index = Module(a).memory_index
<1> DEFINE import == [kind |-> e.kind, module |-> e.module, field |-> e.field,
                      sig_index |-> sig_index]
           x == [Module(a) EXCEPT !.imports = Append(@, import)]
<1>1. /\ DOMAIN b = LoadFields
      /\ b.sig_index_mapping = a.sig_index_mapping
      /\ b.func_index_mapping = a.func_index_mapping
      /\ b.global_index_mapping = a.global_index_mapping
      /\ ModuleSet(a.env, b.env, This(a), x)
  <2> HIDE DEF import
  <2> QED BY DEF Read, Environment, AddImport, LoadFields, ModuleSet, Fields,
                 Vectors, Updated, Module, This, import
<1> DEFINE after == b.env
<1>2. IsModule(Module(a)) /\ ~Module(a).is_host /\ ModuleWhole(a.env, Module(a))
      /\ Len(Module(a).exports) \in Nat /\ Environment(a.env)
  BY ThisModule DEF Read
<1>3. /\ DOMAIN x = ModuleFields
      /\ \A f \in ModuleFields \ {"imports"} : x[f] = Module(a)[f]
  <2> HIDE DEF import
  <2> QED BY <1>2 DEF IsModule, ModuleFields
<1> HIDE DEF x
<1>4. /\ x.exports = Module(a).exports /\ x.is_host = Module(a).is_host
      /\ x.table_index = Module(a).table_index
      /\ x.memory_index = Module(a).memory_index
      /\ x.start_func_index = Module(a).start_func_index
      /\ x.istream_start = Module(a).istream_start
      /\ x.istream_end = Module(a).istream_end
  BY <1>3 DEF ModuleFields
<1>5. IsModule(x) /\ ModuleGrows(Module(a), x) /\ ModuleWhole(a.env, x)
  BY <1>2, <1>3, <1>4 DEF IsModule, ModuleGrows, ModuleWhole
<1>6. Begun(a.env, base) /\ ModuleSet(a.env, after, This(a), x)
  BY <1>1, ReadBegun
<1> HIDE DEF after
<1>7. /\ This(a) \in 1 .. Len(a.env.modules) /\ This(a) > Len(base.modules)
      /\ This(a) = Len(a.env.modules) /\ Len(base.modules) \in Nat
      /\ Len(a.env.modules) \in Nat
  BY <1>6, ThisModule, BegunLengths
<1>8. /\ Begun(after, base) /\ Extended(a.env, after)
      /\ \A j \in 1 .. Len(a.env.modules) :
            after.modules[j] = IF j = This(a) THEN x ELSE a.env.modules[j]
  <2> DEFINE i == This(a)
             before == a.env
  <2>1. /\ Begun(before, base) /\ i \in 1 .. Len(before.modules)
        /\ ModuleSet(before, after, i, x)
        /\ i > Len(base.modules) \/ (before.modules[i].is_host /\ x.is_host)
    BY <1>6, <1>7
  <2> HIDE DEF i, before
  <2>2. /\ Begun(after, base) /\ Extended(before, after)
        /\ \A j \in 1 .. Len(before.modules) :
              after.modules[j] = IF j = i THEN x ELSE before.modules[j]
    BY <1>5, <2>1, ModuleSetExtends
  <2> QED BY <2>2 DEF i, before
<1>9. /\ after.sigs = a.env.sigs /\ after.funcs = a.env.funcs
      /\ after.istream = a.env.istream
  BY <1>6 DEF ModuleSet, Fields, Vectors
<1>10. Module(b) = x
  BY <1>7, <1>8 DEF Module, This, after, Extended
<1>11. Begun(b.env, base) /\ Extended(a.env, b.env)
  BY <1>8 DEF after
<1>12. Grows(a, b) /\ Kept(b.env, base) /\ Longer(a.env, b.env)
  BY <1>1, <1>5, <1>10, <1>11, ExtendedGrows
<1>13. ModuleWhole(b.env, Module(b))
  BY <1>2, <1>5, <1>10, <1>11, <1>12, ModuleStays DEF Begun
<1>14. Read(b, file, n, base)
  <2>1. n \in 1 .. Len(file) + 1
    BY FileFacts
  <2> QED BY <1>1, <1>9, <1>12, <1>13, <2>1, ReadKeeps DEF after
<1>15. \A i \in 1 .. Len(base.modules) : b.env.modules[i] = a.env.modules[i]
  BY <1>7, <1>8 DEF after
<1> QED BY <1>1, <1>4, <1>9, <1>10, <1>11, <1>14, <1>15 DEF after, Begun, Extended

(* A module of the host gets an export.                                     *)
LEMMA HostExportWorks ==
    ASSUME NEW file, FileRead(file), NEW n \in 1 .. Len(file), NEW base,
           NEW a, Works(a, file, n, base), NEW b, DOMAIN b = LoadFields,
           b.ok = a.ok, b.aborted = a.aborted,
           b.sig_index_mapping = a.sig_index_mapping,
           b.func_index_mapping = a.func_index_mapping,
           b.global_index_mapping = a.global_index_mapping,
           NEW m \in 1 .. Len(base.modules), a.env.modules[m].is_host, NEW export,
           ModuleSet(a.env, b.env, m, WithExport(a.env.modules[m], export))
    PROVE  Works(b, file, n, base)
<1> DEFINE x == WithExport(a.env.modules[m], export)
           after == b.env
<1>1. Begun(a.env, base)
  BY DEF Works
<1>2. m \in 1 .. Len(a.env.modules) /\ Len(base.modules) \in Nat
      /\ Len(a.env.modules) \in Nat
  BY <1>1, BegunLengths
<1>3. IsModule(a.env.modules[m])
  BY <1>1, <1>2 DEF Begun, Environment
<1>4. IsModule(x) /\ x.is_host
  BY <1>3, ExportAdded
<1>5. ModuleSet(a.env, after, m, x)
  OBVIOUS
<1> HIDE DEF x, after
<1>6. /\ Begun(after, base) /\ Extended(a.env, after)
      /\ \A j \in 1 .. Len(a.env.modules) :
            after.modules[j] = IF j = m THEN x ELSE a.env.modules[j]
  <2> DEFINE e == a.env
  <2>1. /\ Begun(e, base) /\ m \in 1 .. Len(e.modules) /\ ModuleSet(e, after, m, x)
        /\ m > Len(base.modules) \/ (e.modules[m].is_host /\ x.is_host)
    BY <1>1, <1>2, <1>4, <1>5
  <2> HIDE DEF e
  <2>2. /\ Begun(after, base) /\ Extended(e, after)
        /\ \A j \in 1 .. Len(e.modules) :
              after.modules[j] = IF j = m THEN x ELSE e.modules[j]
    BY <1>4, <2>1, ModuleSetExtends
  <2> QED BY <2>2 DEF e
<1>7. ASSUME a.ok, ~a.aborted PROVE Read(b, file, n + 1, base)
  <2>1. Read(a, file, n + 1, base) /\ n + 1 \in 1 .. Len(file) + 1
    BY <1>7, FileFacts DEF Works
  <2>2. /\ This(a) \in 1 .. Len(a.env.modules) /\ This(a) > Len(base.modules)
        /\ This(a) = Len(a.env.modules) /\ ModuleGrows(Module(a), Module(a))
    BY <2>1, ThisModule
  <2>3. Module(b) = Module(a)
    <3>1. This(a) # m /\ Len(after.modules) = Len(a.env.modules)
      BY <1>2, <1>6, <2>2 DEF Extended
    <3>2. after.modules[This(a)] = a.env.modules[This(a)]
      BY <1>6, <2>2, <3>1
    <3> QED BY <3>1, <3>2 DEF Module, This, after
  <2>4. /\ after.sigs = a.env.sigs /\ after.funcs = a.env.funcs
        /\ after.istream = a.env.istream
    BY <1>5 DEF ModuleSet, Fields, Vectors
  <2>5. Begun(b.env, base) /\ Extended(a.env, b.env)
    BY <1>6 DEF after
  <2>6. Grows(a, b) /\ Kept(b.env, base) /\ Longer(a.env, b.env)
    BY <2>1, <2>2, <2>3, <2>5, ExtendedGrows
  <2>7. ModuleWhole(b.env, Module(b))
    BY <2>1, <2>3, <2>5, <2>6, ModuleStays DEF Begun, Read
  <2> QED BY <2>1, <2>4, <2>6, <2>7, ReadKeeps DEF after
<1> QED BY <1>6, <1>7 DEF Works, after

(* A function is imported, and may be added with it.                        *)
LEMMA FuncImported ==
    ASSUME NEW file, FileRead(file), NEW n \in 1 .. Len(file), NEW base,
           NEW a, Read(a, file, n, base), NEW b, DOMAIN b = LoadFields,
           file[n].on = "import", file[n].kind = "func",
           b.sig_index_mapping = a.sig_index_mapping,
           b.global_index_mapping = a.global_index_mapping, NEW index,
           b.func_index_mapping = Append(a.func_index_mapping, index),
           Begun(b.env, base), Extended(a.env, b.env),
           b.env.modules = a.env.modules, IndexOf(b.env.funcs, index),
           IndexOf(b.env.sigs, b.env.funcs[index + 1].sig_index),
           b.env.sigs[b.env.funcs[index + 1].sig_index + 1] = DeclaredSig(file, n),
           \A k \in Len(a.env.funcs) + 1 .. Len(b.env.funcs) :
              /\ DOMAIN b.env.funcs[k] = FuncFields /\ b.env.funcs[k].is_host
              /\ IndexOf(b.env.sigs, b.env.funcs[k].sig_index)
    PROVE  Works(b, file, n, base)
<1>1. Mapped(a.func_index_mapping, file, "func", n)
      /\ Mapped(a.global_index_mapping, file, "global", n)
  BY DEF Read
<1>2. /\ Mapped(b.func_index_mapping, file, "func", n + 1)
      /\ Len(a.func_index_mapping) = ItemIndex(file, "func", n)
  BY <1>1, MappedImport
<1>3. Mapped(b.global_index_mapping, file, "global", n + 1)
  BY <1>1, MappedStays DEF Counters
<1>4. /\ IsSeq(a.func_index_mapping) /\ IsSeq(b.func_index_mapping)
      /\ Prefix(a.func_index_mapping, b.func_index_mapping)
      /\ Len(b.func_index_mapping) = Len(a.func_index_mapping) + 1
      /\ b.func_index_mapping[Len(a.func_index_mapping) + 1] = index
      /\ Len(a.func_index_mapping) \in Nat
  <2>1. IsSeq(a.func_index_mapping) /\ IsSeq(b.func_index_mapping)
    BY <1>1, <1>2 DEF Mapped
  <2> QED BY <2>1, AppendFacts, SeqFacts DEF Prefix
<1>5. Module(b) = Module(a) /\ ModuleGrows(Module(a), Module(a))
  BY ThisModule DEF Module, This
<1>6. Grows(a, b) /\ Kept(b.env, base) /\ Longer(a.env, b.env)
  BY <1>4, <1>5, ExtendedGrows
<1>7. ModuleWhole(b.env, Module(b))
  BY <1>5, <1>6, ModuleStays DEF Read, Begun
<1>8. FuncRead(b, file, n)
  <2>1. /\ IndexOf(b.func_index_mapping, ItemIndex(file, "func", n))
        /\ TranslateFuncIndexToEnv(b, ItemIndex(file, "func", n)) = index
    BY <1>2, <1>4 DEF IndexOf, TranslateFuncIndexToEnv
  <2> QED BY <2>1 DEF FuncRead
<1>9. ItemRead(b, file, n, base)
  BY <1>8 DEF ItemRead, Declarations
<1>10. FuncPlaces(b, file, n + 1, base)
  <2>1. ASSUME NEW p \in 1 .. n + 1 - 1 PROVE file[p].on # "function_count"
    <3>1. p \in 1 .. Len(file) /\ ~(n < p)
      BY FileFacts
    <3> QED BY <3>1, SectionOrder
  <2> QED BY <2>1 DEF FuncPlaces
<1>11. FuncsWhole(b, file, n + 1, base)
  <2> SUFFICES ASSUME NEW k \in Len(base.funcs) + 1 .. Len(b.env.funcs)
               PROVE  LET f == b.env.funcs[k]
                      IN  /\ DOMAIN f = FuncFields /\ IndexOf(b.env.sigs, f.sig_index)
                          /\ \/ f.is_host
                             \/ IndexOf(b.env.istream, f.offset)
                             \/ Bodiless(b, file, n + 1, k - 1)
    BY DEF FuncsWhole
  <2>1. CASE k \in Len(base.funcs) + 1 .. Len(a.env.funcs)
    <3>1. file[n].on # "body"
      OBVIOUS
    <3> QED BY <1>4, <1>6, <2>1, <3>1, FuncsStay
  <2>2. CASE k \in Len(a.env.funcs) + 1 .. Len(b.env.funcs)
    BY <2>2
  <2>3. Len(a.env.funcs) \in Nat /\ Len(base.funcs) \in Nat /\ Len(b.env.funcs) \in Nat
    BY Lengths DEF Read, Begun
  <2> QED BY <2>1, <2>2, <2>3
<1>12. Read(b, file, n + 1, base)
  BY <1>2, <1>3, <1>6, <1>7, <1>9, <1>10, <1>11, StepRead
<1> QED BY <1>12 DEF Works

LEMMA GlobalImported ==
    ASSUME NEW file, FileRead(file), NEW n \in 1 .. Len(file), NEW base,
           NEW a, Read(a, file, n, base), NEW b, DOMAIN b = LoadFields,
           file[n].on = "import", file[n].kind = "global",
           b.sig_index_mapping = a.sig_index_mapping,
           b.func_index_mapping = a.func_index_mapping, NEW index,
           b.global_index_mapping = Append(a.global_index_mapping, index),
           Begun(b.env, base), Extended(a.env, b.env),
           b.env.modules = a.env.modules, b.env.funcs = a.env.funcs,
           IndexOf(b.env.globals, index)
    PROVE  Works(b, file, n, base)
<1>1. Mapped(a.global_index_mapping, file, "global", n)
  BY DEF Read
<1>2. /\ Mapped(b.global_index_mapping, file, "global", n + 1)
      /\ Len(a.global_index_mapping) = ItemIndex(file, "global", n)
  BY <1>1, MappedImport
<1>3. /\ Prefix(a.global_index_mapping, b.global_index_mapping)
      /\ Len(b.global_index_mapping) = Len(a.global_index_mapping) + 1
      /\ b.global_index_mapping[Len(a.global_index_mapping) + 1] = index
      /\ Len(a.global_index_mapping) \in Nat
  <2>1. IsSeq(a.global_index_mapping)
    BY <1>1 DEF Mapped
  <2> QED BY <2>1, AppendFacts, SeqFacts DEF Prefix
<1>4. Module(b) = Module(a) /\ ModuleGrows(Module(a), Module(a))
  BY ThisModule DEF Module, This
<1>5. Grows(a, b) /\ Kept(b.env, base) /\ Longer(a.env, b.env)
  BY <1>3, <1>4, ExtendedGrows
<1>6. ModuleWhole(b.env, Module(b))
  BY <1>4, <1>5, ModuleStays DEF Read, Begun
<1>7. GlobalRead(b, file, n, base)
  <2>1. /\ IndexOf(b.global_index_mapping, ItemIndex(file, "global", n))
        /\ TranslateGlobalIndexToEnv(b, ItemIndex(file, "global", n)) = index
    BY <1>2, <1>3 DEF IndexOf, TranslateGlobalIndexToEnv
  <2> QED BY <2>1 DEF GlobalRead
<1>8. ItemRead(b, file, n, base)
  BY <1>7 DEF ItemRead, Declarations
<1>9. Read(b, file, n + 1, base)
  BY <1>2, <1>5, <1>6, <1>8, OtherRead
<1> QED BY <1>9 DEF Works

LEMMA ErrorBegun ==
    ASSUME NEW file, NEW n, NEW base, NEW b, Begun(b.env, base), ~b.ok
    PROVE  Works(b, file, n, base)
BY DEF Works

(* An import from the host adds an item.                                    *)
LEMMA ImportHostFuncWorks ==
    ASSUME NEW file, FileRead(file), NEW n \in 1 .. Len(file), NEW base,
           NEW a, Read(a, file, n, base), Unwritten(a.env, base),
           file[n].on = "import", file[n].kind = "func",
           NEW m \in 1 .. Len(base.modules), a.env.modules[m].is_host
    PROVE  Works(ImportHostFunc(a, file[n], m, TranslateSigIndexToEnv(a, file[n].sig)),
                 file, n, base)
<1> DEFINE e == file[n]
           sig_index == TranslateSigIndexToEnv(a, e.sig)
           index == Len(a.env.funcs)
           func == [is_host |-> TRUE, sig_index |-> sig_index,
                    offset |-> kInvalidIndex]
           added == [a EXCEPT !.env.funcs = Append(@, func)]
           c == [added EXCEPT !.func_index_mapping = Append(@, index),
                              !.num_func_imports = @ + 1]
           export == [name |-> e.field, kind |-> "func", index |-> index]
           b == [AppendExport(added, m, "func", index, e.field) EXCEPT
                    !.func_index_mapping = Append(@, index),
                    !.num_func_imports = @ + 1]
<1>1. ImportHostFunc(a, e, m, sig_index) \in {Error(added), b}
  BY DEF ImportHostFunc
<1>2. DOMAIN a = LoadFields /\ DOMAIN a.env = Fields
  BY DEF Read, Environment
<1>3. /\ DOMAIN func = FuncFields /\ func.is_host /\ func.sig_index = sig_index
  BY DEF FuncFields
<1>4. n \in Declarations(file, "func")
  BY FileFacts DEF Declarations
<1>5. /\ IndexOf(a.env.sigs, sig_index)
      /\ a.env.sigs[sig_index + 1] = DeclaredSig(file, n)
  BY <1>4, DeclaredType
<1> HIDE DEF func, sig_index
<1>6. /\ Added(a.env, added.env, "funcs", func) /\ DOMAIN added = LoadFields
      /\ added.sig_index_mapping = a.sig_index_mapping
      /\ added.global_index_mapping = a.global_index_mapping
      /\ added.func_index_mapping = a.func_index_mapping
      /\ added.ok = a.ok /\ added.aborted = a.aborted
  BY <1>2 DEF LoadFields, Fields, Vectors, Added
<1> HIDE DEF added
<1>7. /\ Begun(added.env, base) /\ Extended(a.env, added.env)
      /\ added.env.modules = a.env.modules /\ added.env.sigs = a.env.sigs
      /\ Len(added.env.funcs) = index + 1 /\ added.env.funcs[index + 1] = func
  <2>1. "funcs" \in Vectors \ {"modules"}
    BY DEF Vectors
  <2>2. /\ Begun(added.env, base) /\ Extended(a.env, added.env)
        /\ added.env.modules = a.env.modules
        /\ Len(added.env["funcs"]) = Len(a.env["funcs"]) + 1
        /\ added.env["funcs"][Len(a.env["funcs"]) + 1] = func
    BY <1>6, <2>1, ReadBegun, AddedExtends
  <2> QED BY <1>6, <2>2 DEF Added, Fields, Vectors
<1>8. Works(Error(added), file, n, base)
  <2>1. Error(added).env = added.env /\ ~Error(added).ok
    BY <1>6 DEF Error, LoadFields
  <2> QED BY <1>7, <2>1, ErrorBegun
<1>9. /\ DOMAIN c = LoadFields /\ c.env = added.env
      /\ c.sig_index_mapping = a.sig_index_mapping
      /\ c.global_index_mapping = a.global_index_mapping
      /\ c.func_index_mapping = Append(a.func_index_mapping, index)
      /\ c.ok = a.ok /\ c.aborted = a.aborted
  BY <1>6 DEF LoadFields
<1>10. /\ DOMAIN b = LoadFields /\ b.ok = a.ok /\ b.aborted = a.aborted
       /\ b.sig_index_mapping = c.sig_index_mapping
       /\ b.func_index_mapping = c.func_index_mapping
       /\ b.global_index_mapping = c.global_index_mapping
       /\ ModuleSet(c.env, b.env, m, WithExport(c.env.modules[m], export))
  <2> DEFINE d == [added EXCEPT !.env.modules[m].exports = Append(@, export)]
  <2>1. AppendExport(added, m, "func", index, e.field) = d
    BY <1>7 DEF AppendExport
  <2>2. b = [d EXCEPT !.func_index_mapping = Append(@, index),
                      !.num_func_imports = @ + 1]
    BY <2>1
  <2> HIDE DEF export, index, b
  <2>3. DOMAIN added.env = Fields
    BY <1>6 DEF Added
  <2>4. /\ DOMAIN d = LoadFields
        /\ d.sig_index_mapping = a.sig_index_mapping
        /\ d.global_index_mapping = a.global_index_mapping
        /\ d.func_index_mapping = a.func_index_mapping
        /\ d.ok = a.ok /\ d.aborted = a.aborted
        /\ ModuleSet(added.env, d.env, m, WithExport(added.env.modules[m], export))
    BY <1>6, <2>3 DEF LoadFields, Fields, Vectors, ModuleSet, Updated, WithExport
  <2> HIDE DEF d
  <2> QED BY <1>9, <2>2, <2>4 DEF LoadFields
<1> HIDE DEF c, b, export
<1>11. Works(c, file, n, base)
  <2>1. index \in Nat
    BY Lengths DEF Read
  <2> HIDE DEF index
  <2>2. IndexOf(c.env.funcs, index) /\ c.env.funcs[index + 1] = func
        /\ Begun(c.env, base) /\ Extended(a.env, c.env)
        /\ c.env.modules = a.env.modules /\ c.env.sigs = a.env.sigs
        /\ Len(c.env.funcs) = index + 1
    BY <1>7, <1>9, <2>1 DEF IndexOf
  <2>3. \A k \in index + 1 .. index + 1 : k = index + 1
    BY <2>1
  <2>4. \A k \in Len(a.env.funcs) + 1 .. Len(c.env.funcs) :
           /\ DOMAIN c.env.funcs[k] = FuncFields /\ c.env.funcs[k].is_host
           /\ IndexOf(c.env.sigs, c.env.funcs[k].sig_index)
    BY <1>3, <1>5, <2>2, <2>3 DEF index
  <2>5. /\ IndexOf(c.env.sigs, c.env.funcs[index + 1].sig_index)
        /\ c.env.sigs[c.env.funcs[index + 1].sig_index + 1] = DeclaredSig(file, n)
    BY <1>3, <1>5, <2>2
  <2> QED BY <1>9, <2>2, <2>4, <2>5, FuncImported
<1>12. Works(b, file, n, base)
  BY <1>7, <1>9, <1>10, <1>11, HostExportWorks
<1> QED BY <1>1, <1>8, <1>12 DEF sig_index

LEMMA ImportHostGlobalWorks ==
    ASSUME NEW file, FileRead(file), NEW n \in 1 .. Len(file), NEW base,
           NEW a, Read(a, file, n, base), Unwritten(a.env, base),
           file[n].on = "import", file[n].kind = "global",
           NEW m \in 1 .. Len(base.modules), a.env.modules[m].is_host
    PROVE  Works(ImportHostGlobal(a, file[n], m), file, n, base)
<1> DEFINE e == file[n]
           index == Len(a.env.globals)
           global(value) == [typed_value |-> value, mutable_ |-> e.mutable_]
           added(value) == [a EXCEPT !.env.globals = Append(@, global(value))]
           c(value) == [added(value) EXCEPT !.global_index_mapping = Append(@, index),
                                            !.num_global_imports = @ + 1]
           export == [name |-> e.field, kind |-> "global", index |-> index]
           b(value) == [AppendExport(added(value), m, "global", index, e.field) EXCEPT
                           !.global_index_mapping = Append(@, index),
                           !.num_global_imports = @ + 1]
<1>1. \E value : ImportHostGlobal(a, e, m) \in {Error(added(value)), b(value)}
  BY DEF ImportHostGlobal
<1>2. PICK value : ImportHostGlobal(a, e, m) \in {Error(added(value)), b(value)}
  BY <1>1
<1> DEFINE x == global(value)
           y == added(value)
           z == c(value)
           w == b(value)
<1>3. DOMAIN a = LoadFields /\ DOMAIN a.env = Fields
  BY DEF Read, Environment
<1>4. y = [a EXCEPT !.env.globals = Append(@, x)]
  OBVIOUS
<1>5. z = [y EXCEPT !.global_index_mapping = Append(@, index),
                    !.num_global_imports = @ + 1]
  OBVIOUS
<1>6. w = [AppendExport(y, m, "global", index, e.field) EXCEPT
              !.global_index_mapping = Append(@, index),
              !.num_global_imports = @ + 1]
  OBVIOUS
<1>7. ImportHostGlobal(a, e, m) \in {Error(y), w}
  BY <1>2
<1> HIDE DEF w, z, y, x, global, added, c, b
<1>8. /\ Added(a.env, y.env, "globals", x) /\ DOMAIN y = LoadFields
      /\ y.sig_index_mapping = a.sig_index_mapping
      /\ y.global_index_mapping = a.global_index_mapping
      /\ y.func_index_mapping = a.func_index_mapping
      /\ y.ok = a.ok /\ y.aborted = a.aborted
  BY <1>3, <1>4 DEF LoadFields, Fields, Vectors, Added
<1>9. /\ Begun(y.env, base) /\ Extended(a.env, y.env)
      /\ y.env.modules = a.env.modules /\ y.env.funcs = a.env.funcs
      /\ Len(y.env.globals) = index + 1
  <2>1. "globals" \in Vectors \ {"modules"}
    BY DEF Vectors
  <2>2. /\ Begun(y.env, base) /\ Extended(a.env, y.env)
        /\ y.env.modules = a.env.modules
        /\ Len(y.env["globals"]) = Len(a.env["globals"]) + 1
    BY <1>8, <2>1, ReadBegun, AddedExtends
  <2> QED BY <1>8, <2>2 DEF Added, Fields, Vectors
<1>10. Works(Error(y), file, n, base)
  <2>1. Error(y).env = y.env /\ ~Error(y).ok
    BY <1>8 DEF Error, LoadFields
  <2> QED BY <1>9, <2>1, ErrorBegun
<1>11. /\ DOMAIN z = LoadFields /\ z.env = y.env
       /\ z.sig_index_mapping = a.sig_index_mapping
       /\ z.func_index_mapping = a.func_index_mapping
       /\ z.global_index_mapping = Append(a.global_index_mapping, index)
       /\ z.ok = a.ok /\ z.aborted = a.aborted
  BY <1>5, <1>8 DEF LoadFields
<1>12. /\ DOMAIN w = LoadFields /\ w.ok = a.ok /\ w.aborted = a.aborted
       /\ w.sig_index_mapping = z.sig_index_mapping
       /\ w.func_index_mapping = z.func_index_mapping
       /\ w.global_index_mapping = z.global_index_mapping
       /\ ModuleSet(z.env, w.env, m, WithExport(z.env.modules[m], export))
  <2> DEFINE d == [y EXCEPT !.env.modules[m].exports = Append(@, export)]
  <2>1. AppendExport(y, m, "global", index, e.field) = d
    BY <1>9 DEF AppendExport
  <2>2. w = [d EXCEPT !.global_index_mapping = Append(@, index),
                      !.num_global_imports = @ + 1]
    BY <1>6, <2>1
  <2> HIDE DEF export, index
  <2>3. DOMAIN y.env = Fields
    BY <1>8 DEF Added
  <2>4. /\ DOMAIN d = LoadFields
        /\ d.sig_index_mapping = a.sig_index_mapping
        /\ d.global_index_mapping = a.global_index_mapping
        /\ d.func_index_mapping = a.func_index_mapping
        /\ d.ok = a.ok /\ d.aborted = a.aborted
        /\ ModuleSet(y.env, d.env, m, WithExport(y.env.modules[m], export))
    BY <1>8, <2>3 DEF LoadFields, Fields, Vectors, ModuleSet, Updated, WithExport
  <2> HIDE DEF d
  <2> QED BY <1>11, <2>2, <2>4 DEF LoadFields
<1> HIDE DEF export
<1>13. Works(z, file, n, base)
  <2>1. index \in Nat
    BY Lengths DEF Read
  <2> HIDE DEF index
  <2>2. IndexOf(z.env.globals, index)
        /\ Begun(z.env, base) /\ Extended(a.env, z.env)
        /\ z.env.modules = a.env.modules /\ z.env.funcs = a.env.funcs
    BY <1>9, <1>11, <2>1 DEF IndexOf
  <2> QED BY <1>11, <2>2, GlobalImported
<1>14. Works(w, file, n, base)
  BY <1>9, <1>11, <1>12, <1>13, HostExportWorks
<1> QED BY <1>7, <1>10, <1>14

(* So does the import of a table or a memory, which becomes the module's.   *)
LEMMA HostSizedWorks ==
    ASSUME NEW file, FileRead(file), NEW n \in 1 .. Len(file), NEW base,
           NEW a, Read(a, file, n, base), Unwritten(a.env, base),
           NEW v \in {"tables", "memories"},
           NEW field \in {"table_index", "memory_index"},
           v = "tables" <=> field = "table_index",
           NEW item, v = "tables" => IsSeq(item.func_indexes),
           Module(a)[field] = -1,
           file[n].on = "import",
           file[n].kind = (IF v = "tables" THEN "table" ELSE "memory"),
           NEW m \in 1 .. Len(base.modules), a.env.modules[m].is_host,
           NEW mid, Added(a.env, mid, v, item),
           NEW c, DOMAIN c = LoadFields, NEW x,
           x = WithField(Module(a), field, Len(a.env[v])),
           c.sig_index_mapping = a.sig_index_mapping,
           c.func_index_mapping = a.func_index_mapping,
           c.global_index_mapping = a.global_index_mapping,
           ModuleSet(mid, c.env, This(a), x),
           NEW kind, NEW index, NEW name
    PROVE  Works(AppendExport(c, m, kind, index, name), file, n, base)
<1> DEFINE export == [name |-> name, kind |-> kind, index |-> index]
           b == AppendExport(c, m, kind, index, name)
<1>1. Begun(a.env, base)
  BY ReadBegun
<1>2. Works(c, file, n, base)
  <2>1. \/ file[n].kind = "table" /\ v = "tables"
        \/ file[n].kind = "memory" /\ v = "memories"
    OBVIOUS
  <2> QED BY <1>1, <2>1, SizedAdded
<1>3. c.env.modules[m] = a.env.modules[m] /\ DOMAIN c.env = Fields
  <2>1. /\ This(a) \in 1 .. Len(a.env.modules) /\ This(a) > Len(base.modules)
        /\ Len(base.modules) \in Nat /\ Len(a.env.modules) \in Nat
    BY <1>1, ThisModule, BegunLengths
  <2>2. m \in 1 .. Len(a.env.modules) /\ m # This(a)
    BY <2>1
  <2>3. mid.modules = a.env.modules
    BY DEF Added, Fields, Vectors
  <2>4. c.env.modules = Updated(a.env.modules, This(a), x) /\ DOMAIN c.env = Fields
    BY <2>3 DEF ModuleSet
  <2>5. IsSeq(a.env.modules)
    BY <1>1, EnvironmentVectors DEF Begun
  <2>6. Updated(a.env.modules, This(a), x)[m] = a.env.modules[m]
    BY <2>1, <2>2, <2>5, UpdateFacts
  <2> QED BY <2>4, <2>6
<1>4. /\ DOMAIN b = LoadFields /\ b.ok = c.ok /\ b.aborted = c.aborted
      /\ b.sig_index_mapping = c.sig_index_mapping
      /\ b.func_index_mapping = c.func_index_mapping
      /\ b.global_index_mapping = c.global_index_mapping
      /\ ModuleSet(c.env, b.env, m, WithExport(c.env.modules[m], export))
  <2>1. b = [c EXCEPT !.env.modules[m].exports = Append(@, export)]
    BY <1>3 DEF AppendExport
  <2> HIDE DEF export, b
  <2> QED BY <1>3, <2>1
          DEF LoadFields, Fields, Vectors, ModuleSet, Updated, WithExport
<1> HIDE DEF export, b
<1>5. c.env.modules[m].is_host
  BY <1>3
<1>6. Works(b, file, n, base)
  BY <1>2, <1>4, <1>5, HostExportWorks
<1> QED BY <1>6 DEF b

LEMMA ImportHostTableWorks ==
    ASSUME NEW file, FileRead(file), NEW n \in 1 .. Len(file), NEW base,
           NEW a, Read(a, file, n, base), Unwritten(a.env, base),
           file[n].on = "import", file[n].kind = "table",
           Module(a).table_index = -1,
           NEW m \in 1 .. Len(base.modules), a.env.modules[m].is_host
    PROVE  Works(ImportHostTable(a, file[n], m), file, n, base)
<1> DEFINE e == file[n]
           index == Len(a.env.tables)
           table == [NewTable(e.limits) EXCEPT !.limits = HostTableLimits]
           item == [table EXCEPT
                       !.func_indexes = Resized(@, HostTableLimits.initial)]
           d == [a EXCEPT !.env.tables = Append(@, table)]
           y == [a EXCEPT !.env.tables = Append(@, item)]
           c == [y EXCEPT !.env.modules[This(a)].table_index = index]
           b == AppendExport(c, m, "table", index, e.field)
<1>1. ImportHostTable(a, e, m) \in {Error(d), b}
  BY DEF ImportHostTable
<1>2. DOMAIN a = LoadFields /\ DOMAIN a.env = Fields /\ Begun(a.env, base)
  BY ReadBegun DEF Read, Environment
<1>3. IsSeq(table.func_indexes) /\ IsSeq(item.func_indexes)
  <2>1. e.limits.initial \in Nat
    BY FileFacts DEF FileRead, ArgumentsChecked
  <2>2. IsSeq(NewTable(e.limits).func_indexes)
    BY <2>1, NewTableIsSeq
  <2>3. table.func_indexes = NewTable(e.limits).func_indexes
    BY DEF NewTable
  <2> DEFINE old == table.func_indexes
             new == [i \in 1 .. 10 |-> IF i <= Len(old) THEN old[i] ELSE 0]
  <2>4. IsSeq(new)
    <3> HIDE DEF old
    <3> QED BY FunctionIsSeq
  <2>5. item.func_indexes = new
    BY DEF NewTable, Resized, HostTableLimits
  <2> HIDE DEF new, old, item, table
  <2> QED BY <2>2, <2>3, <2>4, <2>5
<1> HIDE DEF table, item
<1>4. Added(a.env, d.env, "tables", table) /\ DOMAIN d = LoadFields
  BY <1>2 DEF Added, LoadFields, Fields, Vectors
<1>5. Works(Error(d), file, n, base)
  <2>1. "tables" \in Vectors \ {"modules"}
    BY DEF Vectors
  <2> HIDE DEF d
  <2>2. Begun(d.env, base)
    BY <1>2, <1>3, <1>4, <2>1, AddedExtends
  <2>3. Error(d).env = d.env /\ ~Error(d).ok
    BY <1>4 DEF Error, LoadFields
  <2> QED BY <2>2, <2>3, ErrorBegun
<1>6. Works(b, file, n, base)
  <2> DEFINE x == WithField(Module(a), "table_index", Len(a.env["tables"]))
             mid == y.env
  <2>1. /\ Added(a.env, mid, "tables", item)
        /\ DOMAIN y = LoadFields
        /\ y.sig_index_mapping = a.sig_index_mapping
        /\ y.func_index_mapping = a.func_index_mapping
        /\ y.global_index_mapping = a.global_index_mapping
    BY <1>2 DEF Added, LoadFields, Fields, Vectors
  <2>2. mid.modules = a.env.modules /\ DOMAIN mid = Fields
    BY <2>1 DEF Added, Fields, Vectors
  <2>3. /\ DOMAIN c = LoadFields
        /\ c.sig_index_mapping = a.sig_index_mapping
        /\ c.func_index_mapping = a.func_index_mapping
        /\ c.global_index_mapping = a.global_index_mapping
        /\ ModuleSet(mid, c.env, This(a), x)
    <3> HIDE DEF y
    <3> QED BY <2>1, <2>2 DEF LoadFields, ModuleSet, Fields, Vectors, Updated,
                              Module, This, WithField
  <2>4. x = WithField(Module(a), "table_index", Len(a.env["tables"]))
    OBVIOUS
  <2> HIDE DEF x, c, y
  <2>5. \A kind, index_, name :
            Works(AppendExport(c, m, kind, index_, name), file, n, base)
    BY <1>3, <2>1, <2>3, <2>4, HostSizedWorks
  <2> QED BY <2>5
<1> QED BY <1>1, <1>5, <1>6

LEMMA ImportHostMemoryWorks ==
    ASSUME NEW file, FileRead(file), NEW n \in 1 .. Len(file), NEW base,
           NEW a, Read(a, file, n, base), Unwritten(a.env, base),
           file[n].on = "import", file[n].kind = "memory",
           Module(a).memory_index = -1,
           NEW m \in 1 .. Len(base.modules), a.env.modules[m].is_host
    PROVE  Works(ImportHostMemory(a, file[n], m), file, n, base)
<1> DEFINE e == file[n]
           index == Len(a.env.memories)
           item == [page_limits |-> HostMemoryLimits,
                    data |-> Zeros(HostMemoryLimits.initial * MaxPages)]
           y == [a EXCEPT !.env.memories = Append(@, item)]
           c == [y EXCEPT !.env.modules[This(a)].memory_index = index]
           b == AppendExport(c, m, "memory", index, e.field)
<1>1. ImportHostMemory(a, e, m) \in {Error(y), b}
  BY DEF ImportHostMemory
<1>2. DOMAIN a = LoadFields /\ DOMAIN a.env = Fields /\ Begun(a.env, base)
  BY ReadBegun DEF Read, Environment
<1> HIDE DEF item
<1>3. /\ Added(a.env, y.env, "memories", item)
      /\ DOMAIN y = LoadFields
      /\ y.sig_index_mapping = a.sig_index_mapping
      /\ y.func_index_mapping = a.func_index_mapping
      /\ y.global_index_mapping = a.global_index_mapping
  BY <1>2 DEF Added, LoadFields, Fields, Vectors
<1>4. Works(Error(y), file, n, base)
  <2>1. "memories" \in Vectors \ {"modules"} /\ "memories" # "tables"
    BY DEF Vectors
  <2> HIDE DEF y
  <2>2. Begun(y.env, base)
    BY <1>2, <1>3, <2>1, AddedExtends
  <2>3. Error(y).env = y.env /\ ~Error(y).ok
    BY <1>3 DEF Error, LoadFields
  <2> QED BY <2>2, <2>3, ErrorBegun
<1>5. Works(b, file, n, base)
  <2> DEFINE x == WithField(Module(a), "memory_index", Len(a.env["memories"]))
             mid == y.env
  <2>1. mid.modules = a.env.modules /\ DOMAIN mid = Fields
    BY <1>3 DEF Added, Fields, Vectors
  <2>2. /\ DOMAIN c = LoadFields
        /\ c.sig_index_mapping = a.sig_index_mapping
        /\ c.func_index_mapping = a.func_index_mapping
        /\ c.global_index_mapping = a.global_index_mapping
        /\ ModuleSet(mid, c.env, This(a), x)
    <3> HIDE DEF y
    <3> QED BY <1>3, <2>1 DEF LoadFields, ModuleSet, Fields, Vectors, Updated,
                              Module, This, WithField
  <2>3. x = WithField(Module(a), "memory_index", Len(a.env["memories"]))
    OBVIOUS
  <2> HIDE DEF x, c, y
  <2>4. \A kind, index_, name :
            Works(AppendExport(c, m, kind, index_, name), file, n, base)
    BY <1>3, <2>2, <2>3, HostSizedWorks
  <2> QED BY <2>4
<1> QED BY <1>1, <1>4, <1>5

(* An import from another module is of something that was there before.     *)
LEMMA ImportDefinedWorks ==
    ASSUME NEW file, FileRead(file), NEW n \in 1 .. Len(file), NEW base,
           Whole(base), NEW a, Read(a, file, n, base), Unwritten(a.env, base),
           file[n].on = "import",
           file[n].kind = "table" => Module(a).table_index = -1,
           file[n].kind = "memory" => Module(a).memory_index = -1,
           NEW m \in 1 .. Len(base.modules), ~a.env.modules[m].is_host,
           NEW sig_index,
           file[n].kind = "func" => sig_index = TranslateSigIndexToEnv(a, file[n].sig)
    PROVE  Works(ImportDefined(a, file[n], m, sig_index), file, n, base)
<1> DEFINE e == file[n]
           found == GetExport(a.env.modules[m], e.field)
           export == found[1]
           index == export.index
           b == Imported(a, e.kind, index)
<1>1. CASE found = <<>> \/ ~Importable(a, e, sig_index, export)
  BY <1>1, ErrorWorks DEF ImportDefined
<1>2. CASE found # <<>> /\ Importable(a, e, sig_index, export)
  <2>1. ImportDefined(a, e, m, sig_index) = b
    BY <1>2 DEF ImportDefined
  <2>2. Begun(a.env, base) /\ Kept(a.env, base)
    BY ReadBegun DEF Begun
  <2>3. a.env.modules[m] = base.modules[m] /\ ~base.modules[m].is_host
    BY <2>2 DEF Kept
  <2>4. ModuleWhole(base, base.modules[m]) /\ IsModule(base.modules[m])
    BY <2>3 DEF Whole, Environment
  <2>5. ExportExists(base, export)
    <3>1. \E i \in DOMAIN base.modules[m].exports : found = <<base.modules[m].exports[i]>>
      BY <1>2, <2>3 DEF GetExport
    <3>2. DOMAIN base.modules[m].exports = 1 .. Len(base.modules[m].exports)
      BY <2>4, SeqFacts DEF IsModule
    <3> HIDE DEF found
    <3>3. PICK i \in 1 .. Len(base.modules[m].exports) :
                found = <<base.modules[m].exports[i]>>
      BY <3>1, <3>2
    <3>4. export = base.modules[m].exports[i]
      BY <3>3
    <3> QED BY <2>4, <3>4 DEF ModuleWhole
  <2> HIDE DEF found, export
  <2>6. export.kind = e.kind /\ e.kind \in Kinds
    <3>1. e.kind \in Kinds
      BY FileFacts DEF FileRead, ArgumentsChecked
    <3> QED BY <1>2, <3>1 DEF Importable
  <2>7. /\ e.kind = "func" => IndexOf(base.funcs, index)
        /\ e.kind = "table" => IndexOf(base.tables, index)
        /\ e.kind = "memory" => IndexOf(base.memories, index)
        /\ e.kind = "global" => IndexOf(base.globals, index)
    BY <2>5, <2>6 DEF ExportExists, IndexOf
  <2>8. /\ e.kind = "func" => IndexOf(a.env.funcs, index)
        /\ e.kind = "table" => IndexOf(a.env.tables, index)
        /\ e.kind = "memory" => IndexOf(a.env.memories, index)
        /\ e.kind = "global" => IndexOf(a.env.globals, index)
    <3> HIDE DEF index
    <3> QED BY <2>2, <2>7, BegunLengths, IndexStays
  <2>9. DOMAIN a = LoadFields /\ DOMAIN a.env = Fields
    BY DEF Read, Environment
  <2>10. Extended(a.env, a.env)
    BY <2>2, BegunLengths DEF Extended, Prefix
  <2>11. CASE e.kind = "func"
    <3>1. n \in Declarations(file, "func")
      BY <2>11, FileFacts DEF Declarations
    <3>2. /\ IndexOf(a.env.sigs, sig_index)
          /\ a.env.sigs[sig_index + 1] = DeclaredSig(file, n)
      BY <2>11, <3>1, DeclaredType
    <3>3. FuncSignaturesAreEqual(a.env, sig_index, a.env.funcs[index + 1].sig_index)
      BY <1>2, <2>11 DEF Importable
    <3> HIDE DEF index
    <3>4. a.env.funcs[index + 1] = base.funcs[index + 1]
          /\ index + 1 \in 1 .. Len(base.funcs)
      <4>1. index + 1 \in 1 .. Len(base.funcs)
        BY <2>2, <2>7, <2>11, BegunLengths DEF IndexOf
      <4> QED BY <2>2, <4>1 DEF Kept
    <3>5. IndexOf(base.sigs, base.funcs[index + 1].sig_index)
      BY <3>4 DEF Whole
    <3>6. IndexOf(a.env.sigs, a.env.funcs[index + 1].sig_index)
      BY <2>2, <3>4, <3>5, BegunLengths, IndexStays
    <3>7. a.env.sigs[a.env.funcs[index + 1].sig_index + 1] = DeclaredSig(file, n)
      BY <3>2, <3>3 DEF FuncSignaturesAreEqual
    <3>8. /\ DOMAIN b = LoadFields /\ b.env = a.env
          /\ b.sig_index_mapping = a.sig_index_mapping
          /\ b.global_index_mapping = a.global_index_mapping
          /\ b.func_index_mapping = Append(a.func_index_mapping, index)
      BY <2>9, <2>11 DEF Imported, LoadFields, index
    <3>9. \A k \in Len(a.env.funcs) + 1 .. Len(a.env.funcs) : FALSE
      BY <2>2, BegunLengths
    <3> HIDE DEF b
    <3>10. Works(b, file, n, base)
      BY <2>2, <2>8, <2>10, <2>11, <3>6, <3>7, <3>8, <3>9, FuncImported
    <3> QED BY <2>1, <3>10
  <2>12. CASE e.kind = "global"
    <3> HIDE DEF index
    <3>1. /\ DOMAIN b = LoadFields /\ b.env = a.env
          /\ b.sig_index_mapping = a.sig_index_mapping
          /\ b.func_index_mapping = a.func_index_mapping
          /\ b.global_index_mapping = Append(a.global_index_mapping, index)
      BY <2>9, <2>12 DEF Imported, LoadFields, index
    <3> HIDE DEF b
    <3>2. Works(b, file, n, base)
      BY <2>2, <2>8, <2>10, <2>12, <3>1, GlobalImported
    <3> QED BY <2>1, <3>2
  <2>13. CASE e.kind \in {"table", "memory"}
    <3> DEFINE field == IF e.kind = "table" THEN "table_index" ELSE "memory_index"
               x == WithField(Module(a), field, index)
               mid == a.env
    <3>1. /\ field \in {"table_index", "memory_index", "start_func_index"}
          /\ Module(a)[field] = -1
          /\ e.kind = "table" <=> field = "table_index"
          /\ e.kind = "memory" <=> field = "memory_index"
          /\ field # "start_func_index"
      BY <2>13
    <3>2. /\ DOMAIN b = LoadFields
          /\ b.sig_index_mapping = a.sig_index_mapping
          /\ b.func_index_mapping = a.func_index_mapping
          /\ b.global_index_mapping = a.global_index_mapping
          /\ ModuleSet(mid, b.env, This(a), x)
      <4> HIDE DEF index
      <4>1. CASE e.kind = "table"
        BY <2>9, <4>1 DEF Imported, LoadFields, ModuleSet, Fields, Vectors,
                         Updated, Module, This, WithField, index
      <4>2. CASE e.kind = "memory"
        BY <2>9, <4>2 DEF Imported, LoadFields, ModuleSet, Fields, Vectors,
                         Updated, Module, This, WithField, index
      <4> QED BY <2>13, <4>1, <4>2
    <3>3. x = WithField(Module(a), field, index)
      OBVIOUS
    <3> HIDE DEF field, x, b, index
    <3>4. index # -1
      BY <2>8, <2>13 DEF IndexOf
    <3>5. /\ IsModule(x) /\ ModuleGrows(Module(a), x) /\ x[field] = index
          /\ \A after :
                /\ Environment(after) /\ Longer(a.env, after)
                /\ field = "table_index" => IndexOf(after.tables, index)
                /\ field = "memory_index" => IndexOf(after.memories, index)
                /\ field = "start_func_index" => IndexOf(after.funcs, index)
                => ModuleWhole(after, x)
      BY <3>1, <3>3, <3>4, ModuleHas
    <3>6. /\ Environment(b.env) /\ Longer(a.env, b.env)
          /\ b.env["tables"] = a.env["tables"] /\ b.env["memories"] = a.env["memories"]
      <4> DEFINE after == b.env
      <4>1. ModuleSet(a.env, after, This(a), x) /\ IsModule(x)
        BY <3>2, <3>5
      <4> HIDE DEF after
      <4>2. Environment(after) /\ Longer(a.env, after)
        BY <4>1, OnlyThisLonger
      <4>3. after["tables"] = a.env["tables"] /\ after["memories"] = a.env["memories"]
        BY <4>1 DEF ModuleSet, Fields, Vectors
      <4> QED BY <4>2, <4>3 DEF after
    <3>7. ModuleWhole(b.env, x)
      BY <2>8, <3>1, <3>5, <3>6
    <3>8. /\ n \in Declarations(file, "table") => x.table_index # -1
          /\ n \in Declarations(file, "memory") => x.memory_index # -1
      BY <3>1, <3>4, <3>5 DEF Declarations
    <3>9. /\ Begun(mid, base) /\ Extended(a.env, mid)
          /\ mid.modules = a.env.modules /\ mid.funcs = a.env.funcs
      BY <2>2, <2>10
    <3> HIDE DEF mid
    <3>10. file[n].on \notin {"type", "function", "function_count", "body", "global",
                              "global_count"}
           /\ file[n].on # "export" /\ file[n].kind \in {"table", "memory"}
      BY <2>13
    <3>11. IsModule(x) /\ ModuleGrows(Module(a), x)
      BY <3>5
    <3>12. Works(b, file, n, base)
      BY <2>2, <3>2, <3>7, <3>8, <3>9, <3>10, <3>11, ThisSetWorks
    <3> QED BY <2>1, <3>12
  <2> QED BY <2>6, <2>11, <2>12, <2>13 DEF Kinds
<1> QED BY <1>1, <1>2

LEMMA ImportWorks ==
    ASSUME NEW file, FileRead(file), NEW n \in 1 .. Len(file), NEW base,
           Whole(base), NEW a, Read(a, file, n, base), Unwritten(a.env, base),
           file[n].on = "import",
           NEW found, found = -1 \/ IndexOf(base.modules, found)
    PROVE  Works(OnImport(a, file[n], found), file, n, base)
<1> DEFINE e == file[n]
           sig_index == IF e.kind = "func" THEN TranslateSigIndexToEnv(a, e.sig)
                        ELSE kInvalidIndex
           b == AddImport(a, e, sig_index)
           m == found + 1
<1>1. CASE AlreadyHas(a, e.kind)
  BY <1>1, ErrorWorks DEF OnImport
<1>2. CASE ~AlreadyHas(a, e.kind)
  <2>1. OnImport(a, e, found) =
            IF found = kInvalidIndex THEN Error(b)
            ELSE IF a.env.modules[found + 1].is_host
            THEN ImportHost(b, e, found + 1, sig_index)
            ELSE ImportDefined(b, e, found + 1, sig_index)
    BY <1>2 DEF OnImport
  <2>2. e.kind \in Kinds
    BY FileFacts DEF FileRead, ArgumentsChecked
  <2> HIDE DEF sig_index
  <2>3. /\ Read(b, file, n, base) /\ Unwritten(b.env, base)
        /\ b.sig_index_mapping = a.sig_index_mapping
        /\ \A i \in 1 .. Len(base.modules) : b.env.modules[i] = a.env.modules[i]
        /\ Module(b).table_index = Module(a).table_index
        /\ Module(b).memory_index = Module(a).memory_index
    <3> DEFINE event_ == e
    <3>1. b = AddImport(a, event_, sig_index)
      OBVIOUS
    <3> HIDE DEF event_, b
    <3> QED BY <3>1, ImportNoted
  <2>4. /\ e.kind = "table" => Module(b).table_index = -1
        /\ e.kind = "memory" => Module(b).memory_index = -1
    BY <1>2, <2>3 DEF AlreadyHas, kInvalidIndex
  <2>5. e.kind = "func" => sig_index = TranslateSigIndexToEnv(b, e.sig)
    BY <2>3 DEF sig_index, TranslateSigIndexToEnv
  <2> HIDE DEF b
  <2>6. CASE found = -1
    BY <2>1, <2>3, <2>6, ErrorWorks DEF kInvalidIndex
  <2>7. CASE found # -1
    <3>1. m \in 1 .. Len(base.modules) /\ found # kInvalidIndex
      <4>1. Len(base.modules) \in Nat
        BY Lengths DEF Whole
      <4> QED BY <2>7, <4>1 DEF IndexOf, kInvalidIndex
    <3>2. b.env.modules[m].is_host = a.env.modules[m].is_host
      BY <2>3, <3>1
    <3> HIDE DEF m
    <3>3. CASE a.env.modules[m].is_host
      <4>1. OnImport(a, e, found) = ImportHost(b, e, m, sig_index)
        BY <2>1, <3>1, <3>3 DEF m
      <4>2. CASE e.kind = "func"
        <5>1. ImportHost(b, e, m, sig_index)
                  = ImportHostFunc(b, e, m, TranslateSigIndexToEnv(b, e.sig))
          BY <2>5, <4>2 DEF ImportHost
        <5> QED BY <2>3, <3>1, <3>2, <3>3, <4>1, <4>2, <5>1, ImportHostFuncWorks
      <4>3. CASE e.kind = "table"
        <5>1. ImportHost(b, e, m, sig_index) = ImportHostTable(b, e, m)
          BY <4>3 DEF ImportHost
        <5> QED BY <2>3, <2>4, <3>1, <3>2, <3>3, <4>1, <4>3, <5>1, ImportHostTableWorks
      <4>4. CASE e.kind = "memory"
        <5>1. ImportHost(b, e, m, sig_index) = ImportHostMemory(b, e, m)
          BY <4>4 DEF ImportHost
        <5> QED BY <2>3, <2>4, <3>1, <3>2, <3>3, <4>1, <4>4, <5>1, ImportHostMemoryWorks
      <4>5. CASE e.kind = "global"
        <5>1. ImportHost(b, e, m, sig_index) = ImportHostGlobal(b, e, m)
          BY <4>5 DEF ImportHost
        <5> QED BY <2>3, <3>1, <3>2, <3>3, <4>1, <4>5, <5>1, ImportHostGlobalWorks
      <4> QED BY <2>2, <4>2, <4>3, <4>4, <4>5 DEF Kinds
    <3>4. CASE ~a.env.modules[m].is_host
      <4>1. OnImport(a, e, found) = ImportDefined(b, e, m, sig_index)
        BY <2>1, <3>1, <3>4 DEF m
      <4> QED BY <2>3, <2>4, <2>5, <3>1, <3>2, <3>4, <4>1, ImportDefinedWorks
    <3> QED BY <3>3, <3>4
  <2> QED BY <2>6, <2>7
<1> QED BY <1>1, <1>2

(* Every callback but the last.                                             *)
LEMMA CallbackWorks ==
    ASSUME NEW file, FileRead(file), NEW n \in 1 .. Len(file), NEW base,
           Whole(base), NEW a, Read(a, file, n, base), Unwritten(a.env, base),
           NEW found, found = -1 \/ IndexOf(base.modules, found),
           file[n].on # "end_module"
    PROVE  Works(Callback(a, file[n], found), file, n, base)
<1> DEFINE e == file[n]
<1>1. e.on \in DOMAIN SectionOf \union {"const", "get_global"}
  BY FileFacts DEF FileRead, SectionsInOrder
<1>2. CASE e.on \in QuietEvents \cup {"error"}
  BY <1>2, QuietCallbacks
<1>3. CASE e.on = "type_count" BY <1>3, TypeCountWorks DEF Callback
<1>4. CASE e.on = "type" BY <1>4, TypeWorks DEF Callback
<1>5. CASE e.on = "import" BY <1>5, ImportWorks DEF Callback
<1>6. CASE e.on = "function_count" BY <1>6, FunctionCountWorks DEF Callback
<1>7. CASE e.on = "function" BY <1>7, FunctionWorks DEF Callback
<1>8. CASE e.on = "table" BY <1>8, TableWorks DEF Callback
<1>9. CASE e.on = "memory" BY <1>9, MemoryWorks DEF Callback
<1>10. CASE e.on = "global_count" BY <1>10, GlobalCountWorks DEF Callback
<1>11. CASE e.on = "global" BY <1>11, GlobalWorks DEF Callback
<1>12. CASE e.on = "end_global" BY <1>12, EndGlobalWorks DEF Callback
<1>13. CASE e.on = "export" BY <1>13, ExportWorks DEF Callback
<1>14. CASE e.on = "start" BY <1>14, StartWorks DEF Callback
<1>15. CASE e.on = "body" BY <1>15, BodyWorks DEF Callback
<1> QED BY <1>1, <1>2, <1>3, <1>4, <1>5, <1>6, <1>7, <1>8, <1>9, <1>10, <1>11,
           <1>12, <1>13, <1>14, <1>15 DEF SectionOf, QuietEvents
-----------------------------------------------------------------------------
(* Environments between loads *)

Empty == <<>>

LEMMA EmptyFacts == IsSeq(Empty) /\ Len(Empty) = 0
<1>1. <<>> \in Seq({}) /\ Len(<<>>) = 0
  OBVIOUS
<1>2. Empty \in Seq({}) /\ Len(Empty) = 0
  BY <1>1, Zenon DEF Empty
<1> QED BY <1>2, SeqIsSeq

LEMMA InitWhole == Whole(InitEnvironment) /\ HasBodies(InitEnvironment)
<1> DEFINE e == InitEnvironment
           m == [NewModule(TRUE) EXCEPT !.name = <<"spectest">>]
<1>1. DOMAIN m = ModuleFields /\ m.exports = Empty /\ m.is_host
  BY DEF NewModule, ModuleFields, Empty
<1> HIDE DEF m
<1>2. /\ DOMAIN e = Fields /\ e.modules = Append(Empty, m)
      /\ e.sigs = Empty /\ e.funcs = Empty /\ e.memories = Empty
      /\ e.tables = Empty /\ e.globals = Empty /\ e.istream = Empty
      /\ e.module_bindings = {}
      /\ e.registered_module_bindings = {[name |-> <<"spectest">>, index |-> 0]}
  <2>1. Len(<<>>) = 0
    OBVIOUS
  <2> QED BY <2>1 DEF InitEnvironment, AppendHostModule, NewEnvironment, Fields,
                      Vectors, Empty, m
<1> HIDE DEF e
<1>3. IsSeq(e.modules) /\ Len(e.modules) = 1 /\ e.modules[1] = m
  <2>1. /\ IsSeq(Append(Empty, m)) /\ Len(Append(Empty, m)) = Len(Empty) + 1
        /\ Append(Empty, m)[Len(Empty) + 1] = m
    BY EmptyFacts, AppendFacts
  <2>2. Len(Empty) + 1 = 1
    BY EmptyFacts
  <2> QED BY <1>2, <2>1, <2>2
<1>4. \A i \in 1 .. Len(e.modules) : i = 1
  BY <1>3
<1>5. IsModule(m)
  BY <1>1, EmptyFacts DEF IsModule
<1>6. Environment(e)
  <2>1. \A v \in Vectors : IsSeq(e[v])
    BY <1>2, <1>3, EmptyFacts DEF Vectors
  <2>2. \A i \in 1 .. Len(e.tables) : FALSE
    BY <1>2, EmptyFacts
  <2> QED BY <1>2, <1>3, <1>4, <1>5, <2>1, <2>2 DEF Environment
<1>7. \A k \in 1 .. Len(e.funcs) : FALSE
  BY <1>2, EmptyFacts
<1>8. \A b \in e.module_bindings \cup e.registered_module_bindings :
         IndexOf(e.modules, b.index)
  BY <1>2, <1>3 DEF IndexOf
<1> QED BY <1>1, <1>3, <1>4, <1>6, <1>7, <1>8 DEF Whole, HasBodies, e

LEMMA NewLoadRead ==
    ASSUME NEW file, FileRead(file), NEW base, Environment(base),
           NEW ld, ld = NewLoad(base)
    PROVE  /\ Read(ld, file, 1, base) /\ Unwritten(ld.env, base)
           /\ ld.ok /\ ~ld.aborted
<1> DEFINE m == NewModule(FALSE)
<1>1. /\ DOMAIN m = ModuleFields /\ m.exports = Empty /\ ~m.is_host
      /\ m.table_index = -1 /\ m.memory_index = -1 /\ m.start_func_index = -1
      /\ m.istream_start = -1 /\ m.istream_end = -1
  BY DEF NewModule, ModuleFields, kInvalidIndex, Empty
<1> HIDE DEF m
<1>2. /\ DOMAIN ld = LoadFields
      /\ ld.func_index_mapping = Empty /\ ld.global_index_mapping = Empty
      /\ DOMAIN ld.env = Fields
      /\ ld.env.modules = Append(base.modules, m)
      /\ \A w \in Fields \ {"modules"} : ld.env[w] = base[w]
      /\ ld.ok /\ ~ld.aborted
  BY DEF NewLoad, Environment, LoadFields, Fields, Vectors, Empty, m
<1> DEFINE e == ld.env
<1>3. /\ e.sigs = base.sigs /\ e.funcs = base.funcs /\ e.memories = base.memories
      /\ e.tables = base.tables /\ e.globals = base.globals
      /\ e.istream = base.istream /\ e.module_bindings = base.module_bindings
      /\ e.registered_module_bindings = base.registered_module_bindings
  BY <1>2 DEF Fields, Vectors
<1>4. IsSeq(base.modules) /\ Len(base.modules) \in Nat
  BY EnvironmentVectors, Lengths
<1>5. /\ IsSeq(e.modules) /\ Len(e.modules) = Len(base.modules) + 1
      /\ \A i \in 1 .. Len(base.modules) : e.modules[i] = base.modules[i]
      /\ e.modules[Len(base.modules) + 1] = m
  BY <1>2, <1>4, AppendFacts
<1>6. IsModule(m)
  BY <1>1, EmptyFacts DEF IsModule
<1> HIDE DEF e
<1>7. Environment(e)
  <2>1. \A v \in Vectors : IsSeq(e[v])
    BY <1>3, <1>5, EnvironmentVectors DEF Vectors
  <2>2. \A i \in 1 .. Len(e.modules) : IsModule(e.modules[i])
    <3>1. \A i \in 1 .. Len(base.modules) : IsModule(base.modules[i])
      BY DEF Environment
    <3>2. \A i \in 1 .. Len(e.modules) :
             i \in 1 .. Len(base.modules) \/ i = Len(base.modules) + 1
      BY <1>4, <1>5
    <3> QED BY <1>5, <1>6, <3>1, <3>2
  <2>3. \A i \in 1 .. Len(e.tables) : IsSeq(e.tables[i].func_indexes)
    BY <1>3 DEF Environment
  <2> QED BY <1>2, <2>1, <2>2, <2>3 DEF Environment, e
<1>8. Kept(e, base) /\ Unwritten(e, base)
  <2>1. \A v \in Vectors : Len(base[v]) <= Len(e[v])
    <3>1. Len(base["modules"]) <= Len(e["modules"])
      BY <1>4, <1>5
    <3>2. \A v \in Vectors \ {"modules"} : e[v] = base[v] /\ Len(base[v]) \in Nat
      BY <1>3, Lengths DEF Vectors
    <3> QED BY <3>1, <3>2
  <2> QED BY <1>3, <1>5, <2>1 DEF Kept, Unwritten
<1>9. Module(ld) = m
  BY <1>5 DEF Module, This, e
<1>10. ModuleWhole(e, m)
  <2>1. Len(e.istream) \in Nat
    BY <1>7, Lengths
  <2>2. \A i \in 1 .. Len(m.exports) : FALSE
    BY <1>1, EmptyFacts
  <2> QED BY <1>1, <2>1, <2>2 DEF ModuleWhole
<1>11. \A p \in 1 .. 1 - 1 : FALSE
  OBVIOUS
<1>12. Mapped(Empty, file, "func", 1) /\ Mapped(Empty, file, "global", 1)
  BY <1>11, FirstIndex, EmptyFacts DEF Mapped
<1>13. FuncPlaces(ld, file, 1, base)
  BY <1>11 DEF FuncPlaces
<1>14. FuncsWhole(ld, file, 1, base)
  <2>1. \A k \in Len(base.funcs) + 1 .. Len(ld.env.funcs) : FALSE
    BY <1>3, Lengths DEF e
  <2> QED BY <2>1 DEF FuncsWhole
<1>15. Read(ld, file, 1, base)
  BY <1>1, <1>2, <1>5, <1>7, <1>8, <1>9, <1>10, <1>11, <1>12, <1>13, <1>14
     DEF Read, e
<1> QED BY <1>2, <1>8, <1>15 DEF e

(* A module that has been read joins the environment.                       *)
LEMMA ReadWhole ==
    ASSUME NEW file, NEW n, NEW base, Whole(base), NEW ld, Read(ld, file, n, base)
    PROVE  Whole(ld.env)
<1> DEFINE e == ld.env
<1>1. /\ Environment(e) /\ Kept(e, base) /\ Environment(base)
      /\ Len(e.modules) = Len(base.modules) + 1 /\ ModuleWhole(e, Module(ld))
  BY DEF Read
<1>2. /\ Len(base.funcs) \in Nat /\ Len(base.sigs) \in Nat
      /\ Len(e.funcs) \in Nat /\ Len(e.sigs) \in Nat
      /\ Len(base.modules) \in Nat /\ Len(e.modules) \in Nat
      /\ Len(base.sigs) <= Len(e.sigs) /\ Len(base.modules) >= 1
      /\ Len(base.memories) \in Nat /\ Len(e.memories) \in Nat
      /\ Len(base.tables) \in Nat /\ Len(e.tables) \in Nat
      /\ Len(base.globals) \in Nat /\ Len(e.globals) \in Nat
      /\ Len(base.istream) \in Nat /\ Len(e.istream) \in Nat
  BY <1>1, Lengths DEF Kept, Vectors, Whole
<1>3. ASSUME NEW k \in 1 .. Len(e.funcs) PROVE IndexOf(e.sigs, e.funcs[k].sig_index)
  <2>1. CASE k \in 1 .. Len(base.funcs)
    <3>1. e.funcs[k] = base.funcs[k] /\ IndexOf(base.sigs, base.funcs[k].sig_index)
      BY <1>1, <2>1 DEF Kept, Whole
    <3> QED BY <1>2, <3>1, IndexStays
  <2>2. CASE k \in Len(base.funcs) + 1 .. Len(e.funcs)
    BY <2>2 DEF Read, FuncsWhole
  <2> QED BY <1>2, <2>1, <2>2
<1>4. ASSUME NEW i \in 1 .. Len(e.modules)
      PROVE  e.modules[i].is_host \/ ModuleWhole(e, e.modules[i])
  <2>1. CASE i \in 1 .. Len(base.modules)
    <3>1. \/ e.modules[i] = base.modules[i]
          \/ e.modules[i].is_host
      BY <1>1, <2>1 DEF Kept
    <3>2. base.modules[i].is_host \/ ModuleWhole(base, base.modules[i])
      BY <2>1 DEF Whole
    <3> DEFINE m == base.modules[i]
    <3>3. ModuleWhole(base, m) => ModuleWhole(e, m)
      <4> SUFFICES ASSUME ModuleWhole(base, m) PROVE ModuleWhole(e, m)
        OBVIOUS
      <4> HIDE DEF m, e
      <4>1. /\ Len(base.funcs) <= Len(e.funcs) /\ Len(base.memories) <= Len(e.memories)
            /\ Len(base.tables) <= Len(e.tables) /\ Len(base.globals) <= Len(e.globals)
            /\ Len(base.istream) <= Len(e.istream)
        BY <1>1 DEF Kept, Vectors
      <4> DEFINE before == [base EXCEPT !.modules = e.modules]
      <4>2. /\ before.sigs = base.sigs /\ before.funcs = base.funcs
            /\ before.memories = base.memories /\ before.tables = base.tables
            /\ before.globals = base.globals /\ before.istream = base.istream
            /\ before.modules = e.modules /\ DOMAIN before = Fields
        BY <1>1 DEF Environment, Fields, Vectors
      <4> HIDE DEF before
      <4>3. Environment(before)
        <5>1. \A v \in Vectors : IsSeq(before[v])
          BY <1>1, <4>2, EnvironmentVectors DEF Vectors
        <5> QED BY <1>1, <4>2, <5>1 DEF Environment
      <4>4. Longer(before, e)
        BY <1>2, <4>1, <4>2 DEF Longer
      <4>5. ModuleWhole(before, m)
        BY <4>2 DEF ModuleWhole, ExportExists, IndexOf
      <4> QED BY <1>1, <4>3, <4>4, <4>5, ModuleStays
    <3> QED BY <3>1, <3>2, <3>3
  <2>2. CASE i = Len(e.modules)
    BY <1>1, <2>2 DEF Module, This
  <2> QED BY <1>1, <1>2, <2>1, <2>2
<1>5. ASSUME NEW b \in e.module_bindings \cup e.registered_module_bindings
      PROVE  IndexOf(e.modules, b.index)
  <2>1. b \in base.module_bindings \cup base.registered_module_bindings
    BY <1>1 DEF Kept
  <2>2. IndexOf(base.modules, b.index)
    BY <2>1 DEF Whole
  <2> QED BY <1>1, <1>2, <2>2 DEF IndexOf
<1>6. Len(e.modules) >= 1
  BY <1>1, <1>2
<1> QED BY <1>1, <1>3, <1>4, <1>5, <1>6 DEF Whole
-----------------------------------------------------------------------------
(* An environment of which the items that a load has added are erased *)

LEMMA KeptLengths ==
    ASSUME NEW e, NEW base, Environment(e), Environment(base), Kept(e, base)
    PROVE  \A v \in Vectors : /\ Len(base[v]) \in Nat /\ Len(e[v]) \in Nat
                              /\ Len(base[v]) <= Len(e[v])
BY SeqFacts DEF Environment, Kept

LEMMA ResetFacts ==
    ASSUME NEW base, Environment(base), NEW e, Environment(e), Kept(e, base),
           NEW r, r = ResetToMarkPoint(e, Mark(base))
    PROVE  /\ Environment(r)
           /\ \A v \in Vectors :
                 /\ Len(r[v]) = Len(base[v])
                 /\ \A i \in 1 .. Len(base[v]) : r[v][i] = e[v][i]
           /\ r.module_bindings \subseteq base.module_bindings
           /\ r.registered_module_bindings
                  \subseteq {b \in base.registered_module_bindings :
                                b.index < Len(base.modules)}
<1>1. /\ DOMAIN r = Fields
      /\ r.modules = SubSeq(e.modules, 1, Len(base.modules))
      /\ r.sigs = SubSeq(e.sigs, 1, Len(base.sigs))
      /\ r.funcs = SubSeq(e.funcs, 1, Len(base.funcs))
      /\ r.memories = SubSeq(e.memories, 1, Len(base.memories))
      /\ r.tables = SubSeq(e.tables, 1, Len(base.tables))
      /\ r.globals = SubSeq(e.globals, 1, Len(base.globals))
      /\ r.istream = SubSeq(e.istream, 1, Len(base.istream))
      /\ r.module_bindings \subseteq e.module_bindings
      /\ r.registered_module_bindings
             = {b \in e.registered_module_bindings : b.index < Len(base.modules)}
  BY DEF ResetToMarkPoint, Mark, Environment, Fields, Vectors
<1>2. \A v \in Vectors : r[v] = SubSeq(e[v], 1, Len(base[v]))
  BY <1>1 DEF Vectors
<1>3. ASSUME NEW v \in Vectors
      PROVE  /\ IsSeq(r[v]) /\ Len(r[v]) = Len(base[v])
             /\ \A i \in 1 .. Len(base[v]) : r[v][i] = e[v][i]
  <2> DEFINE s == e[v]
             n == Len(base[v])
             t == SubSeq(s, 1, n)
  <2>1. IsSeq(s) /\ n \in 0 .. Len(s) /\ n \in Nat
    BY KeptLengths DEF Environment
  <2>2. r[v] = t
    BY <1>2
  <2> HIDE DEF s, n
  <2>3. IsSeq(t) /\ Len(t) = n /\ t = [i \in 1 .. n |-> s[i]]
    BY <2>1, PrefixFacts
  <2>4. \A i \in 1 .. n : t[i] = s[i]
    BY <2>3
  <2> HIDE DEF t
  <2> QED BY <2>2, <2>3, <2>4 DEF s, n
<1>4. Environment(r)
  <2>1. /\ Len(r.modules) = Len(base.modules) /\ Len(r.tables) = Len(base.tables)
        /\ \A i \in 1 .. Len(base.modules) : r.modules[i] = e.modules[i]
        /\ \A i \in 1 .. Len(base.tables) : r.tables[i] = e.tables[i]
        /\ Len(base.modules) \in Nat /\ Len(e.modules) \in Nat
        /\ Len(base.modules) <= Len(e.modules)
        /\ Len(base.tables) \in Nat /\ Len(e.tables) \in Nat
        /\ Len(base.tables) <= Len(e.tables)
    BY <1>3, KeptLengths DEF Vectors
  <2>2. \A i \in 1 .. Len(r.modules) : IsModule(r.modules[i])
    BY <2>1 DEF Environment
  <2>3. \A i \in 1 .. Len(r.tables) : IsSeq(r.tables[i].func_indexes)
    BY <2>1, SMTT(30) DEF Environment
  <2> QED BY <1>1, <1>3, <2>2, <2>3 DEF Environment
<1>5. /\ e.module_bindings = base.module_bindings
      /\ e.registered_module_bindings = base.registered_module_bindings
  BY DEF Kept
<1> QED BY <1>1, <1>3, <1>4, <1>5

(* What remains refers to nothing that was erased.                          *)
LEMMA ResetWhole ==
    ASSUME NEW base, Whole(base), NEW e, Environment(e), Kept(e, base),
           NEW r, r = ResetToMarkPoint(e, Mark(base))
    PROVE  Whole(r) /\ (HasBodies(base) => HasBodies(r))
<1>1. /\ Environment(base) /\ Environment(r)
      /\ \A v \in Vectors :
            /\ Len(r[v]) = Len(base[v])
            /\ \A i \in 1 .. Len(base[v]) : r[v][i] = e[v][i]
      /\ r.module_bindings \subseteq base.module_bindings
      /\ r.registered_module_bindings \subseteq base.registered_module_bindings
  <2>1. Environment(base)
    BY DEF Whole
  <2>2. /\ Environment(r)
        /\ \A v \in Vectors :
              /\ Len(r[v]) = Len(base[v])
              /\ \A i \in 1 .. Len(base[v]) : r[v][i] = e[v][i]
        /\ r.module_bindings \subseteq base.module_bindings
        /\ r.registered_module_bindings
               \subseteq {b \in base.registered_module_bindings :
                             b.index < Len(base.modules)}
    BY <2>1, ResetFacts
  <2> QED BY <2>1, <2>2
<1>2. /\ Len(r.modules) = Len(base.modules) /\ Len(r.sigs) = Len(base.sigs)
      /\ Len(r.funcs) = Len(base.funcs) /\ Len(r.memories) = Len(base.memories)
      /\ Len(r.tables) = Len(base.tables) /\ Len(r.globals) = Len(base.globals)
      /\ Len(r.istream) = Len(base.istream)
      /\ \A i \in 1 .. Len(base.funcs) : r.funcs[i] = e.funcs[i]
      /\ \A i \in 1 .. Len(base.modules) : r.modules[i] = e.modules[i]
  BY <1>1 DEF Vectors
<1>3. \A i \in 1 .. Len(base.funcs) : r.funcs[i] = base.funcs[i]
  BY <1>2 DEF Kept
<1>4. \A k \in 1 .. Len(r.funcs) : IndexOf(r.sigs, r.funcs[k].sig_index)
  BY <1>2, <1>3 DEF Whole, IndexOf
<1>5. ASSUME NEW i \in 1 .. Len(r.modules)
      PROVE  r.modules[i].is_host \/ ModuleWhole(r, r.modules[i])
  <2>1. \/ r.modules[i] = base.modules[i]
        \/ r.modules[i].is_host
    BY <1>2 DEF Kept
  <2>2. base.modules[i].is_host \/ ModuleWhole(base, base.modules[i])
    BY <1>2 DEF Whole
  <2> DEFINE m == base.modules[i]
  <2> HIDE DEF m
  <2>3. ModuleWhole(base, m) => ModuleWhole(r, m)
    BY <1>2 DEF ModuleWhole, ExportExists, IndexOf
  <2> QED BY <2>1, <2>2, <2>3 DEF m
<1>6. \A b \in r.module_bindings \cup r.registered_module_bindings :
         IndexOf(r.modules, b.index)
  BY <1>1, <1>2 DEF Whole, IndexOf
<1>7. HasBodies(base) => HasBodies(r)
  BY <1>2, <1>3 DEF HasBodies, IndexOf
<1> QED BY <1>1, <1>2, <1>4, <1>5, <1>6, <1>7 DEF Whole
=============================================================================
