--------------------------- MODULE SpecRunnerProofs ---------------------------
(***************************************************************************)
(* The commands of a script, for every script and every set of files: the  *)
(* inductive invariant LoadInv, and with it IndexesExist,                  *)
(* FunctionsAsDeclared, SegmentsInBounds and the refinement of ModuleStore.*)
(*                                                                         *)
(* Between loads the environment is whole: every index in it is one of     *)
(* something that is there.  During a load it is Read (InterpLoadProofs)   *)
(* over the environment that was there when the load began.                *)
(***************************************************************************)
EXTENDS InterpLoadProofs

-----------------------------------------------------------------------------
(* What running a function does to an environment: a memory may grow *)

OnlyGrown(e, after) ==
    /\ DOMAIN after = Fields
    /\ \A w \in Fields \ {"memories"} : after[w] = e[w]
    /\ IsSeq(after.memories) /\ Len(after.memories) = Len(e.memories)
    /\ \A i \in 1 .. Len(e.memories) :
          after.memories[i].page_limits.max = e.memories[i].page_limits.max

LEMMA NotGrown ==
    ASSUME NEW e, Environment(e)
    PROVE  OnlyGrown(e, e)
BY EnvironmentVectors DEF OnlyGrown, Environment

LEMMA MemoryGrown ==
    ASSUME NEW e, Environment(e), NEW m
    PROVE  OnlyGrown(e, GrowMemory(e, m))
<1> DEFINE limits == e.memories[m + 1].page_limits
           pages == e.memories[m + 1].page_limits.initial + 1
           x == [page_limits |-> [initial |-> pages, has_max |-> limits.has_max,
                                  max |-> limits.max],
                 data |-> Resized(e.memories[m + 1].data, pages * PageSize)]
           after == [e EXCEPT !.memories = [e.memories EXCEPT ![m + 1] = x]]
           index == m + 1
           s == e.memories
           t == [s EXCEPT ![index] = x]
<1>1. GrowMemory(e, m) \in {e, after}
  BY DEF GrowMemory
<1>2. x.page_limits.max = s[index].page_limits.max
  OBVIOUS
<1>3. /\ DOMAIN after = Fields /\ after.memories = t
      /\ \A w \in Fields \ {"memories"} : after[w] = e[w]
  BY DEF Environment, Fields, Vectors
<1>4. IsSeq(s) /\ DOMAIN s = 1 .. Len(s) /\ Len(s) \in Nat
  BY EnvironmentVectors, SeqFacts
<1> HIDE DEF x, index, s
<1>5. /\ t = [i \in 1 .. Len(s) |-> t[i]]
      /\ \A i \in 1 .. Len(s) : t[i] = IF i = index THEN x ELSE s[i]
  BY <1>4
<1>6. \A i \in 1 .. Len(s) : t[i].page_limits.max = s[i].page_limits.max
  BY <1>2, <1>5
<1> HIDE DEF t
<1>7. IsSeq(t) /\ Len(t) = Len(s)
  BY <1>4, <1>5, FunctionIsSeq
<1> HIDE DEF after
<1>8. OnlyGrown(e, after)
  BY <1>3, <1>6, <1>7 DEF OnlyGrown, s
<1> QED BY <1>1, <1>8, NotGrown

LEMMA FunctionRun ==
    ASSUME NEW e, Environment(e), NEW index, NEW args
    PROVE  OnlyGrown(e, RunFunction(e, index, args).env)
<1> DEFINE func == e.funcs[index + 1]
           sig == e.sigs[func.sig_index + 1]
           code == e.istream[func.offset + 1]
<1>1. RunDefinedFunction(e, func, sig.results).env
          \in {e, GrowMemory(e, code.memory)}
  BY DEF RunDefinedFunction, Ran
<1>2. DefaultHostCallback(e, sig.results).env = e
  BY DEF DefaultHostCallback, Ran
<1>3. RunFunction(e, index, args).env
          \in {e, DefaultHostCallback(e, sig.results).env,
               RunDefinedFunction(e, func, sig.results).env}
  BY DEF RunFunction, Ran
<1> HIDE DEF func, sig, code
<1> QED BY <1>1, <1>2, <1>3, NotGrown, MemoryGrown

LEMMA GrownFacts ==
    ASSUME NEW e, Environment(e), NEW after, OnlyGrown(e, after)
    PROVE  /\ Environment(after) /\ Mark(after) = Mark(e)
           /\ \A v \in Vectors : Len(after[v]) = Len(e[v])
           /\ Whole(e) => Whole(after)
           /\ HasBodies(e) => HasBodies(after)
           /\ \A base : Environment(base) /\ Kept(e, base) => Kept(after, base)
<1>1. /\ after.modules = e.modules /\ after.sigs = e.sigs
      /\ after.funcs = e.funcs /\ after.tables = e.tables
      /\ after.globals = e.globals /\ after.istream = e.istream
      /\ after.module_bindings = e.module_bindings
      /\ after.registered_module_bindings = e.registered_module_bindings
      /\ Len(after.memories) = Len(e.memories) /\ IsSeq(after.memories)
      /\ DOMAIN after = Fields
  BY DEF OnlyGrown, Fields, Vectors
<1>2. Environment(after)
  <2>1. \A v \in Vectors : IsSeq(after[v])
    BY <1>1, EnvironmentVectors DEF Vectors
  <2> QED BY <1>1, <2>1 DEF Environment
<1>3. \A v \in Vectors : Len(after[v]) = Len(e[v])
  BY <1>1 DEF Vectors
<1>4. Mark(after) = Mark(e)
  BY <1>1 DEF Mark
<1>5. ASSUME Whole(e) PROVE Whole(after)
  <2>1. ASSUME NEW m, ModuleWhole(e, m) PROVE ModuleWhole(after, m)
    BY <1>1, <2>1 DEF ModuleWhole, ExportExists, IndexOf
  <2> QED BY <1>1, <1>2, <1>5, <2>1 DEF Whole
<1>6. HasBodies(e) => HasBodies(after)
  BY <1>1 DEF HasBodies
<1>7. ASSUME NEW base, Environment(base), Kept(e, base) PROVE Kept(after, base)
  <2>1. \A v \in Vectors : Len(base[v]) <= Len(after[v])
    BY <1>3, <1>7 DEF Kept
  <2>2. \A v \in {"sigs", "funcs", "globals", "istream"} : after[v] = e[v]
    BY <1>1
  <2>3. \A i \in 1 .. Len(base.memories) :
           after.memories[i].page_limits.max = base.memories[i].page_limits.max
    <3>1. \A i \in 1 .. Len(base.memories) : i \in 1 .. Len(e.memories)
      BY <1>7, KeptLengths DEF Vectors
    <3> QED BY <1>7, <3>1 DEF Kept, OnlyGrown
  <2> QED BY <1>1, <1>7, <2>1, <2>2, <2>3 DEF Kept
<1> QED BY <1>2, <1>3, <1>4, <1>5, <1>6, <1>7
-----------------------------------------------------------------------------
(* What other modules see of an environment *)

(* What was there is there, as far as its structure goes.                   *)
KeptItems(e, base) ==
    /\ \A v \in Vectors : Len(base[v]) <= Len(e[v])
    /\ \A v \in {"sigs", "funcs", "globals", "istream"} :
          \A i \in 1 .. Len(base[v]) : e[v][i] = base[v][i]
    /\ \A i \in 1 .. Len(base.modules) :
          \/ e.modules[i].exports = base.modules[i].exports
             /\ e.modules[i].is_host = base.modules[i].is_host
          \/ e.modules[i].is_host /\ base.modules[i].is_host
    /\ \A i \in 1 .. Len(base.tables) :
          Len(e.tables[i].func_indexes) = Len(base.tables[i].func_indexes)
    /\ \A i \in 1 .. Len(base.memories) :
          e.memories[i].page_limits.max = base.memories[i].page_limits.max

LEMMA KeptAreItems ==
    ASSUME NEW e, NEW base, Kept(e, base)
    PROVE  KeptItems(e, base)
<1>1. \A i \in 1 .. Len(base.modules) :
         \/ e.modules[i].exports = base.modules[i].exports
            /\ e.modules[i].is_host = base.modules[i].is_host
         \/ e.modules[i].is_host /\ base.modules[i].is_host
  BY DEF Kept
<1> QED BY <1>1 DEF Kept, KeptItems

StoreVectors == {"modules", "sigs", "funcs", "istream", "tables", "memories",
                 "globals"}

ModuleSeen(e, i) == IF e.modules[i].is_host THEN <<>> ELSE e.modules[i].exports
TableSeen(e, i) == Len(e.tables[i].func_indexes)
MemorySeen(e, i) == e.memories[i].page_limits.max
GlobalSeen(e, i) == e.globals[i].mutable_

Sees(st, e, base) ==
    /\ DOMAIN st = StoreVectors
    /\ st.modules = [i \in 1 .. Len(base.modules) |-> ModuleSeen(e, i)]
    /\ st.sigs = [i \in 1 .. Len(base.sigs) |-> e.sigs[i]]
    /\ st.funcs = [i \in 1 .. Len(base.funcs) |-> e.funcs[i]]
    /\ st.istream = [i \in 1 .. Len(base.istream) |-> e.istream[i]]
    /\ st.tables = [i \in 1 .. Len(base.tables) |-> TableSeen(e, i)]
    /\ st.memories = [i \in 1 .. Len(base.memories) |-> MemorySeen(e, i)]
    /\ st.globals = [i \in 1 .. Len(base.globals) |-> GlobalSeen(e, i)]
    /\ \A v \in StoreVectors : IsSeq(st[v]) /\ Len(st[v]) = Len(base[v])

LEMMA StructureFacts ==
    ASSUME NEW e, Environment(e), NEW base, Environment(base),
           \A v \in Vectors : Len(base[v]) <= Len(e[v]),
           NEW st, st = Structure(e, Mark(base))
    PROVE  Sees(st, e, base)
<1> DEFINE n_modules == Len(base.modules)
           n_sigs == Len(base.sigs)
           n_funcs == Len(base.funcs)
           n_istream == Len(base.istream)
           n_tables == Len(base.tables)
           n_memories == Len(base.memories)
           n_globals == Len(base.globals)
<1>1. /\ DOMAIN st = StoreVectors
      /\ st.modules = [i \in 1 .. n_modules |-> ModuleSeen(e, i)]
      /\ st.sigs = SubSeq(e.sigs, 1, n_sigs)
      /\ st.funcs = SubSeq(e.funcs, 1, n_funcs)
      /\ st.istream = SubSeq(e.istream, 1, n_istream)
      /\ st.tables = [i \in 1 .. n_tables |-> TableSeen(e, i)]
      /\ st.memories = [i \in 1 .. n_memories |-> MemorySeen(e, i)]
      /\ st.globals = [i \in 1 .. n_globals |-> GlobalSeen(e, i)]
  BY DEF Structure, Mark, ModuleSeen, TableSeen, MemorySeen, GlobalSeen, StoreVectors
<1>2. /\ IsSeq(e.sigs) /\ n_sigs \in 0 .. Len(e.sigs) /\ n_sigs \in Nat
      /\ IsSeq(e.funcs) /\ n_funcs \in 0 .. Len(e.funcs) /\ n_funcs \in Nat
      /\ IsSeq(e.istream) /\ n_istream \in 0 .. Len(e.istream) /\ n_istream \in Nat
      /\ n_modules \in Nat /\ n_tables \in Nat /\ n_memories \in Nat /\ n_globals \in Nat
  BY EnvironmentVectors, Lengths DEF Vectors
<1> HIDE DEF n_modules, n_sigs, n_funcs, n_istream, n_tables, n_memories, n_globals
<1>3. st.sigs = [i \in 1 .. n_sigs |-> e.sigs[i]]
  BY <1>1, <1>2, PrefixFacts
<1>4. st.funcs = [i \in 1 .. n_funcs |-> e.funcs[i]]
  BY <1>1, <1>2, PrefixFacts
<1>5. st.istream = [i \in 1 .. n_istream |-> e.istream[i]]
  BY <1>1, <1>2, PrefixFacts
<1>6. ASSUME NEW n \in Nat, NEW F(_), NEW s, s = [i \in 1 .. n |-> F(i)]
      PROVE  IsSeq(s) /\ Len(s) = n
  <2>1. s = [i \in 1 .. n |-> s[i]]
    BY <1>6
  <2> QED BY <2>1, FunctionIsSeq
<1>7. /\ IsSeq(st.modules) /\ Len(st.modules) = n_modules
      /\ IsSeq(st.sigs) /\ Len(st.sigs) = n_sigs
      /\ IsSeq(st.funcs) /\ Len(st.funcs) = n_funcs
      /\ IsSeq(st.istream) /\ Len(st.istream) = n_istream
      /\ IsSeq(st.tables) /\ Len(st.tables) = n_tables
      /\ IsSeq(st.memories) /\ Len(st.memories) = n_memories
      /\ IsSeq(st.globals) /\ Len(st.globals) = n_globals
  <2>1. /\ st.modules = [i \in 1 .. n_modules |-> st.modules[i]]
        /\ st.sigs = [i \in 1 .. n_sigs |-> st.sigs[i]]
        /\ st.funcs = [i \in 1 .. n_funcs |-> st.funcs[i]]
        /\ st.istream = [i \in 1 .. n_istream |-> st.istream[i]]
        /\ st.tables = [i \in 1 .. n_tables |-> st.tables[i]]
        /\ st.memories = [i \in 1 .. n_memories |-> st.memories[i]]
        /\ st.globals = [i \in 1 .. n_globals |-> st.globals[i]]
    BY <1>1, <1>3, <1>4, <1>5
  <2> QED BY <1>2, <2>1, FunctionIsSeq
<1>8. \A v \in StoreVectors : IsSeq(st[v]) /\ Len(st[v]) = Len(base[v])
  BY <1>7 DEF StoreVectors, n_modules, n_sigs, n_funcs, n_istream, n_tables,
              n_memories, n_globals
<1> QED BY <1>1, <1>3, <1>4, <1>5, <1>8
        DEF n_modules, n_sigs, n_funcs, n_istream, n_tables, n_memories, n_globals,
            Sees

LEMMA StructureKept ==
    ASSUME NEW e, Environment(e), NEW base, Environment(base), KeptItems(e, base)
    PROVE  Structure(e, Mark(base)) = Structure(base, Mark(base))
<1> DEFINE n_modules == Len(base.modules)
           n_tables == Len(base.tables)
           n_memories == Len(base.memories)
           n_globals == Len(base.globals)
<1>1. \A v \in Vectors : Len(base[v]) <= Len(e[v])
  BY DEF KeptItems
<1>2. \A i \in 1 .. Len(base.modules) : ModuleSeen(e, i) = ModuleSeen(base, i)
  BY DEF KeptItems, ModuleSeen
<1>3. \A i \in 1 .. Len(base.tables) : TableSeen(e, i) = TableSeen(base, i)
  BY DEF KeptItems, TableSeen
<1>4. \A i \in 1 .. Len(base.memories) : MemorySeen(e, i) = MemorySeen(base, i)
  BY DEF KeptItems, MemorySeen
<1>5. \A i \in 1 .. Len(base.globals) : GlobalSeen(e, i) = GlobalSeen(base, i)
  BY DEF KeptItems, GlobalSeen
<1>6. /\ \A i \in 1 .. Len(base.sigs) : e.sigs[i] = base.sigs[i]
      /\ \A i \in 1 .. Len(base.funcs) : e.funcs[i] = base.funcs[i]
      /\ \A i \in 1 .. Len(base.istream) : e.istream[i] = base.istream[i]
  BY DEF KeptItems
<1>7. \A v \in Vectors : Len(base[v]) <= Len(base[v])
  BY Lengths DEF Vectors
<1> DEFINE s == Structure(e, Mark(base))
           t == Structure(base, Mark(base))
<1>8. s = Structure(e, Mark(base)) /\ t = Structure(base, Mark(base))
  OBVIOUS
<1> HIDE DEF s, t
<1>9. /\ s.modules = t.modules /\ s.sigs = t.sigs /\ s.funcs = t.funcs
      /\ s.istream = t.istream /\ s.tables = t.tables /\ s.memories = t.memories
      /\ s.globals = t.globals
  <2>1. Sees(s, e, base)
    BY <1>1, <1>8, StructureFacts
  <2>2. Sees(t, base, base)
    BY <1>7, <1>8, StructureFacts
  <2>3. s.modules = t.modules /\ s.tables = t.tables
    BY <1>2, <1>3, <2>1, <2>2 DEF Sees
  <2>4. s.memories = t.memories /\ s.globals = t.globals
    BY <1>4, <1>5, <2>1, <2>2 DEF Sees
  <2>5. s.sigs = t.sigs /\ s.funcs = t.funcs /\ s.istream = t.istream
    BY <1>6, <2>1, <2>2, SMTT(30) DEF Sees
  <2> QED BY <2>3, <2>4, <2>5
<1> QED BY <1>9 DEF Structure, s, t

LEMMA PrefixOf ==
    ASSUME NEW s, NEW t, IsSeq(s), IsSeq(t), Prefix(s, t)
    PROVE  IsPrefix(s, t)
<1>1. Len(s) \in Nat /\ Len(t) \in Nat /\ Len(s) <= Len(t)
  BY SeqFacts DEF Prefix
<1>2. /\ SubSeq(s, 1, Len(s)) = [i \in 1 .. Len(s) |-> s[i]]
      /\ SubSeq(t, 1, Len(s)) = [i \in 1 .. Len(s) |-> t[i]]
  BY <1>1, PrefixFacts
<1> QED BY <1>1, <1>2 DEF IsPrefix, Prefix

LEMMA StructureGrows ==
    ASSUME NEW e, Environment(e), NEW base, Environment(base), KeptItems(e, base)
    PROVE  /\ \A v \in StoreVectors :
                 IsPrefix(Structure(base, Mark(base))[v], Structure(e, Mark(e))[v])
           /\ Len(Structure(e, Mark(e)).modules) = Len(e.modules)
           /\ Len(Structure(base, Mark(base)).modules) = Len(base.modules)
<1> DEFINE s == Structure(base, Mark(base))
           t == Structure(e, Mark(e))
<1>0. s = Structure(base, Mark(base)) /\ t = Structure(e, Mark(e))
  OBVIOUS
<1> HIDE DEF s, t
<1>1. /\ \A v \in Vectors : Len(base[v]) <= Len(base[v])
      /\ \A v \in Vectors : Len(e[v]) <= Len(e[v])
  BY Lengths DEF Vectors
<1>2. Sees(s, base, base)
  BY <1>0, <1>1, StructureFacts
<1>3. Sees(t, e, e)
  BY <1>0, <1>1, StructureFacts
<1>4. \A v \in Vectors : /\ Len(base[v]) \in Nat /\ Len(e[v]) \in Nat
                         /\ Len(base[v]) <= Len(e[v])
  BY SeqFacts DEF Environment, KeptItems
<1>5. /\ \A i \in 1 .. Len(base.modules) : ModuleSeen(e, i) = ModuleSeen(base, i)
      /\ \A i \in 1 .. Len(base.tables) : TableSeen(e, i) = TableSeen(base, i)
      /\ \A i \in 1 .. Len(base.memories) : MemorySeen(e, i) = MemorySeen(base, i)
      /\ \A i \in 1 .. Len(base.globals) : GlobalSeen(e, i) = GlobalSeen(base, i)
  BY DEF KeptItems, ModuleSeen, TableSeen, MemorySeen, GlobalSeen
<1>6. /\ \A i \in 1 .. Len(base.sigs) : e.sigs[i] = base.sigs[i]
      /\ \A i \in 1 .. Len(base.funcs) : e.funcs[i] = base.funcs[i]
      /\ \A i \in 1 .. Len(base.istream) : e.istream[i] = base.istream[i]
  BY DEF KeptItems
<1>7. /\ \A i \in 1 .. Len(base.modules) : t.modules[i] = s.modules[i]
      /\ \A i \in 1 .. Len(base.tables) : t.tables[i] = s.tables[i]
      /\ \A i \in 1 .. Len(base.memories) : t.memories[i] = s.memories[i]
      /\ \A i \in 1 .. Len(base.globals) : t.globals[i] = s.globals[i]
      /\ \A i \in 1 .. Len(base.sigs) : t.sigs[i] = s.sigs[i]
      /\ \A i \in 1 .. Len(base.funcs) : t.funcs[i] = s.funcs[i]
      /\ \A i \in 1 .. Len(base.istream) : t.istream[i] = s.istream[i]
  <2>1. \A v \in Vectors : \A i \in 1 .. Len(base[v]) : i \in 1 .. Len(e[v])
    BY <1>4
  <2>2. /\ \A i \in 1 .. Len(base.modules) : i \in 1 .. Len(e.modules)
        /\ \A i \in 1 .. Len(base.tables) : i \in 1 .. Len(e.tables)
        /\ \A i \in 1 .. Len(base.memories) : i \in 1 .. Len(e.memories)
        /\ \A i \in 1 .. Len(base.globals) : i \in 1 .. Len(e.globals)
        /\ \A i \in 1 .. Len(base.sigs) : i \in 1 .. Len(e.sigs)
        /\ \A i \in 1 .. Len(base.funcs) : i \in 1 .. Len(e.funcs)
        /\ \A i \in 1 .. Len(base.istream) : i \in 1 .. Len(e.istream)
    BY <2>1 DEF Vectors
  <2>3. ASSUME NEW i \in 1 .. Len(base.modules) PROVE t.modules[i] = s.modules[i]
    <3>1. i \in 1 .. Len(e.modules) /\ ModuleSeen(e, i) = ModuleSeen(base, i)
      BY <1>5, <2>2
    <3>2. t.modules[i] = ModuleSeen(e, i)
      BY <1>3, <3>1 DEF Sees
    <3>3. s.modules[i] = ModuleSeen(base, i)
      BY <1>2 DEF Sees
    <3> QED BY <3>1, <3>2, <3>3
  <2>4. ASSUME NEW i \in 1 .. Len(base.tables) PROVE t.tables[i] = s.tables[i]
    <3>1. i \in 1 .. Len(e.tables) /\ TableSeen(e, i) = TableSeen(base, i)
      BY <1>5, <2>2
    <3>2. t.tables[i] = TableSeen(e, i)
      BY <1>3, <3>1 DEF Sees
    <3>3. s.tables[i] = TableSeen(base, i)
      BY <1>2 DEF Sees
    <3> QED BY <3>1, <3>2, <3>3
  <2>5. ASSUME NEW i \in 1 .. Len(base.memories) PROVE t.memories[i] = s.memories[i]
    <3>1. i \in 1 .. Len(e.memories) /\ MemorySeen(e, i) = MemorySeen(base, i)
      BY <1>5, <2>2
    <3>2. t.memories[i] = MemorySeen(e, i)
      BY <1>3, <3>1 DEF Sees
    <3>3. s.memories[i] = MemorySeen(base, i)
      BY <1>2 DEF Sees
    <3> QED BY <3>1, <3>2, <3>3
  <2>6. ASSUME NEW i \in 1 .. Len(base.globals) PROVE t.globals[i] = s.globals[i]
    <3>1. i \in 1 .. Len(e.globals) /\ GlobalSeen(e, i) = GlobalSeen(base, i)
      BY <1>5, <2>2
    <3>2. t.globals[i] = GlobalSeen(e, i)
      BY <1>3, <3>1 DEF Sees
    <3>3. s.globals[i] = GlobalSeen(base, i)
      BY <1>2 DEF Sees
    <3> QED BY <3>1, <3>2, <3>3
  <2>7. /\ \A i \in 1 .. Len(base.sigs) : t.sigs[i] = s.sigs[i]
        /\ \A i \in 1 .. Len(base.funcs) : t.funcs[i] = s.funcs[i]
        /\ \A i \in 1 .. Len(base.istream) : t.istream[i] = s.istream[i]
    BY <1>2, <1>3, <1>6, <2>2, SMTT(30) DEF Sees
  <2> QED BY <2>3, <2>4, <2>5, <2>6, <2>7
<1>8. ASSUME NEW v \in StoreVectors PROVE IsPrefix(s[v], t[v])
  <2>1. v \in Vectors /\ Len(s[v]) = Len(base[v]) /\ Len(t[v]) = Len(e[v])
    BY <1>2, <1>3 DEF StoreVectors, Vectors, Sees
  <2>2. \A i \in 1 .. Len(base[v]) : t[v][i] = s[v][i]
    BY <1>7 DEF StoreVectors
  <2>3. Prefix(s[v], t[v])
    BY <1>4, <2>1, <2>2 DEF Prefix
  <2>4. IsSeq(s[v]) /\ IsSeq(t[v])
    BY <1>2, <1>3 DEF Sees
  <2> QED BY <2>1, <2>3, <2>4, PrefixOf
<1> QED BY <1>2, <1>3, <1>8 DEF s, t, StoreVectors, Sees

LEMMA ContentsKept ==
    ASSUME NEW e, Environment(e), NEW base, Environment(base),
           \A v \in Vectors : Len(base[v]) <= Len(e[v]),
           \A v \in {"tables", "memories", "globals"} :
               \A i \in 1 .. Len(base[v]) : e[v][i] = base[v][i]
    PROVE  Contents(e, Mark(base)) = Contents(base, Mark(base))
<1>1. ASSUME NEW v \in {"tables", "memories", "globals"}
      PROVE  SubSeq(e[v], 1, Len(base[v])) = SubSeq(base[v], 1, Len(base[v]))
  <2> DEFINE s == e[v]
             t == base[v]
  <2>1. \A i \in 1 .. Len(t) : s[i] = t[i]
    OBVIOUS
  <2>2. IsSeq(s) /\ IsSeq(t) /\ Len(t) <= Len(s)
    BY DEF Environment, Vectors
  <2> HIDE DEF s, t
  <2>3. Len(t) \in 0 .. Len(s) /\ Len(t) \in 0 .. Len(t)
    BY <2>2, SeqFacts
  <2>4. /\ SubSeq(s, 1, Len(t)) = [i \in 1 .. Len(t) |-> s[i]]
        /\ SubSeq(t, 1, Len(t)) = [i \in 1 .. Len(t) |-> t[i]]
    BY <2>2, <2>3, PrefixFacts
  <2>5. SubSeq(s, 1, Len(t)) = SubSeq(t, 1, Len(t))
    BY <2>1, <2>4
  <2> QED BY <2>5 DEF s, t
<1> QED BY <1>1 DEF Contents, Mark
-----------------------------------------------------------------------------
(* The files of a script *)

ScriptGiven ==
    /\ IsSeq(script) /\ Len(script) <= MaxCommands
    /\ \A i \in 1 .. Len(script) : script[i] \in Commands[i]

LEMMA ErrorFileRead == FileRead(<<[on |-> "error"]>>)
<1> DEFINE file == <<[on |-> "error"]>>
<1>1. /\ DOMAIN file = {1} /\ Len(file) = 1 /\ file[1].on = "error"
      /\ file # <<>> /\ file \in Seq(Range(file))
  <2>1. file[1] \in Range(file)
    BY DEF Range
  <2> QED BY <2>1
<1> HIDE DEF file
<1>2. Ended(file)
  BY <1>1 DEF Ended
<1>3. SectionsInOrder(file)
  BY <1>1 DEF SectionsInOrder, SectionOf
<1>4. file[1].on \notin Range(CountOf) /\ file[1].on \notin DOMAIN CountOf
  BY <1>1 DEF Range, CountOf
<1>5. Counted(file)
  BY <1>1, <1>4 DEF Counted
<1>6. \A kind : Declarations(file, kind) \subseteq {n \in {1} : "error" = kind}
  BY <1>1 DEF Declarations
<1>7. ArgumentsChecked(file)
  BY <1>1, <1>6 DEF ArgumentsChecked
<1>8. Complete(file)
  <2>1. Last(file).on # "end_module"
    BY <1>1 DEF Last
  <2> QED BY <2>1 DEF Complete
<1>9. SegmentsRead(file)
  BY <1>1 DEF SegmentsRead
<1> QED BY <1>2, <1>3, <1>5, <1>7, <1>8, <1>9 DEF FileRead, file

LEMMA FileGiven ==
    ASSUME ScriptGiven
    PROVE  \/ File = <<[on |-> "error"]>>
           \/ \E name \in DOMAIN Files : File = Files[name]
<1> DEFINE files == ModuleFiles(script)
           with == {i \in DOMAIN script : HasModule(script[i])}
           name == files[Command.file]
<1>1. CASE Command.file \in DOMAIN files /\ Command.module_type = "binary"
  <2>1. PICK j \in with : NumModules(script, j) = Command.file
    BY <1>1 DEF ModuleFiles
  <2> DEFINE i == CHOOSE i \in with : NumModules(script, i) = Command.file
  <2>2. i \in with
    BY <2>1
  <2>3. name = script[i].file
    BY <1>1 DEF ModuleFiles
  <2> HIDE DEF i
  <2>4. DOMAIN script = 1 .. Len(script) /\ Len(script) \in Nat
    BY SeqFacts DEF ScriptGiven
  <2>5. i \in DOMAIN Commands /\ script[i] \in Commands[i] /\ HasModule(script[i])
    BY <2>2, <2>4, FilesAssumption DEF ScriptGiven
  <2>6. name \in DOMAIN Files
    BY <2>3, <2>5, FilesAssumption
  <2>7. File = Files[name]
    BY <1>1 DEF File
  <2> HIDE DEF name
  <2> QED BY <2>6, <2>7
<1>2. CASE ~(Command.file \in DOMAIN files /\ Command.module_type = "binary")
  BY <1>2 DEF File
<1> QED BY <1>1, <1>2

LEMMA FileIsRead ==
    ASSUME ScriptGiven
    PROVE  FileRead(File)
BY FileGiven, FilesAssumption, ErrorFileRead

-----------------------------------------------------------------------------
(* What the commands do with environments *)

LEMMA NamedFacts ==
    ASSUME NEW e, Environment(e), Len(e.modules) >= 1
    PROVE  /\ Environment(Named(e))
           /\ Len(Named(e).modules) = Len(e.modules)
           /\ Whole(e) => Whole(Named(e))
           /\ HasBodies(e) => HasBodies(Named(e))
           /\ \A base : Environment(base) /\ KeptItems(e, base)
                            => KeptItems(Named(e), base)
<1>1. CASE Command.name = <<>>
  BY <1>1 DEF Named
<1>2. CASE Command.name # <<>>
  <2> DEFINE last == Len(e.modules)
             x == [e.modules[last] EXCEPT !.name = Command.name]
             binding == [name |-> Command.name, index |-> last - 1]
             after == [e EXCEPT !.modules = Updated(e.modules, last, x),
                                !.module_bindings = @ \union {binding}]
  <2>1. Named(e) = after
    BY <1>2 DEF Named, Updated
  <2>2. /\ DOMAIN after = Fields
        /\ after.modules = Updated(e.modules, last, x)
        /\ after.sigs = e.sigs /\ after.funcs = e.funcs
        /\ after.memories = e.memories /\ after.tables = e.tables
        /\ after.globals = e.globals /\ after.istream = e.istream
        /\ after.module_bindings = e.module_bindings \cup {binding}
        /\ after.registered_module_bindings = e.registered_module_bindings
    BY DEF Environment, Fields, Vectors
  <2>3. /\ IsSeq(e.modules) /\ last \in 1 .. Len(e.modules) /\ last \in Nat
        /\ IsModule(e.modules[last])
    BY Lengths, EnvironmentVectors DEF Environment
  <2>4. /\ IsModule(x) /\ x.is_host = e.modules[last].is_host
        /\ x.exports = e.modules[last].exports
        /\ x.table_index = e.modules[last].table_index
        /\ x.memory_index = e.modules[last].memory_index
        /\ x.start_func_index = e.modules[last].start_func_index
        /\ x.istream_start = e.modules[last].istream_start
        /\ x.istream_end = e.modules[last].istream_end
    BY <2>3 DEF IsModule, ModuleFields
  <2>5. binding.index = last - 1
    OBVIOUS
  <2> HIDE DEF x, binding, after
  <2>6. /\ IsSeq(after.modules) /\ Len(after.modules) = last
        /\ \A i \in 1 .. last : i # last => after.modules[i] = e.modules[i]
        /\ after.modules[last] = x
    BY <2>2, <2>3, UpdateFacts
  <2>7. Environment(after)
    <3>1. \A v \in Vectors : IsSeq(after[v])
      BY <2>2, <2>6, EnvironmentVectors DEF Vectors
    <3>2. \A i \in 1 .. Len(after.modules) : IsModule(after.modules[i])
      BY <2>4, <2>6 DEF Environment
    <3> QED BY <2>2, <3>1, <3>2 DEF Environment
  <2>8. ASSUME Whole(e) PROVE Whole(after)
    <3>1. \A k \in 1 .. Len(after.funcs) : IndexOf(after.sigs, after.funcs[k].sig_index)
      BY <2>2, <2>8 DEF Whole
    <3>2. ASSUME NEW i \in 1 .. Len(after.modules)
          PROVE  after.modules[i].is_host \/ ModuleWhole(after, after.modules[i])
      <4>1. e.modules[i].is_host \/ ModuleWhole(e, e.modules[i])
        BY <2>6, <2>8 DEF Whole
      <4> DEFINE before == e.modules[i]
                 m == after.modules[i]
      <4>2. /\ m.is_host = before.is_host /\ m.exports = before.exports
            /\ m.table_index = before.table_index
            /\ m.memory_index = before.memory_index
            /\ m.start_func_index = before.start_func_index
            /\ m.istream_start = before.istream_start
            /\ m.istream_end = before.istream_end
        BY <2>4, <2>6
      <4> HIDE DEF before, m
      <4>3. ModuleWhole(e, before) => ModuleWhole(after, m)
        BY <2>2, <4>2 DEF ModuleWhole, ExportExists, IndexOf
      <4> QED BY <4>1, <4>2, <4>3 DEF before, m
    <3>3. \A b \in after.module_bindings \cup after.registered_module_bindings :
             IndexOf(after.modules, b.index)
      BY <2>2, <2>3, <2>5, <2>6, <2>8 DEF Whole, IndexOf
    <3> QED BY <2>6, <2>7, <3>1, <3>2, <3>3 DEF Whole
  <2>9. HasBodies(e) => HasBodies(after)
    BY <2>2 DEF HasBodies
  <2>10. ASSUME NEW base, Environment(base), KeptItems(e, base)
         PROVE  KeptItems(after, base)
    <3>1. \A v \in Vectors : Len(after[v]) = Len(e[v])
      BY <2>2, <2>6 DEF Vectors
    <3>2. Len(base.modules) \in Nat /\ Len(base.modules) <= last
      BY <2>10, Lengths DEF KeptItems, Vectors
    <3>3. \A i \in 1 .. Len(base.modules) :
             /\ after.modules[i].exports = e.modules[i].exports
             /\ after.modules[i].is_host = e.modules[i].is_host
      BY <2>3, <2>4, <2>6, <3>2
    <3>4. \A i \in 1 .. Len(base.modules) :
             \/ after.modules[i].exports = base.modules[i].exports
                /\ after.modules[i].is_host = base.modules[i].is_host
             \/ after.modules[i].is_host /\ base.modules[i].is_host
      BY <2>10, <3>3 DEF KeptItems
    <3> QED BY <2>2, <2>10, <3>1, <3>4 DEF KeptItems
  <2> QED BY <2>1, <2>6, <2>7, <2>8, <2>9, <2>10
<1> QED BY <1>1, <1>2

Registered(e, name, index) ==
    [e EXCEPT !.registered_module_bindings =
        @ \union {[name |-> name, index |-> index]}]

LEMMA RegisteredFacts ==
    ASSUME NEW e, Whole(e), NEW index, IndexOf(e.modules, index), NEW name,
           NEW after, after = Registered(e, name, index)
    PROVE  /\ Whole(after) /\ (HasBodies(e) => HasBodies(after))
           /\ Mark(after) = Mark(e)
           /\ \A m : Structure(after, m) = Structure(e, m)
<1> DEFINE binding == [name |-> name, index |-> index]
<1>1. /\ DOMAIN after = Fields /\ after.modules = e.modules
      /\ after.sigs = e.sigs /\ after.funcs = e.funcs
      /\ after.memories = e.memories /\ after.tables = e.tables
      /\ after.globals = e.globals /\ after.istream = e.istream
      /\ after.module_bindings = e.module_bindings
      /\ after.registered_module_bindings
             = e.registered_module_bindings \cup {binding}
  BY DEF Registered, Whole, Environment, Fields, Vectors
<1>2. binding.index = index
  OBVIOUS
<1> HIDE DEF binding
<1>3. Environment(after)
  <2>1. \A v \in Vectors : IsSeq(after[v])
    BY <1>1, EnvironmentVectors DEF Whole, Vectors
  <2> QED BY <1>1, <2>1 DEF Whole, Environment
<1>4. ASSUME NEW m, ModuleWhole(e, m) PROVE ModuleWhole(after, m)
  BY <1>1, <1>4 DEF ModuleWhole, ExportExists, IndexOf
<1>5. \A b \in after.module_bindings \cup after.registered_module_bindings :
         IndexOf(after.modules, b.index)
  BY <1>1, <1>2 DEF Whole
<1>6. Whole(after)
  BY <1>1, <1>3, <1>4, <1>5 DEF Whole
<1>7. HasBodies(e) => HasBodies(after)
  BY <1>1 DEF HasBodies
<1>8. Mark(after) = Mark(e) /\ \A m : Structure(after, m) = Structure(e, m)
  BY <1>1 DEF Mark, Structure
<1> QED BY <1>6, <1>7, <1>8
LoadEnded(ld, first) ==
    [ld EXCEPT !.env.modules[This(ld)].istream_start = first,
               !.env.modules[This(ld)].istream_end = Len(ld.env.istream)]

(* ReadBinaryInterp notes what code the module has.                         *)
LEMMA EndLoadRead ==
    ASSUME NEW file, FileRead(file), NEW n \in 1 .. Len(file) + 1, NEW base,
           NEW a, Read(a, file, n, base),
           NEW b, b = LoadEnded(a, Len(base.istream))
    PROVE  Read(b, file, n, base)
<1> DEFINE modules == a.env.modules
           this == This(a)
           first == Len(base.istream)
           end == Len(a.env.istream)
           y == WithField(Module(a), "istream_start", first)
           x == WithField(y, "istream_end", end)
           mid == [a EXCEPT !.env.modules[This(a)].istream_start = first]
<1>1. /\ Environment(a.env) /\ Environment(base) /\ Kept(a.env, base)
      /\ DOMAIN a = LoadFields /\ DOMAIN a.env = Fields
      /\ Len(modules) = Len(base.modules) + 1
      /\ ~Module(a).is_host /\ ModuleWhole(a.env, Module(a))
  BY DEF Read, Environment
<1>2. /\ IsSeq(modules) /\ DOMAIN modules = 1 .. Len(modules) /\ this = Len(modules)
      /\ Len(modules) \in Nat /\ this \in 1 .. Len(modules)
      /\ Len(base.modules) \in Nat /\ Module(a) = modules[this]
      /\ IsModule(Module(a))
  <2>1. IsSeq(modules) /\ this = Len(modules)
    BY <1>1, EnvironmentVectors DEF This
  <2>2. Len(modules) \in Nat /\ Len(base.modules) \in Nat
    BY <1>1, Lengths
  <2>3. DOMAIN modules = 1 .. Len(modules)
    <3> HIDE DEF modules
    <3> QED BY <2>1, SeqFacts
  <2> QED BY <1>1, <2>1, <2>2, <2>3, ThisModule
<1>3. /\ first \in Nat /\ end \in Nat /\ first <= end
  BY <1>1, Lengths DEF Kept, Vectors
<1>4. /\ IsModule(x) /\ x.is_host = Module(a).is_host
      /\ x.exports = Module(a).exports
      /\ x.table_index = Module(a).table_index
      /\ x.memory_index = Module(a).memory_index
      /\ x.start_func_index = Module(a).start_func_index
      /\ x.istream_start = first /\ x.istream_end = end
  BY <1>2 DEF IsModule, ModuleFields, WithField
<1> HIDE DEF first, end
<1>5. /\ DOMAIN mid = LoadFields
      /\ mid.sig_index_mapping = a.sig_index_mapping
      /\ mid.func_index_mapping = a.func_index_mapping
      /\ mid.global_index_mapping = a.global_index_mapping
      /\ ModuleSet(a.env, mid.env, this, y)
  BY <1>1 DEF LoadFields, ModuleSet, Fields, Vectors, Updated, Module, This, WithField
<1>6. /\ DOMAIN b = LoadFields /\ DOMAIN b.env = Fields
      /\ b.env.modules = Updated(modules, this, x)
      /\ b.env.sigs = a.env.sigs /\ b.env.funcs = a.env.funcs
      /\ b.env.memories = a.env.memories /\ b.env.tables = a.env.tables
      /\ b.env.globals = a.env.globals /\ b.env.istream = a.env.istream
      /\ b.env.module_bindings = a.env.module_bindings
      /\ b.env.registered_module_bindings = a.env.registered_module_bindings
      /\ b.sig_index_mapping = a.sig_index_mapping
      /\ b.func_index_mapping = a.func_index_mapping
      /\ b.global_index_mapping = a.global_index_mapping
  <2>1. b = [mid EXCEPT !.env.modules[This(a)].istream_end = end]
    BY DEF first, end, LoadEnded
  <2>2. /\ mid.env.modules = Updated(modules, this, y)
        /\ DOMAIN mid.env = Fields
        /\ \A w \in Fields \ {"modules"} : mid.env[w] = a.env[w]
    BY <1>5 DEF ModuleSet
  <2> HIDE DEF mid, y, this
  <2>3. /\ DOMAIN b = LoadFields
        /\ b.sig_index_mapping = mid.sig_index_mapping
        /\ b.func_index_mapping = mid.func_index_mapping
        /\ b.global_index_mapping = mid.global_index_mapping
        /\ ModuleSet(mid.env, b.env, this,
                      WithField(mid.env.modules[this], "istream_end", end))
    <3> DEFINE next == [mid EXCEPT !.env.modules[This(a)].istream_end = end]
    <3>1. /\ DOMAIN next = LoadFields
          /\ next.sig_index_mapping = mid.sig_index_mapping
          /\ next.func_index_mapping = mid.func_index_mapping
          /\ next.global_index_mapping = mid.global_index_mapping
          /\ ModuleSet(mid.env, next.env, this,
                       WithField(mid.env.modules[this], "istream_end", end))
      BY <1>5, <2>2
         DEF LoadFields, ModuleSet, Fields, Vectors, Updated, WithField, this
    <3> HIDE DEF next
    <3>2. b = next
      BY <2>1 DEF next
    <3> QED BY <3>1, <3>2
  <2>4. mid.env.modules[this] = y
    BY <1>2, <2>2 DEF Updated
  <2>5. Updated(Updated(modules, this, y), this, x) = Updated(modules, this, x)
    BY <1>2 DEF Updated
  <2>6. /\ b.env.modules = Updated(modules, this, x) /\ DOMAIN b.env = Fields
        /\ \A w \in Fields \ {"modules"} : b.env[w] = a.env[w]
    BY <2>2, <2>3, <2>4, <2>5 DEF ModuleSet
  <2> QED BY <1>5, <2>3, <2>6 DEF Fields, Vectors
<1> HIDE DEF x, modules, this, mid, y
<1>7. /\ IsSeq(b.env.modules) /\ Len(b.env.modules) = Len(modules)
      /\ \A i \in 1 .. Len(modules) : i # this => b.env.modules[i] = modules[i]
      /\ b.env.modules[this] = x
  <2> DEFINE after == Updated(modules, this, x)
  <2>1. IsSeq(modules) /\ this \in 1 .. Len(modules)
    BY <1>2
  <2>2. /\ IsSeq(after) /\ Len(after) = Len(modules)
        /\ \A i \in 1 .. Len(modules) : i # this => after[i] = modules[i]
        /\ after[this] = x
    BY <2>1, UpdateFacts
  <2>3. b.env.modules = after
    BY <1>6
  <2> HIDE DEF after
  <2> QED BY <2>2, <2>3
<1>8. Module(b) = x
  BY <1>2, <1>7 DEF Module, This
<1>9. Environment(b.env)
  <2>1. \A v \in Vectors : IsSeq(b.env[v])
    BY <1>1, <1>6, <1>7, EnvironmentVectors DEF Vectors
  <2>2. \A i \in 1 .. Len(modules) : IsModule(modules[i])
    BY <1>1 DEF Environment, modules
  <2>3. \A i \in 1 .. Len(b.env.modules) : IsModule(b.env.modules[i])
    BY <1>4, <1>7, <2>2
  <2>4. \A i \in 1 .. Len(b.env.tables) : IsSeq(b.env.tables[i].func_indexes)
    BY <1>1, <1>6 DEF Environment
  <2> QED BY <1>6, <2>1, <2>3, <2>4 DEF Environment
<1>10. Kept(b.env, base)
  <2>1. \A i \in 1 .. Len(base.modules) : b.env.modules[i] = modules[i]
    BY <1>1, <1>2, <1>7
  <2>2. \A v \in Vectors : Len(b.env[v]) = Len(a.env[v])
    BY <1>6, <1>7 DEF Vectors, modules
  <2>3. \A v \in Vectors : Len(base[v]) <= Len(b.env[v])
    BY <1>1, <2>2 DEF Kept
  <2>4. \A v \in {"sigs", "funcs", "globals", "istream"} :
           \A i \in 1 .. Len(base[v]) : b.env[v][i] = base[v][i]
    BY <1>1, <1>6 DEF Kept
  <2>5. \A i \in 1 .. Len(base.modules) :
           \/ b.env.modules[i] = base.modules[i]
           \/ b.env.modules[i].is_host /\ base.modules[i].is_host
    BY <1>1, <2>1 DEF Kept, modules
  <2>6. /\ \A i \in 1 .. Len(base.tables) :
              Len(b.env.tables[i].func_indexes) = Len(base.tables[i].func_indexes)
        /\ \A i \in 1 .. Len(base.memories) :
              b.env.memories[i].page_limits.max = base.memories[i].page_limits.max
        /\ b.env.module_bindings = base.module_bindings
        /\ b.env.registered_module_bindings = base.registered_module_bindings
    BY <1>1, <1>6 DEF Kept
  <2> QED BY <2>3, <2>4, <2>5, <2>6 DEF Kept
<1>11. ModuleWhole(b.env, x)
  BY <1>1, <1>3, <1>4, <1>6 DEF ModuleWhole, ExportExists, IndexOf, end
<1>12. Mapped(a.func_index_mapping, file, "func", n)
       /\ Mapped(a.global_index_mapping, file, "global", n)
  BY DEF Read
<1>13. Grows(a, b)
  <2>1. Longer(a.env, b.env)
    BY <1>1, <1>6, <1>7, Lengths DEF Longer, modules
  <2>2. ModuleGrows(Module(a), Module(b))
    BY <1>1, <1>2, <1>4, <1>8, SeqFacts DEF ModuleGrows, IsModule
  <2>3. /\ Prefix(a.func_index_mapping, b.func_index_mapping)
        /\ Prefix(a.global_index_mapping, b.global_index_mapping)
    BY <1>6, <1>12, SeqFacts DEF Prefix, Mapped
  <2> QED BY <1>6, <1>9, <2>1, <2>2, <2>3 DEF Grows
<1>14. ASSUME NEW m \in 1 .. n - 1 PROVE ItemRead(b, file, m, base)
  <2>1. ItemRead(a, file, m, base)
    BY DEF Read
  <2>2. /\ IsSeq(a.func_index_mapping) /\ IsSeq(a.global_index_mapping)
        /\ IsSeq(b.func_index_mapping) /\ IsSeq(b.global_index_mapping)
    BY <1>6, <1>12 DEF Mapped
  <2>3. IsModule(Module(a)) /\ IsModule(Module(b))
    BY <1>2, <1>4, <1>8
  <2> QED BY <1>1, <1>6, <1>13, <2>1, <2>2, <2>3, ItemStays
<1>15. FuncPlaces(b, file, n, base)
  <2>1. FuncPlaces(a, file, n, base)
    BY DEF Read
  <2> QED BY <1>6, <2>1 DEF FuncPlaces
<1>16. FuncsWhole(b, file, n, base)
  <2>1. FuncsWhole(a, file, n, base)
    BY DEF Read
  <2>2. \A index : Bodiless(a, file, n, index) => Bodiless(b, file, n, index)
    BY <1>6 DEF Bodiless, TranslateFuncIndexToEnv
  <2> QED BY <1>6, <2>1, <2>2 DEF FuncsWhole
<1>17. Len(b.env.modules) = Len(base.modules) + 1 /\ ~Module(b).is_host
  BY <1>1, <1>4, <1>7, <1>8
<1>18. /\ Mapped(b.func_index_mapping, file, "func", n)
       /\ Mapped(b.global_index_mapping, file, "global", n)
  BY <1>6, <1>12
<1> QED BY <1>1, <1>6, <1>8, <1>9, <1>10, <1>11, <1>14, <1>15, <1>16, <1>17, <1>18
        DEF Read
-----------------------------------------------------------------------------
(* The inductive invariant *)

(* The environment that a load works on, as it was when the load began.     *)
Base == IF OwnEnvironment THEN InitEnvironment ELSE env

LoadMarked ==
    phase \in {"reading", "failed", "loaded"} => mark = Mark(Base)

(* After event - 1 callbacks.  Only end_module writes.                      *)
LoadReading ==
    phase = "reading" =>
        /\ load.ok /\ event \in 1 .. Len(File) + 1
        /\ Read(load, File, event, Base)
        /\ event <= Len(File) => Unwritten(load.env, Base)
        /\ event > Len(File) => Last(File).on = "end_module"

LoadFailing == phase = "failed" => Begun(load.env, Base)

LoadLoaded ==
    phase = "loaded" =>
        /\ event = Len(File) + 1 /\ Last(File).on = "end_module"
        /\ Read(load, File, event, Base)

LoadInv ==
    /\ ScriptGiven /\ Whole(env)
    /\ LoadMarked /\ LoadReading /\ LoadFailing /\ LoadLoaded

LEMMA BaseWhole ==
    ASSUME Whole(env)
    PROVE  Whole(Base) /\ Environment(Base)
<1>1. Whole(Base)
  BY InitWhole DEF Base
<1> QED BY <1>1 DEF Whole

LEMMA LoadStays ==
    ASSUME UNCHANGED <<script, commands, at, env>>
    PROVE  /\ File' = File /\ Base' = Base /\ ScriptGiven' = ScriptGiven
           /\ OwnEnvironment' = OwnEnvironment /\ Command' = Command
BY DEF File, Base, OwnEnvironment, Command, ScriptGiven

(* Between loads only the environment matters.                              *)
LEMMA NoLoadInv ==
    ASSUME ScriptGiven', Whole(env)', phase' \notin {"reading", "failed", "loaded"}
    PROVE  LoadInv'
BY DEF LoadInv, LoadMarked, LoadReading, LoadFailing, LoadLoaded

LEMMA InitInv == ASSUME Init PROVE LoadInv
<1>1. ScriptGiven
  <2>1. script = Empty
    BY DEF Init, Empty
  <2>2. MaxCommands >= 0
    BY FilesAssumption
  <2> QED BY <2>1, <2>2, EmptyFacts DEF ScriptGiven
<1>2. Whole(env)
  BY InitWhole DEF Init
<1> QED BY <1>1, <1>2 DEF Init, LoadInv, LoadMarked, LoadReading, LoadFailing, LoadLoaded

LEMMA AddCommandInv ==
    ASSUME LoadInv, Len(script) < MaxCommands,
           NEW c \in Commands[Len(script) + 1], AddCommand(c)
    PROVE  LoadInv'
<1>1. /\ script' = Append(script, c) /\ env' = env /\ phase' = "writing"
      /\ IsSeq(script) /\ Len(script) <= MaxCommands
      /\ \A i \in 1 .. Len(script) : script[i] \in Commands[i]
  BY DEF AddCommand, LoadInv, ScriptGiven
<1>2. /\ IsSeq(Append(script, c)) /\ Len(Append(script, c)) = Len(script) + 1
      /\ \A i \in 1 .. Len(script) : Append(script, c)[i] = script[i]
      /\ Append(script, c)[Len(script) + 1] = c
  BY <1>1, AppendFacts
<1>3. MaxCommands \in Nat /\ Len(script) \in Nat
  BY <1>1, SeqFacts, FilesAssumption
<1>4. ScriptGiven'
  <2>1. IsSeq(script') /\ Len(script') = Len(script) + 1
    BY <1>1, <1>2
  <2>2. \A i \in 1 .. Len(script) + 1 : script'[i] \in Commands[i]
    <3>1. \A i \in 1 .. Len(script) + 1 : i \in 1 .. Len(script) \/ i = Len(script) + 1
      BY <1>3
    <3> QED BY <1>1, <1>2, <3>1
  <2> QED BY <1>3, <2>1, <2>2 DEF ScriptGiven
<1>5. Whole(env)'
  BY <1>1 DEF LoadInv
<1> QED BY <1>1, <1>4, <1>5, NoLoadInv

LEMMA ReadScriptInv == ASSUME LoadInv, ReadScript PROVE LoadInv'
<1>1. /\ UNCHANGED <<script, env>> /\ phase' \in {"running", "unreadable"}
  BY DEF ReadScript
<1>2. ScriptGiven' /\ Whole(env)'
  BY <1>1 DEF LoadInv, ScriptGiven
<1> QED BY <1>1, <1>2, NoLoadInv

LEMMA BeginLoadInv == ASSUME LoadInv, BeginLoad PROVE LoadInv'
<1>1. /\ UNCHANGED <<script, commands, at, env>>
      /\ phase' = "reading" /\ load' = NewLoad(Base) /\ mark' = Mark(Base)
      /\ event' = 1
  BY DEF BeginLoad, Base
<1>2. File' = File /\ Base' = Base /\ ScriptGiven' /\ Whole(env)'
  BY <1>1, LoadStays DEF LoadInv
<1>3. FileRead(File) /\ Len(File) \in Nat /\ Len(File) >= 1
  BY FileIsRead, FileFacts DEF LoadInv
<1>4. Environment(Base)
  BY BaseWhole DEF LoadInv
<1>5. /\ Read(load', File, 1, Base) /\ Unwritten(load'.env, Base) /\ load'.ok
  BY <1>1, <1>3, <1>4, NewLoadRead
<1>6. LoadReading'
  BY <1>1, <1>2, <1>3, <1>5 DEF LoadReading
<1> QED BY <1>1, <1>2, <1>6 DEF LoadInv, LoadMarked, LoadFailing, LoadLoaded

LEMMA FoundModule ==
    ASSUME LoadInv, phase = "reading", NEW e, NEW found \in Found(e)
    PROVE  found = -1 \/ IndexOf(Base.modules, found)
<1>1. load.env.registered_module_bindings = Base.registered_module_bindings
  BY DEF LoadInv, LoadReading, Read, Kept
<1>2. \A b \in Base.registered_module_bindings : IndexOf(Base.modules, b.index)
  BY BaseWhole DEF LoadInv, Whole
<1> QED BY <1>1, <1>2 DEF Found, Bound, kInvalidIndex

LEMMA ReadCallbackInv == ASSUME LoadInv, ReadCallback PROVE LoadInv'
<1> DEFINE n == event
           e == File[n]
           base == Base
<1>1. PICK found \in Found(e) :
           LET result == Callback(load, e, found)
           IN  /\ load' = result
               /\ phase' = IF result.aborted THEN "aborted"
                           ELSE IF result.ok THEN "reading" ELSE "failed"
  BY DEF ReadCallback
<1>2. /\ UNCHANGED <<script, commands, at, env, mark>>
      /\ phase = "reading" /\ n <= Len(File) /\ event' = n + 1
  BY DEF ReadCallback
<1>3. File' = File /\ Base' = base /\ ScriptGiven' /\ Whole(env)'
  BY <1>2, LoadStays DEF LoadInv
<1>4. FileRead(File) /\ Len(File) \in Nat /\ Whole(base)
  BY FileIsRead, FileFacts, BaseWhole DEF LoadInv
<1>5. /\ Read(load, File, n, base) /\ Unwritten(load.env, base) /\ load.ok
      /\ n \in 1 .. Len(File) /\ mark = Mark(base)
  BY <1>2, <1>4 DEF LoadInv, LoadReading, LoadMarked
<1>6. found = -1 \/ IndexOf(base.modules, found)
  BY <1>2, FoundModule
<1>7. /\ load' = Callback(load, e, found)
      /\ phase' = IF load'.aborted THEN "aborted"
                  ELSE IF load'.ok THEN "reading" ELSE "failed"
  BY <1>1
<1>8. LoadMarked'
  BY <1>2, <1>3, <1>5 DEF LoadMarked
<1>9. n = Len(File) <=> e.on \in {"end_module", "error"}
  BY <1>4, <1>5, FileFacts DEF FileRead, Ended
<1> HIDE DEF base, n
<1>10. CASE e.on = "end_module"
  <2>1. load' = EndModule(load)
    BY <1>7, <1>10 DEF Callback
  <2>2. Read(load', File, n + 1, base)
    BY <1>4, <1>5, <1>10, <2>1, EndModuleWorks
  <2>3. load'.ok
    BY <1>5, <2>1 DEF EndModule, Read, LoadFields
  <2>4. n = Len(File) /\ Last(File).on = "end_module"
    BY <1>9, <1>10 DEF Last
  <2>5. n + 1 \in 1 .. Len(File) + 1 /\ ~(n + 1 <= Len(File))
    BY <1>4, <1>5, <2>4
  <2>6. LoadReading'
    BY <1>2, <1>3, <2>2, <2>3, <2>4, <2>5 DEF LoadReading, n
  <2>7. phase' \in {"reading", "aborted"}
    BY <1>7, <2>3
  <2> QED BY <1>3, <1>8, <2>6, <2>7 DEF LoadInv, LoadFailing, LoadLoaded
<1>11. CASE e.on # "end_module"
  <2>1. Works(load', File, n, base)
    BY <1>4, <1>5, <1>6, <1>7, <1>11, CallbackWorks
  <2>2. Begun(load'.env, base)
    BY <2>1 DEF Works
  <2>3. CASE phase' = "reading"
    <3>1. load'.ok /\ ~load'.aborted
      BY <1>7, <2>3
    <3>2. Read(load', File, n + 1, base)
      BY <2>1, <3>1 DEF Works
    <3>3. e.on # "error"
      <4>1. e.on = "error" => load' = Error(load)
        BY <1>7 DEF Callback
      <4>2. ~Error(load).ok
        BY <1>5 DEF Error, Read, LoadFields
      <4> QED BY <3>1, <4>1, <4>2
    <3>4. n + 1 \in 1 .. Len(File) + 1 /\ n + 1 <= Len(File)
      BY <1>4, <1>5, <1>9, <1>11, <3>3
    <3>5. LoadReading'
      BY <1>2, <1>3, <2>2, <3>1, <3>2, <3>4 DEF LoadReading, Begun, n
    <3> QED BY <1>3, <1>8, <2>3, <3>5 DEF LoadInv, LoadFailing, LoadLoaded
  <2>4. CASE phase' = "failed"
    BY <1>3, <1>8, <2>2, <2>4 DEF LoadInv, LoadReading, LoadFailing, LoadLoaded
  <2>5. CASE phase' = "aborted"
    BY <1>3, <2>5, NoLoadInv
  <2> QED BY <1>7, <2>3, <2>4, <2>5
<1> QED BY <1>10, <1>11
LEMMA ReadErrorInv == ASSUME LoadInv, ReadError PROVE LoadInv'
<1>1. /\ UNCHANGED <<script, commands, at, env, load, event, mark>>
      /\ phase = "reading" /\ event <= Len(File) /\ phase' = "failed"
  BY DEF ReadError
<1>2. File' = File /\ Base' = Base /\ ScriptGiven' /\ Whole(env)'
  BY <1>1, LoadStays DEF LoadInv
<1>3. Read(load, File, event, Base) /\ Unwritten(load.env, Base) /\ mark = Mark(Base)
  BY <1>1 DEF LoadInv, LoadReading, LoadMarked
<1>4. Begun(load.env, Base)
  BY <1>3 DEF Begun, Read
<1> QED BY <1>1, <1>2, <1>3, <1>4
        DEF LoadInv, LoadMarked, LoadReading, LoadFailing, LoadLoaded

LEMMA EndLoadInv == ASSUME LoadInv, EndLoad PROVE LoadInv'
<1>1. /\ UNCHANGED <<script, commands, at, env, event, mark>>
      /\ phase = "reading" /\ event > Len(File) /\ phase' = "loaded"
  BY DEF EndLoad
<1>2. File' = File /\ Base' = Base /\ ScriptGiven' /\ Whole(env)'
  BY <1>1, LoadStays DEF LoadInv
<1>3. /\ Read(load, File, event, Base) /\ Last(File).on = "end_module"
      /\ event \in 1 .. Len(File) + 1 /\ mark = Mark(Base)
  BY <1>1 DEF LoadInv, LoadReading, LoadMarked
<1>4. FileRead(File) /\ Len(File) \in Nat
  BY FileIsRead, FileFacts DEF LoadInv
<1>5. load' = LoadEnded(load, Len(Base.istream))
  BY <1>3 DEF EndLoad, LoadEnded, Mark
<1>6. Read(load', File, event, Base)
  BY <1>3, <1>4, <1>5, EndLoadRead
<1>7. event = Len(File) + 1
  BY <1>1, <1>3, <1>4
<1> QED BY <1>1, <1>2, <1>3, <1>6, <1>7
        DEF LoadInv, LoadMarked, LoadReading, LoadFailing, LoadLoaded

(* A module that has loaded.                                                *)
LEMMA LoadedFacts ==
    ASSUME LoadInv, phase = "loaded"
    PROVE  /\ Whole(Base) /\ Environment(Base) /\ Whole(load.env)
           /\ Environment(load.env) /\ Kept(load.env, Base) /\ mark = Mark(Base)
           /\ Len(load.env.modules) = Len(Base.modules) + 1
           /\ Len(load.env.modules) >= 1
<1>1. Read(load, File, event, Base) /\ mark = Mark(Base)
  BY DEF LoadInv, LoadLoaded, LoadMarked
<1>2. Whole(Base) /\ Environment(Base)
  BY BaseWhole DEF LoadInv
<1>3. Whole(load.env)
  BY <1>1, <1>2, ReadWhole
<1> QED BY <1>1, <1>2, <1>3 DEF Read, Whole

LEMMA LoadedHasBodies ==
    ASSUME LoadInv, phase = "loaded", HasBodies(env), BodiesRead(File)
    PROVE  HasBodies(load.env)
<1> DEFINE e == load.env
           base == Base
           file == File
           n == Len(file) + 1
<1>1. HasBodies(base)
  BY InitWhole DEF Base
<1>2. /\ Environment(e) /\ Environment(base) /\ Kept(e, base)
      /\ FuncsWhole(load, file, n, base)
  BY LoadedFacts DEF LoadInv, LoadLoaded, Read
<1>3. Last(file).on = "end_module" /\ FileRead(file) /\ BodiesRead(file)
  BY FileIsRead DEF LoadInv, LoadLoaded
<1>4. DOMAIN file = 1 .. Len(file) /\ Len(file) \in Nat
  BY <1>3, FileFacts
<1>5. \A index : ~Bodiless(load, file, n, index)
  <2>1. n - 1 = Len(file)
    BY <1>4
  <2> HIDE DEF n
  <2>2. ASSUME NEW m \in 1 .. n - 1, file[m].on = "function"
        PROVE  \E b \in 1 .. n - 1 :
                   file[b].on = "body" /\ file[b].func = ItemIndex(file, "func", m)
    BY <1>3, <1>4, <2>1, <2>2 DEF BodiesRead
  <2> QED BY <2>2 DEF Bodiless
<1>6. /\ Len(base.funcs) \in Nat /\ Len(e.funcs) \in Nat
      /\ Len(base.istream) \in Nat /\ Len(e.istream) \in Nat
      /\ Len(base.istream) <= Len(e.istream)
  BY <1>2, Lengths DEF Kept, Vectors
<1> SUFFICES ASSUME NEW k \in 1 .. Len(e.funcs)
             PROVE  e.funcs[k].is_host \/ IndexOf(e.istream, e.funcs[k].offset)
  BY DEF HasBodies
<1> HIDE DEF e, base, file, n
<1>7. CASE k \in 1 .. Len(base.funcs)
  <2>1. e.funcs[k] = base.funcs[k]
    BY <1>2, <1>7 DEF Kept
  <2>2. base.funcs[k].is_host \/ IndexOf(base.istream, base.funcs[k].offset)
    BY <1>1, <1>7 DEF HasBodies
  <2> QED BY <1>6, <2>1, <2>2, IndexStays
<1>8. CASE k \in Len(base.funcs) + 1 .. Len(e.funcs)
  BY <1>2, <1>5, <1>8 DEF FuncsWhole, e
<1> QED BY <1>6, <1>7, <1>8

(* What a command leaves.                                                   *)
Left(e) == Whole(e) /\ (HasBodies(env) /\ BodiesRead(File) => HasBodies(e))

LEMMA BodiesOfBase ==
    ASSUME HasBodies(env)
    PROVE  HasBodies(Base)
BY InitWhole DEF Base

LEMMA LoadFailedLeft == ASSUME LoadInv, LoadFailed PROVE Left(env')
<1> DEFINE r == ResetToMarkPoint(load.env, mark)
<1>1. phase = "failed" /\ env' = AfterLoad(r)
  BY DEF LoadFailed
<1>2. Begun(load.env, Base) /\ mark = Mark(Base) /\ Whole(Base) /\ Whole(env)
  BY <1>1, BaseWhole DEF LoadInv, LoadFailing, LoadMarked
<1>3. Whole(r) /\ (HasBodies(Base) => HasBodies(r))
  <2>1. r = ResetToMarkPoint(load.env, Mark(Base))
    BY <1>2
  <2> HIDE DEF r
  <2> QED BY <1>2, <2>1, ResetWhole DEF Begun
<1>4. env' \in {env, r}
  BY <1>1 DEF AfterLoad
<1> HIDE DEF r
<1> QED BY <1>2, <1>3, <1>4, BodiesOfBase DEF Left

LEMMA OnModuleCommandLeft == ASSUME LoadInv, OnModuleCommand PROVE Left(env')
<1> DEFINE started == RunStartFunction(load.env, Module(load))
           e == started.env
           r == ResetToMarkPoint(e, mark)
<1>1. phase = "loaded" /\ env' \in {r, Named(e)}
  BY DEF OnModuleCommand
<1>2. /\ Whole(Base) /\ Environment(Base) /\ Whole(load.env)
      /\ Environment(load.env) /\ Kept(load.env, Base) /\ mark = Mark(Base)
      /\ Len(load.env.modules) >= 1
  BY <1>1, LoadedFacts
<1>3. HasBodies(env) /\ BodiesRead(File) => HasBodies(load.env)
  BY <1>1, LoadedHasBodies
<1>4. OnlyGrown(load.env, e)
  BY <1>2, NotGrown, FunctionRun DEF RunStartFunction, Ran
<1>5. r = ResetToMarkPoint(e, Mark(Base))
  BY <1>2
<1> HIDE DEF e, r
<1>6. /\ Environment(e) /\ Whole(e) /\ Kept(e, Base)
      /\ HasBodies(load.env) => HasBodies(e)
  BY <1>2, <1>4, GrownFacts
<1>7. Whole(r) /\ (HasBodies(Base) => HasBodies(r))
  BY <1>2, <1>5, <1>6, ResetWhole
<1>8. Whole(Named(e)) /\ (HasBodies(e) => HasBodies(Named(e)))
  BY <1>6, NamedFacts DEF Whole
<1> QED BY <1>1, <1>3, <1>6, <1>7, <1>8, BodiesOfBase DEF Left

LEMMA OnAssertNotLoadedLeft == ASSUME LoadInv, OnAssertNotLoaded PROVE Left(env')
<1> DEFINE r == ResetToMarkPoint(load.env, mark)
<1>1. phase = "loaded" /\ env' \in {env, r}
  BY DEF OnAssertNotLoaded, AfterLoad
<1>2. /\ Whole(Base) /\ Environment(load.env) /\ Kept(load.env, Base)
      /\ mark = Mark(Base) /\ Whole(env)
  BY <1>1, LoadedFacts DEF LoadInv
<1>3. r = ResetToMarkPoint(load.env, Mark(Base))
  BY <1>2
<1> HIDE DEF r
<1>4. Whole(r) /\ (HasBodies(Base) => HasBodies(r))
  BY <1>2, <1>3, ResetWhole
<1> QED BY <1>1, <1>2, <1>4, BodiesOfBase DEF Left

LEMMA OnAssertUninstantiableLeft ==
    ASSUME LoadInv, OnAssertUninstantiableCommand
    PROVE  Left(env')
<1> DEFINE started == RunStartFunction(load.env, Module(load))
           e == started.env
           r == ResetToMarkPoint(e, mark)
<1>1. phase = "loaded" /\ env' = r
  BY DEF OnAssertUninstantiableCommand
<1>2. /\ Whole(Base) /\ Environment(Base) /\ Environment(load.env)
      /\ Kept(load.env, Base) /\ mark = Mark(Base)
  BY <1>1, LoadedFacts
<1>3. OnlyGrown(load.env, e)
  BY <1>2, NotGrown, FunctionRun DEF RunStartFunction, Ran
<1>4. r = ResetToMarkPoint(e, Mark(Base))
  BY <1>2
<1> HIDE DEF e, r
<1>5. Environment(e) /\ Kept(e, Base)
  BY <1>2, <1>3, GrownFacts
<1>6. Whole(r) /\ (HasBodies(Base) => HasBodies(r))
  BY <1>2, <1>4, <1>5, ResetWhole
<1> QED BY <1>1, <1>6, BodiesOfBase DEF Left

LEMMA OnRegisterLeft == ASSUME LoadInv, OnRegisterCommand PROVE Left(env')
<1>1. Whole(env)
  BY DEF LoadInv
<1>2. CASE env' = env
  BY <1>1, <1>2 DEF Left
<1>3. CASE env' # env
  <2> DEFINE found == IF Command.name = <<>> THEN {GetLastModuleIndex(env)}
                      ELSE Bound(env.module_bindings, Command.name)
  <2>1. PICK index \in found : env' = Registered(env, Command.as, index)
    BY <1>3 DEF OnRegisterCommand, Registered
  <2>2. IndexOf(env.modules, index)
    <3>1. Len(env.modules) \in Nat /\ Len(env.modules) >= 1
      BY <1>1, Lengths DEF Whole
    <3>2. \A b \in env.module_bindings : IndexOf(env.modules, b.index)
      BY <1>1 DEF Whole
    <3> QED BY <3>1, <3>2 DEF GetLastModuleIndex, Bound, IndexOf
  <2>3. Whole(env') /\ (HasBodies(env) => HasBodies(env'))
    BY <1>1, <2>1, <2>2, RegisteredFacts
  <2> QED BY <2>3 DEF Left
<1> QED BY <1>2, <1>3

LEMMA ActionRun ==
    ASSUME Environment(env), NEW action, NEW m
    PROVE  OnlyGrown(env, RunAction(action, m).env)
<1> DEFINE module == env.modules[m + 1]
           found == GetExport(module, action.field)
           name == action.field
           args == action.args
<1>1. RunExportByName(env, module, name, args).env
          \in {env, RunFunction(env, found[1].index, args).env}
  BY DEF RunExportByName, Ran
<1>2. GetGlobalExportByName(env, module, name).env = env
  BY DEF GetGlobalExportByName, Ran
<1>3. RunAction(action, m).env
          \in {RunExportByName(env, module, name, args).env,
               GetGlobalExportByName(env, module, name).env}
  BY DEF RunAction
<1> HIDE DEF found, module, name, args
<1> QED BY <1>1, <1>2, <1>3, NotGrown, FunctionRun

LEMMA OnActionGrows ==
    ASSUME LoadInv, OnAction
    PROVE  OnlyGrown(env, env')
<1>1. PICK m \in ActionModules(Command.action) :
          env' = RunAction(Command.action, m).env
  BY DEF OnAction
<1>2. Environment(env)
  BY DEF LoadInv, Whole
<1> QED BY <1>1, <1>2, ActionRun

LEMMA OnActionLeft == ASSUME LoadInv, OnAction PROVE Left(env')
<1>1. Environment(env) /\ Whole(env)
  BY DEF LoadInv, Whole
<1> QED BY <1>1, OnActionGrows, GrownFacts DEF Left
-----------------------------------------------------------------------------
(* Every step keeps the invariant *)

(* A step that ends a load, or is none.                                     *)
LEMMA LeftInv ==
    ASSUME LoadInv, Left(env'), UNCHANGED script,
           phase' \notin {"reading", "failed", "loaded"}
    PROVE  LoadInv'
<1>1. ScriptGiven' /\ Whole(env)'
  BY DEF LoadInv, ScriptGiven, Left
<1> QED BY <1>1, NoLoadInv

LEMMA NotLoading ==
    ASSUME LoadInv
    PROVE  Left(env)
BY DEF LoadInv, Left

(* What a command and the steps of a load leave.                            *)
LEMMA StepLeft ==
    ASSUME LoadInv, [Next]_vars
    PROVE  Left(env') \/ env' = env
<1>1. CASE UNCHANGED vars
  BY <1>1 DEF vars
<1>2. CASE \E c \in Commands[Len(script) + 1] : AddCommand(c)
  BY <1>2 DEF AddCommand
<1>3. CASE ReadScript \/ BeginLoad \/ ReadCallback \/ ReadError \/ EndLoad
  BY <1>3 DEF ReadScript, BeginLoad, ReadCallback, ReadError, EndLoad
<1>4. CASE LoadFailed \/ OnModuleCommand
  BY <1>4, LoadFailedLeft, OnModuleCommandLeft
<1>5. CASE OnAssertNotLoaded \/ OnAssertUninstantiableCommand
  BY <1>5, OnAssertNotLoadedLeft, OnAssertUninstantiableLeft
<1>6. CASE \E ok \in BOOLEAN : ReadInvalidTextModule(ok)
  BY <1>6 DEF ReadInvalidTextModule
<1>7. CASE OnRegisterCommand \/ OnAction
  BY <1>7, OnRegisterLeft, OnActionLeft
<1>8. CASE OnActionOfUnknownModule
  BY <1>8 DEF OnActionOfUnknownModule
<1> QED BY <1>1, <1>2, <1>3, <1>4, <1>5, <1>6, <1>7, <1>8 DEF Next

LEMMA StepInv ==
    ASSUME LoadInv, [Next]_vars
    PROVE  LoadInv'
<1>1. CASE UNCHANGED vars
  <2>1. UNCHANGED <<script, commands, at, phase, env, load, event, mark>>
    BY <1>1 DEF vars
  <2>2. File' = File /\ Base' = Base /\ ScriptGiven' = ScriptGiven
    BY <2>1, LoadStays
  <2> QED BY <2>1, <2>2
          DEF LoadInv, LoadMarked, LoadReading, LoadFailing, LoadLoaded
<1>2. ASSUME Len(script) < MaxCommands, NEW c \in Commands[Len(script) + 1],
             AddCommand(c)
      PROVE  LoadInv'
  BY <1>2, AddCommandInv
<1>3. CASE ReadScript \/ BeginLoad \/ ReadCallback \/ ReadError \/ EndLoad
  BY <1>3, ReadScriptInv, BeginLoadInv, ReadCallbackInv, ReadErrorInv, EndLoadInv
<1>4. CASE \/ LoadFailed \/ OnModuleCommand \/ OnAssertNotLoaded
           \/ OnAssertUninstantiableCommand
  <2>1. UNCHANGED script /\ phase' = "running"
    BY <1>4 DEF LoadFailed, OnModuleCommand, OnAssertNotLoaded,
                OnAssertUninstantiableCommand, TallyCommand, Untallied
  <2>2. Left(env')
    BY <1>4, LoadFailedLeft, OnModuleCommandLeft, OnAssertNotLoadedLeft,
       OnAssertUninstantiableLeft
  <2> QED BY <2>1, <2>2, LeftInv
<1>5. CASE OnRegisterCommand \/ OnAction
  <2>1. UNCHANGED script /\ phase' = "running"
    BY <1>5 DEF OnRegisterCommand, OnAction, Running, TallyCommand, Untallied
  <2>2. Left(env')
    BY <1>5, OnRegisterLeft, OnActionLeft
  <2> QED BY <2>1, <2>2, LeftInv
<1>6. CASE (\E ok \in BOOLEAN : ReadInvalidTextModule(ok)) \/ OnActionOfUnknownModule
  <2>1. UNCHANGED <<script, env>> /\ phase' \in {"running", "aborted"}
    BY <1>6 DEF ReadInvalidTextModule, OnActionOfUnknownModule, Running,
                TallyCommand
  <2>2. Left(env')
    BY <2>1, NotLoading DEF Left
  <2> QED BY <2>1, <2>2, LeftInv
<1> QED BY <1>1, <1>2, <1>3, <1>4, <1>5, <1>6 DEF Next

(* In every state of every run of the commands of a script (RunCommands,    *)
(* ReadModule and the callbacks of BinaryReaderInterp), the environment is  *)
(* whole between loads, and during a load it is the one that was there      *)
(* before, with what has been read of the module pushed on the end of its   *)
(* vectors, and with nothing written yet in the tables and memories that    *)
(* were there: the invariant the other theorems rest on.                    *)
THEOREM LoadInvariant == Spec => []LoadInv
<1>1. Init => LoadInv
  BY InitInv
<1>2. LoadInv /\ [Next]_vars => LoadInv'
  BY StepInv
<1> QED BY <1>1, <1>2, PTL DEF Spec
-----------------------------------------------------------------------------
(* IndexesExist *)

(* What the binary reader does not make sure of.                            *)
BodiesPresent == \A name \in DOMAIN Files : BodiesRead(Files[name])

LEMMA FileHasBodies ==
    ASSUME ScriptGiven, BodiesPresent
    PROVE  BodiesRead(File)
<1> DEFINE file == <<[on |-> "error"]>>
<1>1. file[Len(file)].on # "end_module"
  OBVIOUS
<1>2. BodiesRead(file)
  BY <1>1 DEF BodiesRead, Last
<1> QED BY <1>2, FileGiven DEF BodiesPresent

LEMMA WholeIndexes ==
    ASSUME Whole(env), HasBodies(env)
    PROVE  IndexesExist
<1>1. /\ Environment(env)
      /\ \A v \in Vectors : Len(env[v]) \in Nat /\ DOMAIN env[v] = 1 .. Len(env[v])
  BY SeqFacts DEF Whole, Environment
<1>2. /\ Len(env.sigs) \in Nat /\ Len(env.istream) \in Nat /\ Len(env.tables) \in Nat
      /\ Len(env.memories) \in Nat /\ Len(env.funcs) \in Nat
      /\ Len(env.modules) \in Nat
      /\ DOMAIN env.funcs = 1 .. Len(env.funcs)
      /\ DOMAIN env.modules = 1 .. Len(env.modules)
  BY <1>1 DEF Vectors
<1>3. ASSUME NEW f \in Range(env.funcs)
      PROVE  /\ f.sig_index \in 0 .. Len(env.sigs) - 1
             /\ f.is_host \/ f.offset \in 0 .. Len(env.istream) - 1
  <2>1. PICK k \in 1 .. Len(env.funcs) : f = env.funcs[k]
    BY <1>2 DEF Range
  <2> QED BY <2>1 DEF Whole, HasBodies, IndexOf
<1>4. ASSUME NEW m \in Range(env.modules), ~m.is_host
      PROVE  /\ \A export \in Range(m.exports) : ExportExists(env, export)
             /\ m.table_index \in -1 .. Len(env.tables) - 1
             /\ m.memory_index \in -1 .. Len(env.memories) - 1
             /\ m.start_func_index \in -1 .. Len(env.funcs) - 1
             /\ m.istream_start <= m.istream_end
             /\ m.istream_end <= Len(env.istream)
  <2>1. PICK k \in 1 .. Len(env.modules) : m = env.modules[k]
    BY <1>2 DEF Range
  <2>2. ModuleWhole(env, m) /\ IsModule(m)
    BY <1>1, <1>4, <2>1 DEF Whole, Environment
  <2>3. DOMAIN m.exports = 1 .. Len(m.exports)
    BY <2>2, SeqFacts DEF IsModule
  <2>4. \A export \in Range(m.exports) : ExportExists(env, export)
    BY <2>2, <2>3 DEF Range, ModuleWhole
  <2>5. /\ m.table_index \in -1 .. Len(env.tables) - 1
        /\ m.memory_index \in -1 .. Len(env.memories) - 1
        /\ m.start_func_index \in -1 .. Len(env.funcs) - 1
    BY <1>2, <2>2, SMTT(30) DEF ModuleWhole, IndexOf
  <2> QED BY <2>2, <2>4, <2>5 DEF ModuleWhole
<1>5. \A b \in env.module_bindings \union env.registered_module_bindings :
         b.index < Len(env.modules)
  BY <1>2 DEF Whole, IndexOf
<1> QED BY <1>3, <1>4, <1>5 DEF IndexesExist

(* Whatever commands a script has and whichever of its modules fail to      *)
(* load, no index that the environment keeps between commands, in a         *)
(* function, a module, an export or a binding, is one of something that     *)
(* ResetToMarkPoint has taken away or that was never there.  It holds of    *)
(* files that have a body for every function they declare: the reader       *)
(* compares the two numbers in the code section and nowhere else.           *)
THEOREM IndexesAlwaysExist ==
    ASSUME BodiesPresent
    PROVE  Spec => []IndexesExist
<1> DEFINE Inv == LoadInv /\ HasBodies(env)
<1>1. Init => Inv
  BY InitInv, InitWhole DEF Init
<1>2. Inv /\ [Next]_vars => Inv'
  <2> SUFFICES ASSUME Inv, [Next]_vars PROVE Inv'
    OBVIOUS
  <2>1. BodiesRead(File)
    BY FileHasBodies DEF LoadInv
  <2>2. Left(env') \/ env' = env
    BY StepLeft
  <2>3. HasBodies(env)'
    BY <2>1, <2>2 DEF Left
  <2> QED BY <2>3, StepInv
<1>3. Inv => IndexesExist
  BY WholeIndexes DEF LoadInv
<1> QED BY <1>1, <1>2, <1>3, PTL DEF Spec

-----------------------------------------------------------------------------
(* FunctionsAsDeclared *)

LEMMA LoadedAsDeclared == ASSUME LoadInv PROVE FunctionsAsDeclared
<1> SUFFICES ASSUME phase = "loaded" PROVE FunctionsAsDeclared
  BY DEF FunctionsAsDeclared
<1> DEFINE file == File
           n == Len(file) + 1
           e == load.env
           funcs == Declarations(file, "func")
           mapping == load.func_index_mapping
           sig(index) == e.sigs[e.funcs[index + 1].sig_index + 1]
<1>1. /\ Read(load, file, n, Base) /\ Last(file).on = "end_module"
      /\ FileRead(file) /\ Environment(e)
  BY FileIsRead DEF LoadInv, LoadLoaded, Read
<1>2. Len(file) \in Nat /\ Len(file) >= 1 /\ DOMAIN file = 1 .. Len(file)
  BY <1>1, FileFacts
<1>3. DOMAIN file = 1 .. n - 1
  BY <1>2
<1>4. funcs \subseteq DOMAIN file
  BY DEF Declarations
<1>5. IsSeq(Module(load).exports)
  <2>1. Len(e.modules) >= 1
    BY LoadedFacts
  <2>2. Len(e.modules) \in 1 .. Len(e.modules)
    BY <1>1, <2>1, Lengths
  <2> QED BY <1>1, <2>2 DEF Environment, Module, This, IsModule
<1> HIDE DEF file
<1>6. Len(mapping) = Cardinality(funcs)
  <2>1. Mapped(mapping, file, "func", n)
    BY <1>1 DEF Read
  <2>2. CASE \A p \in 1 .. n - 1 : file[p].on # "function_count"
    BY <1>1, <2>1, <2>2, LastIndex DEF Mapped, Counters
  <2>3. ASSUME NEW p \in 1 .. n - 1, file[p].on = "function_count"
        PROVE  Len(mapping) = Cardinality(funcs)
    <3>1. Len(mapping) = ItemIndex(file, "func", p) + file[p].count
      BY <2>1, <2>3 DEF Mapped, Counters
    <3> QED BY <1>1, <1>3, <2>3, <3>1 DEF FileRead, Complete
  <2> QED BY <2>2, <2>3
<1>7. ASSUME NEW m \in funcs
      PROVE  sig(mapping[ItemIndex(file, "func", m) + 1]) = DeclaredSig(file, m)
  <2>1. ItemRead(load, file, m, Base)
    BY <1>1, <1>3, <1>4 DEF Read
  <2> QED BY <2>1 DEF ItemRead, FuncRead, TranslateFuncIndexToEnv
<1>8. ASSUME NEW x \in Range(file), x.on = "export", x.kind = "func"
      PROVE  \E export \in Range(Module(load).exports), m \in funcs :
                 /\ export.name = x.name
                 /\ ItemIndex(file, "func", m) = x.item
                 /\ sig(export.index) = DeclaredSig(file, m)
  <2>1. PICK k \in DOMAIN file : x = file[k]
    BY DEF Range
  <2>2. ItemRead(load, file, k, Base)
    BY <1>1, <1>3 DEF Read
  <2>3. PICK i \in 1 .. Len(Module(load).exports) :
           /\ Module(load).exports[i].name = x.name
           /\ Module(load).exports[i].index = mapping[x.item + 1]
    BY <1>8, <2>1, <2>2 DEF ItemRead, ExportRead, TranslateFuncIndexToEnv
  <2>4. Module(load).exports[i] \in Range(Module(load).exports)
    BY <1>5, SeqFacts DEF Range
  <2>5. PICK m \in funcs : ItemIndex(file, "func", m) = x.item
    BY <1>1, <1>8, <2>1 DEF FileRead, ArgumentsChecked, Declared
  <2> HIDE DEF funcs
  <2> QED BY <1>7, <2>3, <2>4, <2>5
<1> HIDE DEF e, funcs, mapping, n
<1> QED BY <1>6, <1>7, <1>8 DEF FunctionsAsDeclared, file, e, funcs, mapping

(* The function a loaded module exports has, in the environment, the        *)
(* signature that the module's type section gives it, and is the host's     *)
(* exactly when the module imports it, for every file and whatever was      *)
(* loaded before: TranslateFuncIndexToEnv and the indexes that the          *)
(* callbacks of BinaryReaderInterp compute with it are right.               *)
THEOREM FunctionsAreAsDeclared == Spec => []FunctionsAsDeclared
BY LoadInvariant, LoadedAsDeclared, PTL
-----------------------------------------------------------------------------
(* The refinement of ModuleStore *)

(* The store and its contents as the refinement maps them.                  *)
Stored == Structure(Live, Visible)
Held == Contents(Live, Visible)

(* Whatever a load has done to the environment in place, what other modules *)
(* see of its structure is what the runner's environment had when it began, *)
(* and until the segments are written the contents are as well.             *)
StoreView ==
    /\ Stored = Structure(env, Mark(env))
    /\ LoadPhase # "loaded" => Held = Contents(env, Mark(env))
    /\ LoadPhase \in {"idle", "loading", "loaded"}

LEMMA LoadingFacts ==
    ASSUME LoadInv, Loading
    PROVE  /\ Base = env /\ mark = Mark(env) /\ Environment(env)
           /\ Environment(load.env) /\ Kept(load.env, env)
           /\ LoadPhase # "loaded" => Unwritten(load.env, env)
<1>1. Base = env /\ mark = Mark(env) /\ phase \in {"reading", "failed", "loaded"}
  BY DEF Loading, Base, LoadInv, LoadMarked
<1>2. Environment(env) /\ File = File
  BY DEF LoadInv, Whole
<1>3. CASE phase = "reading"
  <2>1. Read(load, File, event, env) /\ event \in 1 .. Len(File) + 1
        /\ (event <= Len(File) => Unwritten(load.env, env))
    BY <1>1, <1>3 DEF LoadInv, LoadReading
  <2>2. Len(File) \in Nat
    BY FileIsRead, FileFacts DEF LoadInv
  <2>3. LoadPhase # "loaded" => event <= Len(File)
    BY <1>3, <2>1, <2>2 DEF LoadPhase
  <2> QED BY <1>1, <1>2, <2>1, <2>3 DEF Read
<1>4. CASE phase = "failed"
  BY <1>1, <1>2, <1>4 DEF LoadInv, LoadFailing, Begun
<1>5. CASE phase = "loaded"
  <2>1. Read(load, File, event, env)
    BY <1>1, <1>5 DEF LoadInv, LoadLoaded
  <2>2. LoadPhase = "loaded"
    BY <1>5 DEF LoadPhase
  <2> QED BY <1>1, <1>2, <2>1, <2>2 DEF Read
<1> QED BY <1>1, <1>3, <1>4, <1>5

LEMMA StoreViewed == LoadInv => StoreView
<1> SUFFICES ASSUME LoadInv PROVE StoreView
  OBVIOUS
<1>1. LoadPhase \in {"idle", "loading", "loaded"}
  BY DEF LoadPhase
<1>2. CASE ~Loading
  <2>1. Live = env /\ Visible = Mark(env)
    BY <1>2 DEF Live, Visible
  <2> QED BY <1>1, <2>1 DEF StoreView, Stored, Held
<1>3. CASE Loading
  <2> DEFINE e == load.env
  <2>1. Live = e /\ Visible = Mark(env)
    BY <1>3, LoadingFacts DEF Live, Visible
  <2>2. /\ Environment(env) /\ Environment(e) /\ Kept(e, env)
        /\ LoadPhase # "loaded" => Unwritten(e, env)
    BY <1>3, LoadingFacts
  <2> HIDE DEF e
  <2>3. Structure(e, Mark(env)) = Structure(env, Mark(env))
    BY <2>2, KeptAreItems, StructureKept
  <2>4. ASSUME LoadPhase # "loaded"
        PROVE  Contents(e, Mark(env)) = Contents(env, Mark(env))
    BY <2>2, <2>4, ContentsKept DEF Kept, Unwritten
  <2> QED BY <1>1, <2>1, <2>3, <2>4 DEF StoreView, Stored, Held
<1> QED BY <1>2, <1>3

LEMMA NextView == LoadInv /\ [Next]_vars => StoreView'
<1>1. LoadInv /\ [Next]_vars => LoadInv'
  BY StepInv
<1> QED BY <1>1, StoreViewed, PTL

(* A step that leaves the environment of the runner alone.                  *)
LEMMA EnvironmentStays ==
    ASSUME StoreView, StoreView', env' = env,
           \/ LoadPhase = "idle" /\ LoadPhase' # "loaded"
           \/ LoadPhase = "loading"
           \/ LoadPhase = "loaded" /\ LoadPhase' = "idle"
           \/ LoadPhase' = LoadPhase /\ Held' = Held
    PROVE  [Store!Next]_(Store!vars)
<1>1. Stored' = Stored
  BY DEF StoreView
<1>2. CASE LoadPhase = "idle" /\ LoadPhase' = "idle"
  BY <1>1, <1>2 DEF Store!Next, Store!Invoke, Stored
<1>3. CASE LoadPhase = "idle" /\ LoadPhase' = "loading"
  <2>1. Held' = Held
    BY <1>3 DEF StoreView
  <2> QED BY <1>1, <1>3, <2>1 DEF Store!Next, Store!Begin, Stored, Held
<1>4. CASE LoadPhase = "loading" /\ LoadPhase' = "idle"
  <2>1. Held' = Held
    BY <1>4 DEF StoreView
  <2> QED BY <1>1, <1>4, <2>1 DEF Store!Next, Store!Fail, Stored, Held
<1>5. CASE LoadPhase = "loading" /\ LoadPhase' = "loading"
  <2>1. Held' = Held
    BY <1>5 DEF StoreView
  <2> QED BY <1>1, <1>5, <2>1 DEF Store!vars, Stored, Held
<1>6. CASE LoadPhase = "loading" /\ LoadPhase' = "loaded"
  BY <1>1, <1>6 DEF Store!Next, Store!Finish, Stored
<1>7. CASE LoadPhase = "loaded" /\ LoadPhase' = "idle"
  BY <1>1, <1>7 DEF Store!Next, Store!Drop, Stored
<1>8. CASE LoadPhase' = LoadPhase /\ Held' = Held
  BY <1>1, <1>8 DEF Store!vars, Stored, Held
<1>9. LoadPhase' \in {"idle", "loading", "loaded"}
  BY DEF StoreView
<1> QED BY <1>2, <1>3, <1>4, <1>5, <1>6, <1>7, <1>8, <1>9

(* A step that changes it keeps what modules refer to, or adds one module.  *)
LEMMA EnvironmentChanges ==
    ASSUME StoreView, StoreView', LoadPhase' = "idle",
           \/ /\ Structure(env', Mark(env')) = Structure(env, Mark(env))
              /\ \/ LoadPhase \in {"idle", "loaded"}
                 \/ Contents(env', Mark(env')) = Contents(env, Mark(env))
           \/ /\ LoadPhase = "loaded" /\ Environment(env) /\ Environment(env')
              /\ KeptItems(env', env) /\ Len(env'.modules) = Len(env.modules) + 1
    PROVE  [Store!Next]_(Store!vars)
<1>1. Stored = Structure(env, Mark(env)) /\ Stored' = Structure(env', Mark(env'))
  BY DEF StoreView
<1>2. CASE Structure(env', Mark(env')) = Structure(env, Mark(env))
           /\ LoadPhase \in {"idle", "loaded"}
  BY <1>1, <1>2 DEF Store!Next, Store!Invoke, Store!Drop, Stored
<1>3. CASE Structure(env', Mark(env')) = Structure(env, Mark(env))
           /\ LoadPhase = "loading"
           /\ Contents(env', Mark(env')) = Contents(env, Mark(env))
  <2>1. Held' = Held
    BY <1>3 DEF StoreView
  <2> QED BY <1>1, <1>3, <2>1 DEF Store!Next, Store!Fail, Stored, Held
<1>4. CASE /\ LoadPhase = "loaded" /\ Environment(env) /\ Environment(env')
           /\ KeptItems(env', env) /\ Len(env'.modules) = Len(env.modules) + 1
  <2>1. /\ \A v \in StoreVectors : IsPrefix(Stored[v], Stored'[v])
        /\ Len(Stored'.modules) = Len(Stored.modules) + 1
    <3> DEFINE e == env'
               s == Structure(env, Mark(env))
               t == Structure(e, Mark(e))
    <3>1. /\ \A v \in StoreVectors : IsPrefix(s[v], t[v])
          /\ Len(t.modules) = Len(e.modules) /\ Len(s.modules) = Len(env.modules)
      BY <1>4, StructureGrows
    <3> QED BY <1>1, <1>4, <3>1
  <2>2. \A s, t : IsPrefix(s, t) => Store!IsPrefix(s, t)
    BY DEF IsPrefix, Store!IsPrefix
  <2>3. \A v \in StoreVectors : Store!IsPrefix(Stored[v], Stored'[v])
    BY <2>1, <2>2
  <2> QED BY <1>4, <2>1, <2>3
          DEF Store!Next, Store!Commit, Store!Grown, Stored, StoreVectors
<1> QED BY <1>2, <1>3, <1>4 DEF StoreView
-----------------------------------------------------------------------------
(* The steps of the runner as steps of the store *)

(* What the transitions of a load mean for the store.                       *)
LEMMA NotALoad ==
    ASSUME phase \notin {"reading", "failed", "loaded"}
    PROVE  LoadPhase = "idle"
BY DEF LoadPhase, Loading

LEMMA LoadStep ==
    ASSUME LoadInv, BeginLoad \/ ReadCallback \/ ReadError \/ EndLoad,
           StoreView, StoreView'
    PROVE  [Store!Next]_(Store!vars)
<1>1. Len(File) \in Nat /\ Len(File) >= 1
  BY FileIsRead, FileFacts DEF LoadInv
<1>2. UNCHANGED <<script, commands, at, env>>
  BY DEF BeginLoad, ReadCallback, ReadError, EndLoad
<1>3. File' = File /\ OwnEnvironment' = OwnEnvironment
  BY <1>2, LoadStays
<1>4. CASE OwnEnvironment
  <2>1. ~Loading /\ ~Loading'
    BY <1>3, <1>4 DEF Loading
  <2>2. LoadPhase = "idle" /\ LoadPhase' = "idle"
    BY <2>1 DEF LoadPhase
  <2> QED BY <1>2, <2>2, EnvironmentStays
<1>5. CASE BeginLoad /\ ~OwnEnvironment
  <2>1. phase = "running" /\ phase' = "reading" /\ event' = 1
    BY <1>5 DEF BeginLoad, Running
  <2>2. LoadPhase = "idle"
    BY <2>1, NotALoad
  <2>3. ~(event' > Len(File'))
    BY <1>1, <1>3, <2>1
  <2>4. LoadPhase' # "loaded"
    BY <2>1, <2>3 DEF LoadPhase
  <2> QED BY <1>2, <2>2, <2>4, EnvironmentStays
<1>6. CASE (ReadCallback \/ ReadError) /\ ~OwnEnvironment
  <2>1. phase = "reading" /\ event <= Len(File) /\ event \in Nat
    BY <1>6 DEF ReadCallback, ReadError, LoadInv, LoadReading
  <2>2. LoadPhase = "loading"
    BY <1>1, <1>6, <2>1 DEF LoadPhase, Loading
  <2> QED BY <1>2, <2>2, EnvironmentStays
<1>7. CASE EndLoad /\ ~OwnEnvironment
  <2>1. /\ phase = "reading" /\ event > Len(File) /\ phase' = "loaded"
        /\ mark' = mark /\ load' = LoadEnded(load, mark.istream)
    BY <1>7 DEF EndLoad, LoadEnded
  <2>2. Loading /\ Loading'
    BY <1>3, <1>7, <2>1 DEF Loading
  <2>3. LoadPhase = "loaded" /\ LoadPhase' = "loaded"
    BY <2>1, <2>2 DEF LoadPhase
  <2>4. DOMAIN load = LoadFields /\ DOMAIN load.env = Fields
    BY <2>1 DEF LoadInv, LoadReading, Read, Environment
  <2>5. /\ LoadEnded(load, mark.istream).env.tables = load.env.tables
        /\ LoadEnded(load, mark.istream).env.memories = load.env.memories
        /\ LoadEnded(load, mark.istream).env.globals = load.env.globals
    BY <2>4 DEF LoadEnded, LoadFields, Fields, Vectors
  <2>6. /\ Live = load.env /\ Live' = load'.env
        /\ Visible = mark /\ Visible' = mark
    BY <2>1, <2>2 DEF Live, Visible
  <2>7. Held' = Held
    BY <2>1, <2>5, <2>6 DEF Held, Contents
  <2> QED BY <1>2, <2>3, <2>7, EnvironmentStays
<1> QED BY <1>4, <1>5, <1>6, <1>7

(* What is erased was not there when the load began.                        *)
LEMMA ResetStructure ==
    ASSUME NEW base, Environment(base), NEW e, Environment(e), Kept(e, base),
           NEW r, r = ResetToMarkPoint(e, Mark(base))
    PROVE  /\ Structure(r, Mark(r)) = Structure(base, Mark(base))
           /\ Unwritten(e, base)
                  => Contents(r, Mark(r)) = Contents(base, Mark(base))
<1>1. /\ Environment(r)
      /\ \A v \in Vectors :
            /\ Len(r[v]) = Len(base[v])
            /\ \A i \in 1 .. Len(base[v]) : r[v][i] = e[v][i]
  BY ResetFacts
<1>2. Mark(r) = Mark(base)
  BY <1>1 DEF Mark, Vectors
<1>3. \A v \in Vectors : Len(base[v]) <= Len(r[v])
  BY <1>1, Lengths, SMTT(30) DEF Vectors
<1>4. /\ \A i \in 1 .. Len(base.modules) : r.modules[i] = e.modules[i]
      /\ \A i \in 1 .. Len(base.tables) : r.tables[i] = e.tables[i]
      /\ \A i \in 1 .. Len(base.memories) : r.memories[i] = e.memories[i]
      /\ \A i \in 1 .. Len(base.globals) : r.globals[i] = e.globals[i]
      /\ \A v \in {"sigs", "funcs", "globals", "istream"} :
            \A i \in 1 .. Len(base[v]) : r[v][i] = e[v][i]
  BY <1>1, SMTT(30) DEF Vectors
<1>5. KeptItems(r, base)
  <2>1. KeptItems(e, base)
    BY KeptAreItems
  <2>2. \A v \in {"sigs", "funcs", "globals", "istream"} :
           \A i \in 1 .. Len(base[v]) : r[v][i] = base[v][i]
    BY <1>4, <2>1 DEF KeptItems
  <2>3. \A i \in 1 .. Len(base.modules) :
           \/ r.modules[i].exports = base.modules[i].exports
              /\ r.modules[i].is_host = base.modules[i].is_host
           \/ r.modules[i].is_host /\ base.modules[i].is_host
    BY <1>4, <2>1 DEF KeptItems
  <2>4. \A i \in 1 .. Len(base.tables) :
           Len(r.tables[i].func_indexes) = Len(base.tables[i].func_indexes)
    BY <1>4, <2>1 DEF KeptItems
  <2>5. \A i \in 1 .. Len(base.memories) :
           r.memories[i].page_limits.max = base.memories[i].page_limits.max
    BY <1>4, <2>1 DEF KeptItems
  <2> QED BY <1>3, <2>2, <2>3, <2>4, <2>5 DEF KeptItems
<1>6. Structure(r, Mark(base)) = Structure(base, Mark(base))
  BY <1>1, <1>5, StructureKept
<1>7. ASSUME Unwritten(e, base)
      PROVE  Contents(r, Mark(base)) = Contents(base, Mark(base))
  <2>1. \A v \in {"tables", "memories", "globals"} :
           \A i \in 1 .. Len(base[v]) : r[v][i] = base[v][i]
    <3>1. \A i \in 1 .. Len(base.tables) : r.tables[i] = base.tables[i]
      BY <1>4, <1>7 DEF Unwritten
    <3>2. \A i \in 1 .. Len(base.memories) : r.memories[i] = base.memories[i]
      BY <1>4, <1>7 DEF Unwritten
    <3>3. \A i \in 1 .. Len(base.globals) : r.globals[i] = base.globals[i]
      BY <1>4 DEF Kept
    <3> QED BY <3>1, <3>2, <3>3
  <2> QED BY <1>1, <1>3, <2>1, ContentsKept
<1> QED BY <1>2, <1>6, <1>7

(* A command that ends a load by erasing it.                                *)
LEMMA LoadUndone ==
    ASSUME LoadInv, StoreView, StoreView', LoadPhase' = "idle", Loading,
           NEW e, Environment(e), Kept(e, env),
           LoadPhase = "loaded" \/ Unwritten(e, env),
           env' = ResetToMarkPoint(e, mark)
    PROVE  [Store!Next]_(Store!vars)
<1> DEFINE r == env'
<1>1. Environment(env) /\ r = ResetToMarkPoint(e, Mark(env))
  BY LoadingFacts
<1>2. /\ Structure(r, Mark(r)) = Structure(env, Mark(env))
      /\ Unwritten(e, env) => Contents(r, Mark(r)) = Contents(env, Mark(env))
  BY <1>1, ResetStructure
<1> QED BY <1>2, EnvironmentChanges

LEMMA LoadFailedStep ==
    ASSUME LoadInv, LoadFailed \/ OnAssertNotLoaded, StoreView, StoreView'
    PROVE  [Store!Next]_(Store!vars)
<1>1. /\ phase \in {"failed", "loaded"} /\ phase' = "running"
      /\ env' = AfterLoad(ResetToMarkPoint(load.env, mark))
  BY DEF LoadFailed, OnAssertNotLoaded
<1>2. LoadPhase' = "idle"
  <2>1. ~Loading'
    BY <1>1 DEF Loading
  <2> QED BY <2>1 DEF LoadPhase
<1>3. CASE OwnEnvironment
  <2>1. env' = env
    BY <1>1, <1>3 DEF AfterLoad
  <2>2. LoadPhase = "idle"
    BY <1>3 DEF LoadPhase, Loading
  <2> QED BY <1>2, <2>1, <2>2, EnvironmentStays
<1>4. CASE ~OwnEnvironment
  <2>1. Loading /\ env' = ResetToMarkPoint(load.env, mark)
    BY <1>1, <1>4 DEF AfterLoad, Loading
  <2>2. /\ Environment(load.env) /\ Kept(load.env, env)
        /\ LoadPhase = "loaded" \/ Unwritten(load.env, env)
    BY <2>1, LoadingFacts
  <2> QED BY <1>2, <2>1, <2>2, LoadUndone
<1> QED BY <1>3, <1>4

LEMMA StartedFacts ==
    ASSUME LoadInv, phase = "loaded", ~OwnEnvironment,
           NEW e, e = RunStartFunction(load.env, Module(load)).env
    PROVE  /\ Loading /\ LoadPhase = "loaded" /\ Environment(env)
           /\ Environment(e) /\ Kept(e, env)
           /\ Len(e.modules) = Len(env.modules) + 1
<1>1. Loading
  BY DEF Loading
<1>2. LoadPhase = "loaded"
  BY <1>1 DEF LoadPhase
<1>3. /\ Base = env /\ Environment(env) /\ Environment(load.env)
      /\ Kept(load.env, env)
  BY <1>1, LoadingFacts
<1>4. OnlyGrown(load.env, e)
  BY <1>3, NotGrown, FunctionRun DEF RunStartFunction, Ran
<1>5. /\ Environment(e) /\ Kept(e, env)
      /\ Len(e.modules) = Len(load.env.modules)
  BY <1>3, <1>4, GrownFacts DEF Vectors
<1>6. Len(load.env.modules) = Len(env.modules) + 1
  BY <1>3, LoadedFacts
<1> QED BY <1>1, <1>2, <1>3, <1>5, <1>6

LEMMA LoadedStep ==
    ASSUME LoadInv, OnModuleCommand \/ OnAssertUninstantiableCommand,
           StoreView, StoreView'
    PROVE  [Store!Next]_(Store!vars)
<1> DEFINE e == RunStartFunction(load.env, Module(load)).env
<1>1. /\ phase = "loaded" /\ phase' = "running" /\ ~OwnEnvironment
      /\ \/ env' = ResetToMarkPoint(e, mark)
         \/ env' = Named(e)
  BY DEF OnModuleCommand, OnAssertUninstantiableCommand, OwnEnvironment
<1>2. LoadPhase' = "idle"
  <2>1. ~Loading'
    BY <1>1 DEF Loading
  <2> QED BY <2>1 DEF LoadPhase
<1>3. e = RunStartFunction(load.env, Module(load)).env
  OBVIOUS
<1> HIDE DEF e
<1>4. /\ Loading /\ LoadPhase = "loaded" /\ Environment(env)
      /\ Environment(e) /\ Kept(e, env)
      /\ Len(e.modules) = Len(env.modules) + 1
  BY <1>1, <1>3, StartedFacts
<1>5. CASE env' = ResetToMarkPoint(e, mark)
  BY <1>2, <1>4, <1>5, LoadUndone
<1>6. CASE env' = Named(e)
  <2> DEFINE after == Named(e)
  <2>1. Len(e.modules) >= 1 /\ KeptItems(e, env)
    BY <1>4, Lengths, KeptAreItems
  <2>2. /\ Environment(after) /\ Len(after.modules) = Len(e.modules)
        /\ KeptItems(after, env)
    BY <1>4, <2>1, NamedFacts
  <2> HIDE DEF after
  <2>3. env' = after
    BY <1>6 DEF after
  <2> QED BY <1>2, <1>4, <2>2, <2>3, EnvironmentChanges
<1> QED BY <1>1, <1>5, <1>6
LEMMA KeptItself ==
    ASSUME NEW e, Environment(e)
    PROVE  Kept(e, e)
BY Lengths DEF Kept, Vectors

LEMMA CommandStep ==
    ASSUME LoadInv, OnRegisterCommand \/ OnAction, StoreView, StoreView'
    PROVE  [Store!Next]_(Store!vars)
<1>1. phase = "running" /\ phase' = "running" /\ Environment(env) /\ Whole(env)
  BY DEF OnRegisterCommand, OnAction, Running, LoadInv, Whole
<1>2. LoadPhase = "idle" /\ LoadPhase' = "idle"
  <2>1. ~Loading /\ ~Loading'
    BY <1>1 DEF Loading
  <2> QED BY <2>1 DEF LoadPhase
<1>3. CASE env' = env
  BY <1>2, <1>3, EnvironmentStays
<1>4. CASE OnAction
  <2> DEFINE after == env'
  <2>1. OnlyGrown(env, after)
    BY <1>4, OnActionGrows
  <2> HIDE DEF after
  <2>2. Environment(after) /\ Mark(after) = Mark(env) /\ Kept(after, env)
    BY <1>1, <2>1, GrownFacts, KeptItself
  <2>3. Structure(after, Mark(env)) = Structure(env, Mark(env))
    BY <1>1, <2>2, KeptAreItems, StructureKept
  <2> QED BY <1>2, <2>2, <2>3, EnvironmentChanges DEF after
<1>5. CASE OnRegisterCommand /\ env' # env
  <2> DEFINE found == IF Command.name = <<>> THEN {GetLastModuleIndex(env)}
                      ELSE Bound(env.module_bindings, Command.name)
  <2>1. PICK index \in found : env' = Registered(env, Command.as, index)
    BY <1>5 DEF OnRegisterCommand, Registered
  <2> DEFINE after == Registered(env, Command.as, index)
  <2>2. DOMAIN env = Fields
    BY <1>1 DEF Environment
  <2>3. /\ after.modules = env.modules /\ after.sigs = env.sigs
        /\ after.funcs = env.funcs /\ after.memories = env.memories
        /\ after.tables = env.tables /\ after.globals = env.globals
        /\ after.istream = env.istream
    BY <2>2 DEF Registered, Fields, Vectors
  <2> HIDE DEF after
  <2>4. /\ Mark(after) = Mark(env)
        /\ Structure(after, Mark(env)) = Structure(env, Mark(env))
    BY <2>3 DEF Mark, Structure
  <2>5. env' = after
    BY <2>1 DEF after
  <2> QED BY <1>2, <2>4, <2>5, EnvironmentChanges
<1> QED BY <1>3, <1>4, <1>5

LEMMA StoreStep ==
    ASSUME LoadInv, [Next]_vars, StoreView, StoreView'
    PROVE  [Store!Next]_(Store!vars)
<1>1. CASE UNCHANGED vars
  <2>1. UNCHANGED <<script, commands, at, phase, env, load, event, mark>>
    BY <1>1 DEF vars
  <2>2. LoadPhase' = LoadPhase /\ Held' = Held
    BY <2>1 DEF LoadPhase, Held, Loading, Live, Visible, File, OwnEnvironment, Command
  <2> QED BY <2>1, <2>2, EnvironmentStays
<1>2. CASE BeginLoad \/ ReadCallback \/ ReadError \/ EndLoad
  BY <1>2, LoadStep
<1>3. CASE LoadFailed \/ OnAssertNotLoaded
  BY <1>3, LoadFailedStep
<1>4. CASE OnModuleCommand \/ OnAssertUninstantiableCommand
  BY <1>4, LoadedStep
<1>5. CASE OnRegisterCommand \/ OnAction
  BY <1>5, CommandStep
<1>6. CASE \/ \E c \in Commands[Len(script) + 1] : AddCommand(c)
           \/ ReadScript \/ OnActionOfUnknownModule
           \/ \E ok \in BOOLEAN : ReadInvalidTextModule(ok)
  <2>1. /\ phase \in {"writing", "running"} /\ env' = env
        /\ phase' \in {"writing", "running", "unreadable", "aborted"}
    BY <1>6 DEF AddCommand, ReadScript, OnActionOfUnknownModule,
                ReadInvalidTextModule, Running
  <2>2. ~Loading /\ ~Loading'
    BY <2>1 DEF Loading
  <2>3. LoadPhase = "idle" /\ LoadPhase' = "idle"
    BY <2>2 DEF LoadPhase
  <2> QED BY <2>1, <2>3, EnvironmentStays
<1> QED BY <1>1, <1>2, <1>3, <1>4, <1>5, <1>6 DEF Next

LEMMA StoreBegins == Init => Store!Init
<1> SUFFICES ASSUME Init PROVE Store!Init
  OBVIOUS
<1>1. ~Loading /\ env = InitEnvironment
  BY DEF Init, Loading
<1>2. Live = InitEnvironment /\ Visible = Mark(InitEnvironment)
  BY <1>1 DEF Live, Visible
<1>3. LoadPhase = "idle"
  BY <1>1 DEF LoadPhase
<1> QED BY <1>2, <1>3 DEF Store!Init

(* What ReadModule and the commands do to the environment implements the    *)
(* store of modules: a load commits as a whole, or leaves the tables,       *)
(* memories, functions and bindings as if it had never begun, for every     *)
(* file, every script and every point at which the reading may fail.        *)
THEOREM LoadingRefinesStore == Spec => StoreSpec
<1>1. Init => Store!Init
  BY StoreBegins
<1>2. LoadInv => StoreView
  BY StoreViewed
<1>3. LoadInv /\ [Next]_vars /\ StoreView /\ StoreView' => [Store!Next]_(Store!vars)
  BY StoreStep
<1> QED BY <1>1, <1>2, <1>3, LoadInvariant, PTL DEF Spec, StoreSpec, Store!Spec
-----------------------------------------------------------------------------
(* The segments of a module are checked as they are read and written only   *)
(* at its end, when nothing looks at their places again.  Until then tables *)
(* and memories keep their sizes, and what is left of a segment keeps the   *)
(* room it had when its first entry was checked.                            *)

IsValue(v) == DOMAIN v = {"type", "value"} /\ v.value \in Nat

(* What the checks of segments rely on.                                     *)
Measured(e, limit) ==
    /\ \A i \in 1 .. Len(e.globals) : IsValue(e.globals[i].typed_value)
    /\ \A i \in 1 .. Len(e.tables) : Len(e.tables[i].func_indexes) <= limit
    /\ \A i \in 1 .. Len(e.memories) :
          e.memories[i].page_limits.initial \in Nat /\ IsSeq(e.memories[i].data)

(* The globals that an initialiser may take its value from.                 *)
GlobalsCounted(ld, file, n) ==
    /\ ld.num_global_imports \in Nat
    /\ \A g \in 0 .. ld.num_global_imports - 1 : Declared(file, "global", g, n)
    /\ (\A m \in 1 .. n - 1 : file[m].on # "global") =>
          ld.num_global_imports = ItemIndex(file, "global", n)

(* An entry that will be written has its place.                             *)
ElemPlaced(e, info) ==
    /\ IndexOf(e.tables, info.table)
    /\ info.at \in 0 .. Len(e.tables[info.table + 1].func_indexes) - 1
DataPlaced(e, info) ==
    /\ IndexOf(e.memories, info.memory) /\ info.at \in Nat /\ IsSeq(info.data)
    /\ info.at + Len(info.data) <= Len(e.memories[info.memory + 1].data)

(* There is room for what is left of a segment.                             *)
Room(ld, file, n) ==
    \A m \in 1 .. n - 1 :
        /\ file[m].on = "elem_count" /\ n - m - 1 <= file[m].count
        /\ \A k \in m + 1 .. n - 1 : file[k].on = "elem"
        => ld.table_offset + file[m].count - (n - m - 1)
               <= Len(Table_(ld).func_indexes)

Placed(ld, file, n, limit) ==
    /\ Measured(ld.env, limit) /\ GlobalsCounted(ld, file, n)
    /\ IsValue(ld.init_expr_value) /\ ld.table_offset \in Nat
    /\ IsSeq(ld.elem_segment_infos) /\ IsSeq(ld.data_segment_infos)
    /\ \A i \in 1 .. Len(ld.elem_segment_infos) :
          ElemPlaced(ld.env, ld.elem_segment_infos[i])
    /\ \A i \in 1 .. Len(ld.data_segment_infos) :
          DataPlaced(ld.env, ld.data_segment_infos[i])
    /\ Room(ld, file, n)

SegmentsInv(limit) ==
    /\ Measured(env, limit)
    /\ phase \in {"reading", "loaded"} /\ Last(File).on = "end_module"
           => Placed(load, File, event, limit)

(* Tables and memories stay and keep their sizes.                           *)
SizesKept(e, after) ==
    /\ Len(e.tables) \in Nat /\ Len(after.tables) \in Nat
    /\ Len(e.tables) <= Len(after.tables)
    /\ \A i \in 1 .. Len(e.tables) :
          Len(after.tables[i].func_indexes) = Len(e.tables[i].func_indexes)
    /\ Len(e.memories) \in Nat /\ Len(after.memories) \in Nat
    /\ Len(e.memories) <= Len(after.memories)
    /\ \A i \in 1 .. Len(e.memories) :
          Len(after.memories[i].data) = Len(e.memories[i].data)

SameItems(e, after) ==
    /\ after.globals = e.globals /\ after.tables = e.tables
    /\ after.memories = e.memories

(* What a callback may leave of the segments and the initialiser.           *)
SameSegments(a, b) ==
    /\ b.elem_segment_infos = a.elem_segment_infos
    /\ b.data_segment_infos = a.data_segment_infos
    /\ b.table_offset = a.table_offset
SameSegmentState(a, b) ==
    /\ SameSegments(a, b) /\ b.init_expr_value = a.init_expr_value
    /\ b.num_global_imports = a.num_global_imports

LEMMA SameSizes ==
    ASSUME NEW e, Environment(e), NEW after, SameItems(e, after)
    PROVE  SizesKept(e, after)
<1>1. Len(e.tables) \in Nat /\ Len(e.memories) \in Nat
  BY Lengths
<1> QED BY <1>1 DEF SameItems, SizesKept

LEMMA SameMeasured ==
    ASSUME NEW e, NEW after, SameItems(e, after), NEW limit, Measured(e, limit)
    PROVE  Measured(after, limit)
BY DEF SameItems, Measured

LEMMA StillPlaced ==
    ASSUME NEW e, NEW after, SizesKept(e, after), NEW info
    PROVE  /\ ElemPlaced(e, info) => ElemPlaced(after, info)
           /\ DataPlaced(e, info) => DataPlaced(after, info)
<1>1. ASSUME ElemPlaced(e, info) PROVE ElemPlaced(after, info)
  <2>1. info.table + 1 \in 1 .. Len(e.tables) /\ IndexOf(after.tables, info.table)
    BY <1>1, IndexStays DEF ElemPlaced, SizesKept
  <2> QED BY <1>1, <2>1 DEF ElemPlaced, SizesKept
<1>2. ASSUME DataPlaced(e, info) PROVE DataPlaced(after, info)
  <2>1. info.memory + 1 \in 1 .. Len(e.memories)
        /\ IndexOf(after.memories, info.memory)
    BY <1>2, IndexStays DEF DataPlaced, SizesKept
  <2> QED BY <1>2, <2>1 DEF DataPlaced, SizesKept
<1> QED BY <1>1, <1>2

LEMMA StillDeclared ==
    ASSUME NEW file, FileRead(file), NEW n \in 1 .. Len(file), NEW kind, NEW g,
           Declared(file, kind, g, n)
    PROVE  Declared(file, kind, g, n + 1)
<1>1. PICK m \in Declarations(file, kind) : m < n /\ ItemIndex(file, kind, m) = g
  BY DEF Declared
<1>2. m \in Nat /\ n \in Nat
  BY FileFacts DEF Declarations
<1> QED BY <1>1, <1>2 DEF Declared

LEMMA GlobalsStay ==
    ASSUME NEW file, FileRead(file), NEW n \in 1 .. Len(file), NEW a, NEW b,
           GlobalsCounted(a, file, n),
           b.num_global_imports = a.num_global_imports,
           ~(file[n].on = "import" /\ file[n].kind = "global")
    PROVE  GlobalsCounted(b, file, n + 1)
<1>1. \A g \in 0 .. b.num_global_imports - 1 : Declared(file, "global", g, n + 1)
  BY StillDeclared DEF GlobalsCounted
<1>2. ASSUME \A m \in 1 .. n : file[m].on # "global"
      PROVE  b.num_global_imports = ItemIndex(file, "global", n + 1)
  <2>1. n \notin Declarations(file, "global")
    BY <1>2, FileFacts DEF Declarations
  <2>2. ItemIndex(file, "global", n + 1) = ItemIndex(file, "global", n)
    BY <2>1, NextIndex, BeforeFacts, FileFacts
  <2>3. \A m \in 1 .. n - 1 : file[m].on # "global"
    BY <1>2
  <2> QED BY <2>2, <2>3 DEF GlobalsCounted
<1>3. (n + 1) - 1 = n
  OBVIOUS
<1> QED BY <1>1, <1>2, <1>3 DEF GlobalsCounted

LEMMA OneMoreGlobal ==
    ASSUME NEW file, FileRead(file), NEW n \in 1 .. Len(file), NEW a, NEW b,
           GlobalsCounted(a, file, n),
           b.num_global_imports = a.num_global_imports + 1,
           file[n].on = "import", file[n].kind = "global"
    PROVE  GlobalsCounted(b, file, n + 1)
<1>1. \A m \in 1 .. n - 1 : file[m].on # "global"
  <2>1. \A m \in 1 .. n - 1 : m \in 1 .. Len(file) /\ ~(n < m)
    BY FileFacts
  <2> QED BY <2>1, SectionOrder
<1>2. a.num_global_imports = ItemIndex(file, "global", n)
      /\ a.num_global_imports \in Nat
  BY <1>1 DEF GlobalsCounted
<1>3. n \in Declarations(file, "global") /\ n < n + 1
  BY FileFacts DEF Declarations
<1>4. ItemIndex(file, "global", n + 1) = b.num_global_imports
  BY <1>2, <1>3, NextIndex
<1>5. ASSUME NEW g \in 0 .. b.num_global_imports - 1
      PROVE  Declared(file, "global", g, n + 1)
  <2>1. CASE g = a.num_global_imports
    BY <1>2, <1>3, <2>1 DEF Declared
  <2>2. CASE g # a.num_global_imports
    <3>1. g \in 0 .. a.num_global_imports - 1
      BY <1>2, <2>2
    <3> QED BY <3>1, StillDeclared DEF GlobalsCounted
  <2> QED BY <2>1, <2>2
<1> QED BY <1>2, <1>4, <1>5 DEF GlobalsCounted

(* A callback other than that of a segment's entries.                       *)
LEMMA RoomKept ==
    ASSUME NEW n \in Nat, NEW file, NEW ld, file[n].on \notin {"elem", "elem_count"}
    PROVE  Room(ld, file, n + 1)
<1> SUFFICES ASSUME NEW m \in 1 .. (n + 1) - 1, file[m].on = "elem_count",
                    \A k \in m + 1 .. (n + 1) - 1 : file[k].on = "elem"
             PROVE  FALSE
  BY DEF Room
<1>1. CASE m = n BY <1>1
<1>2. CASE m # n
  <2>1. n \in m + 1 .. (n + 1) - 1
    BY <1>2
  <2> QED BY <2>1
<1> QED BY <1>1, <1>2

LEMMA PlacedGoes ==
    ASSUME NEW file, FileRead(file), NEW n \in 1 .. Len(file), NEW limit,
           NEW a, NEW b, Placed(a, file, n, limit),
           file[n].on \notin {"elem", "elem_count"},
           SameSegments(a, b), IsValue(b.init_expr_value),
           Measured(b.env, limit), SizesKept(a.env, b.env),
           GlobalsCounted(b, file, n + 1)
    PROVE  Placed(b, file, n + 1, limit)
<1>1. Room(b, file, n + 1)
  BY RoomKept, FileFacts
<1> QED BY <1>1, StillPlaced DEF Placed, SameSegments

(* The callbacks that have to do with neither sizes, globals nor segments.  *)
CalmEvents == {"type_count", "type", "function_count", "function",
               "global_count", "export", "start", "elem_count", "body", "error"}

Calm(a, b) == SameSegmentState(a, b) /\ SameItems(a.env, b.env)

LEMMA ErrorCalm ==
    ASSUME NEW a, DOMAIN a = LoadFields
    PROVE  Calm(a, Error(a))
BY DEF Error, LoadFields, Calm, SameSegmentState, SameSegments, SameItems

LEMMA ExportCalm ==
    ASSUME NEW a, DOMAIN a = LoadFields, DOMAIN a.env = Fields,
           NEW m, NEW kind, NEW index, NEW name
    PROVE  Calm(a, AppendExport(a, m, kind, index, name))
<1> DEFINE export == [name |-> name, kind |-> kind, index |-> index]
           b == [a EXCEPT !.env.modules[m].exports = Append(@, export)]
<1>1. AppendExport(a, m, kind, index, name) \in {Error(a), b}
  BY DEF AppendExport
<1> HIDE DEF export
<1>2. Calm(a, b)
  BY DEF LoadFields, Fields, Vectors, Calm, SameSegmentState, SameSegments, SameItems
<1> QED BY <1>1, <1>2, ErrorCalm

LEMMA CalmCallbacks ==
    ASSUME NEW a, DOMAIN a = LoadFields, DOMAIN a.env = Fields, NEW e, NEW found,
           e.on \in CalmEvents
    PROVE  Calm(a, Callback(a, e, found))
<1> USE DEF LoadFields, Fields, Vectors, Calm, SameSegmentState, SameSegments,
            SameItems
<1>1. CASE e.on = "type_count"
  BY <1>1 DEF Callback, OnTypeCount
<1>2. CASE e.on = "type"
  <2>1. Callback(a, e, found) = OnType(a, e)
    BY <1>2 DEF Callback
  <2> QED BY <2>1 DEF OnType, AbortUnless
<1>3. CASE e.on = "function_count"
  BY <1>3 DEF Callback, OnFunctionCount
<1>4. CASE e.on = "function"
  BY <1>4 DEF Callback, OnFunction
<1>5. CASE e.on = "global_count"
  BY <1>5 DEF Callback, OnGlobalCount
<1>6. CASE e.on = "export"
  <2>1. Callback(a, e, found) = OnExport(a, e)
    BY <1>6 DEF Callback
  <2> QED BY <2>1, ErrorCalm, ExportCalm DEF OnExport
<1>7. CASE e.on = "start"
  <2> DEFINE index == TranslateFuncIndexToEnv(a, e.func)
             b == [a EXCEPT !.env.modules[This(a)].start_func_index = index]
  <2>1. Callback(a, e, found) \in {Error(a), b}
    BY <1>7 DEF Callback, OnStartFunction
  <2> HIDE DEF index
  <2>2. Calm(a, b)
    OBVIOUS
  <2> QED BY <2>1, <2>2, ErrorCalm
<1>8. CASE e.on = "elem_count"
  <2>1. Callback(a, e, found) \in {Error(a), a}
    BY <1>8 DEF Callback, OnElemSegmentFunctionIndexCount
  <2> QED BY <2>1, ErrorCalm
<1>9. CASE e.on = "body"
  <2> DEFINE code == [does |-> e.does, value |-> e.value,
                      memory |-> Module(a).memory_index]
             place == TranslateFuncIndexToEnv(a, e.func) + 1
             b == [a EXCEPT !.env.funcs[place].offset = Len(a.env.istream),
                            !.env.istream = Append(@, code)]
  <2>1. Callback(a, e, found) = b
    BY <1>9 DEF Callback, OnFunctionBody
  <2> HIDE DEF code, place
  <2>2. Calm(a, b)
    OBVIOUS
  <2> QED BY <2>1, <2>2
<1>10. CASE e.on = "error"
  BY <1>10, ErrorCalm DEF Callback
<1> QED BY <1>1, <1>2, <1>3, <1>4, <1>5, <1>6, <1>7, <1>8, <1>9, <1>10 DEF CalmEvents

(* What a callback has to keep, after which the load goes on.               *)
Goes(b, file, n, limit) == b.ok /\ ~b.aborted => Placed(b, file, n + 1, limit)

LEMMA CalmGoes ==
    ASSUME NEW file, FileRead(file), NEW n \in 1 .. Len(file), NEW base, NEW limit,
           NEW a, Read(a, file, n, base), Placed(a, file, n, limit),
           NEW found, file[n].on \in CalmEvents, file[n].on # "elem_count"
    PROVE  Goes(Callback(a, file[n], found), file, n, limit)
<1> DEFINE b == Callback(a, file[n], found)
<1>1. Calm(a, b)
  BY CalmCallbacks DEF Read, Environment
<1> HIDE DEF b
<1>2. SizesKept(a.env, b.env) /\ Measured(b.env, limit)
  BY <1>1, SameSizes, SameMeasured DEF Calm, Read, Placed
<1>3. GlobalsCounted(b, file, n + 1)
  BY <1>1, GlobalsStay DEF Calm, SameSegmentState, CalmEvents, Placed
<1>4. IsValue(b.init_expr_value)
  BY <1>1 DEF Calm, SameSegmentState, Placed
<1>5. file[n].on \notin {"elem", "elem_count"}
  BY DEF CalmEvents
<1> QED BY <1>1, <1>2, <1>3, <1>4, <1>5, PlacedGoes
        DEF Calm, SameSegmentState, Goes, b

(* The table that a segment is for.                                         *)
LEMMA SegmentTable ==
    ASSUME NEW file, FileRead(file), NEW n \in 1 .. Len(file), NEW base,
           NEW a, Read(a, file, n, base)
    PROVE  /\ file[n].on \in {"elem_count", "elem"} =>
                 IndexOf(a.env.tables, Module(a).table_index)
           /\ file[n].on = "data" =>
                 IndexOf(a.env.memories, Module(a).memory_index)
<1>1. ModuleWhole(a.env, Module(a))
  BY DEF Read
<1>2. ASSUME NEW kind, NEW m \in Declarations(file, kind), m < n
      PROVE  m \in 1 .. n - 1
  BY <1>2, FileFacts DEF Declarations
<1>3. CASE file[n].on \in {"elem_count", "elem"}
  <2>1. PICK m \in Declarations(file, "table") : m < n
    BY <1>3, FileFacts DEF FileRead, SegmentsRead
  <2>2. m \in 1 .. n - 1
    BY <1>2, <2>1
  <2>3. Module(a).table_index # -1
    BY <2>1, <2>2 DEF Read, ItemRead
  <2> QED BY <1>1, <1>3, <2>3 DEF ModuleWhole
<1>4. CASE file[n].on = "data"
  <2>1. PICK m \in Declarations(file, "memory") : m < n
    BY <1>4, FileFacts DEF FileRead, SegmentsRead
  <2>2. m \in 1 .. n - 1
    BY <1>2, <2>1
  <2>3. Module(a).memory_index # -1
    BY <2>1, <2>2 DEF Read, ItemRead
  <2> QED BY <1>1, <1>4, <2>3 DEF ModuleWhole
<1> QED BY <1>3, <1>4

(* The size of a table.                                                     *)
LEMMA TableSize ==
    ASSUME NEW e, Environment(e), NEW limit \in Nat, Measured(e, limit),
           NEW index, IndexOf(e.tables, index)
    PROVE  /\ Len(e.tables[index + 1].func_indexes) \in Nat
           /\ Len(e.tables[index + 1].func_indexes) <= limit
<1>1. index + 1 \in 1 .. Len(e.tables)
  BY Lengths DEF IndexOf
<1>2. IsSeq(e.tables[index + 1].func_indexes)
  BY <1>1 DEF Environment
<1> QED BY <1>1, <1>2, SeqFacts DEF Measured

(* The end of a segment is looked at without wrapping.                      *)
LEMMA ElemCountGoes ==
    ASSUME NEW file, FileRead(file), NEW n \in 1 .. Len(file), NEW base,
           NEW limit \in Nat, NEW a, Read(a, file, n, base),
           Placed(a, file, n, limit), NEW found, file[n].on = "elem_count",
           limit + file[n].count <= MaxIndex
    PROVE  Goes(Callback(a, file[n], found), file, n, limit)
<1> DEFINE b == Callback(a, file[n], found)
           size == Len(Table_(a).func_indexes)
           count == file[n].count
           offset == a.table_offset
<1> SUFFICES ASSUME b.ok PROVE Placed(b, file, n + 1, limit)
  BY DEF Goes
<1>1. b = a
  <2>1. b \in {a, Error(a)}
    BY DEF Callback, OnElemSegmentFunctionIndexCount
  <2>2. ~Error(a).ok
    BY DEF Error, Read, LoadFields
  <2> QED BY <2>1, <2>2
<1>2. ~(offset > size \/ Wrapped(offset + count) > size)
  <2>1. b = IF offset > size \/ Wrapped(offset + count) > size
            THEN Error(a) ELSE a
    BY DEF Callback, OnElemSegmentFunctionIndexCount
  <2>2. ~Error(a).ok
    BY DEF Error, Read, LoadFields
  <2> HIDE DEF b
  <2> QED BY <2>1, <2>2
<1>3. offset \in Nat /\ count \in Nat /\ size \in Nat /\ size <= limit
  <2>1. IndexOf(a.env.tables, Module(a).table_index)
    BY SegmentTable
  <2>2. count \in Nat
    BY FileFacts DEF FileRead, SegmentsRead
  <2> QED BY <2>1, <2>2, TableSize DEF Table_, Read, Placed
<1> HIDE DEF size, count, offset, b
<1>4. offset + count <= size
  <2>1. offset <= size /\ offset + count <= MaxIndex
    BY <1>2, <1>3, MaxIndexAssumption DEF count
  <2>2. offset + count \in 0 .. MaxIndex /\ MaxIndex \in Nat
    BY <1>3, <2>1, MaxIndexAssumption
  <2>3. Wrapped(offset + count) = offset + count
    BY <2>2 DEF Wrapped
  <2> QED BY <1>2, <1>3, <2>3
<1>5. Room(a, file, n + 1)
  <2> SUFFICES ASSUME NEW m \in 1 .. (n + 1) - 1, file[m].on = "elem_count",
                      \A k \in m + 1 .. (n + 1) - 1 : file[k].on = "elem"
               PROVE  a.table_offset + file[m].count - ((n + 1) - m - 1)
                          <= Len(Table_(a).func_indexes)
    BY DEF Room
  <2>1. m = n
    <3>1. m # n => n \in m + 1 .. (n + 1) - 1
      BY FileFacts
    <3> QED BY <3>1
  <2> QED BY <1>3, <1>4, <2>1 DEF offset, count, size
<1>6. GlobalsCounted(a, file, n + 1)
  BY GlobalsStay DEF Placed
<1> QED BY <1>1, <1>5, <1>6 DEF Placed

LEMMA NotWrapped ==
    ASSUME NEW k \in Nat, k <= MaxIndex
    PROVE  Wrapped(k) = k
<1>1. k \in 0 .. MaxIndex /\ MaxIndex \in Nat
  BY MaxIndexAssumption
<1> QED BY <1>1 DEF Wrapped

(* An entry has the place that there is room for.                           *)
LEMMA ElemGoes ==
    ASSUME NEW file, FileRead(file), NEW n \in 1 .. Len(file), NEW base,
           NEW limit \in Nat, limit <= MaxIndex, NEW a, Read(a, file, n, base),
           Placed(a, file, n, limit), NEW found, file[n].on = "elem"
    PROVE  Goes(Callback(a, file[n], found), file, n, limit)
<1> DEFINE e == file[n]
           info == ElemInfo(a, e)
           more == [a EXCEPT !.elem_segment_infos = Append(@, info),
                             !.table_offset = Wrapped(@ + 1)]
           b == Callback(a, e, found)
           size == Len(Table_(a).func_indexes)
           offset == a.table_offset
<1> SUFFICES ASSUME b.ok PROVE Placed(b, file, n + 1, limit)
  BY DEF Goes
<1>1. b = more
  <2>1. b \in {more, Error(a)}
    BY DEF Callback, OnElemSegmentFunctionIndex
  <2>2. ~Error(a).ok
    BY DEF Error, Read, LoadFields
  <2> QED BY <2>1, <2>2
<1>2. IndexOf(a.env.tables, Module(a).table_index)
  BY SegmentTable
<1>3. offset \in Nat /\ size \in Nat /\ size <= limit
  BY <1>2, TableSize DEF Table_, Read, Placed
<1>4. PICK m \in 1 .. n - 1 :
          /\ file[m].on = "elem_count" /\ n - m <= file[m].count
          /\ \A k \in m + 1 .. n - 1 : file[k].on = "elem"
  BY FileFacts DEF FileRead, SegmentsRead
<1>5. file[m].count \in Nat /\ n \in Nat /\ m \in Nat
  BY <1>4, FileFacts DEF FileRead, SegmentsRead
<1>6. offset + file[m].count - (n - m - 1) <= size
  <2>1. n - m - 1 <= file[m].count
    BY <1>4, <1>5
  <2> QED BY <1>4, <2>1 DEF Placed, Room
<1> HIDE DEF size
<1>7. offset < size
  BY <1>3, <1>4, <1>5, <1>6
<1>8. info.table = Module(a).table_index /\ info.at = offset
  BY DEF ElemInfo
<1>9. ElemPlaced(a.env, info)
  <2> HIDE DEF info, offset
  <2>1. offset \in 0 .. size - 1
    BY <1>3, <1>7
  <2> QED BY <1>2, <1>8, <2>1 DEF ElemPlaced, size, Table_
<1>10. Wrapped(offset + 1) = offset + 1
  <2> HIDE DEF offset
  <2>1. offset + 1 <= MaxIndex
    BY <1>3, <1>7, MaxIndexAssumption
  <2> QED BY <1>3, <2>1, NotWrapped
<1> HIDE DEF info, e, offset
<1>11. /\ b.env = a.env /\ b.init_expr_value = a.init_expr_value
       /\ b.num_global_imports = a.num_global_imports
       /\ b.data_segment_infos = a.data_segment_infos
       /\ b.elem_segment_infos = Append(a.elem_segment_infos, info)
       /\ b.table_offset = offset + 1
  BY <1>1, <1>10 DEF Read, LoadFields, offset
<1> HIDE DEF b
<1>12. IsSeq(a.elem_segment_infos)
       /\ \A i \in 1 .. Len(a.elem_segment_infos) :
             ElemPlaced(a.env, a.elem_segment_infos[i])
  BY DEF Placed
<1>13. /\ IsSeq(b.elem_segment_infos)
       /\ Len(b.elem_segment_infos) = Len(a.elem_segment_infos) + 1
       /\ \A i \in 1 .. Len(a.elem_segment_infos) :
             b.elem_segment_infos[i] = a.elem_segment_infos[i]
       /\ b.elem_segment_infos[Len(a.elem_segment_infos) + 1] = info
  BY <1>11, <1>12, AppendFacts
<1>14. \A i \in 1 .. Len(b.elem_segment_infos) :
          ElemPlaced(b.env, b.elem_segment_infos[i])
  <2>1. Len(a.elem_segment_infos) \in Nat
    BY <1>12, SeqFacts
  <2>2. \A i \in 1 .. Len(a.elem_segment_infos) + 1 :
           i \in 1 .. Len(a.elem_segment_infos) \/ i = Len(a.elem_segment_infos) + 1
    BY <2>1
  <2> QED BY <1>9, <1>11, <1>12, <1>13, <2>2
<1>15. Table_(b) = Table_(a)
  BY <1>11 DEF Table_, Module, This
<1>16. Room(b, file, n + 1)
  <2> SUFFICES ASSUME NEW s \in 1 .. (n + 1) - 1, file[s].on = "elem_count",
                      (n + 1) - s - 1 <= file[s].count,
                      \A k \in s + 1 .. (n + 1) - 1 : file[k].on = "elem"
               PROVE  b.table_offset + file[s].count - ((n + 1) - s - 1)
                          <= Len(Table_(b).func_indexes)
    BY DEF Room
  <2>1. s \in 1 .. n - 1
    <3>1. s # n
      OBVIOUS
    <3> QED BY <1>5, <3>1
  <2>2. file[s].count \in Nat /\ s \in Nat
    BY <1>5, <2>1, FileFacts DEF FileRead, SegmentsRead
  <2> DEFINE count == file[s].count
  <2>3. count \in Nat /\ (n + 1) - s - 1 <= count
    BY <2>2
  <2> HIDE DEF count
  <2>4. \A k \in s + 1 .. n - 1 : k \in s + 1 .. (n + 1) - 1
    BY <1>5, <2>2
  <2>5. n - s - 1 <= count /\ (n + 1) - s - 1 = n - s
    BY <1>5, <2>2, <2>3
  <2>6. a.table_offset + count - (n - s - 1) <= size
    BY <2>1, <2>4, <2>5 DEF Placed, Room, size, count
  <2>7. offset + count - (n - s - 1) <= size
    BY <2>6 DEF offset
  <2>8. offset + 1 + count - (n - s) <= size
    BY <1>3, <1>5, <2>2, <2>3, <2>7
  <2>9. b.table_offset + count - ((n + 1) - s - 1) <= size
    BY <1>11, <2>5, <2>8
  <2> QED BY <1>15, <2>9 DEF size, count
<1>17. GlobalsCounted(b, file, n + 1)
  BY <1>11, GlobalsStay DEF Placed
<1>18. b.table_offset \in Nat
  BY <1>3, <1>11
<1> QED BY <1>11, <1>13, <1>14, <1>16, <1>17, <1>18 DEF Placed

(* So has a data segment.                                                   *)
LEMMA DataGoes ==
    ASSUME NEW file, FileRead(file), NEW n \in 1 .. Len(file), NEW base,
           NEW limit \in Nat, NEW a, Read(a, file, n, base),
           Placed(a, file, n, limit), NEW found, file[n].on = "data"
    PROVE  Goes(Callback(a, file[n], found), file, n, limit)
<1> DEFINE e == file[n]
           address == a.init_expr_value.value
           size == Len(Memory_(a).data)
           info == [memory |-> Module(a).memory_index, at |-> address,
                    data |-> e.data]
           more == [a EXCEPT !.data_segment_infos = Append(@, info)]
           next == IF address + Len(e.data) > size THEN Error(a)
                   ELSE IF e.data = <<>> THEN a ELSE more
           i32 == a.init_expr_value.type = "i32"
           b == Callback(a, e, found)
<1> SUFFICES ASSUME b.ok PROVE Placed(b, file, n + 1, limit)
  BY DEF Goes
<1>1. b = AbortUnless(next, i32)
  BY DEF Callback, OnDataSegmentData
<1>2. IndexOf(a.env.memories, Module(a).memory_index)
  BY SegmentTable
<1>3. address \in Nat /\ IsSeq(e.data) /\ Len(e.data) \in Nat
  <2>1. IsSeq(e.data)
    BY FileFacts DEF FileRead, SegmentsRead, IsSeq
  <2> QED BY <2>1, SeqFacts DEF Placed, IsValue
<1>4. size \in Nat
  <2>1. Module(a).memory_index + 1 \in 1 .. Len(a.env.memories)
    BY <1>2, Lengths DEF IndexOf, Read
  <2>2. IsSeq(Memory_(a).data)
    BY <2>1 DEF Memory_, Placed, Measured
  <2> QED BY <2>2, SeqFacts
<1> HIDE DEF size, address, info, e, i32
<1>5. DOMAIN a = LoadFields
  BY DEF Read
<1>6. DOMAIN next = LoadFields
  BY <1>5 DEF Error, LoadFields
<1>7. ~(address + Len(e.data) > size)
  <2>1. b.ok = next.ok
    <3> HIDE DEF next, b
    <3> QED BY <1>1, <1>6 DEF AbortUnless, LoadFields
  <2>2. ~Error(a).ok
    BY <1>5 DEF Error, LoadFields
  <2> QED BY <2>1, <2>2
<1>8. DataPlaced(a.env, info)
  <2>1. info.memory = Module(a).memory_index /\ info.at = address
        /\ info.data = e.data
    BY DEF info
  <2>2. address + Len(e.data) <= size
    BY <1>3, <1>4, <1>7
  <2> QED BY <1>2, <1>3, <2>1, <2>2 DEF DataPlaced, size, Memory_
<1>9. next \in {a, more}
  BY <1>7
<1>10. /\ next.env = a.env /\ next.init_expr_value = a.init_expr_value
       /\ next.num_global_imports = a.num_global_imports
       /\ next.elem_segment_infos = a.elem_segment_infos
       /\ next.table_offset = a.table_offset
       /\ next.data_segment_infos
              \in {a.data_segment_infos, Append(a.data_segment_infos, info)}
  BY <1>5, <1>9 DEF LoadFields
<1> HIDE DEF next, b
<1>11. /\ b.env = a.env /\ b.init_expr_value = a.init_expr_value
       /\ b.num_global_imports = a.num_global_imports
       /\ b.elem_segment_infos = a.elem_segment_infos
       /\ b.table_offset = a.table_offset
       /\ b.data_segment_infos
              \in {a.data_segment_infos, Append(a.data_segment_infos, info)}
  BY <1>1, <1>6, <1>10 DEF AbortUnless, LoadFields
<1>12. /\ IsSeq(a.data_segment_infos)
       /\ \A i \in 1 .. Len(a.data_segment_infos) :
             DataPlaced(a.env, a.data_segment_infos[i])
  BY DEF Placed
<1>13. IsSeq(b.data_segment_infos)
       /\ \A i \in 1 .. Len(b.data_segment_infos) :
             DataPlaced(b.env, b.data_segment_infos[i])
  <2>1. CASE b.data_segment_infos = a.data_segment_infos
    BY <1>11, <1>12, <2>1
  <2>2. CASE b.data_segment_infos = Append(a.data_segment_infos, info)
    <3> DEFINE s == a.data_segment_infos
               t == Append(s, info)
    <3>1. /\ IsSeq(t) /\ Len(t) = Len(s) + 1 /\ Len(s) \in Nat
          /\ \A i \in 1 .. Len(s) : t[i] = s[i]
          /\ t[Len(s) + 1] = info
      BY <1>12, AppendFacts, SeqFacts
    <3> HIDE DEF t
    <3>2. \A i \in 1 .. Len(s) + 1 : i \in 1 .. Len(s) \/ i = Len(s) + 1
      BY <3>1
    <3>3. b.data_segment_infos = t
      BY <2>2 DEF t
    <3> HIDE DEF s
    <3>4. \A i \in 1 .. Len(s) : DataPlaced(a.env, s[i])
      BY <1>12 DEF s
    <3> QED BY <1>8, <1>11, <3>1, <3>2, <3>3, <3>4
  <2> QED BY <1>11, <2>1, <2>2
<1>14. GlobalsCounted(b, file, n + 1)
  BY <1>11, GlobalsStay DEF Placed, e
<1>15. Room(b, file, n + 1)
  BY RoomKept, FileFacts
<1> QED BY <1>11, <1>13, <1>14, <1>15 DEF Placed

(* The value of an initialiser is a number.                                 *)
LEMMA ValueGoes ==
    ASSUME NEW file, FileRead(file), NEW n \in 1 .. Len(file), NEW base,
           NEW limit, NEW a, Read(a, file, n, base), Placed(a, file, n, limit),
           NEW found, file[n].on \in {"const", "get_global", "elem_offset"}
    PROVE  Goes(Callback(a, file[n], found), file, n, limit)
<1> DEFINE e == file[n]
           b == Callback(a, e, found)
<1> SUFFICES ASSUME b.ok PROVE Placed(b, file, n + 1, limit)
  BY DEF Goes
<1>1. DOMAIN a = LoadFields
  BY DEF Read
<1>2. /\ b.env = a.env /\ b.num_global_imports = a.num_global_imports
      /\ b.elem_segment_infos = a.elem_segment_infos
      /\ b.data_segment_infos = a.data_segment_infos
      /\ IsValue(b.init_expr_value) /\ b.table_offset \in Nat
  <2>1. CASE e.on = "const"
    <3>1. b = [a EXCEPT !.init_expr_value = e.value]
      BY <2>1 DEF Callback, OnInitExprConst
    <3>2. IsValue(e.value)
      BY <2>1, FileFacts DEF FileRead, ArgumentsChecked, IsValue
    <3> HIDE DEF b, e
    <3> QED BY <1>1, <3>1, <3>2 DEF LoadFields, Placed
  <2>2. CASE e.on = "get_global"
    <3> DEFINE value == Global_(a, e.global).typed_value
               more == [a EXCEPT !.init_expr_value = value]
    <3>1. ~Error(a).ok
      BY <1>1 DEF Error, LoadFields
    <3>2. b = more /\ ~(e.global >= a.num_global_imports)
      <4>1. b = IF e.global >= a.num_global_imports \/ Global_(a, e.global).mutable_
                THEN Error(a) ELSE more
        BY <2>2 DEF Callback, OnInitExprGetGlobalExpr
      <4> HIDE DEF more, b
      <4> QED BY <3>1, <4>1
    <3>3. e.global \in Nat /\ a.num_global_imports \in Nat
      BY <2>2, FileFacts DEF FileRead, ArgumentsChecked, Placed, GlobalsCounted
    <3>4. e.global \in 0 .. a.num_global_imports - 1
      BY <3>2, <3>3
    <3>5. PICK m \in Declarations(file, "global") :
              m < n /\ ItemIndex(file, "global", m) = e.global
      BY <3>4 DEF Placed, GlobalsCounted, Declared
    <3>6. m \in 1 .. n - 1
      BY <3>5, FileFacts DEF Declarations
    <3>7. IndexOf(a.env.globals, TranslateGlobalIndexToEnv(a, e.global))
      BY <3>5, <3>6 DEF Read, ItemRead, GlobalRead
    <3>8. IsValue(value)
      <4>1. TranslateGlobalIndexToEnv(a, e.global) + 1 \in 1 .. Len(a.env.globals)
        BY <3>7, Lengths DEF IndexOf, Read
      <4> QED BY <4>1 DEF Placed, Measured, Global_
    <3> HIDE DEF value, b, e
    <3> QED BY <1>1, <3>2, <3>8 DEF LoadFields, Placed
  <2>3. CASE e.on = "elem_offset"
    <3> DEFINE value == a.init_expr_value.value
               more == [a EXCEPT !.table_offset = value]
    <3>1. b = AbortUnless(more, a.init_expr_value.type = "i32")
      BY <2>3 DEF Callback, EndElemSegmentInitExpr
    <3>2. value \in Nat
      BY DEF Placed, IsValue
    <3> HIDE DEF b, e
    <3>3. DOMAIN more = LoadFields
      BY <1>1 DEF LoadFields
    <3>4. more.table_offset = value
      BY <1>1 DEF LoadFields
    <3> QED BY <1>1, <3>1, <3>2, <3>3, <3>4 DEF LoadFields, AbortUnless, Placed
  <2> QED BY <2>1, <2>2, <2>3
<1> HIDE DEF b
<1>3. GlobalsCounted(b, file, n + 1)
  BY <1>2, GlobalsStay DEF Placed
<1>4. Room(b, file, n + 1)
  BY RoomKept, FileFacts
<1> QED BY <1>2, <1>3, <1>4 DEF Placed

-----------------------------------------------------------------------------
(* Items that are added *)

LEMMA GlobalAdded ==
    ASSUME NEW e, Environment(e), NEW limit, Measured(e, limit), NEW x,
           IsValue(x.typed_value), NEW after,
           after.globals = Append(e.globals, x), after.tables = e.tables,
           after.memories = e.memories
    PROVE  Measured(after, limit) /\ SizesKept(e, after)
<1>1. Len(e.tables) \in Nat /\ Len(e.memories) \in Nat /\ Len(e.globals) \in Nat
  BY Lengths
<1>2. /\ Len(after.globals) = Len(e.globals) + 1
      /\ \A i \in 1 .. Len(e.globals) : after.globals[i] = e.globals[i]
      /\ after.globals[Len(e.globals) + 1] = x
  BY EnvironmentVectors, AppendFacts
<1>3. \A i \in 1 .. Len(e.globals) + 1 :
         i \in 1 .. Len(e.globals) \/ i = Len(e.globals) + 1
  BY <1>1
<1>4. \A i \in 1 .. Len(after.globals) : IsValue(after.globals[i].typed_value)
  BY <1>2, <1>3 DEF Measured
<1> QED BY <1>1, <1>4 DEF Measured, SizesKept

LEMMA TableAdded ==
    ASSUME NEW e, Environment(e), NEW limit, Measured(e, limit), NEW x,
           Len(x.func_indexes) <= limit, NEW after,
           after.tables = Append(e.tables, x), after.globals = e.globals,
           after.memories = e.memories
    PROVE  Measured(after, limit) /\ SizesKept(e, after)
<1>1. Len(e.tables) \in Nat /\ Len(e.memories) \in Nat
  BY Lengths
<1>2. /\ Len(after.tables) = Len(e.tables) + 1
      /\ \A i \in 1 .. Len(e.tables) : after.tables[i] = e.tables[i]
      /\ after.tables[Len(e.tables) + 1] = x
  BY EnvironmentVectors, AppendFacts
<1>3. \A i \in 1 .. Len(e.tables) + 1 :
         i \in 1 .. Len(e.tables) \/ i = Len(e.tables) + 1
  BY <1>1
<1>4. \A i \in 1 .. Len(after.tables) : Len(after.tables[i].func_indexes) <= limit
  BY <1>2, <1>3 DEF Measured
<1> QED BY <1>1, <1>2, <1>4 DEF Measured, SizesKept

LEMMA MemoryAdded ==
    ASSUME NEW e, Environment(e), NEW limit, Measured(e, limit), NEW x,
           x.page_limits.initial \in Nat, IsSeq(x.data), NEW after,
           after.memories = Append(e.memories, x), after.globals = e.globals,
           after.tables = e.tables
    PROVE  Measured(after, limit) /\ SizesKept(e, after)
<1>1. Len(e.tables) \in Nat /\ Len(e.memories) \in Nat
  BY Lengths
<1>2. /\ Len(after.memories) = Len(e.memories) + 1
      /\ \A i \in 1 .. Len(e.memories) : after.memories[i] = e.memories[i]
      /\ after.memories[Len(e.memories) + 1] = x
  BY EnvironmentVectors, AppendFacts
<1>3. \A i \in 1 .. Len(e.memories) + 1 :
         i \in 1 .. Len(e.memories) \/ i = Len(e.memories) + 1
  BY <1>1
<1>4. \A i \in 1 .. Len(after.memories) :
         /\ after.memories[i].page_limits.initial \in Nat
         /\ IsSeq(after.memories[i].data)
  BY <1>2, <1>3 DEF Measured
<1> QED BY <1>1, <1>2, <1>4 DEF Measured, SizesKept

LEMMA ZerosFacts ==
    ASSUME NEW n \in Nat
    PROVE  IsSeq(Zeros(n)) /\ Len(Zeros(n)) = n
BY FunctionIsSeq DEF Zeros

LEMMA ResizedFacts ==
    ASSUME NEW s, NEW n \in Nat
    PROVE  IsSeq(Resized(s, n)) /\ Len(Resized(s, n)) = n
<1> DEFINE t == Resized(s, n)
<1>1. t = [i \in 1 .. n |-> t[i]]
  BY DEF Resized
<1> HIDE DEF t
<1>2. IsSeq(t) /\ Len(t) = n
  BY <1>1, FunctionIsSeq
<1> QED BY <1>2 DEF t

(* A load of which only what is measured has grown.                         *)
Enlarged(a, b, limit) ==
    /\ SameSegments(a, b)
    /\ Measured(b.env, limit) /\ SizesKept(a.env, b.env)
    /\ IsValue(b.init_expr_value)

LEMMA CalmEnlarged ==
    ASSUME NEW a, NEW b, NEW c, NEW limit, Enlarged(a, b, limit), Calm(b, c)
    PROVE  Enlarged(a, c, limit)
<1>1. Measured(c.env, limit) /\ SizesKept(a.env, c.env)
  BY DEF Enlarged, Calm, SameItems, Measured, SizesKept
<1> QED BY <1>1 DEF Enlarged, Calm, SameSegmentState, SameSegments

LEMMA EnlargedItself ==
    ASSUME NEW file, NEW n, NEW limit, NEW a, Placed(a, file, n, limit),
           Environment(a.env), NEW b, Calm(a, b)
    PROVE  Enlarged(a, b, limit)
<1>1. SizesKept(a.env, a.env)
  BY SameSizes DEF SameItems
<1>2. Enlarged(a, a, limit)
  BY <1>1 DEF Enlarged, SameSegments, Placed
<1> QED BY <1>2, CalmEnlarged

LEMMA EnlargedGoes ==
    ASSUME NEW file, FileRead(file), NEW n \in 1 .. Len(file), NEW limit,
           NEW a, NEW b, Placed(a, file, n, limit), Enlarged(a, b, limit),
           file[n].on \notin {"elem", "elem_count"},
           b.num_global_imports
               = IF file[n].on = "import" /\ file[n].kind = "global"
                 THEN a.num_global_imports + 1 ELSE a.num_global_imports
    PROVE  Goes(b, file, n, limit)
<1>1. GlobalsCounted(b, file, n + 1)
  <2>1. GlobalsCounted(a, file, n)
    BY DEF Placed
  <2>2. CASE file[n].on = "import" /\ file[n].kind = "global"
    BY <2>1, <2>2, OneMoreGlobal
  <2>3. CASE ~(file[n].on = "import" /\ file[n].kind = "global")
    BY <2>1, <2>3, GlobalsStay
  <2> QED BY <2>2, <2>3
<1> QED BY <1>1, PlacedGoes DEF Enlarged, Goes

(* The global, table or memory that a module defines.                       *)
LEMMA GlobalGoes ==
    ASSUME NEW file, FileRead(file), NEW n \in 1 .. Len(file), NEW base, NEW limit,
           NEW a, Read(a, file, n, base), Placed(a, file, n, limit),
           NEW found, file[n].on = "global"
    PROVE  Goes(Callback(a, file[n], found), file, n, limit)
<1> DEFINE e == file[n]
           x == [typed_value |-> [type |-> e.type, value |-> 0],
                 mutable_ |-> e.mutable_]
           initial == [a.init_expr_value EXCEPT !.type = "void"]
           next == [a EXCEPT !.env.globals = Append(@, x),
                             !.init_expr_value.type = "void"]
           holds == TranslateGlobalIndexToEnv(a, e.index) = Len(a.env.globals)
           b == Callback(a, e, found)
<1>1. b = AbortUnless(next, holds)
  BY DEF Callback, BeginGlobal
<1>2. IsValue(x.typed_value)
  BY DEF IsValue
<1>3. IsValue(initial)
  <2>1. IsValue(a.init_expr_value)
    BY DEF Placed
  <2> QED BY <2>1 DEF IsValue
<1>4. /\ DOMAIN next = LoadFields /\ SameSegments(a, next)
      /\ next.init_expr_value = initial
      /\ next.num_global_imports = a.num_global_imports
      /\ next.env.globals = Append(a.env.globals, x)
      /\ next.env.tables = a.env.tables /\ next.env.memories = a.env.memories
  <2> HIDE DEF x
  <2> QED BY DEF Read, Environment, LoadFields, Fields, Vectors, SameSegments
<1> HIDE DEF x, next, initial, holds
<1>5. Environment(a.env) /\ Measured(a.env, limit)
      /\ IsValue(a.init_expr_value)
  BY DEF Read, Placed
<1>6. Measured(next.env, limit) /\ SizesKept(a.env, next.env)
  <2> DEFINE old == a.env
             new == next.env
  <2>1. /\ Environment(old) /\ Measured(old, limit)
        /\ new.globals = Append(old.globals, x)
        /\ new.tables = old.tables /\ new.memories = old.memories
    BY <1>4, <1>5
  <2> HIDE DEF old, new
  <2>2. Measured(new, limit) /\ SizesKept(old, new)
    BY <1>2, <2>1, GlobalAdded
  <2> QED BY <2>2 DEF old, new
<1>7. Enlarged(a, next, limit)
  BY <1>3, <1>4, <1>5, <1>6 DEF Enlarged
<1>8. Calm(next, b)
  BY <1>1, <1>4 DEF AbortUnless, LoadFields, Calm, SameSegmentState, SameSegments,
                    SameItems
<1> HIDE DEF b
<1>9. Enlarged(a, b, limit)
  BY <1>7, <1>8, CalmEnlarged
<1>10. b.num_global_imports = a.num_global_imports
  BY <1>4, <1>8 DEF Calm, SameSegmentState
<1>11. Goes(b, file, n, limit)
  BY <1>9, <1>10, EnlargedGoes
<1> QED BY <1>11 DEF b

LEMMA EndGlobalGoes ==
    ASSUME NEW file, FileRead(file), NEW n \in 1 .. Len(file), NEW base, NEW limit,
           NEW a, Read(a, file, n, base), Placed(a, file, n, limit),
           NEW found, file[n].on = "end_global"
    PROVE  Goes(Callback(a, file[n], found), file, n, limit)
<1> DEFINE e == file[n]
           place == TranslateGlobalIndexToEnv(a, e.index) + 1
           value == a.init_expr_value
           x == [a.env.globals[place] EXCEPT !.typed_value = value]
           next == [a EXCEPT !.env.globals[place].typed_value = value]
           b == Callback(a, e, found)
<1> SUFFICES ASSUME b.ok PROVE Goes(b, file, n, limit)
  BY DEF Goes
<1>1. b = next
  <2>1. b \in {next, Error(a)}
    BY DEF Callback, EndGlobalInitExpr
  <2>2. ~Error(a).ok
    BY DEF Error, Read, LoadFields
  <2> QED BY <2>1, <2>2
<1>2. place \in 1 .. Len(a.env.globals)
  <2>1. PICK m \in 1 .. n - 1 : file[m].on = "global" /\ file[m].index = e.index
    BY FileFacts DEF FileRead, ArgumentsChecked
  <2>2. m \in DOMAIN file /\ m < n
    BY <2>1, FileFacts
  <2>3. m \in Declarations(file, "global") /\ ItemIndex(file, "global", m) = e.index
    BY <2>1, <2>2 DEF FileRead, ArgumentsChecked, Declarations
  <2>4. Declared(file, "global", e.index, n)
    BY <2>2, <2>3 DEF Declared
  <2>5. IndexOf(a.env.globals, TranslateGlobalIndexToEnv(a, e.index))
    BY <2>4, DeclaredItem
  <2> QED BY <2>5, Lengths DEF IndexOf, Read
<1> HIDE DEF place
<1>3. /\ SameSegments(a, next)
      /\ next.init_expr_value = value
      /\ next.num_global_imports = a.num_global_imports
      /\ next.env.globals = Updated(a.env.globals, place, x)
      /\ next.env.tables = a.env.tables /\ next.env.memories = a.env.memories
  BY DEF Read, Environment, LoadFields, Fields, Vectors, SameSegments, Updated
<1>4. IsValue(value) /\ IsSeq(a.env.globals) /\ Measured(a.env, limit)
  BY EnvironmentVectors DEF Placed, Read
<1>5. IsValue(value) => IsValue(x.typed_value) \/ x = a.env.globals[place]
  OBVIOUS
<1> HIDE DEF next, x, value, b
<1>6. \A i \in 1 .. Len(next.env.globals) :
         IsValue(next.env.globals[i].typed_value)
  <2> DEFINE s == a.env.globals
             t == Updated(s, place, x)
  <2>1. IsSeq(s) /\ place \in 1 .. Len(s)
        /\ \A i \in 1 .. Len(s) : IsValue(s[i].typed_value)
    BY <1>2, <1>4 DEF Measured
  <2>2. IsValue(x.typed_value)
    BY <1>4, <1>5, <2>1
  <2> HIDE DEF s
  <2>3. /\ Len(t) = Len(s) /\ t[place] = x
        /\ \A i \in 1 .. Len(s) : i # place => t[i] = s[i]
    BY <2>1, UpdateFacts
  <2> HIDE DEF t
  <2>4. \A i \in 1 .. Len(t) : IsValue(t[i].typed_value)
    BY <2>1, <2>2, <2>3
  <2> QED BY <1>3, <2>4 DEF s, t
<1>7. Measured(next.env, limit) /\ SizesKept(a.env, next.env)
  <2>1. Len(a.env.tables) \in Nat /\ Len(a.env.memories) \in Nat
    BY Lengths DEF Read
  <2> QED BY <1>3, <1>4, <1>6, <2>1 DEF Measured, SizesKept
<1>8. Enlarged(a, b, limit)
  BY <1>1, <1>3, <1>4, <1>7 DEF Enlarged
<1> QED BY <1>1, <1>3, <1>8, EnlargedGoes DEF e

LEMMA NewTableSize ==
    ASSUME NEW limits, limits.initial \in Nat
    PROVE  Len(NewTable(limits).func_indexes) = limits.initial
<1> DEFINE entries == [i \in 1 .. limits.initial |-> kInvalidIndex]
<1>1. Len(entries) = limits.initial
  BY FunctionIsSeq
<1>2. NewTable(limits).func_indexes = entries
  BY DEF NewTable
<1> HIDE DEF entries
<1> QED BY <1>1, <1>2

LEMMA TableGoes ==
    ASSUME NEW file, FileRead(file), NEW n \in 1 .. Len(file), NEW base, NEW limit,
           NEW a, Read(a, file, n, base), Placed(a, file, n, limit),
           NEW found, file[n].on = "table", file[n].limits.initial <= limit
    PROVE  Goes(Callback(a, file[n], found), file, n, limit)
<1> DEFINE e == file[n]
           table == NewTable(e.limits)
           next == [a EXCEPT
                      !.env.tables = Append(@, table),
                      !.env.modules[This(a)].table_index = Len(a.env.tables)]
           b == Callback(a, e, found)
<1> SUFFICES ASSUME b.ok PROVE Goes(b, file, n, limit)
  BY DEF Goes
<1>1. b = next
  <2>1. b \in {next, Error(a)}
    BY DEF Callback, OnTable
  <2>2. ~Error(a).ok
    BY DEF Error, Read, LoadFields
  <2> QED BY <2>1, <2>2
<1>2. Len(table.func_indexes) <= limit
  BY NewTableSize, FileFacts DEF FileRead, ArgumentsChecked
<1> HIDE DEF table
<1>3. /\ SameSegments(a, next)
      /\ next.init_expr_value = a.init_expr_value
      /\ next.num_global_imports = a.num_global_imports
      /\ next.env.tables = Append(a.env.tables, table)
      /\ next.env.globals = a.env.globals /\ next.env.memories = a.env.memories
  BY DEF Read, Environment, LoadFields, Fields, Vectors, SameSegments
<1> HIDE DEF next, b
<1>4. Measured(next.env, limit) /\ SizesKept(a.env, next.env)
  <2> DEFINE old == a.env
             new == next.env
  <2>1. /\ Environment(old) /\ Measured(old, limit)
        /\ new.tables = Append(old.tables, table)
        /\ new.globals = old.globals /\ new.memories = old.memories
    BY <1>3 DEF Read, Placed
  <2> HIDE DEF old, new
  <2>2. Measured(new, limit) /\ SizesKept(old, new)
    BY <1>2, <2>1, TableAdded
  <2> QED BY <2>2 DEF old, new
<1>5. Enlarged(a, b, limit)
  BY <1>1, <1>3, <1>4 DEF Enlarged, Placed
<1> QED BY <1>1, <1>3, <1>5, EnlargedGoes DEF e

LEMMA MemoryGoes ==
    ASSUME NEW file, FileRead(file), NEW n \in 1 .. Len(file), NEW base, NEW limit,
           NEW a, Read(a, file, n, base), Placed(a, file, n, limit),
           NEW found, file[n].on = "memory"
    PROVE  Goes(Callback(a, file[n], found), file, n, limit)
<1> DEFINE e == file[n]
           memory == NewMemory(e.limits)
           next == [a EXCEPT
                      !.env.memories = Append(@, memory),
                      !.env.modules[This(a)].memory_index = Len(a.env.memories)]
           b == Callback(a, e, found)
<1> SUFFICES ASSUME b.ok PROVE Goes(b, file, n, limit)
  BY DEF Goes
<1>1. b = next
  <2>1. b \in {next, Error(a)}
    BY DEF Callback, OnMemory
  <2>2. ~Error(a).ok
    BY DEF Error, Read, LoadFields
  <2> QED BY <2>1, <2>2
<1>2. memory.page_limits.initial \in Nat /\ IsSeq(memory.data)
  <2>1. e.limits.initial \in Nat
    BY FileFacts DEF FileRead, ArgumentsChecked
  <2>2. e.limits.initial * PageSize \in Nat
    BY <2>1, PagesAssumption
  <2> QED BY <2>1, <2>2, ZerosFacts DEF NewMemory
<1> HIDE DEF memory
<1>3. /\ SameSegments(a, next)
      /\ next.init_expr_value = a.init_expr_value
      /\ next.num_global_imports = a.num_global_imports
      /\ next.env.memories = Append(a.env.memories, memory)
      /\ next.env.globals = a.env.globals /\ next.env.tables = a.env.tables
  BY DEF Read, Environment, LoadFields, Fields, Vectors, SameSegments
<1> HIDE DEF next, b
<1>4. Measured(next.env, limit) /\ SizesKept(a.env, next.env)
  <2> DEFINE old == a.env
             new == next.env
  <2>1. /\ Environment(old) /\ Measured(old, limit)
        /\ new.memories = Append(old.memories, memory)
        /\ new.globals = old.globals /\ new.tables = old.tables
    BY <1>3 DEF Read, Placed
  <2> HIDE DEF old, new
  <2>2. Measured(new, limit) /\ SizesKept(old, new)
    BY <1>2, <2>1, MemoryAdded
  <2> QED BY <2>2 DEF old, new
<1>5. Enlarged(a, b, limit)
  BY <1>1, <1>3, <1>4 DEF Enlarged, Placed
<1> QED BY <1>1, <1>3, <1>5, EnlargedGoes DEF e

(* What the end of the module writes changes no size.                       *)
LEMMA WrittenSizes ==
    ASSUME NEW memories, IsSeq(memories), NEW infos,
           \A i \in 1 .. Len(memories) : IsSeq(memories[i].data),
           NEW after, after = WriteData(memories, infos)
    PROVE  \A i \in 1 .. Len(memories) :
              /\ IsSeq(after[i].data)
              /\ Len(after[i].data) = Len(memories[i].data)
<1>1. DOMAIN memories = 1 .. Len(memories)
  BY SeqFacts
<1>2. \A m \in DOMAIN memories :
         after[m].data = [at_ \in DOMAIN memories[m].data |-> after[m].data[at_]]
  BY DEF WriteData
<1> SUFFICES ASSUME NEW i \in 1 .. Len(memories)
             PROVE  /\ IsSeq(after[i].data)
                    /\ Len(after[i].data) = Len(memories[i].data)
  OBVIOUS
<1> DEFINE s == memories[i].data
           t == after[i].data
<1>3. IsSeq(s) /\ t = [at_ \in DOMAIN s |-> t[at_]]
  BY <1>1, <1>2
<1> HIDE DEF s, t
<1>4. Len(s) \in Nat /\ t = [at_ \in 1 .. Len(s) |-> t[at_]]
  BY <1>3, SeqFacts
<1>5. IsSeq(t) /\ Len(t) = Len(s)
  BY <1>4, FunctionIsSeq
<1> QED BY <1>5 DEF s, t

LEMMA EndModuleGoes ==
    ASSUME NEW file, FileRead(file), NEW n \in 1 .. Len(file), NEW base, NEW limit,
           NEW a, Read(a, file, n, base), Placed(a, file, n, limit),
           NEW found, file[n].on = "end_module"
    PROVE  Goes(Callback(a, file[n], found), file, n, limit)
<1> DEFINE b == Callback(a, file[n], found)
           old == a.env
           new == b.env
<1>1. b = EndModule(a)
  BY DEF Callback
<1>2. /\ SameSegments(a, b) /\ b.init_expr_value = a.init_expr_value
      /\ b.num_global_imports = a.num_global_imports
      /\ new.tables = WriteElems(old.tables, a.elem_segment_infos)
      /\ new.memories = WriteData(old.memories, a.data_segment_infos)
      /\ new.globals = old.globals
  <2> HIDE DEF b
  <2> QED BY <1>1 DEF Read, Environment, EndModule, LoadFields, Fields, Vectors,
                      SameSegments
<1>3. Environment(old) /\ Measured(old, limit) /\ IsValue(a.init_expr_value)
  BY DEF Read, Placed
<1> HIDE DEF old, new, b
<1>4. /\ IsSeq(old.tables) /\ IsSeq(old.memories)
      /\ \A i \in 1 .. Len(old.tables) : IsSeq(old.tables[i].func_indexes)
      /\ \A i \in 1 .. Len(old.memories) : IsSeq(old.memories[i].data)
  BY <1>3, EnvironmentVectors DEF Environment, Measured
<1>5. /\ Len(new.tables) = Len(old.tables)
      /\ \A i \in 1 .. Len(old.tables) :
            Len(new.tables[i].func_indexes) = Len(old.tables[i].func_indexes)
  <2> DEFINE tables == old.tables
             infos == a.elem_segment_infos
             after == new.tables
  <2>1. /\ IsSeq(tables) /\ after = WriteElems(tables, infos)
        /\ \A i \in 1 .. Len(tables) : IsSeq(tables[i].func_indexes)
    BY <1>2, <1>4
  <2> HIDE DEF tables, infos, after
  <2>2. /\ Len(after) = Len(tables)
        /\ \A i \in 1 .. Len(tables) :
              Len(after[i].func_indexes) = Len(tables[i].func_indexes)
    BY <2>1, ElemsWritten
  <2> QED BY <2>2 DEF tables, after
<1>6. /\ Len(new.memories) = Len(old.memories)
      /\ \A i \in 1 .. Len(old.memories) :
            new.memories[i].page_limits = old.memories[i].page_limits
  BY <1>2, <1>4, DataWritten
<1>7. \A i \in 1 .. Len(old.memories) :
         /\ IsSeq(new.memories[i].data)
         /\ Len(new.memories[i].data) = Len(old.memories[i].data)
  BY <1>2, <1>4, WrittenSizes
<1>8. Len(old.tables) \in Nat /\ Len(old.memories) \in Nat
  BY <1>3, Lengths
<1>9. Measured(new, limit) /\ SizesKept(old, new)
  <2>1. \A i \in 1 .. Len(new.tables) : Len(new.tables[i].func_indexes) <= limit
    BY <1>3, <1>5 DEF Measured
  <2>2. \A i \in 1 .. Len(new.memories) :
           new.memories[i].page_limits.initial \in Nat /\ IsSeq(new.memories[i].data)
    BY <1>3, <1>6, <1>7 DEF Measured
  <2>3. \A i \in 1 .. Len(new.globals) :
           IsValue(new.globals[i].typed_value)
    BY <1>2, <1>3 DEF Measured
  <2>4. Measured(new, limit)
    BY <2>1, <2>2, <2>3 DEF Measured
  <2>5. SizesKept(old, new)
    BY <1>5, <1>6, <1>7, <1>8 DEF SizesKept
  <2> QED BY <2>4, <2>5
<1>10. Enlarged(a, b, limit)
  BY <1>2, <1>3, <1>9 DEF Enlarged, old, new
<1> QED BY <1>2, <1>10, EnlargedGoes DEF b

-----------------------------------------------------------------------------
(* Imports *)

LEMMA CalmTwice ==
    ASSUME NEW a, NEW b, NEW c, Calm(a, b), Calm(b, c)
    PROVE  Calm(a, c)
BY DEF Calm, SameSegmentState, SameSegments, SameItems

LEMMA ImportCalm ==
    ASSUME NEW a, DOMAIN a = LoadFields, DOMAIN a.env = Fields, NEW e, NEW sig_index
    PROVE  /\ Calm(a, AddImport(a, e, sig_index))
           /\ DOMAIN AddImport(a, e, sig_index) = LoadFields
           /\ DOMAIN AddImport(a, e, sig_index).env = Fields
<1> DEFINE import == [kind |-> e.kind, module |-> e.module, field |-> e.field,
                      sig_index |-> sig_index]
           b == [a EXCEPT !.env.modules[This(a)].imports = Append(@, import)]
<1>1. AddImport(a, e, sig_index) = b
  BY DEF AddImport
<1> HIDE DEF import
<1>2. Calm(a, b) /\ DOMAIN b = LoadFields /\ DOMAIN b.env = Fields
  BY DEF LoadFields, Fields, Vectors, Calm, SameSegmentState, SameSegments, SameItems
<1> QED BY <1>1, <1>2

LEMMA ExportFields ==
    ASSUME NEW a, DOMAIN a = LoadFields, NEW m, NEW kind, NEW index, NEW name
    PROVE  DOMAIN AppendExport(a, m, kind, index, name) = LoadFields
<1> DEFINE export == [name |-> name, kind |-> kind, index |-> index]
           b == [a EXCEPT !.env.modules[m].exports = Append(@, export)]
<1>1. AppendExport(a, m, kind, index, name) \in {Error(a), b}
  BY DEF AppendExport
<1> HIDE DEF export
<1>2. DOMAIN b = LoadFields /\ DOMAIN Error(a) = LoadFields
  BY DEF LoadFields, Error
<1> QED BY <1>1, <1>2

(* What an import that succeeds has added.                                  *)
ImportedGlobals(a, b, e) ==
    b.num_global_imports = IF e.kind = "global" THEN a.num_global_imports + 1
                           ELSE a.num_global_imports

LEMMA HostFuncGoes ==
    ASSUME NEW a, DOMAIN a = LoadFields, Environment(a.env), NEW limit,
           Enlarged(a, a, limit), NEW e, e.kind = "func", NEW m, NEW sig_index,
           NEW b, b = ImportHostFunc(a, e, m, sig_index), b.ok
    PROVE  Enlarged(a, b, limit) /\ ImportedGlobals(a, b, e)
<1> DEFINE index == Len(a.env.funcs)
           func == [is_host |-> TRUE, sig_index |-> sig_index,
                    offset |-> kInvalidIndex]
           added == [a EXCEPT !.env.funcs = Append(@, func)]
           exported == AppendExport(added, m, "func", index, e.field)
           mapped == [exported EXCEPT !.func_index_mapping = Append(@, index),
                                      !.num_func_imports = @ + 1]
<1>1. b \in {Error(added), mapped}
  BY DEF ImportHostFunc
<1> HIDE DEF index, func
<1>2. Calm(a, added) /\ DOMAIN added = LoadFields /\ DOMAIN added.env = Fields
  BY DEF Environment, LoadFields, Fields, Vectors, Calm, SameSegmentState,
         SameSegments, SameItems
<1> HIDE DEF added
<1>3. Calm(added, exported) /\ DOMAIN exported = LoadFields
  BY <1>2, ExportCalm, ExportFields
<1> HIDE DEF exported
<1>4. Calm(exported, mapped)
  BY <1>3 DEF LoadFields, Calm, SameSegmentState, SameSegments, SameItems
<1> HIDE DEF mapped
<1>5. ~Error(added).ok
  BY <1>2 DEF Error, LoadFields
<1>6. Calm(a, b)
  BY <1>1, <1>2, <1>3, <1>4, <1>5, CalmTwice
<1> QED BY <1>6, CalmEnlarged DEF Calm, SameSegmentState, ImportedGlobals

LEMMA HostTableGoes ==
    ASSUME NEW a, DOMAIN a = LoadFields, Environment(a.env), NEW limit,
           Enlarged(a, a, limit), NEW e, e.kind = "table", NEW m,
           HostTableLimits.initial <= limit,
           NEW b, b = ImportHostTable(a, e, m), b.ok
    PROVE  Enlarged(a, b, limit) /\ ImportedGlobals(a, b, e)
<1> DEFINE index == Len(a.env.tables)
           table == [NewTable(e.limits) EXCEPT !.limits = HostTableLimits]
           resized == [table EXCEPT !.func_indexes =
                          Resized(@, HostTableLimits.initial)]
           failing == [a EXCEPT !.env.tables = Append(@, table)]
           added == [a EXCEPT !.env.tables = Append(@, resized)]
           referred == [added EXCEPT !.env.modules[This(a)].table_index = index]
           exported == AppendExport(referred, m, "table", index, e.field)
<1>1. b \in {Error(failing), exported}
  BY DEF ImportHostTable
<1>2. Len(resized.func_indexes) <= limit
  <2> DEFINE entries == Resized(table.func_indexes, HostTableLimits.initial)
  <2>1. resized.func_indexes = entries
    BY DEF NewTable
  <2>2. Len(entries) = HostTableLimits.initial
    BY ResizedFacts DEF HostTableLimits
  <2> HIDE DEF resized, entries
  <2> QED BY <2>1, <2>2
<1> HIDE DEF index, table, resized
<1>3. ~Error(failing).ok
  BY DEF Error, LoadFields
<1>4. /\ SameSegmentState(a, added) /\ DOMAIN added = LoadFields
      /\ DOMAIN added.env = Fields
      /\ added.env.tables = Append(a.env.tables, resized)
      /\ added.env.globals = a.env.globals /\ added.env.memories = a.env.memories
  BY DEF Environment, LoadFields, Fields, Vectors, SameSegmentState, SameSegments
<1> HIDE DEF added, failing
<1>5. Calm(added, referred) /\ DOMAIN referred = LoadFields
      /\ DOMAIN referred.env = Fields
  BY <1>4 DEF LoadFields, Fields, Vectors, Calm, SameSegmentState, SameSegments,
              SameItems
<1> HIDE DEF referred
<1>6. Calm(referred, exported)
  BY <1>5, ExportCalm
<1> HIDE DEF exported
<1>7. Calm(added, b)
  BY <1>1, <1>3, <1>5, <1>6, CalmTwice
<1>8. Measured(added.env, limit) /\ SizesKept(a.env, added.env)
  <2> DEFINE old == a.env
             new == added.env
  <2>1. /\ Environment(old) /\ Measured(old, limit)
        /\ new.tables = Append(old.tables, resized)
        /\ new.globals = old.globals /\ new.memories = old.memories
    BY <1>4 DEF Enlarged
  <2> HIDE DEF old, new
  <2>2. Measured(new, limit) /\ SizesKept(old, new)
    BY <1>2, <2>1, TableAdded
  <2> QED BY <2>2 DEF old, new
<1>9. Enlarged(a, added, limit)
  BY <1>4, <1>8 DEF Enlarged, SameSegmentState
<1> QED BY <1>4, <1>7, <1>9, CalmEnlarged DEF Calm, SameSegmentState, ImportedGlobals

LEMMA HostMemoryGoes ==
    ASSUME NEW a, DOMAIN a = LoadFields, Environment(a.env), NEW limit,
           Enlarged(a, a, limit), NEW e, e.kind = "memory", NEW m,
           NEW b, b = ImportHostMemory(a, e, m), b.ok
    PROVE  Enlarged(a, b, limit) /\ ImportedGlobals(a, b, e)
<1> DEFINE index == Len(a.env.memories)
           memory == [page_limits |-> HostMemoryLimits,
                      data |-> Zeros(HostMemoryLimits.initial * MaxPages)]
           added == [a EXCEPT !.env.memories = Append(@, memory)]
           referred == [added EXCEPT !.env.modules[This(a)].memory_index = index]
           exported == AppendExport(referred, m, "memory", index, e.field)
<1>1. b \in {Error(added), exported}
  BY DEF ImportHostMemory
<1>2. memory.page_limits.initial \in Nat /\ IsSeq(memory.data)
  <2>1. HostMemoryLimits.initial = 1 /\ HostMemoryLimits.initial * MaxPages \in Nat
    BY PagesAssumption DEF HostMemoryLimits
  <2> QED BY <2>1, ZerosFacts
<1> HIDE DEF index, memory
<1>3. /\ SameSegmentState(a, added) /\ DOMAIN added = LoadFields
      /\ DOMAIN added.env = Fields
      /\ added.env.memories = Append(a.env.memories, memory)
      /\ added.env.globals = a.env.globals /\ added.env.tables = a.env.tables
  BY DEF Environment, LoadFields, Fields, Vectors, SameSegmentState, SameSegments
<1> HIDE DEF added
<1>4. ~Error(added).ok
  BY <1>3 DEF Error, LoadFields
<1>5. Calm(added, referred) /\ DOMAIN referred = LoadFields
      /\ DOMAIN referred.env = Fields
  BY <1>3 DEF LoadFields, Fields, Vectors, Calm, SameSegmentState, SameSegments,
              SameItems
<1> HIDE DEF referred
<1>6. Calm(referred, exported)
  BY <1>5, ExportCalm
<1> HIDE DEF exported
<1>7. Calm(added, b)
  BY <1>1, <1>4, <1>5, <1>6, CalmTwice
<1>8. Measured(added.env, limit) /\ SizesKept(a.env, added.env)
  <2> DEFINE old == a.env
             new == added.env
  <2>1. /\ Environment(old) /\ Measured(old, limit)
        /\ new.memories = Append(old.memories, memory)
        /\ new.globals = old.globals /\ new.tables = old.tables
    BY <1>3 DEF Enlarged
  <2> HIDE DEF old, new
  <2>2. Measured(new, limit) /\ SizesKept(old, new)
    BY <1>2, <2>1, MemoryAdded
  <2> QED BY <2>2 DEF old, new
<1>9. Enlarged(a, added, limit)
  BY <1>3, <1>8 DEF Enlarged, SameSegmentState
<1> QED BY <1>3, <1>7, <1>9, CalmEnlarged DEF Calm, SameSegmentState, ImportedGlobals

(* The count of imported globals is all that is left to differ.             *)
LEMMA CountedEnlarged ==
    ASSUME NEW a, NEW b, NEW c, NEW limit, Enlarged(a, b, limit),
           DOMAIN b = LoadFields, NEW index,
           c = [b EXCEPT !.global_index_mapping = Append(@, index),
                         !.num_global_imports = @ + 1]
    PROVE  /\ Enlarged(a, c, limit)
           /\ c.num_global_imports = b.num_global_imports + 1
<1>1. /\ c.env = b.env /\ c.init_expr_value = b.init_expr_value
      /\ c.elem_segment_infos = b.elem_segment_infos
      /\ c.data_segment_infos = b.data_segment_infos
      /\ c.table_offset = b.table_offset
      /\ c.num_global_imports = b.num_global_imports + 1
  BY DEF LoadFields
<1> QED BY <1>1 DEF Enlarged, SameSegments

LEMMA HostGlobalGoes ==
    ASSUME NEW a, DOMAIN a = LoadFields, Environment(a.env), NEW limit,
           Enlarged(a, a, limit), NEW e, e.kind = "global", NEW m,
           NEW b, b = ImportHostGlobal(a, e, m), b.ok
    PROVE  Enlarged(a, b, limit) /\ ImportedGlobals(a, b, e)
<1> DEFINE index == Len(a.env.globals)
           x == [typed_value |-> HostGlobals[e.field[1]], mutable_ |-> e.mutable_]
           unknown == [typed_value |-> [type |-> e.type, value |-> 0],
                       mutable_ |-> e.mutable_]
           failing == [a EXCEPT !.env.globals = Append(@, unknown)]
           added == [a EXCEPT !.env.globals = Append(@, x)]
           exported == AppendExport(added, m, "global", index, e.field)
           counted == [exported EXCEPT !.global_index_mapping = Append(@, index),
                                       !.num_global_imports = @ + 1]
<1> HIDE DEF index
<1>1. ~Error(failing).ok
  <2> HIDE DEF unknown
  <2> QED BY DEF Error, LoadFields
<1>2. b = counted /\ e.field \in {<<name>> : name \in DOMAIN HostGlobals}
  <2>1. b = IF e.field \notin {<<name>> : name \in DOMAIN HostGlobals}
            THEN Error(failing) ELSE counted
    BY DEF ImportHostGlobal, index
  <2> HIDE DEF counted, failing
  <2> QED BY <1>1, <2>1
<1>3. IsValue(x.typed_value)
  <2>1. PICK name \in DOMAIN HostGlobals : e.field = <<name>>
    BY <1>2
  <2>2. e.field[1] = name
    BY <2>1
  <2>3. IsValue(HostGlobals[name])
    BY <2>1 DEF HostGlobals, IsValue
  <2> QED BY <2>2, <2>3
<1> HIDE DEF x
<1>4. /\ SameSegmentState(a, added) /\ DOMAIN added = LoadFields
      /\ DOMAIN added.env = Fields
      /\ added.env.globals = Append(a.env.globals, x)
      /\ added.env.tables = a.env.tables /\ added.env.memories = a.env.memories
  BY DEF Environment, LoadFields, Fields, Vectors, SameSegmentState, SameSegments
<1> HIDE DEF added
<1>5. Calm(added, exported) /\ DOMAIN exported = LoadFields
  BY <1>4, ExportCalm, ExportFields
<1> HIDE DEF exported
<1>6. Measured(added.env, limit) /\ SizesKept(a.env, added.env)
  <2> DEFINE old == a.env
             new == added.env
  <2>1. /\ Environment(old) /\ Measured(old, limit)
        /\ new.globals = Append(old.globals, x)
        /\ new.tables = old.tables /\ new.memories = old.memories
    BY <1>4 DEF Enlarged
  <2> HIDE DEF old, new
  <2>2. Measured(new, limit) /\ SizesKept(old, new)
    BY <1>3, <2>1, GlobalAdded
  <2> QED BY <2>2 DEF old, new
<1>7. Enlarged(a, added, limit)
  BY <1>4, <1>6 DEF Enlarged, SameSegmentState
<1>8. Enlarged(a, exported, limit)
  BY <1>5, <1>7, CalmEnlarged
<1>9. Enlarged(a, b, limit) /\ b.num_global_imports = exported.num_global_imports + 1
  <2> HIDE DEF counted
  <2>1. counted = [exported EXCEPT !.global_index_mapping = Append(@, index),
                                   !.num_global_imports = @ + 1]
    BY DEF counted
  <2> QED BY <1>2, <1>5, <1>8, <2>1, CountedEnlarged
<1> QED BY <1>4, <1>5, <1>9 DEF Calm, SameSegmentState, ImportedGlobals

LEMMA ImportDefinedGoes ==
    ASSUME NEW a, DOMAIN a = LoadFields, Environment(a.env), NEW limit,
           Enlarged(a, a, limit), NEW e, e.kind \in Kinds, NEW m, NEW sig_index,
           NEW b, b = ImportDefined(a, e, m, sig_index), b.ok
    PROVE  Enlarged(a, b, limit) /\ ImportedGlobals(a, b, e)
<1> DEFINE found == GetExport(a.env.modules[m], e.field)
           index == found[1].index
<1>1. b = Imported(a, e.kind, index)
  <2>1. b \in {Error(a), Imported(a, e.kind, index)}
    BY DEF ImportDefined
  <2>2. ~Error(a).ok
    BY DEF Error, LoadFields
  <2> QED BY <2>1, <2>2
<1> HIDE DEF index
<1>2. CASE e.kind = "func"
  <2>1. b = [a EXCEPT !.func_index_mapping = Append(@, index),
                      !.num_func_imports = @ + 1]
    BY <1>1, <1>2 DEF Imported
  <2>2. Calm(a, b)
    BY <2>1 DEF LoadFields, Calm, SameSegmentState, SameSegments, SameItems
  <2> QED BY <1>2, <2>2, CalmEnlarged DEF Calm, SameSegmentState, ImportedGlobals
<1>3. CASE e.kind = "table"
  <2>1. b = [a EXCEPT !.env.modules[This(a)].table_index = index]
    BY <1>1, <1>3 DEF Imported
  <2>2. Calm(a, b)
    BY <2>1 DEF LoadFields, Environment, Fields, Vectors, Calm, SameSegmentState,
                SameSegments, SameItems
  <2> QED BY <1>3, <2>2, CalmEnlarged DEF Calm, SameSegmentState, ImportedGlobals
<1>4. CASE e.kind = "memory"
  <2>1. b = [a EXCEPT !.env.modules[This(a)].memory_index = index]
    BY <1>1, <1>4 DEF Imported
  <2>2. Calm(a, b)
    BY <2>1 DEF LoadFields, Environment, Fields, Vectors, Calm, SameSegmentState,
                SameSegments, SameItems
  <2> QED BY <1>4, <2>2, CalmEnlarged DEF Calm, SameSegmentState, ImportedGlobals
<1>5. CASE e.kind = "global"
  <2>1. b = [a EXCEPT !.global_index_mapping = Append(@, index),
                      !.num_global_imports = @ + 1]
    BY <1>1, <1>5 DEF Imported
  <2> QED BY <1>5, <2>1, CountedEnlarged DEF ImportedGlobals
<1> QED BY <1>2, <1>3, <1>4, <1>5 DEF Kinds

LEMMA ImportGoes ==
    ASSUME NEW file, FileRead(file), NEW n \in 1 .. Len(file), NEW base,
           NEW limit, HostTableLimits.initial <= limit,
           NEW a, Read(a, file, n, base), Unwritten(a.env, base),
           Placed(a, file, n, limit), NEW found, file[n].on = "import"
    PROVE  Goes(Callback(a, file[n], found), file, n, limit)
<1> DEFINE e == file[n]
           sig_index == IF e.kind = "func" THEN TranslateSigIndexToEnv(a, e.sig)
                        ELSE kInvalidIndex
           noted == AddImport(a, e, sig_index)
           m == found + 1
           b == Callback(a, e, found)
<1> SUFFICES ASSUME b.ok PROVE Goes(b, file, n, limit)
  BY DEF Goes
<1>1. b = OnImport(a, e, found)
  BY DEF Callback
<1>2. e.kind \in Kinds
  BY FileFacts DEF FileRead, ArgumentsChecked
<1>3. DOMAIN a = LoadFields /\ DOMAIN a.env = Fields
  BY DEF Read, Environment
<1>4. b \in {Error(a), Error(noted), ImportHost(noted, e, m, sig_index),
             ImportDefined(noted, e, m, sig_index)}
  BY <1>1 DEF OnImport
<1> HIDE DEF sig_index, b, m
<1>5. /\ Calm(a, noted) /\ DOMAIN noted = LoadFields
      /\ Environment(noted.env)
  <2> DEFINE event_ == e
             noted_ == AddImport(a, event_, sig_index)
  <2>1. Calm(a, noted_) /\ DOMAIN noted_ = LoadFields
    BY <1>3, ImportCalm
  <2>2. Read(noted_, file, n, base)
    <3> HIDE DEF event_
    <3> QED BY ImportNoted
  <2> QED BY <2>1, <2>2 DEF Read
<1>6. ~Error(a).ok /\ ~Error(noted).ok
  <2> HIDE DEF noted
  <2> QED BY <1>3, <1>5 DEF Error, LoadFields
<1> HIDE DEF noted, e
<1>7. Enlarged(a, noted, limit) /\ Measured(noted.env, limit)
  BY <1>5, EnlargedItself DEF Read, Enlarged
<1>8. Enlarged(noted, noted, limit)
  <2>1. SizesKept(noted.env, noted.env)
    BY <1>5, SameSizes DEF SameItems
  <2> QED BY <1>7, <2>1 DEF Enlarged, SameSegments
<1>9. Enlarged(noted, b, limit) /\ ImportedGlobals(noted, b, e)
  <2>1. CASE b = ImportDefined(noted, e, m, sig_index)
    BY <1>2, <1>5, <1>8, <2>1, ImportDefinedGoes
  <2>2. CASE b = ImportHost(noted, e, m, sig_index)
    <3>1. CASE e.kind = "func"
      BY <1>5, <1>8, <2>2, <3>1, HostFuncGoes DEF ImportHost
    <3>2. CASE e.kind = "table"
      BY <1>5, <1>8, <2>2, <3>2, HostTableGoes DEF ImportHost
    <3>3. CASE e.kind = "memory"
      BY <1>5, <1>8, <2>2, <3>3, HostMemoryGoes DEF ImportHost
    <3>4. CASE e.kind = "global"
      BY <1>5, <1>8, <2>2, <3>4, HostGlobalGoes DEF ImportHost
    <3> QED BY <1>2, <3>1, <3>2, <3>3, <3>4 DEF Kinds
  <2> QED BY <1>4, <1>6, <2>1, <2>2
<1>10. Enlarged(a, b, limit)
  <2>1. SizesKept(a.env, b.env)
    BY <1>5, <1>9 DEF Enlarged, Calm, SameItems, SizesKept
  <2> QED BY <1>5, <1>9, <2>1
          DEF Enlarged, Calm, SameSegmentState, SameSegments
<1>11. ImportedGlobals(a, b, e)
  BY <1>5, <1>9 DEF ImportedGlobals, Calm, SameSegmentState
<1> QED BY <1>10, <1>11, EnlargedGoes DEF ImportedGlobals, e

(* Every callback of a file that is read to its end.                        *)
LEMMA CallbackGoes ==
    ASSUME NEW file, FileRead(file), NEW n \in 1 .. Len(file), NEW base,
           NEW limit \in Nat, HostTableLimits.initial <= limit,
           ShortSegments(file, limit), Last(file).on = "end_module",
           NEW a, Read(a, file, n, base), Unwritten(a.env, base),
           Placed(a, file, n, limit), NEW found
    PROVE  Goes(Callback(a, file[n], found), file, n, limit)
<1> DEFINE e == file[n]
<1>1. e.on \in DOMAIN SectionOf \union {"const", "get_global"}
  BY FileFacts DEF FileRead, SectionsInOrder
<1>2. n \in DOMAIN file
  BY FileFacts
<1>3. CASE e.on \in CalmEvents \ {"elem_count"}
  BY <1>3, CalmGoes
<1>4. CASE e.on = "elem_count"
  BY <1>2, <1>4, ElemCountGoes DEF ShortSegments
<1>5. CASE e.on = "elem"
  <2>1. PICK m \in 1 .. n - 1 : file[m].on = "elem_count"
    BY <1>2, <1>5 DEF FileRead, SegmentsRead
  <2>2. m \in DOMAIN file /\ file[m].count \in Nat
    BY <1>2, <2>1, FileFacts DEF FileRead, SegmentsRead
  <2>3. limit + file[m].count <= MaxIndex
    BY <2>1, <2>2 DEF ShortSegments
  <2> DEFINE count == file[m].count
  <2> HIDE DEF count
  <2>4. count \in Nat /\ limit + count <= MaxIndex
    BY <2>2, <2>3 DEF count
  <2>5. limit <= MaxIndex
    BY <2>4, MaxIndexAssumption
  <2> QED BY <1>5, <2>5, ElemGoes
<1>6. CASE e.on \in {"const", "get_global", "elem_offset"}
  BY <1>6, ValueGoes
<1>7. CASE e.on = "data"
  BY <1>7, DataGoes
<1>8. CASE e.on = "import"
  BY <1>8, ImportGoes
<1>9. CASE e.on = "table"
  BY <1>2, <1>9, TableGoes DEF ShortSegments
<1>10. CASE e.on = "memory"
  BY <1>10, MemoryGoes
<1>11. CASE e.on = "global"
  BY <1>11, GlobalGoes
<1>12. CASE e.on = "end_global"
  BY <1>12, EndGlobalGoes
<1>13. CASE e.on = "end_module"
  BY <1>13, EndModuleGoes
<1> QED BY <1>1, <1>3, <1>4, <1>5, <1>6, <1>7, <1>8, <1>9, <1>10, <1>11, <1>12,
           <1>13 DEF SectionOf, CalmEvents

(* A load begins with nothing to place.                                     *)
LEMMA NewLoadPlaced ==
    ASSUME NEW file, FileRead(file), NEW base, Environment(base),
           NEW limit, Measured(base, limit), NEW ld, ld = NewLoad(base)
    PROVE  Placed(ld, file, 1, limit)
<1> DEFINE m == NewModule(FALSE)
<1>1. /\ SameItems(base, ld.env) /\ ld.num_global_imports = 0
      /\ ld.elem_segment_infos = Empty /\ ld.data_segment_infos = Empty
      /\ IsValue(ld.init_expr_value) /\ ld.table_offset = 0
  <2> HIDE DEF m
  <2>1. ld.env = [base EXCEPT !.modules = Append(@, m)]
    BY DEF NewLoad, m
  <2>2. SameItems(base, ld.env)
    BY <2>1 DEF Environment, Fields, Vectors, SameItems
  <2> QED BY <2>2 DEF NewLoad, Empty, IsValue
<1>2. Measured(ld.env, limit)
  BY <1>1, SameMeasured
<1>3. ItemIndex(file, "global", 1) = 0
  BY FirstIndex
<1>4. GlobalsCounted(ld, file, 1)
  BY <1>1, <1>3 DEF GlobalsCounted
<1>5. Room(ld, file, 1)
  BY DEF Room
<1> QED BY <1>1, <1>2, <1>4, <1>5, EmptyFacts DEF Placed

-----------------------------------------------------------------------------
(* What the commands leave of the sizes *)

LEMMA MemoryStillMeasured ==
    ASSUME NEW e, Environment(e), NEW limit, Measured(e, limit), NEW m
    PROVE  Measured(GrowMemory(e, m), limit)
<1> DEFINE limits == e.memories[m + 1].page_limits
           pages == e.memories[m + 1].page_limits.initial + 1
           x == [page_limits |-> [initial |-> pages, has_max |-> limits.has_max,
                                  max |-> limits.max],
                 data |-> Resized(e.memories[m + 1].data, pages * PageSize)]
           after == [e EXCEPT !.memories = [e.memories EXCEPT ![m + 1] = x]]
           index == m + 1
           s == e.memories
           t == [s EXCEPT ![index] = x]
<1>1. GrowMemory(e, m) \in {e, after}
  BY DEF GrowMemory
<1>2. ASSUME index \in 1 .. Len(s)
      PROVE  x.page_limits.initial \in Nat /\ IsSeq(x.data)
  <2>1. s[index].page_limits.initial \in Nat
    BY <1>2 DEF Measured
  <2>2. pages \in Nat
    BY <2>1
  <2> HIDE DEF pages
  <2>3. pages * PageSize \in Nat
    BY <2>2, PagesAssumption
  <2> QED BY <2>2, <2>3, ResizedFacts
<1>3. /\ after.memories = t /\ after.tables = e.tables /\ after.globals = e.globals
  BY DEF Environment, Fields, Vectors
<1>4. IsSeq(s) /\ DOMAIN s = 1 .. Len(s) /\ Len(s) \in Nat
  BY EnvironmentVectors, SeqFacts
<1>5. \A i \in 1 .. Len(s) : s[i].page_limits.initial \in Nat /\ IsSeq(s[i].data)
  BY DEF Measured
<1> HIDE DEF x, index, s
<1>6. /\ t = [i \in 1 .. Len(s) |-> t[i]]
      /\ \A i \in 1 .. Len(s) : t[i] = IF i = index THEN x ELSE s[i]
  BY <1>4
<1>7. \A i \in 1 .. Len(s) : t[i].page_limits.initial \in Nat /\ IsSeq(t[i].data)
  BY <1>2, <1>5, <1>6
<1> HIDE DEF t
<1>8. Len(t) = Len(s)
  BY <1>4, <1>6, FunctionIsSeq
<1> HIDE DEF after
<1>9. Measured(after, limit)
  BY <1>3, <1>7, <1>8 DEF Measured
<1> QED BY <1>1, <1>9

LEMMA RunMeasured ==
    ASSUME NEW e, Environment(e), NEW limit, Measured(e, limit), NEW index, NEW args
    PROVE  Measured(RunFunction(e, index, args).env, limit)
<1> DEFINE func == e.funcs[index + 1]
           sig == e.sigs[func.sig_index + 1]
           code == e.istream[func.offset + 1]
<1>1. RunDefinedFunction(e, func, sig.results).env
          \in {e, GrowMemory(e, code.memory)}
  BY DEF RunDefinedFunction, Ran
<1>2. DefaultHostCallback(e, sig.results).env = e
  BY DEF DefaultHostCallback, Ran
<1>3. RunFunction(e, index, args).env
          \in {e, DefaultHostCallback(e, sig.results).env,
               RunDefinedFunction(e, func, sig.results).env}
  BY DEF RunFunction, Ran
<1> HIDE DEF func, sig, code
<1> QED BY <1>1, <1>2, <1>3, MemoryStillMeasured

LEMMA StartMeasured ==
    ASSUME NEW e, Environment(e), NEW limit, Measured(e, limit), NEW module
    PROVE  Measured(RunStartFunction(e, module).env, limit)
BY RunMeasured DEF RunStartFunction, Ran

LEMMA ActionMeasured ==
    ASSUME Environment(env), NEW limit, Measured(env, limit), NEW action, NEW m
    PROVE  Measured(RunAction(action, m).env, limit)
<1> DEFINE module == env.modules[m + 1]
           found == GetExport(module, action.field)
           name == action.field
           args == action.args
<1>1. RunExportByName(env, module, name, args).env
          \in {env, RunFunction(env, found[1].index, args).env}
  BY DEF RunExportByName, Ran
<1>2. GetGlobalExportByName(env, module, name).env = env
  BY DEF GetGlobalExportByName, Ran
<1>3. RunAction(action, m).env
          \in {RunExportByName(env, module, name, args).env,
               GetGlobalExportByName(env, module, name).env}
  BY DEF RunAction
<1> HIDE DEF found, module, name, args
<1> QED BY <1>1, <1>2, <1>3, RunMeasured

(* What is erased is measured no more.                                      *)
LEMMA ResetMeasured ==
    ASSUME NEW base, Environment(base), NEW e, Environment(e), Kept(e, base),
           NEW r, r = ResetToMarkPoint(e, Mark(base)), NEW limit,
           Measured(e, limit) \/ (Measured(base, limit) /\ Unwritten(e, base))
    PROVE  Measured(r, limit)
<1>1. \A v \in Vectors :
         /\ Len(r[v]) = Len(base[v])
         /\ \A i \in 1 .. Len(base[v]) : r[v][i] = e[v][i]
  BY ResetFacts
<1>2. \A v \in Vectors : /\ Len(base[v]) \in Nat /\ Len(e[v]) \in Nat
                         /\ Len(base[v]) <= Len(e[v])
  BY KeptLengths
<1>3. \A v \in {"globals", "tables", "memories"} :
         /\ Len(r[v]) = Len(base[v])
         /\ \A i \in 1 .. Len(base[v]) : r[v][i] = e[v][i] /\ i \in 1 .. Len(e[v])
  <2> SUFFICES ASSUME NEW v \in {"globals", "tables", "memories"}
               PROVE  /\ Len(r[v]) = Len(base[v])
                      /\ \A i \in 1 .. Len(base[v]) :
                            r[v][i] = e[v][i] /\ i \in 1 .. Len(e[v])
    OBVIOUS
  <2>1. v \in Vectors
    BY DEF Vectors
  <2>2. \A i \in 1 .. Len(base[v]) : i \in 1 .. Len(e[v])
    BY <1>2, <2>1
  <2> QED BY <1>1, <2>1, <2>2
<1>4. CASE Measured(e, limit)
  BY <1>3, <1>4 DEF Measured
<1>5. CASE Measured(base, limit) /\ Unwritten(e, base)
  <2>1. \A v \in {"globals", "tables", "memories"} :
           \A i \in 1 .. Len(base[v]) : e[v][i] = base[v][i]
    BY <1>5 DEF Unwritten, Kept
  <2> QED BY <1>3, <1>5, <2>1 DEF Measured
<1> QED BY <1>4, <1>5

LEMMA NamedItems ==
    ASSUME NEW e, Environment(e)
    PROVE  SameItems(e, Named(e))
BY DEF Named, SameItems, Environment, Fields, Vectors

LEMMA InitMeasured ==
    ASSUME NEW limit
    PROVE  Measured(InitEnvironment, limit)
<1>1. /\ InitEnvironment.memories = Empty /\ InitEnvironment.tables = Empty
      /\ InitEnvironment.globals = Empty
  BY DEF InitEnvironment, AppendHostModule, NewEnvironment, Empty
<1>2. \A i \in 1 .. Len(Empty) : FALSE
  BY EmptyFacts
<1> QED BY <1>1, <1>2 DEF Measured

LEMMA BaseMeasured ==
    ASSUME NEW limit, Measured(env, limit)
    PROVE  Measured(Base, limit)
BY InitMeasured DEF Base

(* A command, or the end of a load, keeps the measures.                     *)
LEMMA LoadFailedMeasured ==
    ASSUME LoadInv, NEW limit, SegmentsInv(limit), LoadFailed
    PROVE  Measured(env', limit)
<1> DEFINE r == ResetToMarkPoint(load.env, mark)
<1>1. phase = "failed" /\ env' \in {env, r}
  BY DEF LoadFailed, AfterLoad
<1>2. Begun(load.env, Base) /\ mark = Mark(Base)
  BY <1>1 DEF LoadInv, LoadFailing, LoadMarked
<1>3. Measured(env, limit) /\ Measured(Base, limit)
  BY BaseMeasured DEF SegmentsInv
<1>4. Measured(r, limit)
  <2>1. r = ResetToMarkPoint(load.env, Mark(Base))
    BY <1>2
  <2> HIDE DEF r
  <2> QED BY <1>2, <1>3, <2>1, ResetMeasured DEF Begun
<1> QED BY <1>1, <1>3, <1>4

LEMMA LoadedMeasured ==
    ASSUME LoadInv, NEW limit, SegmentsInv(limit),
           OnModuleCommand \/ OnAssertNotLoaded \/ OnAssertUninstantiableCommand
    PROVE  Measured(env', limit)
<1> DEFINE started == RunStartFunction(load.env, Module(load))
           e == started.env
           r == ResetToMarkPoint(e, mark)
           s == ResetToMarkPoint(load.env, mark)
<1>1. phase = "loaded" /\ env' \in {env, r, s, Named(e)}
  BY DEF OnModuleCommand, OnAssertNotLoaded, OnAssertUninstantiableCommand, AfterLoad
<1>2. /\ Environment(Base) /\ Environment(load.env) /\ Kept(load.env, Base)
      /\ mark = Mark(Base)
  BY <1>1, LoadedFacts
<1>3. Last(File).on = "end_module"
  BY <1>1 DEF LoadInv, LoadLoaded
<1>4. Measured(env, limit) /\ Measured(load.env, limit)
  BY <1>1, <1>3 DEF SegmentsInv, Placed
<1>5. OnlyGrown(load.env, e)
  BY <1>2, NotGrown, FunctionRun DEF RunStartFunction, Ran
<1>6. Measured(e, limit)
  BY <1>2, <1>4, StartMeasured
<1>7. r = ResetToMarkPoint(e, Mark(Base)) /\ s = ResetToMarkPoint(load.env, Mark(Base))
  BY <1>2
<1> HIDE DEF e, r, s
<1>8. Environment(e) /\ Kept(e, Base)
  BY <1>2, <1>5, GrownFacts
<1>9. Measured(r, limit) /\ Measured(s, limit)
  BY <1>2, <1>4, <1>6, <1>7, <1>8, ResetMeasured
<1>10. Measured(Named(e), limit)
  BY <1>6, <1>8, NamedItems, SameMeasured
<1> QED BY <1>1, <1>4, <1>9, <1>10

LEMMA OtherMeasured ==
    ASSUME LoadInv, NEW limit, SegmentsInv(limit), OnRegisterCommand \/ OnAction
    PROVE  Measured(env', limit)
<1>1. Measured(env, limit) /\ Environment(env)
  BY DEF SegmentsInv, LoadInv, Whole
<1>2. CASE OnRegisterCommand
  <2>1. CASE env' = env
    BY <1>1, <2>1
  <2>2. CASE env' # env
    <3> DEFINE found == IF Command.name = <<>> THEN {GetLastModuleIndex(env)}
                        ELSE Bound(env.module_bindings, Command.name)
    <3>1. PICK index \in found : env' = Registered(env, Command.as, index)
      BY <1>2, <2>2 DEF OnRegisterCommand, Registered
    <3>2. SameItems(env, env')
      BY <1>1, <3>1 DEF Registered, SameItems, Environment, Fields, Vectors
    <3> QED BY <1>1, <3>2, SameMeasured
  <2> QED BY <2>1, <2>2
<1>3. CASE OnAction
  <2>1. PICK m \in ActionModules(Command.action) :
            env' = RunAction(Command.action, m).env
    BY <1>3 DEF OnAction
  <2> QED BY <1>1, <2>1, ActionMeasured
<1> QED BY <1>2, <1>3

-----------------------------------------------------------------------------
(* Every step keeps what the segments rely on *)

ShortFiles(limit) == \A name \in DOMAIN Files : ShortSegments(Files[name], limit)

LEMMA FileIsShort ==
    ASSUME ScriptGiven, NEW limit, ShortFiles(limit)
    PROVE  Last(File).on = "end_module" => ShortSegments(File, limit)
<1>1. CASE File = <<[on |-> "error"]>>
  <2>1. Last(File).on = "error"
    BY <1>1 DEF Last
  <2> QED BY <2>1
<1>2. CASE \E name \in DOMAIN Files : File = Files[name]
  BY <1>2 DEF ShortFiles
<1> QED BY <1>1, <1>2, FileGiven

LEMMA InitSegments ==
    ASSUME Init, NEW limit
    PROVE  SegmentsInv(limit)
BY InitMeasured DEF Init, SegmentsInv

(* A step after which no module is being loaded.                            *)
LEMMA NoLoadSegments ==
    ASSUME NEW limit, Measured(env, limit)', phase' \notin {"reading", "loaded"}
    PROVE  SegmentsInv(limit)'
BY DEF SegmentsInv

LEMMA BeginLoadSegments ==
    ASSUME LoadInv, NEW limit, SegmentsInv(limit), BeginLoad
    PROVE  SegmentsInv(limit)'
<1>1. /\ UNCHANGED <<script, commands, at, env>> /\ event' = 1
      /\ load' = NewLoad(Base)
  BY DEF BeginLoad, Base
<1>2. File' = File /\ FileRead(File)
  BY <1>1, LoadStays, FileIsRead DEF LoadInv
<1>3. Environment(Base) /\ Measured(Base, limit) /\ Measured(env, limit)
  BY BaseWhole, BaseMeasured DEF LoadInv, SegmentsInv
<1>4. Placed(load', File, 1, limit)
  BY <1>1, <1>2, <1>3, NewLoadPlaced
<1> QED BY <1>1, <1>2, <1>3, <1>4 DEF SegmentsInv

LEMMA ReadCallbackSegments ==
    ASSUME LoadInv, NEW limit \in Nat, HostTableLimits.initial <= limit,
           ShortFiles(limit), SegmentsInv(limit), ReadCallback
    PROVE  SegmentsInv(limit)'
<1>1. /\ UNCHANGED <<script, commands, at, env>> /\ event' = event + 1
      /\ phase = "reading" /\ event <= Len(File)
      /\ \E found \in Found(File[event]) : load' = Callback(load, File[event], found)
      /\ phase' = "reading" => load'.ok /\ ~load'.aborted
      /\ phase' \in {"reading", "failed", "aborted"}
  BY DEF ReadCallback
<1>2. File' = File /\ FileRead(File)
  BY <1>1, LoadStays, FileIsRead DEF LoadInv
<1>3. Measured(env, limit)'
  BY <1>1 DEF SegmentsInv
<1>4. CASE phase' = "reading" /\ Last(File).on = "end_module"
  <2>1. /\ Read(load, File, event, Base) /\ Unwritten(load.env, Base)
        /\ event \in 1 .. Len(File) + 1
    BY <1>1 DEF LoadInv, LoadReading
  <2>2. event \in 1 .. Len(File)
    BY <1>1, <1>2, <2>1, FileFacts
  <2>3. Placed(load, File, event, limit)
    BY <1>1, <1>4 DEF SegmentsInv
  <2>4. ShortSegments(File, limit)
    BY <1>4, FileIsShort DEF LoadInv
  <2>5. Goes(load', File, event, limit)
    BY <1>1, <1>2, <1>4, <2>1, <2>2, <2>3, <2>4, CallbackGoes
  <2>6. Placed(load', File, event + 1, limit)
    BY <1>1, <1>4, <2>5 DEF Goes
  <2> QED BY <1>1, <1>2, <1>3, <2>6 DEF SegmentsInv
<1>5. CASE ~(phase' = "reading" /\ Last(File).on = "end_module")
  BY <1>1, <1>2, <1>3, <1>5 DEF SegmentsInv
<1> QED BY <1>4, <1>5

LEMMA EndLoadSegments ==
    ASSUME LoadInv, NEW limit, SegmentsInv(limit), EndLoad
    PROVE  SegmentsInv(limit)'
<1> DEFINE first == mark.istream
           b == LoadEnded(load, first)
<1>1. /\ UNCHANGED <<script, commands, at, env, event>>
      /\ phase = "reading" /\ event > Len(File) /\ load' = b
  BY DEF EndLoad, LoadEnded
<1>2. /\ Read(load, File, event, Base) /\ Last(File).on = "end_module"
      /\ event \in 1 .. Len(File) + 1
  BY <1>1 DEF LoadInv, LoadReading
<1>3. File' = File
  BY <1>1, LoadStays
<1>4. Measured(env, limit) /\ Placed(load, File, event, limit)
  BY <1>1, <1>2 DEF SegmentsInv
<1> HIDE DEF first
<1>5. Calm(load, b)
  BY <1>2 DEF Read, Environment, LoadEnded, LoadFields, Fields, Vectors, Calm,
              SameSegmentState, SameSegments, SameItems
<1> HIDE DEF b
<1>6. SizesKept(load.env, b.env) /\ Measured(b.env, limit)
  BY <1>2, <1>4, <1>5, SameSizes, SameMeasured DEF Read, Calm, Placed
<1>7. Room(b, File, event)
  <2>1. FileRead(File) /\ Len(File) \in Nat
    BY FileIsRead, FileFacts DEF LoadInv
  <2>2. event = Len(File) + 1 /\ File[Len(File)].on = "end_module"
    BY <1>1, <1>2, <2>1 DEF Last
  <2> QED BY <2>1, <2>2, RoomKept
<1>8. Placed(b, File, event, limit)
  <2>1. \A i \in 1 .. Len(b.elem_segment_infos) :
           ElemPlaced(b.env, b.elem_segment_infos[i])
    BY <1>4, <1>5, <1>6, StillPlaced
       DEF Placed, Calm, SameSegmentState, SameSegments
  <2>2. \A i \in 1 .. Len(b.data_segment_infos) :
           DataPlaced(b.env, b.data_segment_infos[i])
    BY <1>4, <1>5, <1>6, StillPlaced
       DEF Placed, Calm, SameSegmentState, SameSegments
  <2>3. GlobalsCounted(b, File, event)
    BY <1>4, <1>5 DEF Placed, Calm, SameSegmentState, GlobalsCounted
  <2> QED BY <1>4, <1>5, <1>6, <1>7, <2>1, <2>2, <2>3
          DEF Placed, Calm, SameSegmentState, SameSegments
<1> QED BY <1>1, <1>3, <1>4, <1>8 DEF SegmentsInv

LEMMA StepSegments ==
    ASSUME LoadInv, NEW limit \in Nat, HostTableLimits.initial <= limit,
           ShortFiles(limit), SegmentsInv(limit), [Next]_vars
    PROVE  SegmentsInv(limit)'
<1>1. CASE UNCHANGED vars
  <2>1. UNCHANGED <<script, commands, at, phase, env, load, event>>
    BY <1>1 DEF vars
  <2>2. File' = File
    BY <2>1, LoadStays
  <2> QED BY <2>1, <2>2 DEF SegmentsInv
<1>2. CASE \/ \E c \in Commands[Len(script) + 1] : AddCommand(c)
           \/ ReadScript \/ ReadError
           \/ \E ok \in BOOLEAN : ReadInvalidTextModule(ok)
           \/ OnActionOfUnknownModule
  <2>1. env' = env /\ phase' \notin {"reading", "loaded"}
    BY <1>2 DEF AddCommand, ReadScript, ReadError, ReadInvalidTextModule,
                OnActionOfUnknownModule, Running
  <2> QED BY <2>1, NoLoadSegments DEF SegmentsInv
<1>3. CASE BeginLoad
  BY <1>3, BeginLoadSegments
<1>4. CASE ReadCallback
  BY <1>4, ReadCallbackSegments
<1>5. CASE EndLoad
  BY <1>5, EndLoadSegments
<1>6. CASE \/ LoadFailed \/ OnModuleCommand \/ OnAssertNotLoaded
           \/ OnAssertUninstantiableCommand \/ OnRegisterCommand \/ OnAction
  <2>1. phase' = "running"
    BY <1>6 DEF LoadFailed, OnModuleCommand, OnAssertNotLoaded,
                OnAssertUninstantiableCommand, OnRegisterCommand, OnAction, Running
  <2>2. Measured(env', limit)
    BY <1>6, LoadFailedMeasured, LoadedMeasured, OtherMeasured
  <2> QED BY <2>1, <2>2, NoLoadSegments
<1> QED BY <1>1, <1>2, <1>3, <1>4, <1>5, <1>6 DEF Next

LEMMA PlacedInBounds ==
    ASSUME LoadInv, NEW limit, SegmentsInv(limit)
    PROVE  SegmentsInBounds
<1> SUFFICES ASSUME phase = "loaded" PROVE SegmentsInBounds
  BY DEF SegmentsInBounds
<1>1. Placed(load, File, event, limit) /\ Environment(load.env)
  BY DEF SegmentsInv, LoadInv, LoadLoaded, Read
<1>2. ASSUME NEW info \in Range(load.elem_segment_infos)
      PROVE  info.at < Len(load.env.tables[info.table + 1].func_indexes)
  <2>1. PICK i \in 1 .. Len(load.elem_segment_infos) :
            load.elem_segment_infos[i] = info
    BY <1>1, SeqFacts DEF Placed, Range
  <2>2. ElemPlaced(load.env, info)
    BY <1>1, <2>1 DEF Placed
  <2> DEFINE entries == load.env.tables[info.table + 1].func_indexes
  <2>3. IsSeq(entries)
    <3>1. info.table + 1 \in 1 .. Len(load.env.tables)
      BY <1>1, <2>2, Lengths DEF ElemPlaced, IndexOf
    <3> QED BY <1>1, <3>1 DEF Environment
  <2>4. info.at \in 0 .. Len(entries) - 1
    BY <2>2 DEF ElemPlaced
  <2> HIDE DEF entries
  <2>5. info.at < Len(entries)
    BY <2>3, <2>4, SeqFacts
  <2> QED BY <2>5 DEF entries
<1>3. ASSUME NEW info \in Range(load.data_segment_infos)
      PROVE  info.at + Len(info.data)
                 <= Len(load.env.memories[info.memory + 1].data)
  <2>1. PICK i \in 1 .. Len(load.data_segment_infos) :
            load.data_segment_infos[i] = info
    BY <1>1, SeqFacts DEF Placed, Range
  <2> QED BY <1>1, <2>1 DEF Placed, DataPlaced
<1> QED BY <1>2, <1>3 DEF SegmentsInBounds

(* What OnElemSegmentFunctionIndex and OnDataSegmentData have noted lies    *)
(* within its table or memory when EndModule writes it: for every script    *)
(* and every file whose segments are so short that OnElemSegment-           *)
(* FunctionIndexCount adds offset and count without wrapping.  The sizes    *)
(* of tables are bounded where they are declared, by the files and by the   *)
(* host (HostTableLimits), and nothing makes a table longer afterwards.     *)
THEOREM SegmentsAlwaysInBounds ==
    ASSUME NEW limit \in Nat, HostTableLimits.initial <= limit,
           \A name \in DOMAIN Files : ShortSegments(Files[name], limit)
    PROVE  Spec => []SegmentsInBounds
<1>1. ShortFiles(limit)
  BY DEF ShortFiles
<1>2. Init => SegmentsInv(limit)
  BY InitSegments
<1>3. LoadInv /\ SegmentsInv(limit) /\ [Next]_vars => SegmentsInv(limit)'
  BY <1>1, StepSegments
<1>4. LoadInv /\ SegmentsInv(limit) => SegmentsInBounds
  BY PlacedInBounds
<1> QED BY <1>2, <1>3, <1>4, LoadInvariant, PTL DEF Spec
=============================================================================
