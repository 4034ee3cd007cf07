---------------------------------- MODULE Text ---------------------------------
(***************************************************************************)
(* The tools that write text and read it back: wasm2wat and wat-desugar    *)
(* (src/tools/wasm2wat.cc, wat-desugar.cc) make a text of a module, with   *)
(* generated names or without, and wat2wasm (wat2wasm.cc) makes a module   *)
(* of the text.  Each tool works in steps that rewrite the same module.    *)
(*                                                                         *)
(* An input has the tool, its source (a module for wasm2wat, which it read *)
(* from its binary form; a text for wat-desugar), what the source means (one *)
(* module with indexes, or none when it is to be refused), whether the  *)
(* validator refuses the module, and the options.                          *)
(***************************************************************************)
EXTENDS TextNames, WatWriter, WastParser

CONSTANT Inputs

VARIABLES input, stage, ok, module, text

vars == <<input, stage, ok, module, text>>

Stages == {"start", "read", "generated", "applied", "written", "parsed",
           "resolved", "stopped"}

Init ==
    /\ input \in Inputs
    /\ stage = "start"
    /\ ok = TRUE
    /\ module = EmptyModule
    /\ text = <<>>

(* wasm2wat: the module, and whether the validator accepts it.              *)
ReadBinaryIr ==
    /\ stage = "start" /\ input.tool = "wasm2wat"
    /\ module' = input.source
    /\ ok' = ~input.refused
    /\ stage' = "read"
    /\ UNCHANGED <<input, text>>

ModuleCommands(commands) ==
    SelectSeq(commands, LAMBDA command : command.type = "Module")

(* wat-desugar: the first module of the script.                             *)
FirstModule(parsed, modules) ==
    IF parsed.ok /\ modules # <<>>
    THEN stage' = "read" /\ module' = modules[1].of /\ ok' = TRUE
    ELSE stage' = "stopped" /\ ok' = FALSE /\ UNCHANGED module

ScriptRead(parsed) == FirstModule(parsed, ModuleCommands(parsed.val))

ParseWast ==
    /\ stage = "start" /\ input.tool = "wat-desugar"
    /\ ScriptRead(ParseWastScript(input.source))
    /\ UNCHANGED <<input, text>>

(* The result of the generator takes the place of that of the validator.    *)
Generate ==
    /\ stage = "read" /\ input.generate
    /\ module' = GenerateNames(module)
    /\ ok' = TRUE
    /\ stage' = "generated"
    /\ UNCHANGED <<input, text>>

(* wasm2wat goes on when a name cannot be applied.                          *)
Applied(applied) ==
    /\ module' = applied.module
    /\ ok' = (applied.ok \/ input.tool = "wasm2wat")

Apply ==
    /\ stage = IF input.generate THEN "generated" ELSE "read"
    /\ ok
    /\ Applied(ApplyNames(module))
    /\ stage' = "applied"
    /\ UNCHANGED <<input, text>>

Write ==
    /\ stage = "applied" /\ ok
    /\ text' = WriteWat(module, input.options)
    /\ stage' = "written"
    /\ UNCHANGED <<input, ok, module>>

Stop ==
    /\ stage \in {"read", "applied"} /\ ~ok /\ ~(stage = "read" /\ input.generate)
    /\ stage' = "stopped"
    /\ UNCHANGED <<input, ok, module, text>>

(* wat2wasm reads what was written.                                         *)
TextRead(parsed) ==
    /\ ok' = parsed.ok
    /\ module' = IF parsed.ok THEN parsed.val ELSE module

Parse ==
    /\ stage = "written"
    /\ TextRead(ParseWatModule(text))
    /\ stage' = "parsed"
    /\ UNCHANGED <<input, text>>

NamesResolved(resolved) == ok' = resolved.ok /\ module' = resolved.module

Resolve ==
    /\ stage = "parsed" /\ ok
    /\ NamesResolved(ResolveNames(module))
    /\ stage' = "resolved"
    /\ UNCHANGED <<input, text>>

Next == ReadBinaryIr \/ ParseWast \/ Generate \/ Apply \/ Write \/ Stop \/ Parse
        \/ Resolve

Spec == Init /\ [][Next]_vars

-----------------------------------------------------------------------------
(* What a module means: its index spaces without a name, its segments, its  *)
(* start and, in any order, its exports.                                    *)

TypeIndex(m, decl) ==
    IF decl.type_var = NoVar THEN GetFuncTypeIndex(Items(m, "type"), decl.sig)
    ELSE decl.type_var.index

RECURSIVE Nameless(_, _)
Nameless(m, exprs) ==
    [i \in DOMAIN exprs |->
        CASE exprs[i].type \in Structured ->
                [exprs[i] EXCEPT !.label = NoName, !.true = Nameless(m, @),
                                 !.false = Nameless(m, @)]
          [] exprs[i].type = "CallIndirect" ->
                [exprs[i] EXCEPT !.decl = <<TypeIndex(m, @), @.sig>>]
          [] OTHER -> exprs[i]]

Anonymous(m, item) ==
    CASE item.field = "func" ->
            [import |-> item.import, type |-> TypeIndex(m, item.decl),
             sig |-> item.decl.sig, local_types |-> item.local_types,
             exprs |-> Nameless(m, item.exprs)]
      [] item.field # "func" -> [item EXCEPT !.name = NoName]

MeaningOf(m) ==
    [kind \in ItemKinds \cup {"type"} |->
        [i \in DOMAIN Items(m, kind) |-> Anonymous(m, Items(m, kind)[i])]]
    @@ [kind \in {"elem", "data", "start"} |-> Items(m, kind)]
    @@ [export |-> <<Len(Items(m, "export")), ToSet(Items(m, "export"))>>]

IsMeant(resolved) ==
    resolved.ok /\ MeaningOf(resolved.module) = MeaningOf(input.meant[1])

(* The names of a module, given or generated, mean at every step what the  *)
(* indexes of the source do, and a text with an error in it is refused:    *)
(* the parser, GenerateNames and ApplyNames against ResolveNames.          *)
NamesMeanSame ==
    stage \in {"read", "generated", "applied"} =>
        input.meant # <<>> /\ IsMeant(ResolveNames(module))

(* What the tools write, folded or not, with exports and imports inline or *)
(* on their own, is read back and means the same as the source.            *)
TextRoundTrip ==
    /\ stage = "parsed" => ok
    /\ stage = "resolved" => ok /\ MeaningOf(module) = MeaningOf(input.meant[1])

(* The labels of the blocks around an expression, from any path down.       *)
RECURSIVE LabelsApart(_, _)
LabelsApart(labels, exprs) ==
    \A i \in DOMAIN exprs :
        exprs[i].type \in Structured =>
            /\ exprs[i].type # "Try" => exprs[i].label \notin labels \cup {NoName}
            /\ LabelsApart(labels \cup {exprs[i].label},
                           exprs[i].true \o exprs[i].false)

AllNamed(names) == \A i \in DOMAIN names : names[i] # NoName

(* GenerateNames leaves nothing without a name, but for the label of a try, *)
(* and no name twice where both can be meant; the labels of a text may have *)
(* been equal before.                                                       *)
GeneratedUnique ==
    stage = "generated" =>
        \A kind \in ItemKinds \cup {"type"} :
            LET items == Items(module, kind)
            IN  /\ AllNamed(NamesOf(items)) /\ ~FindDuplicates(NamesOf(items))
                /\ kind = "func" => \A i \in DOMAIN items :
                       LET names == items[i].param_names \o items[i].local_names
                       IN  /\ AllNamed(names) /\ ~FindDuplicates(names)
                           /\ input.tool = "wasm2wat" =>
                                  LabelsApart({}, items[i].exprs)
=============================================================================
