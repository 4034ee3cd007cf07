------------------------------ MODULE TextNames -------------------------------
(***************************************************************************)
(* Names of a module: GenerateNames gives one to everything that has none  *)
(* (src/generate-names.cc), ApplyNames puts names in place of indexes      *)
(* (apply-names.cc), ResolveNames indexes in place of names                *)
(* (resolve-names.cc).                                                     *)
(***************************************************************************)
EXTENDS TextModule

(***************************************************************************)
(* GenerateNames.  An index of TooLarge is not part of the name.           *)
(***************************************************************************)
GenerateName(prefix, index, disambiguator) ==
    prefix \o (IF index = TooLarge THEN "" ELSE ToString(index))
           \o (IF disambiguator = 0 THEN "" ELSE "_" \o ToString(disambiguator))

(* Mutant: the name without its number, taken or not.                       *)
GenerateAndBindNameOnce(names, prefix, index) == GenerateName(prefix, index, 0)

(* The first of the names with this prefix that nothing has.                *)
GenerateAndBindName(names, prefix, index) ==
    LET free == {d \in 0 .. Len(names) :
                     Bound(names, GenerateName(prefix, index, d)) = {}}
    IN  GenerateName(prefix, index, Min(free))

MaybeGenerateAndBindName(names, prefix, index, name) ==
    IF name # NoName THEN name ELSE GenerateAndBindName(names, prefix, index)

(* The field with the item of this index.                                   *)
FieldOf(module, kind, index) ==
    CHOOSE i \in DOMAIN module.fields :
        /\ module.fields[i].field = kind
        /\ Len(SelectSeq(SubSeq(module.fields, 1, i),
                         LAMBDA field : field.field = kind)) = index + 1

(* An item gets the name with this prefix, unless it has one.               *)
NameItem(module, kind, prefix, index, number) ==
    [module EXCEPT !.fields[FieldOf(module, kind, index)].name =
        MaybeGenerateAndBindName(NamesOf(Items(module, kind)), prefix, number, @)]

(* Imports and exports are named after the names they have outside.         *)
VisitImport(module, i) ==
    LET field == module.fields[i]
        index == Len(SelectSeq(SubSeq(module.fields, 1, i - 1),
                               LAMBDA f : f.field = field.field))
    IN  NameItem(module, field.field,
                 "$" \o field.import[1] \o "." \o field.import[2], index, TooLarge)

IsImportField(field) == field.field \in ItemKinds /\ field.import # <<>>

(* The places of the imports, and of the fields of a kind.                  *)
ImportPlaces(module) ==
    SelectSeq([i \in DOMAIN module.fields |-> i],
              LAMBDA i : IsImportField(module.fields[i]))

PlacesOf(module, kind) ==
    SelectSeq([i \in DOMAIN module.fields |-> i],
              LAMBDA i : module.fields[i].field = kind)

VisitImports(module) == FoldLeft(VisitImport, module, ImportPlaces(module))

VisitExport(module, export) ==
    LET items == Items(module, export.kind)
        index == FindIndex(NamesOf(items), export.var)
    IN  IF index >= Len(items) THEN module
        ELSE NameItem(module, export.kind, "$" \o export.name, index, TooLarge)

VisitExports(module) == FoldLeft(VisitExport, module, Items(module, "export"))

(* All of a kind, numbered.                                                 *)
VisitItems(module, kind, prefix) ==
    FoldLeft(LAMBDA m, i : NameItem(m, kind, prefix, i - 1, i - 1), module,
             [i \in 1 .. Len(Items(module, kind)) |-> i])

(* The locals without a name, or the parameters.                            *)
NameLocal(names, prefix, i) ==
    SubSeq(names, 1, i - 1)
    \o <<MaybeGenerateAndBindName(names, prefix, i - 1, names[i])>>
    \o SubSeq(names, i + 1, Len(names))

GenerateAndBindLocalNames(names, prefix) ==
    FoldLeft(LAMBDA ns, i : NameLocal(ns, prefix, i), names,
             [i \in DOMAIN names |-> i])

LabelPrefix(type) == CASE type = "Block" -> "$B" [] type = "Loop" -> "$L"
                       [] type = "If" -> "$I" [] OTHER -> "$E"

(* label_count_: all but a try count, with a label of their own or not.     *)
CountLabel(count, type) == IF type = "Try" THEN count ELSE count + 1

MaybeGenerateName(type, count, label) ==
    IF label # NoName \/ type = "Try" THEN label
    ELSE GenerateName(LabelPrefix(type), count, 0)

(* The labels of expressions, and how many were counted.                    *)
RECURSIVE LabelExprs(_, _)
LabelExprs(exprs, count) ==
    LET Visit(done, expr) ==
            IF expr.type \notin Structured
            THEN [done EXCEPT !.exprs = Append(@, expr)]
            ELSE LET first == LabelExprs(expr.true, CountLabel(done.count, expr.type))
                     second == LabelExprs(expr.false, first.count)
                 IN  [exprs |-> Append(done.exprs,
                          [expr EXCEPT
                              !.label = MaybeGenerateName(expr.type, done.count, @),
                              !.true = first.exprs, !.false = second.exprs]),
                      count |-> second.count]
    IN  FoldLeft(Visit, [exprs |-> <<>>, count |-> count], exprs)

NameFunc(func) ==
    [func EXCEPT
        !.param_names = GenerateAndBindLocalNames(@, "$p"),
        !.local_names = GenerateAndBindLocalNames(@, "$l"),
        !.exprs = LabelExprs(@, 0).exprs]

NameFuncs(module) ==
    FoldLeft(LAMBDA m, i : IF m.fields[i].field # "func" THEN m
                           ELSE [m EXCEPT !.fields[i] = NameFunc(@)],
             module, [i \in DOMAIN module.fields |-> i])

(* VisitModule of the generator.                                            *)
GenerateNames(module) ==
    LET outside == VisitExports(VisitImports(module))
        inside == VisitItems(VisitItems(VisitItems(outside, "global", "$g"),
                                        "type", "$t"), "func", "$f")
    IN  VisitItems(VisitItems(VisitItems(NameFuncs(inside), "table", "$T"),
                              "memory", "$M"), "except", "$e")

(***************************************************************************)
(* ApplyNames and ResolveNames visit the same vars, with the labels of the *)
(* blocks around, the innermost one last.  The first stops at an error and *)
(* leaves the rest as it is, the second goes on.                           *)
(***************************************************************************)
Labelled(labels, name) == {i \in DOMAIN labels : labels[i] = name}

FindLabelByVar(labels, var) ==
    IF IsName(var) THEN IF Labelled(labels, var.name) = {} THEN NoName ELSE var.name
    ELSE IF var.index >= Len(labels) THEN NoName
    ELSE labels[Len(labels) - var.index]

UseNameForVar(name, var) == IF IsName(var) \/ name = NoName THEN var ELSE Named(name)

(* What was visited, and whether without an error.                          *)
Visited(ok, of) == [ok |-> ok, of |-> of]

(* The names of what a var of this space may mean.                          *)
SpaceNames(context, space) ==
    IF space = "local" THEN context.func.param_names \o context.func.local_names
    ELSE NamesOf(Items(context.module, space))

SpaceIndex(context, space, var) ==
    IF space = "local" THEN GetLocalIndex(context.func, var)
    ELSE FindIndex(SpaceNames(context, space), var)

ApplyVar(context, space, var) ==
    IF space = "label"
    THEN Visited(TRUE, UseNameForVar(FindLabelByVar(context.labels, var), var))
    ELSE LET names == SpaceNames(context, space)
             index == SpaceIndex(context, space, var)
         IN  IF index >= Len(names) THEN Visited(FALSE, var)
             ELSE Visited(TRUE, UseNameForVar(names[index + 1], var))

(* Mutant: the outermost label of the name.                                 *)
ResolveLabelVarOutermost(labels, var) ==
    LET found == Labelled(labels, var.name)
    IN  IF ~IsName(var) THEN Visited(TRUE, var)
        ELSE IF found = {} THEN Visited(FALSE, var)
        ELSE Visited(TRUE, Index(Len(labels) - Min(found)))

ResolveLabelVar(labels, var) ==
    LET found == Labelled(labels, var.name)
    IN  IF ~IsName(var) THEN Visited(TRUE, var)
        ELSE IF found = {} THEN Visited(FALSE, var)
        ELSE Visited(TRUE, Index(Len(labels) - Max(found)))

ResolveVar(context, space, var) ==
    IF space = "label" THEN ResolveLabelVar(context.labels, var)
    ELSE LET index == SpaceIndex(context, space, var)
         IN  IF ~IsName(var) THEN Visited(TRUE, var)
             ELSE IF index = TooLarge THEN Visited(FALSE, var)
             ELSE Visited(TRUE, Index(index))

VisitVar(pass, context, space, var) ==
    IF pass = "apply" THEN ApplyVar(context, space, var)
    ELSE ResolveVar(context, space, var)

(* One more thing visited, unless an error stopped the visit.               *)
Goes(pass, done) == pass = "resolve" \/ done.ok

Gathered(done, visited) ==
    Visited(done.ok /\ visited.ok, Append(done.of, visited.of))

VisitVars(pass, context, space, vars) ==
    FoldLeft(LAMBDA done, var :
                 Gathered(done, IF Goes(pass, done)
                                THEN VisitVar(pass, context, space, var)
                                ELSE Visited(TRUE, var)),
             Visited(TRUE, <<>>), vars)

(* A part visited, of what has been visited before.                         *)
TypeVarVisited(decl, part) == Visited(part.ok, [decl EXCEPT !.type_var = part.of])
VarVisited(done, part) ==
    Visited(done.ok /\ part.ok, [done.of EXCEPT !.var = part.of])
TargetsVisited(expr, part) == Visited(part.ok, [expr EXCEPT !.targets = part.of])
DeclVisited(of, part) == Visited(part.ok, [of EXCEPT !.decl = part.of])
TrueVisited(done, part) ==
    Visited(done.ok /\ part.ok, [done.of EXCEPT !.true = part.of])
FalseVisited(done, part) ==
    Visited(done.ok /\ part.ok, [done.of EXCEPT !.false = part.of])

VisitDecl(pass, context, decl) ==
    IF decl.type_var = NoVar THEN Visited(TRUE, decl)
    ELSE TypeVarVisited(decl, VisitVar(pass, context, "type", decl.type_var))

EnterBlock(context, expr) == [context EXCEPT !.labels = Append(@, expr.label)]

RECURSIVE VisitExprs(_, _, _)

VisitBlockVar(pass, context, expr) ==
    IF expr.type # "IfExcept" THEN Visited(TRUE, expr)
    ELSE VarVisited(Visited(TRUE, expr), VisitVar(pass, context, "except", expr.var))

VisitTrue(pass, context, done) ==
    IF ~Goes(pass, done) THEN done
    ELSE TrueVisited(done, VisitExprs(pass, context, done.of.true))

VisitFalse(pass, context, done) ==
    IF ~Goes(pass, done) THEN done
    ELSE FalseVisited(done, VisitExprs(pass, context, done.of.false))

VisitBlock(pass, context, expr) ==
    VisitFalse(pass, context, VisitTrue(pass, context, VisitBlockVar(pass, context, expr)))

(* An expression with the ones inside it.                                   *)
VisitExpr(pass, context, expr) ==
    CASE expr.type \in Structured ->
            VisitBlock(pass, EnterBlock(context, expr), expr)
      [] expr.type = "BrTable" ->
            TargetsVisited(expr, VisitVars(pass, context, "label", expr.targets))
      [] expr.type = "CallIndirect" ->
            DeclVisited(expr, VisitDecl(pass, context, expr.decl))
      [] VarSpace(expr.type) # "none" /\ expr.type # "IfExcept" ->
            VarVisited(Visited(TRUE, expr),
                       VisitVar(pass, context, VarSpace(expr.type), expr.var))
      [] OTHER -> Visited(TRUE, expr)

VisitExprs(pass, context, exprs) ==
    FoldLeft(LAMBDA done, expr :
                 Gathered(done, IF Goes(pass, done) THEN VisitExpr(pass, context, expr)
                                ELSE Visited(TRUE, expr)),
             Visited(TRUE, <<>>), exprs)

-----------------------------------------------------------------------------
(* The fields of a module, the functions first, then the globals, the      *)
(* exports, the segments and the start.                                     *)

ExprsVisited(done, part) ==
    Visited(done.ok /\ part.ok, [done.of EXCEPT !.exprs = part.of])
InitVisited(field, part) == Visited(part.ok, [field EXCEPT !.init = part.of])
OffsetVisited(done, part) ==
    Visited(done.ok /\ part.ok, [done.of EXCEPT !.offset = part.of])
VarsVisited(done, part) ==
    Visited(done.ok /\ part.ok, [done.of EXCEPT !.vars = part.of])

VisitBody(pass, context, done) ==
    IF ~Goes(pass, done) THEN done
    ELSE ExprsVisited(done, VisitExprs(pass, context, done.of.exprs))

VisitOffset(pass, context, done) ==
    IF ~Goes(pass, done) THEN done
    ELSE OffsetVisited(done, VisitExprs(pass, context, done.of.offset))

VisitElems(pass, context, done) ==
    IF ~Goes(pass, done) THEN done
    ELSE VarsVisited(done, VisitVars(pass, context, "func", done.of.vars))

VisitFieldVar(pass, context, space, field) ==
    VarVisited(Visited(TRUE, field), VisitVar(pass, context, space, field.var))

(* Only the exports of functions get names, and none of them is an error.   *)
ApplyExport(visited) == Visited(TRUE, visited.of)

(* A field with its vars visited.                                           *)
VisitIn(pass, context, field) ==
    CASE field.field = "func" ->
            VisitBody(pass, context,
                      DeclVisited(field, VisitDecl(pass, context, field.decl)))
      [] field.field = "global" ->
            InitVisited(field, VisitExprs(pass, context, field.init))
      [] field.field = "export" /\ pass = "resolve" ->
            VisitFieldVar(pass, context, field.kind, field)
      [] field.field = "export" /\ pass = "apply" /\ field.kind = "func" ->
            ApplyExport(VisitFieldVar(pass, context, "func", field))
      [] field.field \in {"elem", "data"} ->
            VisitElems(pass, context, VisitOffset(pass, context,
                VisitFieldVar(pass, context,
                              IF field.field = "elem" THEN "table" ELSE "memory", field)))
      [] field.field = "start" /\ pass = "resolve" ->
            VisitFieldVar(pass, context, "func", field)
      [] OTHER -> Visited(TRUE, field)

VisitField(pass, module, field) ==
    VisitIn(pass, [module |-> module, func |-> field, labels |-> <<>>], field)

FieldOrder(pass) ==
    IF pass = "resolve" THEN <<"func", "export", "global", "elem", "data", "start">>
    ELSE <<"func", "global", "export", "elem", "data", "start">>

(* The places of the fields in the order in which they are visited.         *)
FieldsInOrder(pass, module) ==
    FlattenSeq([k \in DOMAIN FieldOrder(pass) |->
        PlacesOf(module, FieldOrder(pass)[k])])

FieldVisited(done, i, part) ==
    [ok |-> done.ok /\ part.ok,
     module |-> [done.module EXCEPT !.fields[i] = part.of]]

VisitFields(pass, module, ok) ==
    FoldLeft(LAMBDA done, i :
                 IF ~Goes(pass, done) THEN done
                 ELSE FieldVisited(done, i,
                          VisitField(pass, done.module, done.module.fields[i])),
             [ok |-> ok, module |-> module], FieldsInOrder(pass, module))

ApplyNames(module) == VisitFields("apply", module, TRUE)

(* No name is bound twice: checked first, and no error stops the rest.      *)
CheckDuplicateBindings(module) ==
    /\ \A kind \in ItemKinds \cup {"type"} :
           ~FindDuplicates(NamesOf(Items(module, kind)))
    /\ \A i \in DOMAIN module.fields :
           module.fields[i].field = "func" =>
               /\ ~FindDuplicates(module.fields[i].param_names)
               /\ ~FindDuplicates(module.fields[i].local_names)

ResolveNames(module) ==
    VisitFields("resolve", module, CheckDuplicateBindings(module))
=============================================================================
