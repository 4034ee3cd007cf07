------------------------------ MODULE SpecRunner ------------------------------
(***************************************************************************)
(* spectest-interp (src/tools/spectest-interp.cc): CommandRunner reads the *)
(* commands of a script and runs them one after the other in one           *)
(* environment, into which modules are loaded (InterpLoad) and from which  *)
(* they are removed again.  Executor (src/interp.cc) runs the functions.   *)
(*                                                                         *)
(* One step is one callback of the binary reader, or what a command does   *)
(* between two loads.  Reading can fail before any callback: the bytes of  *)
(* the file need not be a module.                                          *)
(***************************************************************************)
EXTENDS InterpLoad, SpecScript, FloatTraits

CONSTANTS Commands,     \* the commands that may stand at each place of a script
          Files         \* the callbacks of each file

MaxCommands == Len(Commands)

ASSUME FilesAssumption ==
    /\ MaxCommands \in Nat /\ DOMAIN Commands = 1 .. MaxCommands
    /\ \A name \in DOMAIN Files : FileRead(Files[name])
    /\ \A i \in DOMAIN Commands : \A c \in Commands[i] :
          HasModule(c) => c.file \in DOMAIN Files

VARIABLES script,       \* the script that wast2json reads
          commands,     \* the commands that JSONParser has read
          at,           \* the command that is running
          phase, env, load,
          event,        \* the next callback of the load
          mark, passed, total

vars == <<script, commands, at, phase, env, load, event, mark, passed, total>>

InitEnvironment == AppendHostModule(NewEnvironment, <<"spectest">>)

NoLoad == NewLoad(NewEnvironment)

Init ==
    /\ script = <<>>
    /\ commands = <<>>
    /\ at = 1
    /\ phase = "writing"
    /\ env = InitEnvironment
    /\ load = NoLoad
    /\ event = 1
    /\ mark = Mark(InitEnvironment)
    /\ passed = 0
    /\ total = 0

(* A command is added to the script.                                        *)
AddCommand(c) ==
    /\ phase = "writing"
    /\ script' = Append(script, c)
    /\ UNCHANGED <<commands, at, phase, env, load, event, mark, passed, total>>

(* wast2json writes the script, spectest-interp reads it: ReadAndRunSpecJSON*)
ReadScript ==
    LET parsed == ParseScript(WriteCommands(script))
    IN  /\ phase = "writing"
        /\ commands' = parsed.commands
        /\ phase' = IF parsed.ok THEN "running" ELSE "unreadable"
        /\ UNCHANGED <<script, at, env, load, event, mark, passed, total>>

Command == commands[at]
Running(types) ==
    /\ phase = "running"
    /\ at <= Len(commands)
    /\ Command.type \in types

(* A command is over.                                                       *)
TallyCommand(ok) ==
    /\ at' = at + 1
    /\ total' = total + 1
    /\ passed' = passed + (IF ok THEN 1 ELSE 0)
    /\ UNCHANGED <<script, commands>>

Untallied ==
    /\ at' = at + 1
    /\ UNCHANGED <<script, commands, total, passed>>

-----------------------------------------------------------------------------
(* Executor.  Code is an item that says what it does; running it gives a    *)
(* result, the values returned and the environment after it.                *)

Ran(e, result, values) == [env |-> e, result |-> result, values |-> values]

(* memory.grow by one page *)
GrowMemory(e, m) ==
    LET pages == e.memories[m + 1].page_limits.initial + 1
        limits == e.memories[m + 1].page_limits
    IN  IF pages > (IF limits.has_max THEN limits.max ELSE MaxPages) THEN e
        ELSE [e EXCEPT !.memories[m + 1] =
                 [page_limits |-> [initial |-> pages, has_max |-> limits.has_max,
                                   max |-> limits.max],
                  data |-> Resized(@.data, pages * PageSize)]]

(* external: what the code of a function does is modelled in InterpThread.  *)
RunDefinedFunction(e, func, results) ==
    LET code == e.istream[func.offset + 1]
        values == [i \in DOMAIN results |->
                      [type |-> results[i], value |-> code.value]]
        after == IF code.does = "grow" THEN GrowMemory(e, code.memory) ELSE e
    IN  IF code.does = "trap" THEN Ran(after, "trap", <<>>)
        ELSE IF code.does = "exhaust" THEN Ran(after, "exhausted", <<>>)
        ELSE Ran(after, "ok", values)

(* DefaultHostCallback: every result is zero.                               *)
DefaultHostCallback(e, results) ==
    Ran(e, "ok", [i \in DOMAIN results |-> [type |-> results[i], value |-> 0]])

RunFunction(e, index, args) ==
    LET func == e.funcs[index + 1]
        sig == e.sigs[func.sig_index + 1]
    IN  IF [i \in DOMAIN args |-> args[i].type] # sig.params
        THEN Ran(e, "argument type mismatch", <<>>)
        ELSE IF func.is_host THEN DefaultHostCallback(e, sig.results)
        ELSE RunDefinedFunction(e, func, sig.results)

RunStartFunction(e, module) ==
    IF module.start_func_index = kInvalidIndex THEN Ran(e, "ok", <<>>)
    ELSE RunFunction(e, module.start_func_index, <<>>)

RunExportByName(e, module, name, args) ==
    LET found == GetExport(module, name)
    IN  IF found = <<>> THEN Ran(e, "unknown export", <<>>)
        ELSE IF found[1].kind # "func" THEN Ran(e, "export kind mismatch", <<>>)
        ELSE RunFunction(e, found[1].index, args)

GetGlobalExportByName(e, module, name) ==
    LET found == GetExport(module, name)
    IN  IF found = <<>> THEN Ran(e, "unknown export", <<>>)
        ELSE IF found[1].kind # "global" THEN Ran(e, "export kind mismatch", <<>>)
        ELSE Ran(e, "ok", <<e.globals[found[1].index + 1].typed_value>>)

(* The modules that an action may be meant for: FindModule of its name, or  *)
(* the last one.                                                            *)
ActionModules(action) ==
    IF action.module = <<>> THEN {GetLastModuleIndex(env)}
    ELSE Bound(env.module_bindings, action.module)

RunAction(action, m) ==
    IF action.type = "invoke"
    THEN RunExportByName(env, env.modules[m + 1], action.field, action.args)
    ELSE GetGlobalExportByName(env, env.modules[m + 1], action.field)

-----------------------------------------------------------------------------
(* Commands that load a module.                                             *)

(* A file that is not there, or is text, cannot be read as a binary: an     *)
(* error before any callback.                                               *)
File ==
    LET files == ModuleFiles(script)
    IN  IF Command.file \in DOMAIN files /\ Command.module_type = "binary"
        THEN Files[files[Command.file]]
        ELSE <<[on |-> "error"]>>

(* Malformed and invalid modules are read into an environment of their own. *)
OwnEnvironment == Command.type \in {"assert_malformed", "assert_invalid"}

(* ReadModule and ReadBinaryInterp up to the first callback.                *)
(* OnAssertUninstantiableCommand reads every file as a binary.              *)
BeginLoad ==
    /\ Running({"module"} \union InvalidModuleTypes)
    /\ \/ Command.type \in {"module", "assert_uninstantiable"}
       \/ Command.module_type = "binary"
    /\ phase' = "reading"
    /\ load' = NewLoad(IF OwnEnvironment THEN InitEnvironment ELSE env)
    /\ mark' = Mark(IF OwnEnvironment THEN InitEnvironment ELSE env)
    /\ event' = 1
    /\ UNCHANGED <<script, commands, at, env, passed, total>>

(* The modules that FindRegisteredModule may give.                          *)
Found(e) ==
    LET found == Bound(load.env.registered_module_bindings, e.module)
    IN  IF e.on # "import" \/ found = {} THEN {kInvalidIndex} ELSE found

ReadCallback ==
    /\ phase = "reading"
    /\ event <= Len(File)
    /\ \E found \in Found(File[event]) :
           LET result == Callback(load, File[event], found)
           IN  /\ load' = result
               /\ phase' = IF result.aborted THEN "aborted"
                           ELSE IF result.ok THEN "reading" ELSE "failed"
    /\ event' = event + 1
    /\ UNCHANGED <<script, commands, at, env, mark, passed, total>>

(* The binary reader comes upon an error of its own.                        *)
ReadError ==
    /\ phase = "reading"
    /\ event <= Len(File)
    /\ phase' = "failed"
    /\ UNCHANGED <<script, commands, at, env, load, event, mark, passed, total>>

(* ReadBinaryInterp after the last callback                                 *)
EndLoad ==
    /\ phase = "reading"
    /\ event > Len(File)
    /\ load' = [load EXCEPT
            !.env.modules[This(load)].istream_start = mark.istream,
            !.env.modules[This(load)].istream_end = Len(load.env.istream)]
    /\ phase' = "loaded"
    /\ UNCHANGED <<script, commands, at, env, event, mark, passed, total>>

(* The environment of the runner after a load: the load may have had its    *)
(* own.                                                                     *)
AfterLoad(e) == IF OwnEnvironment THEN env ELSE e

(* Mutant: a load that failed is not undone.                                *)
LoadFailedKept ==
    /\ phase = "failed"
    /\ env' = AfterLoad(load.env)
    /\ load' = NoLoad
    /\ phase' = "running"
    /\ IF Command.type = "module" THEN Untallied
       ELSE TallyCommand(Command.type # "assert_uninstantiable")
    /\ UNCHANGED <<event, mark>>

(* What an invalid module is expected to do; a module, or one that should   *)
(* load but not start, is an error.                                         *)
LoadFailed ==
    /\ phase = "failed"
    /\ env' = AfterLoad(ResetToMarkPoint(load.env, mark))
    /\ load' = NoLoad
    /\ phase' = "running"
    /\ IF Command.type = "module" THEN Untallied
       ELSE TallyCommand(Command.type # "assert_uninstantiable")
    /\ UNCHANGED <<event, mark>>

(* OnModuleCommand after the load: the start function, and the name.        *)
Named(e) ==
    IF Command.name = <<>> THEN e
    ELSE [e EXCEPT !.modules[Len(e.modules)].name = Command.name,
                   !.module_bindings =
                       @ \union {[name |-> Command.name,
                                  index |-> Len(e.modules) - 1]}]

OnModuleCommand ==
    LET started == RunStartFunction(load.env, Module(load))
    IN  /\ phase = "loaded"
        /\ Command.type = "module"
        /\ env' = IF started.result # "ok"
                  THEN ResetToMarkPoint(started.env, mark)
                  ELSE Named(started.env)
        /\ load' = NoLoad
        /\ phase' = "running"
        /\ Untallied
        /\ UNCHANGED <<event, mark>>

(* OnAssertMalformedCommand, OnAssertInvalidCommand and                     *)
(* OnAssertUnlinkableCommand when the module loads after all                *)
OnAssertNotLoaded ==
    /\ phase = "loaded"
    /\ Command.type \in InvalidModuleTypes \ {"assert_uninstantiable"}
    /\ env' = AfterLoad(ResetToMarkPoint(load.env, mark))
    /\ load' = NoLoad
    /\ phase' = "running"
    /\ TallyCommand(FALSE)
    /\ UNCHANGED <<event, mark>>

OnAssertUninstantiableCommand ==
    LET started == RunStartFunction(load.env, Module(load))
    IN  /\ phase = "loaded"
        /\ Command.type = "assert_uninstantiable"
        /\ env' = ResetToMarkPoint(started.env, mark)
        /\ load' = NoLoad
        /\ phase' = "running"
        /\ TallyCommand(started.result # "ok")
        /\ UNCHANGED <<event, mark>>

(* ReadInvalidTextModule: the text is parsed and validated on its own (Text *)
(* models that), with either result.                                        *)
ReadInvalidTextModule(ok) ==
    /\ Running(InvalidModuleTypes \ {"assert_uninstantiable"})
    /\ Command.module_type = "text"
    /\ TallyCommand(~ok)
    /\ UNCHANGED <<phase, env, load, event, mark>>

-----------------------------------------------------------------------------
(* The other commands.                                                      *)

OnRegisterCommand ==
    LET found == IF Command.name = <<>> THEN {GetLastModuleIndex(env)}
                 ELSE Bound(env.module_bindings, Command.name)
    IN  /\ Running({"register"})
        /\ \/ /\ found = {}
              /\ env' = env
           \/ \E index \in found :
                 env' = [env EXCEPT !.registered_module_bindings =
                            @ \union {[name |-> Command.as, index |-> index]}]
        /\ Untallied
        /\ UNCHANGED <<phase, load, event, mark>>

Format(type) == IF type = "f32" THEN F32 ELSE F64
IsNanOf(type, f, bits) ==
    IF type = "assert_return_canonical_nan" THEN IsCanonicalNan(f, bits)
    ELSE IsArithmeticNan(f, bits)

(* What the results have to be for the command to pass.                     *)
IsExpected(c, ran) ==
    CASE c.type = "action" -> ran.result = "ok"
      [] c.type = "assert_return" -> ran.result = "ok" /\ ran.values = c.expected
      [] c.type \in NanTypes ->
           /\ ran.result = "ok"
           /\ Len(ran.values) = 1
           /\ ran.values[1].type \in {"f32", "f64"}
           /\ IsNanOf(c.type, Format(ran.values[1].type), ran.values[1].value)
      [] c.type = "assert_trap" -> ran.result # "ok"
      [] c.type = "assert_exhaustion" -> ran.result = "exhausted"

(* OnActionCommand, OnAssertReturnCommand, OnAssertReturnNanCommand,        *)
(* OnAssertTrapCommand and OnAssertExhaustionCommand                        *)
OnAction ==
    /\ Running(ActionTypes)
    /\ \E m \in ActionModules(Command.action) :
           LET ran == RunAction(Command.action, m)
           IN  /\ env' = ran.env
               /\ TallyCommand(IsExpected(Command, ran))
    /\ UNCHANGED <<phase, load, event, mark>>

(* assert(module) in RunAction                                              *)
OnActionOfUnknownModule ==
    /\ Running(ActionTypes)
    /\ ActionModules(Command.action) = {}
    /\ phase' = "aborted"
    /\ UNCHANGED <<script, commands, at, env, load, event, mark, passed, total>>

(* The runner has run every command, cannot read the script, or was stopped *)
(* by an assertion.                                                         *)
Done == \/ phase \in {"unreadable", "aborted"}
        \/ phase = "running" /\ at > Len(commands)

Next ==
    \/ /\ Len(script) < MaxCommands
       /\ \E c \in Commands[Len(script) + 1] : AddCommand(c)
    \/ ReadScript
    \/ BeginLoad \/ ReadCallback \/ ReadError \/ EndLoad \/ LoadFailed
    \/ OnModuleCommand \/ OnAssertNotLoaded \/ OnAssertUninstantiableCommand
    \/ \E ok \in BOOLEAN : ReadInvalidTextModule(ok)
    \/ OnRegisterCommand \/ OnAction \/ OnActionOfUnknownModule
    \/ Done /\ UNCHANGED vars

Spec == Init /\ [][Next]_vars

-----------------------------------------------------------------------------
(* Properties *)

(* The environment as it is: a load works on it in place.                   *)
Loading == phase \in {"reading", "failed", "loaded"} /\ ~OwnEnvironment
Live == IF Loading THEN load.env ELSE env

(* Every variable has a value of its kind, and no more commands pass than   *)
(* were run.                                                                *)
TypeOK ==
    /\ phase \in {"writing", "running", "reading", "failed", "loaded",
                  "unreadable", "aborted"}
    /\ Len(script) <= MaxCommands
    /\ at \in 1 .. MaxCommands + 1
    /\ passed \in 0 .. total /\ total \in 0 .. MaxCommands
    /\ Len(env.modules) \in 1 .. MaxCommands + 1
    /\ event \in Nat

(* What the command that is read back should be, but for its file.          *)
Meant(c) ==
    [c EXCEPT !.file = 0,
              !.module_type = IF @ = "quoted" THEN "text" ELSE "binary",
              !.action = [type |-> @.type, module |-> @.module,
                          field |-> @.field, args |-> @.args]]

(* spectest-interp reads from the JSON file the commands that wast2json was *)
(* given, names, numbers and constants included, and finds behind each      *)
(* module command the file with its module (WriteCommands of                *)
(* binary-writer-spec.cc against ParseScript of spectest-interp.cc).        *)
ScriptRoundTrip ==
    /\ phase # "unreadable"
    /\ phase # "writing" =>
         /\ Len(commands) = Len(script)
         /\ \A i \in DOMAIN commands :
               /\ [commands[i] EXCEPT !.file = 0] = Meant(script[i])
               /\ HasModule(script[i]) =>
                     ModuleFiles(script)[commands[i].file] = script[i].file

ExportExists(e, export) ==
    \/ export.kind = "func" /\ export.index \in 0 .. Len(e.funcs) - 1
    \/ export.kind = "table" /\ export.index \in 0 .. Len(e.tables) - 1
    \/ export.kind = "memory" /\ export.index \in 0 .. Len(e.memories) - 1
    \/ export.kind = "global" /\ export.index \in 0 .. Len(e.globals) - 1

(* Between two commands every index that the environment keeps is one of    *)
(* something that is there, whatever loads failed half way before: the code *)
(* of functions, their signatures, the exports of loaded modules and the    *)
(* modules behind names (Mark, ResetToMarkPoint; the asserts of interp.h).  *)
(* The exports of host modules are left out: a load that fails does not     *)
(* take back what it added to them.  So are files that declare a function   *)
(* and have no code section, which the binary reader accepts: the function  *)
(* keeps the offset it was made with.  The files of a run satisfy BodiesRead.*)
IndexesExist ==
    ~Loading =>
        /\ \A f \in Range(env.funcs) :
              /\ f.sig_index \in 0 .. Len(env.sigs) - 1
              /\ f.is_host \/ f.offset \in 0 .. Len(env.istream) - 1
        /\ \A m \in Range(env.modules) :
              m.is_host \/
              /\ \A export \in Range(m.exports) : ExportExists(env, export)
              /\ m.table_index \in -1 .. Len(env.tables) - 1
              /\ m.memory_index \in -1 .. Len(env.memories) - 1
              /\ m.start_func_index \in -1 .. Len(env.funcs) - 1
              /\ m.istream_start <= m.istream_end
              /\ m.istream_end <= Len(env.istream)
        /\ \A b \in env.module_bindings \union env.registered_module_bindings :
              b.index < Len(env.modules)

(* The signature that a file declares for a function.                       *)
DeclaredSig(file, n) ==
    LET m == CHOOSE m \in DOMAIN file :
                 file[m].on = "type" /\ file[m].index = file[n].sig
    IN  file[m].sig

(* A module that has loaded has functions of the signatures that it         *)
(* declares, each import linked to one of the same signature, and its       *)
(* exports and start function mean the functions that it names, although    *)
(* all indexes are those of an environment shared with modules loaded, and  *)
(* loads undone, before (the index mappings of BinaryReaderInterp).         *)
FunctionsAsDeclared ==
    phase = "loaded" =>
        LET e == load.env
            funcs == Declarations(File, "func")
            sig(index) == e.sigs[e.funcs[index + 1].sig_index + 1]
        IN  /\ Len(load.func_index_mapping) = Cardinality(funcs)
            /\ \A n \in funcs :
                  sig(load.func_index_mapping[ItemIndex(File, "func", n) + 1])
                      = DeclaredSig(File, n)
            /\ \A x \in Range(File) :
                  x.on = "export" /\ x.kind = "func" =>
                      \E export \in Range(Module(load).exports), n \in funcs :
                          /\ export.name = x.name
                          /\ ItemIndex(File, "func", n) = x.item
                          /\ sig(export.index) = DeclaredSig(File, n)

(* What the segments will write lies within the tables and memories         *)
(* (OnElemSegmentFunctionIndexCount, OnDataSegmentData); EndModule does not *)
(* look again.  A count that takes the end of a segment past the largest    *)
(* number is let through: the file must then end before its entries do.     *)
SegmentsInBounds ==
    phase = "loaded" =>
        /\ \A info \in Range(load.elem_segment_infos) :
              info.at < Len(load.env.tables[info.table + 1].func_indexes)
        /\ \A info \in Range(load.data_segment_infos) :
              info.at + Len(info.data) <= Len(load.env.memories[info.memory + 1].data)

-----------------------------------------------------------------------------
(* The refinement: what other modules can see is what was there when the    *)
(* load began.                                                              *)

(* The structure of an environment up to a mark.                            *)
Structure(e, m) ==
    [modules |-> [i \in 1 .. m.modules |->
                     IF e.modules[i].is_host THEN <<>> ELSE e.modules[i].exports],
     sigs |-> SubSeq(e.sigs, 1, m.sigs),
     funcs |-> SubSeq(e.funcs, 1, m.funcs),
     istream |-> SubSeq(e.istream, 1, m.istream),
     tables |-> [i \in 1 .. m.tables |-> Len(e.tables[i].func_indexes)],
     memories |-> [i \in 1 .. m.memories |-> e.memories[i].page_limits.max],
     globals |-> [i \in 1 .. m.globals |-> e.globals[i].mutable_]]

Contents(e, m) ==
    [tables |-> SubSeq(e.tables, 1, m.tables),
     memories |-> SubSeq(e.memories, 1, m.memories),
     globals |-> SubSeq(e.globals, 1, m.globals)]

Visible == IF Loading THEN mark ELSE Mark(env)

LoadPhase ==
    IF ~Loading THEN "idle"
    ELSE IF phase = "loaded" \/ (phase = "reading" /\ event > Len(File))
    THEN "loaded" ELSE "loading"

(* Loading as the environment does it implements the abstract store: what   *)
(* a module adds becomes visible at once and when it is complete, and a     *)
(* load that fails anywhere leaves everything as it was.                    *)
Store == INSTANCE ModuleStore WITH
             Vectors <- {"modules", "sigs", "funcs", "istream", "tables",
                         "memories", "globals"},
             InitStore <- Structure(InitEnvironment, Mark(InitEnvironment)),
             InitContents <- Contents(InitEnvironment, Mark(InitEnvironment)),
             store <- Structure(Live, Visible),
             contents <- Contents(Live, Visible),
             phase <- LoadPhase

StoreSpec == Store!Spec
=============================================================================
