# TLA+ specifications of the wasm sandboxing toolchain

The repository is a fork of WABT that compiles native libraries to
WebAssembly, translates the module to C with `wasm2c`, builds that C as a
shared library, and lets a host program call it as a sandbox. This directory
specifies the parts whose correctness is hard to test: the runtime on both
sides of the sandbox border; the type checker that decides which modules are
accepted; the two engines that run them, the interpreter and the C of `wasm2c`;
the loading and linking of modules; and the binary format, the text format and
the names that every module passes through. TLC checks small instances
(`*.cfg`), TLAPS proves the theorems of the `*Proofs` modules and of
`SandboxSyscalls` for every value of the constants. `PROJECT.json` lists components, runs, mutants, the map
from definitions to source lines, findings, hazards and theorems.

## 1. Inventory of the system

| component | state | operations | how it interacts |
|---|---|---|---|
| callback registration and dispatch (`wasm2c/wasm-rt-impl.cpp`, `wasm_sandbox.{h,cpp}`, `src/wasm2c.c.tmpl`) | `g_func_types`, the function table, `func_tables_mutex`, `registerCallbackMap`, `callbackStateMap`, thread-local `CurrentIndirectCall` | register and unregister a callback, register a type, look up a function, `CALL_INDIRECT`, the callback stub | host threads register; sandboxed code calls through the table, without the mutex |
| invocation (`wasm_sandbox.{h,cpp}`, `wasm-rt-impl.cpp`, template) | `CurrThreadSandbox`, `g_jmp_buf`, the call depth, the stack cookie and the word at address 0, the cached memory base | `createSandbox`, `invokeFunction`, `mallocInSandbox`, `freeInSandbox`, callbacks, traps | calls nest: host, sandbox, host callback, another sandbox, ... |
| memory (`wasm-rt-impl.cpp`, `wasm_sandbox.cpp`) | the layout constants, the end of the heap (a word inside the sandbox's own memory) | `wasm_set_constants`, `sbrk`, `wasm_rt_grow_memory`, pointer conversions, malloc, free | every pointer that crosses the border goes through the conversions |
| system calls (`wasm-rt-syscall-impl.cpp`) | locals of the running call | `sys_na`, `sys_ioctl`, `sys_writev` | reads arguments and buffers from sandbox memory that other threads write |
| emscripten shims (`wasm-rt-impl.cpp`) | `lockMap`, `setjmpId`, the setjmp table | `lockImpl`, `unlockImpl`, `saveSetjmp`, stubs that abort | called by generated code |
| type checker (`src/type-checker.cc`) | type stack, label stack | one method per instruction | called by the validator and by the interpreter's reader |
| validator (`src/validator.cc`) | `result_`, the current module | one callback per expression, checks of module fields | ignores the `Result`s, goes on after errors |
| interpreter, reading (`src/binary-reader-interp.cc`) | istream, label stack, fixups, index mappings | one callback per instruction | stops at the first error |
| interpreter, environment and loading (`src/interp.{h,cc}`, `binary-reader-interp.cc`, `tools/spectest-interp.cc`) | vectors of signatures, functions, memories, tables, globals, modules; bindings; cached segments | one callback per module field, `Mark`, `ResetToMarkPoint`, `EndModule`, host modules, the start function | modules import from modules and from the host; a script loads, registers, runs and asserts |
| interpreter, running (`src/interp.cc`) | thread: pc, value stack, call stack; memories | `Run`, `CallHost`, `Trace`, `Disassemble` | runs the istream, calls host functions |
| binary writer (`src/binary-writer.cc`, `leb128.cc`, `stream.cc`) | the stream, the offset and size guess of the open section, relocation sections, the symbol table | `WriteModule`: one section after the other, sizes filled in afterwards | reads the IR |
| binary reader (`src/binary-reader.cc`) | offset, `read_end_`, counts of the items declared so far, the last known section | one method per section, per item and per opcode | calls a delegate: the IR builder, the interpreter's reader, a dump |
| IR builder and IR (`src/binary-reader-ir.cc`, `ir.cc`, `expr-visitor.cc`) | the module, the label stack, the bindings of names | one callback per item and per instruction | called by the binary reader; passes read and change the module |
| names (`src/generate-names.cc`, `apply-names.cc`, `resolve-names.cc`) | bindings, labels in scope | give a name to everything, names for indexes, indexes for names | passes over the IR before writing and after parsing text |
| text lexer and parser (`src/wast-lexer.cc`, `token.cc`, `wast-parser.cc`) | tokens, the module so far, forward references | one method per production | makes an IR with names; resolve follows |
| text writer (`src/wat-writer.cc`) | the pending blank, labels, the tree of folded expressions, inline exports and imports | flat and folded writing | reads the IR |
| wasm2c C writer (`src/c-writer.cc`, `src/wasm2c.c.tmpl`) | the stack of typed variables, labels, names of C identifiers | one statement per instruction, copies and gotos for branches | reads the IR; the C compiler does the rest |
| scripts and tools (`src/binary-writer-spec.cc`, `tools/*.cc`) | the commands, counts of tests passed | write a script as JSON, parse it, run it; `wat2wasm`, `wasm2wat`, `wat-desugar` | connect the above |
| dumps, option parser, containers | none worth the name | print | |

What is hard: threads that share the table and the memory of a sandbox;
nesting of host and sandbox frames with one setjmp buffer and thread-local
state; words that the other side controls; unsigned differences of heights in
the type checker and in the interpreter; offsets that are filled in later; a
load that fails half way after it has changed what others see; two engines, a
tracer and a disassembler that must agree on every one of several hundred
instructions; names that are generated beside names that exist; text that
must be read back although its writer leaves out, reorders and inlines;
errors that are printed but not returned, or returned and ignored. The list,
line by line, is under `hazards` in `PROJECT.json`.

What makes each part correct: a registered callback stays reachable and is the
one called; every nesting of calls restores what it changed; no pointer or
read leaves the memory of the sandbox; every system call ends; a function the
type checker accepts never misses an operand; the istream and the C compute
what the instructions mean; a load adds a whole module or nothing; a module
that is written, as bytes or as text, is read back as it was, and no
file, however damaged, makes the reader look outside of it or build a module
that mentions what it does not have.

## 2. Modules

### SandboxCallbacks (composition: MCSandboxCallbacks; proofs: SandboxCallbacksProofs)

One sandbox, any number of threads. `op[t]` is the call of the runtime a
thread is in, with its program counter and locals; every step is one critical
section of `func_tables_mutex` or one unlocked access. `RegisterFuncType`,
`RegisterFunc`, `RegisterFuncFull` (the abort), `RegisterFuncReturn`,
`RegisterMap`, `UnregisterCallback`, `UnregisterFunc`, `UnregisterFuncReturn`
are the two registration calls; `CallIndirect`, `CallIndirectType`,
`SetCurrentIndirectCall`, `CallIndirectCall` are the unlocked reads of the
macro, the last one a choice between the pointer it tested and a second read,
since the race leaves the compiler free; `CallbackStub` reads the maps. Host
and sandbox frames nest up to `MaxDepth`.

### SandboxInvoke (MCSandboxInvoke; proofs: SandboxInvokeProofs)

One host thread, several sandboxes, of which several may be created from one
library. `frames` is the C stack: creation, invocation, wasm function,
callback. `g_jmp_buf`, the depth counter, the cookie and the word at address 0
(`sentinel`) belong to a library, `CurrThreadSandbox` to the thread. A trap is
a longjmp to the frame the buffer names, which may be gone (`lost`) or never
have been set (`unset`). `wasm_init_module` of a second sandbox of a library
allocates the memory again; `invoked` remembers the libraries that were
invoked since, the ones whose memory has been checked by `checkStackCookie`
after code ran in it.

### SandboxMemory (proofs: SandboxMemoryProofs)

Words of `2 * HALF` values. `STATIC_BUMP`, the size of the module's static
data, is chosen once, in `Init`; `wasm_set_constants` lays out the memory
behind it; `sbrk_impl` has the signed sum with both outcomes an
overflow can have; `WasmStore` lets sandboxed code change the end of the heap
at any time; `ReceivePointer`, `SendPointer` and `MallocInSandbox` convert
pointers.

### SandboxSyscalls (with its proofs)

One system call at a time, load by load; every load returns an arbitrary word
since other threads of the sandbox may have stored it. `touched` is the range
of bytes the host has read.

### TypeChecker and TypeSoundness (MCTypeSoundness; proofs: TypeSoundnessProofs)

`TypeChecker` has every method of the class as an operator on a record of its
two stacks, of the `Result` (`ok`) and of whether an error was printed
(`said`): the callers look at different ones. `TypeSoundness` is the validator
that visits a function, chosen instruction by instruction, in lockstep with
one execution of it (`path`), whose stack holds the types of the values. The
execution is the meaning of the instructions, not code of the repository.

### InterpReader, InterpThread, InterpReference, CWriter and Interp (MCInterp; proofs: InterpProofs)

`InterpReader` extends `TypeChecker`: the reader's methods are operators on a
record that contains the checker's, so a method checks and emits as the code
does. The istream is a sequence of cells, an opcode or an operand each;
`depth_fixups` and `func_fixups` are sets of pairs; the entries of a `br_table`,
between which no label changes, are written by one function of their place.
`InterpThread` is the loop
body of `Thread::Run`. `CWriter` is the other way to run a function: the stack
of typed variables (`StackVar`), the copies in front of a `goto`, code after a
branch that is not written, and what the statements then do, with the depth
counter and the traps of the template. `InterpReference` is the semantics of
the instructions with separate frames, locals and labels. `Interp` reads a
module of an imported and two defined functions, the entry function chosen
instruction by instruction, compiles it both ways and runs all three. An access
below the value stack, which the code does not check, is the result
`Undefined`. `ProgramAssumption` says what the binary reader gives with an
instruction (`Immediates`): a depth or an index of a local is a number, the
function of a call exists, and a table has a default target.

### FloatTraits, InterpNumeric, InterpTrace, CNumeric, NumericReference and Numeric (MCNumeric)

Every instruction that computes or accesses memory. `FloatTraits` is the bits
of floats and the range checks of the interpreter and, in its second half, what
the compiler and the C library provide, IEEE arithmetic with rounding, marked
external. `InterpNumeric` has the function templates of `interp.cc` and the
cases of `Thread::Run` as rows of a table: the form that pops and pushes, the
function it is given, the template arguments. `InterpTrace` has what
`BinaryReaderInterp` emits for an instruction and what `Run`, `Trace` and
`Disassemble` each take from the istream. `CNumeric` is the statement `wasm2c`
writes and the macro or inline function of the template that it calls.
`NumericReference` says of each result what it must be, without computing it
the same way: digit by digit, by the laws of division, by the order of the
numbers, lane by lane. `Numeric` chooses an instruction and operands and
executes it in both engines. A byte has `ByteBits` bits, so an `i32` has
`4 * ByteBits`.

### InterpLoad, SpecScript, SpecRunner and ModuleStore (MCSpecRunner; proofs: InterpLoadProofs, SpecRunnerProofs)

`InterpLoad` has the environment as a record of vectors, with `Mark` and
`ResetToMarkPoint`, and the callbacks of `BinaryReaderInterp` outside function
bodies, an operator each on the record of a load: imports from modules and from the host, exports, initialisers,
segments that are checked when read and written at `EndModule`. A file is the
sequence of callbacks made for it; it may end anywhere with an error. `FileRead`
says what the binary reader makes sure of before it makes a callback: sections
in order, one at most with a count, no more items than the count, indexes of
what was declared before (but for the element segments and the initialisers,
whose indexes the interpreter checks itself), segments only where there is a
table or a memory, with their number of entries before them, and all the
functions that are counted if the module is read to its end. The files of an
instance must satisfy it (`FilesAssumption`).
Two exports of a host module may have one name; `GetExport` chooses one, since
the order of the code's multimap is not the point.
`SpecScript` is both ends of the JSON file: `BinaryWriterSpec` writes the
commands, `JSONParser` reads them character by character of names and
constants. `SpecRunner` is `CommandRunner` of `spectest-interp`: a script is
chosen, written, parsed and run, one callback or one command a step, in one
environment or, for modules that are only to fail, in one of their own.

`ModuleStore` is the abstract specification of loading: `Begin`, then `Fail`
that changes nothing, or `Finish`, then `Commit`, which adds one module and
lets everything that was there stay where it is, or `Drop`. `StoreSpec` states
that `SpecRunner` implements it. The refinement mapping hides what a load in
progress has added (`Visible` is the mark point while there is one) and
compares the structure apart from the contents, since a start function that
traps does not take back what it wrote.

### BinaryCodes, BinaryWriter, BinaryReaderIR, BinaryReader and BinaryFormat (MCBinaryFormat)

`BinaryCodes` is the alphabet both sides share: LEB128, section ids, kinds,
types, opcodes. A byte is a number below `2 * Base`, a digit of LEB128 with a
continuation bit; a name is one byte, a length and an index are real LEB128.
Of the opcodes there is one for each form of immediates, since both sides
treat those of a form alike. `BinaryWriter` has the methods of the writer as
operators on a record of the stream, the open section, the relocations and the
symbols; `written`, which is not in the code, records where each relocated
index was put, so that the relocations can be compared with it.
`BinaryReaderIR` has the callbacks of the IR builder as operators on a module
and its stack of labels. `BinaryReader` has the state of the reader; the C++
call stack is the sequence `todo` of frames, one for each loop in progress
(the sections, the items of a section, a body, a subsection), each with the
end it restores. One step reads one item or one instruction.

`BinaryFormat` composes them: a module and options are chosen, `WriteModule`
goes section by section, then the file may be damaged (a byte changed, the end
cut off, a section repeated, left out or exchanged with the next one), and
`ReadModule` runs on what there is. All features are enabled and reading stops
at the first error, as in the tools that go on to use the module.

### TextModule, TextNames, WatWriter, WastParser and Text (MCText)

`TextModule` is the IR with names: fields in the order of the file, a var that
is an index or a name, bindings, and the visits of the expressions; and the
tokens of the lexer: parentheses, words, names, numbers, strings, with one
opcode at least of each type of token. `TextNames` has the three passes over
the IR. `WatWriter` makes a sequence of writes, each with the blank it
leaves pending (`next_char_`), so that a line comment can swallow what is
written behind it; folded writing has the tree of expressions and the arities
that decide when an operand moves inside. `WastParser` has the productions as
operators on the state of the parser: inline imports and exports, types
declared by use, folded expressions, the re-use of a label at `else` and `end`.
`Text` composes them as the tools do: `wasm2wat` from a module with or without
names, `wat-desugar` from a text, then `wat2wasm` reads what was written, and
the result is compared with the meaning of the source.

## 3. Runs

| run | instance | what it shows |
|---|---|---|
| `callbacks` | 2 threads, 2 callbacks of different signature and type, 3 slots of which one is free, frames nested 3 deep, with fairness | `HandleIntact`, `SlotsOwned`, `TypeIdsStable`, `HeldIsCalled`, `NoStuckCall` |
| `callbacks_race` | 2 threads, 2 callbacks of different type, 3 slots of which one is free | violation of `IndirectCallTyped`, see section 6 |
| `invoke_nesting` | 3 sandboxes, two of one library and one of another, depth limit 2, up to 8 frames | `DepthCounts`, `RightSandbox`, `OverflowNoticed`, `TrapCaughtByCaller` |
| `memory` | words of 8 bits, pages of 16 bytes, every boundary word | `LayoutDisjoint`, `PointersInside`, `SbrkSound` |
| `syscalls` | a memory of 40 bytes, words modulo 64, loads at every boundary, with fairness | `ReadsInside`, `PrintedCounted`, `OnlyKnownReturn`, `CallsEnd` |
| `type_soundness` | operands of two types, blocks with and without parameters, 3 nested labels, functions of any length | `Sound`, `LimitsNested` |
| `interp` | entry functions of up to 7 control, 5 call or 5 data instructions, three arguments, stacks of 7 values and 3 calls | `StacksInBounds`, `FixupsApplied`, `Agrees`, `CAgrees` |
| `numeric` | every instruction that computes or accesses memory, bytes of 2 bits, the ends and special values as operands | `EnginesAgree`, `ResultsCorrect`, `AccessesCorrect`, `InStep` |
| `load` | scripts of up to 4 commands over 8 files, among them files that fail at an import, at a segment, at the end and in the start function | `ScriptRoundTrip`, `IndexesExist`, `FunctionsAsDeclared`, `SegmentsInBounds`, the refinement `StoreSpec` |
| `binary` | three modules that between them have every section, kind of import and form of opcode, four settings of the writer's options, each file as written and with each single damage | `InBounds`, `CountsAgree`, `MentionsExist`, `NamesUnique`, `RoundTrip`, `FixedRelocations` |
| `text` | every body of three of nine instructions, modules with every field and kind of expression, texts in the forms only a person writes, flat and folded, inline or not, names generated or not | `NamesMeanSame`, `TextRoundTrip`, `GeneratedUnique` |
| `text_locals` | a function with a nameless local before a named one | violation of `TextRoundTrip`, see section 6 |

Every property of a passing run has a mutant, a small plausible change of one
definition, under which TLC finds it violated. The type invariant `TypeOK` of a
module is not repeated in the runs: for the callbacks, the invocations, the
memory, the system calls and the type checker it is part of the inductive invariant that is
proved; in the other modules it documents the values of the variables, and any
value outside of it would end a run with an evaluation error or show in the
properties.

Why the bounds are enough. A table with one free slot makes every registration
compete for it, and two threads suffice for every pair of critical sections
to be interleaved; the proofs cover larger instances. Eight frames let each of
two sandboxes, of one library or of two, be entered inside the other and again
inside that, and a sandbox be created in a callback of another. In `memory`
and `syscalls` the sets hold zero, the limits and their neighbours; the proofs
cover all widths and sizes. In `type_soundness` the length of functions is not
bounded, only the height of the type stack (a push beyond `MaxStack = 2` is
the last step considered) and the nesting. In `interp` a body of seven control
instructions has room for two nested blocks with values to drop, a conditional
branch out of both and the code behind them; `MaxRun` cuts endless loops, and
no run whose reference ends reaches it. Every trap of the thread that the
instructions can cause is reached.

In `numeric` a byte has 2 bits, so integers of 8 and 16 bits stand for those of
32 and 64, and the two float formats (5 and 6 bits of exponent, 2 and 9 of
significand) keep the relations of the real ones: an `i32` is exact as an `f64`
and no other integer is exact as a float, an `f64` rounds to an `f32`, every
integer is in the range of the floats. The operands are zero, one, minus one,
the ends of the integers, shift counts at and beyond the width, both zeros,
the least and largest numbers, the infinities, NaN, halves, and the floats
around the ends of each integer type and of `f32`.

In `load` the four places of a script let a module be loaded, registered, be
imported by a second one that fails or traps, and be used again. `MaxIndex = 15`
lets the end of a segment wrap around.

In `binary` a digit has `Base = 16` values instead of 128, numbers have at most
two digits (five in the code) of which the last is below `TopDigit = 8`
(16 in the code); `LebSizeGuess = 1` is the code's. So the sections of more than 15
bytes need a second digit, their contents move, and a size that claims more
than the file has, a number with too many digits and one with a top digit that
is too large all occur. `BadBytes` holds 0, 1, the kinds and ids in use, and a
byte with the continuation bit.

In `text` three instructions are enough for an operand to be folded into
another, for one to be left over, and for one to be in the way of both; blocks,
branches by label and everything that has a name are in the larger modules,
with labels of the same name beside and inside each other.

Fairness. `FairSpec` of SandboxCallbacks has weak fairness for the steps of a
call that has begun: the scheduler runs every thread that is not blocked.
Nothing is assumed about who gets `func_tables_mutex`, since `std::mutex` is
not fair; `NoStuckCall` is stated so that it excludes a mutex nobody will
unlock and not starvation. No thread is obliged to begin a call. `FairSpec` of
SandboxSyscalls has weak fairness of the handler's steps: a sequential piece
of code that runs. The other models need none: that a run ends when the
reference does is a safety property there, by a count of steps (`Agrees`), and
the tools are sequential programs over finite inputs.

Deadlock is checked but in `numeric`, `text` and `text_locals`, where an
instruction is executed or a text converted once and then nothing happens; in
the others `Done` and `Terminating` steps mark the states in which a program
has ended.

## 4. Proofs

Twenty-eight theorems about seven components, from the assumptions their ASSUMEs state.

SandboxCallbacksProofs, for any sets of threads, callbacks and types and any
table size (`ConstantsAssumption`: the module's types are distinct, its
elements have registered types; `NullAssumption`: null differs from
everything). `HandleIntact` and `SlotsOwned` are not inductive: a step of
`RegisterMap` establishes what the host will hold from what the table has
while the call is pending. `IInv` adds that the mutex is owned exactly between
the two stores of a call (`MutexInv`), that a registration is in one place
(`CallInv`), and what the slot and the type id of a pending call are
(`PendingSlotInv`, `PendingTypeInv`). `Invariance` proves it action by action;
`HandleIntactAlways`, `SlotsOwnedAlways`, `TypeIdsStableAlways` and
`HeldIsCalledAlways` follow. Finite table size is not needed.

SandboxInvokeProofs, for any number of sandboxes and libraries, any depth limit
and stacks of any height (`ConstantsAssumption`: a sandbox has a library, the
limit is positive, null is no sandbox). `DepthCounts` compares a counter with a
cardinality and needs only that `frames` is a sequence; `RightSandbox` is far
from inductive: that `invokeFunction` restores the right sandbox depends on
what it was pushed on, possibly long ago. `IInv` therefore has four parts that
speak of the whole stack: `StackInv` (what each frame stands on: an invocation
will restore the sandbox of the frame below; sandboxed code and callbacks belong
to the sandbox below), `CtorsInv` (above a `createSandbox` in progress there are
only its constructors, so a callback never runs inside one), `EntryInv`
(sandboxed code was entered by someone below), and `CurrentInv`
(`CurrThreadSandbox` is the sandbox of the innermost frame, but for creations,
which leave it). The proof treats the stack in two ways only, `Pushed` and
`Popped`; `PushKeeps` and `PopKeeps` carry the four parts over, and each action
is shown to be a push, a pop or neither. `OverflowNoticedAlways`
and `TrapCaughtByCallerAlways` rest on `CallerInv`, for sandboxes that share
libraries as well: while the cookie or address 0 of an invoked library is
overwritten, an `invokeFunction` that will check it is on the stack
(`CookieInv`), a library is not invoked while it is created again
(`CreationInv`), and an invocation on the stack has called setjmp, and only
those above it after it (`JmpInv`).

SandboxMemoryProofs, for every word size, page size and set of inputs: the
static data, the words behind it, the stack and the heap never overlap,
whatever the size of the static data, host pointers stay inside, the
conversions are inverse, and an `sbrk` that returns has not wrapped. The
inductive invariant adds that a pointer that was sent is an offset into the
memory.

SandboxSyscalls: `ReadsInside` needs `RangesChecked`, which ties the
locals of writev to the checks it made, and `InHandler`, which says which
import is running and that its loops start from zero.

TypeSoundnessProofs, for any opcodes, types and signatures (`TypesAssumption`,
`SignaturesAssumption`), functions of any length and labels nested to any depth:
the limit of a label is never above the limit of the label inside it nor above
the type stack. `Nested` says so of a state of the checker, with the types of
its stacks; it is inductive by itself, but no method is a single assignment. Lemmas
show each method to preserve it, most of them in the form `Keeps`: the
labels stay as they are and the operands stay above the innermost limit. That
is where popping could go wrong, since `PopAndCheckCall`, `CheckSignature` and
the like note an error and then drop operands all the same; the proof does not
assume that there was no error. `OnEnd`, `OnElse` and `PopLabel` go back to the
limit of a label and are where nesting is used.

The same module proves `Sound`, the theorem the type checker is for: in a
function in which the validator finds no error an execution never misses an
operand, and wherever it is live its stack is the type stack. `Sound` is not
inductive, because it says nothing of an execution that has branched and will
be live again at the end, the else or the catch of a label. `SoundInv` relates
the two also while the execution waits (`AgreesWaiting`): the heights it
remembers are the limits of the labels, no label outside of the one it waits
for is unreachable, and its stack is what is below the limit of that label and
what the label will push (its results, its parameters, the exception). It holds
only because nothing in between changes what is below that limit: `Inside`
states this of every instruction but else, catch and end, `InsideAgrees` draws
the conclusion, and so a waiting execution needs one argument for all of them.
For a live execution each instruction has a lemma of its own (`LiveOperands`,
`LiveSelect`, `LiveEnters`, `LiveBr`, ...): with `AcceptsOpen`, what the checker
pops without an error is there, and it is reachable, so that `AnyType` plays no
part. `SwitchAgrees` and `EndAgrees` show the meetings of the paths.

`SoundAlways` has one hypothesis, `ElselessPlain`: an if that ends without an
else has no parameters. Without it `Sound` is false: `OnEnd` refuses results of
such an if and not parameters (section 6). `SoundWithoutParameters` needs no
hypothesis on the behaviour: if no block type has parameters, which
`validator.cc:495` ensures unless `multi_value` is enabled, every function that
validates is sound.

InterpProofs, for any functions, block types, arguments and instructions within
`ProgramAssumption`: `FixupsApplied`, that no branch, entry of a table or call of
the istream is still to be filled in when a function runs. The code nowhere
looks: an offset that stayed `kInvalidIstreamOffset` would be jumped to. The
property speaks of the end only; `FixupsInv` of every moment before: the
operands that are open (`Open`) are among those that are due (`Due`) by a pair
of `depth_fixups` whose label exists, by a pair of `func_fixups` whose function
has no offset yet, or by the `fixup_offset` of a label that is an if or an else.
At `end` what is due at the top label is filled in before the label is popped,
at the end of a body what is due at the function's own label, when a body
begins what is due at its function; at the end there is no label, every function
has its offset, and so nothing is due. Two things make this more than
bookkeeping. The reader has a stack of labels and the type checker another, and
the code uses the one with depths taken from the other: `Fixable` has them equally long,
which each instruction must restore although the checker goes first and may
fail. And a value other than an offset must not be mistaken for an open operand:
a drop of -1 would be. That no drop count is negative needs the type checker:
where it accepts a branch the operands lie above the limit of the top label
(`Enough`), and the limits never decrease from a label to the one inside it
(`Stacked`). A method of the type checker is shown to change operands only
(`Keeps`), an emitting method only to append (`Grows`, `Writes`), and each
instruction is then one of a few shapes (`Enters`, `Left`, `Inside`). TLC
checked `FixupsInv` as an invariant on 1 462 734 states before it was proved.

InterpLoadProofs and SpecRunnerProofs, for every script, any files that satisfy
`FileRead`, any page size and any `MaxIndex`: what loading does to the
environment that all modules share. A load writes in the middle of it for as
long as the file has callbacks, and may fail at each of them. The invariant
`LoadInv` says what it may have done by then:

- `Kept`: the vectors of the environment begin with what was there when the
  load began. Only host modules may have changed (an import of a host function
  adds an export to them), and tables and memories keep their number and
  limits. So `ResetToMarkPoint`, which cuts the vectors back to the sizes of
  `Mark`, gives the old environment but for these.
- `Read`: the new module is the last one and `ModuleWhole`; `func_index_mapping`
  and `global_index_mapping` have an entry for every item declared before the
  present place in the file (`Mapped`), and each declaration that was read can
  be found in the environment with its signature, host or not as the file says
  (`ItemRead`, `FuncPlaces`, `FuncsWhole`). A callback must raise the number of
  entries by as much as it appends. The entries that `OnFunctionCount` and
  `OnGlobalCount` reserve at once are the hard part: between the callbacks
  of a section a mapping is longer than the declarations read, and only
  `Counted` and `Complete` bring the two together.
- `Unwritten`: the elements of tables and the data of memories are still those
  of the beginning; segments are cached in `elem_segment_infos` and
  `data_segment_infos` until `EndModule`.
- `Whole`, between loads: every index in a function, a module, an export or a
  binding is one of something that is there. The elements of tables are left
  out, since a start function that traps leaves those it wrote (section 6).

Each callback has a lemma that it keeps the four parts, `EndModule` and the
start function take `Read` to `Whole`, `LoadFailed` takes `Kept` back to it.
`FunctionsAreAsDeclared` follows for every file. `IndexesAlwaysExist` has the
hypothesis `BodiesPresent`, that a file with a function section has a code
section, because the property is false without it: section 6.
The instance satisfies it (`HaveBodies` of MCSpecRunner, which TLC evaluates).
`SegmentsAlwaysInBounds` adds a second invariant, `SegmentsInv`: segments are
checked as they are read, cached, and written by `EndModule`, which does not
check again. `Placed` says what must stay true in between. Tables and memories
keep their sizes (`SizesKept`; a memory grows only when code runs, and none runs
during a load), so each cached entry keeps its place. `Room`: after the count of
a segment was compared with its table, the offset and the entries still to come
do not pass the end; each entry moves the offset by one and takes one from what
is left. `GlobalsCounted` and `Measured`: an initialiser takes its value from an
imported global that exists and holds a number. The theorem is about files with
`ShortSegments`, in which a table's size and a segment's count add up to no more
than the largest index, because the comparison is made in 32 bits (section 6);
tables get their sizes from the files and from the host (`HostTableLimits`) and
never grow. MCSpecRunner evaluates the hypothesis (`HaveShortSegments`).
`LoadingRefinesStore` proves `StoreSpec` step by step: `StoreView` says what the
mapping shows in each phase, above all that a load in progress is invisible
and that what `Begin` remembered is what there still is, so that `Fail` changes
nothing and `Commit` adds one module. TLC checked `LoadInv` and `StoreView` as
invariants on the 197 709 states of the instance before they were proved.

Only model-checked: `StacksInBounds`, `Agrees` and `CAgrees` of Interp, the four
properties of Numeric, `ScriptRoundTrip` of SpecRunner, and everything about
BinaryFormat and Text. That three ways to run the same instructions agree
relates an istream to the nesting it was written from, and the operators of the
other modules go through the bytes, the characters and the tokens of an input
one by one: what such a recursion computes for every input needs induction over
data, which is beyond the prover used here. The liveness properties
`NoStuckCall` and `CallsEnd` are model-checked too; liveness under fairness is
beyond the prover.

## 5. What is not modelled

- The emscripten shims: `saveSetjmp` fills a table that nobody reads, since
  `testSetjmp` and `emscripten_longjmp` abort; `lockImpl` and `unlockImpl` are
  undefined with two threads (section 6); the rest abort, do nothing or call
  the C library.
- The validator's checks of indexes, limits, segments and exports: each
  compares a field with a bound and keeps no state.
- Of the binary format, the bits of floating-point constants, the text of
  names, and the delegates that dump, count or log.
- Of the text format, the characters of tokens (`wast-lexer-gen.cc` is
  generated from the lexer's rules), the values of floats, going on after a
  syntax error (`Synchronize`; here an error is the end), and scripts, whose
  commands are modelled from their JSON form on.
- Of `wasm2c`, the header, the mangling of names, and the initialisation of
  tables and memories.
- Option parsing, `wasm-interp`, `wasm-objdump`, containers and string helpers.
- Values of arguments and results in SandboxInvoke.

## 6. Disagreements and observations

With a run:

- `callbacks_race`: `CALL_INDIRECT` tests an entry of the table and reads it
  again to call it, without `func_tables_mutex`. The trace registers a
  callback, lets one thread test its entry, then lets another thread unregister
  it and register a callback of another type, which gets the same slot; the
  first thread then calls the new stub as a function of the old type, where
  `wasm-rt.h:46` has a trap for an invalid `call_indirect`. `HeldIsCalled`
  states what does hold: through a slot that is held the right callback is
  reached.
- `text_locals`: the comment at `wat-writer.cc:1242` says that named locals
  must be specified by themselves; the loop below it leaves the parenthesis of
  a nameless local open and writes `(local i32 $l1 i64)`, which the parser
  refuses. Such modules come from a name section that names some locals only.

Without one. The instances leave these cases out, or the properties say that
they do.

- An if with parameters and no results may end without an else
  (`type-checker.cc:475` looks at the results only), and then the false branch
  leaves its parameters on the stack, below what the checker thinks is there.
  With the block type i32 to nothing TLC finds `Sound` violated; the block types
  of the instance have results wherever they have parameters. It takes
  `multi_value`, which is off by default.
Sandbox runtime:

- `registerCallbackImpl` puts the stub into the table before it fills the maps
  (`wasm_sandbox.cpp:93`), and `unregisterCallback` erases the maps before it
  clears the slot (`wasm_sandbox.cpp:116`). Sandboxed code that calls through
  the slot in either window gets a stub that finds no callback and calls null.
  No document promises anything to code that guesses a slot it was not given.
- A nested `invokeFunction` overwrites `g_jmp_buf` (`wasm_sandbox.h:432`); a
  later trap in the outer call jumps into a frame that has returned (`"lost"`
  in `TrapExit`).
- A trap in a constructor, run by `wasm_init_module`, finds a setjmp buffer
  that was never filled (`wasm-rt-impl.cpp:516`, `"unset"`).
  If another sandbox of the library is being invoked further down, the
  buffer is that invocation's, and it reports the trap.
- Two sandboxes of one library file share its globals; the second
  `createSandbox` replaces the memory under the first, whose `wasm_memory`
  stays the old one: from then on it converts pointers with a memory its code
  does not run on. The run `invoke_nesting` has such sandboxes; what is stated
  of them holds with one memory or two.
- `wasm_rt_grow_memory` aborts (`wasm-rt-impl.cpp:745`) where
  `wasm2c/README.md:317` asks for `0xffffffff`.
- `lockImpl` inserts into a `std::map` without a lock. `saveSetjmp` doubles a
  size that may be zero, and after a nested growth returns the outer size.

Type checker and interpreter:

- `OnSimdLaneOp` and `OnSimdShuffleOp` print an error for a bad lane and return
  Ok (`type-checker.cc:608`); the interpreter's reader goes on.
- `OnElse` of an `if_except` returns an Error nobody prints
  (`type-checker.cc:437`); the validator accepts.
- An `if` without `else` whose block has a parameter and no result is accepted
  by the type checker (`type-checker.cc:475`), and `DropKeep` overwrites a value
  before it has moved it when it drops fewer values than it keeps
  (`interp.cc:733`). Both need the multi-value extension.
- `Run` ignores the result of `CallHost` (`interp.cc:1570`).
- `memory.grow` of the interpreter adds pages in 32 bits (`interp.cc:1790`): a
  growth by -1 shrinks the memory by a page and returns the old size.
- `i32.trunc` of an `f64` a fraction beyond the largest integer traps in both
  engines although the truncated value fits. SIMD comparisons give 1 in a lane
  and not all ones. `AtomicWait` and `AtomicWake` trap as unreachable.
- `Trace` shows the wrong operand of `select`, and `set_local` as an `i32`;
  `Disassemble` reads the four words of a `v128` in an order the language
  leaves open.

Loading:

- A file with functions and without a code section is accepted: the number of
  bodies is compared with that of functions in the code section only
  (`binary-reader.cc:1915`). The functions keep the offset `kInvalidIstreamOffset`,
  and a call of one jumps to it. `IndexesExist` is false of such a file, which is
  why its theorem has a hypothesis (`BodiesRead`).
- `OnElemSegmentFunctionIndexCount` adds offset and count in 32 bits
  (`binary-reader-interp.cc:1037`). The comment above the test sees the overflow,
  but of the two comparisons neither refuses an offset within the table with a
  count that wraps the sum. The file would have to hold some four thousand
  million entries, so the theorem on `SegmentsInBounds` leaves it out
  (`ShortSegments`).
- A start function that traps runs after the segments were written: the module
  is removed, its functions stay in the tables of others, and a call through
  them runs into the assertion of `interp.h:370`.
- A table imported from the host is filled with index 0. What a failed load
  added to a host module's exports is not taken back. The types of imported
  globals are not checked. Several offsets of segments, `RunAllExports` and
  `RunAction` rely on assertions for what a file or a script may contain.
- The JSON parser's `ParseString` does not end at the end of the file, its
  overflow check misses sums that wrap past the old value, and several results
  of an action are written without separators.

C writer:

- The address of an access is computed in 32 bits before it is widened
  (`c-writer.cc:2060`), so a large offset wraps where the interpreter
  (`interp.cc:664`) traps.
- `i64.load16_u` is written with the macro of `i32`, without effect. SIMD
  output is not C; saturating conversions and sign extensions are
  UNIMPLEMENTED. Segments are copied without a check of their bounds, and
  the names of exports are not mangled.

Binary format:

- The `end` at the last byte of a body ends the function whatever blocks are
  open (`binary-reader.cc:651`), and the IR builder pops one label. A body that
  lacks an `end` is accepted, and a later body with one too many is then
  accepted too, its rest appended to the earlier function.
- With canonical sizes, the fixup of a body's size moves the body and not the
  relocations already recorded in it (`binary-writer.cc:277`); only the fixup
  of the section's size adjusts them. `FixedRelocations` shows that all is well
  with sizes of fixed length.
- The writer's symbols are found by name: all functions without a name share
  one, and so do a function and a global of the same name. `call_indirect` in
  a relocatable file reaches `WABT_UNREACHABLE` (`binary-writer.cc:321`).
- With imported exceptions the exception section lists too few
  (`binary-writer.cc:926`), and the reader takes its errors for the end of a
  custom section. An import of unknown kind is ignored
  (`binary-reader.cc:1696`); a function section without a code section is
  accepted.
- `OnLocalName` does not check the index of the local that the assertion of
  `ir.cc:525` relies on; `br_table` resizes a vector by a count nobody checked
  (`binary-reader.cc:617`).

Text and names:

- `wasm2wat --generate-names` overwrites a failed validation
  (`tools/wasm2wat.cc:123`) and writes the module with exit code 0.
- Inline imports and exports of exceptions are written (`wat-writer.cc:1345`)
  and not read (`wast-parser.cc:848`). A `call_indirect` without a type use is
  written with the type 4294967295 (`wat-writer.cc:643`). A flat `try` with
  an empty `catch` is written without it and then refused.
- `(block (type $t))` does not get the signature of the type
  (`wast-parser.cc:292`).
- `ApplyNames` puts the name of an outer label for an index although an inner
  label has the same name. The generated label `$B1` or local `$l0` may be one
  that exists. Names of locals and labels are written as they are while others
  have invalid characters replaced.
- Folded writing never pops its label stack, which affects comments and
  the arities it guesses, not the order. `ParseVar` reads 64 bits and keeps 32.
  Segments lose a table or memory other than the first; inline exports change
  the order of exports; initialisers of more than one instruction are not read
  back.

## 7. Plan

Modelled, in this order: callbacks, invocation, memory, system calls, type
checker, interpreter, binary format, loading and scripts, the C writer, the
instructions that compute, names and text. Proved: callbacks, memory, system
calls, invocation, the limits and the soundness of the type checker, the fixups
of the interpreter's reader, the loading of modules and its refinement of the
store. What is left:

1. The rest of `Validator`: indices, limits, segments, exports.
2. The initialisation that `wasm2c` writes, linked to the layout of
   SandboxMemory.
3. The parser's recovery after an error and the scripts of the text format.
