------------------------------ MODULE SpecScript ------------------------------
(***************************************************************************)
(* The JSON file between wast2json and spectest-interp: BinaryWriterSpec   *)
(* (src/binary-writer-spec.cc) writes the commands of a script, and        *)
(* JSONParser (src/tools/spectest-interp.cc) reads them back.              *)
(*                                                                         *)
(* The file is a sequence of strings: a punctuation mark, a word that the  *)
(* format knows, or a character of a name or a number.  Blanks are left    *)
(* out: the parser skips them.  A name is a sequence of characters, empty  *)
(* when there is none.  MaxUint32 bounds the numbers.                      *)
(***************************************************************************)
EXTENDS Integers, Sequences, SequencesExt, FiniteSetsExt

CONSTANT MaxUint32

ASSUME MaxUint32Assumption == MaxUint32 \in Nat \ {0}

Quote == "\""

(* The characters that are written as \uxxxx, and their codes.              *)
Escapes == [c \in {Quote, "\\", "\n"} |->
               CASE c = Quote -> <<"0", "0", "2", "2">>
                 [] c = "\\" -> <<"0", "0", "5", "c">>
                 [] c = "\n" -> <<"0", "0", "0", "a">>]

DigitNames == <<"0", "1", "2", "3", "4", "5", "6", "7", "8", "9">>
DigitCount(n) == Min({k \in 1 .. 9 : n < 10^k})

(* %u *)
Digits(n) == [i \in 1 .. DigitCount(n) |->
                 DigitNames[((n \div 10^(DigitCount(n) - i)) % 10) + 1]]

-----------------------------------------------------------------------------
(* BinaryWriterSpec *)

WriteString(s) == <<Quote, s, Quote>>
WriteKey(key) == <<Quote, key, Quote, ":">>

EscapedChar(c) ==
    IF c \in DOMAIN Escapes THEN <<"\\", "u">> \o Escapes[c] ELSE <<c>>

(* Mutant: nothing is escaped.                                              *)
WriteUnescapedString(s) == <<Quote>> \o s \o <<Quote>>

WriteEscapedString(s) ==
    <<Quote>> \o FlattenSeq([i \in DOMAIN s |-> EscapedChar(s[i])]) \o <<Quote>>

WriteLocation(line) == WriteKey("line") \o Digits(line) \o <<",">>

WriteTypeObject(type) == <<"{">> \o WriteKey("type") \o WriteString(type) \o <<"}">>

WriteConst(const) ==
    <<"{">> \o WriteKey("type") \o WriteString(const.type) \o <<",">>
    \o WriteKey("value") \o <<Quote>> \o Digits(const.value) \o <<Quote, "}">>

Separated(items) ==
    FlattenSeq([i \in DOMAIN items |->
                   IF i = 1 THEN items[i] ELSE <<",">> \o items[i]])

WriteConstVector(consts) ==
    <<"[">> \o Separated([i \in DOMAIN consts |-> WriteConst(consts[i])]) \o <<"]">>

WriteAction(action) ==
    WriteKey("action") \o <<"{">> \o WriteKey("type") \o WriteString(action.type)
    \o <<",">>
    \o (IF action.module = <<>> THEN <<>>
        ELSE WriteKey("module") \o WriteEscapedString(action.module) \o <<",">>)
    \o WriteKey("field") \o WriteEscapedString(action.field)
    \o (IF action.type = "get" THEN <<>>
        ELSE <<",">> \o WriteKey("args") \o WriteConstVector(action.args))
    \o <<"}">>

(* No separator between the types: a function has at most one result, as    *)
(* the feature for more is off.                                             *)
WriteActionResultType(action) ==
    WriteKey("expected") \o <<"[">>
    \o FlattenSeq([i \in DOMAIN action.results |->
                      WriteTypeObject(action.results[i])])
    \o <<"]">>

(* The number of a module stands for its file name: GetModuleFilename gives *)
(* the name of the script, the number and the extension, and the base name  *)
(* is written.                                                              *)
WriteFilename(num_modules, extension) ==
    WriteKey("filename") \o <<Quote>> \o Digits(num_modules)
    \o <<extension, Quote>>

Extension(module_type) == IF module_type = "quoted" THEN ".wat" ELSE ".wasm"

WriteInvalidModule(c, num_modules) ==
    WriteLocation(c.line)
    \o WriteFilename(num_modules, Extension(c.module_type)) \o <<",">>
    \o WriteKey("text") \o WriteEscapedString(c.text) \o <<",">>
    \o WriteKey("module_type")
    \o WriteString(IF c.module_type = "quoted" THEN "text" ELSE "binary")

InvalidModuleTypes == {"assert_malformed", "assert_invalid",
                       "assert_unlinkable", "assert_uninstantiable"}
NanTypes == {"assert_return_canonical_nan", "assert_return_arithmetic_nan"}
ActionTypes == {"action", "assert_return", "assert_trap", "assert_exhaustion"}
               \union NanTypes
HasModule(c) == c.type = "module" \/ c.type \in InvalidModuleTypes

OptName(name) ==
    IF name = <<>> THEN <<>>
    ELSE WriteKey("name") \o WriteEscapedString(name) \o <<",">>

WriteActionCommand(c) ==
    WriteLocation(c.line) \o WriteAction(c.action) \o <<",">>
    \o (IF c.type = "assert_return"
        THEN WriteKey("expected") \o WriteConstVector(c.expected)
        ELSE (IF c.type # "assert_trap" THEN <<>>
              ELSE WriteKey("text") \o WriteEscapedString(c.text) \o <<",">>)
             \o WriteActionResultType(c.action))

WriteCommand(c, num_modules) ==
    <<"{">> \o WriteKey("type") \o WriteString(c.type) \o <<",">>
    \o (CASE c.type = "module" ->
               WriteLocation(c.line) \o OptName(c.name)
               \o WriteFilename(num_modules, ".wasm")
          [] c.type = "register" ->
               WriteLocation(c.line) \o OptName(c.name)
               \o WriteKey("as") \o WriteEscapedString(c.as)
          [] c.type \in InvalidModuleTypes -> WriteInvalidModule(c, num_modules)
          [] c.type \in ActionTypes -> WriteActionCommand(c))
    \o <<"}">>

(* The commands before a command that have a module of their own.           *)
NumModules(script, i) == Cardinality({j \in 1 .. i - 1 : HasModule(script[j])})

WriteCommands(script) ==
    <<"{">> \o WriteKey("source_filename") \o WriteEscapedString(<<"s">>)
    \o <<",">> \o WriteKey("commands") \o <<"[">>
    \o Separated([i \in DOMAIN script |->
                     WriteCommand(script[i], NumModules(script, i))])
    \o <<"]", "}">>

(* The files that the modules are written to, by number.                    *)
ModuleFiles(script) ==
    LET with == {i \in DOMAIN script : HasModule(script[i])}
    IN  [n \in {NumModules(script, i) : i \in with} |->
            script[CHOOSE i \in with : NumModules(script, i) = n].file]
-----------------------------------------------------------------------------
(* JSONParser.  The parser is a record: what is left of the file, whether   *)
(* all was well so far, and the command that is being read.                 *)

NoAction == [type |-> "invoke", module |-> <<>>, field |-> <<>>, args |-> <<>>]
NoCommand == [type |-> "", line |-> 0, name |-> <<>>, as |-> <<>>, file |-> 0,
              text |-> <<>>, module_type |-> "binary", action |-> NoAction,
              expected |-> <<>>, values |-> <<>>]

NewParser(json) == [in |-> json, ok |-> TRUE, command |-> NoCommand,
                    commands |-> <<>>]

Failed(p) == [p EXCEPT !.ok = FALSE]
Skip(p, n) == [p EXCEPT !.in = SubSeq(@, n + 1, Len(@))]

Match(p, s) == p.ok /\ IsPrefix(s, p.in)
Expect(p, s) == IF Match(p, s) THEN Skip(p, Len(s)) ELSE Failed(p)
ExpectKey(p, key) == Expect(p, WriteKey(key))

(* The digits at the front of the file, multiplied out in 32 bits.          *)
FrontDigits(in) == Min({i \in 0 .. Len(in) :
                          i = Len(in) \/ in[i + 1] \notin Range(DigitNames)})
DigitOf(c) == (CHOOSE d \in 1 .. 10 : DigitNames[d] = c) - 1
AddDigit(n, c) == IF n < 0 \/ (n * 10 + DigitOf(c)) % (MaxUint32 + 1) < n THEN -1
                  ELSE (n * 10 + DigitOf(c)) % (MaxUint32 + 1)
Number(digits) == FoldLeft(AddDigit, 0, digits)

ParseLine(p) ==
    LET keyed == ExpectKey(p, "line")
        n == FrontDigits(keyed.in)
        line == Number(SubSeq(keyed.in, 1, n))
    IN  IF ~keyed.ok \/ line < 0 THEN Failed(p)
        ELSE [Skip(keyed, n) EXCEPT !.command.line = line]

(* One character of a string; what was read of an escape is kept in escape. *)
StringChar(acc, c) ==
    LET escape == Append(acc.escape, c)
    IN  IF acc.escape = <<>> /\ c # "\\" THEN [acc EXCEPT !.out = Append(@, c)]
        ELSE IF Len(escape) < 6 THEN [acc EXCEPT !.escape = escape]
        ELSE [out |-> Append(acc.out, CHOOSE x \in DOMAIN Escapes :
                                         Escapes[x] = SubSeq(escape, 3, 6)),
              escape |-> <<>>]

Unescaped(chars) ==
    FoldLeft(StringChar, [out |-> <<>>, escape |-> <<>>], chars).out

(* The string at the front of the file, its quotes included.  The parser    *)
(* would never end in a file that ends within a string.                     *)
StringEnd(in) == Min({i \in 2 .. Len(in) : in[i] = Quote})
HasString(p) == p.ok /\ p.in # <<>> /\ p.in[1] = Quote
                /\ \E i \in 2 .. Len(p.in) : p.in[i] = Quote
FrontString(p) == Unescaped(SubSeq(p.in, 2, StringEnd(p.in) - 1))
AfterString(p) == Skip(p, StringEnd(p.in))

(* ParseKeyStringValue, the value to be put in a field of the command.      *)
StringValue(p, field) ==
    IF ~HasString(p) THEN Failed(p)
    ELSE [AfterString(p) EXCEPT !.command[field] = FrontString(p)]
KeyStringValue(p, key) == StringValue(ExpectKey(p, key), key)

ParseOptNameStringValue(p) ==
    IF Match(p, WriteString("name"))
    THEN Expect(KeyStringValue(p, "name"), <<",">>) ELSE p

(* The file name is put behind the directory of the JSON file; the number   *)
(* in it says which file it is.                                             *)
ParseFilename(p) ==
    LET keyed == ExpectKey(p, "filename")
    IN  IF ~HasString(keyed) THEN Failed(p)
        ELSE [AfterString(keyed) EXCEPT
                !.command.file = Number(Front(FrontString(keyed)))]

ParseModuleType(p) ==
    LET keyed == ExpectKey(p, "module_type")
    IN  IF ~HasString(keyed) \/ FrontString(keyed) \notin {<<"text">>, <<"binary">>}
        THEN Failed(p)
        ELSE [AfterString(keyed) EXCEPT
                !.command.module_type = FrontString(keyed)[1]]

ConstTypes == {<<"i32">>, <<"i64">>, <<"f32">>, <<"f64">>}

(* The type, and after it the value, of a constant.                         *)
ParseConst(p) ==
    LET typed == ExpectKey(Expect(p, <<"{">>), "type")
        valued == ExpectKey(Expect(AfterString(typed), <<",">>), "value")
        const == [type |-> FrontString(typed)[1], value |-> Number(FrontString(valued))]
    IN  IF ~HasString(typed) \/ FrontString(typed) \notin ConstTypes THEN Failed(p)
        ELSE IF ~HasString(valued) THEN Failed(p)
        ELSE Expect([AfterString(valued) EXCEPT
                        !.command.values = Append(@, const)], <<"}">>)

ParseTypeObject(p) ==
    LET typed == ExpectKey(Expect(p, <<"{">>), "type")
    IN  IF ~HasString(typed) \/ FrontString(typed) \notin ConstTypes THEN Failed(p)
        ELSE Expect(AfterString(typed), <<"}">>)

(* A comma before each but the first.                                       *)
CommaUnless(p, first) == IF first THEN p ELSE Expect(p, <<",">>)

(* Items up to the bracket.  An item begins with a brace, so there are as   *)
(* many turns as braces at most.                                            *)
UntilBracket(ParseItem(_), p) ==
    LET turns == Cardinality({i \in DOMAIN p.in : p.in[i] = "{"})
        read[turn \in 0 .. turns] ==
            IF turn = 0 THEN p
            ELSE LET q == read[turn - 1]
                 IN  IF ~q.ok \/ Match(q, <<"]">>) THEN q
                     ELSE ParseItem(CommaUnless(q, turn = 1))
    IN  Expect(read[turns], <<"]">>)

ParseConstVector(p) ==
    UntilBracket(ParseConst, [Expect(p, <<"[">>) EXCEPT !.command.values = <<>>])

ParseTypeVector(p) == UntilBracket(ParseTypeObject, Expect(p, <<"[">>))

(* The types of the results are read and forgotten.                         *)
ParseActionResult(p) == ParseTypeVector(ExpectKey(p, "expected"))

ActionType(p) ==
    LET type == IF Match(p, WriteString("invoke")) THEN "invoke" ELSE "get"
    IN  [Expect(p, WriteString(type)) EXCEPT !.command.action.type = type]

ActionModule(p) ==
    LET keyed == ExpectKey(p, "module")
    IN  IF ~Match(p, WriteString("module")) THEN p
        ELSE IF ~HasString(keyed) THEN Failed(p)
        ELSE Expect([AfterString(keyed) EXCEPT
                        !.command.action.module = FrontString(keyed)], <<",">>)

ActionField(p) ==
    LET keyed == ExpectKey(p, "field")
    IN  IF ~HasString(keyed) THEN Failed(p)
        ELSE [AfterString(keyed) EXCEPT !.command.action.field = FrontString(keyed)]

ActionArgs(p) ==
    LET parsed == ParseConstVector(ExpectKey(Expect(p, <<",">>), "args"))
    IN  IF p.command.action.type # "invoke" THEN p
        ELSE [parsed EXCEPT !.command.action.args = parsed.command.values]

ParseAction(p) ==
    LET begun == ExpectKey(Expect(ExpectKey(p, "action"), <<"{">>), "type")
        typed == Expect(ActionType(begun), <<",">>)
    IN  Expect(ActionArgs(ActionField(ActionModule(typed))), <<"}">>)

ParseExpected(p) ==
    LET parsed == ParseConstVector(ExpectKey(p, "expected"))
    IN  [parsed EXCEPT !.command.expected = parsed.command.values]

(* What each command is made of, after its type.                            *)
CommandParts(type) ==
    CASE type = "module" -> <<"line", ",", "name", "filename">>
      [] type = "register" -> <<"line", ",", "name", "as">>
      [] type \in InvalidModuleTypes ->
           <<"line", ",", "filename", ",", "text", ",", "module_type">>
      [] type = "assert_return" -> <<"line", ",", "action", ",", "expected">>
      [] type = "assert_trap" ->
           <<"line", ",", "action", ",", "text", ",", "result">>
      [] type \in {"action", "assert_exhaustion"} \union NanTypes ->
           <<"line", ",", "action", ",", "result">>

ParsePart(p, part) ==
    CASE ~p.ok -> p
      [] part = "," -> Expect(p, <<",">>)
      [] part = "line" -> ParseLine(p)
      [] part = "name" -> ParseOptNameStringValue(p)
      [] part = "filename" -> ParseFilename(p)
      [] part \in {"text", "as"} -> KeyStringValue(p, part)
      [] part = "module_type" -> ParseModuleType(p)
      [] part = "action" -> ParseAction(p)
      [] part = "expected" -> ParseExpected(p)
      [] part = "result" -> ParseActionResult(p)

CommandTypes == {"module", "register"} \union InvalidModuleTypes \union ActionTypes

(* The commands whose type is at the front of the file.                     *)
MatchingTypes(p) == {t \in CommandTypes : Match(p, WriteString(t))}

ParseCommandOf(p, type) ==
    FoldLeft(ParsePart, Expect(p, WriteString(type) \o <<",">>), CommandParts(type))

ParseCommand(p) ==
    LET begun == [ExpectKey(Expect(p, <<"{">>), "type") EXCEPT !.command = NoCommand]
        types == MatchingTypes(begun)
        parsed == Expect(ParseCommandOf(begun, CHOOSE t \in types : TRUE), <<"}">>)
    IN  IF types = {} THEN Failed(p)
        ELSE [parsed EXCEPT
                !.commands = Append(@, [parsed.command EXCEPT
                    !.type = CHOOSE t \in types : TRUE, !.values = <<>>])]

ParseScript(json) ==
    LET named == KeyStringValue(Expect([NewParser(json) EXCEPT
                     !.command = [source_filename |-> <<>>]], <<"{">>),
                     "source_filename")
        listed == Expect(ExpectKey(Expect(named, <<",">>), "commands"), <<"[">>)
    IN  Expect(UntilBracket(ParseCommand, listed), <<"}">>)
=============================================================================
