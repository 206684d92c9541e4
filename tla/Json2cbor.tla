----------------------------- MODULE Json2cbor -----------------------------
(***************************************************************************)
(* The program json2cbor (tools/json2cbor/src/main.rs): the whole input is *)
(* read, parsed and encoded into a buffer with as much room as the text    *)
(* took, one byte more if its length was known beforehand.  No CBOR is     *)
(* written unless all of it worked.                                        *)
(***************************************************************************)
EXTENDS JsonParse, JsonEncoder

VARIABLES
  words, posix,  \* the words of its command line, and POSIXLY_CORRECT
  metadata,      \* -M
  source,        \* the file it reads, or standard input
  input,         \* the text, once it is read
  phase,         \* "options", "read", "parse", "encode", "exited"
  exit,          \* the exit code
  binary         \* what was written

programVars == << words, posix, metadata, source, input, phase, exit, binary >>
json2cborVars == << encoderVars, programVars >>

StandardInput == [is |-> "stdin", bytes |-> << >>]

NewProgram(line, correct) ==
  /\ words = line /\ posix = correct /\ metadata = FALSE /\ source = StandardInput
  /\ input = << >> /\ phase = "options" /\ exit = 0 /\ binary = << >>
  /\ out = << >> /\ limit = 0 /\ todo = << >> /\ refusal = "ok"

Exit(status) == exit' = status /\ phase' = "exited"

-----------------------------------------------------------------------------
(* Getopt, the GNU one: options may stand behind operands, up to a "--";   *)
(* with POSIXLY_CORRECT they end at the first operand.  Words that are no  *)
(* options any more are names of files.                                    *)
OptionsEnd ==
  Min({Len(words) + 1} \cup
      {i \in DOMAIN words : words[i].is = "--" \/ (posix /\ words[i].is = "operand")})
GivenLetters ==
  FlattenSeq([i \in 1 .. OptionsEnd - 1 |-> words[i].letters])
GivenOperands ==
  SelectSeq(SubSeq(words, 1, OptionsEnd - 1), LAMBDA word : word.is = "operand")
    \o SubSeq(words, OptionsEnd + IF posix /\ OptionsEnd \in DOMAIN words
                                    /\ words[OptionsEnd].is = "operand" THEN 0 ELSE 1,
              Len(words))

(* main: one letter is known.  Only the first operand is read. *)
ReadCommand ==
  /\ phase = "options" /\ Range(GivenLetters) \subseteq {"M"}
  /\ metadata' = ("M" \in Range(GivenLetters))
  /\ source' = IF GivenOperands = << >> THEN StandardInput ELSE GivenOperands[1].file
  /\ phase' = "read"
  /\ UNCHANGED << encoderVars, words, posix, input, exit, binary >>
UsageText == << Tok("usage") >>
RefuseCommand ==
  /\ phase = "options" /\ ~(Range(GivenLetters) \subseteq {"M"})
  /\ binary' = UsageText /\ Exit(1)
  /\ UNCHANGED << encoderVars, words, posix, metadata, source, input >>

-----------------------------------------------------------------------------

(* The bytes a text takes, at the least: a decimal number no less than the *)
(* head of the same number.                                                *)
Width(token) ==
  CASE token.t = "integer" /\ token.n >= 0 -> HeadSize(token.n)
    [] token.t = "integer" /\ token.n < 0 -> HeadSize(-1 - token.n) + 1
    [] token.t = "fraction" -> 3
    [] OTHER -> 1
TextLength(text) == FoldLeft(LAMBDA sum, token : sum + Width(token), 0, text)

(* read_input: a pipe's length is not known before its end. *)
Capacity(text, measured) == TextLength(text) + IF measured THEN 1 ELSE 0
ReadInput(text, measured) ==
  /\ phase = "read"
  /\ input' = text /\ limit' = Capacity(text, measured) /\ phase' = "parse"
  /\ UNCHANGED << out, todo, refusal, words, posix, metadata, source, exit, binary >>
InputFails ==
  /\ phase = "read" /\ Exit(1)
  /\ UNCHANGED << encoderVars, words, posix, metadata, source, input, binary >>

ParseInput ==
  /\ phase = "parse" /\ Parse(input).ok
  /\ todo' = << Plain(Parse(input).value, metadata) >> /\ phase' = "encode"
  /\ UNCHANGED << out, limit, refusal, words, posix, metadata, source, input, exit, binary >>
CouldNotParse ==
  /\ phase = "parse" /\ ~Parse(input).ok /\ Exit(1)
  /\ UNCHANGED << encoderVars, words, posix, metadata, source, input, binary >>

Encode == phase = "encode" /\ EncodeStep /\ UNCHANGED programVars
CouldNotEncode ==
  /\ phase = "encode" /\ refusal # "ok" /\ Exit(1)
  /\ UNCHANGED << encoderVars, words, posix, metadata, source, input, binary >>

(* The reader gone away is the only failure to write that is looked at. *)
WriteBinary ==
  /\ phase = "encode" /\ refusal = "ok" /\ todo = << >>
  /\ \/ binary' = out /\ Exit(0)
     \/ binary' = << >> /\ \E status \in {0, 141} : Exit(status)
  /\ UNCHANGED << encoderVars, words, posix, metadata, source, input >>

ConvertStep ==
  ReadCommand \/ RefuseCommand \/ ParseInput \/ CouldNotParse \/ Encode \/ CouldNotEncode
    \/ WriteBinary
=============================================================================
