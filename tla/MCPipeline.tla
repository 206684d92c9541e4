----------------------------- MODULE MCPipeline -----------------------------
(* Small instances of Pipeline for TLC: documents and hand-written texts,  *)
(* and what comes out against what went in.                                *)
EXTENDS Pipeline

SeqUpTo(S, n) == UNION {[1 .. k -> S] : k \in 0 .. n}
Joined(pieces) == {FlattenSeq(s) : s \in pieces}
File(bytes) == [is |-> "document", bytes |-> bytes]
NoFile(why) == [is |-> why, bytes |-> << >>]

(* Bytes split 8 x 11.  Heads of arrays, maps, a tag, a chunked text, a    *)
(* break, a text, an integer; and whole items: integers on both sides of   *)
(* IntMax, texts with a quotation mark and a NUL, byte strings of three    *)
(* and of two bytes, every simple value, halves that are a fraction, whole *)
(* subnormal, infinite and not a number, a single, doubles.                *)
Structure == {<< 45 >>, << 46 >>, << 54 >>, << 56 >>, << 65 >>, << 66 >>, << 87 >>, << 34, 1 >>, << 1 >>}
Floats ==
  {<< 83, 0, 1 >>, << 83, 0, 6 >>, << 83, 0, 8 >>, << 83, 0, 12 >>, << 83, 0, 14 >>, << 83, 0, 28 >>,
   << 84, 0, 0, 1, 24 >>, << 85, 0, 0, 0, 0, 0, 0, 5, 8 >>, << 85, 0, 0, 0, 0, 0, 0, 5, 9 >>,
   << 85, 0, 0, 0, 0, 0, 0, 9, 76 >>}
Strings == {<< 34, 2 >>, << 34, 0 >>, << 25, 1, 2, 3 >>, << 24, 1, 2 >>, << 43, 34, 1, 33, 87 >>}
Others == {<< 5, 1 >>, << 5, 87 >>, << 6, 1, 2 >>, << 6, 1, 0 >>, << 16, 87 >>, << 17, 1, 0 >>, << 17, 1, 1 >>,
           << 77 >>, << 78 >>, << 80 >>, << 81 >>, << 82, 20 >>}
Atoms == Floats \cup Strings \cup Others
Tagged == {<< t >> \o v : t \in {66, 67, 68, 69}, v \in Strings \cup {<< 1 >>, << 83, 0, 6 >>, << 45, 1 >>}}

Entry(key, v) == << 56 >> \o key \o v
Brief ==
  Joined(SeqUpTo(Structure, 2)) \cup Atoms \cup Tagged
    \cup {<< 45 >> \o v : v \in Atoms}
    \cup {Entry(<< 34, 1 >>, v) : v \in Atoms \cup Tagged}
    \cup {Entry(k, v) : k \in {<< 33 >>, << 34, 2 >>, << 34, 0 >>, << 45, 34, 2 >>, << 23, 1 >>},
                        v \in {<< 1 >>, << 81 >>, << 78, 1 >>}}
    \cup {<< 57, 34, 1 >> \o v \o << 34, k >> \o w :
            k \in {1, 4}, v, w \in {<< 83, 0, 6 >>, << 25, 1, 2, 3 >>, << 1 >>, << 66, 1 >>, << 69, 25, 1, 2, 3 >>}}
    \cup {[i \in 1 .. n |-> 45] \o << 1 >> : n \in 2 .. 6}
    \cup {<< 47, 1, 1, 1 >>, << 65, 34, 1, 81, 87 >>, Entry(<< 34, 1 >>, Entry(<< 34, 1 >>, << 81 >>)),
          Entry(<< 34, 1 >>, << 70 >> \o Entry(<< 34, 4 >>, << 69, 1 >>))}
Singles == Brief \cup Joined([1 .. 3 -> Structure])

Few == {NoFile("missing"), NoFile("unreadable"), File(<< >>), File(<< 1 >>), File(<< 1, 1 >>),
        File(<< 45 >>), File(<< 54, 1, 29 >>), File(<< 34, 3 >>)}

AWord(is, letters, file) == [is |-> is, letters |-> letters, file |-> file]
Option(letters) == AWord("bundle", letters, NoFile("missing"))
DashDash == AWord("--", << >>, NoFile("missing"))
Operand(file) == AWord("operand", << >>, file)
Options == {<< >>, << "n", "f" >>, << "j" >>, << "j", "c", "j" >>, << "j", "c" >>, << "h", "x" >>, << "j", "x" >>}

MCDumps ==
  [args : {<< Option(o) >> \o [i \in DOMAIN s |-> Operand(s[i])] : o \in Options \ {<< >>}, s \in SeqUpTo(Few, 2)}
            \cup SeqUpTo({Option(<< "j" >>), DashDash, Operand(File(<< 45 >>)), Operand(File(<< 33 >>))}, 3),
   stdin : {NoFile("unreadable"), File(<< 33 >>)}, sink : {"terminal", "other"}]

(* json2cbor's command lines: with and without -M, and all short ones. *)
TextFile(text) == [is |-> "text", bytes |-> text]
Interpreting == << Option(<< "M" >>) >>
CommandLines ==
  SeqUpTo({Option(<< "M" >>), Option(<< "M", "x" >>), DashDash, Operand(StandardInput),
           Operand(TextFile(<< Num("integer", 1) >>)), Operand(NoFile("missing"))}, 2)

Piped(options, documents, lines) ==
  [args : {<< Option(<< "j" >> \o options), Operand(File(d)) >> : d \in documents},
   stdin : {NoFile("unreadable")}, line : lines, posix : {FALSE}]
MCPipes ==
  Piped(<< "M" >>, Singles, {Interpreting}) \cup Piped(<< "S" >>, Singles, {<< >>})
    \cup Piped(<< "O", "M" >>, Brief, {Interpreting}) \cup Piped(<< "U" >>, Brief, {<< >>})
    \cup [args : {<< Option(<< "j", "M" >>) >> \o [i \in DOMAIN s |-> Operand(s[i])] : s \in SeqUpTo(Few, 2)},
          stdin : {NoFile("unreadable"), File(<< 33 >>)}, line : {Interpreting}, posix : {FALSE}]
    \cup [args : {<< Option(<< "j", "M" >>), Operand(File(d)) >> :
                   d \in {<< 45 >>, Entry(<< 34, 1 >>, << 81 >>)}},
          stdin : {NoFile("unreadable")}, line : CommandLines, posix : BOOLEAN]

-----------------------------------------------------------------------------
(* Texts: {"k": v, "k$cbor": {f1: v1, ...}} and others. *)
Key1 == << Num("char", 1) >>
Commas(pieces) ==
  FlattenSeq([i \in DOMAIN pieces |-> (IF i = 1 THEN << >> ELSE Comma) \o pieces[i]])
List(items) == Say("[") \o Commas(items) \o Say("]")
Object(entries) ==
  Say("{") \o Commas([i \in DOMAIN entries |-> InQuotes(entries[i][1]) \o Colon \o entries[i][2]]) \o Say("}")
One1 == << Num("integer", 1) >>
Note(fields, v) == Object(<< << Key1, v >>, << Append(Key1, Marker), Object(fields) >> >>)
OfType(kind) == << Say("t"), << Num("integer", TypeCode(kind)) >> >>

HalfTexts ==
  {Note(<< OfType("half") >>, << Num("fraction", bits) >>) :
     bits \in {x \in Patterns(Double) : IsFinite(Double, x) /\ x % 2 ^ (DoubleMantissa - SingleMantissa) < 2}}
OtherNotes ==
  {Note(<< OfType(kind), << Say("v"), v >> >>, w) :
     kind \in {"integer", "bytes", "simple", "undefined", "float", "tag"},
     v \in {<< Num("integer", 5) >>, << Num("integer", 7) >>, << Num("integer", 20) >>, InQuotes(<< Tok("+"), Num("hex", 9) >>),
            InQuotes(<< Tok("-"), Num("hex", 0) >>), InQuotes(Say("nan")), InQuotes(<< Tok("-"), Tok("inf") >>)},
     w \in {One1, InQuotes(Key1), InQuotes(In("base64url", << 1, 2, 3 >>))}}
TagNotes ==
  {Note(<< << Say("tag"), v >> >>, One1) :
     v \in {One1, InQuotes(One1), InQuotes(<< >>), InQuotes(Key1)}}
TwoFloats ==
  Object(<< << Key1, << Num("fraction", 80) >> >>, << Key1, One1 >>, << Key1, One1 >>, << Key1, One1 >>,
            << Append(Key1, Marker), Object(<< OfType("double") >>) >> >>)
ExponentText == << Num("exponent", 88) >>
OtherTexts ==
  {<< >>, ExponentText, List(<< ExponentText, ExponentText >>), << Num("fraction", 80) >>, List(<< >>), Object(<< >>),
   List([i \in 1 .. 3 |-> One1]), << Bom, Newline >> \o One1 \o << Newline >>, One1 \o One1, One1 \o Comma,
   InQuotes(<< Backslash, Tok("x") >>), InQuotes(<< Backslash, Quote >>), << Quote, Backslash, Quote >>,
   List(<< List(<< List(<< List(<< >>) >>) >>) >>), Say("[") \o One1, Say("{") \o InQuotes(Key1) \o Say("}"),
   Object(<< << Say("$cbor"), One1 >> >>), Note(<< << Key1, One1 >> >>, One1), TwoFloats}
MCTexts ==
  [stdin : {TextFile(t) : t \in HalfTexts \cup OtherNotes \cup TagNotes \cup OtherTexts},
   line : {Interpreting}, posix : {FALSE}]
    \cup [stdin : {TextFile(t) : t \in OtherNotes \cup OtherTexts}, line : {<< >>}, posix : {FALSE}]
    \cup [stdin : {NoFile("unreadable")}, line : CommandLines, posix : {FALSE}]

-----------------------------------------------------------------------------
(* The command line read from left to right. *)
ReadWord(sofar, word) ==
  CASE sofar.ended -> [sofar EXCEPT !.named = Append(@, word.file)]
    [] ~sofar.ended /\ word.is = "bundle" -> [sofar EXCEPT !.letters = @ \o word.letters]
    [] ~sofar.ended /\ word.is = "--" -> [sofar EXCEPT !.ended = TRUE]
    [] ~sofar.ended /\ word.is = "operand" -> [sofar EXCEPT !.ended = TRUE, !.named = << word.file >>]
CommandLine == FoldLeft(ReadWord, [ended |-> FALSE, letters |-> << >>, named |-> << >>], args)
Named == IF CommandLine.named = << >> THEN << stdin >> ELSE CommandLine.named
Has(letter) == letter \in Range(CommandLine.letters)
NoDump == Has("h") \/ Has("x")

(* json2cbor's: its options may stand anywhere before a "--". *)
ReadJsonWord(sofar, word) ==
  CASE ~sofar.ended /\ word.is = "bundle" -> [sofar EXCEPT !.letters = @ \o word.letters]
    [] ~sofar.ended /\ word.is = "--" -> [sofar EXCEPT !.ended = TRUE]
    [] OTHER -> [sofar EXCEPT !.named = Append(@, word.file), !.ended = @ \/ posix]
JsonCommandLine ==
  FoldLeft(ReadJsonWord, [ended |-> FALSE, letters |-> << >>, named |-> << >>], words)
Understood == Range(JsonCommandLine.letters) \subseteq {"M"}
Asked == "M" \in Range(JsonCommandLine.letters)
Reads == IF JsonCommandLine.named = << >> THEN StandardInput ELSE JsonCommandLine.named[1]

(* What cbordump makes of a file, all of it or as far as it gets. *)
Of(bytes) == INSTANCE DumpPrinters WITH buf <- bytes
Printed(f) ==
  IF f.is # "document" THEN [err |-> f.is, out |-> << >>, pos |-> 0]
  ELSE IF json THEN Of(f.bytes)!DumpJson(flags) ELSE Of(f.bytes)!DumpPretty(flags)

(* What it comes to for all the files named: they come as far as the first *)
(* that is not clean, a document that ends where its file does.            *)
Summary ==
  IF NoDump
  THEN [lines |-> << Usage, LineEnd >>, cut_short |-> << >>, documents |-> 0,
        complaint |-> IF Has("x") /\ ~Has("h") THEN << Stderr, Stderr >> ELSE << >>]
  ELSE With([i \in DOMAIN Named |-> Printed(Named[i])], LAMBDA printed :
         LET Ok(i) == printed[i].err = "ok"
             Clean(i) == Ok(i) /\ printed[i].pos = Len(Named[i].bytes) + 1
             reached == Min({Len(Named)} \cup {i \in DOMAIN Named : ~Clean(i)})
         IN  [lines |-> FlattenSeq([i \in 1 .. reached |->
                          IF Ok(i) THEN Append(printed[i].out, LineEnd) ELSE << >>]),
              cut_short |-> IF Ok(reached) THEN << >> ELSE printed[reached].out,
              documents |-> Cardinality({i \in 1 .. reached : Ok(i)}),
              complaint |-> IF Clean(reached) THEN << >> ELSE << Stderr >>])
Code(summary) == IF summary.complaint = << >> THEN 0 ELSE 1

(* What the two streams of cbordump show together, in the order they show  *)
(* it: the files named behind the options, or else standard input, in      *)
(* order as far as they could be read, each document on a line of its own; *)
(* on a terminal the lines come before the diagnostic and the line that    *)
(* was cut short after it; elsewhere the diagnostic comes first, and       *)
(* before the usage always.  (This order is the code's, of the comment at  *)
(* Stdout in main.rs; the documentation has another, see DecodedFirst.)    *)
(* Of output that could not be written only a broken pipe makes a          *)
(* difference to the exit code.                                            *)
ScreenExact ==
  session # "text" /\ doing = "exited" =>
    \A s \in {Summary} :
      \/ /\ code = Code(s)
         /\ screen = IF sink = "terminal" /\ ~NoDump THEN s.lines \o s.complaint \o s.cut_short
                     ELSE s.complaint \o s.lines \o s.cut_short
      \/ sink = "other" /\ code \in {Code(s), 141} /\ screen = s.complaint
      \/ sink = "pipe" /\ code = 141 /\ screen = s.complaint /\ phase = "exited"
           /\ ~(Understood /\ Reads = StandardInput)

(* docs/src/using/tools.md of input that breaks off: "Whatever was decoded *)
(* before the failure has already been printed", and above the diagnostic  *)
(* in the transcript it shows.                                             *)
DecodedFirst ==
  session = "dump" /\ sink = "terminal" /\ ~NoDump =>
    \A i \in DOMAIN screen : screen[i] = Stderr => i = Len(screen)

-----------------------------------------------------------------------------
(* How deep the brackets of a JSON text nest, outside its strings. *)
Deeper(sofar, token) ==
  IF sofar.escaped THEN [sofar EXCEPT !.escaped = FALSE]
  ELSE CASE token = Quote -> [sofar EXCEPT !.inside = ~@]
         [] token = Backslash -> [sofar EXCEPT !.escaped = TRUE]
         [] token.t \in {"[", "{"} /\ ~sofar.inside ->
              [sofar EXCEPT !.depth = @ + 1, !.deepest = IF sofar.depth = @ THEN @ + 1 ELSE @]
         [] token.t \in {"]", "}"} /\ ~sofar.inside -> [sofar EXCEPT !.depth = @ - 1]
         [] OTHER -> sofar
Depth(text) ==
  FoldLeft(Deeper, [escaped |-> FALSE, inside |-> FALSE, depth |-> 0, deepest |-> 0], text).deepest

(* A pipeline whose json2cbor understands its options and reads the pipe   *)
(* succeeds exactly when cbordump printed one document, whole, and no      *)
(* deeper than JSON is read: text cut short by an error never passes for a *)
(* document, every text printed whole is one that parses, and its CBOR     *)
(* never needs more room than the text took.                               *)
OneWhole ==
  \A s \in {Summary} : s.documents = 1 /\ s.cut_short = << >> /\ Depth(s.lines) <= NESTING_LIMIT
AcceptsWholeDumps ==
  session = "pipe" /\ phase = "exited" =>
    (exit # 1 <=> Understood /\ IF Reads = StandardInput THEN OneWhole ELSE Reads.is = "text")

(* What is written is one well-formed item, unless metadata asked for the  *)
(* simple value 24, which has no well-formed spelling and is not refused;  *)
(* and no CBOR at all by a program that failed.                            *)
Out == INSTANCE Grammar WITH buf <- binary, Documents <- {}
AskedFor24 ==
  \E i \in 1 .. Len(binary) - 1 : SubSeq(binary, i, i + 1) = << Initial("simple", Value8Bit), Value8Bit >>
OneItemOut ==
  phase = "exited" =>
    IF exit = 1 THEN binary \in {<< >>, UsageText}
    ELSE binary # << >> /\ ~AskedFor24 => Out!ItemEnd(1, Out!Unlimited) = Len(binary) + 1

(* A half float is the nearest to the single its value is cast to, ties to *)
(* even, down to the subnormal and up to the infinite ones.                *)
HalfNearest ==
  phase = "encode" /\ HasFloat /\ Now.md.t = TypeCode("half") =>
    LET single == Convert(Double, Single, FloatOf(Now.value, Now.md.v))
    IN  encode(single) = Convert(Single, Half, single)

-----------------------------------------------------------------------------
(* What an item means, whatever the spelling of its heads and lengths: its *)
(* major types, numbers and payloads in a row; and where it ends.          *)
RECURSIVE Meaning(_, _), ItemsFrom(_, _, _)
Payloads(items) == FlattenSeq([i \in DOMAIN items |-> SubSeq(items[i].is, 3, Len(items[i].is))])
Meaning(b, q) ==
  LET major == MajorOf(b[q])
      d == Descriptor(b[q])
      open == d = IndefiniteLength
      v == IF open THEN 0 ELSE Argument(b, q)
      next == q + 1 + IF open THEN 0 ELSE BytesNeeded(d)
      items == ItemsFrom(b, next, IF open THEN -1 ELSE IF major = "map" THEN 2 * v ELSE v)
      end == (IF items = << >> THEN next ELSE items[Len(items)].at) + IF open THEN 1 ELSE 0
      item(n, is, at) == [is |-> << MajorCode(major), n >> \o is, at |-> at, from |-> q]
  IN  CASE major \in StringMajors /\ open -> item(Len(Payloads(items)), Payloads(items), end)
        [] major \in StringMajors /\ ~open -> item(v, SubSeq(b, next, next + v - 1), next + v)
        [] major \in ContainerMajors ->
             item(Len(items), FlattenSeq([i \in DOMAIN items |-> items[i].is]), end)
        [] major = "tag" -> item(v, Meaning(b, next).is, Meaning(b, next).at)
        [] major = "simple" -> item(v, << IF d > Value8Bit THEN d ELSE 0 >>, next)
        [] OTHER -> item(v, << >>, next)
ItemsFrom(b, q, n) ==
  IF n = 0 \/ (n < 0 /\ b[q] = BreakByte) THEN << >>
  ELSE << Meaning(b, q) >> \o ItemsFrom(b, Meaning(b, q).at, n - 1)

(* The items in the container or tag at q. *)
Contents(b, q) ==
  LET d == Descriptor(b[q])
  IN  IF d = IndefiniteLength THEN ItemsFrom(b, q + 1, -1)
      ELSE ItemsFrom(b, q + 1 + BytesNeeded(d),
                     CASE MajorOf(b[q]) = "tag" -> 1
                       [] MajorOf(b[q]) = "map" -> 2 * Argument(b, q)
                       [] OTHER -> Argument(b, q))

(* What JSON keeps, with or without metadata ("described"): integers an    *)
(* int holds, texts without NUL, doubles that are neither whole nor        *)
(* special; in a map under keys that are texts, none empty or twice, also  *)
(* the other simple values and floats but a negative zero or NaN, byte     *)
(* strings of whole base64 groups, and a value with one tag.               *)
Fractional(bits) == IsFinite(Double, bits) /\ ~IsWhole(bits)
KeptFloat(kind, bits) ==
  LET double == AsDouble(kind, bits)
      f == CASE kind = "half" -> Half [] kind = "float" -> Single [] kind = "double" -> Double
  IN  IF IsNaN(f, bits) THEN bits = QuietNaN(f, 0) ELSE Magnitude(Double, double) # 0 \/ bits = 0

RECURSIVE Kept(_, _, _, _), TagsAround(_, _)
Kept(b, q, described, tag) ==
  LET major == MajorOf(b[q])
      kind == Kind(major, Descriptor(b[q]))
      Text(is) == MajorOf(b[is.from]) = "text"
  IN  With(Meaning(b, q).is, LAMBDA is :
        CASE kind = "integer" -> is[2] <= IntMax
          [] kind = "bytes" -> described /\ (is[2] % 3 = 0 \/ tag = EXPECTED_BASE16)
          [] kind = "text" -> 0 \notin Range(SubSeq(is, 3, Len(is)))
          [] kind \in ContainerMajors \cup {"tag"} ->
               With(Contents(b, q), LAMBDA items :
                 LET keys == {i \in DOMAIN items : kind = "map" /\ i % 2 = 1}
                 IN  /\ \A i \in keys : Text(items[i]) /\ items[i].is[2] > 0
                     /\ \A i, j \in keys : i # j => items[i].is # items[j].is
                     /\ kind = "tag" => described /\ tag = -1
                     /\ \A i \in DOMAIN items :
                          Kept(b, items[i].from, kind = "tag" \/ (kind = "map" /\ i % 2 = 0),
                               IF kind = "tag" THEN Argument(b, q) ELSE -1))
          [] kind \in {"boolean", "null"} -> TRUE
          [] kind \in {"simple", "undefined"} -> described
          [] kind \in FloatKinds ->
               IF described THEN KeptFloat(kind, is[2]) ELSE kind = "double" /\ Fractional(is[2]))

(* The most tags there are around one item. *)
TagsAround(b, q) ==
  LET major == MajorOf(b[q])
      inside == IF major \in ContainerMajors \cup {"tag"} THEN Contents(b, q) ELSE << >>
  IN  (IF major = "tag" THEN 1 ELSE 0)
        + Max({0} \cup {TagsAround(b, inside[i].from) : i \in DOMAIN inside})

Returned ==
  /\ session = "pipe" /\ phase = "exited" /\ exit = 0 /\ binary # << >>
  /\ Reads = StandardInput /\ Asked
  /\ flags = {"metadata"} /\ Summary.complaint = << >>
Same(a, b) == Meaning(a, 1).is = Meaning(b, 1).is

(* cbordump -jM | json2cbor -M: a document of what is kept comes back as   *)
(* it was, unless a tagged value holds another tag.                        *)
RoundTrip ==
  Returned /\ Kept(files[1].bytes, 1, FALSE, -1) /\ TagsAround(files[1].bytes, 1) <= 1
    => Same(binary, files[1].bytes)

(* docs/src/using/tools.md: with the metadata the round trip is lossless,  *)
(* here for the documents of what is kept, tags within tags included.      *)
RoundTripLossless == Returned /\ Kept(files[1].bytes, 1, FALSE, -1) => Same(binary, files[1].bytes)
=============================================================================
