-------------------------------- MODULE Text --------------------------------
(***************************************************************************)
(* What the printers write and json2cbor reads back: a sequence of tokens, *)
(* each a kind and a number.  Punctuation and words carry no number; a     *)
(* number stands for its decimal text, a byte of a string for its spelling *)
(* (as it is, or in one of the base encodings).                            *)
(*                                                                         *)
(* Also the names the two JSON converters share: the kinds of items, what  *)
(* a conversion loses, and the text of a number, which the library         *)
(* (cbor-ffi/src) and cbordump (tools/cbordump/src) each spell the same.   *)
(***************************************************************************)
EXTENDS CborHead, HalfFloat, SequencesExt

CONSTANTS
  QuoteByte,      \* the text byte that is a quotation mark
  NotUtf8,        \* text bytes that make their string invalid UTF-8
  WholeLimit,     \* 2^64: whole numbers below it are printed as integers
  NEGATIVE_BIGNUM, EXPECTED_BASE64, EXPECTED_BASE16

Tok(t) == [t |-> t, n |-> 0]
Num(t, n) == [t |-> t, n |-> n]
Say(t) == << Tok(t) >>

Quote == Tok("quote")
Backslash == Tok("backslash")
Comma == Say("comma")
Colon == Say("colon")
TooDeepMark == Say("<nesting too deep, recursion stopped>")
Bracket(type) == Say(IF type = "array" THEN "[" ELSE "{")
Closing(type) == Say(IF type = "array" THEN "]" ELSE "}")

(* A walk in progress is a record of its error, its text and where it is.  *)
Says(w, text) == [w EXCEPT !.out = @ \o text]
Fails(w, err) == [w EXCEPT !.err = err]
Then(w, Step(_)) == With(w, LAMBDA x : IF x.err = "ok" THEN Step(x) ELSE x)

(* The bytes of a string as they stand, and in an encoding. *)
Char(byte) == IF byte = QuoteByte THEN Quote ELSE Num("char", byte)
Chars(bytes) == [i \in DOMAIN bytes |-> Char(bytes[i])]
In(encoding, bytes) == [i \in DOMAIN bytes |-> Num(encoding, bytes[i])]

(* escape_json: a quotation mark or a backslash gets a backslash. *)
Escaped_QuoteOnly(s) ==
  FlattenSeq([i \in DOMAIN s |-> IF s[i] = Quote THEN << Backslash, Quote >> ELSE << s[i] >>])
Escaped(s) ==
  FlattenSeq([i \in DOMAIN s |->
    IF s[i] \in {Quote, Backslash} THEN << Backslash, s[i] >> ELSE << s[i] >>])
InQuotes(s) == << Quote >> \o s \o << Quote >>

(* A string in diagnostic notation. *)
Opening(type) == IF type = "text" THEN << Quote >> ELSE Say("h'")
Shut(type) == IF type = "text" THEN << Quote >> ELSE Say("'")
Dumped(type, bytes) == IF type = "text" THEN Escaped(Chars(bytes)) ELSE In("base16", bytes)
IsUtf8(bytes) == \A i \in DOMAIN bytes : bytes[i] \notin NotUtf8

(* The descriptor of the shortest head for a value, and the mark of a head *)
(* that is longer.                                                         *)
Shortest(value) ==
  IF value < Value8Bit THEN Value8Bit - 1
  ELSE CASE HeadSize(value) = 2 -> Value8Bit
         [] HeadSize(value) = 3 -> Value8Bit + 1
         [] HeadSize(value) = 5 -> Value8Bit + 2
         [] HeadSize(value) = 9 -> Value8Bit + 3
OverlongText(value, d) ==
  IF Shortest(value) = d THEN << >> ELSE << Num("overlong", d - Value8Bit) >>

(* What both printers are called with when JSON borrows diagnostic notation. *)
DefaultFlags == {"indeterminate"}

-----------------------------------------------------------------------------
(* The kind of an item, from its major type and its descriptor: the last   *)
(* four simple values of the head byte have names, the three descriptors   *)
(* with two bytes and more are floats.                                     *)
Words == << "false", "true", "null", "undefined" >>
Word(value) == Words[value - (Value8Bit - 5)]
Kind(major, descriptor) ==
  CASE major = "negative" -> "integer"
    [] major = "uint" -> "integer"
    [] major = "simple" ->
         (CASE descriptor \in {Value8Bit - 4, Value8Bit - 3} -> "boolean"
            [] descriptor = Value8Bit - 2 -> "null"
            [] descriptor = Value8Bit - 1 -> "undefined"
            [] descriptor = Value8Bit + 1 -> "half"
            [] descriptor = Value8Bit + 2 -> "float"
            [] descriptor = Value8Bit + 3 -> "double"
            [] OTHER -> "simple")
    [] OTHER -> major
FloatKinds == {"half", "float", "double"}

(* A float of the item's own width, as the double it is printed from. *)
AsDouble(kind, bits) ==
  IF kind = "double" THEN bits
  ELSE Convert(Single, Double, IF kind = "half" THEN decode(bits) ELSE bits)

IsWhole(val) ==
  /\ IsFinite(Double, val)
  /\ Magnitude(Double, val) % One = 0 /\ Magnitude(Double, val) \div One < WholeLimit
Whole(val) == Magnitude(Double, val) \div One

(* val < 0.0, which a negative zero is not. *)
IsBelowZero(val) ==
  Sign(Double, val) = 1 /\ ~IsNaN(Double, val) /\ Magnitude(Double, val) # 0

(* Diagnostic notation marks the width, and a whole number by its dot. *)
FloatText(kind, bits) ==
  With(AsDouble(kind, bits), LAMBDA val :
    CASE IsNaN(Double, val) -> Say(IF Sign(Double, val) = 1 THEN "-nan" ELSE "nan")
      [] IsInfinite(Double, val) -> Say(IF IsBelowZero(val) THEN "-inf" ELSE "inf")
      [] IsWhole(val) ->
           (IF IsBelowZero(val) THEN Say("-") ELSE << >>)
             \o << Num("whole", Whole(val)), Tok(kind) >>
      [] OTHER -> << Num("fraction", val), Tok(kind) >>)

-----------------------------------------------------------------------------
(* CborType in the metadata, one number per kind; TYPE_INVALID is none. *)
TypeNames ==
  << "integer", "bytes", "text", "array", "map", "tag", "simple", "boolean", "null",
     "undefined", "half", "float", "double", "invalid" >>
TypeCode(kind) == (CHOOSE i \in DOMAIN TypeNames : TypeNames[i] = kind) - 1

(* Status: what the last value lost on its way to JSON.  The low byte of   *)
(* the code's flags is `type`, the rest are the members of `lost`.         *)
NoStatus == [lost |-> {}, type |-> "integer", last_tag |-> 0, original_number |-> 0]
Lossless(status) == [status EXCEPT !.lost = {}, !.type = "integer"]
Lost(status, what, type) == [status EXCEPT !.lost = what, !.type = type]

(* The number case of the JSON converters: the text and the status. *)
JsonNumber(kind, bits, status) ==
  LET native == IF kind = "double" THEN {} ELSE {"not_native"}
      as(text, what) == [text |-> text, status |-> Lost(status, native \cup what, "integer")]
  IN  With(AsDouble(kind, bits), LAMBDA val :
        CASE IsNaN(Double, val) -> as(Say("null"), {"nan"})
          [] IsInfinite(Double, val) ->
               as(Say("null"), {"infinite"} \cup IF IsBelowZero(val) THEN {"negative"} ELSE {})
          [] IsWhole(val) ->
               as(<< Num("integer", IF IsBelowZero(val) THEN -Whole(val) ELSE Whole(val)) >>,
                  {"not_native"})
          [] OTHER -> as(<< Num("fraction", val) >>, {}))

(* add_value_metadata: a tag first, then the type it had, then what a      *)
(* number was.                                                             *)
Name(word) == InQuotes(Say(word)) \o Colon
Metadata(valueType, status) ==
  LET tagged == "tagged" \in status.lost
      type == IF tagged THEN status.type ELSE valueType
      lost == status.lost \ {"tagged"}
      minus == IF "negative" \in lost THEN Say("-") ELSE << >>
  IN  (IF tagged
       THEN Name("tag") \o InQuotes(<< Num("integer", status.last_tag) >>)
              \o IF lost # {} THEN Comma ELSE << >>
       ELSE << >>)
        \o (IF lost # {} THEN Name("t") \o << Num("integer", TypeCode(type)) >> ELSE << >>)
        \o (IF "nan" \in lost THEN Comma \o Name("v") \o InQuotes(Say("nan")) ELSE << >>)
        \o (IF "infinite" \in lost
            THEN Comma \o Name("v") \o InQuotes(minus \o Say("inf")) ELSE << >>)
        \o (IF lost # {} /\ type = "simple"
            THEN Comma \o Name("v") \o << Num("integer", status.original_number) >> ELSE << >>)

(* How the byte strings of the three tags are spelled, unless -U says not. *)
SpecialTags == {NEGATIVE_BIGNUM, EXPECTED_BASE64, EXPECTED_BASE16}
Encoded(tag, bytes) ==
  CASE tag = NEGATIVE_BIGNUM -> Say("~") \o In("base64url", bytes)
    [] tag = EXPECTED_BASE64 -> In("base64", bytes)
    [] OTHER -> In("base16", bytes)

MarkedKey(key, mark) == Comma \o InQuotes(key \o Say(mark)) \o Colon
TagKey(tag) == << Tok("tag"), Num("integer", tag) >>

(* What follows a map's value when metadata was asked for. *)
EntryMetadata(key, keyKind, valueKind, status) ==
  (IF keyKind # "text" THEN MarkedKey(key, "$keycbordump") \o Say("true") ELSE << >>)
    \o (IF status.lost # {}
        THEN MarkedKey(key, "$cbor") \o Say("{") \o Metadata(valueKind, status) \o Say("}")
        ELSE << >>)
=============================================================================
