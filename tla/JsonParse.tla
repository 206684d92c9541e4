----------------------------- MODULE JsonParse -----------------------------
(***************************************************************************)
(* json2cbor's JSON parser (tools/json2cbor/src/json.rs) over the tokens   *)
(* of Text: white space is a newline, a number or a character of a string  *)
(* is one token.  The grammar is cJSON's: what follows the document may    *)
(* only be white space, and a string ends at a NUL it spells.              *)
(*                                                                         *)
(* A parse is a record of the value, if there is one, and of the position  *)
(* behind it.                                                              *)
(***************************************************************************)
EXTENDS Text

CONSTANTS
  NESTING_LIMIT,
  IntMax             \* i32::MAX

(* A double holds every i32 exactly. *)
ASSUME IntMaxAssumption ==
  IntMax \in Nat /\ \A v \in 0 .. IntMax + 1 : Magnitude(Double, FromWhole(v)) = v * One

Newline == Tok("newline")
Bom == Tok("bom")
Nul == Num("char", 0)

Value(is) ==
  [is |-> is, double |-> 0, int |-> 0, text |-> << >>, members |-> << >>]
Member(name, value) == [name |-> name, value |-> value]

NoParse == [ok |-> FALSE, value |-> Value("null"), at |-> 0]
Parsed(value, at) == [ok |-> TRUE, value |-> value, at |-> at]

Look(s, p) == IF p \in DOMAIN s THEN s[p] ELSE Tok("end")
SkipSpace(s, p) ==
  CHOOSE q \in p .. Len(s) + 1 :
    (q > Len(s) \/ s[q] # Newline) /\ \A r \in p .. q - 1 : s[r] = Newline

-----------------------------------------------------------------------------
(* number: the double, and the int cJSON saturates it to.                  *)
Saturated(double) ==
  LET whole == Magnitude(Double, double) \div One
  IN  IF Sign(Double, double) = 1
      THEN IF whole >= IntMax + 1 THEN -IntMax - 1 ELSE -whole
      ELSE IF whole >= IntMax THEN IntMax ELSE whole
ParseNumber(token, at) ==
  With(IF token.t = "fraction" THEN token.n ELSE FromWhole(token.n), LAMBDA double :
    Parsed([Value("number") EXCEPT !.double = double, !.int = Saturated(double)], at))

(* string: the closing quotation mark first, stepping over what is behind  *)
(* a backslash, then the characters between.                               *)
RECURSIVE ClosingQuote(_, _), Unescaped(_, _)
ClosingQuote(s, p) ==
  CASE p > Len(s) -> 0
    [] p <= Len(s) /\ s[p] = Quote -> p
    [] p <= Len(s) /\ s[p] = Backslash -> ClosingQuote(s, p + 2)
    [] OTHER -> ClosingQuote(s, p + 1)

Escapable == {Quote, Backslash}
BadEscape == << Tok("bad escape") >>
Unescaped(s, p) ==
  IF p > Len(s) THEN << >>
  ELSE IF s[p] # Backslash THEN << s[p] >> \o Unescaped(s, p + 1)
  ELSE IF Look(s, p + 1) \in Escapable THEN << s[p + 1] >> \o Unescaped(s, p + 2)
  ELSE BadEscape

UpToNul(chars) ==
  LET nuls == {i \in DOMAIN chars : chars[i] = Nul}
  IN  IF nuls = {} THEN chars ELSE SubSeq(chars, 1, Min(nuls) - 1)

ParseString(s, p) ==
  With(IF Look(s, p) = Quote THEN ClosingQuote(s, p + 1) ELSE 0, LAMBDA end :
    With(SubSeq(s, p + 1, end - 1), LAMBDA body :
      With(Unescaped(body, 1), LAMBDA chars :
        IF end = 0 \/ BadEscape[1] \in Range(chars) THEN NoParse
        ELSE Parsed([Value("text") EXCEPT !.text = UpToNul(chars)], end + 1))))

(* value, array and object.  A list has gone one item further each time it *)
(* meets a comma; `sofar` are the members it has.                          *)
Literals == {Tok("null"), Tok("false"), Tok("true")}
Numbers == {"integer", "fraction", "exponent"}

ColonAt(s, p) ==
  With(ParseString(s, p), LAMBDA name :
    IF name.ok /\ << Look(s, SkipSpace(s, name.at)) >> = Colon THEN SkipSpace(s, name.at) + 1 ELSE 0)

RECURSIVE ValueAt(_, _, _), ParseValue(_, _, _), ParseList(_, _, _, _, _), Behind(_, _, _, _, _)
ValueAt(s, from, depth) == With(from, LAMBDA p : ParseValue(s, p, depth))
ParseValue(s, p, depth) ==
  LET token == Look(s, p)
      list == token.t \in {"[", "{"}
      is == IF token.t = "[" THEN "array" ELSE "object"
      first == SkipSpace(s, p + 1)
  IN  CASE token \in Literals -> Parsed(Value(token.t), p + 1)
        [] token = Quote -> ParseString(s, p)
        [] token.t \in Numbers -> ParseNumber(token, p + 1)
        [] list /\ depth >= NESTING_LIMIT -> NoParse
        [] list /\ depth < NESTING_LIMIT ->
             IF Look(s, first) = Closing(is)[1] THEN Parsed(Value(is), first + 1)
             ELSE ParseList(s, first, depth + 1, is, << >>)
        [] OTHER -> NoParse

ParseList(s, p, depth, is, sofar) ==
  LET name == IF is = "array" THEN << >> ELSE ParseString(s, p).value.text
      from == IF is = "array" THEN p ELSE ColonAt(s, p)
  IN  IF from = 0 THEN NoParse
      ELSE With(ValueAt(s, SkipSpace(s, from), depth), LAMBDA item :
             IF item.ok
             THEN Behind(s, SkipSpace(s, item.at), depth, is, Append(sofar, Member(name, item.value)))
             ELSE NoParse)
Behind(s, p, depth, is, members) ==
  CASE << Look(s, p) >> = Comma -> ParseList(s, SkipSpace(s, p + 1), depth, is, members)
    [] << Look(s, p) >> = Closing(is) -> Parsed([Value(is) EXCEPT !.members = members], p + 1)
    [] OTHER -> NoParse

(* parse: one value, and nothing behind it but white space. *)
BehindIsNothing(s, p) == SkipSpace(s, p) > Len(s)
Parse(s) ==
  LET start == SkipSpace(s, IF Look(s, 1) = Bom THEN 2 ELSE 1)
  IN  With(ValueAt(s, start, 0), LAMBDA r :
        IF r.ok /\ BehindIsNothing(s, r.at) THEN r ELSE NoParse)
=============================================================================
