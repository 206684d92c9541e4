---------------------------- MODULE DumpPrinters ----------------------------
(***************************************************************************)
(* cbordump's own parser (tools/cbordump/src/cbor.rs) and its two printers *)
(* (pretty.rs and json.rs): the same notations as the library's, but one   *)
(* position moves over the bytes and containers count what they hold.      *)
(*                                                                         *)
(* The library checks the head of the next item while it finishes the      *)
(* current one.  Here each conversion is told what to check at its end:    *)
(* nothing ("stop"), the next head ("next"), or the next head unless it is *)
(* a break ("break_or_next").  The order matters because, unlike the       *)
(* library's, the text written before an error is printed.                 *)
(***************************************************************************)
EXTENDS Cursor, Text

CONSTANT DUMP_RECURSIONS       \* MAX_RECURSIONS of cbordump

Reader == [err |-> "ok", pos |-> 1, out |-> << >>, status |-> NoStatus, filled |-> TRUE]
At(w, pos) == [w EXCEPT !.pos = pos]
IsBreak(pos) == pos < Limit /\ buf[pos] = BreakByte

-----------------------------------------------------------------------------
(* head_at: a decoded head, or why there is none. *)
NoHead(err) == [err |-> err, major |-> "uint", ai |-> 0, value |-> 0, size |-> 0]
HeadAt(pos) ==
  LET d == Descriptor(buf[pos])
      major == MajorOf(buf[pos])
      Decode(value, size) == [err |-> "ok", major |-> major, ai |-> d, value |-> value, size |-> size]
  IN  IF pos >= Limit THEN NoHead("unexpected_eof")
      ELSE CASE d < Value8Bit -> Decode(d, 1)
             [] d = IndefiniteLength ->
                  (CASE major \in StringMajors \cup ContainerMajors -> Decode(0, 1)
                     [] major = "simple" -> NoHead("unexpected_break")
                     [] OTHER -> NoHead("illegal_number"))
             [] d > Value64Bit /\ d # IndefiniteLength ->
                  NoHead(IF major = "simple" THEN "unknown_type" ELSE "illegal_number")
             [] OTHER ->
                  IF pos + BytesNeeded(d) >= Limit THEN NoHead("unexpected_eof")
                  ELSE IF major = "simple" /\ d = Value8Bit /\ Argument(buf, pos) < Descriptors
                  THEN NoHead("illegal_simple_type")
                  ELSE Decode(Argument(buf, pos), 1 + BytesNeeded(d))

Indefinite(h) == h.ai = IndefiniteLength
CborType(h) == Kind(h.major, h.ai)
WithHead(w, Step(_)) ==
  With(HeadAt(w.pos), LAMBDA h : IF h.err = "ok" THEN Step(h) ELSE Fails(w, h.err))

(* After::apply. *)
Follow_NextOnly(w, after) ==
  IF after = "stop" THEN w ELSE WithHead(w, LAMBDA h : w)
Follow(w, after) ==
  IF after = "stop" \/ (after = "break_or_next" /\ IsBreak(w.pos)) THEN w
  ELSE WithHead(w, LAMBDA h : w)

(* chunk_head: the payload of the chunk at pos, or that there is a break. *)
ChunkAt(pos, major) ==
  LET d == Descriptor(buf[pos])
      answer(err, from, to) == [err |-> err, from |-> from, to |-> to]
      from == pos + 1 + BytesNeeded(d)
  IN  IF pos >= Limit THEN answer("unexpected_eof", pos, pos)
      ELSE CASE buf[pos] = BreakByte -> answer("break", pos, pos)
             [] buf[pos] # BreakByte /\ MajorOf(buf[pos]) # major -> answer("illegal_type", pos, pos)
             [] MajorOf(buf[pos]) = major /\ d > Value64Bit -> answer("illegal_number", pos, pos)
             [] OTHER ->
                  IF from > Limit \/ from + Argument(buf, pos) > Limit
                  THEN answer("unexpected_eof", pos, pos)
                  ELSE answer("ok", from, from + Argument(buf, pos))

(* Reader::take after a head: a definite string's payload. *)
Payload(pos, h) ==
  LET from == pos + h.size
  IN  IF from + h.value > Limit THEN [err |-> "unexpected_eof", from |-> from, to |-> from]
      ELSE [err |-> "ok", from |-> from, to |-> from + h.value]
Bytes(part) == SubSeq(buf, part.from, part.to - 1)

(* read_string: definite, or chunk by chunk up to the break. *)
RECURSIVE JoinChunks(_, _, _)
JoinChunks(w, major, bytes) ==
  With(ChunkAt(w.pos, major), LAMBDA part :
    CASE part.err = "break" -> [walk |-> At(w, w.pos + 1), bytes |-> bytes]
      [] part.err = "ok" -> JoinChunks(At(w, part.to), major, bytes \o Bytes(part))
      [] OTHER -> [walk |-> Fails(w, part.err), bytes |-> bytes])
WholeString(w) ==
  With(HeadAt(w.pos), LAMBDA h :
    LET part == Payload(w.pos, h)
    IN  IF h.err # "ok" THEN [walk |-> Fails(w, h.err), bytes |-> << >>]
        ELSE IF Indefinite(h) THEN JoinChunks(At(w, w.pos + 1), h.major, << >>)
        ELSE IF part.err # "ok" THEN [walk |-> Fails(w, part.err), bytes |-> << >>]
        ELSE [walk |-> At(w, part.to), bytes |-> Bytes(part)])

(* enter: the number of items, none known for an indefinite container.  The *)
(* head is behind the position already.                                    *)
Count(h) == IF h.major = "map" THEN 2 * h.value ELSE h.value
Enter(w, h) ==
  IF Indefinite(h) THEN Follow(w, "break_or_next")
  ELSE IF h.value >= U32Max \/ (h.major = "map" /\ h.value > U32Max \div 2)
  THEN Fails(w, "data_too_large")
  ELSE IF Count(h) = 0 THEN w ELSE Follow(w, "next")

(* skip: over one item without text.  An indefinite map with an odd number *)
(* of items is refused at its break.                                       *)
RECURSIVE Skip(_, _), SkipCount(_, _, _), SkipToBreak(_, _, _, _)
Skip(w, levels) ==
  WithHead(w, LAMBDA h :
    CASE h.major \in StringMajors -> WholeString(w).walk
      [] h.major \in ContainerMajors ->
           IF levels = 0 THEN Fails(w, "nesting_too_deep")
           ELSE Then(Enter(At(w, w.pos + h.size), h), LAMBDA x :
                  IF Indefinite(h) THEN SkipToBreak(x, h.major = "map", 0, levels - 1)
                  ELSE SkipCount(x, Count(h), levels - 1))
      [] h.major = "tag" -> Skip(At(w, w.pos + h.size), levels)
      [] OTHER -> At(w, w.pos + h.size))
SkipCount(w, n, levels) ==
  IF n = 0 THEN w ELSE Then(Skip(w, levels), LAMBDA x : SkipCount(x, n - 1, levels))
OddMap(map, items) == map /\ items % 2 = 1
SkipToBreak(w, map, items, levels) ==
  IF IsBreak(w.pos)
  THEN IF OddMap(map, items) THEN Fails(w, "unexpected_break") ELSE At(w, w.pos + 1)
  ELSE Then(Skip(w, levels), LAMBDA x : SkipToBreak(x, map, items + 1, levels))

-----------------------------------------------------------------------------
(* pretty.rs.  The indicator of the descriptor at pos: cbordump never asks *)
(* for that of overlong heads, the library's caller may.                   *)
Suffix(pos, flags) ==
  LET d == Descriptor(buf[pos])
  IN  IF pos >= Limit THEN << >>
      ELSE CASE d < Value8Bit -> << >>
             [] d = IndefiniteLength /\ "indeterminate" \in flags -> Say("_")
             [] Value8Bit <= d /\ d <= Value64Bit /\ "overlong" \in flags ->
                  With(HeadAt(pos), LAMBDA h :
                    IF h.err = "ok" THEN OverlongText(h.value, d) ELSE << >>)
             [] OTHER -> << >>

(* dump: of a text that is not UTF-8 the good part is written. *)
GoodPart(bytes) ==
  SubSeq(bytes, 1, (CHOOSE i \in DOMAIN bytes :
    bytes[i] \in NotUtf8 /\ IsUtf8(SubSeq(bytes, 1, i - 1))) - 1)
Dump(w, type, bytes) ==
  IF type = "text" /\ ~IsUtf8(bytes)
  THEN Fails(Says(w, Dumped(type, GoodPart(bytes))), "invalid_utf8")
  ELSE Says(w, Dumped(type, bytes))

(* string: the suffix of one printed in one piece is that of its first     *)
(* chunk, or of the break that ends it.                                    *)
RECURSIVE DumpChunks(_, _, _, _, _, _)
DumpChunks(w, type, flags, after, trailing, separator) ==
  LET fragments == "fragments" \in flags
      suffix == IF fragments \/ trailing = << >> THEN << Suffix(w.pos, flags) >> ELSE trailing
      before == IF fragments THEN Says(w, separator \o Opening(type)) ELSE w
  IN  With(ChunkAt(w.pos, type), LAMBDA part :
        CASE part.err = "break" ->
               Then(Follow(At(w, w.pos + 1), after), LAMBDA x :
                    Says(x, IF fragments THEN Say(")") ELSE Shut(type) \o suffix[1]))
          [] part.err = "ok" ->
               Then(Dump(At(before, part.to), type, Bytes(part)), LAMBDA x :
                    DumpChunks(IF fragments THEN Says(x, Shut(type) \o suffix[1]) ELSE x,
                               type, flags, after, suffix, Comma))
          [] OTHER -> Fails(w, part.err))
DumpString(w, h, flags, after) ==
  LET part == Payload(w.pos, h)
  IN  IF Indefinite(h)
      THEN DumpChunks(At(Says(w, IF "fragments" \in flags THEN Say("(_ ") ELSE Opening(h.major)),
                         w.pos + 1), h.major, flags, after, << >>, << >>)
      ELSE IF part.err # "ok" THEN Fails(Says(w, Opening(h.major)), part.err)
      ELSE Then(Dump(At(Says(w, Opening(h.major)), part.to), h.major, Bytes(part)), LAMBDA x :
             Then(Follow(x, after), LAMBDA y : Says(y, Shut(h.major) \o Suffix(w.pos, flags))))

(* What may follow the item a container prints next. *)
BreakAfter(map, filled) == IF map /\ filled % 2 = 0 THEN "next" ELSE "break_or_next"
StopAfter(owed) == IF owed > 1 THEN "next" ELSE "stop"

SimpleText(h) ==
  CASE CborType(h) \in {"boolean", "null", "undefined"} -> Say(Word(h.value))
    [] CborType(h) \in FloatKinds -> FloatText(CborType(h), h.value)
    [] OTHER -> << Num("simple", h.value) >>

(* value: a tag with no recursion left fills no slot of its container, and *)
(* the item it tags is printed by the container's next turn.               *)
RECURSIVE DumpValue(_, _, _, _), DumpStreamed(_, _, _, _, _, _), DumpCounted(_, _, _, _, _, _)
DumpValue(w0, flags, left, after) ==
  LET w == [w0 EXCEPT !.filled = TRUE]
      ind == Suffix(w.pos, flags)
  IN  WithHead(w, LAMBDA h :
        LET past == At(w, w.pos + h.size)
        IN  CASE h.major \in StringMajors -> DumpString(w, h, flags, after)
              [] h.major \in ContainerMajors ->
                   Then(Enter(Says(past, Bracket(h.major) \o ind), h), LAMBDA x :
                     Then(IF Indefinite(h)
                          THEN DumpStreamed(x, h.major = "map", 0, flags, left - 1, << >>)
                          ELSE DumpCounted(x, h.major = "map", Count(h), flags, left - 1, << >>),
                          LAMBDA y :
                            Then(Follow(y, after), LAMBDA z :
                              [Says(z, Closing(h.major)) EXCEPT !.filled = TRUE])))
              [] h.major = "tag" ->
                   LET opened == Says(past, << Num("integer", h.value) >> \o ind \o Say("("))
                   IN  WithHead(opened, LAMBDA g :
                         Then(IF left > 0 THEN DumpValue(opened, flags, left - 1, after)
                              ELSE [Says(opened, TooDeepMark) EXCEPT !.filled = FALSE],
                              LAMBDA x : Says(x, Say(")"))))
              [] h.major = "uint" -> Follow(Says(past, << Num("integer", h.value) >> \o ind), after)
              [] h.major = "negative" ->
                   Follow(Says(past, << Num("integer", -1 - h.value) >> \o ind), after)
              [] h.major = "simple" -> Follow(Says(past, SimpleText(h)), after))

Filled(w) == IF w.filled THEN 1 ELSE 0

(* container, of unknown length and counted. *)
DumpStreamed(w, map, filled, flags, left, comma) ==
  IF left <= 0 THEN SkipToBreak(Says(w, TooDeepMark), map, 0, DUMP_RECURSIONS)
  ELSE IF IsBreak(w.pos)
  THEN IF OddMap(map, filled) THEN Fails(w, "unexpected_break") ELSE At(w, w.pos + 1)
  ELSE Then(DumpValue(Says(w, comma), flags, left, BreakAfter(map, filled)), LAMBDA x :
         LET first == filled + Filled(x)
         IN  IF ~map THEN DumpStreamed(x, map, first, flags, left, Comma)
             ELSE IF IsBreak(x.pos) THEN Fails(Says(x, Colon \o Say("invalid")), "unknown_type")
             ELSE Then(DumpValue(Says(x, Colon), flags, left, BreakAfter(map, first)), LAMBDA y :
                    DumpStreamed(y, map, first + Filled(y), flags, left, Comma)))
DumpCounted(w, map, owed, flags, left, comma) ==
  IF left <= 0 THEN SkipCount(Says(w, TooDeepMark), owed, DUMP_RECURSIONS)
  ELSE IF owed = 0 THEN w
  ELSE Then(DumpValue(Says(w, comma), flags, left, StopAfter(owed)), LAMBDA x :
         LET rest == owed - Filled(x)
         IN  IF ~map THEN DumpCounted(x, map, rest, flags, left, Comma)
             ELSE IF rest = 0 THEN Fails(Says(x, Colon \o Say("invalid")), "unknown_type")
             ELSE Then(DumpValue(Says(x, Colon), flags, left, StopAfter(rest)), LAMBDA y :
                    DumpCounted(y, map, rest - Filled(y), flags, left, Comma)))

DumpPretty(flags) == DumpValue(Reader, flags, DUMP_RECURSIONS, "stop")

-----------------------------------------------------------------------------
(* json.rs.  A string is read whole and what follows it checked before any *)
(* of it is written; a container's bracket is written before.              *)
JsonText(w, after, Spell(_)) ==
  With(WholeString(w), LAMBDA r :
    Then(r.walk, LAMBDA x :
      Then(Follow(x, after), LAMBDA y : Says(y, InQuotes(Spell(r.bytes))))))
Lose(w, what, type) == [w EXCEPT !.status = Lost(@, what, type)]

(* find_tagged_type, inlined: the tag of a run that counts is the last. *)
RECURSIVE PastTags(_, _)
PastTags(w, levels) ==
  WithHead(w, LAMBDA h :
    IF h.major # "tag" THEN w
    ELSE IF levels = 0 THEN Fails(w, "nesting_too_deep")
    ELSE PastTags([At(w, w.pos + h.size) EXCEPT !.status.last_tag = h.value], levels - 1))

RECURSIVE ToJson(_, _, _, _), TaggedToJson(_, _, _, _), ArrayToJson(_, _, _, _, _, _),
          MapToJson(_, _, _, _, _, _)
ToJson(w0, flags, nesting, after) ==
  LET w == [w0 EXCEPT !.status = Lossless(@)]
      Plain(h, text, status) ==
        Follow([Says(At(w, w.pos + h.size), text) EXCEPT !.status = status], after)
  IN  IF nesting = 0 THEN Fails(w, "nesting_too_deep")
      ELSE WithHead(w, LAMBDA h :
        LET kind == CborType(h)
        IN  CASE kind \in ContainerMajors ->
                   Then(Enter(At(w, w.pos + h.size), h), LAMBDA x :
                     LET opened == Says(x, Bracket(kind))
                     IN  Then(IF kind = "array"
                              THEN ArrayToJson(opened, h, 0, flags, nesting - 1, << >>)
                              ELSE MapToJson(opened, h, 0, flags, nesting - 1, << >>),
                              LAMBDA y :
                                Then(Follow(Says(y, Closing(kind)), after), LAMBDA z :
                                     [z EXCEPT !.status = Lossless(@)])))
              [] kind \in {"integer", "null", "boolean"} ->
                   DumpValue(w, DefaultFlags, DUMP_RECURSIONS, after)
              [] kind = "bytes" ->
                   JsonText(Lose(w, {"not_native"}, "integer"), after,
                            LAMBDA bytes : In("base64url", bytes))
              [] kind = "text" -> JsonText(w, after, LAMBDA bytes : Escaped(Chars(bytes)))
              [] kind = "tag" -> TaggedToJson(w, flags, nesting - 1, after)
              [] kind = "simple" ->
                   Plain(h, InQuotes(<< Num("simple", h.value) >>),
                         [Lost(w.status, {"not_native"}, "integer")
                            EXCEPT !.original_number = h.value])
              [] kind = "undefined" ->
                   Plain(h, InQuotes(Say("undefined")), Lost(w.status, {"not_native"}, "integer"))
              [] kind \in FloatKinds ->
                   With(JsonNumber(kind, h.value, w.status), LAMBDA number :
                     Plain(h, number.text, number.status)))

TaggedToJson(w, flags, nesting, after) ==
  LET tag == HeadAt(w.pos).value
      off == At(w, w.pos + HeadAt(w.pos).size)
  IN  IF "tags_to_objects" \in flags
      THEN WithHead(off, LAMBDA g :
             Then(ToJson(Says(off, Say("{") \o InQuotes(TagKey(tag)) \o Colon), flags, nesting, after),
               LAMBDA x :
                 Lose(Says(x, (IF "metadata" \in flags /\ x.status.lost # {}
                               THEN MarkedKey(TagKey(tag), "$cbor") \o Say("{")
                                      \o Metadata(CborType(g), x.status) \o Say("}")
                               ELSE << >>) \o Say("}")),
                      {"not_native"}, "tag")))
      ELSE Then(PastTags(w, nesting), LAMBDA x :
             LET inner == CborType(HeadAt(x.pos))
                 last == x.status.last_tag
             IN  IF inner = "bytes" /\ "to_base64url" \notin flags /\ last \in SpecialTags
                 THEN Then(JsonText(x, after, LAMBDA bytes : Encoded(last, bytes)), LAMBDA y :
                           Lose(y, {"not_native", "tagged"}, "bytes"))
                 ELSE Then(ToJson(x, flags, nesting, after), LAMBDA y :
                           Lose(y, y.status.lost \cup {"tagged"}, inner)))

(* What is checked after the item that makes the container hold `done`. *)
AfterDone(h, done) ==
  IF Indefinite(h) THEN "break_or_next" ELSE IF done < Count(h) THEN "next" ELSE "stop"
Ended(w, h, done) == IF Indefinite(h) THEN IsBreak(w.pos) ELSE done = Count(h)
PastEnd(w, h) == IF Indefinite(h) THEN At(w, w.pos + 1) ELSE w

ArrayToJson(w, h, done, flags, nesting, comma) ==
  IF Ended(w, h, done) THEN PastEnd(w, h)
  ELSE Then(ToJson(Says(w, comma), flags, nesting, AfterDone(h, done + 1)), LAMBDA x :
            ArrayToJson(x, h, done + 1, flags, nesting, Comma))

(* The key of a pair: a text, or with -S the notation of what it is.  The  *)
(* answer of the printer, whether the key filled its slot, is not looked at. *)
MapKey(w, flags) ==
  With(HeadAt(w.pos), LAMBDA h :
    IF h.err # "ok" THEN [walk |-> Fails(w, h.err), text |-> << >>]
    ELSE IF h.major = "text"
    THEN With(WholeString(w), LAMBDA r :
           [walk |-> r.walk, text |-> Escaped(Chars(r.bytes))])
    ELSE IF "stringify" \in flags
    THEN With(DumpValue([w EXCEPT !.out = << >>], DefaultFlags, DUMP_RECURSIONS, "next"), LAMBDA x :
           [walk |-> [x EXCEPT !.out = w.out], text |-> Escaped(x.out)])
    ELSE [walk |-> Fails(w, "key_not_string"), text |-> << >>])

MapToJson(w, h, done, flags, nesting, comma) ==
  IF Ended(w, h, done) THEN PastEnd(w, h)
  ELSE With(MapKey(Says(w, comma), flags), LAMBDA key :
         Then(key.walk, LAMBDA x :
           WithHead(x, LAMBDA g :
             Then(ToJson(Says(x, InQuotes(key.text) \o Colon), flags, nesting, AfterDone(h, done + 2)),
               LAMBDA y :
                 MapToJson(IF "metadata" \in flags
                           THEN Says(y, EntryMetadata(key.text, CborType(HeadAt(w.pos)),
                                                      CborType(g), y.status))
                           ELSE y,
                           h, done + 2, flags, nesting, Comma)))))

DumpJson(flags) == ToJson(Reader, flags, DUMP_RECURSIONS, "stop")
=============================================================================
