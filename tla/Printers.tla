------------------------------ MODULE Printers ------------------------------
(***************************************************************************)
(* The library's two printers: diagnostic notation (cbor-ffi/src/pretty.rs)*)
(* and JSON (cbor-ffi/src/tojson.rs).  Each is a recursive walk over the   *)
(* caller's cursor and copies of it, one per container; a walk here is a   *)
(* record of the error so far, the cursor it leaves behind, the text and,  *)
(* for JSON, the conversion status.                                        *)
(*                                                                         *)
(* `flags` is the set of the flags' names.  Without their recursion these  *)
(* operators would be the state machine of one thread that cannot be       *)
(* interrupted: nothing but the final cursor and text is visible.          *)
(***************************************************************************)
EXTENDS Accessors, Text

Walk(it) == [err |-> "ok", it |-> it, out |-> << >>, status |-> NoStatus]
After(w, r) == [w EXCEPT !.err = r.err, !.it = r.it]     \* a parser call on it

KindAt(it) ==
  IF it.type = "invalid" THEN "invalid" ELSE Kind(it.type, Descriptor(HeadByte(it)))

(* indicator: the length is unknown, or the head longer than it need be.   *)
(* The number is read at the cursor, not from the cached one.              *)
Indicator(it, flags) ==
  IF ~CanRead(it, 1) THEN << >>
  ELSE LET d == Descriptor(HeadByte(it))
       IN  CASE d < Value8Bit -> << >>
             [] d = IndefiniteLength /\ "indeterminate" \in flags -> Say("_")
             [] Value8Bit <= d /\ d <= Value64Bit /\ "overlong" \in flags
                /\ CanRead(it, 1 + BytesNeeded(d)) -> OverlongText(Argument(buf, it.ptr), d)
             [] OTHER -> << >>

-----------------------------------------------------------------------------
(* string_to_pretty.  The indicator of a string printed in one piece is    *)
(* the one found before its first chunk, of fragments each chunk's own.    *)
RECURSIVE PrettyChunks(_, _, _, _, _)
PrettyChunks(w, type, flags, trailing, separator) ==
  LET fragments == "fragments" \in flags /\ w.it.unknown
      suffix == IF fragments \/ trailing = << >> THEN << Indicator(w.it, flags) >> ELSE trailing
      Piece(bytes) ==
        IF fragments
        THEN separator \o Opening(type) \o Dumped(type, bytes) \o Shut(type) \o suffix[1]
        ELSE Dumped(type, bytes)
  IN  With(GetChunk(w.it), LAMBDA chunk :
        CASE chunk.err = "no_more_chunks" ->
               Then(After(w, FinishStringIteration(w.it)), LAMBDA x :
                 Says(x, IF fragments THEN Say(")") ELSE Shut(type) \o suffix[1]))
          [] chunk.err = "ok" ->
               With(ChunkBytes(w.it, chunk.it), LAMBDA bytes :
                 IF type = "text" /\ ~IsUtf8(bytes) THEN Fails(After(w, chunk), "invalid_utf8")
                 ELSE PrettyChunks(Says(After(w, chunk), Piece(bytes)), type, flags, suffix, Comma))
          [] OTHER -> Fails(w, chunk.err))
PrettyString(w, flags) ==
  PrettyChunks(
    [Says(w, IF "fragments" \in flags /\ w.it.unknown THEN Say("(_ ") ELSE Opening(w.it.type))
       EXCEPT !.it = BeginStringIteration(w.it)],
    w.it.type, flags, << >>, << >>)

(* value_to_pretty and container_to_pretty.  A failed descent leaves its   *)
(* position in the caller's cursor.  Past the limit a container is walked  *)
(* over, and a tag leaves its item to be printed by whoever comes next.    *)
CarryPositionBack_Never(w, recursed) == w
CarryPositionBack(w, recursed) == [w EXCEPT !.it.ptr = recursed.ptr]

FixedText(it) ==
  LET kind == KindAt(it)
  IN  CASE it.type = "uint" -> << Num("integer", Int64(it)) >>
        [] it.type = "negative" -> << Num("integer", -1 - Int64(it)) >>
        [] kind \in {"boolean", "null", "undefined"} -> Say(Word(it.extra))
        [] kind = "simple" -> << Num("simple", it.extra) >>
        [] kind \in FloatKinds -> FloatText(kind, Int64(it))

RECURSIVE PrettyValue(_, _, _), PrettyItems(_, _, _, _, _)
PrettyValue(w, flags, left) ==
  LET it == w.it
      ind == Indicator(it, flags)
  IN  CASE IsContainer(it) ->
             With(Then(After(Says(w, Bracket(it.type) \o ind), EnterContainer(it)), LAMBDA x :
                       PrettyItems(x, it.type, flags, left - 1, << >>)), LAMBDA inside :
               IF inside.err # "ok" THEN CarryPositionBack([inside EXCEPT !.it = it], inside.it)
               ELSE Then(After(inside, LeaveContainer(it, inside.it)), LAMBDA x :
                      Says(x, Closing(it.type))))
        [] IsString(it) -> PrettyString(w, flags)
        [] it.type = "tag" ->
             Then(After(Says(w, << Num("integer", Int64(it)) >> \o ind \o Say("(")),
                        AdvanceFixed(it)), LAMBDA x :
               Then(IF left > 0 THEN PrettyValue(x, flags, left - 1) ELSE Says(x, TooDeepMark),
                    LAMBDA y : Says(y, Say(")"))))
        [] it.type = "invalid" -> Fails(Says(w, Say("invalid")), "unknown_type")
        [] OTHER ->
             After(Says(w, FixedText(it) \o IF it.type = "simple" THEN << >> ELSE ind),
                   AdvanceFixed(it))

PrettyItems(w, container, flags, left, comma) ==
  IF left <= 0 THEN After(Says(w, TooDeepMark), SkipItems(w.it, MAX_RECURSIONS))
  ELSE IF w.it.type = "invalid" THEN w
  ELSE Then(PrettyValue(Says(w, comma), flags, left), LAMBDA x :
         Then(IF container = "array" THEN x ELSE PrettyValue(Says(x, Colon), flags, left),
              LAMBDA y : PrettyItems(y, container, flags, left, Comma)))

Pretty(it, flags) == PrettyValue(Walk(it), flags, MAX_RECURSIONS)

-----------------------------------------------------------------------------
(* read_string: the chunks of a string, joined.  `out` is left alone. *)
RECURSIVE ReadChunks(_, _)
ReadChunks(w, bytes) ==
  With(GetChunk(w.it), LAMBDA chunk :
    CASE chunk.err = "ok" ->
           ReadChunks(After(w, chunk), bytes \o ChunkBytes(w.it, chunk.it))
      [] chunk.err = "no_more_chunks" ->
           [walk |-> After(w, FinishStringIteration(w.it)), bytes |-> bytes]
      [] OTHER -> [walk |-> Fails(w, chunk.err), bytes |-> bytes])
ReadString(w) == ReadChunks([w EXCEPT !.it = BeginStringIteration(@)], << >>)

(* The string and its text, in quotes and spelled by Spell. *)
JsonString(w, Spell(_)) ==
  With(ReadString(w), LAMBDA r :
    Then(r.walk, LAMBDA x : Says(x, InQuotes(Spell(r.bytes)))))

(* find_tagged_type: past a run of tags, keeping the last one. *)
RECURSIVE FindTaggedType(_, _, _)
FindTaggedType(w, nesting, tag) ==
  IF w.it.type # "tag" THEN [walk |-> w, tag |-> tag]
  ELSE IF nesting = 0 THEN [walk |-> Fails(w, "nesting_too_deep"), tag |-> tag]
  ELSE With(After(w, AdvanceFixed(w.it)), LAMBDA off :
         IF off.err # "ok" THEN [walk |-> off, tag |-> tag]
         ELSE FindTaggedType(off, nesting - 1, Int64(w.it)))

(* value_to_json with its three helpers.  A container gives the caller's   *)
(* cursor no position back when it fails.                                  *)
RECURSIVE JsonValue(_, _, _), JsonTagged(_, _, _), JsonArray(_, _, _, _), JsonMap(_, _, _, _)
JsonValue(w0, flags, nesting) ==
  LET w == [w0 EXCEPT !.status = Lossless(@)]
      it == w.it
      kind == KindAt(it)
      Quoted(text, status) ==
        After([Says(w, InQuotes(text)) EXCEPT !.status = status], AdvanceFixed(it))
  IN  IF nesting = 0 THEN Fails(w, "nesting_too_deep")
      ELSE CASE kind \in ContainerMajors ->
                  With(Then(After(Says(w, Bracket(kind)), EnterContainer(it)), LAMBDA x :
                            IF kind = "array" THEN JsonArray(x, flags, nesting - 1, << >>)
                            ELSE JsonMap(x, flags, nesting - 1, << >>)), LAMBDA inside :
                    IF inside.err # "ok" THEN [inside EXCEPT !.it = it]
                    ELSE Then(After(Says(inside, Closing(kind)), LeaveContainer(it, inside.it)),
                              LAMBDA x : [x EXCEPT !.status = Lossless(@)]))
             [] kind \in {"integer", "null", "boolean"} -> PrettyValue(w, DefaultFlags, MAX_RECURSIONS)
             [] kind = "bytes" ->
                  Then(JsonString(w, LAMBDA bytes : In("base64url", bytes)), LAMBDA x :
                       [x EXCEPT !.status = Lost(@, {"not_native"}, "integer")])
             [] kind = "text" -> JsonString(w, LAMBDA bytes : Escaped(Chars(bytes)))
             [] kind = "tag" -> JsonTagged(w, flags, nesting - 1)
             [] kind = "simple" ->
                  Quoted(<< Num("simple", it.extra) >>,
                         [Lost(w.status, {"not_native"}, "integer") EXCEPT !.original_number = it.extra])
             [] kind = "undefined" -> Quoted(Say("undefined"), Lost(w.status, {"not_native"}, "integer"))
             [] kind \in FloatKinds ->
                  With(JsonNumber(kind, Int64(it), w.status), LAMBDA number :
                    After([Says(w, number.text) EXCEPT !.status = number.status],
                          AdvanceFixed(it)))
             [] kind = "invalid" -> Fails(w, "unknown_type")

(* tagged_value_to_json: an object with the tag as its key, or the item    *)
(* with the tag, the last of a run, noted in the status.                   *)
JsonTagged(w, flags, nesting) ==
  IF "tags_to_objects" \in flags
  THEN Then(After(w, AdvanceFixed(w.it)), LAMBDA x :
         Then(JsonValue(Says(x, Say("{") \o InQuotes(TagKey(Int64(w.it))) \o Colon), flags, nesting),
              LAMBDA y :
                [Says(y, (IF "metadata" \in flags /\ y.status.lost # {}
                          THEN MarkedKey(TagKey(Int64(w.it)), "$cbor") \o Say("{")
                                 \o Metadata(KindAt(x.it), y.status) \o Say("}")
                          ELSE << >>) \o Say("}"))
                   EXCEPT !.status = Lost(@, {"not_native"}, "tag")]))
  ELSE With(FindTaggedType(w, nesting, 0), LAMBDA found :
         Then(found.walk, LAMBDA x :
           LET tagged == [x EXCEPT !.status.last_tag = found.tag]
               kind == KindAt(x.it)
           IN  IF kind = "bytes" /\ "to_base64url" \notin flags /\ found.tag \in SpecialTags
               THEN Then(JsonString(tagged, LAMBDA bytes : Encoded(found.tag, bytes)), LAMBDA y :
                         [y EXCEPT !.status = Lost(@, {"not_native", "tagged"}, "bytes")])
               ELSE [JsonValue(tagged, flags, nesting) EXCEPT
                       !.status = Lost(@, @.lost \cup {"tagged"}, kind)]))

JsonArray(w, flags, nesting, comma) ==
  IF w.it.type = "invalid" THEN w
  ELSE Then(JsonValue(Says(w, comma), flags, nesting), LAMBDA x :
            JsonArray(x, flags, nesting, Comma))

(* map_to_json: a key, its value, and what the value lost. *)
JsonKey(w, flags) ==
  IF KindAt(w.it) = "text"
  THEN With(ReadString(w), LAMBDA r :
         [walk |-> r.walk, text |-> Escaped(Chars(r.bytes))])
  ELSE IF "stringify" \in flags
  THEN With(PrettyValue([w EXCEPT !.out = << >>], DefaultFlags, MAX_RECURSIONS), LAMBDA x :
         [walk |-> [x EXCEPT !.out = w.out], text |-> Escaped(x.out)])
  ELSE [walk |-> Fails(w, "key_not_string"), text |-> << >>]

JsonMap(w, flags, nesting, comma) ==
  IF w.it.type = "invalid" THEN w
  ELSE With(JsonKey(Says(w, comma), flags), LAMBDA key :
         Then(key.walk, LAMBDA x :
           Then(JsonValue(Says(x, InQuotes(key.text) \o Colon), flags, nesting), LAMBDA y :
             JsonMap(IF "metadata" \in flags
                     THEN Says(y, EntryMetadata(key.text, KindAt(w.it), KindAt(x.it), y.status))
                     ELSE y,
                     flags, nesting, Comma))))

Json(it, flags) == JsonValue(Walk(it), flags, MAX_RECURSIONS)
=============================================================================
