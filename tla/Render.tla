------------------------------- MODULE Render -------------------------------
(***************************************************************************)
(* A client of the library's printers: it renders the item its cursor is   *)
(* on into a FILE* or a callback of its own, as diagnostic notation or as  *)
(* JSON, and goes on with the cursor the call leaves behind; it may enter  *)
(* a container to render its items one by one, look a key up in a map and  *)
(* go on with what it found, or take an integer.  It keeps a copy of the   *)
(* cursor each call was given.                                             *)
(***************************************************************************)
EXTENDS Printers

CONSTANTS
  PrettyFlags, JsonFlags,   \* the sets of flags a client passes
  Keys,                     \* the C strings it looks up
  MaxCalls

VARIABLES
  value, before,   \* the cursor, and its copy from before the last call
  call, flags,     \* the last call: "none", "pretty", "json", "stream",
                   \* "find", "int64", "int"
  err,             \* what it returned
  text,            \* what it meant to write, the key looked up, the integer read
  file,            \* what all calls have written
  calls

renderVars == << buf, value, before, call, flags, err, text, file, calls >>

Init ==
  /\ buf \in Documents
  /\ ParserInit.err = "ok" /\ value = ParserInit.it
  /\ before = value /\ call = "none" /\ flags = {} /\ err = "ok"
  /\ text = << >> /\ file = << >> /\ calls = 0

Ready == err = "ok" /\ value.type # "invalid" /\ calls < MaxCalls

(* The text is written at once when the walk is over: a sink that takes    *)
(* only a part of it fails the call after the cursor has moved, a walk     *)
(* that fails writes nothing.                                              *)
Written(walk, room) ==
  IF walk.err # "ok" THEN << >> ELSE SubSeq(walk.out, 1, room)
Verdict(walk, room, refusal) ==
  IF walk.err # "ok" THEN walk.err ELSE IF room < Len(walk.out) THEN refusal ELSE "ok"

Called(kind, f, walk, written, verdict) ==
  /\ call' = kind /\ flags' = f /\ calls' = calls + 1
  /\ before' = value /\ value' = walk.it
  /\ text' = walk.out /\ err' = verdict /\ file' = file \o written
  /\ UNCHANGED buf

ToFile(kind, f, walk) ==
  \E room \in {Len(walk.out), Len(walk.out) \div 2} :
    Called(kind, f, walk, Written(walk, room), Verdict(walk, room, "io"))

(* cbor_value_to_pretty_advance_flags, cbor_value_to_pretty_stream (whose  *)
(* callback takes the whole text and answers what it likes) and            *)
(* cbor_value_to_json_advance.                                             *)
CallPretty == Ready /\ \E f \in PrettyFlags : ToFile("pretty", f, Pretty(value, f))
CallStream ==
  Ready /\ \E f \in PrettyFlags, answer \in {"ok", "callback_error"} :
    \E walk \in {Pretty(value, f)} :
      Called("stream", f, walk, Written(walk, Len(walk.out)),
             IF walk.err = "ok" THEN answer ELSE walk.err)
CallJson == Ready /\ \E f \in JsonFlags : ToFile("json", f, Json(value, f))

EnterValue ==
  /\ Ready /\ IsContainer(value)
  /\ \E entered \in {EnterContainer(value)} :
       value' = entered.it /\ before' = entered.it /\ err' = entered.err
  /\ call' = "none" /\ flags' = {} /\ text' = << >> /\ calls' = calls + 1
  /\ UNCHANGED << buf, file >>

(* cbor_value_map_find_value, whose element becomes the client's cursor,   *)
(* cbor_value_get_int64_checked and cbor_value_get_int_checked.            *)
FindValue ==
  /\ Ready /\ value.type = "map"
  /\ \E key \in Keys :
       \E found \in {MapFindValue(value, key)} :
         value' = found.it /\ err' = found.err /\ text' = key
  /\ call' = "find" /\ flags' = {} /\ before' = value /\ calls' = calls + 1
  /\ UNCHANGED << buf, file >>

GetInteger ==
  /\ Ready /\ value.type \in {"uint", "negative"}
  /\ \E type \in {"int64", "int"} :
       \E read \in {IF type = "int64" THEN Int64Checked(value) ELSE IntChecked(value)} :
         /\ call' = type /\ err' = read.err
         /\ text' = IF read.err = "ok" THEN << Num("integer", read.result) >> ELSE << >>
  /\ flags' = {} /\ before' = value /\ calls' = calls + 1
  /\ UNCHANGED << buf, value, file >>

Next == CallPretty \/ CallStream \/ CallJson \/ EnterValue \/ FindValue \/ GetInteger
Spec == Init /\ [][Next]_renderVars

-----------------------------------------------------------------------------
(* The cursors stay inside the buffer or at its end, and the file never    *)
(* grows by a call that fails in its walk.                                 *)
TypeOK ==
  /\ value.ptr \in 1 .. Limit /\ before.ptr \in 1 .. Limit
  /\ value.ptr >= before.ptr
  /\ call \in {"none", "pretty", "stream", "json", "find", "int64", "int"} /\ calls \in 0 .. MaxCalls
=============================================================================
