------------------------------ MODULE Arrival ------------------------------
(***************************************************************************)
(* A client of a parser with a source of its own (cbor_parser_init_reader, *)
(* cbor-ffi/src/parser.rs) whose bytes are still arriving.  can_read_bytes *)
(* answers for what has arrived; a call that needs more returns            *)
(* UnexpectedEOF, and the client calls cbor_value_reparse when more is     *)
(* there, or asks for the same chunk again.                                *)
(*                                                                         *)
(* `whole` is the same client with the whole document in a buffer: it does *)
(* each call once, when the client first makes it.  The client does not    *)
(* use the calls that cannot be resumed (cbor_value_advance, the copies    *)
(* and comparisons of strings), which walk over copies they throw away.    *)
(***************************************************************************)
EXTENDS Cursor, SequencesExt

VARIABLES
  rest,      \* what has not arrived
  spine,     \* the cursor of each container entered
  err,       \* what the last call returned
  phase,     \* "items", or "string" between begin and finish
  whole      \* [spine, err] of the client that has the whole document

arrivalVars == << buf, rest, spine, err, phase, whole >>

All == INSTANCE Cursor WITH buf <- buf \o rest

Top == Last(spine)
Above(s) == s[Len(s) - 1]
OnTop(s, r) == [spine |-> Append(Front(s), r.it), err |-> r.err]

Stalled == err = "unexpected_eof"
Idle == phase = "items" /\ err = "ok"

(* The source's transfer_string answers for the whole chunk before it      *)
(* moves, and get_string_chunk hands a copy over only when it succeeds.    *)
ReaderChunk(it) ==
  LET chunk == ChunkSize(it)
  IN  IF chunk.err = "ok" /\ ~CanRead(it, chunk.offset + chunk.len)
      THEN Result("unexpected_eof", it)
      ELSE IF chunk.err = "ok" THEN GetChunk(it) ELSE Result(chunk.err, it)

(* cbor_value_reparse decodes the head under the cursor again. *)
Reparsed_Counting(it) == PreparseNext(it)
Reparsed(it) == PreparseValue(it)

-----------------------------------------------------------------------------
Init ==
  /\ buf = << >> /\ rest \in Documents /\ phase = "items"
  /\ spine = << ParserInit.it >> /\ err = ParserInit.err
  /\ whole = [spine |-> << All!ParserInit.it >>, err |-> All!ParserInit.err]

Arrives ==
  /\ rest # << >>
  /\ buf' = Append(buf, Head(rest)) /\ rest' = Tail(rest)
  /\ UNCHANGED << spine, err, phase, whole >>

Returns(mine, theirs) ==
  /\ spine' = mine.spine /\ err' = mine.err /\ whole' = theirs
  /\ UNCHANGED << buf, rest >>

AdvanceFixed ==
  /\ Idle /\ Top.type # "invalid" /\ ~IsString(Top) /\ ~IsContainer(Top)
  /\ Returns(OnTop(spine, AdvanceInternal(Top)),
             OnTop(whole.spine, All!AdvanceInternal(Last(whole.spine))))
  /\ UNCHANGED phase

Enter ==
  /\ Idle /\ IsContainer(Top)
  /\ LET mine == EnterContainer(Top)
         theirs == All!EnterContainer(Last(whole.spine))
     IN  Returns([spine |-> Append(spine, mine.it), err |-> mine.err],
                 [spine |-> Append(whole.spine, theirs.it), err |-> theirs.err])
  /\ UNCHANGED phase

Leave ==
  /\ Idle /\ Len(spine) > 1 /\ Top.remaining = 0
  /\ Returns(OnTop(Front(spine), LeaveContainer(Above(spine), Top)),
             OnTop(Front(whole.spine),
                   All!LeaveContainer(Above(whole.spine), Last(whole.spine))))
  /\ UNCHANGED phase

BeginString ==
  /\ Idle /\ IsString(Top)
  /\ Returns(OnTop(spine, Result("ok", BeginStringIteration(Top))),
             OnTop(whole.spine, Result("ok", BeginStringIteration(Last(whole.spine)))))
  /\ phase' = "string"

NextChunk ==
  /\ phase = "string" /\ err \in {"ok", "unexpected_eof"}
  /\ Returns(OnTop(spine, ReaderChunk(Top)),
             IF Stalled THEN whole ELSE OnTop(whole.spine, All!GetChunk(Last(whole.spine))))
  /\ UNCHANGED phase

FinishString ==
  /\ phase = "string" /\ err = "no_more_chunks"
  /\ Returns(OnTop(spine, FinishStringIteration(Top)),
             OnTop(whole.spine, All!FinishStringIteration(Last(whole.spine))))
  /\ phase' = "items"

Reparse ==
  /\ phase = "items" /\ Stalled
  /\ Returns(OnTop(spine, Reparsed(Top)), whole)
  /\ UNCHANGED phase

Call == AdvanceFixed \/ Enter \/ Leave \/ BeginString \/ NextChunk \/ FinishString \/ Reparse
Next == Arrives \/ Call
Spec == Init /\ [][Next]_arrivalVars

-----------------------------------------------------------------------------
(* A break that arrives after the call that would have seen it is an error *)
(* to cbor_value_reparse, which knows nothing of breaks.                   *)
BreakCameLate ==
  err = "unexpected_break" /\ Top.remaining = U32Max /\ AtBreak(Top) /\ whole.err = "ok"

(* Bytes that come late change nothing: whatever a call answers, at once   *)
(* or after any number of tries, is what it answers when the whole         *)
(* document is there, and the cursors are the same.  And nothing is waited *)
(* for that is not missing: when all has arrived, only a document that is  *)
(* cut short leaves the client stalled.                                    *)
SeesWhole ==
  /\ ~Stalled /\ ~BreakCameLate =>
       err = whole.err /\ (err \in {"ok", "no_more_chunks"} => spine = whole.spine)
  /\ Stalled /\ rest = << >> =>
       LET again == IF phase = "items" THEN Reparsed(Top) ELSE ReaderChunk(Top)
       IN  again.err = "unexpected_eof" => whole.err = "unexpected_eof"
=============================================================================
