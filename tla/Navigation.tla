----------------------------- MODULE Navigation -----------------------------
(***************************************************************************)
(* The navigation calls of the parser (cbor-ffi/src/parser.rs) in every    *)
(* order a client may make them: advance, skip tags, enter and leave       *)
(* containers, iterate over the chunks of a string.  The client keeps the  *)
(* rules of cbor.h and of the manual: it uses the cursor of the container  *)
(* it has entered last, leaves a container at its end, finishes a string   *)
(* at its end, and stops at an error.                                      *)
(***************************************************************************)
EXTENDS Advance

vars == << buf, reader, cursors, err, phase, walk, scanVars >>

Idle == phase = "client" /\ err = "ok"
InString == phase = "string" /\ err \in {"ok", "no_more_chunks"}

Quiet == UNCHANGED << buf, reader, scanVars >>

-----------------------------------------------------------------------------
ClientAdvance ==
  /\ Idle /\ (AdvancePastEnd \/ CallAdvance)
  /\ UNCHANGED << buf, reader >>

AdvanceFixed ==
  /\ Idle /\ ~IsString(Innermost) /\ ~IsContainer(Innermost)
  /\ Innermost.remaining # 0
  /\ ReturnToClient(AdvanceInternal(Innermost))
  /\ Quiet

(* skip_tag: one turn of its loop per step. *)
CallSkipTag ==
  /\ Idle /\ Innermost.type = "tag"
  /\ phase' = "tags"
  /\ UNCHANGED << callVars, walk >> /\ Quiet

SkipTagTurn ==
  /\ phase = "tags"
  /\ LET r == AdvanceInternal(Innermost)
     IN  IF Innermost.remaining = 0
         THEN ReturnToClient(Result("advance_past_eof", Innermost))
         ELSE /\ cursors' = [cursors EXCEPT ![Len(cursors)] = r.it]
              /\ err' = r.err
              /\ phase' = IF r.err = "ok" /\ r.it.type = "tag" THEN "tags" ELSE "client"
              /\ UNCHANGED walk
  /\ Quiet

ClientEnter ==
  /\ Idle /\ IsContainer(Innermost)
  /\ LET entered == EnterContainer(Innermost)
     IN  /\ cursors' = Append(cursors, entered.it)
         /\ err' = entered.err
  /\ UNCHANGED walkVars /\ Quiet

ClientLeave ==
  /\ Idle /\ Len(cursors) > 1 /\ Innermost.remaining = 0
  /\ LET r == LeaveContainer(cursors[Len(cursors) - 1], Innermost)
     IN  /\ cursors' = Append(Front(Front(cursors)), r.it)
         /\ err' = r.err
  /\ UNCHANGED walkVars /\ Quiet

BeginString ==
  /\ Idle /\ IsString(Innermost)
  /\ cursors' = [cursors EXCEPT ![Len(cursors)] = BeginStringIteration(Innermost)]
  /\ phase' = "string"
  /\ UNCHANGED << err, walk >> /\ Quiet

(* get_string_chunk works on a copy it hands over only when it succeeds. *)
GetStringChunk ==
  /\ InString
  /\ LET chunk == GetChunk(Innermost)
     IN  /\ err' = chunk.err
         /\ cursors' = IF chunk.err = "ok"
                       THEN [cursors EXCEPT ![Len(cursors)] = chunk.it] ELSE cursors
  /\ UNCHANGED walkVars /\ Quiet

FinishString ==
  /\ InString /\ err = "no_more_chunks"
  /\ ReturnToClient(FinishStringIteration(Innermost))
  /\ Quiet

Init ==
  /\ buf \in Documents /\ reader \in BOOLEAN
  /\ cursors = << ParserInit.it >> /\ err = ParserInit.err
  /\ phase = "client" /\ walk = << >>
  /\ ScanIdle

Library == AdvanceStep \/ SkipTagTurn

Next ==
  \/ Library
  \/ ClientAdvance \/ AdvanceFixed \/ CallSkipTag \/ ClientEnter \/ ClientLeave
  \/ BeginString \/ GetStringChunk \/ FinishString

(* A call that has begun is run to its end; the client need not call. *)
Spec == Init /\ [][Next]_vars /\ WF_vars(Library)

-----------------------------------------------------------------------------
(* Types, and that every cursor stays inside the buffer or at its end.     *)
CursorRecord ==
  [ptr : 1 .. Limit, remaining : 0 .. U32Max, extra : Nat, wide : {0, 1, 2, 4, 8},
   type : {MajorName[i] : i \in 1 .. 8} \cup {"invalid"}, unknown : BOOLEAN,
   map : BOOLEAN, key : BOOLEAN, first : BOOLEAN, iterating : BOOLEAN]
TypeOK ==
  /\ ScanTypeOK
  /\ reader \in BOOLEAN
  /\ Len(cursors) > 0 /\ \A i \in 1 .. Len(cursors) : cursors[i] \in CursorRecord
  /\ Len(walk) <= MAX_RECURSIONS + 1
  /\ \A i \in 1 .. Len(walk) : walk[i] \in CursorRecord

(* What the client reads of a cursor (type, length, value) is what the     *)
(* bytes under it say: nothing survives from the items before, from the    *)
(* container around or from a string's chunks.  And cbor.h's assertion     *)
(* that no iteration is going on when one begins never fires.              *)
HeadCurrent ==
  Idle /\ Innermost.remaining # 0 =>
    LET fresh == PreparseValue([Start EXCEPT !.ptr = Innermost.ptr])
    IN  /\ fresh.err = "ok"
        /\ Innermost = [fresh.it EXCEPT !.remaining = Innermost.remaining,
                                        !.map = Innermost.map, !.key = Innermost.key]

(* Every call that is made returns: no document keeps advance or skip_tag  *)
(* going for ever.                                                         *)
Busy == phase \notin {"client", "string"}
CallsReturn == Busy ~> ~Busy
=============================================================================
