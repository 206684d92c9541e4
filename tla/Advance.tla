------------------------------ MODULE Advance ------------------------------
(***************************************************************************)
(* cbor_value_advance of cbor-ffi/src/parser.rs: past the item under the   *)
(* client's innermost cursor and everything nested in it.  A flat buffer   *)
(* is scanned (FastScan); when the scan gives up, and always for a source  *)
(* read through callbacks, advance_recursive walks it, one cursor per      *)
(* level of its recursion.                                                 *)
(*                                                                         *)
(* A source read through callbacks keeps one position for all its cursors; *)
(* here each cursor has its own.  The two agree as long as only the        *)
(* innermost one moves, which is so until a call fails.                    *)
(***************************************************************************)
EXTENDS FastScan

CONSTANT MAX_RECURSIONS      \* levels the walk goes down

(* The scan also gets past an empty container inside FAST_SCAN_DEPTH open   *)
(* ones: it must not go deeper than the walk would.                         *)
ASSUME AdvanceAssumption == MAX_RECURSIONS \in Nat /\ FAST_SCAN_DEPTH < MAX_RECURSIONS

VARIABLES
  reader,     \* the source is read through callbacks
  cursors,    \* the client's CborValues: one per container it has entered
  err,        \* what the last call returned
  phase,      \* "client" or "string" (it iterates over chunks) between calls,
              \* else where the library is: "scan", "walk", "chunks", "tags"
  walk        \* the cursors of advance_recursive, the one called with first

callVars == << cursors, err >>
walkVars == << phase, walk >>

Last(s) == s[Len(s)]
Front(s) == SubSeq(s, 1, Len(s) - 1)
Innermost == Last(cursors)

(* The call returns to the client, and what it leaves in its cursor.       *)
ReturnToClient(r) ==
  /\ cursors' = [cursors EXCEPT ![Len(cursors)] = r.it]
  /\ err' = r.err
  /\ phase' = "client" /\ walk' = << >>

(* advance_recursive returns to its caller: an error goes all the way up   *)
(* and leaves the cursors above as they were.                              *)
ReturnFrom(frames, r) ==
  IF Len(frames) = 1 THEN ReturnToClient(r)
  ELSE IF r.err # "ok" THEN ReturnToClient(Result(r.err, frames[1]))
  ELSE /\ phase' = "walk" /\ walk' = [frames EXCEPT ![Len(frames)] = r.it]
       /\ UNCHANGED callVars

-----------------------------------------------------------------------------
(* advance(): nothing left, or the scan, or straight to the walk. *)
AdvancePastEnd ==
  /\ Innermost.remaining = 0
  /\ ReturnToClient(Result("advance_past_eof", Innermost))
  /\ UNCHANGED scanVars

CallAdvance ==
  /\ Innermost.remaining # 0
  /\ IF reader \/ Innermost.type = "tag"
     THEN /\ phase' = "walk" /\ walk' = << Innermost >>
          /\ UNCHANGED scanVars
     ELSE /\ phase' = "scan" /\ UNCHANGED walk
          /\ ScanFrom(Innermost, "running")
  /\ UNCHANGED callVars

Scanning ==
  /\ phase = "scan" /\ ScanStep
  /\ UNCHANGED << callVars, walkVars, reader >>

ResetScan == p' = 1 /\ cur' = Top /\ stack' = << >> /\ afterTag' = FALSE
             /\ chunks' = "none" /\ scan' = "idle"

ScanAnswered ==
  /\ phase = "scan" /\ scan = "some"
  /\ ReturnToClient(PreparseNext([Innermost EXCEPT !.ptr = p]))
  /\ ResetScan /\ UNCHANGED << buf, reader >>

ScanGaveUp ==
  /\ phase = "scan" /\ scan = "none"
  /\ phase' = "walk" /\ walk' = << Innermost >>
  /\ ResetScan /\ UNCHANGED << callVars, buf, reader >>

-----------------------------------------------------------------------------
(* advance_recursive on the last cursor of `walk`: at its call, or at the  *)
(* loop over a container's items when it is a `recursed` that has ended.   *)
Here == Last(walk)
AtLoopEnd == Len(walk) > 1 /\ Here.type = "invalid"
Walking == phase = "walk" /\ ~AtLoopEnd

WalkFixed ==
  /\ Walking /\ ~IsString(Here) /\ ~IsContainer(Here)
  /\ ReturnFrom(walk, AdvanceInternal(Here))

WalkIntoString ==
  /\ Walking /\ IsString(Here)
  /\ phase' = "chunks"
  /\ walk' = [walk EXCEPT ![Len(walk)] = BeginStringIteration(Here)]
  /\ UNCHANGED callVars

(* skip_string hands its cursor back on failure too. *)
WalkChunk ==
  /\ phase = "chunks"
  /\ LET chunk == GetChunk(Here)
     IN  CASE chunk.err = "no_more_chunks" -> ReturnFrom(walk, FinishStringIteration(Here))
           [] chunk.err = "ok" -> /\ walk' = [walk EXCEPT ![Len(walk)] = chunk.it]
                                  /\ UNCHANGED << callVars, phase >>
           [] OTHER -> ReturnFrom(walk, chunk)

WalkTooDeep ==
  /\ Walking /\ IsContainer(Here) /\ Len(walk) > MAX_RECURSIONS
  /\ ReturnFrom(walk, Result("nesting_too_deep", Here))

WalkIntoContainer ==
  /\ Walking /\ IsContainer(Here) /\ Len(walk) <= MAX_RECURSIONS
  /\ LET entered == EnterContainer(Here)
     IN  IF entered.err # "ok" THEN ReturnFrom(walk, Result(entered.err, Here))
         ELSE /\ walk' = Append(walk, entered.it)
              /\ UNCHANGED << callVars, phase >>

WalkOut ==
  /\ phase = "walk" /\ AtLoopEnd
  /\ ReturnFrom(Front(walk), LeaveContainer(walk[Len(walk) - 1], Here))

WalkStep ==
  /\ WalkFixed \/ WalkIntoString \/ WalkChunk \/ WalkTooDeep \/ WalkIntoContainer \/ WalkOut
  /\ UNCHANGED << buf, reader, scanVars >>

AdvanceStep == Scanning \/ ScanAnswered \/ ScanGaveUp \/ WalkStep
=============================================================================
