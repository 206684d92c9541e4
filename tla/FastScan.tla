------------------------------ MODULE FastScan ------------------------------
(***************************************************************************)
(* scan_subtree of cbor-ffi/src/parser.rs: how cbor_value_advance gets     *)
(* past a subtree of a flat buffer without decoding it.  It reads heads    *)
(* and adds lengths, keeps one Level per open container, and gives up      *)
(* (None, to the recursive walk) on anything it does not want to reason    *)
(* about.  One action is one turn of its loops.                            *)
(***************************************************************************)
EXTENDS Cursor

CONSTANT FAST_SCAN_DEPTH      \* levels the scan's stack can hold

ASSUME FastScanAssumption == FAST_SCAN_DEPTH \in Nat \ {0}

VARIABLES
  p,          \* the position the scan has reached
  cur,        \* the innermost open Level
  stack,      \* the Levels around it
  afterTag,   \* the last head read was a tag
  chunks,     \* major type of the indefinite string it is inside, or "none"
  scan        \* "idle", "running", "some" (p is the answer) or "none"

scanVars == << p, cur, stack, afterTag, chunks, scan >>

Level == [pending : 0 .. U32Max, indefinite : BOOLEAN, map : BOOLEAN, midPair : BOOLEAN]
Top == [pending |-> 1, indefinite |-> FALSE, map |-> FALSE, midPair |-> FALSE]

(* Level::settle: one item of this container done, wrapping. *)
Settled_NoPhase(level) ==
  [level EXCEPT !.pending = IF @ = 0 THEN U32Max ELSE @ - 1]
Settled(level) ==
  [level EXCEPT !.pending = IF @ = 0 THEN U32Max ELSE @ - 1, !.midPair = ~@]

-----------------------------------------------------------------------------
(* What the bytes at q allow. *)
HeadIs(q, majors) == q < Limit /\ MajorOf(buf[q]) \in majors

(* A head with an argument, all of it in the buffer. *)
Definite_Strict(q) ==
  /\ q < Limit /\ Descriptor(buf[q]) <= Value64Bit
  /\ 1 + BytesNeeded(Descriptor(buf[q])) < Limit - q
Definite(q) ==
  /\ q < Limit /\ Descriptor(buf[q]) <= Value64Bit
  /\ 1 + BytesNeeded(Descriptor(buf[q])) <= Limit - q
Past(q) == q + 1 + BytesNeeded(Descriptor(buf[q]))

(* A string or container head that gives no length. *)
Indefinite(q) ==
  /\ HeadIs(q, StringMajors \cup ContainerMajors)
  /\ Descriptor(buf[q]) = IndefiniteLength

(* skip_bytes: the end of a definite string's payload. *)
PayloadEnd_ArgumentOnly(q) == q + Argument(buf, q)
PayloadEnd(q) == Past(q) + Argument(buf, q)
PayloadFits_OffByOne(q) == PayloadEnd(q) <= Limit + 1
PayloadFits(q) == PayloadEnd(q) <= Limit

(* The containers enter_container refuses. *)
RefusedLength(major, n) == n >= U32Max \/ (major = "map" /\ n > U32Max \div 2)
Children(q) == IF HeadIs(q, {"map"}) THEN 2 * Argument(buf, q) ELSE Argument(buf, q)

BreakAllowed_AfterTag ==
  stack # << >> /\ cur.indefinite /\ ~(cur.map /\ cur.midPair)
BreakAllowed ==
  stack # << >> /\ cur.indefinite /\ ~afterTag /\ ~(cur.map /\ cur.midPair)

-----------------------------------------------------------------------------
Finished(level) == ~level.indefinite /\ level.pending = 0

Running == scan = "running" /\ chunks = "none"
AtItem == Running /\ ~Finished(cur)

(* The ways past the head at p: each names the heads it takes. *)
CanClose == p < Limit /\ buf[p] = BreakByte /\ BreakAllowed
CanSkipNumber == Definite(p) /\ HeadIs(p, {"uint", "negative"})
CanSkipSimple ==
  /\ Definite(p) /\ HeadIs(p, {"simple"})
  /\ ~(Descriptor(buf[p]) = Value8Bit /\ Argument(buf, p) < Descriptors)
CanSkipTag == Definite(p) /\ HeadIs(p, {"tag"})
CanSkipString == Definite(p) /\ HeadIs(p, StringMajors) /\ PayloadFits(p)
CanOpenString == Indefinite(p) /\ HeadIs(p, StringMajors)
CanSkipEmpty ==
  Definite(p) /\ HeadIs(p, ContainerMajors) /\ Argument(buf, p) = 0
CanOpenDefinite ==
  /\ Definite(p) /\ HeadIs(p, ContainerMajors) /\ Argument(buf, p) # 0
  /\ ~RefusedLength(MajorOf(buf[p]), Argument(buf, p))
  /\ Len(stack) # FAST_SCAN_DEPTH
CanOpenIndefinite ==
  Indefinite(p) /\ HeadIs(p, ContainerMajors) /\ Len(stack) # FAST_SCAN_DEPTH

Pop ==
  /\ cur' = stack[Len(stack)]
  /\ stack' = SubSeq(stack, 1, Len(stack) - 1)

(* The enclosing level settles on the way in; closing only restores it. *)
Push(level) ==
  /\ stack' = Append(stack, Settled(cur))
  /\ cur' = level

StepPast ==
  /\ p' = Past(p) /\ afterTag' = FALSE
  /\ UNCHANGED << chunks, scan >>

-----------------------------------------------------------------------------
Return ==
  /\ Running /\ Finished(cur) /\ stack = << >>
  /\ scan' = "some"
  /\ UNCHANGED << p, cur, stack, afterTag, chunks >>

Unwind ==
  /\ Running /\ Finished(cur) /\ stack # << >>
  /\ Pop
  /\ UNCHANGED << p, afterTag, chunks, scan >>

Close ==
  /\ AtItem /\ CanClose
  /\ p' = p + 1
  /\ Pop
  /\ UNCHANGED << afterTag, chunks, scan >>

SkipFixed ==
  /\ AtItem /\ (CanSkipNumber \/ CanSkipSimple)
  /\ cur' = Settled(cur)
  /\ StepPast /\ UNCHANGED stack

SkipTag ==
  /\ AtItem /\ CanSkipTag
  /\ p' = Past(p) /\ afterTag' = TRUE
  /\ UNCHANGED << cur, stack, chunks, scan >>

SkipString ==
  /\ AtItem /\ CanSkipString
  /\ p' = PayloadEnd(p) /\ afterTag' = FALSE
  /\ cur' = Settled(cur)
  /\ UNCHANGED << stack, chunks, scan >>

OpenString ==
  /\ AtItem /\ CanOpenString
  /\ p' = p + 1 /\ afterTag' = FALSE
  /\ chunks' = MajorOf(buf[p])
  /\ UNCHANGED << cur, stack, scan >>

SkipEmpty ==
  /\ AtItem /\ CanSkipEmpty
  /\ cur' = Settled(cur)
  /\ StepPast /\ UNCHANGED stack

OpenDefinite ==
  /\ AtItem /\ CanOpenDefinite
  /\ Push([pending |-> Children(p), indefinite |-> FALSE,
           map |-> HeadIs(p, {"map"}), midPair |-> FALSE])
  /\ StepPast

OpenIndefinite ==
  /\ AtItem /\ CanOpenIndefinite
  /\ Push([pending |-> 0, indefinite |-> TRUE,
           map |-> HeadIs(p, {"map"}), midPair |-> FALSE])
  /\ p' = p + 1 /\ afterTag' = FALSE
  /\ UNCHANGED << chunks, scan >>

GiveUp ==
  /\ AtItem
  /\ ~(CanClose \/ CanSkipNumber \/ CanSkipSimple \/ CanSkipTag \/ CanSkipString
       \/ CanOpenString \/ CanSkipEmpty \/ CanOpenDefinite \/ CanOpenIndefinite)
  /\ scan' = "none"
  /\ UNCHANGED << p, cur, stack, afterTag, chunks >>

(* The inner loop over the chunks of an indefinite string. *)
InChunks == scan = "running" /\ chunks # "none"
CanEndChunks == p < Limit /\ buf[p] = BreakByte
CanSkipChunk == Definite(p) /\ HeadIs(p, {chunks}) /\ PayloadFits(p)

EndChunks ==
  /\ InChunks /\ CanEndChunks
  /\ p' = p + 1
  /\ chunks' = "none"
  /\ cur' = Settled(cur)
  /\ UNCHANGED << stack, afterTag, scan >>

SkipChunk ==
  /\ InChunks /\ CanSkipChunk
  /\ p' = PayloadEnd(p)
  /\ UNCHANGED << cur, stack, afterTag, chunks, scan >>

GiveUpChunks ==
  /\ InChunks /\ ~CanEndChunks /\ ~CanSkipChunk
  /\ scan' = "none"
  /\ UNCHANGED << p, cur, stack, afterTag, chunks >>

ScanStep ==
  /\ \/ Return \/ Unwind \/ Close \/ SkipFixed \/ SkipTag \/ SkipString \/ OpenString
     \/ SkipEmpty \/ OpenDefinite \/ OpenIndefinite \/ GiveUp
     \/ EndChunks \/ SkipChunk \/ GiveUpChunks
  /\ UNCHANGED buf

(* The call itself, on a cursor the parser has decoded; a tag is refused.  *)
ScanFrom(it, atCall) ==
  /\ p' = it.ptr /\ cur' = Top /\ stack' = << >>
  /\ afterTag' = FALSE /\ chunks' = "none"
  /\ scan' = atCall

ScanIdle ==
  /\ p = 1 /\ cur = Top /\ stack = << >>
  /\ afterTag = FALSE /\ chunks = "none" /\ scan = "idle"

-----------------------------------------------------------------------------
(* One call on the first item of a document.                              *)
ScanCall ==
  /\ scan = "idle" /\ ParserInit.err = "ok"
  /\ ScanFrom(ParserInit.it, IF ParserInit.it.type = "tag" THEN "none" ELSE "running")
  /\ UNCHANGED buf

ScanInit == buf \in Documents /\ ScanIdle
ScanNext == ScanCall \/ ScanStep
ScanSpec == ScanInit /\ [][ScanNext]_<< buf, scanVars >> /\ WF_<< buf, scanVars >>(ScanStep)

-----------------------------------------------------------------------------
(* Types, and the two bounds an unsafe read or an array index would break: *)
(* the position never leaves the buffer by more than its end, and the      *)
(* stack never outgrows FAST_SCAN_DEPTH.                                   *)
ScanTypeOK ==
  /\ buf \in Seq(Byte)
  /\ p \in 1 .. Limit
  /\ cur \in Level
  /\ stack \in Seq(Level) /\ Len(stack) <= FAST_SCAN_DEPTH
  /\ afterTag \in BOOLEAN
  /\ chunks \in StringMajors \cup {"none"}
  /\ scan \in {"idle", "running", "some", "none"}

(* settle() wraps instead of saturating because "the unwind check has      *)
(* already proved pending is not zero": a level that gave a length never   *)
(* wraps, and a map level is between a key and its value exactly when an   *)
(* odd number of its items is left.                                        *)
Coherent(level) ==
  ~level.indefinite =>
    /\ level.pending < U32Max
    /\ (level.map => (level.midPair <=> level.pending % 2 = 1))
LevelsCoherent ==
  Coherent(cur) /\ \A i \in 1 .. Len(stack) : Coherent(stack[i])

(* The scan ends: every turn of its loops reads a byte, closes a level or  *)
(* stops, and the buffer and the stack are finite.                         *)
ScanEnds == scan = "running" ~> scan \in {"some", "none"}
=============================================================================
