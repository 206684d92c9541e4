------------------------------ MODULE Pipeline ------------------------------
(***************************************************************************)
(* The two programs at work: cbordump alone, before a terminal or writing  *)
(* somewhere else; cbordump -j with its output piped into json2cbor; and   *)
(* json2cbor reading a file somebody wrote.  In a pipe both run at once,   *)
(* but json2cbor reads to the end of its input, which comes when cbordump  *)
(* has exited.  It may also be told to read something else, or exit before *)
(* it reads anything, and break the pipe.                                  *)
(***************************************************************************)
EXTENDS Cbordump, Json2cbor

CONSTANTS
  Dumps,      \* [args, stdin, sink] of the cbordumps run alone
  Pipes,      \* [args, stdin, line, posix] of the pipelines
  Texts       \* [stdin, line, posix] of the json2cbors run alone

VARIABLE session      \* "dump", "pipe" or "text"

pipelineVars == << session, cbordumpVars, json2cborVars >>

Init ==
  \/ \E d \in Dumps :
       /\ session = "dump"
       /\ NewDump(d.args, d.stdin, d.sink) /\ NewProgram(<< >>, FALSE)
  \/ \E p \in Pipes :
       /\ session = "pipe"
       /\ NewDump(p.args, p.stdin, "pipe") /\ NewProgram(p.line, p.posix)
  \/ \E t \in Texts :
       /\ session = "text"
       /\ NewDump(<< >>, t.stdin, "pipe") /\ NewProgram(t.line, t.posix)

(* A pipe breaks only when its reader is gone, and may be full before. *)
PipeHolds == session = "pipe" /\ phase # "exited" => code' # 141
CbordumpRuns ==
  session # "text" /\ DumpStep /\ PipeHolds /\ UNCHANGED << session, json2cborVars >>

(* A file is measured, and so is standard input when it is one. *)
FromPipe == session = "pipe" /\ source = StandardInput
Source == IF source = StandardInput THEN stdin ELSE source
ReadPipe == FromPipe /\ doing = "exited" /\ ReadInput(StandardOutput, FALSE)
ReadText == ~FromPipe /\ Source.is = "text" /\ ReadInput(Source.bytes, TRUE)
ReadNothing == ~FromPipe /\ Source.is # "text" /\ InputFails
Json2cborRuns ==
  /\ session # "dump" /\ (ReadPipe \/ ReadText \/ ReadNothing \/ ConvertStep)
  /\ UNCHANGED << session, cbordumpVars >>

Next == CbordumpRuns \/ Json2cborRuns

(* Each program is a single thread that nothing blocks but its input. *)
Spec ==
  /\ Init /\ [][Next]_pipelineVars
  /\ WF_pipelineVars(CbordumpRuns) /\ WF_pipelineVars(Json2cborRuns)

-----------------------------------------------------------------------------
(* Whatever is read, both programs come to their end: every document is    *)
(* walked through, every value encoded and every limit grown.              *)
Exited ==
  /\ session # "text" => doing = "exited"
  /\ session # "dump" => phase = "exited"
Finishes == <>Exited
=============================================================================
