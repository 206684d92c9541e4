------------------------------ MODULE Cbordump ------------------------------
(***************************************************************************)
(* The program cbordump (tools/cbordump/src/main.rs): its operands are     *)
(* read and printed one after the other until one of them fails.  What was *)
(* printed before an error stays printed.  Standard output is buffered as  *)
(* libc does it: a terminal gets a line when it is complete, anything else *)
(* gets everything at the end.                                             *)
(*                                                                         *)
(* `screen` is what standard output and standard error show together: a    *)
(* diagnostic is one token.                                                *)
(***************************************************************************)
EXTENDS DumpPrinters

VARIABLES
  args, stdin,  \* the words of the command line, and standard input
  files,        \* the operands: what opening and reading each comes to
  json, flags,  \* -j, and the flags of the notation chosen
  sink,         \* where standard output goes: "terminal", "pipe", "other"
  operand,      \* the operand at hand
  doing,        \* "options", "open", "dump", "print", "newline", "end",
                \* "complain", "flush", "exited"
  dumped,       \* what dump() has: the walk over the document at hand
  pending,      \* text written and not yet emitted
  screen,
  code          \* the exit code, so far

settingVars == << args, stdin, files, json, flags, sink >>
cbordumpVars == << buf, settingVars, operand, doing, dumped, pending, screen, code >>

Stderr == Tok("stderr")
Usage == Tok("usage")
LineEnd == Tok("newline")
StandardOutput == SelectSeq(screen, LAMBDA token : token # Stderr)

NewDump(words, input, goesTo) ==
  /\ args = words /\ stdin = input /\ sink = goesTo
  /\ files = << >> /\ json = FALSE /\ flags = {} /\ doing = "options"
  /\ buf = << >> /\ operand = 1 /\ dumped = Reader
  /\ pending = << >> /\ screen = << >> /\ code = 0

-----------------------------------------------------------------------------
(* emit: the text is taken, or the reader of a pipe has gone away, which   *)
(* ends the program, or the write fails in another way, which nobody       *)
(* looks at.                                                               *)
Outcomes ==
  CASE sink = "terminal" -> {"taken"}
    [] sink = "pipe" -> {"taken", "broken"}
    [] sink = "other" -> {"taken", "broken", "failed"}

(* Stdout::write: pending text, of which a terminal gets the lines that    *)
(* are complete.                                                           *)
LastLineEnd(text) == Max({0} \cup {i \in DOMAIN text : text[i] = LineEnd})
Complete_Everything(text) == text
Complete(text) == SubSeq(text, 1, LastLineEnd(text))
Rest(text) == SubSeq(text, LastLineEnd(text) + 1, Len(text))

ByLine == sink = "terminal"
(* Diagnostics are not buffered: those given come before the text.         *)
Write(text, diagnostics) ==
  LET all == pending \o text
  IN  IF ByLine THEN screen' = screen \o diagnostics \o Complete(all) /\ pending' = Rest(all)
      ELSE screen' = screen \o diagnostics /\ pending' = all

(* A diagnostic, which is not buffered, and the end of the program. *)
Complain == screen' = Append(screen, Stderr) /\ code' = 1 /\ doing' = "flush"

-----------------------------------------------------------------------------
(* Getopt: a word is a bundle of letters, "--" or an operand.  The options *)
(* end at the first operand or behind the first "--"; whatever follows is  *)
(* an operand, the name of a file, even if it looks like an option.        *)
Bundles(words) ==
  LET others == {i \in DOMAIN words : words[i].is # "bundle"}
  IN  Min({Len(words) + 1} \cup others) - 1
Letters(words) == FlattenSeq([i \in 1 .. Bundles(words) |-> words[i].letters])
Operands(words) ==
  LET next == Bundles(words) + 1
      ended == next <= Len(words) /\ words[next].is = "--"
  IN  SubSeq(words, IF ended THEN next + 1 ELSE next, Len(words))

JsonFlag == [M |-> "metadata", O |-> "tags_to_objects", S |-> "stringify", U |-> "to_base64url"]
DumpFlag == [f |-> "fragments", n |-> "indeterminate"]
Known == DOMAIN JsonFlag \cup DOMAIN DumpFlag \cup {"c", "j", "h"}
Chosen(table, seen) == {table[letter] : letter \in Range(seen) \cap DOMAIN table}

(* run: the letters take effect one by one up to one that ends the run.    *)
Ending(seen) == {i \in DOMAIN seen : seen[i] \notin Known \ {"h"}}
AsJson(seen) ==
  \E i \in DOMAIN seen : seen[i] = "j" /\ \A k \in i + 1 .. Len(seen) : seen[k] # "c"

ReadOptions ==
  /\ doing = "options" /\ Ending(Letters(args)) = {}
  /\ json' = AsJson(Letters(args))
  /\ flags' = IF json' THEN Chosen(JsonFlag, Letters(args))
              ELSE DefaultFlags \cup Chosen(DumpFlag, Letters(args))
  /\ files' = IF Operands(args) = << >> THEN << stdin >>
              ELSE [i \in DOMAIN Operands(args) |-> Operands(args)[i].file]
  /\ doing' = "open"
  /\ UNCHANGED << args, stdin, sink, buf, operand, dumped, pending, screen, code >>
Help ==
  /\ doing = "options" /\ Ending(Letters(args)) # {}
  /\ Letters(args)[Min(Ending(Letters(args)))] = "h"
  /\ Write(<< Usage, LineEnd >>, << >>)
  /\ doing' = "flush"
  /\ UNCHANGED << buf, settingVars, operand, dumped, code >>
UnknownOption ==
  /\ doing = "options" /\ Ending(Letters(args)) # {}
  /\ Letters(args)[Min(Ending(Letters(args)))] # "h"
  /\ Write(<< Usage, LineEnd >>, << Stderr, Stderr >>)
  /\ code' = 1 /\ doing' = "flush"
  /\ UNCHANGED << buf, settingVars, operand, dumped >>

Here == files[operand]
OpenFails ==
  /\ doing = "open" /\ operand \in DOMAIN files /\ Here.is = "missing"
  /\ Complain
  /\ UNCHANGED << buf, settingVars, operand, dumped, pending >>
ReadFails ==
  /\ doing = "open" /\ operand \in DOMAIN files /\ Here.is = "unreadable"
  /\ Complain
  /\ UNCHANGED << buf, settingVars, operand, dumped, pending >>
ReadFile ==
  /\ doing = "open" /\ operand \in DOMAIN files /\ Here.is = "document"
  /\ buf' = Here.bytes /\ doing' = "dump"
  /\ UNCHANGED << settingVars, operand, dumped, pending, screen, code >>
NoMoreFiles ==
  /\ doing = "open" /\ operand \notin DOMAIN files
  /\ doing' = "flush"
  /\ UNCHANGED << buf, settingVars, operand, dumped, pending, screen, code >>

(* dump: the text of the document, whole or as far as it went, the end of  *)
(* the line, and whether there is more in the file.                        *)
DumpDocument ==
  /\ doing = "dump"
  /\ dumped' = IF json THEN DumpJson(flags) ELSE DumpPretty(flags)
  /\ doing' = "print"
  /\ UNCHANGED << buf, settingVars, operand, pending, screen, code >>
PrintText ==
  /\ doing = "print"
  /\ Write(dumped.out, << >>)
  /\ doing' = IF dumped.err = "ok" THEN "newline" ELSE "complain"
  /\ UNCHANGED << buf, settingVars, operand, dumped, code >>
EndLine ==
  /\ doing = "newline"
  /\ Write(<< LineEnd >>, << >>) /\ doing' = "end"
  /\ UNCHANGED << buf, settingVars, operand, dumped, code >>

AllRead == dumped.pos = Limit
NextFile ==
  /\ doing = "end" /\ AllRead
  /\ operand' = operand + 1 /\ doing' = "open"
  /\ UNCHANGED << buf, settingVars, dumped, pending, screen, code >>
GarbageAtEnd ==
  /\ doing = "end" /\ ~AllRead
  /\ Complain
  /\ UNCHANGED << buf, settingVars, operand, dumped, pending >>
ReportError ==
  /\ doing = "complain"
  /\ Complain
  /\ UNCHANGED << buf, settingVars, operand, dumped, pending >>

(* main: whatever is still pending goes out when the program ends. *)
Flush ==
  /\ doing = "flush"
  /\ \E outcome \in Outcomes :
       /\ screen' = IF outcome = "taken" THEN screen \o pending ELSE screen
       /\ code' = IF outcome = "broken" THEN 141 ELSE code
  /\ pending' = << >> /\ doing' = "exited"
  /\ UNCHANGED << buf, settingVars, operand, dumped >>

DumpStep ==
  \/ ReadOptions \/ Help \/ UnknownOption
  \/ OpenFails \/ ReadFails \/ ReadFile \/ NoMoreFiles
  \/ DumpDocument \/ PrintText \/ EndLine \/ NextFile \/ GarbageAtEnd \/ ReportError
  \/ Flush
=============================================================================
