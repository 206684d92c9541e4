# A TLA+ development of 0xicbor

0xicbor is a Rust reimplementation of the tinycbor C library: a streaming CBOR
encoder and a pull parser behind the C ABI of `cbor.h`, with validation, pretty
printing and JSON conversion on top, and two command line tools (`cbordump`,
`json2cbor`).  This directory models the encoder, the parser, what is built on
the parser and both tools in TLA+, checks the models with TLC on small instances
and proves the properties that matter most with TLAPS for all instances.

## Inventory

| component | state | operations | interacts with |
|---|---|---|---|
| head codec (`cbor-core/src/encoder.rs`, `bytes_needed`, `be_load`) | none | size, write and read a head | encoder, parser |
| streaming encoder (`cbor-ffi/src/encoder.rs`) | one `CborEncoder` per open container: cursor or shortfall count, end / NULL / writer token, items remaining, flags | init, numbers, tags, simple values, strings, raw bytes, create and close containers | caller's buffer or writer callback |
| parser cursor (`parser.rs`) | one `CborValue` per entered container: position, items remaining, cached argument, type, flags | preparse, advance_fixed, skip_tag, enter, leave, chunk iteration | everything below |
| advance (`parser.rs`) | the scan's level stack; the walk's recursion | `scan_subtree`, then `advance_recursive` | cursor |
| external reader (`parser.rs`) | the caller's position, shared by all cursors | four callbacks | cursor |
| string access (`parser.rs`) | capacity and total | copy, dup, compare, map lookup | chunk iteration |
| half floats (`half.rs`) | none | encode, decode | encoder, validation, JSON, printing |
| validation (`validation.rs`) | recursion over a copied cursor, sorted-key memory | `cbor_value_validate` | cursor |
| JSON and pretty printing (`tojson.rs`, `pretty.rs`, `fmt.rs`) | recursion over copied cursors, the sink | convert, print | cursor, callbacks |
| `cbordump` (`cbor.rs`, `json.rs`, `pretty.rs`, `main.rs`) | a second parser over a slice; buffered standard output, exit code | head, skip, enter, print, convert; options, files | files, terminal or pipe |
| `json2cbor` (`json.rs`, `encode.rs`, `main.rs`) | JSON reader, growing buffer | parse, encode | files, `cbordump -j` through a pipe |

Every program here is one thread without timers or persistence; the only two
that run at once are the ends of a pipe.  What is hard here is of another kind:

* **two implementations of one operation**: `cbor_value_advance` scans a buffer
  with a fast path and falls back to a recursive walk; the client must not be
  able to tell which ran.  `cbordump` has a parser, a pretty printer and a JSON
  converter of its own next to the library's;
* **state encoded twice in one word**: the encoder's `data` and `end` are a
  cursor and its end, a count and NULL, or a callback and its token;
* **stale copies**: a child encoder or cursor starts as a copy of its parent,
  which stays stale until the child is closed or left;
* **a protocol between calls**: chunk iteration and enter/leave are sequences of
  calls whose phase lives in flag bits of the cursor;
* **input that comes in pieces**: a reader's bytes may arrive after they were
  asked for, and a failed decode is then repeated from a half-updated cursor;
* **output that is already out**: a sink may fail after the cursor has moved, a
  tool after it has printed;
* **two programs that must agree**: what `cbordump -jM` writes, `json2cbor -M`
  reads back, by a convention of keys and fields only the two know;
* **boundaries**: exact fits, the stack of 64 levels, 1024 recursions, `u32::MAX`
  as a sentinel, doubled map lengths;
* **untrusted bytes**: every document, well-formed or not, is a possible input.

`PROJECT.json` lists each hazard at its line with the properties that guard it.

## Modules

| module | models | what it holds |
|---|---|---|
| `CborHead` | heads | split of a byte, argument, head size; the split is a parameter |
| `SizeLedger` | (abstract) | what a sizing encoder promises: a ledger of bytes and item counts |
| `Encoder` | `encoder.rs` | one action per exported call, buffer and writer variants |
| `EncoderProofs` | | three inductive invariants and the refinement, nine theorems |
| `Cursor` | `parser.rs`, internal functions | the `CborValue` and the functions on it, as operators that return an error and a cursor |
| `CursorProofs` | | what each of those functions leaves behind, as lemmas |
| `FastScan` | `scan_subtree` | one action per turn of its loops |
| `ScanContract` | (contract) | what `scan_subtree` promises, in terms of the grammar |
| `FastScanProofs` | | two inductive invariants, four theorems |
| `Advance` | `advance`, `advance_recursive`, `skip_string` | the scan, then one action per step of the recursion, whose frames are explicit |
| `Navigation` | the navigation API | a client that makes every legal sequence of calls |
| `NavigationContract` | (contract) | what the navigation calls promise, in terms of the grammar |
| `NavigationProofs` | | two inductive invariants, six theorems |
| `Strings` | string access | measuring, copying, duplicating, comparing: one action per chunk and per call |
| `StringsContract` | (contract) | what the string calls promise, in terms of the grammar: the content of a string, what comes after it |
| `StringsProofs` | | two inductive invariants, five theorems |
| `Validation` | `validation.rs` | the walk of validate, one frame per open container, rules as verdicts on a cursor |
| `ValidationContract` | (contract) | what validation promises whatever rules are asked for, in terms of the grammar |
| `ValidationProofs` | | two inductive invariants, three theorems |
| `HalfFloat` | `half.rs` | decode and encode over parameterised field widths, and the language's casts |
| `Accessors` | `map_find_value`, checked integers, `cbor_value_advance` as one step | for clients above the navigation |
| `Binding` | (notation) | a value worked out once and given a name |
| `Text` | what both printers write and `json2cbor` reads | tokens; the metadata of a conversion |
| `Printers` | `pretty.rs`, `tojson.rs` | the two recursive walks over a `CborValue` |
| `Render` | their exported calls | a client that prints, converts, enters, looks up, and goes on |
| `Arrival` | `cbor_value_reparse`, readers | a client that waits for bytes and decodes again |
| `ArrivalProofs` | | inductive invariant, one theorem |
| `DumpPrinters` | `cbordump`'s `cbor.rs`, `pretty.rs`, `json.rs` | the second parser and its two walks |
| `Cbordump` | `cbordump`'s `main.rs` | from the command line to the exit code, one action per step |
| `JsonParse`, `JsonEncoder`, `Json2cbor` | `json2cbor` | the reader of JSON; the encoder, one action per value; the program |
| `Pipeline` | (composition) | `cbordump` alone, the two in a pipe, `json2cbor` on a file |
| `Grammar` | (reference) | where an item ends, by one recursive function on the grammar |
| `GrammarProofs` | | that this function exists, its rules one turn at a time, and what each cursor function does to the ends it gives, as lemmas |
| `MCEncoder`, `MCFastScan`, `MCNavigation`, `MCStrings`, `MCValidation`, `MCRender`, `MCArrival`, `MCPipeline` | | constants of the runs, and the properties stated with `Grammar` that have no contract module |

`Encoder` and `Cursor` extend `CborHead`; `FastScan`, `Strings`, `Validation`,
`Accessors` and `Arrival` extend `Cursor`; `Advance` extends `FastScan`;
`Navigation` extends `Advance`; `ScanContract` extends `FastScan` and `Grammar`,
`NavigationContract` extends `Navigation` and `Grammar`, `StringsContract` `Strings` and
`Grammar`, `ValidationContract` `Validation` and `Grammar`.  `Text` extends `CborHead` and `HalfFloat`;
`Printers` extends `Accessors` and `Text`, `Render` extends `Printers`;
`DumpPrinters` extends `Text`, `Cbordump` extends `DumpPrinters`; `JsonEncoder`
and `JsonParse` extend `Text`, and `Pipeline` extends both programs.  Operators
whose name ends in `_Something` next to one of the same name are seeded mistakes
used to test the properties; no specification refers to them.

### How state and actions correspond to the code

*Encoder.*  `encoders[1]` is the caller's root `CborEncoder`, `encoders[i + 1]`
the child made by the i-th open `create_container`.  The fields are those of the
struct, the flag word split into booleans.  Bytes are abstracted to their number:
`append` decides by length alone.  `demanded`, `open`, `top` and `handed` are
history: the bytes asked for, the items of each open container, the high-water
mark in the buffer and what the callbacks of the last call returned.  A writer
callback may return anything of `Writes` at each append.  A buffer's address is a
number other than 0 (NULL), so that the pointer subtraction of `would_overflow` is
arithmetic on addresses as in the code, also when `end` is NULL; addresses never
come near `isize` limits.  The two closes of the API are one, as in the code.

*Cursor.*  `remaining = U32Max` is a container of unknown length.  `wide` is the
number of argument bytes that did not fit `extra`.  `unknown`, `map`, `key`,
`first`, `iterating` are the flags.  Integers keep their sign in `type` and the
subtypes of major type 7 are one type `"simple"`, whose `extra` is the argument
(the code stores 0 for `false`).  Positions are 1-based, the end is `Limit`.

*FastScan.*  `cur` is the Level in registers, `stack` the array below it.  A read
is only ever of `buf` at positions below `Limit`: TLC and the provers would stop on
any other.

*Advance.*  `walk` holds the cursors of the recursion: the caller's, then one
`recursed` per frame.  A frame's place in the code is told by the type of the last
cursor: an ended `recursed` is the loop exit, any other is a call.  An error
returns through all frames in one step, as nothing happens on the way.  A reader
source (`reader`) never scans.  Its one shared position is represented by the
position of the innermost cursor, which is the only one that moves until a call
fails; what the position is after a failure is not modelled.

*Navigation.*  The client uses the innermost cursor, leaves a container at its end,
finishes a string after `NoMoreStringChunks` and stops at an error: the rules of
the assertions in `cbor.h` and of `docs/src/using/parsing.md`.

*Strings.*  `it`, `total`, `all` and `capacity` are the locals of
`iterate_string_chunks` (`all` is its `result`, `capacity` its `buflen` on the way
in); `memory` is what the buffer pointer points at: the client's buffer, dup's
allocation, or the expected C string.  A string of `usize::MAX` bytes does not
occur, so the overflow check of the total is left out.  A behaviour is one call,
from an untouched cursor on the first item.  With `reader`, `position` is the
callbacks' own and every copy of a cursor reads there; callbacks are assumed to
answer that nothing can be read past their end.  The second pass of dup over
callbacks is the only case that the exactness properties exempt (`OneWalk`): it is
the subject of `strings_reader`.

*Validation.*  A frame is a call of `validate_container` (`previous`, `current`) with
the cursor it works on; the first is the client's copy.  `left` is `recursion_left`
of the `validate_value` that is about to run, `phase` where it is.  The flag word is
a set of bits, and a composite flag a set too, so that "any bit of" and "all bits
of" are told apart as in the code: any bit of `MAP_IS_SORTED`, thus also
`NO_INDETERMINATE_LENGTH` alone, checks the order of keys.  With `reader`, all
cursors of the recursion stand where the callbacks do (`AllAt`) and `Source` is the
token, one value for every position.  A chunk is judged by the cursor before it after the
call that fetched it: over callbacks that call has moved the position on, and
`validate_number` reads the head behind the chunk (`Judged`).  `validate_floating_point` works on the bit
patterns of `HalfFloat`.

*HalfFloat.*  A float is a number whose bits are sign, exponent, mantissa.  The
field widths are parameters because every pattern of the small formats can then be
checked.  `as f32` and `as f64` are the language's, hence `Nearest`.

*Accessors, Printers, Render.*  The walks of the printers change nothing but a copy of
the cursor and the text, so each is a recursive operator over a record of error, text,
cursor (and status, for JSON), with one operator per function of the code; a call of the
client is one action.  The library writes the text at once when its walk is over. A FILE
may take only part of it; a stream's callback takes all and answers what it likes.

*Arrival.*  `buf` is what has arrived and `rest` what has not, a byte at a time.  A
client that is told of an end of input calls `cbor_value_reparse`, or repeats the
chunk it asked for.  A call changes the caller's cursor also when it fails, and that is
what reparse starts from.  `whole` makes the same calls, each once, over all the bytes.

*DumpPrinters.*  One position moves over the bytes; each conversion is told what to
check at its end, as the `After` of the code.  An error keeps the text before it.

*Cbordump.*  The words of the command line are bundles of letters, `--` or operands,
a file is its bytes or the way it fails.  `pending` is what standard output holds
back; only a terminal gets it by lines.  A diagnostic is one token on the same screen.

*JsonParse, JsonEncoder, Json2cbor.*  JSON is a sequence of tokens; positions in it
are the parser's.  `todo` is the recursion of `encode` laid out as the work left, so
that each value is one action.  `limit` is the buffer's room and `out` what is in it.
A string's head and body are two appends in the code and one here: an encoder that
refuses writes nothing, so nobody sees a head without its body.

*Pipeline.*  In a pipe `json2cbor` reads its options at any time but its input to the
end, thus until `cbordump` has exited.  If it exits without reading the pipe, the pipe
breaks under `cbordump` or holds its output, as it happens.  `cbordump`'s diagnostics
go elsewhere.  The two read their command lines differently, as POSIX and as GNU getopt do.

## Runs

| run | question | size |
|---|---|---|
| `encoder` | is the sizing idiom exact, whatever the nesting and the place of the overrun, and whose word is an error of an encoder with a callback? | 0.6 M states |
| `fast_scan` | is the scan right or absent, and inside its bounds? | 0.2 M |
| `navigation` | do all mixes of calls, over both paths, agree with the grammar? | 0.5 M |
| `strings` | does every call answer by the content of the string? | 0.1 M |
| `strings_reader` | *violated*: over callbacks dup's second walk starts past the string | |
| `validation` | is a document valid exactly when each rule holds of each item? | 0.3 M |
| `validation_reader` | *violated*: over callbacks different keys count as equal | |
| `render` | what do printing, conversion, lookup and integers say, where do they leave the cursor, and does `cbordump` say the same? | 0.1 M |
| `arrival` | does late input change what a client ends up with? | 0.6 M |
| `tools` | what do the tools show, what survives a round trip, do they end? | 0.1 M |
| `tools_screen` | *violated*: on a terminal the text that was cut short comes after the diagnostic, not before it | |
| `tools_lossless` | *violated*: of two nested tags the round trip keeps one, in the wrong place | |

**Bounds.**  `encoder`: `Descriptors = 5` makes heads of 1, 2 and 3 bytes for
the lengths used; buffers of 0, 2 and 5 bytes plus (NULL, 0) against documents of up
to `MaxDemand = 7` bytes and `MaxDepth = 3` containers put the overrun before, in and
between heads and payloads at every level; `Lengths` has an empty, a full and the
unknown length.  `Word = 16` stands for 2^64: no length in the run wraps.  A callback answers ok,
out-of-memory or an error of its own, each time anew.

`fast_scan` and `navigation`: a byte is split 8 x 7 instead of 8 x 32, with one- and
two-byte arguments, one reserved descriptor and the indefinite one; `U32Max = 5` and
`ExtraBytes = 1` scale the sentinel and the cache.  All documents over an alphabet
for nesting (both container kinds, definite and not, tag, integer, break) of up to 4
or 5 bytes and over one for heads and strings, of up to 3 to 5 bytes, are initial
states, well-formed or not.  `FAST_SCAN_DEPTH` of 1 or 2 and `MAX_RECURSIONS = 2` are
both reached and exceeded within that length.

`strings`: texts of 0 to 2 bytes and of a length in the next byte, byte strings and
texts of unknown length followed by up to three pieces (chunks of 0, 1 and 2 bytes,
chunks of the wrong kind, a nested unknown length, a break, an integer), tagged or
in an array.  Contents reach 6 bytes, capacities 0 to 3, expected strings are all of
up to 2 bytes over two letters: shorter, longer, equal, equal in a prefix.

`validation` and the runs below split a byte 8 x 11 with five literals, which leaves
room for one-byte arguments, the three float widths and a reserved descriptor.  Here:
every bit pattern of the three floats (2 and 2, 4 and 3, 4 and 4 bits of exponent and
mantissa), all documents of up to three bytes over two alphabets, maps of two
entries with every pair of ten keys (integers, one overlong, texts of one and two
bytes, tagged, one of which has a payload that reads as a head, chunked, an array),
definite and not, and nests of containers and tags up to and beyond
`MAX_RECURSIONS = 3`, under thirteen flag words that set every bit.
The known tags and their tiers are scaled to 0, 1 and below 2, 3.

`render`: documents of up to three bytes over an alphabet of structure, heads of every kind
with and without their argument, chunked strings, maps with tagged and chunked keys
for lookups, integers at both ends of `Int64Limit = 16` and `IntLimit = 8` (2^63 and 2^31).
`MAX_RECURSIONS = 2` is reached and exceeded.  `MaxCalls = 2`: the second call starts from
what the first left behind.

`arrival`: all documents of up to four bytes over the structure alphabet (8 x 6 split,
chunked strings and both lengths of containers) and nests, every number of bytes present
at the start, every moment at which more arrive.

`tools`: `cbordump` alone with files that are missing, unreadable, empty, whole,
followed by garbage or broken half-way, on a terminal, a pipe and a sink that fails; every
atom bare, tagged, in an array and as a map value, through the pipe with and without
`-M`, all command lines of `json2cbor` of up to two words with and without
`POSIXLY_CORRECT`, and JSON files with hand-written metadata, floats of all half
patterns and sizes at the limit.
`DUMP_RECURSIONS = 5`, `NESTING_LIMIT = 3` and `WholeLimit = 128` (1024, 1000, 2^64) are all
reached; `IntMax = 88` stands for 2^31 - 1; `MaxCounted = 2` for the largest
container the tool writes with a length, `Growth = 4` for what the buffer grows by.

**Fairness.**  `navigation` and `fast_scan` assume weak fairness of the library's
own steps only: a call that has begun keeps running, which is what a thread does.
Nothing is assumed of the client.  `tools` assumes weak fairness of each of the two
programs: each is one thread that nothing blocks but its input, and the input of the
second ends when the first exits.  Deadlock checking is off where the system may
stop: a finished scan, a client that has met an error, an exited program.

**What the properties say.**  `ShortfallExact`, `WrittenInPlace`, `PrefixFinal`,
`ItemsOwedExact` and `ImplementsLedger` for the encoder; `RightOrAbsent` and
`PresentIfShallow` bound the scan's answer from both sides.  For navigation, `OnCourse`
relates each cursor of the client, and each frame of the walk, to the one around it
through the grammar at every step of client and library, `AdvanceAgrees` pins the result of every advance (cursor and error) by either
path, `NoSpuriousError` and `EndOnlyIfWellFormed` are completeness and soundness of the
parser for any sequence of calls, `HeadCurrent` rules out anything stale in what the
client reads.  For strings, `AnswerExact` and `EqualsExact` give every call's answer as
a function of the content, and the malformed strings that are refused, `NextExact` the
cursor handed back, and `WritesOwnedOnly` bounds what is written.  `ValidExact` states
each rule of validation declaratively, as a predicate on the items of the grammar's
tree, and the answer as their conjunction, so that neither a rule skipped on some path
nor one applied to the wrong item goes unnoticed; `KeyRangesInside` is the SAFETY
comment of the key comparison; `AgreesWithGrammar` that validation ends where
advance does (`EndsWhereAdvanceWould`) and that its answer tells a broken encoding from a
broken rule, and a whole item from one too deep (`BlamesTruly`).  Over callbacks
`ValidExact` leaves out what three rules get wrong there (`LooksAround`: maps when keys
are in order, tags when keys must be texts, strings when integrals must be shortest), and
`AgreesWithGrammar` any claim with `keys_string` (`KeepsPlace`) and an end of input blamed
with shortest integrals (`LateErrors`); see Findings.  `PrettyExact` and `CursorExact` say by the grammar what a
printer answers and where the caller's cursor is afterwards, whatever the sink did;
`AccessExact` which value a lookup finds and which integers fit; `AgreesWithCbordump`
that two implementations print the same bytes alike, or refuse them for the same reason.
`SeesWhole` is what a client of late input expects: the cursor it would have had from
the whole document (but for `BreakCameLate`, below).  `ScreenExact` fixes everything a
user sees of `cbordump`, in order, and its exit code; `AcceptsWholeDumps` that
`json2cbor`, if it reads the pipe at all, takes exactly the complete outputs of
`cbordump -j` that nest no deeper than it reads; `RoundTrip` what comes back, as an
equivalence of documents, for the documents `Kept` describes (each of its clauses is a
loss); `OneItemOut` that what `json2cbor` writes is one well-formed item, and nothing of
one when it fails; `HalfNearest` that a float given back as a half is the nearest one;
`Finishes` that growing and encoding again comes to an end.

## Proofs

All proofs hold for every value of the constants under the named assumptions.

* `EncoderProofs`.  `ShortfallExact` is not inductive: that an overrun is noticed
  rests on the live cursor being paired with the buffer's end, and that a close
  revives nothing on only the innermost cursor being meaningful.  `BufferInv` adds
  `Sound` of the innermost encoder; `AppendSound` shows one append preserves it,
  and each operation is one or two appends.  Theorems `BufferTypeCorrect`,
  `BufferShortfallExact`, `BufferWrittenInPlace`, `BufferPrefixFinal`.
* `EncoderProofs`, the refinement.  `OwedInv` relates every encoder of the stack to its frame
  of the ledger.  Under `NoCountWraps` (announced lengths below 2^63, which the code
  does not check) `BufferItemsOwedExact` and the refinement `BufferImplementsLedger`.
  The latter states `Ledger!Spec` itself beside `ImplementsLedger`, the form the run checks: its
  `Spec` begins with either kind of encoder and so has every behaviour of `BufferSpec` and of
  `WriterSpec`, which the theorems are about, and no other.
* `FastScanProofs`.  `ScanInv` strengthens the type invariant with coherence of all
  levels and with one fact about the inner loop: inside a chunked string the level
  to be settled is not finished.  Theorems `ScanStaysInside` (no read outside the
  buffer, no index outside the stack) and `ScanLevelsCoherent` (`settle`'s wrapping
  subtraction never wraps).  `CursorAssumption` asks that `U32Max` is odd, as 2^32 - 1
  is: a doubled map length then stays below the sentinel.
* `GrammarProofs`.  `Grammar` is one recursive function, `EndOf`, of which the
  definition says nothing before such a function is known to exist.  Each rule looks
  up only what starts later, or the item at hand (`Rank`), so that the least place
  without an answer does not exist (`TablesExist`), and there is but one function
  (`TablesAgree`).  `ItemEndIs`, `ItemsEndIs`, `BreakEndIs` and `ChunksEndIs` are its
  rules, `EndOfStays` that a step that leaves the bytes alone leaves the ends alone.
  `NestGrows`: what has an end with some levels of nesting to spare has the same with
  more, and with as many levels as bytes ahead none is missing.  `Owes`, for each
  function of `Cursor`: if it succeeds, the container of the cursor it returns
  (`ContainerEnd`) ends where that of its argument did; if it fails, that one had no end.
* `FastScanProofs`, the contract.  That the scan's answer is right cannot be seen from
  any one state: `Chain` says that every level it keeps goes on, in the grammar, where
  the one inside it ends, the innermost from the position of the scan and the outermost
  ending where the item does.  One lemma per kind of step shows that the chain keeps,
  gains or loses a link.  Without a limit on nesting it never breaks, as each level
  took a byte to open (`Len(stack) < p`); with the limit of the stack it breaks only at
  an empty container one level too deep, which the scan passes and the grammar counts,
  and then the item is one the theorem exempts.  `Grounded` rules out that a break
  ends the outermost level.  Theorems `ScanRightOrAbsent`, `ScanPresentIfShallow`, for
  every document, depth of the stack and split of a byte.

* `EncoderProofs`, over a writer.  `WriterInv` says that every encoder of the stack
  still has the writer's flag and a token for its `end`: a close or a child that lost
  either would take `end` for a buffer's.  Theorems `WriterTypeCorrect`,
  `WriterRefusalIsFinal`, `WriterOwnsOom`; the last assumes `NULL \notin Tokens`, as
  with a NULL token `encoder.rs:399` makes a close answer out-of-memory of its own.
* `CursorProofs`.  One lemma per function of `Cursor`: the cursor it returns is one the
  struct can hold, is not behind the one it was given, is inside the buffer whether the
  call succeeded or not, and after a success stands on a decoded head, at a break or
  at the end (`Standing`).  Everything below cites these and never opens the parser's
  functions again.
* `NavigationProofs`.  A call may fail half-way and leave its cursor in the middle of
  something, and what the next call does depends on where the cursor stands.
  `NavInv` therefore says for each `phase` what the innermost cursor stands on, for a
  walk that all frames but the last are open containers (`WalkInv`), and for a scan
  `ScanInv`; between calls that the cursor is the head decoded at its position
  and nothing more (`Current`).  Theorems `NavigationTypeCorrect`, `NavigationHeadCurrent`.
* `NavigationProofs`, the contract.  `OnCourse` is not inductive either: it does not say
  that a document the library can read still has an end with the levels that are left,
  which is what an error of the next call would have to refute, and nothing of a scan or
  of a string half-way.  `CourseInv` adds this: `Stacked` for the client's cursors,
  `Walked` and `Chunked` for the frames of the walk, each with the levels of nesting its
  depth leaves it, the `Chain` of `FastScanProofs` for a scan that runs, its answer for
  one that has come to it.  A step of the client needs that its operation goes on from
  the cursor it replaces (`Follows`, `Continues`); a return of advance that its result is
  the one owed (`Answers`), which the scan has from its chain and the walk from the frame
  it returns to, or, if it fails, from `Climb`: a frame without an end leaves none to
  those around it.  `AfarCourse` says of the walk what `Stacked` says of the client
  without a limit on nesting, and is carried by the same lemmas.  Theorems
  `NavigationOnCourse`, `NavigationNoSpuriousError`, `NavigationEndOnlyIfWellFormed`,
  `NavigationAdvanceAgrees`, for every document, every sequence of calls, from a buffer
  or a reader, and every depth of the scan's stack and limit of the recursion.
* `StringsProofs`.  That no byte is written past the capacity rests on the total being
  that of the walk so far, and on a failed measuring pass having written nothing.
  Theorems `StringsTypeCorrect`, `StringsStayInCapacity`.
* `StringsProofs`, the contract.  The answer is given in one step, at the end, for what a
  walk of many steps did: `AnswersInv` says for each step of a call what is ahead of its
  cursor and what is behind.  Ahead (`OnWay`): the same string, with the same end, and
  exactly the content that the total has not counted (`RestOf`); behind: the capacity
  is not passed as long as `result` holds, and the memory agrees with the content that
  far, which for a comparison is what `result` says and for a copy what was written.
  A chunk moves content from ahead to behind (`ChunkOn`); where the chunks are over none
  is ahead and the cursor decodes what comes after the string (`WalkEnds`); the NUL of a
  comparison meets a byte of the expected string, which has none, unless both ended
  (`NulPut`).  `TagsEnd` and `Chunks` are recursive functions shown to exist as `EndOf`
  is.  Theorems `StringsAnswerExact`, `StringsEqualsExact`, `StringsNextExact`, for every
  document, capacity and expected string; but for dup's second pass over callbacks,
  which the finding below is about.
* `ArrivalProofs`.  That late input makes no difference is not inductive: after a call
  that ran out the two clients differ.  `LateInv` adds that repeating the call from the
  half-updated cursor still gives, over all the bytes, what the other client got
  (`Resumes`), for each function of the parser; a container of unknown length that
  ends exactly where the bytes did is the exception the property makes as well.
  Theorem `ArrivalSeesWhole`.
* `ValidationProofs`.  The stack of frames is bounded because each frame's budget is one
  less than that of the one around it; keys stay behind the cursors because a
  frame's cursor waits where the one inside it began.  `Adrift` covers what callbacks do:
  a look at a tagged key moves the cursor of the key itself.  `Untagged` skips tags by a
  recursive function; that this function exists and what it returns is shown
  by a least counterexample (`Least`).  Theorems `ValidationTypeCorrect`,
  `ValidationKeysInside`.
* `ValidationProofs`, the contract.  Where the walk will end cannot be seen from its
  cursor: `CourseInv` says that what is left of the items it is inside ends, from the
  innermost outwards, where the client's item does (`Climb`), and this with as many
  levels to spare as each m of `Levels` leaves at that depth.  With the least m, the
  recursion limit, a walk that comes to its end has shown the item within the limit; with
  as many as the document has bytes, an error is one the bytes have earned and not the
  limit (`BrokenItem`), as `NestGrows` says that more levels change nothing else.  Per
  phase: an item about to begin (`Begun`), a string half-way (`Chunked`), an item that is
  over (`Over`), with `Turned` and `Due` for the key and value of a map, whose loop must
  not meet a break, or the end of the count (`Balanced`), between the two.  Theorem
  `ValidationAgreesWithGrammar`, for every document, cursor of the client, flag word and
  limit; over callbacks unless keys must be texts (`KeepsPlace`), and but for the end of
  input that shortest integrals may report there (`LateErrors`).  TLC checked `CourseInv` with `Levels` cut
  off at the length of the document.

TLC checked each of these invariants on the run of its component before it was proved.
The proofs use `Descriptors <= Value8Bit + 8` of `DescriptorsAssumption` (32 = 24 + 8 in
the code), without which a head size would not be a shift by a three-bit number.

Model-checked only: liveness and termination (`ScanEnds`, `CallsReturn`, `Finishes`),
which are out of the provers' reach; the rules of validation (`ValidExact`), whose
reference goes over all the items inside an item and is a RECURSIVE operator; and what
the tools and the printers show, whose walks are RECURSIVE operators too.  About these
nothing can be proved.

## Findings

1. `_cbor_value_dup_string` walks its string twice from the same cursor; over
   callbacks the second walk starts where the first stopped and fails, which the
   comment at `parser.rs:1338` says cannot happen (and `using/parsing.md:109` that a
   reader makes no difference).  Run `strings_reader`.
2. `validate_container` takes `it.source` for the address of a key; over callbacks it
   is the token, so every map of two keys fails `CborValidateMapKeysAreUnique`
   (`validation.rs:337`).  Run `validation_reader`.
3. The metadata of a tagged map value names the last tag the conversion met, which
   may be one inside the value (`cbordump/src/json.rs:358`, and the library's
   `tojson.rs:343`); `using/tools.md:33` and `:57` call the round trip exact and
   lossless.  Run `tools_lossless`.
4. On a terminal `cbordump` holds back a line without its end (`main.rs:183`), so that the
   text decoded before a failure comes after the diagnostic; `using/tools.md:38` says
   that it "has already been printed", and the transcript below it (`:41` to `:44`)
   shows it first.  `ScreenExact` fixes the order of the code, which the comment at
   `Stdout` in `main.rs` calls part of what the tool prints.  Run `tools_screen`.

Seen on the way and not run.

*Encoder.*  With a NULL token `cbor_encoder_close_container` returns out-of-memory
though nothing overran (`encoder.rs:399`); a string whose head fits and whose payload
does not leaves its head, where `encoding.md:56` promises no half-written item
(`encoder.rs:273`); `encoding.md:33` says out-of-memory is returned by every call after
an overrun, but a close with a wrong item count and a refused simple value answer for
themselves; `encoding.md:77` says close trusts the caller, but it counts;
`encoding.md:88` says a writer stops the encoder with any error, but after an
out-of-memory head the payload is still handed over; a map announced with 2^63 entries
or more wraps its item count (`encoder.rs:353`).

*Parser.*  The contract of `scan_subtree` (`parser.rs:236`) lists indefinite lengths
among what it hands back; the code scans them.  Validation allows one level of nesting
less than advance and counts tags as levels.  `cbor_value_reparse` decodes with
`preparse_value`, so a break that arrives late, at a place where it would have
ended the container, is refused (`parser.rs:987`); the variant that looks for a break
would in turn accept one right after a tag, as by then the cursor has forgotten the tag.

*Validation over callbacks.*  Two further rules fail like that of finding 2, and the
properties leave out what they touch.  `validate_value` judges the head of a chunk after
`_cbor_value_get_string_chunk` (`validation.rs:437`), whose `transfer_string` has moved
the callbacks past the chunk (`parser.rs:525`): with shortest integrals asked for, a
well-formed string that ends the input is refused with an end of input, another for
the item after it, and an overlong head of a chunk is let pass, where the comment at
`validation.rs:191` says that "the cursor is on a chunk head".  `validate_container` skips
the tags of a key on a copy of the cursor (`validation.rs:342`), which over callbacks
moves the position of the cursor itself: when keys must be texts, a tagged text is
validated from the middle of it.  The model does as the code in both cases.

*Tools.*  Of tags nested in one another the JSON keeps one, and metadata is attached to
map values only; integers beyond 32 bits come back as doubles, a negative zero loses its
sign and a NaN its payload; a NUL ends a text; a key that is not a text stays a text; a
key that ends in `$cbor` is taken for metadata, an empty key included (`encode.rs:186`).
`encode.rs:430` says a short base64 group gives fewer bytes; it gives three.
`encode.rs:4` says CBOR is never longer than its JSON, which `1e5` refutes; the doubles
alone make the buffer grow.  `simple(24)` from hand-written metadata is written as two
bytes no parser takes (`encode.rs:72`); `OneItemOut` exempts it.  `using/tools.md:43`
says the exit code is the error's number; it is 1.  At the recursion limit the library
and `cbordump` differ in a tagged key (`KeyAtLimit`).  `cbordump` prints nests of 1024
levels, `json2cbor` reads 1000.

## Plan

Done, in this order: `Encoder` with its proofs; `Cursor`, `FastScan`, `Advance`,
`Navigation` and `Grammar`; the proofs of the scan; `Strings`; `Validation`;
`HalfFloat`, `Text` and the printers of both the library and `cbordump`; `JsonParse`,
`JsonEncoder` and the two programs; `Accessors`; `Arrival`; the proofs of the cursor
lemmas, of `TypeOK` of navigation, strings and validation, of the encoder over a writer
and of late input; `Grammar` as a recursive function, the lemmas on it and the
scan's contract; navigation's contract; the contract of strings; that of validation.
Left: that `json2cbor`'s buffer never holds more than its limit.

## Not modelled

Number formatting (`fmt.rs`), error strings, escapes other than of a quotation mark or a
backslash in JSON strings (`json.rs:268`, a pure function), the C headers, tests,
fuzzers and benchmarks: they hold no protocol or state beyond what is modelled.
Callbacks that lie about their bytes, buffers that change while they are read and
allocation failures (other than dup's) are outside the contract of the code.  The
indicator of a number's width in JSON (`-n`) only swaps a suffix.
