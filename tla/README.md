# Verification of flvmeta

flvmeta reads, checks, dumps and updates Flash Video (FLV) files. This directory
holds TLA+ models of its core logic, the TLC configurations that check them, and
theorems about them proved with TLAPS. `PROJECT.json` lists the components, the
runs, the source lines each definition stands for, the mutants every property is
tested with, the disagreements found and the hazards.

To repeat a check: `tlc -config FlvUpdate_any.cfg MCFlvUpdate`;
to repeat a proof: `tlapm FlvUpdateProofs.tla`.

## 1. The system

flvmeta is a sequential command line program: one process, no threads. The parser
of a dump calls back the dumpers, which themselves call the stream. What is hard about it is

- **state that outlives a call**: the read cursor of a stream and what it
  believes the next bytes are, the counters of wrapped timestamps, the linked
  lists of AMF values;
- **predictions made before their subject exists**: the new onMetaData, at the
  start of the output, announces the size of the output and the position of
  every keyframe in it;
- **two passes that must agree**: the second reads the input again, with clocks
  and decisions of its own;
- **input that ends or lies at any byte**: truncated tags, lengths that
  contradict each other, metadata that runs beyond its tag;
- **failing writes and a process that may be stopped** while the original is
  being replaced;
- **documents printed piece by piece**: an element is opened before it is known
  whether its content can be read, and the YAML emitter chooses how a string is
  written from flags computed while it is scanned;
- **sizes counted apart from the bytes**: `amf_data_size` is subtracted from body
  lengths but is computed from the value, not from what was read.

### Components

| Component | State it keeps | Operations | What makes it correct |
|---|---|---|---|
| FLV stream (`flv.c`) | cursor, end indicator, what comes next, current tag and its offset, bytes of its body left, overflow of the last metadata | open, read header / tag / previous size / audio / video / metadata / body, reset, close | after any order of calls it is still at the boundary of a tag; tags come in order |
| First pass (`info.c`, `get_flv_info`) | sums of sizes, clocks, keyframe lists, the first onMetaData | one step per tag | sums add up to the file; one keyframe entry per keyframe |
| Metadata computation (`info.c`, `compute_metadata`) | the new onMetaData | one step | the announced sizes and positions are those of the output |
| Second pass (`update.c`, `write_flv`) | clocks, offset of the output, whether onLastSecond is written | header, replaced onMetaData, one step per tag | nothing lost, output well formed, same timestamps as the first pass |
| In-place update (`update.c`, `update_metadata`) | a temporary file, the output file, the result of the second pass | open, write, copy back, close | the original survives until the second pass is over; the errors looked at are reported |
| Check (`check.c`) | message counts, last timestamps and formats, unknown-tag run, first onMetaData | header, one step per tag, whole-file checks, metadata checks | what it reports is true and what it does not report is absent; counts are right |
| AMF arrays and objects (`amf.c`) | doubly linked lists of values, names alternating with values | push, pop, insert, delete; add, get, set | linked both ways, names and values alternate, the merge of `--preserve` keeps what it must |
| AMF codec (`amf.c`) | none | read, write, size | no more bytes counted than consumed; what is written reads back |
| Parser (`flv.c`, `flv_parse`) | the tag it is at | one callback per tag, field of the file and end | every tag shown, once and in order; it ends |
| Dump (`dump.c`, `dump_*.c`) | what has been printed, whether a tag stopped the dump | one handler per event and format | what is printed is the start of a document, and the whole of one after a success |
| JSON emitter (`json.c`) | whether a comma is due | keys, scalars, begins and ends | the text reads back |
| YAML emitter (`libyaml/emitter.c`) | a queue of events, a stack of states and indents, the column, what the last character was | one event at a time | the text reads back as the values dumped, for every string at every level |
| AVC and bit stream (`avc.c`, `bitstream.c`) | a bit cursor | read bits, Exp-Golomb, sequence parameter set | the size of the picture |
| getopt (`compat/getopt.c`) | the permuted argv, the segment to exchange, the rest of a cluster | one call per option | options in the order given, files left in theirs |
| Command line (`flvmeta.c`) | the options, the trees of AMF data | one step per option, then the command | the command chosen, exit status, every tree freed once |
| Numbers and utilities (`types.c`, `util.c`) | none | byte order, dates, file identity | pure |
| Reading YAML (`libyaml/scanner.c`, `parser.c`, `reader.c`, `loader.c`) | | never called by flvmeta | |

### How they interact

```
 flvmeta.c <--> getopt
    |
    +--> dump.c ----> flv_parse ---> handlers of dump_xml / json / yaml / raw
    |                     |              |             |         |
    |                     v              v           json.c   libyaml/emitter.c
    +--> check.c ----> flv.c (stream) <--+
    |      |            |    ^
    |      |            |    +------------ info.c (first pass) ---> avc.c
    |      +-> info.c   |    |                 |
    |                   v    |                 v  (offsets, sums, clocks)
    |            amf.c (read)+------------ update.c (second pass) --> temporary file
    |                                          |                          |
    +--> update.c                        amf.c (objects, write)           v
                                                                    original file
```

All calls are synchronous. The components share no memory but the records passed
down (`flv_info`, `flv_metadata`, `flvmeta_opts`, `flv_stream`).
`update` opens the input once, runs the first pass, rewinds the stream and runs
the second. `check` runs its own pass, rewinds, and runs `get_flv_info` when there
is an onMetaData to compare with. `dump` runs `flv_parse` once; the callbacks for
AAC and AVC tags read on in the body the parser has begun, so both move the same
cursor. The metadata of `--add` are parsed by the command line and belong to the
options until `compute_metadata` takes them over.

## 2. What is modelled

### FlvStream — the stream

State: `file`, `pos`, `eof` (the C end indicator), `state`, `tagOffset`,
`tagLength`, `bodyLength`, `overflow`, `result`; they are the fields of
`flv_stream` and the position and end indicator of its `FILE`. One action per
function. The bytes of a file are replaced by what the stream would decode at each
offset, *including offsets that are no boundary*, so a lost cursor still reads
something. `tags` are the offsets that follow from the lengths: the end of the header and,
with each tag that fits, the place behind it; `IsFile` says that there are no others.
An AMF element has the bytes it consumes (`used`) and its
`amf_data_size` (`size`); when the two differ, the code's bookkeeping differs from
the cursor, which is what the invariants are about.

### FlvUpdate — the two passes

State: the accumulators of `flv_info`, the clocks, the metadata computed, and the
output as a sequence of entries with offset, announced length, bytes written and
timestamp. Actions: `ReadHeader`, one `Scan*` per tag type, `Compute`,
`WriteHeader`, `ReplaceMetaData`, `CopyTag`, `EndOfCopy`, `WriteFails`. The module
starts from tags in order with their offsets; that this is what a stream yields is
theorem `Boundaries` of FlvStreamProofs. It is for files whose metadata fits its
tags (`MetadataFits`); on other files the stream itself loses the tags (section 5).
A write that fails and is looked at is `WriteFails`, which leaves out of `out` and
`outSize` what the output holds of the tag being written; the writes of the cut off tag
that `--ignore` copies are not looked at, and `CopyTag` may then end well without it.
Timestamps are integers; the one place where
floating point matters (`(t / 1000.0) * 1000`) is the constant `RoundsDown`.

### FlvInPlace — replacing the original

State: both files as bytes accepted by stdio and bytes stored, the step of
`update_metadata`, how much of the output `write_flv` has handed to stdio (`tried`),
the cursor of the copy, and a history of the failures. `Crash` is enabled in every step.
What the second pass writes is `output`: how many bytes, how many of them by calls whose
results are looked at, and what it returns behind them. A pass hands at least the header
(`StartSize`) to stdio before it may return an end of file, since `EndOfWrite` comes when
all is tried. `failures` separates three kinds: "WRITE", a write that is looked at and
ends the pass (`WriteFails`) or the copy; "UNCHECKED", a write of the cut off tag that
`--ignore` copies, which the program is told of and does not look at
(`WriteFailsUnnoticed`, update.c:223-230), after which the pass goes on and returns OK;
and "LATE", bytes that stdio accepted and did not store, which only an ignored `fclose`
or `fseek` reports.

### FlvDump — the dump, over the stream

FlvDump EXTENDS FlvStream: every action of the dump is one call on the stream
(an action of FlvStream) together with what is printed before the next one, so the
order of calls the stream expects is checked by the absence of a deadlock. State
of its own: the `request` (format, full or metadata dump, event), `pc` in
`flv_parse`, `status`, the tags `visited`, the metadata `events` shown, and `given`,
the parts printed. What is printed is computed from `given`:

- **DumpTokens** turns a part into the tokens each format prints (`dump_xml.c`,
  `dump_json.c`, `dump_yaml.c`), AMF values by recursion;
- **YamlScalars** is libyaml's analysis of a string, the choice of its style and
  the writers of plain, single and double quoted scalars; **YamlEmitter** its queue
  of events, stack of states, indents and simple keys;
- **DumpPrinters** runs the tokens through `json.c`, XML or the YAML emitter and holds
  the readers of JSON and XML; **YamlReader** is a reader of YAML written from
  the rules of the format (columns, folding, quotes). The readers are references, not
  translations of code, and are not in `map`;
- **TokenFold** is the fold they share.

A character is kept where the emitter tells it apart from others; every other word
is one short text.

### Getopt and CommandLine

Getopt is one call of `getopt_long`: `nextchar`, the bounds of the segment to
exchange, the exchange by halves in place, `--`, clusters, abbreviated and
ambiguous long names, values joined and apart. The exchange (`SwapShorter`, `Exchanged`)
is the loop of the code: it swaps the shorter segment into its place, element by element,
and goes on with what is left. `Meaning` is the reference: the command line read
from left to right without moving anything, each element giving options or an operand.
CommandLine is the loop of
`parse_command_line` with one action per kind of option, what is decided after it
(files, default command, version and help), `main`, and what the chosen command
does with the trees of AMF data: `heap` says of each whether it is unused, live, freed
or misused, `info` which of them `flv_info` points to. How an update goes on and where it
fails is a choice at each of its exits. What options mean (`Means`) is said of the
options returned, by letter: the last one of `Said` decides, flags and `--add` collect,
`Otherwise` there is the default.

### AmfCodec, AvcSps and FlvBodies

AmfCodec has `amf_data_read`, `amf_data_size` and `amf_data_write` over bytes, the
widths of lengths and numbers as constants; AvcSps the bit buffer, the Exp-Golomb
codes and `parse_sps` over bits in unsigned arithmetic modulo `Word`. The functions of
`amf.c` that call each other are recursive functions: `Reading(b)` of places (what is read,
where, how many more elements), `Size` and `Write` of values. `Values` are nested up to
`MaxDepth`, which is no bound on what is read as long as no input is longer
(`InputsAssumption`): each level takes a byte at least. FlvBodies composes
them to what the program does with a body: read it, write what was read, read that
again; or take the size of its picture.

### FlvCheck — the check

State: the counters and flags of `check_flv_file`, and the report as a sequence of
(level, code, tag). Actions: opening, header, one tag, a fatal tag (`AbortTag`),
end of the tags, whole-file checks, metadata checks, global checks, the end. A
message exists only if its level is asked for, and is counted as `report_print_message` does.
`CheckTag` appends the messages of a tag in their order; a fatal one ends the run
(the `goto end`). Metadata values are numbers of the units of the model.

### AmfObject and AmfSequence — lists, objects, and `--preserve`

AmfObject models the nodes and links of `amf_list` and every operation on them,
with node allocations that may fail at any time; objects as lists of names and
values; and the loop of `compute_metadata` that merges the original onMetaData
into the new one; `OriginalItems(n)` are the names and values of its first `n` pairs.
AmfSequence is what the module promises: sequences of values,
objects to which whole pairs are added or nothing at all. The property
`ArraysAndObjects` is the refinement `Promise!Spec` with
`items <- Items(list)`, the data met when the list is walked from its first node.
Names are sequences of letters because the code compares a stored name with
`strncmp` over its own length: a name that begins with a stored one matches it.

## 3. Runs

| Run | Question | Result |
|---|---|---|
| `stream_any` | any order of legal calls on any small file | the stream invariant, boundaries and body accounts when metadata fits; tags always advance |
| `update_any` | every option on every short file | sizes, positions, copies, clocks, onLastSecond, error policy |
| `in_place_any` | every failure at every step, and a stop at every step | original intact until the second pass is over; success means a complete output, or all but a cut off tag whose failing write nobody looked at |
| `check_any` | every small file, level and quiet flag | seven properties of the report |
| `amf_any` | every operation sequence and every merge | lists linked both ways, refinement of sequences, merge right |
| `dump_any` | every request on files whole, cut off and unsound | what is printed reads back, in JSON, XML and YAML; all tags and all metadata asked for are shown, in order; the dump ends |
| `options_any` | every short command line, and every end of its command | the options returned are those given; they mean what they say; every tree is freed once |
| `bodies_any` | every short body and every small picture | no more counted than consumed; what is written reads back; the size of the picture |
| `in_place_block_multiple` | is a reported write error real? | **violation**: an output that fills its last copy block is copied whole, and a write error returned |
| `amf_null_preserved` | does `--preserve` keep the values? | **violation** after a null or undefined value |
| `options_xml_format` | is `--dump-format=xml` accepted? | **violation**: it is set, then refused |
| `bodies_interlaced` | is the size of a cropped interlaced picture right? | **violation**: the cropping is doubled twice |

### Bounds, and why they are enough

- **Stream**: files of at most two tags out of eleven kinds of bodies, whole or
  cut off at five places; buffers of one and four bytes. The stream remembers
  nothing of a tag once it is at the next one except `overflow` and `tagOffset`,
  so two tags show every carry-over, and rewinds and reorderings of the calls are
  unbounded. Sizes are those of the format (9, 11, 4).
- **Update**: every sequence of up to two tags out of 13 kinds, at most one of
  them followed by one of four cut off tags; five longer files for keyframes on both sides of
  the last second, late starts and wrapped timestamps; all 24 combinations of
  options. `ExtCount` is 4 instead of 256 so that timestamps fit the integers of
  TLC and the wrap of the counter itself is reached; the proofs have it at any
  value. `MetaSizes` has one size: only differences to it matter.
- **In place**: outputs of two to nine bytes, the first two of which are always
  written; all bytes looked at or any number of the last ones not; blocks of four:
  shorter than a block, exact multiples, and in between; every length of what is
  accepted and stored. The violation run has one output, of eight bytes.
- **Check**: every file of up to three tags out of twelve kinds, of up to two out
  of 25, and the fatal ones after any other; a second is two units and a
  timestamp wraps at 16, so that desynchronizations, decreases and wraps all
  happen. The state the check carries from tag to tag refers to the last tag of a
  medium, or to the last tag: three tags separate the two.
- **AMF**: five nodes, two values, three names with one the beginning of another,
  originals of two pairs: two whole pairs and an allocation that fails for want of
  memory as well as by choice. Which free node an allocation returns is
  immaterial, as nodes are only compared with one another.
- **Dump**: every pair of 18 kinds of tags (bodies that are empty, too short for their
  packet fields or whole; extended headers; metadata that is sound, misnamed, only a
  name, or runs beyond its tag), each kind alone and each pair of metadata also cut off
  in its last field and at its body; buffers of 1, 3 and 4 bytes. Full dumps and metadata
  dumps, with and without an event, are asked of each in every format. One further file
  holds the strings, for YAML: all those of up to three characters over twelve classes and
  of up to five over three of them (a letter, a space and a line break), as names, values
  and items at three levels. The lines are 5 columns wide, keys longer than 3 are complex
  and the indent is 2, so that folding, complex keys and nesting all happen on such
  strings. `MaxDepth` bounds the type of values only.
- **Command line**: all lines of up to three of 14 shapes of elements, of four and six
  of the shapes that are permuted, and pairs of 20 settings with and without a
  file; permuting and `POSIXLY_CORRECT`. Two exchanges in a row of segments of
  different length take five elements.
- **Bodies**: all strings of up to four bytes over the ten that decide something, of
  up to six over five of them, and every beginning of a written value of up to two
  levels and two items; one array of eight pairs, whose doubled count is `Base` - 1, the
  last that fits one byte. A byte has 17 values, the type codes up to 16; lengths
  are one byte and counts two, so a doubled count may leave its first byte. Pictures of
  1 or 20 by 1 or 6 macroblocks, in frames and fields, cropped and not, with every profile form, order of pictures and kind of
  scaling list, cut off at each byte.

`CHECK_DEADLOCK FALSE` is said for the stream, the update, the replacement, the
check and AMF objects, whose commands end (the merge, for AmfObject). The dump, the
command line and the bodies end in a step that stutters, so that a deadlock there
means a call the next component does not expect, and is checked.

**Fairness** is assumed of the dump only: `WF_allVars(DumpNext)`, that is, the one thread of
the program runs as long as it has something to do. It justifies `Terminates`, which is
not evident: the loop of `flv_parse` ends only when a tag cannot be read, and the
stream moves backwards on unsound metadata. Elsewhere the corresponding fact is a
safety property: `TagsAdvance`, that the loops on `flv_read_tag` cannot visit a tag
twice, which is proved.

**Mutants**: each property of each passing run has an operator that repeats one
definition with a plausible mistake in it ("Mutated: ..." in the modules); the
property fails when it replaces the original.

## 4. Theorems

All proofs are checked by tlapm without omissions. Assumptions are only the named
ones on the constants (sizes are positive naturals, a file is a well formed
description of one, and so on).

- **FlvStreamProofs.** `StreamInvariant`, `StreamTypes`, `TagsOrdered` hold of
  *every* file and every order of calls. The invariant `StreamInv` adds to the types
  that the cursor is ahead of the start of the current tag, and that an overflow
  does not survive into the next body: without the second, the cursor may be moved
  back by an old overflow and nothing can be said of the next tag. `Boundaries` adds,
  for files whose metadata fits, that cursor and body length agree (`BoundaryPart`),
  which is inductive only together with what each *failed* call leaves behind.
  `BoundariesKept` also says that the body left is exactly the distance to the end of
  the tag.

- **FlvUpdateProofs.** `UpdateInvariant`, from which all nine properties of the run
  follow for every file, option, counter width and metadata size. Its parts:

  | Part | Says | Needed for |
  |---|---|---|
  | `AccountInv` | the sums of the first pass are the offset of the next tag; no body is larger than the copy buffer | `FilesizeExact`, `NothingLost` |
  | `ReplacedInv` | the onMetaData to replace is a tag of the input, already seen | all of the second pass |
  | `ClockInv`, `FirstInv` | both clocks follow the definition `Prior` by the tags; what is rebased, and from when | `TimesAgree`, `LastSecondPlaced`, `FilepositionsExact` |
  | `SizeInv`, `PlacedInv`, `CopiesInv` | the size of the output is the offset in the input plus replacement and insertion | `FilesizeExact` |
  | `ErrorsInv` | what each pass has let pass when errors end it | `ErrorsStop` |
  | `NotedInv` | keyframes are tags seen; the sum of the metadata that stay | `DatasizeExact`, `FilepositionsExact` |
  | `WrittenInv` | the tags written are chained, hold what they announce, and are those of the input up to the next one, shifted, with onLastSecond before the first late one | `WellFormed`, `NothingLost`, `LastSecondPlaced`, `DatasizeExact`, `FilepositionsExact` |

  Prediction and output meet because each differs from the input by the same terms,
  replacement and insertion. For the size it is enough to know that the insertion
  happens; for the positions, where: a keyframe is behind onLastSecond in the output just
  if the first pass thought so, and this takes the conditions `InOrder`, `Unrounded`,
  `MetaDataFirst` of section 5. `WellFormed` has the condition that the new onMetaData is
  shorter than 2^24, without which its length does not fit its field: TLC does not
  reach it, the proof asked for it. It holds of files that are cut off too: the one tag
  of the output that is shorter than announced is the last, with `--ignore` (`CutCopy`). Sums over tags are a recursive function (`Total`),
  whose steps are shown by `SetInduction` (below).

- **FlvCheckProofs.** `CheckInvariant`, and each of the seven properties of the run, for
  every file, level, and quiet flag. `TotalsInv` keeps the totals equal to the
  cardinality of the errors and warnings printed; `FatalInv` says in which step a fatal
  message may be there, and that it is the last; `SeenInv` gives each variable that is
  carried from tag to tag its meaning in terms of all tags read (`last` is the time of the
  last tag of a medium, `prevOf` the last one with a body, `desync` that some tag was
  apart); with `AboutInv`, that nothing is reported of a tag before it is read, the
  properties of single messages are themselves inductive. `IndexInv` carries what has been
  compared of the index of keyframes to the end of the check, for `KeyframesTrusted`.
  One step per action, and for `CheckTag` one lemma per list of messages says
  which codes it can hold. The lemma for audio bodies failed at first: two cases of
  the model overlapped for an empty one, and `CASE` left open which was taken.

- **FlvDumpProofs.** `DumpUsesStream`: every step of a dump is a step of FlvStream or
  leaves the stream alone, action by action, so `DumpSpec` implies `Spec` of the
  stream. Hence `DumpKeepsStream`, the invariant of the stream during every dump, and,
  with an invariant that bounds the tags shown by the tag the stream is at
  (`VisitedInv`), `TagsShownInOrder`: no dump of any file shows a tag twice or out of order.
  For files whose metadata fits, `EveryTagIsDumped` and `AskedEventsAreDumped`: a
  dump that ends well has shown every tag, or the events asked for. The invariant
  (`DumpInv`) says where the stream is at each step of `flv_parse`, and that the tags seen are those
  before the next one (`AllBefore`). That there is no tag between two that follow each
  other is not a fact of the stream but of the file, and needs that every tag of it is
  reached from the one before: `IsFile` had only said that what is reached is a tag, and
  was completed.
  What is printed: `XmlIsWellFormed` and `JsonIsReadBack`, for dumps of all files, with all
  requests and values of any depth. That values have a printed form and a text at all is
  recursion over their levels (`ValueRecursion`). A reader carried over tokens is a fold,
  hence a function of how many were read (`Run`; `XmlReadIsRun`, `JsonReadIsRun`,
  `JsonWrittenIsRun`, `JoinedIsRun`), and `Moves` says that a sequence of tokens takes the
  reader from one state to another wherever in a document it stands, so pieces of documents
  compose. A value is one element (`ValuesAreElements`) and is read as itself wherever a
  value may stand (`ValuesAreRead`), by induction over values. Over the steps of a dump,
  `Place` gives the state the reader must be in at each `pc`, and each callback moves it
  from one place to the next (`ReaderStep`). With JSON the state is that of emitter and
  reader together, since the text is what the emitter made of the calls (`JsonIsSoFar`): the
  emitter's comma is pending just where the reader needs one (`JsonBeforeValue`,
  `JsonBeforeName`).

- **FlvInPlaceProofs.** `InPlaceInvariant`, then `OriginalIntact` and
  `SuccessIsComplete`, for every output, with any part of it written unlooked at, and
  every block size. The invariant states what each step may rely on: who has been
  truncated, what the second pass has handed to stdio and what was accepted of it
  (`Accepted`: all, or what comes before the cut off tag once one of its writes has
  failed), that bytes copied equal the cursor.

- **AmfObjectProofs.** `AmfTypes` and `AmfLinked`, for any number of nodes, names and
  values, under `~InsertAtEnds` (no caller inserts at an end). The invariant `Good` says
  that there is an injective sequence of nodes, the chain, that the `next` and `prev`
  links follow; each list operation has a lemma that gives the chain of its result
  (`PushChain`, `DeleteChain`, `InsertChain`). `Linked` is about what a walk from the
  first node visits, a recursive function: `WalkFact` shows by induction that it
  visits the chain.
  `AmfImplements`: the lists implement `AmfSequence`, under
  `~InsertAtEnds` and `Unclonable = {}`; the run `amf_null_preserved` shows what happens
  without the second assumption. Each operation on the chain is shown to be the
  operation of the community modules on the items (`GrownItems`, `DeleteItems`,
  `SetItems`), and an addition to add both items or none (`AddItems`). The steps can
  be mapped only because objects hold whole pairs, which is proved along with them
  (`ObjectsHoldPairs`): otherwise the item after the first match may not exist, or a
  value may be taken for a name.
  `MergesRight` and `OriginalPreserved` are about `--preserve`, under the same
  assumptions, for originals of any length and any names. `MergeInv` says that a search in
  the merged list finds exactly what it would find in what was computed followed by all
  pairs of the original visited so far, though the list holds only those not found
  before (`SameFound`); and that no name added is hidden by another.

- **CommandLineProofs.** For every command line, both orderings and any table of long
  options without duplicates:
  `OptionsComeInOrder`: getopt_long, which permutes `argv` while it scans it, returns
  the options and leaves the operands that the command line means when it is read from
  left to right. The invariant (`ScanInv`) is that what was returned, what has been skipped
  and what the rest would give (`ToRead`, from within a cluster too) make up `Meaning`.
  It needs that the exchange by halves is a rotation: each swap puts a segment in place and
  leaves a shorter problem (`RotatedAt`), by induction over what is left.
  `CommandIsMeant`: the command that is run and its options are those meant. Between
  the return of an option and its case the options lag one behind what was taken, so
  `MeantInv` speaks of all but the last.
  `MemoryIsSound`: no tree is freed twice, used after it is freed, or left behind
  (`MemoryInv` says, for each step of `main` and `update_metadata`, which trees are live).

- **FlvBodiesProofs.** `SizesAreBounded` and `ValuesReadBack`, for every set of inputs and
  all widths of numbers. The invariant of the specification (`BodyInv`) only says that each
  stage holds what reading and writing made; what there is to prove is about the
  functions of `amf.c` themselves.
  `Reading` is a function of places that calls itself at places further behind only
  (`BodyLocal`), so it exists (`ReadingIs`), and what holds of every place when it holds of
  those behind it holds of all (`BackwardInduction`). In this way `Sound`: what is read at a
  place is a value of as many levels as there are bytes left, and counts no more than was
  taken, or one more where an empty name let an associative array end with the file; the one
  is not added up over nested arrays since nothing can follow the end (`SoundPrepended`).
  `Size` and `Write` exist since a value is determined by its items (`ValueRecursion`), and
  agree by induction over values (`WriteLength`); `PairCountRight` shows that halving the
  count after its bytes have been swapped is right up to one byte. `ReadBack`, again
  backwards: everything read of any bytes, when written *anywhere in other bytes*, is read
  back by as many bytes (`Back`). It needs that names and counts read are no longer than
  their fields hold (`NumberFits`), that `strlen` of a name is its own (`CStringFact`), and
  that no name of an associative array has become empty.

Induction is done without the library theorems that take a predicate: `SetInduction`
takes the set of the naturals that have the property, and follows from the least
element of its complement (`WFMin`).

Only model-checked:

- `YamlReadsBack`: libyaml's emitter analyses, quotes and folds scalars, and the reader
  takes them apart, character by character and with each other's indentation; the other
  formats could be proved token by token, this one is text to the last;
- `Terminates`, since liveness under fairness is out of the prover's reach;
- `ResolutionMeant`: what `parse_sps` should find is known of the pictures of the run only,
  bit by bit; there is no encoder in the code it could be the inverse of.

## 5. Disagreements between the code and what is said of it

The violation runs, with the lines quoted in `PROJECT.json`:

1. `--dump-format=xml` sets the format and then falls into a chain of comparisons that
   does not know "xml", so the value the help calls the default is refused
   (flvmeta.c:232).
2. The cropping of an interlaced picture is doubled with its edges and again with the
   height, so 1920x1080 in fields gives 1920x1072 (avc.c:175).
3. The copy back of an output whose size is a multiple of the copy block ends with an
   empty read, because a block that fills the buffer does not set the end indicator.
   The branch for `bytes_read` = 0 takes that for a failure and returns a write error
   after a complete copy, without any write having failed (update.c:339-344).
4. `--preserve` and a null, undefined or otherwise unclonable value: the name is
   added, the NULL clone is mistaken for a failure, the wrong node is popped, and
   all later names and values exchange their places (amf.c:957, info.c:667).

Others were met with TLC while the models were written, or read in the code, and
have no run; the condition a property has because of one is named.

Stream and update:

- A metadata tag that is only a name makes `flv_read_metadata` clear the body
  length *before* computing the overflow from it, and seek back by the whole name
  (flv.c:290). `BoundariesKept` has the condition `MetadataFits`.
- The announced `filesize` counts an onLastSecond that is never written when the
  last tag of the input is the onMetaData that is replaced, since it is inserted
  before a tag that is copied (info.c:709, update.c:173). Condition `LastTagCopied`.
- Keyframe positions are shifted by onLastSecond according to timestamps, while
  onLastSecond is placed before the first tag of the last second *in the file*
  (info.c:692 against update.c:173). Condition `InOrder`.
- The original is overwritten by the partial output of a failed second pass
  (update.c:307-316). `InputIntact` speaks of the time until the second pass is over.
- With `--ignore`, the three writes of a tag that is cut off are not looked at
  (update.c:223-230): when one fails, the update returns OK, and in place the original
  is overwritten by what lacks that tag, while the manual has an exit code for such
  errors (man/flvmeta.1.md:297). `InputIntact` and `CompleteOnSuccess` then only claim
  what comes before the tag ("UNCHECKED"), and `CopyTag` of FlvUpdate leaves it out.
- The body of a video tag too short for its extended header is reported as an
  end of file (flv.c:239), and so by check as "unexpected end of file in tag".
- Keyframes that precede a late onMetaData get positions shifted as if it came first
  (info.c:684). `FilepositionsExact` has the condition `MetaDataFirst`.
- A keyframe exactly one second before the end is placed after onLastSecond by one
  pass and before it by the other when its time rounds down, the first such time
  being 1001 ms (info.c:692). Condition `Unrounded`.
- `--ignore` copies tags of unknown types through a buffer sized by the known ones
  and cuts them (update.c:203).
- `--reset-timestamps` subtracts the first timestamp from earlier ones, which wrap
  (update.c:148).
- Metadata names are compared over the length found in the file: the name "on"
  matches onMetaData, and the empty name everything (info.c:371).
- A name of the original onMetaData that begins with a computed one, or with an
  earlier original one, is dropped by `--preserve` (amf.c:972, info.c:665), for
  example `duration2`. `PreservedAll` has the condition that names begin with no
  other; `MergeRight` says what happens without it.
- Inserting before the first node or after the last one leaves a link of that node
  unset (amf.c:62-68, 84-90), and `amf_object_delete` compares values as names
  (amf.c:1016). Neither is called. `InsertAtEnds = TRUE` shows the first.
- Custom values are added first, not "appended at the end" (man page, 213-214).
- Failures that only `fclose` or `fseek` report are ignored (update.c:328-351).

Check:

- The flag that tells a decrease has been reported is set by every audio or video
  tag, reported or not, so the test of global decreases only ever looks at other
  tags (check.c:405, 414, 421). `DecreaseReported` is about each medium.
- Empty video tags are counted as frames but not as keyframes, and the other way
  round for the messages "no keyframe" and "only keyframes" (check.c:710-713).
- The difference to the last second wraps when tags are out of order
  (check.c:722).
- Without an onMetaData, the global checks read a `flv_info` that was never filled
  in (check.c:1438). FlvCheck makes it any value.
- An onMetaData whose value is neither an array of pairs nor an object is walked as a
  list all the same (check.c:756): a strict array as names and values in turn, a number,
  a boolean, a string or a date as a list that its bytes are not. `IsTag` of FlvCheck
  leaves these out; null and undefined, whose clone is NULL, have no entries.
- The help says that a check that finds errors returns 10 (flvmeta.c:105-106); the
  program returns 9.

Dump:

- A JSON or XML document stays open after an error, and `yaml_emitter` is given the
  end of a document in a state that does not expect it, so the emitter refuses it.
  `Finished` and `Broken` leave these documents out; what is printed before is checked.
- A video tag whose extended header is cut off ends the whole dump with an end of
  file, whatever follows it.
- An empty string is printed as an empty plain scalar, which a reader takes for null.
  YamlReader compares texts, not the types a reader resolves a plain scalar to.
- A JSON control character is escaped with its decimal number (`\u%.4u`, json.c:52).
  The XML dump does not escape `&` or quotes in names. Escapes are not modelled.
- The YAML dump of metadata leaves the name of the event out.
- With `--event`, each event of the name is a JSON value or XML document of its own.
- The raw dump loses its counter (a leak) after an error.

Command line and memory:

- The metadata of `--add` are not freed when the update fails before
  `compute_metadata`, nor is `original_on_metadata` when `get_flv_info` fails.
  `MemorySound` is about double frees and uses after a free, and about leaks when
  the program succeeds or refuses its command line.
- The manual speaks of `--format`, which does not exist (man page, 209-210).
- The message "only one command" prints `argv[optind]`, which need not be the option.

Bodies:

- The pair count of an associative array is halved *after* its bytes have been
  swapped (amf.c:620), which is right on a little-endian host as long as the doubled
  count fits a byte: from 128 pairs on it is wrong. Readers, this one included,
  ignore it. `RoundTrip` compares it up to that bound.
- A name of an associative array that begins with a NUL becomes the empty name, and what
  is written then ends the array early. `RoundTrip` has the condition `NamesKept`.
- The size of a parameter set is bounded by an unsigned difference that wraps for
  bodies of 10 or 11 bytes (avc.c:242).
- `parse_sps` does not look at the chroma format, neither for the unit of the
  cropping nor for the 12 scaling lists of 4:4:4.
- A parameter set that is cut off within the cropping gives a size that is too
  large: the codes behind the end read as zero. `ResolutionMeant` asks for at least
  the size then.

## 6. Not modelled, and the plan

| Order | Module | Of | Why there |
|---|---|---|---|
| done | FlvStream, FlvUpdate, FlvInPlace, FlvCheck, AmfObject / AmfSequence | | the core: everything is read, predicted, written and replaced through them |
| done | FlvDump over FlvStream, with DumpTokens, DumpPrinters, YamlEmitter | `flv_parse`, the dumpers, `json.c`, `emitter.c` | documents that read back, the callbacks in the parser's tag |
| done | Getopt / CommandLine | `getopt.c`, `flvmeta.c` | command chosen, ownership of the `--add` values |
| done | AmfCodec / AvcSps / FlvBodies | `amf.c`, `avc.c`, `bitstream.c` | sizes against bytes; the bit cursor |
| done | FlvUpdateProofs, FlvCheckProofs, FlvDumpProofs, AmfObjectProofs, CommandLineProofs, FlvBodiesProofs | | every invariant of the update, the check, the lists, getopt and the command line, of the order, the completeness and the form (XML, JSON) of dumps, and of the bytes of AMF data |
| 1 | FlvRecheck | FlvUpdate's output read by FlvCheck | a file flvmeta has updated is found valid by its own check |
| 2 | the update over the stream | | that the tags FlvUpdate starts from are the ones of FlvStream, as one theorem |

Left out for good: the parts of libyaml that read YAML, which flvmeta never calls, and
its `writer.c`; the options of the emitter flvmeta never sets (anchors, tags,
directives, canonical output, block scalars); the text of messages, dates, floating
point other than the one rounding above, and the contents of numbers. Memory
exhaustion is modelled for list nodes only; elsewhere the code mostly does not look
at it.
