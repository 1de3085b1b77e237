----------------------------- MODULE FlvUpdate -----------------------------
(***************************************************************************)
(* The two passes of "flvmeta --update".  The first one (get_flv_info in   *)
(* info.c) reads the tags and sums up sizes, timestamps and keyframes;     *)
(* compute_metadata predicts from them the size of the output and the      *)
(* places of its keyframes before a byte of it is written; the second pass *)
(* (write_flv in update.c) copies the tags, replaces the first onMetaData  *)
(* and inserts an onLastSecond.  What the predictions say must hold of the *)
(* file the second pass writes.                                            *)
(*                                                                         *)
(* The tags are read through FlvStream: on inputs whose metadata fits its  *)
(* tags, the stream yields them in order, with their offsets and lengths   *)
(* (theorem Boundaries of FlvStreamProofs), which is what this module      *)
(* starts from.  Picture sizes, codecs and rates are left out, except for  *)
(* the room they take in the new metadata (MetaSizes).                     *)
(***************************************************************************)
EXTENDS Integers, Sequences

CONSTANTS
  Inputs,        \* the input files, see IsInput
  Options,       \* the options of the command, see IsOptions
  HeaderSize,    \* FLV_HEADER_SIZE
  TagSize,       \* FLV_TAG_SIZE
  PrevTagSize,   \* sizeof(uint32_be)
  LengthRange,   \* 2^24, the range of the length field of a tag
  MetaSizes,     \* the sizes of the new onMetaData body without its keyframes
  KeyframeSize,  \* what a keyframe adds to that body: a time and a position
  LastBody,      \* the size of the body of the new onLastSecond
  ExtRange,      \* 2^24, the range of a timestamp without its extended byte
  ExtCount,      \* 2^8, the range of the counters of wrapped timestamps
  WrapGap,       \* 0xF00000, a step back larger than this is a wrap
  LastSecond,    \* 1000, the milliseconds that end the file
  RoundsDown     \* the timestamps t such that (t / 1000.0) * 1000 < t

Media == {"META", "AUDIO", "VIDEO"}
TsRange == ExtRange * ExtCount

(***************************************************************************)
(* A tag: its type; the length of its body, and how much of it is there    *)
(* when the file is cut off; its 32 bit timestamp; for video, whether it   *)
(* is a keyframe; for audio and video, whether the codec data the first    *)
(* pass looks at can be read; for metadata, what flv_read_metadata makes   *)
(* of it and its name ("prefix" stands for a name that both "onMetaData"   *)
(* and "onLastSecond" start with, "none" for what is not a string).        *)
(***************************************************************************)
IsTag(tag) ==
  /\ tag.type \in Media \union {"OTHER"}
  /\ tag.body \in 0 .. LengthRange - 1
  /\ tag.there \in 0 .. tag.body
  /\ tag.time \in 0 .. TsRange - 1
  /\ tag.key \in BOOLEAN /\ tag.decodes \in BOOLEAN
  /\ tag.read \in {"OK", "BAD_NAME", "BAD_DATA", "EOF"}
  /\ tag.name \in {"onMetaData", "onLastSecond", "prefix", "other", "none"}
  /\ tag.body = 0 \/ tag.read \in {"BAD_NAME", "EOF"} => tag.name = "none"
  /\ tag.body > 0 /\ tag.there = 0 =>
       IF tag.type = "META" THEN tag.read = "EOF" ELSE ~tag.decodes

(* An input: its tags, where each starts, and where the last one ends.     *)
IsInput(f) ==
  /\ f.isFlv \in BOOLEAN
  /\ f.tags \in Seq({f.tags[k] : k \in DOMAIN f.tags})
  /\ \A k \in DOMAIN f.tags : IsTag(f.tags[k])
  /\ \A k \in DOMAIN f.tags :
       k < Len(f.tags) => f.tags[k].there = f.tags[k].body
  /\ f.pos \in [1 .. Len(f.tags) + 1 -> Nat]
  /\ f.pos[1] = HeaderSize + PrevTagSize
  /\ \A j, k \in 1 .. Len(f.tags) + 1 : j < k => f.pos[j] < f.pos[k]
  /\ \A k \in DOMAIN f.tags :
       f.pos[k + 1] = f.pos[k] + TagSize + f.tags[k].body + PrevTagSize

IsOptions(o) ==
  /\ o.insert \in BOOLEAN         \* opts->insert_onlastsecond
  /\ o.reset \in BOOLEAN          \* opts->reset_timestamps
  /\ o.allKeyframes \in BOOLEAN   \* opts->all_keyframes
  /\ o.onError \in {"EXIT", "FIX", "IGNORE"}

ASSUME UpdateSizes ==
  /\ HeaderSize \in Nat \ {0} /\ TagSize \in Nat \ {0}
  /\ PrevTagSize \in Nat \ {0} /\ LengthRange \in Nat \ {0}
  /\ MetaSizes \subseteq Nat \ {0}
  /\ KeyframeSize \in Nat /\ LastBody \in 0 .. LengthRange - 1
  /\ ExtRange \in Nat \ {0} /\ ExtCount \in Nat \ {0}
  /\ WrapGap \in Nat /\ LastSecond \in Nat /\ RoundsDown \subseteq Nat

ASSUME UpdateInputs ==
  /\ \A f \in Inputs : IsInput(f)
  /\ \A o \in Options : IsOptions(o)

VARIABLES
  input,          \* the input file
  opts,           \* the options
  pc,             \* what the command is doing
  i,              \* the tag flv_read_tag yields next
  result,         \* what update_metadata returns
  prevTagsSize,   \* info->total_prev_tags_size
  videoSize,      \* info->video_data_size
  audioSize,      \* info->audio_data_size
  metaSize,       \* info->meta_data_size
  onMetaSize,     \* info->on_metadata_size
  onMetaOffset,   \* info->on_metadata_offset
  haveLast,       \* info->have_on_last_second
  biggest,        \* info->biggest_tag_body_size
  firstTime,      \* info->first_timestamp
  haveFirst,      \* have_first_timestamp
  lastTime,       \* info->last_timestamp
  keyframes,      \* info->times and filepositions, before they are recomputed
  clock,          \* prev_timestamp_* and timestamp_extended_* of a pass
  seen,           \* history: the time and clock after each tag of pass one
  bodySize,       \* the size of the body of the new onMetaData
  filesize,       \* what the new onMetaData says of the output:
  datasize,
  filepositions,
  inserted,       \* have_on_last_second of write_flv
  out,            \* the tags written
  outSize         \* the bytes written, those of a tag that failed left out

scanVars == <<videoSize, audioSize, metaSize, prevTagsSize, onMetaSize,
              onMetaOffset, haveLast, keyframes>>
infoVars == <<scanVars, biggest, firstTime, haveFirst, lastTime, seen>>
metaVars == <<bodySize, filesize, datasize, filepositions>>
outVars  == <<inserted, out, outSize>>
vars == <<input, opts, pc, i, result, clock, infoVars, metaVars, outVars>>

Tag == input.tags[i]
Offset == input.pos[i]
Reading(phase) == pc = phase /\ i <= Len(input.tags)

Greater(a, b) == IF a < b THEN b ELSE a
Lesser(a, b) == IF a < b THEN a ELSE b

Init ==
  /\ input \in Inputs /\ opts \in Options
  /\ pc = "OPEN" /\ i = 1 /\ result = "OK"
  /\ prevTagsSize = 0 /\ videoSize = 0 /\ audioSize = 0 /\ metaSize = 0
  /\ onMetaSize = 0 /\ onMetaOffset = 0 /\ haveLast = FALSE
  /\ biggest = 0 /\ firstTime = 0 /\ haveFirst = FALSE /\ lastTime = 0
  /\ keyframes = <<>> /\ seen = <<>>
  /\ clock = [type \in Media |-> [prev |-> 0, ext |-> 0]]
  /\ bodySize = 0 /\ filesize = 0 /\ datasize = 0 /\ filepositions = <<>>
  /\ inserted = FALSE /\ out = <<>> /\ outSize = 0

Stop(error) == pc' = "DONE" /\ result' = error /\ UNCHANGED i
Continue == i' = i + 1 /\ UNCHANGED <<pc, result>>

----------------------------------------------------------------------------
(* Timestamps: some writers leave the extended byte out, the timestamps of *)
(* each type of tag then wrap and the wraps are counted.                   *)
Wraps(last, time) == time < last.prev /\ last.prev - time > WrapGap
(* Mutated: the counters do not wrap at 256.                               *)
TickUnbounded(c, tag) ==
  IF tag.type \notin Media THEN c
  ELSE [c EXCEPT ![tag.type] =
          [prev |-> tag.time,
           ext  |-> IF Wraps(@, tag.time) THEN @.ext + 1 ELSE @.ext]]
Tick(c, tag) ==
  IF tag.type \notin Media THEN c
  ELSE [c EXCEPT ![tag.type] =
          [prev |-> tag.time,
           ext  |-> IF Wraps(@, tag.time) THEN (@.ext + 1) % ExtCount ELSE @.ext]]
Recovered(c, tag) ==
  IF tag.type \notin Media THEN tag.time
  ELSE (tag.time + Tick(c, tag)[tag.type].ext * ExtRange) % TsRange
Rebased(time, first) ==
  IF opts.reset /\ time > 0 THEN (time - first) % TsRange ELSE time

(* The first pass rebases with the first timestamp found so far.           *)
First == IF ~haveFirst /\ Tag.type # "META" THEN Recovered(clock, Tag)
         ELSE firstTime
ScanTime == Rebased(Recovered(clock, Tag), First)

ReadHeader ==
  /\ pc = "OPEN"
  /\ \/ input.isFlv /\ pc' = "SCAN" /\ prevTagsSize' = PrevTagSize /\ UNCHANGED result
     \/ ~input.isFlv /\ pc' = "DONE" /\ result' = "ERROR_NO_FLV" /\ UNCHANGED prevTagsSize
  /\ UNCHANGED <<input, opts, i, videoSize, audioSize, metaSize, onMetaSize,
                 onMetaOffset, haveLast, keyframes, biggest, firstTime,
                 haveFirst, lastTime, seen, clock, metaVars, outVars>>

(* What the first pass notes of every tag before it looks at its type.     *)
ScanTag ==
  /\ Reading("SCAN")
  /\ clock' = Tick(clock, Tag)
  /\ firstTime' = First
  /\ haveFirst' = (haveFirst \/ Tag.type # "META")
  /\ biggest' = IF Tag.type \in Media THEN Greater(biggest, Tag.body) ELSE biggest
  /\ lastTime' = IF Tag.type \in Media THEN ScanTime ELSE lastTime
  /\ seen' = Append(seen, [time |-> ScanTime, clock |-> clock'])
  /\ UNCHANGED <<input, opts, metaVars, outVars>>

(* Names are compared by strncmp with the length of the name in the file.  *)
Named(tag, name) == tag.body > 0 /\ tag.name \in {name, "prefix"}

ScanMeta ==
  /\ Reading("SCAN") /\ Tag.type = "META"
  /\ ScanTag
  /\ UNCHANGED <<videoSize, audioSize, keyframes>>
  /\ \/ /\ Tag.body > 0 /\ Tag.read = "EOF"
        /\ Stop("ERROR_EOF")
        /\ UNCHANGED <<metaSize, prevTagsSize, onMetaSize, onMetaOffset, haveLast>>
     \/ /\ Tag.body > 0 /\ Tag.read = "BAD_DATA" /\ opts.onError = "EXIT"
        /\ Stop("ERROR_INVALID_TAG")
        /\ UNCHANGED <<metaSize, prevTagsSize, onMetaSize, onMetaOffset, haveLast>>
     \/ /\ Tag.body > 0 => /\ Tag.read # "EOF"
                           /\ Tag.read = "BAD_DATA" => opts.onError # "EXIT"
        /\ IF onMetaSize = 0 /\ Named(Tag, "onMetaData")
           THEN /\ onMetaSize' = TagSize + Tag.body + PrevTagSize
                /\ onMetaOffset' = Offset
                /\ UNCHANGED <<metaSize, prevTagsSize, haveLast>>
           ELSE /\ metaSize' = metaSize + Tag.body + TagSize
                /\ prevTagsSize' = prevTagsSize + PrevTagSize
                /\ haveLast' = (haveLast \/ Named(Tag, "onLastSecond"))
                /\ UNCHANGED <<onMetaSize, onMetaOffset>>
        /\ Continue

(* A keyframe is listed unless the one listed before has the same time.    *)
Listed == opts.allKeyframes \/ keyframes = <<>>
          \/ keyframes[Len(keyframes)].time # ScanTime

ScanVideo ==
  /\ Reading("SCAN") /\ Tag.type = "VIDEO"
  /\ ScanTag
  /\ UNCHANGED <<audioSize, metaSize, onMetaSize, onMetaOffset, haveLast>>
  /\ \/ /\ Tag.body > 0 /\ ~Tag.decodes
        /\ Stop("ERROR_EOF")
        /\ UNCHANGED <<videoSize, prevTagsSize, keyframes>>
     \/ /\ Tag.body > 0 => Tag.decodes
        /\ keyframes' = IF Tag.body > 0 /\ Tag.key /\ Listed
                        THEN Append(keyframes, [time |-> ScanTime, offset |-> Offset])
                        ELSE keyframes
        /\ videoSize' = videoSize + Tag.body + TagSize
        /\ prevTagsSize' = prevTagsSize + PrevTagSize
        /\ Continue

ScanAudio ==
  /\ Reading("SCAN") /\ Tag.type = "AUDIO"
  /\ ScanTag
  /\ UNCHANGED <<videoSize, metaSize, onMetaSize, onMetaOffset, haveLast, keyframes>>
  /\ \/ /\ Tag.body > 0 /\ ~Tag.decodes
        /\ Stop("ERROR_EOF")
        /\ UNCHANGED <<audioSize, prevTagsSize>>
     \/ /\ Tag.body > 0 => Tag.decodes
        /\ audioSize' = audioSize + Tag.body + TagSize
        /\ prevTagsSize' = prevTagsSize + PrevTagSize
        /\ Continue

(* A tag of an unknown type.  Mutated: the first pass never stops on it.   *)
ScanOtherNeverStops ==
  /\ Reading("SCAN") /\ Tag.type = "OTHER"
  /\ ScanTag
  /\ UNCHANGED <<videoSize, audioSize, metaSize, onMetaSize, onMetaOffset,
                 haveLast, keyframes>>
  /\ prevTagsSize' = prevTagsSize + PrevTagSize
  /\ Continue
ScanOther ==
  /\ Reading("SCAN") /\ Tag.type = "OTHER"
  /\ ScanTag
  /\ UNCHANGED <<videoSize, audioSize, metaSize, onMetaSize, onMetaOffset,
                 haveLast, keyframes>>
  /\ \/ opts.onError = "FIX" /\ Continue /\ UNCHANGED prevTagsSize
     \/ opts.onError = "IGNORE" /\ Continue /\ prevTagsSize' = prevTagsSize + PrevTagSize
     \/ opts.onError = "EXIT" /\ Stop("ERROR_INVALID_TAG") /\ UNCHANGED prevTagsSize

----------------------------------------------------------------------------
(* compute_metadata, once the first pass has met the end of the file.      *)
Room(body) == TagSize + body + PrevTagSize
ToInsert == opts.insert /\ ~haveLast

(* Times are kept in seconds: the comparison is made on what they come to  *)
(* when they are multiplied by 1000 again, in floating point.              *)
PastLastSecond(time) ==
  \/ lastTime - time < LastSecond
  \/ lastTime - time = LastSecond /\ time \notin RoundsDown

(* Mutated: the old onMetaData is not taken off the positions.             *)
NewPositionKeepsOld(kf, body) ==
  kf.offset + Room(body)
  + (IF ToInsert /\ PastLastSecond(kf.time) THEN Room(LastBody) ELSE 0)
NewPosition(kf, body) ==
  kf.offset + Room(body) - onMetaSize
  + (IF ToInsert /\ PastLastSecond(kf.time) THEN Room(LastBody) ELSE 0)

(* Mutated: the inserted onLastSecond is counted as a tag without its body.*)
DataSizeNoLastBody(body) ==
  metaSize + TagSize + body + (IF ToInsert THEN TagSize ELSE 0)
DataSize(body) ==
  metaSize + TagSize + body + (IF ToInsert THEN LastBody + TagSize ELSE 0)

(* Mutated: the inserted onLastSecond is counted without its header and    *)
(* previous tag size.                                                      *)
FileSizeLastBody(body) ==
  HeaderSize + prevTagsSize + videoSize + audioSize + metaSize + Room(body)
  + (IF ToInsert THEN LastBody ELSE 0)
FileSize(body) ==
  HeaderSize + prevTagsSize + videoSize + audioSize + metaSize + Room(body)
  + (IF ToInsert THEN Room(LastBody) ELSE 0)

Compute ==
  /\ pc = "SCAN" /\ i > Len(input.tags)
  /\ \E size \in MetaSizes : bodySize' = size + KeyframeSize * Len(keyframes)
  /\ filepositions' = [k \in DOMAIN keyframes |-> NewPosition(keyframes[k], bodySize')]
  /\ datasize' = DataSize(bodySize')
  /\ filesize' = FileSize(bodySize')
  /\ pc' = "WRITE"
  /\ UNCHANGED <<input, opts, i, result, clock, infoVars, outVars>>

----------------------------------------------------------------------------
(* The second pass.  A tag of the output: what it was made from, where it  *)
(* is, the length its header carries, the bytes of body that follow it,    *)
(* the previous tag size written after them, and its timestamp.            *)
Entry(kind, index, at, length, bytes, time) ==
  [kind |-> kind, index |-> index, at |-> at, length |-> length,
   bytes |-> bytes, prev |-> TagSize + bytes, time |-> time]
NewMetaData(at) ==
  Entry("ON_METADATA", 0, at, bodySize % LengthRange, bodySize, 0)
NewLastSecond(at, time) ==
  Entry("ON_LAST_SECOND", 0, at, LastBody % LengthRange, LastBody, time)

(* The header of the output, and the new onMetaData if there was none.     *)
(* Mutated: the second pass starts with the clock the first one left.      *)
ResetClockKept == clock
ResetClock == [type \in Media |-> [prev |-> 0, ext |-> 0]]
WriteHeader ==
  LET start == HeaderSize + PrevTagSize IN
  /\ pc = "WRITE"
  /\ IF onMetaSize = 0
     THEN out' = <<NewMetaData(start)>> /\ outSize' = start + Room(bodySize)
     ELSE out' = <<>> /\ outSize' = start
  /\ clock' = ResetClock
  /\ i' = 1
  /\ pc' = "COPY"
  /\ UNCHANGED <<input, opts, result, infoVars, metaVars, inserted>>

CopyTime == Rebased(Recovered(clock, Tag), firstTime)

ReplaceMetaData ==
  /\ Reading("COPY") /\ Offset = onMetaOffset
  /\ clock' = Tick(clock, Tag)
  /\ out' = Append(out, NewMetaData(outSize))
  /\ outSize' = outSize + Room(bodySize)
  /\ Continue
  /\ UNCHANGED <<input, opts, infoVars, metaVars, inserted>>

(* The onLastSecond goes before the first tag within the last second; here *)
(* the difference is one of unsigned integers.                             *)
(* Mutated: it is inserted before every tag of the last second.            *)
InsertEach ==
  /\ ToInsert
  /\ (lastTime - CopyTime) % TsRange <= LastSecond
InsertNow ==
  /\ ToInsert /\ ~inserted
  /\ (lastTime - CopyTime) % TsRange <= LastSecond

(* What is copied of a body: no more than the copy buffer holds.           *)
(* Mutated: the buffer is a byte too small.                                *)
ToCopySmall(body) == Lesser(body, Greater(biggest - 1, 0))
ToCopy(body) == Lesser(body, biggest)

(* What precedes the copy of a tag, and the copy itself.                   *)
Preceding ==
  IF InsertNow THEN Append(out, NewLastSecond(outSize, CopyTime)) ELSE out
CopyAt == outSize + (IF InsertNow THEN Room(LastBody) ELSE 0)
Put(bytes) ==
  /\ out' = Append(Preceding, Entry("COPY", i, CopyAt, Tag.body, bytes, CopyTime))
  /\ outSize' = CopyAt + Room(bytes)
(* Mutated: the header of a tag is written before its body is read.        *)
OmitBody == Put(0)
Omit == out' = Preceding /\ outSize' = CopyAt

(* When errors are ignored, the tag that is cut off is written by calls    *)
(* whose results nobody looks at: it is missing when one of them fails,    *)
(* and the pass ends well all the same.                                    *)
CopyTag ==
  LET count == ToCopy(Tag.body)
      read  == Lesser(count, Tag.there)
  IN
  /\ Reading("COPY") /\ Offset # onMetaOffset
  /\ clock' = Tick(clock, Tag)
  /\ inserted' = (inserted \/ InsertNow)
  /\ UNCHANGED <<input, opts, infoVars, metaVars>>
  /\ \/ read = count /\ Put(count) /\ Continue
     \/ /\ read < count
        /\ \/ opts.onError = "EXIT" /\ Omit /\ Stop("ERROR_EOF")
           \/ opts.onError = "FIX" /\ Omit /\ Stop("OK")
           \/ opts.onError = "IGNORE" /\ (Put(read) \/ Omit) /\ Stop("OK")

EndOfCopy ==
  /\ pc = "COPY" /\ i > Len(input.tags)
  /\ Stop("OK")
  /\ UNCHANGED <<input, opts, clock, infoVars, metaVars, outVars>>

(* A write that is looked at fails: one of the headers, of a metadata tag, *)
(* or of a tag that is copied whole.  What the output holds of the tag     *)
(* that was being written is of no use.                                    *)
WriteFails ==
  /\ \/ pc = "WRITE"
     \/ /\ Reading("COPY")
        /\ Offset = onMetaOffset \/ InsertNow \/ ToCopy(Tag.body) <= Tag.there
  /\ Stop("ERROR_WRITE")
  /\ UNCHANGED <<input, opts, clock, infoVars, metaVars, outVars>>

Next ==
  \/ ReadHeader
  \/ ScanMeta \/ ScanVideo \/ ScanAudio \/ ScanOther
  \/ Compute
  \/ WriteHeader \/ ReplaceMetaData \/ CopyTag \/ EndOfCopy \/ WriteFails

Spec == Init /\ [][Next]_vars

----------------------------------------------------------------------------
(***************************************************************************)
(* Properties.                                                             *)
(***************************************************************************)
Finished == pc = "DONE" /\ result = "OK"

Known(f) == \A k \in DOMAIN f.tags : f.tags[k].type \in Media
Whole(f) == \A k \in DOMAIN f.tags : f.tags[k].there = f.tags[k].body
Sound == Known(input) /\ Whole(input)

(* The last tag of the input is copied: it is not the onMetaData replaced. *)
LastTagCopied == /\ input.tags # <<>>
                 /\ input.pos[Len(input.tags)] # onMetaOffset

Clocks == [Media -> [prev : 0 .. TsRange - 1, ext : 0 .. ExtCount - 1]]
Entries == [kind : {"ON_METADATA", "ON_LAST_SECOND", "COPY"}, index : Nat, at : Nat,
            length : Nat, bytes : Nat, prev : Nat, time : 0 .. TsRange - 1]

TypeOK ==
  /\ input \in Inputs /\ opts \in Options
  /\ pc \in {"OPEN", "SCAN", "WRITE", "COPY", "DONE"}
  /\ i \in 1 .. Len(input.tags) + 1
  /\ result \in {"OK", "ERROR_NO_FLV", "ERROR_EOF", "ERROR_INVALID_TAG", "ERROR_WRITE"}
  /\ prevTagsSize \in Nat /\ videoSize \in Nat /\ audioSize \in Nat
  /\ metaSize \in Nat /\ onMetaSize \in Nat /\ onMetaOffset \in Nat
  /\ haveLast \in BOOLEAN /\ haveFirst \in BOOLEAN /\ inserted \in BOOLEAN
  /\ biggest \in 0 .. LengthRange - 1
  /\ firstTime \in 0 .. TsRange - 1 /\ lastTime \in 0 .. TsRange - 1
  /\ keyframes \in Seq([time : 0 .. TsRange - 1, offset : Nat])
  /\ clock \in Clocks
  /\ seen \in Seq([time : 0 .. TsRange - 1, clock : Clocks])
  /\ bodySize \in Nat /\ filesize \in Nat /\ datasize \in Nat
  /\ filepositions \in Seq(Int)
  /\ out \in Seq(Entries) /\ outSize \in Nat

(* The filesize announced in the new onMetaData, computed before the       *)
(* output exists, is the size of the output (info.c:709-718).  It is so    *)
(* when the last tag is a copied one: FilesizeStated leaves that out.      *)
FilesizeStated == Finished /\ Sound => filesize = outSize
FilesizeExact == LastTagCopied => FilesizeStated

(* The entries of the output that hold metadata.                           *)
IsMetaEntry(e) ==
  e.kind \in {"ON_METADATA", "ON_LAST_SECOND"} \/ input.tags[e.index].type = "META"
Total(sizes) ==
  LET sum[n \in 0 .. Len(sizes)] == IF n = 0 THEN 0 ELSE sum[n - 1] + sizes[n]
  IN sum[Len(sizes)]
MetaBytes(e) == IF IsMetaEntry(e) THEN TagSize + e.bytes ELSE 0
MetaBytesOf(entries) == Total([k \in DOMAIN entries |-> MetaBytes(entries[k])])

(* The datasize announced is the size of the metadata tags of the output,  *)
(* previous tag sizes excluded (info.c:701).                               *)
DatasizeExact ==
  Finished /\ Sound /\ LastTagCopied => datasize = MetaBytesOf(out)

(* A keyframe is found at a position of the output.                        *)
KeyframeAt(kf, p) ==
  \E e \in {out[k] : k \in DOMAIN out} :
    e.kind = "COPY" /\ input.pos[e.index] = kf.offset /\ e.at = p

InOrder == \A k \in DOMAIN seen : k > 1 => seen[k - 1].time <= seen[k].time
Unrounded == \A k \in DOMAIN keyframes :
               lastTime - keyframes[k].time = LastSecond => keyframes[k].time \notin RoundsDown
MetaDataFirst == \A k \in DOMAIN keyframes : onMetaOffset < keyframes[k].offset

(* The positions announced for the keyframes are those of the tags in the  *)
(* output (info.c:677-699 against update.c:153-245).  They are so on both  *)
(* sides of the inserted onLastSecond as long as the timestamps are in     *)
(* order and onMetaData comes before the keyframes: KeyframesFound leaves  *)
(* those conditions out.                                                   *)
KeyframesFound ==
  Finished /\ Sound =>
    \A k \in DOMAIN keyframes : KeyframeAt(keyframes[k], filepositions[k])
FilepositionsExact ==
  InOrder /\ Unrounded /\ MetaDataFirst => KeyframesFound

(* Every tag of the output follows the one before and is as long as its    *)
(* header says (update.c:207-244), also when the input is cut off: the     *)
(* only tag that holds less is the cut off one that --ignore copies.       *)
(* Unknown tags, which are cut when they are larger than all others, are   *)
(* left aside; and an onMetaData of 2^24 bytes, which takes almost a       *)
(* million keyframes, has no length.                                       *)
CutOff(tag) == tag.there < tag.body
CutCopy(e) ==
  /\ e.kind = "COPY" /\ opts.onError = "IGNORE"
  /\ CutOff(input.tags[e.index]) /\ e.bytes = input.tags[e.index].there
WellFormed ==
  Finished /\ Known(input) /\ bodySize < LengthRange =>
    \A k \in DOMAIN out :
      /\ out[k].length = out[k].bytes \/ CutCopy(out[k])
      /\ out[k].at = IF k = 1 THEN HeaderSize + PrevTagSize
                     ELSE out[k - 1].at + out[k - 1].prev + PrevTagSize

Copies == {k \in DOMAIN out : out[k].kind = "COPY"}
ToKeep == {k \in DOMAIN input.tags : input.pos[k] # onMetaOffset}

(* Every tag but the onMetaData replaced is copied once, whole and in      *)
(* order: a body is never cut to the copy buffer sized by the first pass   *)
(* (update.c:103, 200-208).                                                *)
NothingLost ==
  Finished /\ Sound =>
    /\ {out[k].index : k \in Copies} = ToKeep
    /\ \A j, k \in Copies : j < k => out[j].index < out[k].index
    /\ \A k \in Copies : out[k].bytes = input.tags[out[k].index].body

(* The two passes recover the same timestamp for a tag; only metadata that *)
(* comes before any other tag is rebased by the second pass alone.         *)
TimesAgree ==
  Finished =>
    \A k \in DOMAIN out : out[k].kind = "COPY" =>
      \/ out[k].time = seen[out[k].index].time
      \/ opts.reset /\ \A j \in 1 .. out[k].index : input.tags[j].type = "META"

(* An onLastSecond is inserted when it is asked for and the input has      *)
(* none, only once, and before the first tag of the last second.           *)
LastSecondPlaced ==
  Finished /\ Sound /\ LastTagCopied =>
    LET at == {k \in DOMAIN out : out[k].kind = "ON_LAST_SECOND"} IN
    IF ~ToInsert THEN at = {}
    ELSE \E k \in at :
           /\ at = {k}
           /\ k + 1 \in Copies /\ (lastTime - out[k + 1].time) % TsRange <= LastSecond
           /\ \A j \in Copies : j < k => (lastTime - out[j].time) % TsRange > LastSecond

(* "the default behaviour is to stop the update process with an error"     *)
(* (man page, line 226): without --fix or --ignore, no tag that is of an   *)
(* unknown type, cut off or without valid contents is passed over, the     *)
(* onMetaData that is replaced aside.                                      *)
ErrorsStop ==
  Finished /\ opts.onError = "EXIT" =>
    /\ Known(input)
    /\ \A k \in DOMAIN input.tags :
         LET tag == input.tags[k] IN
         tag.body > 0 =>
           /\ tag.type \in {"AUDIO", "VIDEO"} => tag.decodes
           /\ tag.type = "META" => tag.read \notin {"EOF", "BAD_DATA"}
           /\ CutOff(tag) => input.pos[k] = onMetaOffset

----------------------------------------------------------------------------
(***************************************************************************)
(* The invariant the proofs rest on.                                       *)
(***************************************************************************)
Scanned == pc \in {"WRITE", "COPY"} \/ Finished
Count == Len(input.tags)

(* What the first pass has counted.                                        *)
Account ==
  HeaderSize + prevTagsSize + videoSize + audioSize + metaSize + onMetaSize
AccountInv ==
  Known(input) =>
    /\ pc = "OPEN" => Account = HeaderSize + prevTagsSize
    /\ pc = "SCAN" => Account = input.pos[i]
    /\ Scanned => Account = input.pos[Count + 1]
    /\ Scanned => filesize = Account - onMetaSize + Room(bodySize)
                             + (IF ToInsert THEN Room(LastBody) ELSE 0)
    /\ pc = "SCAN" => \A k \in 1 .. i - 1 : input.tags[k].body <= biggest
    /\ Scanned => \A k \in 1 .. Count : input.tags[k].body <= biggest

(* The onMetaData that the second pass is to replace.                      *)
ReplacedInv ==
  /\ pc = "OPEN" => onMetaSize = 0
  /\ onMetaSize = 0 => onMetaOffset = 0
  /\ onMetaSize > 0 =>
       \E k \in 1 .. Count : /\ onMetaOffset = input.pos[k]
                             /\ onMetaSize = Room(input.tags[k].body)
                             /\ pc = "SCAN" => k < i

(* The clocks of both passes, and the timestamps of the first.             *)
Prior(k) == IF k = 1 THEN [type \in Media |-> [prev |-> 0, ext |-> 0]]
            ELSE seen[k - 1].clock
TimeOf(k) == Rebased(Recovered(Prior(k), input.tags[k]), firstTime)
Dated(k) == \E j \in 1 .. k : input.tags[j].type # "META"
ClockInv ==
  /\ pc = "OPEN" => i = 1 /\ seen = <<>> /\ clock = Prior(1) /\ ~haveFirst
  /\ pc = "SCAN" => Len(seen) = i - 1
  /\ Scanned => Len(seen) = Count
  /\ pc \in {"SCAN", "COPY"} => clock = Prior(i)
  /\ pc = "SCAN" => (haveFirst <=> Dated(i - 1))
  /\ pc = "SCAN" \/ Scanned =>
       /\ \A k \in DOMAIN seen : seen[k].clock = Tick(Prior(k), input.tags[k])
       /\ \A k \in DOMAIN seen :
            k = Len(seen) \/ Dated(k) \/ ~opts.reset => seen[k].time = TimeOf(k)
       /\ Known(input) /\ seen # <<>> => lastTime = seen[Len(seen)].time

(* The timestamp the first pass rebases with is that of the first tag that *)
(* is not metadata; the metadata before it is not rebased.                 *)
FirstInv ==
  /\ pc = "OPEN" \/ ~haveFirst => firstTime = 0
  /\ pc = "SCAN" \/ Scanned =>
       \A k \in DOMAIN seen :
         LET time == Recovered(Prior(k), input.tags[k]) IN
         /\ ~Dated(k) => seen[k].time = time
         /\ Dated(k) /\ ~Dated(k - 1) => firstTime = time

(* The file written so far.                                                *)
Replacement == Room(bodySize) - onMetaSize
Insertion == IF inserted THEN Room(LastBody) ELSE 0
InsertedInv ==
  /\ pc \in {"OPEN", "SCAN", "WRITE"} => ~inserted /\ out = <<>>
  /\ inserted => ToInsert
SizeInv ==
  Sound =>
    /\ pc = "COPY" =>
         outSize = input.pos[i] + Insertion
           + (IF onMetaSize = 0 \/ onMetaOffset < input.pos[i] THEN Replacement ELSE 0)
    /\ Finished => outSize = input.pos[Count + 1] + Insertion + Replacement
PlacedInv ==
  Sound /\ LastTagCopied /\ ToInsert =>
    /\ pc = "COPY" /\ i = Count + 1 => inserted
    /\ Finished => inserted
CopiesInv ==
  \A k \in DOMAIN out : out[k].kind = "COPY" =>
    /\ out[k].index \in 1 .. Count
    /\ pc = "COPY" \/ Finished => out[k].time = TimeOf(out[k].index)
OutputInv == InsertedInv /\ SizeInv /\ PlacedInv /\ CopiesInv

(* What the first pass has let pass, and the second, when errors stop them.*)
Passable(tag) ==
  /\ tag.type \in Media
  /\ tag.body > 0 => /\ tag.type \in {"AUDIO", "VIDEO"} => tag.decodes
                     /\ tag.type = "META" => tag.read \notin {"EOF", "BAD_DATA"}
Uncut(k) == input.tags[k].there = input.tags[k].body \/ input.pos[k] = onMetaOffset
ErrorsInv ==
  opts.onError = "EXIT" =>
    /\ pc = "SCAN" => \A k \in 1 .. i - 1 : Passable(input.tags[k])
    /\ Scanned => \A k \in 1 .. Count : Passable(input.tags[k])
    /\ pc = "COPY" => \A k \in 1 .. i - 1 : Uncut(k)
    /\ Finished => \A k \in 1 .. Count : Uncut(k)

(* The keyframes noted, and the metadata computed from the first pass.     *)
MetaTag(k) ==
  IF input.tags[k].type = "META" /\ input.pos[k] # onMetaOffset
  THEN TagSize + input.tags[k].body ELSE 0
MetaUpTo(n) == Total([k \in 1 .. n |-> MetaTag(k)])
NotedInv ==
  /\ pc = "SCAN" \/ Scanned =>
       \A k \in DOMAIN keyframes : \E j \in DOMAIN seen :
         /\ input.tags[j].type = "VIDEO" /\ input.pos[j] = keyframes[k].offset
         /\ seen[j].time = keyframes[k].time
  /\ pc = "OPEN" => metaSize = 0 /\ keyframes = <<>>
  /\ pc = "SCAN" => metaSize = MetaUpTo(i - 1)
  /\ Scanned => /\ metaSize = MetaUpTo(Count)
                /\ datasize = DataSize(bodySize)
                /\ filepositions = [k \in DOMAIN keyframes |-> NewPosition(keyframes[k], bodySize)]

(* A sequence of tags that follow each other, up to the end given.         *)
EndOf(s, k) == IF k = 0 THEN HeaderSize + PrevTagSize ELSE s[k].at + s[k].prev + PrevTagSize
Chained(s, end) == /\ \A k \in 1 .. Len(s) : s[k].at = EndOf(s, k - 1)
                   /\ end = EndOf(s, Len(s))

(* What a tag of the output holds.                                         *)
Holds(e) ==
  \/ e.kind = "ON_METADATA" /\ e.bytes = bodySize /\ e.length = bodySize % LengthRange
  \/ e.kind = "ON_LAST_SECOND" /\ e.bytes = LastBody /\ e.length = LastBody % LengthRange
  \/ /\ e.kind = "COPY"
     /\ e.index \in 1 .. Count /\ input.pos[e.index] # onMetaOffset
     /\ e.length = input.tags[e.index].body
     /\ Known(input) => e.bytes = input.tags[e.index].body \/ CutCopy(e)

(* The tags of s made from the input are those up to tag n, in order.      *)
CopiesOf(s) == {k \in 1 .. Len(s) : s[k].kind = "COPY"}
CopiedUpTo(s, n) ==
  /\ \A k \in CopiesOf(s) : s[k].index <= n
  /\ \A j, k \in CopiesOf(s) : j < k => s[j].index < s[k].index
  /\ \A m \in 1 .. n : input.pos[m] # onMetaOffset => \E k \in CopiesOf(s) : s[k].index = m

(* Whether s holds the onLastSecond to insert, and where.                  *)
Late(e) == (lastTime - e.time) % TsRange <= LastSecond
Unplaced(s) ==
  /\ \A k \in 1 .. Len(s) : s[k].kind # "ON_LAST_SECOND"
  /\ ToInsert => \A k \in CopiesOf(s) : ~Late(s[k])
Placed(s) ==
  \E k \in 1 .. Len(s) :
    /\ \A j \in 1 .. Len(s) : s[j].kind = "ON_LAST_SECOND" <=> j = k
    /\ k + 1 \in CopiesOf(s) /\ Late(s[k + 1])
    /\ \A j \in CopiesOf(s) : j < k => ~Late(s[j])

(* How far the copy of a tag is from where it was.                         *)
Replaced(n) == IF onMetaSize = 0 \/ onMetaOffset < input.pos[n] THEN Replacement ELSE 0
InsertedBefore(s, k) ==
  IF \E j \in 1 .. k - 1 : s[j].kind = "ON_LAST_SECOND" THEN Room(LastBody) ELSE 0
Shifted(s) ==
  \A k \in CopiesOf(s) :
    s[k].at = input.pos[s[k].index] + Replaced(s[k].index) + InsertedBefore(s, k)

(* The metadata written, once tags are copied up to tag n.                 *)
NewMeta(n) == IF onMetaSize = 0 \/ onMetaOffset < input.pos[n + 1] THEN TagSize + bodySize ELSE 0
NewLast == IF inserted THEN TagSize + LastBody ELSE 0
WrittenUpTo(n) ==
  /\ CopiedUpTo(out, n) /\ Shifted(out)
  /\ IF inserted THEN Placed(out) ELSE Unplaced(out)
  /\ MetaBytesOf(out) = MetaUpTo(n) + NewMeta(n) + NewLast
WrittenInv ==
  pc = "COPY" \/ Finished =>
    /\ Chained(out, outSize)
    /\ \A k \in DOMAIN out : Holds(out[k])
    /\ Sound => WrittenUpTo(IF pc = "COPY" THEN i - 1 ELSE Count)

UpdateInv ==
  /\ TypeOK /\ AccountInv /\ ReplacedInv /\ ClockInv /\ FirstInv /\ OutputInv
  /\ ErrorsInv /\ NotedInv /\ WrittenInv
=============================================================================
