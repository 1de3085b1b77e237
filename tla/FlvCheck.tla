------------------------------ MODULE FlvCheck ------------------------------
(***************************************************************************)
(* "flvmeta --check" (check_flv_file in check.c): the header, then every   *)
(* tag, then the file as a whole, then the first onMetaData against what   *)
(* get_flv_info finds in the file.  Each check may produce a message;      *)
(* messages are filtered by level, counted, and a fatal one ends the run.  *)
(*                                                                         *)
(* The tags are read as in FlvUpdate, through a stream whose metadata fits *)
(* its tags.  The text of the messages and the three formats of the report *)
(* are left out.                                                           *)
(***************************************************************************)
EXTENDS Integers, Sequences, FiniteSets, FiniteSetsExt, SequencesExt

CONSTANTS
  Files,         \* the files checked, see IsFile
  CheckOptions,  \* the options of the command, see IsCheckOptions
  HeaderSize,    \* FLV_HEADER_SIZE
  TagSize,       \* FLV_TAG_SIZE
  PrevTagSize,   \* sizeof(uint32_be)
  ExtRange,      \* 2^24, the range of a timestamp without its extended byte
  ExtCount,      \* 2^8, the range of the counters of wrapped timestamps
  WrapGap,       \* 0xF00000, a step back larger than this is a wrap
  Second,        \* 1000, a second in milliseconds
  LargeBody,     \* MAX_ACCEPTABLE_TAG_BODY_LENGTH
  LargeFile      \* 0xFFFFFFFF

AV == {"AUDIO", "VIDEO"}
TsRange == ExtRange * ExtCount
Rank == [INFO |-> 0, WARNING |-> 1, ERROR |-> 2, FATAL |-> 3]

(* The values of onMetaData that are checked, by type and by the media     *)
(* they are about.                                                         *)
Booleans == {"hasMetadata", "hasVideo", "hasAudio", "stereo", "canSeekToEnd", "hasKeyframes"}
OfVideo == {"width", "height", "videodatarate", "framerate", "videosize", "videocodecid"}
OfAudio == {"audiodatarate", "audiosamplerate", "audiosamplesize", "stereo", "audiosize",
            "audiocodecid"}
OfFile == {"duration", "lasttimestamp", "lastkeyframetimestamp", "filesize", "datasize"}
Numbers == (OfVideo \union OfAudio \union OfFile \union {"audiodelay"}) \ Booleans
Needs(name) == CASE name \in OfVideo -> {"VIDEO"} [] name \in OfAudio -> {"AUDIO"}
                 [] name = "audiodelay" -> AV [] OTHER -> {}
TypeOf(name) == CASE name \in Booleans -> "BOOLEAN" [] name \in Numbers -> "NUMBER"
                  [] name = "keyframes" -> "OBJECT" [] OTHER -> "ANY"

ListTypes == {"MISSING", "ARRAY", "OTHER"}
IsElement(e) == e.type \in {"NUMBER", "OTHER"} /\ e.number \in Int

(***************************************************************************)
(* A tag: its type, time and body length, whether its stream id is zero,   *)
(* whether the file is long enough for its body, and the previous tag size *)
(* that follows; the fields of an audio tag; the frame type and codec of a *)
(* video tag, whether they can be read, and what looking for the picture   *)
(* size in it comes to; what flv_read_metadata makes of metadata, its name *)
(* ("prefix" is one "onMetaData" starts with, "none" is not a string), how *)
(* much of the body its AMF data leaves (overruns, when negative), and its *)
(* entries, in an associative array or else in an object: each has a name, *)
(* a type, a number (of milliseconds, for a timestamp; 1 for true), and    *)
(* what keyframes holds.  Null and undefined, of which the program keeps   *)
(* no copy, have no entries.  Metadata that is none of these is left out:  *)
(* check.c:756 walks it as the list it is not.                             *)
(***************************************************************************)
IsTag(tag) ==
  /\ tag.type \in AV \union {"META", "OTHER"}
  /\ tag.time \in 0 .. TsRange - 1 /\ tag.body \in Nat
  /\ tag.streamZero \in BOOLEAN /\ tag.room \in BOOLEAN
  /\ tag.prev \in {"OK", "BAD", "EOF"}
  /\ tag.audio.format \in {"AAC", "NELLYMOSER", "PCM", "UNKNOWN", "RESERVED", "PLAIN"}
  /\ tag.audio.rate44 \in BOOLEAN /\ tag.audio.stereo \in BOOLEAN
  /\ tag.frame \in {"KEY", "INTER", "UNKNOWN"}
  /\ tag.codec \in {"AVC", "H263", "JPEG", "UNKNOWN"}
  /\ tag.reads \in BOOLEAN /\ tag.sized \in {"SIZE", "NO_SIZE", "EOF"}
  /\ tag.read \in {"OK", "EOF", "BAD_NAME", "BAD_DATA"}
  /\ tag.name \in {"onMetaData", "onLastSecond", "onCuePoint", "prefix", "other", "", "none"}
  /\ tag.left \in Int /\ tag.assoc \in BOOLEAN
  /\ tag.entries \in Seq({tag.entries[k] : k \in DOMAIN tag.entries})
  /\ \A k \in DOMAIN tag.entries :
       LET e == tag.entries[k] IN
       /\ e.number \in Int
       /\ e.times.type \in ListTypes /\ e.positions.type \in ListTypes
       /\ e.times.list \in Seq({e.times.list[n] : n \in DOMAIN e.times.list})
       /\ e.positions.list \in Seq({e.positions.list[n] : n \in DOMAIN e.positions.list})
       /\ \A n \in DOMAIN e.times.list : IsElement(e.times.list[n])
       /\ \A n \in DOMAIN e.positions.list : IsElement(e.positions.list[n])

(* A file: its header, its first previous tag size, its tags and where     *)
(* they start, and the bytes after the last one, too few for a tag.        *)
IsFile(f) ==
  /\ f.header \in {"OK", "EOF", "NO_SIGNATURE"}
  /\ f.version \in BOOLEAN /\ f.reserved \in BOOLEAN /\ f.offset \in BOOLEAN
  /\ f.has \in SUBSET AV
  /\ f.firstPrev \in {"ZERO", "BAD", "EOF"}
  /\ f.tags \in Seq({f.tags[k] : k \in DOMAIN f.tags})
  /\ \A k \in DOMAIN f.tags : IsTag(f.tags[k])
  /\ f.pos \in [1 .. Len(f.tags) + 1 -> Nat]
  /\ \A k \in DOMAIN f.tags : k < Len(f.tags) => f.tags[k].room /\ f.tags[k].prev # "EOF"
  /\ f.pos[1] = HeaderSize + PrevTagSize
  /\ \A k \in DOMAIN f.tags :
       f.pos[k + 1] = f.pos[k] + TagSize + f.tags[k].body + PrevTagSize
  /\ f.tail \in 0 .. TagSize - 1
  /\ f.tail > 0 /\ f.tags # <<>> =>
       f.tags[Len(f.tags)].room /\ f.tags[Len(f.tags)].prev # "EOF"

IsCheckOptions(o) == o.level \in DOMAIN Rank /\ o.quiet \in BOOLEAN

ASSUME CheckSizes ==
  /\ HeaderSize \in Nat \ {0} /\ TagSize \in Nat \ {0} /\ PrevTagSize \in Nat \ {0}
  /\ ExtRange \in Nat \ {0} /\ ExtCount \in Nat \ {0} /\ WrapGap \in Nat
  /\ Second \in Nat \ {0} /\ LargeBody \in Nat /\ LargeFile \in Nat
ASSUME CheckInputs ==
  /\ \A f \in Files : IsFile(f)
  /\ \A o \in CheckOptions : IsCheckOptions(o)

VARIABLES
  file,         \* the file
  opts,         \* the options
  pc,           \* what the check is doing
  i,            \* tag_number + 1: the tag that is read next
  report,       \* the messages printed
  errors, warnings,
  have,         \* the media seen: have_audio, have_video
  last,         \* last_audio_timestamp, last_video_timestamp
  lastTime,     \* last_timestamp
  desync,       \* have_desync
  onMetaData,   \* the first onMetaData tag, 0 before it
  onLastSecond, \* the first onLastSecond tag, 0 before it
  prevOf,       \* the last audio and the last video tag with a body, 0 before
  unknowns,     \* consecutive_unknown_tags
  frames,       \* video_frames_number
  keyframes,    \* keyframes_number
  info,         \* what get_flv_info has found, if it has been called
  result        \* what check_flv_file returns

tagVars == <<have, last, lastTime, desync, onMetaData, onLastSecond, prevOf, unknowns,
             frames, keyframes>>
vars == <<file, opts, pc, i, report, errors, warnings, tagVars, info, result>>

Tag == file.tags[i]
End == Len(file.tags) + 1
FileSize == file.pos[End] + file.tail

NoInfo == [known |-> FALSE, has |-> {}, sized |-> FALSE]
Init ==
  /\ file \in Files /\ opts \in CheckOptions
  /\ pc = "OPEN" /\ i = 1 /\ report = <<>> /\ errors = 0 /\ warnings = 0
  /\ have = {} /\ last = [type \in AV |-> 0] /\ lastTime = 0 /\ desync = FALSE
  /\ onMetaData = 0 /\ onLastSecond = 0 /\ prevOf = [type \in AV |-> 0]
  /\ unknowns = 0 /\ frames = 0 /\ keyframes = 0
  /\ info = NoInfo /\ result = "NONE"

----------------------------------------------------------------------------
(* Messages.  A check that finds something appends one, if its level is    *)
(* asked for, unless a fatal one has gone before: the checks after a fatal *)
(* message are skipped.                                                    *)
Shown(level) == Rank[level] >= Rank[opts.level]
Message(level, code) ==
  IF Shown(level) THEN <<[level |-> level, code |-> code, tag |-> i]>> ELSE <<>>
Found(condition, level, code) == IF condition THEN Message(level, code) ELSE <<>>

IsFatal(m) == m.level = "FATAL"
IsError(m) == m.level \in {"ERROR", "FATAL"}
IsWarning(m) == m.level = "WARNING"
FatalsOf(ms) == {k \in DOMAIN ms : IsFatal(ms[k])}
ErrorsOf(ms) == {k \in DOMAIN ms : IsError(ms[k])}
WarningsOf(ms) == {k \in DOMAIN ms : IsWarning(ms[k])}
Fatal(ms) == FatalsOf(ms) # {}
(* Mutated: the checks go on after a fatal message.                        *)
UpToFatalAll(ms) == ms
UpToFatal(ms) == IF Fatal(ms) THEN SubSeq(ms, 1, Min(FatalsOf(ms))) ELSE ms

(* Mutated: fatal messages are not counted as errors.                      *)
ReportUncounted(ms) ==
  /\ report' = IF opts.quiet THEN report ELSE report \o ms
  /\ errors' = errors + Cardinality(ErrorsOf(ms) \ FatalsOf(ms))
  /\ warnings' = warnings + Cardinality(WarningsOf(ms))
Report(ms) ==
  /\ report' = IF opts.quiet THEN report ELSE report \o ms
  /\ errors' = errors + Cardinality(ErrorsOf(ms))
  /\ warnings' = warnings + Cardinality(WarningsOf(ms))

(* One stage of the check: its messages, and where it goes on.             *)
Stage(from, ms, to) ==
  /\ pc = from
  /\ Report(UpToFatal(ms))
  /\ pc' = IF Fatal(ms) THEN "END" ELSE to

----------------------------------------------------------------------------
(* The header and the previous tag size that follows it.                   *)
StreamsMessages ==
  IF file.has = {} THEN Message("ERROR", "HEADER_NO_STREAMS")
  ELSE Found("AUDIO" \notin file.has, "INFO", "HEADER_NO_AUDIO")
       \o Found("VIDEO" \notin file.has, "WARNING", "HEADER_NO_VIDEO")
HeaderMessages ==
  IF file.header = "EOF" THEN Message("FATAL", "HEADER_EOF")
  ELSE IF file.header = "NO_SIGNATURE" THEN Message("FATAL", "HEADER_NO_SIGNATURE")
  ELSE Found(~file.version, "ERROR", "HEADER_BAD_VERSION")
       \o StreamsMessages
       \o Found(~file.reserved, "ERROR", "HEADER_BAD_RESERVED_FLAGS")
       \o Found(~file.offset, "ERROR", "HEADER_BAD_OFFSET")
       \o Found(file.firstPrev = "EOF", "FATAL", "PREV_TAG_SIZE_EOF")
       \o Found(file.firstPrev = "BAD", "ERROR", "PREV_TAG_SIZE_BAD_FIRST")
       \o Found(file.tags = <<>> /\ file.tail = 0, "FATAL", "GENERAL_NO_TAG")

OpenFile ==
  /\ pc = "OPEN"
  /\ \/ pc' = "HEADER" /\ UNCHANGED result
     \/ pc' = "DONE" /\ result' = "ERROR_OPEN_READ"
  /\ UNCHANGED <<file, opts, i, report, errors, warnings, tagVars, info>>

CheckHeader ==
  /\ Stage("HEADER", HeaderMessages, "TAGS")
  /\ UNCHANGED <<file, opts, i, tagVars, info, result>>

----------------------------------------------------------------------------
(* A tag.  What is known of the media once its timestamp has been noted:   *)
Is(type) == Tag.type = type
HaveNow == have \union ({Tag.type} \intersect AV)
(* Mutated: the last timestamp of each media is never noted.               *)
LastNowZero == last
LastNow == [type \in AV |-> IF Is(type) THEN Tag.time ELSE last[type]]
Distance(a, b) == IF a > b THEN a - b ELSE b - a
Apart(times) == Distance(times["AUDIO"], times["VIDEO"]) >= Second

(* Mutated: a third tag of an unknown type in a row is needed to give up.  *)
TooManyUnknownThree == unknowns >= 2
TooManyUnknown == unknowns >= 1
TypeMessages ==
  Found(Is("OTHER"), "ERROR", "TAG_TYPE_UNKNOWN")
  \o Found(Is("OTHER") /\ TooManyUnknown, "FATAL", "CONSECUTIVE_UNKNOWN_TAGS")
  \o Found(Is("VIDEO") /\ Tag.type \notin have \union file.has, "WARNING",
           "HEADER_UNEXPECTED_VIDEO")
  \o Found(Is("AUDIO") /\ Tag.type \notin have \union file.has, "WARNING",
           "HEADER_UNEXPECTED_AUDIO")
LengthMessages ==
  Found(~Tag.room, "FATAL", "TAG_BODY_LENGTH_OVERFLOW")
  \o Found(Tag.body > LargeBody, "WARNING", "TAG_BODY_LENGTH_LARGE")
  \o Found(Tag.body = 0, "WARNING", "TAG_BODY_LENGTH_ZERO")

(* A decrease is looked for within each media; across all tags it is only  *)
(* looked for when the tag is of neither.                                  *)
Overflows == lastTime > Tag.time /\ lastTime - Tag.time > WrapGap
TimeMessages ==
  Found(i = 1 /\ Tag.time # 0, "ERROR", "TIMESTAMP_FIRST_NON_ZERO")
  \o Found(Is("AUDIO") /\ last["AUDIO"] > Tag.time, "ERROR", "TIMESTAMP_AUDIO_DECREASE")
  \o Found(Is("VIDEO") /\ last["VIDEO"] > Tag.time, "ERROR", "TIMESTAMP_VIDEO_DECREASE")
  \o Found(Overflows, "ERROR", "TIMESTAMP_OVERFLOW")
  \o Found(~Overflows /\ Tag.type \notin AV /\ lastTime - Tag.time >= Second, "ERROR",
           "TIMESTAMP_DECREASE")
(* Mutated: the desynchronization is reported at every tag.                *)
DesyncFoundEach == HaveNow = AV /\ Apart(LastNow)
DesyncFound == HaveNow = AV /\ ~desync /\ Apart(LastNow)
DesyncMessages ==
  Found(DesyncFound, "WARNING", "TIMESTAMP_DESYNC")
  \o Found(~Tag.streamZero, "ERROR", "TAG_STREAM_ID_NON_ZERO")

PrevTag(type) == file.tags[prevOf[type]]
AudioMessages ==
  LET a == Tag.audio IN
  Found(prevOf["AUDIO"] > 0 /\ PrevTag("AUDIO").audio # a, "WARNING", "AUDIO_FORMAT_CHANGED")
  \o Found(a.format = "UNKNOWN", "WARNING", "AUDIO_CODEC_UNKNOWN")
  \o Found(a.format = "RESERVED", "WARNING", "AUDIO_CODEC_RESERVED")
  \o Found(a.format = "AAC" /\ ~a.rate44, "WARNING", "AUDIO_CODEC_AAC_BAD")
  \o Found(a.format = "NELLYMOSER" /\ a.stereo, "WARNING", "AUDIO_CODEC_NELLYMOSER_BAD")
  \o Found(a.format = "AAC" /\ ~a.stereo, "WARNING", "AUDIO_CODEC_AAC_MONO")
  \o Found(a.format = "PCM", "WARNING", "AUDIO_CODEC_LINEAR_PCM")
(* Mutated: the first video frame is taken for the first tag.              *)
FirstFrameOfFile == i = 1
FirstFrame == prevOf["VIDEO"] = 0
VideoMessages ==
  Found(~Tag.reads, "FATAL", "TAG_EOF")
  \o Found(prevOf["VIDEO"] > 0 /\ PrevTag("VIDEO").codec # Tag.codec, "WARNING",
           "VIDEO_FORMAT_CHANGED")
  \o Found(Tag.frame = "UNKNOWN", "ERROR", "VIDEO_FRAME_TYPE_UNKNOWN")
  \o Found(FirstFrame /\ Tag.frame # "KEY", "WARNING", "VIDEO_NO_FIRST_KEYFRAME")
  \o Found(Tag.codec = "UNKNOWN", "ERROR", "VIDEO_CODEC_UNKNOWN")
  \o Found(Tag.codec = "JPEG", "WARNING", "VIDEO_CODEC_JPEG")

Named(name) == Is("META") /\ Tag.body > 0 /\ Tag.read = "OK" /\ Tag.name = name
FirstMetaData == Named("onMetaData") /\ onMetaData = 0
NamedMessages ==
  Found(Tag.name = "", "WARNING", "METADATA_NAME_EMPTY")
  \o Found(Tag.left > 0, "WARNING", "METADATA_DATA_REMAINING")
  \o Found(Tag.left < 0, "WARNING", "METADATA_DATA_MISSING")
  \o Found(Named("onLastSecond") /\ onLastSecond > 0, "WARNING", "METADATA_LAST_SECOND_DUP")
  \o Found(FirstMetaData /\ ~Tag.assoc, "ERROR", "METADATA_DATA_INVALID_TYPE")
  \o Found(FirstMetaData /\ i # 1, "WARNING", "METADATA_BAD_TAG")
  \o Found(FirstMetaData /\ Tag.time # 0, "WARNING", "METADATA_BAD_TIMESTAMP")
  \o Found(Named("onMetaData") /\ ~FirstMetaData, "WARNING", "METADATA_DUPLICATE")
  \o Found(Tag.name \notin {"onMetaData", "onCuePoint", "onLastSecond"}, "INFO",
           "METADATA_NAME_UNKNOWN")
MetaMessages ==
  CASE Tag.read = "EOF" -> Message("FATAL", "TAG_EOF")
    [] Tag.read = "BAD_NAME" -> Message("ERROR", "METADATA_NAME_INVALID")
    [] Tag.read = "BAD_DATA" -> Message("ERROR", "METADATA_DATA_INVALID")
    [] Tag.read = "OK" /\ Tag.name = "none" -> Message("ERROR", "METADATA_NAME_INVALID_TYPE")
    [] OTHER -> NamedMessages

BodyMessages ==
  IF Tag.body = 0 THEN <<>>
  ELSE CASE Is("AUDIO") -> AudioMessages
         [] Is("VIDEO") -> VideoMessages
         [] Is("META") -> MetaMessages
         [] OTHER -> <<>>
PrevMessages ==
  Found(Tag.prev = "EOF", "FATAL", "PREV_TAG_SIZE_EOF")
  \o Found(Tag.prev = "BAD", "ERROR", "PREV_TAG_SIZE_BAD")

TagMessages ==
  TypeMessages \o LengthMessages \o TimeMessages \o DesyncMessages \o BodyMessages
  \o PrevMessages

(* Mutated: the tag of the first onMetaData moves to the last one.         *)
OnMetaDataLast == IF Named("onMetaData") THEN i ELSE onMetaData
OnMetaDataNow == IF FirstMetaData THEN i ELSE onMetaData
CheckTag ==
  LET withBody(type) == Is(type) /\ Tag.body > 0 IN
  /\ i < End /\ ~Fatal(TagMessages)
  /\ Stage("TAGS", TagMessages, "TAGS")
  /\ i' = i + 1
  /\ have' = HaveNow /\ last' = LastNow /\ lastTime' = Tag.time
  /\ desync' = (desync \/ DesyncFound)
  /\ unknowns' = IF Is("OTHER") THEN unknowns + 1 ELSE 0
  /\ prevOf' = [type \in AV |-> IF withBody(type) THEN i ELSE prevOf[type]]
  /\ frames' = IF withBody("VIDEO") THEN frames + 1 ELSE frames
  /\ keyframes' = IF withBody("VIDEO") /\ Tag.frame = "KEY" THEN keyframes + 1 ELSE keyframes
  /\ onMetaData' = OnMetaDataNow
  /\ onLastSecond' = IF Named("onLastSecond") /\ onLastSecond = 0 THEN i ELSE onLastSecond
  /\ UNCHANGED <<file, opts, info, result>>

(* A fatal message ends the check; what the tag would have changed besides *)
(* the report is not looked at any more.                                   *)
AbortTag ==
  /\ i < End /\ Fatal(TagMessages)
  /\ Stage("TAGS", TagMessages, "END")
  /\ UNCHANGED <<file, opts, i, tagVars, info, result>>

EndOfTags ==
  /\ i = End
  /\ Stage("TAGS", Found(file.tail > 0, "FATAL", "TAG_EOF"), "FINAL")
  /\ UNCHANGED <<file, opts, i, tagVars, info, result>>

----------------------------------------------------------------------------
(* What get_flv_info finds in the file, called with the options that leave *)
(* tags and timestamps as they are.  Of the values that this model leaves  *)
(* out (rates, dimensions, codecs and the duration) it finds 0.            *)
Whole(type) == {k \in 1 .. End - 1 : file.tags[k].type = type /\ file.tags[k].body > 0}
InfoHas == {type \in AV : Whole(type) # {}}
KeyframeTags == {k \in Whole("VIDEO") : file.tags[k].frame = "KEY"}

(* The picture size is looked for in the keyframes until it is found.      *)
SizedBy(k) == \E n \in KeyframeTags : n < k /\ file.tags[n].sized = "SIZE"
InfoSized == SizedBy(End)
InfoFails == \E k \in KeyframeTags : file.tags[k].sized = "EOF" /\ ~SizedBy(k)

(* Timestamps with the wraps of each type of tag counted.                  *)
Before(k) == {j \in 1 .. k - 1 : file.tags[j].type = file.tags[k].type}
PrevTime(k) == IF Before(k) = {} THEN 0 ELSE file.tags[Max(Before(k))].time
WrapsAt(k) == file.tags[k].time < PrevTime(k) /\ PrevTime(k) - file.tags[k].time > WrapGap
Recovered(k) ==
  LET wraps == Cardinality({j \in Before(k) \union {k} : WrapsAt(j)}) IN
  (file.tags[k].time + (wraps % ExtCount) * ExtRange) % TsRange

(* A keyframe is listed unless the one listed before has the same time.    *)
ListedKeyframes ==
  LET listed[n \in 0 .. End - 1] ==
        IF n = 0 THEN <<>>
        ELSE IF /\ n \in KeyframeTags
                /\ \/ listed[n - 1] = <<>>
                   \/ Recovered(Last(listed[n - 1])) # Recovered(n)
             THEN Append(listed[n - 1], n) ELSE listed[n - 1]
  IN listed[End - 1]

SizeOf(tags) == MapThenSumSet(LAMBDA k : file.tags[k].body + TagSize, tags)
TagsOf(types) == {k \in 1 .. End - 1 : file.tags[k].type \in types}
(* The onMetaData of get_flv_info compares names by prefix.                *)
InfoMetaData ==
  LET named(k) == /\ file.tags[k].body > 0 /\ file.tags[k].read \in {"OK", "BAD_DATA"}
                  /\ file.tags[k].name \in {"onMetaData", "prefix", ""}
      all == {k \in TagsOf({"META"}) : named(k)}
  IN IF all = {} THEN {} ELSE {Min(all)}

OneIf(condition) == IF condition THEN 1 ELSE 0
Latest(ks, default) == IF ks = <<>> THEN default ELSE Recovered(Last(ks))
MetaSize == SizeOf(TagsOf({"META"}) \ InfoMetaData)
Expected(name) ==
  LET known == TagsOf(AV \union {"META"})
      meta  == file.tags[onMetaData] IN
  CASE name = "hasMetadata" -> 1
    [] name = "hasVideo" -> OneIf("VIDEO" \in InfoHas)
    [] name = "hasAudio" -> OneIf("AUDIO" \in InfoHas)
    [] name = "canSeekToEnd" ->
         OneIf("VIDEO" \in InfoHas /\ file.tags[Max(Whole("VIDEO"))].frame = "KEY")
    [] name = "hasKeyframes" -> OneIf(KeyframeTags # {})
    [] name = "lasttimestamp" -> IF known = {} THEN 0 ELSE Recovered(Max(known))
    [] name = "lastkeyframetimestamp" -> Latest(ListedKeyframes, 0)
    [] name = "filesize" -> FileSize
    [] name = "videosize" -> SizeOf(TagsOf({"VIDEO"}))
    [] name = "audiosize" -> SizeOf(TagsOf({"AUDIO"}))
    [] name = "datasize" -> MetaSize + TagSize + meta.body - meta.left
    [] OTHER -> 0

----------------------------------------------------------------------------
(* The file as a whole, once all tags have been read.                      *)
EndsMessages ==
  IF ~(have = AV /\ Apart(last)) THEN <<>>
  ELSE IF last["AUDIO"] > last["VIDEO"] THEN Message("WARNING", "TIMESTAMP_VIDEO_ENDS_FIRST")
  ELSE Message("WARNING", "TIMESTAMP_AUDIO_ENDS_FIRST")
OnlyKeyframes == "VIDEO" \in have /\ keyframes = frames
FinalMessages ==
  Found("VIDEO" \in file.has \ have, "WARNING", "HEADER_VIDEO_NOT_FOUND")
  \o Found("AUDIO" \in file.has \ have, "WARNING", "HEADER_AUDIO_NOT_FOUND")
  \o EndsMessages
  \o Found("VIDEO" \in have /\ keyframes = 0, "WARNING", "VIDEO_NO_KEYFRAME")
  \o Found(OnlyKeyframes, "WARNING", "VIDEO_ONLY_KEYFRAMES")
  \o Found(OnlyKeyframes /\ onLastSecond > 0, "WARNING", "VIDEO_ONLY_KF_LAST_SEC")
  \o Found(onLastSecond > 0 /\
           (lastTime - file.tags[onLastSecond].time) % TsRange >= 2 * Second,
           "WARNING", "METADATA_LAST_SECOND_BAD")
  \o Found(onMetaData = 0, "WARNING", "METADATA_NOT_PRESENT")
  \o Found(onMetaData > 0 /\ InfoFails, "FATAL", "INFO_COMPUTATION_ERROR")

(* get_flv_info is only called when there is an onMetaData.                *)
CheckWhole ==
  /\ Stage("FINAL", FinalMessages, IF onMetaData = 0 THEN "GLOBAL" ELSE "METADATA")
  /\ info' = IF onMetaData = 0 \/ InfoFails THEN info
             ELSE [known |-> TRUE, has |-> InfoHas, sized |-> InfoSized]
  /\ UNCHANGED <<file, opts, i, tagVars, result>>

----------------------------------------------------------------------------
(* The entries of the first onMetaData.                                    *)
Differs(e) ==
  /\ IF e.name \in {"lasttimestamp", "lastkeyframetimestamp"}
     THEN Distance(e.number, Expected(e.name)) >= Second
     ELSE e.number # Expected(e.name)
  /\ e.name \in {"width", "height"} => info.sized

(* Position n of the arrays of keyframes.  The time is compared with the   *)
(* last one that is a number, too.                                         *)
KeyframeMessages(e, n) ==
  LET time == e.times.list[n]
      position == e.positions.list[n]
      before == {m \in 1 .. n - 1 : e.times.list[m].type = "NUMBER"}
      k == ListedKeyframes[n] IN
  (IF time.type # "NUMBER" THEN Message("WARNING", "KEYFRAMES_TIME_TYPE_BAD")
   ELSE Found(Distance(time.number, Recovered(k)) >= Second, "WARNING", "KEYFRAMES_TIME_BAD")
        \o Found(before # {} /\ e.times.list[Max(before)].number = time.number, "WARNING",
                 "KEYFRAMES_TIME_DUPLICATE"))
  \o (IF position.type # "NUMBER" THEN Message("WARNING", "KEYFRAMES_POS_TYPE_BAD")
      ELSE Found(position.number # file.pos[k], "WARNING", "KEYFRAMES_POS_BAD"))

(* Mutated: the length of the list of positions is not looked at.          *)
SameLengthTimes(e) == Len(e.times.list) = Len(ListedKeyframes)
SameLength(e) == /\ Len(e.times.list) = Len(ListedKeyframes)
                 /\ Len(e.positions.list) = Len(ListedKeyframes)
KeyframesMessages(e) ==
  Found(e.times.type = "MISSING", "WARNING", "KEYFRAMES_TIMES_MISSING")
  \o Found(e.positions.type = "MISSING", "WARNING", "KEYFRAMES_FILEPOS_MISSING")
  \o (IF "MISSING" \in {e.times.type, e.positions.type} THEN <<>>
      ELSE Found(e.times.type = "OTHER", "WARNING", "KEYFRAMES_TIMES_TYPE_BAD")
           \o Found(e.positions.type = "OTHER", "WARNING", "KEYFRAMES_FILEPOS_TYPE_BAD"))
  \o (IF {e.times.type, e.positions.type} # {"ARRAY"} THEN <<>>
      ELSE IF ~SameLength(e) THEN Message("WARNING", "KEYFRAMES_ARRAY_LENGTH_BAD")
      ELSE FlattenSeq([n \in DOMAIN e.times.list |-> KeyframeMessages(e, n)]))

NeededCode(name) == CASE Needs(name) = {"VIDEO"} -> "AMF_DATA_VIDEO_NEEDED"
                      [] Needs(name) = {"AUDIO"} -> "AMF_DATA_AUDIO_NEEDED"
                      [] OTHER -> "AMF_DATA_AUDIO_VIDEO_NEEDED"
EntryMessages(e) ==
  CASE TypeOf(e.name) = "ANY" -> <<>>
    [] TypeOf(e.name) \notin {"ANY", e.type} -> Message("WARNING", "AMF_DATA_INVALID_TYPE")
    [] e.type = "OBJECT" /\ e.name = "keyframes" -> KeyframesMessages(e)
    [] e.type = TypeOf(e.name) /\ e.name # "keyframes" ->
         IF Needs(e.name) \subseteq info.has
         THEN Found(Differs(e), "WARNING", "AMF_DATA_INVALID_VALUE")
         ELSE Message("WARNING", NeededCode(e.name))

Entries == file.tags[onMetaData].entries
Lacks(name) ==
  /\ "VIDEO" \in info.has
  /\ \A k \in DOMAIN Entries : ~(Entries[k].name = name /\ Entries[k].type = "NUMBER")
MetaDataMessages ==
  FlattenSeq([k \in DOMAIN Entries |-> EntryMessages(Entries[k])])
  \o Found(Lacks("width"), "ERROR", "VIDEO_WIDTH_MISSING")
  \o Found(Lacks("height"), "ERROR", "VIDEO_HEIGHT_MISSING")
CheckMetaData ==
  /\ Stage("METADATA", MetaDataMessages, "GLOBAL")
  /\ UNCHANGED <<file, opts, i, tagVars, info, result>>

(* Without an onMetaData the checks that remain look at an info that was   *)
(* never computed, whose contents may be any.                              *)
InfoRead ==
  IF info.known THEN {info} ELSE [known : {FALSE}, has : SUBSET AV, sized : BOOLEAN]
GlobalMessages(found) ==
  Found(~found.sized, "WARNING", "VIDEO_SIZE_ERROR")
  \o Found("VIDEO" \in found.has, "INFO", "VIDEO_CODEC")
  \o Found("AUDIO" \in found.has, "INFO", "AUDIO_FORMAT")
  \o Found(lastTime >= ExtRange, "INFO", "TIMESTAMP_USE_EXTENDED")
  \o Found(FileSize > LargeFile, "INFO", "GENERAL_LARGE_FILE")
CheckGlobal ==
  /\ \E found \in InfoRead : Stage("GLOBAL", GlobalMessages(found), "END")
  /\ UNCHANGED <<file, opts, i, tagVars, info, result>>

Finish ==
  /\ pc = "END"
  /\ pc' = "DONE"
  /\ result' = IF errors > 0 THEN "ERROR_INVALID_FLV_FILE" ELSE "OK"
  /\ UNCHANGED <<file, opts, i, report, errors, warnings, tagVars, info>>

Next ==
  \/ OpenFile \/ CheckHeader \/ CheckTag \/ AbortTag \/ EndOfTags
  \/ CheckWhole \/ CheckMetaData \/ CheckGlobal \/ Finish

Spec == Init /\ [][Next]_vars

----------------------------------------------------------------------------
(***************************************************************************)
(* Properties.  What the report says is compared with the file; a report   *)
(* that is not printed, or not from the level asked about, says nothing.   *)
(***************************************************************************)
About(code) == {report[k].tag : k \in {n \in DOMAIN report : report[n].code = code}}
Prints(level) == ~opts.quiet /\ Shown(level)
Checked == 1 .. i - 1
Finished == pc = "DONE" /\ result # "ERROR_OPEN_READ"

(* The codes of the messages: those the properties look for, and the rest. *)
TagCodes == {
  "CONSECUTIVE_UNKNOWN_TAGS", "TIMESTAMP_AUDIO_DECREASE", "TIMESTAMP_VIDEO_DECREASE",
  "TIMESTAMP_DESYNC", "AUDIO_FORMAT_CHANGED", "VIDEO_FORMAT_CHANGED",
  "VIDEO_NO_FIRST_KEYFRAME", "METADATA_DUPLICATE"}
OtherCodes == {
  "HEADER_NO_STREAMS", "HEADER_NO_AUDIO", "HEADER_NO_VIDEO", "HEADER_EOF",
  "HEADER_NO_SIGNATURE", "HEADER_BAD_VERSION", "HEADER_BAD_RESERVED_FLAGS",
  "HEADER_BAD_OFFSET", "PREV_TAG_SIZE_EOF", "PREV_TAG_SIZE_BAD_FIRST", "GENERAL_NO_TAG",
  "TAG_TYPE_UNKNOWN", "HEADER_UNEXPECTED_VIDEO", "HEADER_UNEXPECTED_AUDIO",
  "TAG_BODY_LENGTH_OVERFLOW", "TAG_BODY_LENGTH_LARGE", "TAG_BODY_LENGTH_ZERO",
  "TIMESTAMP_FIRST_NON_ZERO", "TIMESTAMP_OVERFLOW", "TIMESTAMP_DECREASE",
  "TAG_STREAM_ID_NON_ZERO", "AUDIO_CODEC_UNKNOWN", "AUDIO_CODEC_RESERVED",
  "AUDIO_CODEC_AAC_BAD", "AUDIO_CODEC_NELLYMOSER_BAD", "AUDIO_CODEC_AAC_MONO",
  "AUDIO_CODEC_LINEAR_PCM", "TAG_EOF", "VIDEO_FRAME_TYPE_UNKNOWN", "VIDEO_CODEC_UNKNOWN",
  "VIDEO_CODEC_JPEG", "METADATA_NAME_EMPTY", "METADATA_DATA_REMAINING",
  "METADATA_DATA_MISSING", "METADATA_LAST_SECOND_DUP", "METADATA_DATA_INVALID_TYPE",
  "METADATA_BAD_TAG", "METADATA_BAD_TIMESTAMP", "METADATA_NAME_UNKNOWN",
  "METADATA_NAME_INVALID", "METADATA_DATA_INVALID", "METADATA_NAME_INVALID_TYPE",
  "PREV_TAG_SIZE_BAD", "TIMESTAMP_VIDEO_ENDS_FIRST", "TIMESTAMP_AUDIO_ENDS_FIRST",
  "HEADER_VIDEO_NOT_FOUND", "HEADER_AUDIO_NOT_FOUND", "VIDEO_NO_KEYFRAME",
  "VIDEO_ONLY_KEYFRAMES", "VIDEO_ONLY_KF_LAST_SEC", "METADATA_LAST_SECOND_BAD",
  "METADATA_NOT_PRESENT", "INFO_COMPUTATION_ERROR", "KEYFRAMES_TIME_TYPE_BAD",
  "KEYFRAMES_TIME_BAD", "KEYFRAMES_TIME_DUPLICATE", "KEYFRAMES_POS_TYPE_BAD",
  "KEYFRAMES_POS_BAD", "KEYFRAMES_TIMES_MISSING", "KEYFRAMES_FILEPOS_MISSING",
  "KEYFRAMES_TIMES_TYPE_BAD", "KEYFRAMES_FILEPOS_TYPE_BAD", "KEYFRAMES_ARRAY_LENGTH_BAD",
  "AMF_DATA_VIDEO_NEEDED", "AMF_DATA_AUDIO_NEEDED", "AMF_DATA_AUDIO_VIDEO_NEEDED",
  "AMF_DATA_INVALID_TYPE", "AMF_DATA_INVALID_VALUE", "VIDEO_WIDTH_MISSING",
  "VIDEO_HEIGHT_MISSING", "VIDEO_SIZE_ERROR", "VIDEO_CODEC", "AUDIO_FORMAT",
  "TIMESTAMP_USE_EXTENDED", "GENERAL_LARGE_FILE"}
Codes == TagCodes \union OtherCodes

Messages == [level : DOMAIN Rank, code : Codes, tag : Nat \ {0}]

TypeOK ==
  /\ IsFile(file) /\ IsCheckOptions(opts)
  /\ pc \in {"OPEN", "HEADER", "TAGS", "FINAL", "METADATA", "GLOBAL", "END", "DONE"}
  /\ i \in 1 .. End
  /\ report \in Seq(Messages)
  /\ errors \in Nat /\ warnings \in Nat
  /\ have \subseteq AV /\ last \in [AV -> 0 .. TsRange - 1] /\ lastTime \in 0 .. TsRange - 1
  /\ desync \in BOOLEAN
  /\ onMetaData \in 0 .. i - 1 /\ onLastSecond \in 0 .. i - 1
  /\ prevOf \in [AV -> 0 .. i - 1]
  /\ unknowns \in 0 .. 1
  /\ frames \in 0 .. i - 1 /\ keyframes \in 0 .. frames
  /\ info \in [known : BOOLEAN, has : SUBSET AV, sized : BOOLEAN]
  /\ result \in {"NONE", "OK", "ERROR_OPEN_READ", "ERROR_INVALID_FLV_FILE"}

(* "9 the --check command reported an invalid file (one or more errors)"   *)
(* (man page, line 298): the exit status and the totals of the report say  *)
(* what the report says.                                                   *)
TotalsTrue ==
  ~opts.quiet /\ Finished =>
    /\ errors = Cardinality(ErrorsOf(report))
    /\ warnings = Cardinality(WarningsOf(report))
    /\ result = "ERROR_INVALID_FLV_FILE" <=> ErrorsOf(report) # {}

(* A check that prints no fatal message has looked at every tag; one that  *)
(* prints one stops there (the jumps to end, check.c:264-750).  Two tags   *)
(* of an unknown type in a row are fatal, and never two that others come   *)
(* between (check.c:343-359).                                              *)
FatalEnds ==
  LET other(k) == file.tags[k].type = "OTHER" IN
  /\ ~opts.quiet =>
       /\ \A k \in DOMAIN report :
            IsFatal(report[k]) => k = Len(report) /\ pc \in {"END", "DONE"}
       /\ Finished => \/ i = End
                      \/ report # <<>> /\ IsFatal(report[Len(report)])
  /\ \A k \in Checked : k > 1 => ~(other(k - 1) /\ other(k))
  /\ \A k \in About("CONSECUTIVE_UNKNOWN_TAGS") : k > 1 /\ other(k - 1) /\ other(k)

(* A tag of a medium is reported when it is earlier than the one before it *)
(* of the same medium, whatever comes between (check.c:398-414).           *)
DecreaseReported ==
  Prints("ERROR") =>
    \A k \in Checked :
      k \in About("TIMESTAMP_AUDIO_DECREASE") \union About("TIMESTAMP_VIDEO_DECREASE")
        <=> file.tags[k].type \in AV /\ file.tags[k].time < PrevTime(k)

(* The tags of one medium with a body before tag k.                        *)
Filled(k) == {j \in Before(k) : file.tags[j].body > 0}
LastBefore(k) == file.tags[Max(Filled(k))]

(* The format of a tag is compared with that of the last tag of its medium *)
(* that has one, and only the first video frame is asked to be a keyframe  *)
(* (check.c:457, 521, 542).                                                *)
FormatsCompared ==
  Prints("WARNING") =>
    \A k \in Checked :
      LET t == file.tags[k] IN
      t.body > 0 =>
        /\ k \in About("AUDIO_FORMAT_CHANGED")
             <=> t.type = "AUDIO" /\ Filled(k) # {} /\ LastBefore(k).audio # t.audio
        /\ k \in About("VIDEO_FORMAT_CHANGED")
             <=> t.type = "VIDEO" /\ Filled(k) # {} /\ LastBefore(k).codec # t.codec
        /\ k \in About("VIDEO_NO_FIRST_KEYFRAME")
             <=> t.type = "VIDEO" /\ Filled(k) = {} /\ t.frame # "KEY"

(* The last timestamp of a medium among the tags up to k.                  *)
Until(k, type) == {j \in 1 .. k : file.tags[j].type = type}
ApartAt(k) ==
  /\ \A type \in AV : Until(k, type) # {}
  /\ Apart([type \in AV |-> file.tags[Max(Until(k, type))].time])

(* The first tag at which audio and video are a second apart is reported,  *)
(* and no other ("do not repeat", check.c:429-435).                        *)
DesyncOnce ==
  Prints("WARNING") =>
    \A k \in Checked : k \in About("TIMESTAMP_DESYNC")
      <=> ApartAt(k) /\ \A j \in 1 .. k - 1 : ~ApartAt(j)

MetaDataOf(ks) ==
  {k \in ks : /\ file.tags[k].type = "META" /\ file.tags[k].body > 0
              /\ file.tags[k].read = "OK" /\ file.tags[k].name = "onMetaData"}

(* The metadata that is compared with the file is the first onMetaData,    *)
(* and every other one is reported (check.c:627-651).                      *)
FirstMetaDataChecked ==
  /\ onMetaData = IF MetaDataOf(Checked) = {} THEN 0 ELSE Min(MetaDataOf(Checked))
  /\ Prints("WARNING") /\ pc # "END" /\ ~Finished =>
       About("METADATA_DUPLICATE") = MetaDataOf(Checked) \ {onMetaData}

(* The entries of the first onMetaData that index keyframes, what is said  *)
(* of them, and the positions that can be sought.                          *)
KeyframeIndex ==
  {k \in DOMAIN Entries : Entries[k].name = "keyframes" /\ Entries[k].type = "OBJECT"}
IndexCodes == {
  "KEYFRAMES_TIMES_MISSING", "KEYFRAMES_FILEPOS_MISSING", "KEYFRAMES_TIMES_TYPE_BAD",
  "KEYFRAMES_FILEPOS_TYPE_BAD", "KEYFRAMES_ARRAY_LENGTH_BAD", "KEYFRAMES_TIME_TYPE_BAD",
  "KEYFRAMES_TIME_BAD", "KEYFRAMES_TIME_DUPLICATE", "KEYFRAMES_POS_TYPE_BAD",
  "KEYFRAMES_POS_BAD"}
IndexSilent == \A k \in DOMAIN report : report[k].code \notin IndexCodes
Seekable(position) ==
  \E k \in DOMAIN file.tags : /\ file.tags[k].type = "VIDEO" /\ file.tags[k].frame = "KEY"
                              /\ file.pos[k] = position.number
IndexSeekable ==
  \A k \in KeyframeIndex :
    LET positions == Entries[k].positions.list IN
    \A n \in DOMAIN positions : Seekable(positions[n])

(* An index of keyframes the check has nothing to say about can be used to *)
(* seek: every position in it is that of a keyframe (check.c:1298-1418).   *)
KeyframesTrusted ==
  Prints("WARNING") /\ Finished /\ info.known /\ IndexSilent => IndexSeekable

----------------------------------------------------------------------------
(***************************************************************************)
(* The invariant the proofs rest on.                                       *)
(***************************************************************************)
Ended == pc = "END" \/ Finished
InTags == pc \in {"OPEN", "HEADER", "TAGS"}

(* The totals, and what the check returns.                                 *)
TotalsInv ==
  /\ ~opts.quiet => /\ errors = Cardinality(ErrorsOf(report))
                    /\ warnings = Cardinality(WarningsOf(report))
  /\ Finished => result = IF errors > 0 THEN "ERROR_INVALID_FLV_FILE" ELSE "OK"

(* Where the check is when a fatal message is printed, and when none is.   *)
FatalInv ==
  /\ pc = "OPEN" => i = 1 /\ report = <<>>
  /\ pc \in {"FINAL", "METADATA", "GLOBAL"} => i = End
  /\ pc = "METADATA" => onMetaData # 0
  /\ ~opts.quiet =>
       /\ Ended => i = End \/ (report # <<>> /\ IsFatal(report[Len(report)]))
       /\ Fatal(report) => pc \in {"END", "DONE"} /\ FatalsOf(report) = {Len(report)}

(* What is known of the tags read so far.                                  *)
LastOf(ks) == IF ks = {} THEN 0 ELSE Max(ks)
TimeAt(k) == IF k = 0 THEN 0 ELSE file.tags[k].time
FilledUntil(k, type) == {j \in Until(k, type) : file.tags[j].body > 0}
SeenInv ==
  /\ have = {type \in AV : Until(i - 1, type) # {}}
  /\ last = [type \in AV |-> TimeAt(LastOf(Until(i - 1, type)))]
  /\ prevOf = [type \in AV |-> LastOf(FilledUntil(i - 1, type))]
  /\ desync <=> \E j \in Checked : ApartAt(j)
  /\ unknowns = IF i > 1 /\ file.tags[i - 1].type = "OTHER" THEN 1 ELSE 0

(* The codes the properties look for are only used for tags.               *)
AboutInv ==
  InTags => \A k \in DOMAIN report : report[k].tag >= i => report[k].code \notin TagCodes

ReportInv ==
  /\ TypeOK /\ TotalsInv /\ FatalInv /\ SeenInv /\ AboutInv
  /\ FatalEnds /\ DecreaseReported /\ FormatsCompared /\ DesyncOnce /\ FirstMetaDataChecked

(* When the index of keyframes has been compared with the file.            *)
IndexInv ==
  /\ info.known => onMetaData # 0 /\ pc \in {"METADATA", "GLOBAL", "END", "DONE"}
  /\ Prints("WARNING") /\ pc \in {"GLOBAL", "END", "DONE"} /\ info.known /\ IndexSilent =>
       IndexSeekable

CheckInv == ReportInv /\ IndexInv
=============================================================================
