----------------------------- MODULE MCFlvCheck -----------------------------
(* Small files for FlvCheck.  A tag header takes two bytes and a previous  *)
(* tag size one; a second is two units of time and a wrap 14 of 16.        *)
EXTENDS FlvCheck

Plain == [format |-> "PLAIN", rate44 |-> TRUE, stereo |-> TRUE]
Base == [type |-> "OTHER", time |-> 0, body |-> 1, streamZero |-> TRUE, room |-> TRUE,
         prev |-> "OK", audio |-> Plain, frame |-> "INTER", codec |-> "AVC",
         reads |-> TRUE, sized |-> "NO_SIZE", read |-> "OK", name |-> "other",
         left |-> 0, assoc |-> TRUE, entries |-> <<>>]
Audio(t, a) == [Base EXCEPT !.type = "AUDIO", !.time = t, !.audio = a]
Video(t, frame, codec, sized) ==
  [Base EXCEPT !.type = "VIDEO", !.time = t, !.frame = frame, !.codec = codec, !.sized = sized]
Meta(t, name, entries) ==
  [Base EXCEPT !.type = "META", !.time = t, !.name = name, !.entries = entries]

(* Entries of onMetaData.                                                  *)
None == [type |-> "MISSING", list |-> <<>>]
Lists(numbers) == [type |-> "ARRAY",
                   list |-> [k \in DOMAIN numbers |-> [type |-> "NUMBER", number |-> numbers[k]]]]
Value(name, type, number) ==
  [name |-> name, type |-> type, number |-> number, times |-> None, positions |-> None]
Index(times, positions) ==
  [name |-> "keyframes", type |-> "OBJECT", number |-> 0, times |-> times,
   positions |-> positions]
OtherList == [type |-> "OTHER", list |-> <<>>]
MixedList == [type |-> "ARRAY", list |-> <<[type |-> "OTHER", number |-> 0]>>]
Names == <<"hasMetadata", "hasVideo", "duration", "lasttimestamp", "width", "height",
           "stereo", "filesize", "datasize", "videosize", "audiosize", "audiodelay",
           "canSeekToEnd", "hasKeyframes", "metadatadate">>
AsTyped(number) ==
  [k \in DOMAIN Names |-> Value(Names[k], TypeOf(Names[k]), number)]
  \o <<Index(Lists(<<number>>), Lists(<<8 * number>>))>>
MisTyped == <<Value("width", "STRING", 0), Value("stereo", "NUMBER", 0),
              Value("keyframes", "NUMBER", 0), Index(None, OtherList),
              Index(OtherList, OtherList), Index(MixedList, MixedList)>>

Kinds == <<
  Meta(0, "onMetaData", AsTyped(1)), Meta(0, "onMetaData", AsTyped(0)),
  [Meta(3, "onMetaData", MisTyped) EXCEPT !.assoc = FALSE, !.left = 1, !.body = 2],
  Meta(1, "onLastSecond", <<>>), Meta(4, "", <<>>),
  Audio(0, Plain), Audio(3, [Plain EXCEPT !.format = "AAC", !.stereo = FALSE]),
  Video(0, "KEY", "AVC", "SIZE"), Video(3, "INTER", "H263", "NO_SIZE"),
  Video(15, "KEY", "AVC", "EOF"), [Video(1, "KEY", "AVC", "SIZE") EXCEPT !.body = 0],
  Base>>
MoreKinds == <<
  [Meta(0, "other", <<>>) EXCEPT !.read = "BAD_NAME", !.name = "none", !.prev = "BAD"],
  [Meta(0, "none", <<>>) EXCEPT !.streamZero = FALSE],
  [Meta(0, "other", <<>>) EXCEPT !.read = "BAD_DATA", !.left = -1],
  [Meta(0, "prefix", <<>>) EXCEPT !.left = -1],
  Meta(0, "onMetaData", <<Index(Lists(<<1>>), Lists(<<8, 9>>))>>),
  [Meta(0, "onMetaData", <<>>) EXCEPT !.assoc = FALSE],
  Audio(1, [Plain EXCEPT !.format = "NELLYMOSER"]), Audio(1, [Plain EXCEPT !.format = "PCM"]),
  Audio(1, [Plain EXCEPT !.format = "UNKNOWN"]), Audio(1, [Plain EXCEPT !.format = "RESERVED"]),
  [Audio(1, [Plain EXCEPT !.format = "AAC", !.rate44 = FALSE]) EXCEPT !.body = 9],
  Video(1, "UNKNOWN", "UNKNOWN", "NO_SIZE"), Video(1, "KEY", "JPEG", "NO_SIZE")>>
Fatals == <<
  [Base EXCEPT !.room = FALSE], [Audio(0, Plain) EXCEPT !.prev = "EOF"],
  [Video(0, "KEY", "AVC", "SIZE") EXCEPT !.reads = FALSE],
  [Meta(0, "none", <<>>) EXCEPT !.read = "EOF"]>>

Sized(tags) ==
  LET pos[k \in 1 .. Len(tags) + 1] ==
        IF k = 1 THEN HeaderSize + PrevTagSize
        ELSE pos[k - 1] + TagSize + tags[k - 1].body + PrevTagSize
  IN pos
File(tags, has, tail) ==
  [header |-> "OK", version |-> TRUE, reserved |-> TRUE, offset |-> TRUE, has |-> has,
   firstPrev |-> "ZERO", tags |-> tags, pos |-> Sized(tags), tail |-> tail]
Of(kinds) == {kinds[k] : k \in DOMAIN kinds}
Shorter(kinds, n) == UNION {[1 .. k -> Of(kinds)] : k \in 0 .. n}
OddFiles ==
  LET f == File(<<Base>>, {}, 0) IN
  {[f EXCEPT !.header = "EOF"], [f EXCEPT !.header = "NO_SIGNATURE"],
   [f EXCEPT !.version = FALSE, !.reserved = FALSE, !.offset = FALSE, !.firstPrev = "BAD"],
   [File(<<>>, AV, 0) EXCEPT !.firstPrev = "EOF"], File(<<>>, AV, 1)}

MCFiles ==
  {File(tags, AV, 0) : tags \in Shorter(Kinds, 3)}
  \union {File(tags, {"AUDIO"}, 1) : tags \in Shorter(Kinds, 1)}
  \union {File(tags, {"VIDEO"}, 0) : tags \in Shorter(Kinds \o MoreKinds, 2)}
  \union {File(<<t, u>>, {}, 0) : t \in Of(Kinds), u \in Of(Fatals)}
  \union OddFiles
MCOptions == [level : DOMAIN Rank, quiet : {FALSE}] \union [level : {"WARNING"}, quiet : {TRUE}]
=============================================================================
