----------------------------- MODULE MCFlvDump -----------------------------
(***************************************************************************)
(* Small files and values for FlvDump: one or two tags of every kind,      *)
(* whole or cut off, and one file whose metadata holds every short string, *)
(* as the value, as an item, and as a name and value at several depths.    *)
(***************************************************************************)
EXTENDS FlvDump

Leaf(type) == [type |-> type, text |-> <<>>, items |-> <<>>]
Str(s) == [type |-> "string", text |-> s, items |-> <<>>]
Pair(s, v) == [name |-> s, data |-> v]
Of(type, items) == [type |-> type, text |-> <<>>, items |-> items]

Letters == <<"a", " ", "\n", "'", "\"", ":", "#", "-", "\\", "?", ",", "ctl">>
Few == 3   \* the letters the longer strings are made of

(* The strings of n of the first letters, in order.                        *)
StringsOf(letters, n) ==
  [i \in 1 .. letters ^ n |->
     [k \in 1 .. n |-> Letters[1 + (((i - 1) \div letters ^ (n - k)) % letters)]]]

(* A string in every place of a value.                                     *)
TwiceIn(s) == Of("object", <<Pair(s, Str(s)), Pair(Word, Str(s))>>)
Everywhere(s) == Of("array", <<Pair(Word, Str(s)), Pair(Word, TwiceIn(s))>>)

(* An associative array with p and the strings one character longer that   *)
(* end with a letter of the given ones.                                    *)
StartingWith(p, from, to) ==
  LET strings == <<p>> \o [k \in 1 .. to - from + 1 |-> Append(p, Letters[from + k - 1])]
  IN  Of("assoc", [i \in DOMAIN strings |-> Pair(strings[i], Everywhere(strings[i]))])

EmptyOnes == {Of(t, <<>>) : t \in Composites}
Nested == Of("object", <<Pair(Word, Of("array", <<>>)),
                         Pair(Word, Of("array", <<Pair(Word, Of("assoc", <<>>)),
                                                  Pair(Word, Leaf("null"))>>))>>)
FileValues == {Nested, Leaf("number"), Str(<<>>)} \cup EmptyOnes
RangeOf(f) == {f[i] : i \in DOMAIN f}
StringValues ==
  {StartingWith(p, g, g + 3) : p \in RangeOf(StringsOf(Len(Letters), 2)), g \in {1, 5, 9}}
    \cup {StartingWith(p, 1, Few) : p \in RangeOf(StringsOf(Few, 3)) \cup RangeOf(StringsOf(Few, 4))}
    \cup {Str(s) : s \in RangeOf(StringsOf(Len(Letters), 1)) \cup RangeOf(StringsOf(Few, 2))
                            \cup RangeOf(StringsOf(Few, 3))}

----------------------------------------------------------------------------
Amf(used, size) == [ok |-> TRUE, used |-> used, size |-> size, hitsEnd |-> FALSE]
BadAmf == [ok |-> FALSE, used |-> 1, size |-> 1, hitsEnd |-> FALSE]

(* A tag: its body length, whether its video header is extended, what is   *)
(* in its packets and, for metadata, the elements of its name and value.   *)
TagOf(type, len, ext, packets, event, name, data) ==
  [type |-> type, len |-> len, ext |-> ext, packets |-> packets,
   event |-> event, name |-> name, data |-> data]
Plain(type, len, ext, packets) == TagOf(type, len, ext, packets, "x", BadAmf, BadAmf)
Meta(len, event, name, data) == TagOf("meta", len, FALSE, 0, event, name, data)

TagsOfFiles ==
  << Plain("audio", 0, FALSE, 0), Plain("audio", 2, FALSE, 0),
     Plain("audio", 2, FALSE, 1), Plain("audio", 1, FALSE, 1),
     Plain("video", 6, FALSE, 2), Plain("video", 3, FALSE, 2),
     Plain("video", 1, FALSE, 1), Plain("video", 2, FALSE, 1),
     Plain("video", 5, TRUE, 0), Plain("video", 2, TRUE, 0),
     Plain("video", 1, FALSE, 0), Plain("unknown", 1, FALSE, 0),
     Meta(5, "onMetaData", Amf(2, 2), Amf(3, 3)),
     Meta(5, "other", Amf(2, 2), Amf(3, 3)),
     Meta(5, Unnamed, Amf(2, 2), Amf(3, 3)),
     Meta(3, "onMetaData", Amf(2, 2), BadAmf),
     Meta(2, "onMetaData", Amf(2, 2), BadAmf),         \* only a name
     Meta(3, "onMetaData", Amf(2, 2), Amf(20, 20)) >>  \* runs beyond the tag
Metas == {13, 14}

(* A file of the given tags, cut off before its last bytes; what starts no *)
(* tag reads as an unknown tag of one byte.                                *)
Starts(bodies) ==
  LET start[i \in 1 .. Len(bodies) + 1] ==
        IF i = 1 THEN HeaderSize + PrevTagSize
        ELSE start[i - 1] + TagSize + bodies[i - 1].len + PrevTagSize
  IN start
NoTag == Plain("unknown", 1, FALSE, 0)
OneOf(S, default) == IF S = {} THEN default ELSE CHOOSE b \in S : TRUE
Laid(bodies, start, size, isFlv, values) ==
  LET tag(o) == OneOf({bodies[i] : i \in {j \in DOMAIN bodies : start[j] = o}}, NoTag)
      data(o) == OneOf({bodies[i].data : i \in {j \in DOMAIN bodies :
                          start[j] + TagSize + bodies[j].name.used = o}}, BadAmf)
      followed(i) == i = 1 \/ start[i - 1] + TagSize <= size
      offsets == {start[i] : i \in {j \in DOMAIN start : followed(j)}}
  IN [size |-> size, isFlv |-> isFlv, tags |-> offsets,
      length |-> [o \in 0 .. size |-> tag(o).len],
      extended |-> [o \in 0 .. size |-> tag(o - TagSize).ext],
      amf |-> [o \in 0 .. size |-> IF o - TagSize \in offsets THEN tag(o - TagSize).name
                                   ELSE data(o)],
      tag |-> [o \in 0 .. size |->
                 [type |-> tag(o).type, packets |-> tag(o).packets,
                  event |-> tag(o).event, values |-> values]]]
File(bodies, missing, isFlv, values) ==
  Laid(bodies, Starts(bodies), Starts(bodies)[Len(bodies) + 1] - missing, isFlv, values)

(* A file is named by its tags, the bytes missing at its end, whether it   *)
(* is an FLV file and the kind of its values.                              *)
Kinds == 1 .. 18
Cuts == {0, 1, 5}   \* whole, in the last field, at its body
SmallFiles ==
  {<<l, 0, TRUE, "one">> : l \in Kinds \X Kinds}
    \cup {<<l, n, TRUE, "one">> : l \in {<<b>> : b \in Kinds} \cup (Metas \X Metas), n \in Cuts}
    \cup {<< <<b>>, 0, TRUE, "few">> : b \in Metas}
    \cup {<< <<>>, 4, FALSE, "one">>, << <<>>, 8, TRUE, "one">>,
          << <<13>>, 0, TRUE, "strings">>}
ValuesOf(kind) ==
  CASE kind = "one" -> {Nested} [] kind = "few" -> FileValues
    [] kind = "strings" -> StringValues
SmallContents ==
  [f \in SmallFiles |->
     File([i \in DOMAIN f[1] |-> TagsOfFiles[f[1][i]]], f[2], f[3], ValuesOf(f[4]))]

Ask(format, whole, event) == [format |-> format, whole |-> whole, event |-> event]
SmallRequests ==
  [f \in SmallFiles |->
     IF f[4] = "strings" THEN {Ask("yaml", w, NoEvent) : w \in BOOLEAN}
     ELSE {Ask(m, TRUE, NoEvent) : m \in Formats}
            \cup {Ask(m, FALSE, e) : m \in Formats, e \in {NoEvent, "other"}}]

(* TLC evaluates the definition a configuration names wherever the         *)
(* constant occurs, and those it refers to once.                           *)
MCFiles == SmallFiles
MCContents == SmallContents
MCRequests == SmallRequests
MCBufferSizes == {1, 3, 4}
=============================================================================
