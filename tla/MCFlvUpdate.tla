---------------------------- MODULE MCFlvUpdate ----------------------------
(* Inputs of FlvUpdate for model checking: every sequence of up to two     *)
(* tags taken from a small set, and some longer ones.  Sizes are those of  *)
(* the format; the counter of wrapped timestamps counts to 4 instead of    *)
(* 256, which keeps timestamps within the integers of TLC.                 *)
EXTENDS FlvUpdate, TLC

Base == [type |-> "AUDIO", body |-> 5, there |-> 5, time |-> 0, key |-> FALSE,
         decodes |-> TRUE, read |-> "OK", name |-> "none"]

Audio(time, body) == [Base EXCEPT !.time = time, !.body = body, !.there = body]
Video(time, body, key) ==
  [Audio(time, body) EXCEPT !.type = "VIDEO", !.key = key]
Meta(time, body, name) ==
  [Audio(time, body) EXCEPT !.type = "META", !.name = name]

Input(tags) ==
  LET pos[k \in 1 .. Len(tags) + 1] ==
        IF k = 1 THEN HeaderSize + PrevTagSize
        ELSE pos[k - 1] + TagSize + tags[k - 1].body + PrevTagSize
  IN [isFlv |-> TRUE, tags |-> tags, pos |-> pos]

(* Tags of all kinds, whole ones and, last in an input, cut off ones.      *)
SomeTags == {
  Meta(0, 20, "onMetaData"), Meta(0, 12, "onLastSecond"), Meta(0, 4, "prefix"),
  [Meta(5, 30, "none") EXCEPT !.read = "BAD_NAME"],
  [Meta(0, 40, "other") EXCEPT !.read = "BAD_DATA"],
  Audio(0, 7), Audio(2001, 9), Audio(2500, 0),
  Video(0, 12, TRUE), Video(1001, 3, TRUE), Video(2001, 50, TRUE),
  Video(2001, 8, FALSE),
  [Audio(7, 60) EXCEPT !.type = "OTHER"] }
CutTags == {
  [Audio(2001, 9) EXCEPT !.there = 4],
  [Video(2001, 12, TRUE) EXCEPT !.there = 0, !.decodes = FALSE],
  [Meta(2001, 20, "onMetaData") EXCEPT !.there = 15],
  [Meta(0, 20, "none") EXCEPT !.there = 3, !.read = "EOF"] }

Short == {<<>>} \union {<<a>> : a \in SomeTags} \union (SomeTags \X SomeTags)
Cut == {Append(s, t) : s \in {<<>>} \union {<<a>> : a \in SomeTags}, t \in CutTags}

(* Files with an onMetaData first, keyframes on both sides of the last     *)
(* second, timestamps that start late or wrap.                             *)
LastByte == 16777200
Long == {
  <<Meta(0, 20, "onMetaData"), Video(0, 12, TRUE), Audio(3, 7), Video(1500, 9, FALSE),
    Video(2500, 12, TRUE), Audio(2600, 6), Video(3001, 12, TRUE)>>,
  <<Video(5000, 12, TRUE), Audio(5000, 7), Video(6100, 12, TRUE), Video(6100, 13, TRUE),
    Video(7101, 12, TRUE), Meta(7101, 12, "other")>>,
  <<Meta(0, 20, "onMetaData"), Meta(0, 25, "onMetaData"), Video(40, 12, TRUE),
    Meta(40, 9, "onLastSecond"), Video(1040, 12, FALSE)>>,
  <<Video(LastByte - 3000, 12, TRUE), Video(LastByte, 12, TRUE), Video(10, 12, TRUE),
    Video(500, 12, TRUE), Video(1500, 12, FALSE)>>,
  <<Audio(LastByte, 12), Audio(8, 5), Audio(LastByte, 12), Audio(7, 5),
    Audio(LastByte, 12), Audio(6, 5), Audio(LastByte, 12), Audio(5, 5)>> }

MCInputs ==
  {Input(tags) : tags \in Short \union Cut \union Long}
  \union {[Input(<<>>) EXCEPT !.isFlv = FALSE]}
MCOptions ==
  [insert : BOOLEAN, reset : BOOLEAN, allKeyframes : BOOLEAN,
   onError : {"EXIT", "FIX", "IGNORE"}]

RoundingTimes == {1001, 1003, 1005, 1007}
============================================================================
