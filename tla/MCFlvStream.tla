---------------------------- MODULE MCFlvStream ----------------------------
(***************************************************************************)
(* Small files for FlvStream: at most two tags, with the sizes of the      *)
(* format, whole or cut off at the offsets where the reads differ.         *)
(***************************************************************************)
EXTENDS FlvStream, Sequences

(* AMF elements by the bytes they consume and the size they count for.     *)
Amf(used, size) == [ok |-> TRUE, used |-> used, size |-> size, hitsEnd |-> FALSE]
BadAmf(used) == [ok |-> FALSE, used |-> used, size |-> 1, hitsEnd |-> FALSE]

Body(len, ext, name, data) ==
  [len |-> len, ext |-> ext, name |-> name, data |-> data]

(* The first seven bodies are followed without losing the tags; the        *)
(* metadata of the others do not fit.                                      *)
Bodies ==
  << Body(0, FALSE, BadAmf(1), BadAmf(1)),     \* empty
     Body(1, TRUE, BadAmf(1), BadAmf(1)),      \* extended header, no codec
     Body(6, TRUE, BadAmf(3), BadAmf(1)),      \* extended header and codec
     Body(5, FALSE, Amf(2, 2), Amf(3, 3)),     \* metadata
     Body(7, FALSE, Amf(2, 2), Amf(3, 3)),     \* two bytes remain
     Body(4, FALSE, Amf(2, 2), Amf(3, 3)),     \* one byte is missing
     Body(4, FALSE, Amf(2, 2), BadAmf(1)),     \* value of an unknown type
     Body(2, FALSE, Amf(2, 2), BadAmf(1)),     \* only a name
     Body(5, FALSE, Amf(2, 2), Amf(6, 3)),     \* consumes more than its size
     Body(3, FALSE, Amf(2, 2), Amf(20, 20)),   \* runs far beyond the tag
     Body(5, FALSE, Amf(2, 2),                 \* array cut off at the end
          [ok |-> TRUE, used |-> 2, size |-> 3, hitsEnd |-> TRUE]) >>

Fitting == 1 .. 7
NameOnly == 8
LongValue == 10
CutArray == 11

(* Where the tags of a list of bodies start, and where the list ends.      *)
Start(list) ==
  LET start[i \in 1 .. Len(list) + 1] ==
        IF i = 1 THEN HeaderSize + PrevTagSize
        ELSE start[i - 1] + TagSize + Bodies[list[i - 1]].len + PrevTagSize
  IN start

(* A file of the given bodies, cut off at size.  Bytes that start no tag   *)
(* read as a tag of one byte, or as an unknown AMF type.                   *)
File(list, size, isFlv) ==
  LET start == Start(list)
      at(o) == {Bodies[list[i]] : i \in {j \in DOMAIN list : start[j] = o}}
      named(o) == {Bodies[list[i]] : i \in {j \in DOMAIN list :
                     start[j] + TagSize + Bodies[list[j]].name.used = o}}
      the(S) == CHOOSE b \in S : TRUE
      followed(i) == i = 1 \/ start[i - 1] + TagSize <= size
  IN [size |-> size, isFlv |-> isFlv,
      tags |-> {start[i] : i \in {j \in DOMAIN start : followed(j)}},
      length |-> [o \in 0 .. size |-> IF at(o) # {} THEN the(at(o)).len ELSE 1],
      extended |-> [o \in 0 .. size |->
                      at(o - TagSize) # {} /\ the(at(o - TagSize)).ext],
      amf |-> [o \in 0 .. size |->
                 IF at(o - TagSize) # {} THEN the(at(o - TagSize)).name
                 ELSE IF named(o) # {} THEN the(named(o)).data
                 ELSE BadAmf(1)]]

(* The whole file, and cuts in the header, after it, in the last body and  *)
(* in the last previous tag size.                                          *)
Whole(list) == Start(list)[Len(list) + 1]
Cuts(list) ==
  {5, HeaderSize + PrevTagSize, Whole(list), Whole(list) - 1,
   Whole(list) - PrevTagSize - 1}

(* A file is named by its bodies, its size and whether it is an FLV file.  *)
FilesOf(lists) == UNION {{<<l, n, TRUE>> : n \in Cuts(l)} : l \in lists}

FittingFiles ==
  FilesOf({<<b>> : b \in Fitting} \cup (Fitting \X Fitting))
    \cup {<< <<>>, HeaderSize, FALSE >>}
OtherFiles ==
  FilesOf({<<b, c>> : b \in Fitting, c \in NameOnly .. LongValue})
    \cup FilesOf({<<b, c>> : b \in NameOnly .. LongValue, c \in 1 .. LongValue})
    \cup {<< <<1, CutArray>>, Whole(<<1, CutArray>>) - PrevTagSize - 1, TRUE>>}
SmallFiles == FittingFiles \cup OtherFiles
SmallContents == [f \in SmallFiles |-> File(f[1], f[2], f[3])]

(* TLC evaluates the definition a configuration names wherever the         *)
(* constant occurs, and those it refers to once.                           *)
AnyFiles == SmallFiles
AnyContents == SmallContents

ASSUME \A f \in FittingFiles \cap Files : MetadataFits(Contents[f])

MCBufferSizes == {1, 4}
=============================================================================
