--------------------------- MODULE FlvDumpProofs ---------------------------
(***************************************************************************)
(* A dump is a user of the stream: every step it takes is a call that      *)
(* FlvStream describes, or none.  What is proved of the stream therefore   *)
(* holds during a dump, and the tags are shown in the order of the file.   *)
(* A dump of a file whose metadata fit shows every tag, and every event    *)
(* that is asked for.  What is printed in XML is well formed and what is   *)
(* printed in JSON is read back, whatever the file and however deep the    *)
(* values in it.                                                           *)
(***************************************************************************)
EXTENDS FlvDump, FlvStreamProofs, SequenceTheorems

(* One step per action of the dump: the call on the stream it makes.       *)
LEMMA StepOfStream == [DumpNext]_allVars => [Next]_vars
<1>. SUFFICES ASSUME [DumpNext]_allVars PROVE [Next]_vars
  OBVIOUS
<1>1. CASE OpenFile
  BY <1>1, Zenon DEF OpenFile
<1>2. CASE Header
  BY <1>2, Zenon DEF Header, Next
<1>3. CASE NextTagOrEnd
  BY <1>3, Zenon DEF NextTagOrEnd, Next
<1>4. CASE Audio
  BY <1>4, Zenon DEF Audio, Next
<1>5. CASE Video
  BY <1>5, Zenon DEF Video, Next
<1>6. CASE PacketType
  BY <1>6, PacketFieldsAssumption, Zenon DEF PacketType, Next
<1>7. CASE Composition
  BY <1>7, PacketFieldsAssumption, Zenon DEF Composition, Next
<1>8. CASE MetaData
  BY <1>8, Zenon DEF MetaData, Next
<1>9. CASE Unknown
  BY <1>9, Zenon DEF Unknown
<1>10. CASE PrevTagSizeField
  BY <1>10, Zenon DEF PrevTagSizeField, Next
<1>11. CASE EndOfStream
  BY <1>11, Zenon DEF EndOfStream
<1>12. CASE CloseFile
  BY <1>12, Zenon DEF CloseFile, Next
<1>13. CASE Finish
  BY <1>13, Zenon DEF Finish
<1>14. CASE Done \/ UNCHANGED allVars
  BY <1>14, Zenon DEF Done, allVars
<1>. QED
  BY <1>1, <1>2, <1>3, <1>4, <1>5, <1>6, <1>7, <1>8, <1>9, <1>10, <1>11, <1>12,
     <1>13, <1>14, Zenon DEF DumpNext

(* flv_parse and the dumpers use the stream as FlvStream describes it, in  *)
(* every format, for every file and event (flv.c:466-595, dump_*.c).       *)
THEOREM DumpUsesStream == DumpSpec => Spec
<1>1. DumpInit => Init
  BY DEF DumpInit
<1>. QED  BY <1>1, StepOfStream, PTL DEF DumpSpec, Spec

(* Types and cursor of the stream, during a dump of any file.              *)
THEOREM DumpKeepsStream == DumpSpec => []StreamInv
BY DumpUsesStream, StreamInvariant, PTL

----------------------------------------------------------------------------
(* The tags that were shown are in order, and none is after the tag the    *)
(* stream is at.                                                           *)
VisitedInv ==
  /\ visited \in Seq(Nat)
  /\ InOrder
  /\ \A i \in DOMAIN visited : visited[i] <= tagOffset

LEMMA AppendInOrder ==
  ASSUME NEW s \in Seq(Nat), NEW o \in Nat, NEW next \in Nat, o < next,
         \A i, j \in DOMAIN s : i < j => s[i] < s[j],
         \A i \in DOMAIN s : s[i] <= o
  PROVE  LET t == Append(s, next)
         IN  /\ t \in Seq(Nat)
             /\ \A i, j \in DOMAIN t : i < j => t[i] < t[j]
             /\ \A i \in DOMAIN t : t[i] <= next
<1>. DEFINE t == Append(s, next)
<1>1. /\ t \in Seq(Nat) /\ Len(t) = Len(s) + 1 /\ Len(s) \in Nat
      /\ DOMAIN s = 1 .. Len(s) /\ DOMAIN t = 1 .. Len(s) + 1
      /\ \A i \in 1 .. Len(s) : t[i] = s[i] /\ s[i] \in Nat
      /\ t[Len(s) + 1] = next
  OBVIOUS
<1>. HIDE DEF t
<1>2. ASSUME NEW i \in 1 .. Len(s) PROVE t[i] < next
  <2>1. t[i] = s[i] /\ s[i] \in Nat /\ s[i] <= o
    BY <1>1
  <2>. QED  BY ONLY <2>1, o \in Nat, next \in Nat, o < next
<1>3. \A i, j \in DOMAIN t : i < j => t[i] < t[j]
  <2>. SUFFICES ASSUME NEW i \in DOMAIN t, NEW j \in DOMAIN t, i < j
                PROVE  t[i] < t[j]
    OBVIOUS
  <2>1. i \in 1 .. Len(s)
    BY <1>1
  <2>2. CASE j = Len(s) + 1
    BY <1>1, <1>2, <2>1, <2>2
  <2>3. CASE j # Len(s) + 1
    <3>1. j \in 1 .. Len(s)
      BY <1>1, <2>3
    <3>. QED  BY <1>1, <2>1, <3>1
  <2>. QED  BY <2>2, <2>3
<1>4. \A i \in DOMAIN t : t[i] <= next
  BY <1>1, <1>2
<1>. QED  BY <1>1, <1>3, <1>4 DEF t

(* Only flv_read_tag moves the current tag, and only forwards: a dump      *)
(* never rewinds the stream.                                               *)
LEMMA TagMovesForward ==
  ASSUME StreamInv, [DumpNext]_allVars
  PROVE  \/ visited' = visited /\ tagOffset' >= tagOffset
         \/ visited' = Append(visited, tagOffset') /\ tagOffset' > tagOffset
<1>0. CursorInv /\ tagOffset \in Nat
  BY StreamInvParts DEF CursorInv
<1>1. CASE NextTagOrEnd
  <2>1. \/ visited' = visited
        \/ visited' = Append(visited, tagOffset') /\ result' = "OK"
    BY <1>1 DEF NextTagOrEnd
  <2>2. \/ tagOffset' = tagOffset /\ result' # "OK"
        \/ tagOffset' = NextTag /\ ~eof /\ state # "CLOSED"
    BY <1>1 DEF NextTagOrEnd, ReadTag, Refused, Usable, tagVars
  <2>3. ~eof /\ state # "CLOSED" => NextTag > tagOffset /\ NextTag \in Nat
    BY <1>0, SizesAssumption DEF NextTag, TagEnd, CursorInv, States
  <2>. QED  BY <1>0, <2>1, <2>2, <2>3
<1>2. CASE ~NextTagOrEnd
  <2>1. UNCHANGED <<visited, tagOffset>>
    <3>1. CASE OpenFile
      BY <3>1, Zenon DEF OpenFile, vars, tagVars
    <3>2. CASE Header
      BY <3>2, Zenon DEF Header, ReadHeader, Refused, tagVars
    <3>3. CASE Audio
      BY <3>3, Zenon DEF Audio, ReadAudioTag, NotInBody, EmptyBody, BodyMissing,
         Refused, tagVars
    <3>4. CASE Video
      BY <3>4, Zenon DEF Video, ReadVideoTag, NotInBody, EmptyBody, BodyMissing,
         Refused, tagVars
    <3>5. CASE PacketType
      BY <3>5, Zenon DEF PacketType, ReadTagBody, tagVars
    <3>6. CASE Composition
      BY <3>6, Zenon DEF Composition, ReadTagBody, tagVars
    <3>7. CASE MetaData
      BY <3>7, Zenon DEF MetaData, ReadMetadata, NotInBody, EmptyBody, Refused,
         tagVars
    <3>8. CASE Unknown
      BY <3>8, Zenon DEF Unknown, vars, tagVars
    <3>9. CASE PrevTagSizeField
      BY <3>9, Zenon DEF PrevTagSizeField, ReadPrevTagSize, Refused, tagVars
    <3>10. CASE EndOfStream
      BY <3>10, Zenon DEF EndOfStream, vars, tagVars
    <3>11. CASE CloseFile
      BY <3>11, Zenon DEF CloseFile, Close, tagVars
    <3>12. CASE Finish
      BY <3>12, Zenon DEF Finish, vars, tagVars
    <3>13. CASE Done \/ UNCHANGED allVars
      BY <3>13, Zenon DEF Done, allVars, dumpVars, vars, tagVars
    <3>. QED
      BY <1>2, <3>1, <3>2, <3>3, <3>4, <3>5, <3>6, <3>7, <3>8, <3>9, <3>10,
         <3>11, <3>12, <3>13, Zenon DEF DumpNext
  <2>. QED  BY <1>0, <2>1
<1>. QED  BY <1>1, <1>2

LEMMA VisitedStep ==
  ASSUME StreamInv, StreamInv', VisitedInv, [DumpNext]_allVars
  PROVE  VisitedInv'
<1>0. /\ tagOffset \in Nat /\ tagOffset' \in Nat
      /\ \A i \in DOMAIN visited : visited[i] \in Nat
  BY DEF StreamInv, TypeOK, VisitedInv
<1>1. CASE visited' = visited /\ tagOffset' >= tagOffset
  BY <1>0, <1>1 DEF VisitedInv, InOrder
<1>2. CASE visited' = Append(visited, tagOffset') /\ tagOffset' > tagOffset
  <2>1. /\ visited \in Seq(Nat) /\ tagOffset < tagOffset'
        /\ \A i, j \in DOMAIN visited : i < j => visited[i] < visited[j]
        /\ \A i \in DOMAIN visited : visited[i] <= tagOffset
    BY <1>0, <1>2 DEF VisitedInv, InOrder
  <2>. DEFINE t == Append(visited, tagOffset')
  <2>2. /\ t \in Seq(Nat)
        /\ \A i, j \in DOMAIN t : i < j => t[i] < t[j]
        /\ \A i \in DOMAIN t : t[i] <= tagOffset'
    BY ONLY <1>0, <2>1, AppendInOrder
  <2>. QED
    BY ONLY <1>2, <2>2 DEF VisitedInv, InOrder
<1>. QED  BY <1>1, <1>2, TagMovesForward

(* A dump shows the tags of a file in order and none twice, whatever the   *)
(* file holds and however its metadata mislead the stream (flv.c:490-585). *)
THEOREM TagsShownInOrder == DumpSpec => []InOrder
<1>1. DumpInit => VisitedInv
  BY DEF DumpInit, VisitedInv, InOrder
<1>2. StreamInv /\ StreamInv' /\ VisitedInv /\ [DumpNext]_allVars => VisitedInv'
  BY VisitedStep
<1>3. VisitedInv => InOrder
  BY DEF VisitedInv
<1>. QED  BY <1>1, <1>2, <1>3, DumpKeepsStream, PTL DEF DumpSpec
----------------------------------------------------------------------------
(***************************************************************************)
(* What a dump that ends without an error has shown.  The tags shown are   *)
(* those before the one flv_read_tag comes to next: the first, and with    *)
(* each tag the one after it, up to that one.                              *)
(***************************************************************************)
FirstTag == HeaderSize + PrevTagSize
After(o) == o + TagSize + LengthAt(o) + PrevTagSize
InFile == {o \in Tags : o + TagSize <= Size}
AllBefore(S, n) ==
  /\ S \subseteq InFile
  /\ FirstTag \in S \cup {n}
  /\ \A o \in S : After(o) \in S \cup {n}

Members(s) == {s[i] : i \in DOMAIN s}
OffsetsOf(s) == {s[i].offset : i \in DOMAIN s}
Seen == Members(visited)
Shown == OffsetsOf(events)
AskedTags == {o \in Tags : IsAsked(o)}
FirstAsked == {o \in AskedTags : \A p \in AskedTags : o <= p}

(* Where the stream is when flv_parse comes to each of its steps.          *)
InTag == pc \in {"decode", "packet", "composition", "prev"}
PlaceInv ==
  /\ pc \in {"open", "header"} => state = "START" /\ pos = 0 /\ ~eof
  /\ pc = "tag" => state \in {"PREV_TAG_SIZE", "TAG"} /\ ~eof
  /\ pc = "decode" => /\ state = "TAG_BODY" /\ ~eof /\ result = "OK"
                      /\ pos = tagOffset + TagSize /\ bodyLength = tagLength
  /\ InTag => /\ state \in {"TAG_BODY", "PREV_TAG_SIZE"}
              /\ tagOffset \in InFile /\ tagLength = LengthAt(tagOffset)
              /\ state = "PREV_TAG_SIZE" /\ ~eof => pos = TagEnd

(* A dump that was stopped by an error, or by the event it is asked for,   *)
(* says so in its status.                                                  *)
StatusInv ==
  /\ request \in Requests[file]
  /\ pc \notin {"close", "finish", "done"} => status = "OK"
  /\ status = "STOP_OK" => ~request.whole /\ request.event = NoEvent /\ pc # "done"

SeenInv ==
  /\ pc \in {"open", "header"} => Seen = {}
  /\ pc = "tag" => AllBefore(Seen, NextTag)
  /\ InTag => AllBefore(Seen, After(tagOffset)) /\ tagOffset \in Seen
  /\ pc \in {"end", "close", "finish"} /\ status = "OK" => Seen = InFile
  /\ pc = "done" /\ status = "OK" /\ request.whole => Seen = InFile

(* A metadata dump has shown what is asked for of the tags it has seen; at *)
(* "decode" the current tag is still to be looked at.                      *)
ShownInv ==
  ~request.whole =>
    /\ pc \notin {"decode", "done"} /\ status = "OK" => Shown = Seen \cap AskedTags
    /\ pc = "decode" => /\ Shown \subseteq Seen \cap AskedTags
                        /\ (Seen \ {tagOffset}) \cap AskedTags \subseteq Shown
    /\ request.event = NoEvent /\ status = "OK" /\ pc # "done" => Shown = {}
    /\ status = "STOP_OK" => Shown = FirstAsked
    /\ pc = "done" /\ status = "OK" =>
         Shown = IF request.event = NoEvent THEN FirstAsked ELSE AskedTags

EventTypes == events \in Seq([offset : Nat, value : Values])
DumpInv == PlaceInv /\ StatusInv /\ EventTypes /\ SeenInv /\ ShownInv

----------------------------------------------------------------------------
(* Every tag but the first follows one whose header is in the file.        *)
LEMMA TagBefore ==
  ASSUME file \in Files, NEW o \in Tags, o # FirstTag
  PROVE  \E p \in InFile : o = After(p) /\ p \in Nat /\ p < o
<1>1. PICK p \in Tags : /\ p + TagSize <= Size
                        /\ o = p + TagSize + LengthAt(p) + PrevTagSize
  BY FilesAssumption DEF IsFile, Tags, Size, LengthAt, FirstTag
<1>2. p \in Nat /\ Size \in Nat
  BY TagFacts, FileFacts
<1>3. LengthAt(p) \in Nat
  BY <1>1, <1>2, FileFacts, SizesAssumption
<1>. QED  BY <1>1, <1>2, <1>3, SizesAssumption DEF InFile, After

(* By induction along the tags: the tags before n are all there.           *)
LEMMA TagsBefore ==
  ASSUME file \in Files, NEW S, NEW n \in Nat, AllBefore(S, n)
  PROVE  \A o \in Tags : o < n => o \in S
<1>. DEFINE Absent == {o \in Tags : o < n /\ o \notin S}
<1>1. ASSUME Absent # {} PROVE FALSE
  <2>1. Absent \in SUBSET Nat
    BY TagFacts
  <2>2. PICK o \in Absent : \A y \in Absent : o <= y
    BY <1>1, <2>1, LeastElement
  <2>3. o \in Tags /\ o < n /\ o \notin S /\ o \in Nat
    BY <2>1, <2>2
  <2>4. CASE o = FirstTag
    BY <2>3, <2>4 DEF AllBefore
  <2>5. CASE o # FirstTag
    <3>1. PICK p \in InFile : o = After(p) /\ p \in Nat /\ p < o
      BY <2>3, <2>5, TagBefore
    <3>2. p \notin Absent
      BY <2>2, <2>3, <3>1
    <3>3. p \in Tags /\ p < n
      BY <2>3, <3>1 DEF InFile
    <3>4. p \in S
      BY <3>2, <3>3
    <3>. QED  BY <2>3, <3>1, <3>4 DEF AllBefore
  <2>. QED  BY <2>4, <2>5
<1>. QED  BY <1>1

(* When there is no room for the next tag, all have been seen.             *)
LEMMA AllSeen ==
  ASSUME file \in Files, NEW S, NEW n \in Nat, AllBefore(S, n), n + TagSize > Size
  PROVE  S = InFile
<1>1. \A o \in InFile : o \in Nat /\ o < n
  BY TagFacts, FileFacts, SizesAssumption DEF InFile
<1>. QED  BY <1>1, TagsBefore DEF InFile, AllBefore

(* A tag more.                                                             *)
LEMMA OneMoreTag ==
  ASSUME file \in Files, NEW S, NEW n \in InFile, AllBefore(S, n)
  PROVE  AllBefore(S \cup {n}, After(n))
BY DEF AllBefore

----------------------------------------------------------------------------
(* In a file whose metadata fit, what is read of a body leaves the stream  *)
(* in the tag, or before the field that follows it.                        *)
BodyPlace ==
  /\ state \in {"TAG_BODY", "PREV_TAG_SIZE"}
  /\ state = "PREV_TAG_SIZE" /\ ~eof => pos = TagEnd

LEMMA BodyStep ==
  ASSUME MetadataFits(Contents[file]), CursorInv, BoundaryPart, BodyPlace,
         \/ ReadAudioTag
         \/ ReadVideoTag
         \/ ReadMetadata
         \/ \E n \in BufferSizes : ReadTagBody(n)
  PROVE  BodyPlace' /\ tagOffset' = tagOffset /\ tagLength' = tagLength
<1>. USE SizesAssumption
<1>f. /\ Size \in Nat
      /\ \A o \in 0 .. Size : /\ AmfAt(o).used \in Nat \ {0}
                              /\ AmfAt(o).size \in Nat \ {0}
  BY FileFacts DEF CursorInv
<1>e. state = "TAG_BODY" => /\ TagEnd \in Nat /\ tagOffset \in Tags
                            /\ tagLength = LengthAt(tagOffset)
  BY DEF BoundaryPart, OnBoundary, CursorInv, TagEnd
<1>g. SUFFICES
        /\ tagOffset' = tagOffset /\ tagLength' = tagLength
        /\ state' \in {"TAG_BODY", "PREV_TAG_SIZE"}
        /\ state' = "PREV_TAG_SIZE" /\ ~eof' => pos' = TagEnd
  BY DEF BodyPlace, TagEnd
<1>1. CASE ReadAudioTag
  BY <1>1, <1>e, <1>f DEF ReadAudioTag, NotInBody, EmptyBody, BodyMissing,
     HasBody, InBody, Refused, ReadPastEnd, Undecoded, BodyUsable, StateWith,
     tagVars, bodyVars, BoundaryPart, BodyAccount, BodyPlace, TagEnd, CursorInv
<1>2. CASE ReadVideoTag
  <2>1. CASE NotInBody \/ EmptyBody \/ BodyMissing
    BY <2>1 DEF NotInBody, EmptyBody, BodyMissing, InBody, Refused, ReadPastEnd,
       tagVars, bodyVars, BodyPlace, TagEnd
  <2>2. CASE HasBody
    <3>1. DEFINE left == bodyLength - 1
                 got == Got(pos + 1, FourccSize, left)
    <3>2. /\ left \in Nat /\ pos + 1 \in Nat /\ file \in Files
          /\ pos + bodyLength = TagEnd /\ state = "TAG_BODY"
      BY <1>2, <2>2 DEF ReadVideoTag, HasBody, InBody, Undecoded, BodyUsable,
         BoundaryPart, BodyAccount, CursorInv
    <3>3. got \in Nat /\ got <= left
      BY <3>2, GotBounds
    <3>. HIDE DEF got
    <3>4. /\ tagOffset' = tagOffset /\ tagLength' = tagLength
          /\ \/ pos' = pos + 1 /\ bodyLength' = left
             \/ pos' = pos + 1 + got /\ bodyLength' = left - got
          /\ state' = StateWith(bodyLength')
      BY <1>2, <2>2 DEF ReadVideoTag, HasBody, NotInBody, EmptyBody, BodyMissing,
         InBody, got, tagVars, bodyVars
    <3>. QED
      BY <3>2, <3>3, <3>4, <1>e DEF StateWith, TagEnd, CursorInv
  <2>. QED  BY <1>2, <2>1, <2>2 DEF ReadVideoTag
<1>3. CASE ReadMetadata
  <2>1. CASE ~(InBody /\ bodyLength > 0 /\ AmfAvailable(pos) /\ AmfAt(pos).ok)
    <3>1. AmfAvailable(pos) => AmfAt(pos).size \in Nat
      BY <1>f DEF AmfAvailable, CursorInv
    <3>2. \/ NotInBody
          \/ EmptyBody
          \/ /\ InBody /\ ReadPastEnd(pos)
             /\ UNCHANGED <<file, state, tagVars, bodyVars>>
          \/ /\ InBody /\ result' = "INVALID_METADATA_NAME"
             /\ UNCHANGED <<file, eof, state, tagVars, bodyVars>>
      BY <1>3, <2>1, <3>1 DEF ReadMetadata, CursorInv
    <3>3. /\ state' = state /\ tagOffset' = tagOffset /\ tagLength' = tagLength
          /\ state = "TAG_BODY" \/ (eof' = eof /\ pos' = pos)
      BY <3>2, Zenon DEF NotInBody, EmptyBody, InBody, Refused, ReadPastEnd, tagVars
    <3>. QED
      BY <3>3 DEF BodyPlace, TagEnd
  <2>2. CASE InBody /\ bodyLength > 0 /\ AmfAvailable(pos) /\ AmfAt(pos).ok
    <3>. DEFINE name == AmfAt(pos)
                at == pos + name.used
                data == AmfAt(at)
    <3>1. /\ state = "TAG_BODY" /\ ~eof
          /\ pos = tagOffset + TagSize /\ bodyLength = LengthAt(tagOffset)
          /\ pos \in 0 .. Size /\ at \in 0 .. Size /\ tagOffset \in Tags
      BY <1>3, <2>2, <1>e, <1>f DEF ReadMetadata, InBody, Undecoded, AmfAvailable,
         Available, CursorInv
    <3>2. /\ name.used = name.size /\ name.size < bodyLength
          /\ AmfAvailable(at) /\ data.ok => data.used = data.size
      <4>1. pos + 1 <= Size
        BY <2>2, <3>1, <1>f DEF CursorInv, AmfAvailable, Available
      <4>. QED
        BY <2>2, <3>1, <4>1, FitFacts DEF CursorInv
    <3>3. /\ name.used \in Nat \ {0} /\ name.size \in Nat
          /\ data.used \in Nat \ {0} /\ data.size \in Nat
      BY <3>1, <1>f
    <3>. QED
      <4>1. overflow = 0 /\ pos + bodyLength = TagEnd /\ bodyLength \in Nat /\ pos \in Nat
        BY <3>1, <1>e DEF CursorInv, TagEnd
      <4>2. /\ tagOffset' = tagOffset /\ tagLength' = tagLength
            /\ \/ state' = "TAG_BODY"
               \/ /\ data.ok /\ AmfAvailable(at)
                  /\ bodyLength' = Remaining(bodyLength - name.size, data.size)
                  /\ overflow' = Overflow(bodyLength - name.size, data.size)
                  /\ state' = StateWith(bodyLength')
                  /\ pos' = at + data.used - (IF bodyLength' = 0 THEN overflow' ELSE 0)
        BY <1>3, <2>2, <3>1, <3>2, <3>3, <4>1 DEF ReadMetadata, NotInBody, EmptyBody,
           ReadPastEnd, tagVars
      <4>. QED
        BY <3>2, <3>3, <4>1, <4>2 DEF Remaining, Overflow, Greater, StateWith
  <2>. QED
    BY <2>1, <2>2 DEF CursorInv
<1>4. CASE \E n \in BufferSizes : ReadTagBody(n)
  <2>. PICK n \in BufferSizes : ReadTagBody(n)
    BY <1>4
  <2>1. n \in Nat /\ pos \in Nat /\ bodyLength \in Nat /\ file \in Files
    BY DEF CursorInv
  <2>2. /\ Got(pos, n, bodyLength) \in Nat
        /\ Got(pos, n, bodyLength) <= bodyLength
    BY ONLY <2>1, GotBounds
  <2>3. CASE ~InBody
    BY <2>3 DEF ReadTagBody, BodyUsable, tagVars, bodyVars, BodyPlace, TagEnd
  <2>4. CASE InBody
    <3>. DEFINE got == Got(pos, n, bodyLength)
    <3>1. /\ tagOffset' = tagOffset /\ tagLength' = tagLength
          /\ pos' = pos + got /\ bodyLength' = bodyLength - got
          /\ state' = StateWith(bodyLength') /\ result = "OK" /\ state = "TAG_BODY"
      BY <2>4 DEF ReadTagBody, BodyUsable, InBody, tagVars
    <3>. QED
      BY <2>1, <2>2, <3>1, <1>e DEF StateWith, BoundaryPart, BodyAccount, TagEnd,
         CursorInv
  <2>. QED  BY <2>3, <2>4
<1>. QED  BY <1>1, <1>2, <1>3, <1>4

----------------------------------------------------------------------------
(* The length of a tag that is in the file.                                *)
LEMMA InFileFacts ==
  ASSUME file \in Files, NEW o \in InFile
  PROVE  /\ o \in Tags /\ o \in Nat /\ Size \in Nat /\ o + TagSize <= Size
         /\ o \in 0 .. Size /\ LengthAt(o) \in Nat /\ After(o) \in Nat
BY TagFacts, FileFacts, SizesAssumption DEF InFile, After

(* What is asked of a file does not change, nor does the file.             *)
LEMMA RequestKept == [DumpNext]_allVars => request' = request /\ file' = file
<1>1. [DumpNext]_allVars => request' = request
  BY Zenon DEF DumpNext, allVars, dumpVars, OpenFile, Header, NextTagOrEnd, Audio,
     Video, PacketType, Composition, MetaData, Unknown, PrevTagSizeField,
     EndOfStream, CloseFile, Finish, Done, Go, Stop
<1>. QED  BY <1>1, StepOfStream, FileKept

(* The steps of flv_parse and the callbacks that read the body of a tag.   *)
BodyAction == Audio \/ Video \/ PacketType \/ Composition \/ MetaData \/ Unknown

(* Each goes on in the tag, or stops the dump with an error or with the    *)
(* event asked for; none shows another tag.                                *)
LEMMA BodyActions ==
  ASSUME BodyAction
  PROVE  /\ pc \in {"decode", "packet", "composition"}
         /\ visited' = visited
         /\ \/ pc' \in {"packet", "composition", "prev"} /\ status' = status
            \/ pc' = "close" /\ status' \notin {"OK", "STOP_OK"} /\ events' = events
            \/ pc' = "close" /\ status' = "STOP_OK" /\ MetaData
<1>1. CASE Audio
  BY <1>1 DEF Audio, Go, Stop
<1>2. CASE Video
  BY <1>2 DEF Video, Go, Stop
<1>3. CASE PacketType
  BY <1>3 DEF PacketType, Go, Stop
<1>4. CASE Composition
  BY <1>4 DEF Composition, Go, Stop
<1>5. CASE MetaData
  BY <1>5 DEF MetaData, Go, Stop
<1>6. CASE Unknown
  BY <1>6 DEF Unknown, Go
<1>. QED  BY <1>1, <1>2, <1>3, <1>4, <1>5, <1>6 DEF BodyAction

(* Only a metadata dump shows events, and only MetaData does.              *)
LEMMA EventsKept ==
  ASSUME [DumpNext]_allVars, ~MetaData
  PROVE  events' = events
BY Zenon DEF DumpNext, allVars, dumpVars, OpenFile, Header, NextTagOrEnd, Audio,
   Video, PacketType, Composition, Unknown, PrevTagSizeField, EndOfStream,
   CloseFile, Finish, Done

(* A body action moves the stream as FlvStream says, or not at all.        *)
LEMMA BodyActionStep ==
  ASSUME MetadataFits(Contents[file]), CursorInv, BoundaryPart, BodyPlace, BodyAction
  PROVE  BodyPlace' /\ tagOffset' = tagOffset /\ tagLength' = tagLength
<1>1. CASE Unknown
  BY <1>1 DEF Unknown, vars, tagVars, BodyPlace, TagEnd
<1>2. CASE ~Unknown
  <2>1. \/ ReadAudioTag \/ ReadVideoTag \/ ReadMetadata
        \/ \E n \in BufferSizes : ReadTagBody(n)
    BY <1>2, PacketFieldsAssumption, Zenon DEF BodyAction, Audio, Video, PacketType,
       Composition, MetaData
  <2>. QED  BY <2>1, BodyStep
<1>. QED  BY <1>1, <1>2

(* The definitions about the file do not change.                           *)
LEMMA FileTermsKept ==
  ASSUME file' = file, request' = request
  PROVE  /\ InFile' = InFile /\ AskedTags' = AskedTags /\ FirstAsked' = FirstAsked
         /\ MetadataFits(Contents[file])' = MetadataFits(Contents[file])
         /\ \A o : LengthAt(o)' = LengthAt(o) /\ After(o)' = After(o)
         /\ \A S, n : AllBefore(S, n)' = AllBefore(S, n)
BY DEF InFile, AskedTags, FirstAsked, MetadataFits, LengthAt, After, AllBefore,
   IsAsked, Asked, AmfAvailable, Available, AmfAt, Tags, Size, FirstTag

(* Where the stream comes to with each step of flv_parse.                  *)
HeaderRead ==
  pc = "header" /\ pc' = "tag" /\ state' = "PREV_TAG_SIZE" /\ ~eof' /\ NextTag' = FirstTag
TagRead ==
  /\ pc = "tag" /\ pc' = "decode" /\ NextTag \in InFile
  /\ visited' = Append(visited, NextTag) /\ tagOffset' = NextTag
  /\ state' = "TAG_BODY" /\ eof' = eof /\ result' = "OK" /\ pos' = NextTag + TagSize
  /\ bodyLength' = tagLength' /\ tagLength' = LengthAt(NextTag)
NoTagRead == pc = "tag" /\ pc' = "end" /\ NextTag + TagSize > Size /\ NextTag \in Nat
FieldRead ==
  pc = "prev" /\ pc' = "tag" /\ state' = "TAG" /\ ~eof' /\ NextTag' = After(tagOffset)

(* One lemma per call: what becomes of the stream and of flv_parse.        *)
LEMMA HeaderMoves ==
  ASSUME CursorInv, PlaceInv, Header
  PROVE  /\ visited' = visited
         /\ \/ HeaderRead /\ status' = status
            \/ pc' = "close" /\ status' \notin {"OK", "STOP_OK"}
<1>1. state = "START" /\ pos = 0 /\ ~eof /\ pc = "header"
  BY DEF Header, PlaceInv
<1>2. result' # "OK" \/ (state' = "PREV_TAG_SIZE" /\ eof' = eof /\ pos' = HeaderSize)
  BY <1>1, SizesAssumption DEF Header, ReadHeader, Refused, ReadPastEnd
<1>3. result' \in {"OK", "EOF", "NO_FLV"}
  BY DEF Header, ReadHeader, Refused, ReadPastEnd
<1>4. state' = "PREV_TAG_SIZE" /\ pos' = HeaderSize => NextTag' = FirstTag
  BY DEF NextTag, FirstTag
<1>. QED  BY <1>1, <1>2, <1>3, <1>4 DEF Header, Go, Stop, HeaderRead

LEMMA TagMoves ==
  ASSUME CursorInv, BoundaryPart, PlaceInv, NextTagOrEnd
  PROVE  /\ status' = status
         /\ TagRead \/ (NoTagRead /\ visited' = visited)
<1>1. pc = "tag" /\ state \in {"PREV_TAG_SIZE", "TAG"} /\ ~eof
  BY DEF NextTagOrEnd, PlaceInv
<1>2. NextTag \in Tags /\ NextTag \in Nat
  BY <1>1, TagFacts DEF NextTag, BoundaryPart, OnBoundary, CursorInv
<1>3. \/ /\ NextTag + TagSize <= Size
         /\ tagOffset' = NextTag /\ state' = "TAG_BODY" /\ eof' = eof /\ result' = "OK"
         /\ pos' = NextTag + TagSize /\ bodyLength' = tagLength'
         /\ tagLength' = LengthAt(NextTag)
      \/ ~(NextTag + TagSize <= Size) /\ result' = "EOF"
  BY <1>1, Zenon DEF NextTagOrEnd, ReadTag, ReadPastEnd, Available
<1>4. Size \in Nat
  BY FileFacts DEF CursorInv
<1>. QED
  BY <1>1, <1>2, <1>3, <1>4, SizesAssumption DEF NextTagOrEnd, Go, TagRead, NoTagRead,
     InFile, NoMoreTags

LEMMA FieldMoves ==
  ASSUME CursorInv, PlaceInv, PrevTagSizeField
  PROVE  /\ visited' = visited
         /\ \/ FieldRead /\ status' = status
            \/ pc' = "close" /\ status' \notin {"OK", "STOP_OK"}
<1>1. pc = "prev" /\ BodyPlace /\ tagLength = LengthAt(tagOffset)
  BY DEF PrevTagSizeField, PlaceInv, InTag, BodyPlace
<1>2. \/ result' = "EOF"
      \/ /\ result' = "OK" /\ state' = "TAG" /\ ~eof'
         /\ pos' = TagEnd + PrevTagSize
  BY <1>1 DEF PrevTagSizeField, ReadPrevTagSize, Refused, ReadPastEnd, BodyPlace
<1>3. state' = "TAG" => NextTag' = pos'
  BY DEF NextTag
<1>4. TagEnd + PrevTagSize = After(tagOffset)
  BY <1>1 DEF TagEnd, After
<1>. QED  BY <1>1, <1>2, <1>3, <1>4 DEF PrevTagSizeField, Go, Stop, FieldRead

(* The steps of a dump, by what they do to the stream.                     *)
LEMMA StepCases ==
  ASSUME [DumpNext]_allVars
  PROVE  \/ OpenFile \/ Header \/ NextTagOrEnd \/ BodyAction \/ PrevTagSizeField
         \/ EndOfStream \/ CloseFile \/ Finish \/ UNCHANGED allVars
BY Zenon DEF DumpNext, BodyAction, Done

(* Steps that leave the stream alone.                                      *)
LEMMA StreamUnchanged ==
  ASSUME UNCHANGED vars
  PROVE  /\ UNCHANGED <<file, pos, eof, state, tagOffset, tagLength, bodyLength, result>>
         /\ NextTag' = NextTag /\ TagEnd' = TagEnd
BY DEF vars, NextTag, TagEnd

(* Where the stream is at each step of flv_parse, kept by every step.      *)
LEMMA PlaceStep ==
  ASSUME MetadataFits(Contents[file]), CursorInv, BoundaryPart, PlaceInv,
         [DumpNext]_allVars
  PROVE  PlaceInv'
<1>0. /\ InFile' = InFile /\ \A o : LengthAt(o)' = LengthAt(o)
  BY RequestKept, FileTermsKept
<1>1. CASE OpenFile
  <2>1. UNCHANGED vars /\ pc = "open" /\ pc' \in {"header", "finish"}
    BY <1>1 DEF OpenFile, Go
  <2>. QED  BY <2>1, StreamUnchanged DEF PlaceInv, InTag
<1>2. CASE Header
  BY <1>2, HeaderMoves DEF HeaderRead, PlaceInv, InTag
<1>3. CASE NextTagOrEnd
  <2>1. CASE NoTagRead
    BY <2>1 DEF NoTagRead, PlaceInv, InTag
  <2>2. CASE TagRead
    <3>1. ~eof
      BY <2>2 DEF TagRead, PlaceInv
    <3>2. LengthAt(tagOffset)' = LengthAt(NextTag)
      BY <2>2, RequestKept DEF TagRead, LengthAt
    <3>. QED
      BY <1>0, <2>2, <3>1, <3>2 DEF TagRead, PlaceInv, InTag
  <2>. QED  BY <1>3, <2>1, <2>2, TagMoves
<1>4. CASE BodyAction
  <2>1. pc \in {"decode", "packet", "composition"} /\ pc' \in {"packet", "composition", "prev", "close"}
    BY <1>4, BodyActions
  <2>2. BodyPlace /\ tagOffset \in InFile /\ tagLength = LengthAt(tagOffset)
    BY <2>1 DEF PlaceInv, InTag, BodyPlace
  <2>3. BodyPlace' /\ tagOffset' = tagOffset /\ tagLength' = tagLength
    BY <1>4, <2>2, BodyActionStep
  <2>4. LengthAt(tagOffset)' = LengthAt(tagOffset)
    BY <2>3, RequestKept DEF LengthAt
  <2>. QED
    BY <1>0, <2>1, <2>2, <2>3, <2>4 DEF PlaceInv, InTag, BodyPlace
<1>5. CASE PrevTagSizeField
  BY <1>5, FieldMoves DEF FieldRead, PlaceInv, InTag
<1>6. CASE EndOfStream \/ CloseFile \/ Finish
  <2>1. pc' \in {"close", "finish", "done"}
    BY <1>6 DEF EndOfStream, CloseFile, Finish, Go
  <2>. QED  BY <2>1 DEF PlaceInv, InTag
<1>7. CASE UNCHANGED allVars
  <2>1. UNCHANGED vars /\ pc' = pc
    BY <1>7 DEF allVars, dumpVars
  <2>2. LengthAt(tagOffset)' = LengthAt(tagOffset)
    BY <2>1, StreamUnchanged, RequestKept DEF LengthAt
  <2>. QED  BY <1>0, <2>1, <2>2, StreamUnchanged DEF PlaceInv, InTag
<1>. QED  BY <1>1, <1>2, <1>3, <1>4, <1>5, <1>6, <1>7, StepCases

(* The status, kept by every step: an error is never forgotten.            *)
LEMMA StatusStep ==
  ASSUME CursorInv, BoundaryPart, PlaceInv, StatusInv, [DumpNext]_allVars
  PROVE  StatusInv'
<1>0. request' = request /\ file' = file
  BY RequestKept
<1>1. CASE OpenFile
  BY <1>0, <1>1 DEF OpenFile, Go, StatusInv
<1>2. CASE Header
  BY <1>0, <1>2, HeaderMoves DEF HeaderRead, StatusInv
<1>3. CASE NextTagOrEnd
  BY <1>0, <1>3, TagMoves DEF TagRead, NoTagRead, StatusInv
<1>4. CASE BodyAction
  <2>1. MetaData /\ status' = "STOP_OK" /\ status = "OK" => ~request.whole /\ request.event = NoEvent
    BY DEF MetaData, Go, Stop, LastAsked
  <2>. QED  BY <1>0, <1>4, <2>1, BodyActions DEF StatusInv
<1>5. CASE PrevTagSizeField
  BY <1>0, <1>5, FieldMoves DEF FieldRead, StatusInv
<1>6. CASE EndOfStream
  BY <1>0, <1>6 DEF EndOfStream, StatusInv
<1>7. CASE CloseFile
  BY <1>0, <1>7 DEF CloseFile, Go, StatusInv
<1>8. CASE Finish
  BY <1>0, <1>8 DEF Finish, StatusInv
<1>9. CASE UNCHANGED allVars
  BY <1>0, <1>9 DEF allVars, dumpVars, StatusInv
<1>. QED  BY <1>1, <1>2, <1>3, <1>4, <1>5, <1>6, <1>7, <1>8, <1>9, StepCases

----------------------------------------------------------------------------
(* What a sequence and the offsets of a sequence hold after an addition.   *)
LEMMA RangeOfAppend ==
  ASSUME NEW T, NEW s \in Seq(T), NEW e \in T
  PROVE  Members(Append(s, e)) = Members(s) \cup {e}
<1>. DEFINE t == Append(s, e)
<1>1. /\ Len(s) \in Nat /\ DOMAIN s = 1 .. Len(s) /\ DOMAIN t = 1 .. Len(s) + 1
      /\ \A i \in 1 .. Len(s) : t[i] = s[i]
      /\ t[Len(s) + 1] = e
  OBVIOUS
<1>. HIDE DEF t
<1>2. \A i \in 1 .. Len(s) + 1 : i \in 1 .. Len(s) \/ i = Len(s) + 1
  BY <1>1
<1>3. 1 .. Len(s) \subseteq 1 .. Len(s) + 1 /\ Len(s) + 1 \in 1 .. Len(s) + 1
  BY <1>1
<1>4. {t[i] : i \in 1 .. Len(s) + 1} = {s[i] : i \in 1 .. Len(s)} \cup {e}
  BY <1>1, <1>2, <1>3, Zenon
<1>. QED  BY <1>1, <1>4 DEF t, Members

LEMMA OffsetsOfAppend ==
  ASSUME NEW T, NEW s \in Seq(T), NEW e \in T
  PROVE  OffsetsOf(Append(s, e)) = OffsetsOf(s) \cup {e.offset}
<1>. DEFINE t == Append(s, e)
<1>1. /\ Len(s) \in Nat /\ DOMAIN s = 1 .. Len(s) /\ DOMAIN t = 1 .. Len(s) + 1
      /\ \A i \in 1 .. Len(s) : t[i] = s[i]
      /\ t[Len(s) + 1] = e
  OBVIOUS
<1>. HIDE DEF t
<1>2. \A i \in 1 .. Len(s) + 1 : i \in 1 .. Len(s) \/ i = Len(s) + 1
  BY <1>1
<1>3. 1 .. Len(s) \subseteq 1 .. Len(s) + 1 /\ Len(s) + 1 \in 1 .. Len(s) + 1
  BY <1>1
<1>4. {t[i].offset : i \in 1 .. Len(s) + 1} = {s[i].offset : i \in 1 .. Len(s)} \cup {e.offset}
  BY <1>1, <1>2, <1>3, Zenon
<1>. QED  BY <1>1, <1>4 DEF t, OffsetsOf

(* Which tags have been seen, after each step.                             *)
LEMMA SeenStep ==
  ASSUME CursorInv, BoundaryPart, PlaceInv, StatusInv, SeenInv, VisitedInv,
         MetadataFits(Contents[file]), [DumpNext]_allVars
  PROVE  SeenInv'
<1>0. /\ InFile' = InFile /\ file' = file /\ request' = request
      /\ \A o : After(o)' = After(o)
      /\ \A S, n : AllBefore(S, n)' = AllBefore(S, n)
  BY RequestKept, FileTermsKept
<1>s. visited' = visited => Seen' = Seen
  BY DEF Seen
<1>f. file \in Files
  BY DEF CursorInv
<1>1. CASE OpenFile
  <2>1. /\ visited' = visited /\ pc = "open"
        /\ pc' = "header" \/ (pc' = "finish" /\ status' = "OPEN_READ")
    BY <1>1 DEF OpenFile, Go
  <2>. QED  BY <1>s, <2>1 DEF SeenInv, InTag
<1>2. CASE Header
  <2>1. pc = "header" /\ visited' = visited /\ Seen = {}
    BY <1>2, HeaderMoves DEF Header, SeenInv
  <2>2. CASE pc' = "close" /\ status' \notin {"OK", "STOP_OK"}
    BY <2>2 DEF SeenInv, InTag
  <2>3. CASE HeaderRead
    <3>1. AllBefore({}, FirstTag)
      BY DEF AllBefore
    <3>2. AllBefore(Seen, NextTag)'
      BY <1>0, <1>s, <2>1, <2>3, <3>1 DEF HeaderRead, AllBefore, FirstTag
    <3>. QED  BY <2>3, <3>2 DEF HeaderRead, SeenInv, InTag
  <2>. QED  BY <1>2, <2>2, <2>3, HeaderMoves
<1>3. CASE NextTagOrEnd
  <2>0. pc = "tag" /\ AllBefore(Seen, NextTag)
    BY <1>3 DEF NextTagOrEnd, SeenInv
  <2>1. CASE NoTagRead /\ visited' = visited
    <3>1. Seen = InFile
      BY <1>f, <2>0, <2>1, AllSeen DEF NoTagRead
    <3>. QED  BY <1>0, <1>s, <2>1, <3>1 DEF NoTagRead, SeenInv, InTag
  <2>2. CASE TagRead
    <3>1. NextTag \in InFile /\ NextTag \in Nat /\ visited \in Seq(Nat)
      BY <1>f, <2>2, InFileFacts DEF TagRead, VisitedInv
    <3>2. Seen' = Seen \cup {NextTag}
      <4>1. visited' = Append(visited, NextTag)
        BY <2>2 DEF TagRead
      <4>2. Members(Append(visited, NextTag)) = Members(visited) \cup {NextTag}
        BY <3>1, RangeOfAppend
      <4>. QED  BY <4>1, <4>2 DEF Seen
    <3>3. AllBefore(Seen \cup {NextTag}, After(NextTag))
      BY <1>f, <2>0, <3>1, OneMoreTag
    <3>4. AllBefore(Seen, After(tagOffset))' /\ tagOffset' \in Seen'
      <4>1. tagOffset' = NextTag
        BY <2>2 DEF TagRead
      <4>2. After(tagOffset)' = After(NextTag)
        BY <1>0, <4>1 DEF After, LengthAt
      <4>. QED  BY <1>0, <3>2, <3>3, <4>1, <4>2 DEF AllBefore, FirstTag
    <3>. QED  BY <2>2, <3>4 DEF TagRead, SeenInv, InTag
  <2>. QED  BY <1>3, <2>1, <2>2, TagMoves
<1>4. CASE BodyAction
  <2>1. /\ pc \in {"decode", "packet", "composition"} /\ visited' = visited
        /\ \/ pc' \in {"packet", "composition", "prev"}
           \/ pc' = "close" /\ status' # "OK"
    BY <1>4, BodyActions
  <2>2. BodyPlace
    BY <2>1 DEF PlaceInv, InTag, BodyPlace
  <2>3. tagOffset' = tagOffset
    BY <1>4, <2>2, BodyActionStep
  <2>4. AllBefore(Seen, After(tagOffset)) /\ tagOffset \in Seen
    BY <2>1 DEF SeenInv, InTag
  <2>5. AllBefore(Seen, After(tagOffset))' /\ tagOffset' \in Seen'
    <3>1. After(tagOffset)' = After(tagOffset)
      BY <1>0, <2>3 DEF After, LengthAt
    <3>. QED  BY <1>0, <1>s, <2>1, <2>3, <2>4, <3>1 DEF AllBefore, FirstTag
  <2>. QED  BY <2>1, <2>5 DEF SeenInv, InTag
<1>5. CASE PrevTagSizeField
  <2>1. pc = "prev" /\ visited' = visited /\ AllBefore(Seen, After(tagOffset))
    BY <1>5, FieldMoves DEF PrevTagSizeField, SeenInv, InTag
  <2>2. CASE pc' = "close" /\ status' \notin {"OK", "STOP_OK"}
    BY <2>2 DEF SeenInv, InTag
  <2>3. CASE FieldRead
    <3>1. AllBefore(Seen, NextTag)'
      BY <1>0, <1>s, <2>1, <2>3 DEF FieldRead, AllBefore, FirstTag
    <3>. QED  BY <2>3, <3>1 DEF FieldRead, SeenInv, InTag
  <2>. QED  BY <1>5, <2>2, <2>3, FieldMoves
<1>6. CASE EndOfStream
  <2>1. pc = "end" /\ pc' = "close" /\ visited' = visited /\ status' = status
    BY <1>6 DEF EndOfStream
  <2>. QED  BY <1>0, <1>s, <2>1 DEF SeenInv, InTag
<1>7. CASE CloseFile
  <2>1. pc = "close" /\ pc' = "finish" /\ visited' = visited /\ status' = status
    BY <1>7 DEF CloseFile, Go
  <2>. QED  BY <1>0, <1>s, <2>1 DEF SeenInv, InTag
<1>8. CASE Finish
  <2>1. /\ pc = "finish" /\ pc' = "done" /\ visited' = visited
        /\ status' = "OK" => status \in {"OK", "STOP_OK"}
    BY <1>8 DEF Finish
  <2>2. status = "STOP_OK" => ~request.whole
    BY DEF StatusInv
  <2>. QED  BY <1>0, <1>s, <2>1, <2>2 DEF SeenInv, InTag
<1>9. CASE UNCHANGED allVars
  <2>1. /\ UNCHANGED vars /\ pc' = pc /\ visited' = visited /\ status' = status
    BY <1>9 DEF allVars, dumpVars
  <2>2. NextTag' = NextTag /\ tagOffset' = tagOffset
    BY <2>1, StreamUnchanged
  <2>3. After(tagOffset)' = After(tagOffset)
    BY <1>0, <2>2 DEF After, LengthAt
  <2>4. AllBefore(Seen, NextTag)' = AllBefore(Seen, NextTag)
    BY <1>0, <1>s, <2>1, <2>2 DEF AllBefore, FirstTag
  <2>5. AllBefore(Seen, After(tagOffset))' = AllBefore(Seen, After(tagOffset))
    BY <1>0, <1>s, <2>1, <2>3 DEF AllBefore, FirstTag
  <2>. QED  BY <1>0, <1>s, <2>1, <2>2, <2>4, <2>5 DEF SeenInv, InTag
<1>. QED  BY <1>1, <1>2, <1>3, <1>4, <1>5, <1>6, <1>7, <1>8, <1>9, StepCases

(* What a metadata dump finds in a tag: it has read the event that is      *)
(* asked for exactly when there is one, or it ends with an error.          *)
LEMMA MetaAsked ==
  ASSUME CursorInv, PlaceInv, StatusInv, MetaData, MetadataFits(Contents[file])
  PROVE  /\ tagOffset \in AskedTags => result' \in {"OK", "EOF"} /\ Tag.event = Asked
         /\ result' = "OK" /\ Tag.event = Asked => tagOffset \in AskedTags
         /\ Asked # Unnamed
<1>. USE SizesAssumption
<1>1. /\ pc = "decode" /\ Tag.type = "meta" /\ ReadMetadata
      /\ state = "TAG_BODY" /\ ~eof /\ pos = tagOffset + TagSize
      /\ bodyLength = LengthAt(tagOffset) /\ tagOffset \in InFile
  BY DEF MetaData, PlaceInv, InTag
<1>2. /\ tagOffset \in Tags /\ tagOffset \in Nat /\ tagOffset + TagSize <= Size /\ Size \in Nat
      /\ LengthAt(tagOffset) \in Nat
  BY <1>1, InFileFacts DEF CursorInv
<1>3. IsAsked(tagOffset) <=>
        /\ Tag.event = Asked /\ bodyLength > 0 /\ AmfAvailable(pos) /\ AmfAt(pos).ok
        /\ AmfAt(pos + AmfAt(pos).used).ok
  BY <1>1, <1>2 DEF IsAsked, Tag, LengthAt, AmfAt
<1>4. Asked # Unnamed
  BY RequestsAssumption DEF StatusInv, CursorInv, IsRequest, Asked, Unnamed
<1>5. CASE ~(bodyLength > 0 /\ AmfAvailable(pos) /\ AmfAt(pos).ok)
  <2>1. result' # "OK"
    BY <1>1, <1>2, <1>5, FileFacts DEF ReadMetadata, NotInBody, EmptyBody, InBody,
       Refused, ReadPastEnd, AmfAvailable, CursorInv
  <2>. QED  BY <1>3, <1>5, <1>4, <2>1 DEF AskedTags
<1>6. CASE bodyLength > 0 /\ AmfAvailable(pos) /\ AmfAt(pos).ok
  <2>. DEFINE at == pos + AmfAt(pos).used
  <2>1. /\ AmfAt(pos).used \in Nat \ {0} /\ AmfAt(pos).size \in Nat
        /\ tagOffset + TagSize + 1 <= Size
    BY <1>1, <1>2, <1>6, FileFacts DEF AmfAvailable, Available, CursorInv
  <2>2. AmfAt(pos).size < bodyLength
    BY <1>1, <1>2, <1>6, <2>1, FitFacts DEF CursorInv
  <2>3. /\ ~AmfAvailable(at) => result' = "EOF"
        /\ AmfAvailable(at) /\ ~AmfAt(at).ok => result' = "INVALID_METADATA"
        /\ AmfAvailable(at) /\ AmfAt(at).ok => result' = "OK"
    BY <1>1, <1>2, <1>6, <2>1, <2>2 DEF ReadMetadata, NotInBody, EmptyBody, InBody,
       ReadPastEnd
  <2>. QED  BY <1>2, <1>3, <1>6, <1>4, <2>3 DEF AskedTags
<1>. QED  BY <1>5, <1>6

(* The events are offsets and values of the file.                          *)
LEMMA EventTypesStep ==
  ASSUME CursorInv, PlaceInv, EventTypes, [DumpNext]_allVars
  PROVE  EventTypes'
<1>1. CASE ~MetaData
  BY <1>1, EventsKept DEF EventTypes
<1>2. CASE MetaData
  <2>1. CASE events' = events
    BY <2>1 DEF EventTypes
  <2>2. ASSUME events' # events PROVE EventTypes'
    <3>1. PICK v \in Tag.values : events' = Append(events, [offset |-> tagOffset, value |-> v])
      BY <1>2, <2>2 DEF MetaData, DumpValue
    <3>2. tagOffset \in 0 .. Size /\ tagOffset \in Nat
      BY <1>2, InFileFacts DEF MetaData, PlaceInv, InTag, CursorInv
    <3>3. v \in Values
      BY <3>1, <3>2, DumpFilesAssumption DEF IsDumpFile, Tag, Size, CursorInv
    <3>. DEFINE T == [offset : Nat, value : Values]
                e == [offset |-> tagOffset, value |-> v]
    <3>4. e \in T /\ events \in Seq(T)
      BY <3>2, <3>3 DEF EventTypes
    <3>. HIDE DEF T, e
    <3>5. Append(events, e) \in Seq(T)
      BY <3>4
    <3>. QED  BY <3>1, <3>5 DEF EventTypes, T, e
  <2>. QED  BY <2>1, <2>2
<1>. QED  BY <1>1, <1>2

(* What MetaData shows of the tag it reads.                                *)
LEMMA MetaMoves ==
  ASSUME CursorInv, PlaceInv, StatusInv, EventTypes, MetaData, ~request.whole,
         MetadataFits(Contents[file])
  PROVE  \/ pc' = "close" /\ status' = "EOF" /\ events' = events
         \/ pc' = "prev" /\ status' = status /\ events' = events /\ tagOffset \notin AskedTags
         \/ /\ Shown' = Shown \cup {tagOffset} /\ tagOffset \in AskedTags
            /\ \/ request.event # NoEvent /\ pc' = "prev" /\ status' = status
               \/ request.event = NoEvent /\ pc' = "close" /\ status' = "STOP_OK"
<1>1. CASE result' = "EOF" /\ Stop("EOF") /\ UNCHANGED events
  BY <1>1 DEF Stop
<1>2. CASE /\ result' # "EOF" /\ (result' # "OK" \/ Tag.event = Unnamed \/ Tag.event # Asked)
           /\ Go("prev") /\ UNCHANGED events
  BY <1>2, MetaAsked DEF Go
<1>3. ASSUME NEW v \in Tag.values, result' = "OK", Tag.event = Asked, DumpValue(v),
             IF LastAsked THEN Stop("STOP_OK") ELSE Go("prev")
      PROVE  /\ Shown' = Shown \cup {tagOffset} /\ tagOffset \in AskedTags
             /\ \/ request.event # NoEvent /\ pc' = "prev" /\ status' = status
                \/ request.event = NoEvent /\ pc' = "close" /\ status' = "STOP_OK"
  <2>1. tagOffset \in AskedTags
    BY <1>3, MetaAsked
  <2>2. events' = Append(events, [offset |-> tagOffset, value |-> v])
    BY <1>3 DEF DumpValue
  <2>3. tagOffset \in 0 .. Size /\ tagOffset \in Nat
    BY InFileFacts DEF MetaData, PlaceInv, InTag, CursorInv
  <2>4. v \in Values
    BY <2>3, DumpFilesAssumption DEF IsDumpFile, Tag, Size, CursorInv
  <2>. DEFINE T == [offset : Nat, value : Values]
              e == [offset |-> tagOffset, value |-> v]
  <2>5. e \in T /\ events \in Seq(T) /\ e.offset = tagOffset
    BY <2>3, <2>4 DEF EventTypes
  <2>. HIDE DEF T, e
  <2>6. OffsetsOf(Append(events, e)) = OffsetsOf(events) \cup {tagOffset}
    BY <2>5, OffsetsOfAppend
  <2>7. Shown' = Shown \cup {tagOffset}
    BY <2>2, <2>6 DEF Shown, e
  <2>. QED  BY <1>3, <2>1, <2>7 DEF LastAsked, Go, Stop
<1>. QED
  BY <1>1, <1>2, <1>3, Zenon DEF MetaData

(* What has been shown, after each step of a metadata dump.                *)
LEMMA ShownStep ==
  ASSUME CursorInv, BoundaryPart, PlaceInv, StatusInv, SeenInv, ShownInv, VisitedInv,
         EventTypes, MetadataFits(Contents[file]), [DumpNext]_allVars, ~request.whole
  PROVE  ShownInv'
<1>0. /\ InFile' = InFile /\ file' = file /\ request' = request
      /\ AskedTags' = AskedTags /\ FirstAsked' = FirstAsked
  BY RequestKept, FileTermsKept
<1>s. visited' = visited => Seen' = Seen
  BY DEF Seen
<1>e. events' = events => Shown' = Shown
  BY DEF Shown
<1>f. file \in Files
  BY DEF CursorInv
<1>1. CASE OpenFile
  <2>1. /\ visited' = visited /\ events' = events /\ pc = "open"
        /\ \/ pc' = "header" /\ status' = status
           \/ pc' = "finish" /\ status' = "OPEN_READ"
    BY <1>1 DEF OpenFile, Go
  <2>. QED  BY <1>0, <1>s, <1>e, <2>1 DEF ShownInv
<1>2. CASE Header
  <2>1. /\ visited' = visited /\ events' = events /\ pc = "header"
        /\ \/ pc' = "tag" /\ status' = status
           \/ pc' = "close" /\ status' \notin {"OK", "STOP_OK"}
    BY <1>2, HeaderMoves DEF Header, HeaderRead
  <2>. QED  BY <1>0, <1>s, <1>e, <2>1 DEF ShownInv
<1>3. CASE NextTagOrEnd
  <2>0. pc = "tag" /\ status' = status /\ events' = events
    BY <1>3, TagMoves DEF NextTagOrEnd
  <2>1. CASE NoTagRead /\ visited' = visited
    BY <1>0, <1>s, <1>e, <2>0, <2>1 DEF NoTagRead, ShownInv
  <2>2. CASE TagRead
    <3>1. NextTag \in Nat /\ visited \in Seq(Nat)
      BY <1>f, <2>2, InFileFacts DEF TagRead, VisitedInv
    <3>2. visited' = Append(visited, NextTag) /\ tagOffset' = NextTag /\ pc' = "decode"
      BY <2>2 DEF TagRead
    <3>3. Seen' = Seen \cup {tagOffset'}
      <4>1. Members(Append(visited, NextTag)) = Members(visited) \cup {NextTag}
        BY <3>1, RangeOfAppend
      <4>. QED  BY <3>2, <4>1 DEF Seen
    <3>4. status = "OK"
      BY <2>0 DEF StatusInv
    <3>. QED  BY <1>0, <1>e, <2>0, <3>2, <3>3, <3>4 DEF ShownInv
  <2>. QED  BY <1>3, <2>1, <2>2, TagMoves
<1>4. CASE BodyAction
  <2>1. /\ pc \in {"decode", "packet", "composition"} /\ visited' = visited
        /\ \/ pc' \in {"packet", "composition", "prev"} /\ status' = status
           \/ pc' = "close" /\ status' \notin {"OK", "STOP_OK"} /\ events' = events
           \/ pc' = "close" /\ status' = "STOP_OK" /\ MetaData
    BY <1>4, BodyActions
  <2>2. BodyPlace
    BY <2>1 DEF PlaceInv, InTag, BodyPlace
  <2>3. tagOffset' = tagOffset
    BY <1>4, <2>2, BodyActionStep
  <2>4. /\ AllBefore(Seen, After(tagOffset)) /\ tagOffset \in Seen /\ tagOffset \in InFile
        /\ status = "OK"
    BY <2>1 DEF SeenInv, InTag, PlaceInv, StatusInv
  <2>5. Shown \subseteq Seen \cap AskedTags /\ (Seen \ {tagOffset}) \cap AskedTags \subseteq Shown
    BY <2>1, <2>4 DEF ShownInv
  <2>6. request.event = NoEvent => Shown = {}
    BY <2>1, <2>4 DEF ShownInv
  <2>7. CASE ~MetaData
    <3>1. events' = events
      BY <2>7, EventsKept
    <3>2. pc = "decode" => Tag.type # "meta"
      BY <1>4, <2>7, Zenon DEF BodyAction, Audio, Video, PacketType, Composition, Unknown
    <3>3. pc = "decode" => tagOffset \notin AskedTags
      BY <3>2 DEF AskedTags, IsAsked, Tag
    <3>4. Shown = Seen \cap AskedTags
      <4>1. CASE pc = "decode"
        BY <2>5, <3>3, <4>1
      <4>2. CASE pc # "decode"
        BY <2>1, <2>4, <4>2 DEF ShownInv
      <4>. QED  BY <4>1, <4>2
    <3>. QED  BY <1>0, <1>s, <1>e, <2>1, <2>4, <2>6, <2>7, <3>1, <3>4 DEF ShownInv
  <2>8. CASE MetaData
    <3>1. CASE pc' = "close" /\ status' = "EOF" /\ events' = events
      BY <3>1 DEF ShownInv
    <3>2. CASE pc' = "prev" /\ status' = status /\ events' = events /\ tagOffset \notin AskedTags
      <4>1. Shown = Seen \cap AskedTags
        BY <2>5, <3>2
      <4>. QED  BY <1>0, <1>s, <1>e, <2>1, <2>4, <2>6, <3>2, <4>1 DEF ShownInv
    <3>3. CASE /\ Shown' = Shown \cup {tagOffset} /\ tagOffset \in AskedTags
               /\ request.event # NoEvent /\ pc' = "prev" /\ status' = status
      <4>1. Shown' = Seen \cap AskedTags
        BY <2>4, <2>5, <3>3
      <4>. QED  BY <1>0, <1>s, <2>1, <2>4, <3>3, <4>1 DEF ShownInv
    <3>4. CASE /\ Shown' = Shown \cup {tagOffset} /\ tagOffset \in AskedTags
               /\ request.event = NoEvent /\ pc' = "close" /\ status' = "STOP_OK"
      <4>1. Shown' = {tagOffset}
        BY <2>6, <3>4
      <4>2. /\ tagOffset \in Nat /\ After(tagOffset) \in Nat /\ tagOffset < After(tagOffset)
            /\ \A p \in AskedTags : p \in Tags /\ p \in Nat
        BY <1>f, <2>4, InFileFacts, TagFacts, SizesAssumption DEF After, AskedTags
      <4>3. ASSUME NEW p \in AskedTags PROVE tagOffset <= p
        <5>1. CASE p < tagOffset
          <6>1. p < After(tagOffset)
            BY <4>2, <5>1
          <6>2. p \in Seen
            BY <1>f, <2>4, <4>2, <6>1, TagsBefore
          <6>3. p # tagOffset
            BY <4>2, <5>1
          <6>. QED  BY <2>5, <2>6, <3>4, <6>2, <6>3
        <5>2. CASE ~(p < tagOffset)
          BY <4>2, <5>2
        <5>. QED  BY <5>1, <5>2
      <4>4. FirstAsked = {tagOffset}
        <5>1. \A o \in AskedTags : o <= tagOffset => o = tagOffset
          BY <4>2, <4>3
        <5>2. tagOffset <= tagOffset
          BY <4>2
        <5>. QED  BY <3>4, <4>3, <5>1, <5>2 DEF FirstAsked
      <4>. QED  BY <1>0, <2>1, <3>4, <4>1, <4>4 DEF ShownInv
    <3>. QED  BY <2>8, <3>1, <3>2, <3>3, <3>4, MetaMoves
  <2>. QED  BY <2>7, <2>8
<1>5. CASE PrevTagSizeField
  <2>1. /\ visited' = visited /\ events' = events /\ pc = "prev"
        /\ \/ pc' = "tag" /\ status' = status
           \/ pc' = "close" /\ status' \notin {"OK", "STOP_OK"}
    BY <1>5, FieldMoves DEF PrevTagSizeField, FieldRead
  <2>. QED  BY <1>0, <1>s, <1>e, <2>1 DEF ShownInv
<1>6. CASE EndOfStream
  <2>1. /\ pc = "end" /\ pc' = "close" /\ visited' = visited /\ status' = status
        /\ events' = events
    BY <1>6 DEF EndOfStream
  <2>. QED  BY <1>0, <1>s, <1>e, <2>1 DEF ShownInv
<1>7. CASE CloseFile
  <2>1. /\ pc = "close" /\ pc' = "finish" /\ visited' = visited /\ status' = status
        /\ events' = events
    BY <1>7 DEF CloseFile, Go
  <2>. QED  BY <1>0, <1>s, <1>e, <2>1 DEF ShownInv
<1>8. CASE Finish
  <2>1. /\ pc = "finish" /\ pc' = "done" /\ visited' = visited /\ events' = events
        /\ status' = IF status = "STOP_OK" THEN "OK" ELSE status
    BY <1>8 DEF Finish
  <2>2. CASE status = "STOP_OK"
    BY <1>0, <1>e, <2>1, <2>2 DEF ShownInv, StatusInv
  <2>3. CASE status = "OK"
    <3>1. Seen = InFile /\ Shown = Seen \cap AskedTags /\ (request.event = NoEvent => Shown = {})
      BY <2>1, <2>3 DEF SeenInv, ShownInv
    <3>2. AskedTags \subseteq InFile
      BY DEF AskedTags, IsAsked, InFile
    <3>3. Shown = AskedTags
      BY <3>1, <3>2
    <3>4. request.event = NoEvent => Shown = FirstAsked
      BY <3>1, <3>3 DEF FirstAsked
    <3>. QED  BY <1>0, <1>e, <2>1, <2>3, <3>3, <3>4 DEF ShownInv
  <2>4. CASE status \notin {"OK", "STOP_OK"}
    BY <2>1, <2>4 DEF ShownInv
  <2>. QED  BY <2>2, <2>3, <2>4
<1>9. CASE UNCHANGED allVars
  <2>1. /\ pc' = pc /\ visited' = visited /\ events' = events /\ status' = status
        /\ tagOffset' = tagOffset
    BY <1>9 DEF allVars, dumpVars, vars, tagVars
  <2>. QED  BY <1>0, <1>s, <1>e, <2>1 DEF ShownInv
<1>. QED  BY <1>1, <1>2, <1>3, <1>4, <1>5, <1>6, <1>7, <1>8, <1>9, StepCases

----------------------------------------------------------------------------
(* Of a file whose metadata fit.                                           *)
DumpFitInv ==
  /\ FitInv /\ VisitedInv
  /\ MetadataFits(Contents[file]) => DumpInv

(* The invariant holds at the start.                                       *)
LEMMA DumpFitInit == DumpInit => DumpFitInv
<1>. SUFFICES ASSUME DumpInit PROVE DumpFitInv
  OBVIOUS
<1>1. FitInv
  BY StreamInit, BoundaryInit DEF DumpInit, FitInv
<1>2. VisitedInv
  BY DEF DumpInit, VisitedInv, InOrder
<1>3. pc = "open" /\ status = "OK" /\ visited = <<>> /\ events = <<>> /\ request \in Requests[file]
  BY DEF DumpInit
<1>4. Seen = {} /\ Shown = {}
  BY <1>3 DEF Seen, Shown, Members, OffsetsOf
<1>5. PlaceInv /\ StatusInv
  BY <1>3 DEF DumpInit, Init, Open, PlaceInv, InTag, StatusInv
<1>6. EventTypes
  BY <1>3 DEF EventTypes
<1>7. SeenInv /\ ShownInv
  BY <1>3, <1>4 DEF SeenInv, ShownInv, InTag
<1>. QED  BY <1>1, <1>2, <1>5, <1>6, <1>7 DEF DumpFitInv, DumpInv

(* Every step keeps the invariant, the parts that need sound metadata in   *)
(* the files that have it.                                                 *)
LEMMA DumpFitStep == DumpFitInv /\ [DumpNext]_allVars => DumpFitInv'
<1>. SUFFICES ASSUME DumpFitInv, [DumpNext]_allVars PROVE DumpFitInv'
  OBVIOUS
<1>1. [Next]_vars /\ StreamInv /\ CursorInv /\ VisitedInv
  BY StepOfStream, StreamInvParts DEF DumpFitInv, FitInv
<1>2. StreamInv' /\ VisitedInv'
  BY <1>1, StreamStep, VisitedStep
<1>3. MetadataFits(Contents[file])' = MetadataFits(Contents[file])
  BY RequestKept, FileTermsKept
<1>4. CASE ~MetadataFits(Contents[file])
  BY <1>2, <1>3, <1>4 DEF DumpFitInv, FitInv
<1>5. CASE MetadataFits(Contents[file])
  <2>1. BoundaryPart /\ DumpInv
    BY <1>5 DEF DumpFitInv, FitInv
  <2>2. BoundaryPart'
    BY <1>1, <1>5, <2>1, BoundaryStep
  <2>3. PlaceInv' /\ StatusInv' /\ EventTypes' /\ SeenInv'
    BY <1>1, <1>5, <2>1, PlaceStep, StatusStep, EventTypesStep, SeenStep DEF DumpInv
  <2>4. ShownInv'
    <3>1. CASE request.whole
      BY <3>1, RequestKept DEF ShownInv
    <3>2. CASE ~request.whole
      BY <1>1, <1>5, <2>1, <3>2, ShownStep DEF DumpInv
    <3>. QED  BY <3>1, <3>2
  <2>. QED  BY <1>2, <2>2, <2>3, <2>4 DEF DumpFitInv, FitInv, DumpInv
<1>. QED  BY <1>4, <1>5

(* During every dump, the stream keeps its invariant and the tags are in   *)
(* order; of a file whose metadata fit, the tags seen are those before the *)
(* next one, and the events shown are those asked for among them.          *)
THEOREM DumpInvariant == DumpSpec => []DumpFitInv
BY DumpFitInit, DumpFitStep, PTL DEF DumpSpec

(* A full dump that ends without an error has shown every tag of a file    *)
(* whose metadata fit, in any format (flv_parse, flv.c:466-595).           *)
THEOREM EveryTagIsDumped == DumpSpec => []AllTagsDumped
<1>1. DumpFitInv => AllTagsDumped
  BY DEF DumpFitInv, DumpInv, SeenInv, AllTagsDumped, Seen, Members, InFile
<1>. QED  BY <1>1, DumpInvariant, PTL

(* A metadata dump that ends without an error has shown the first          *)
(* onMetaData, or all the events asked for (on_metadata_tag_only).         *)
THEOREM AskedEventsAreDumped == DumpSpec => []AskedDumped
<1>1. DumpFitInv => AskedDumped
  <2>. SUFFICES ASSUME DumpFitInv, ~request.whole, pc = "done", status = "OK",
                       MetadataFits(Contents[file])
                PROVE  IF request.event = NoEvent THEN Shown = FirstAsked ELSE Shown = AskedTags
    BY DEF AskedDumped, Shown, OffsetsOf, AskedTags, FirstAsked
  <2>. QED  BY DEF DumpFitInv, DumpInv, ShownInv
<1>. QED  BY <1>1, DumpInvariant, PTL

----------------------------------------------------------------------------
(***************************************************************************)
(* What is printed.  A reader is carried over the tokens by a function;    *)
(* the parts of a dump move it from place to place, wherever the file      *)
(* leads the dump, and so do values, however they are nested.              *)
(***************************************************************************)

(* Induction over the naturals, for a set.                                 *)
LEMMA SetInduction ==
  ASSUME NEW S \in SUBSET Nat, 0 \in S, \A n \in S : n + 1 \in S
  PROVE  S = Nat
<1>. DEFINE T == Nat \ S
<1>1. ASSUME T # {} PROVE FALSE
  <2>1. PICK x \in T : \A y \in T : x <= y
    <3>1. T \in SUBSET Nat
      OBVIOUS
    <3>. HIDE DEF T
    <3>. QED  BY <1>1, <3>1, LeastElement
  <2>2. x # 0 /\ x - 1 \in Nat
    OBVIOUS
  <2>3. x - 1 \in T
    BY <2>2
  <2>. QED  BY <2>1, <2>2, <2>3
<1>. QED  BY <1>1

(* Induction up to a bound.                                                *)
LEMMA StepInduction ==
  ASSUME NEW n \in Nat, NEW P, 0 \in P, \A i \in 1 .. n : i - 1 \in P => i \in P
  PROVE  \A i \in 0 .. n : i \in P
<1>. DEFINE S == {i \in Nat : i <= n => i \in P}
<1>1. 0 \in S
  OBVIOUS
<1>2. \A i \in S : i + 1 \in S
  <2>. SUFFICES ASSUME NEW i \in S, i + 1 <= n PROVE i + 1 \in P
    OBVIOUS
  <2>1. i \in P /\ i + 1 \in 1 .. n /\ (i + 1) - 1 = i
    OBVIOUS
  <2>. QED  BY <2>1
<1>3. S = Nat
  <2>1. S \in SUBSET Nat
    OBVIOUS
  <2>. HIDE DEF S
  <2>. QED  BY <1>1, <1>2, <2>1, SetInduction
<1>. QED  BY <1>3

(* Functions defined from one number to the next.                          *)
Steps(f, n, a, G) ==
  /\ f = [i \in 0 .. n |-> f[i]] /\ f[0] = a
  /\ \A i \in 1 .. n : f[i] = G[<<i, f[i - 1]>>]

(* A function that is defined step by step exists.                         *)
LEMMA StepsExist ==
  ASSUME NEW a, NEW G, NEW n \in Nat
  PROVE  \E f : Steps(f, n, a, G)
<1>. DEFINE Has(m) == \E f : Steps(f, m, a, G)
            S == {m \in Nat : Has(m)}
<1>1. 0 \in S
  <2>. DEFINE f == [i \in 0 .. 0 |-> a]
  <2>1. f = [i \in 0 .. 0 |-> f[i]] /\ f[0] = a /\ 1 .. 0 = {}
    OBVIOUS
  <2>2. Steps(f, 0, a, G)
    BY <2>1 DEF Steps
  <2>. QED  BY <2>2
<1>2. \A m \in S : m + 1 \in S
  <2>. HIDE DEF Has
  <2>. SUFFICES ASSUME NEW m \in S PROVE Has(m + 1)
    OBVIOUS
  <2>1. PICK f : Steps(f, m, a, G)
    BY DEF Has
  <2>. DEFINE g == [i \in 0 .. m + 1 |-> IF i = m + 1 THEN G[<<m + 1, f[m]>>] ELSE f[i]]
  <2>2. /\ g = [i \in 0 .. m + 1 |-> g[i]] /\ g[0] = f[0]
        /\ \A i \in 1 .. m + 1 : g[i - 1] = f[i - 1]
        /\ \A i \in 1 .. m : g[i] = f[i]
        /\ g[m + 1] = G[<<m + 1, f[m]>>] /\ (m + 1) - 1 = m
    OBVIOUS
  <2>. HIDE DEF g
  <2>3. \A i \in 1 .. m + 1 : g[i] = G[<<i, g[i - 1]>>]
    <3>. TAKE i \in 1 .. m + 1
    <3>1. CASE i = m + 1
      BY <2>2, <3>1
    <3>2. CASE i \in 1 .. m
      BY <2>1, <2>2, <3>2 DEF Steps
    <3>. QED  BY <3>1, <3>2
  <2>4. Steps(g, m + 1, a, G)
    BY <2>1, <2>2, <2>3 DEF Steps
  <2>. QED  BY <2>4 DEF Has
<1>3. S = Nat
  <2>1. S \in SUBSET Nat
    OBVIOUS
  <2>. HIDE DEF S
  <2>. QED  BY <1>1, <1>2, <2>1, SetInduction
<1>. QED  BY <1>3

(* What every step keeps holds of all of them.                             *)
LEMMA StepsIn ==
  ASSUME NEW a, NEW G, NEW n \in Nat, NEW f, Steps(f, n, a, G),
         NEW X, a \in X, \A i \in 1 .. n : \A x \in X : G[<<i, x>>] \in X
  PROVE  \A i \in 0 .. n : f[i] \in X
<1>. DEFINE P == {i \in 0 .. n : f[i] \in X}
<1>1. 0 \in P
  BY DEF Steps
<1>2. \A i \in 1 .. n : i - 1 \in P => i \in P
  <2>. SUFFICES ASSUME NEW i \in 1 .. n, i - 1 \in P PROVE i \in P
    OBVIOUS
  <2>1. f[i - 1] \in X /\ i \in 0 .. n
    OBVIOUS
  <2>2. f[i] = G[<<i, f[i - 1]>>]
    BY DEF Steps
  <2>. QED  BY <2>1, <2>2
<1>. HIDE DEF P
<1>3. \A i \in 0 .. n : i \in P
  BY <1>1, <1>2, StepInduction
<1>. QED  BY <1>3 DEF P

(* Induction over sequences, by what they end with.                        *)
LEMMA AppendInduction ==
  ASSUME NEW X, NEW P, <<>> \in P, \A s \in Seq(X), e \in X : s \in P => Append(s, e) \in P
  PROVE  \A s \in Seq(X) : s \in P
<1>. DEFINE OfLength(n) == \A s \in Seq(X) : Len(s) = n => s \in P
            S == {n \in Nat : OfLength(n)}
<1>1. 0 \in S
  BY EmptySeq
<1>2. \A n \in S : n + 1 \in S
  <2>. SUFFICES ASSUME NEW n \in S, NEW s \in Seq(X), Len(s) = n + 1 PROVE s \in P
    OBVIOUS
  <2>1. s # <<>>
    BY EmptySeq
  <2>2. PICK t \in Seq(X), e \in X : s = Append(t, e)
    BY <2>1, SequenceEmptyOrAppend
  <2>3. Len(t) = n
    BY <2>2, AppendProperties, LenProperties
  <2>. QED  BY <2>2, <2>3
<1>3. S = Nat
  <2>1. S \in SUBSET Nat
    OBVIOUS
  <2>. HIDE DEF S
  <2>. QED  BY <1>1, <1>2, <2>1, SetInduction
<1>4. \A n \in Nat : OfLength(n)
  BY <1>3
<1>. QED  BY <1>4, LenProperties

(* The function of levels is what its definition says: by induction it     *)
(* exists.                                                                 *)
LEMMA ValuesUpToFact ==
  \A d \in 0 .. MaxDepth :
    ValuesUpTo[d] = ValuesOver(IF d = 0 THEN {} ELSE ValuesUpTo[d - 1])
<1>. DEFINE Defined(f, n) == f = [d \in 0 .. n |-> ValuesOver(IF d = 0 THEN {} ELSE f[d - 1])]
            S == {n \in Nat : \E f : Defined(f, n)}
<1>1. 0 \in S
  <2>. DEFINE f == [d \in 0 .. 0 |-> ValuesOver({})]
  <2>1. Defined(f, 0)
    <3>1. \A d \in 0 .. 0 : d = 0
      OBVIOUS
    <3>. QED  BY <3>1
  <2>. HIDE DEF f, Defined
  <2>. QED  BY <2>1
<1>2. \A n \in S : n + 1 \in S
  <2>. SUFFICES ASSUME NEW n \in Nat, NEW f, Defined(f, n) PROVE \E g : Defined(g, n + 1)
    OBVIOUS
  <2>. DEFINE g == [d \in 0 .. n + 1 |-> ValuesOver(IF d = 0 THEN {} ELSE f[d - 1])]
  <2>1. \A d \in 0 .. n : f[d] = g[d]
    <3>. TAKE d \in 0 .. n
    <3>1. d \in 0 .. n + 1
      OBVIOUS
    <3>2. f[d] = ValuesOver(IF d = 0 THEN {} ELSE f[d - 1])
      BY Zenon
    <3>. QED  BY <3>1, <3>2, Zenon
  <2>2. \A d \in 0 .. n + 1 : d # 0 => d - 1 \in 0 .. n
    OBVIOUS
  <2>3. Defined(g, n + 1)
    BY <2>1, <2>2
  <2>. HIDE DEF g, Defined
  <2>. QED  BY <2>3
<1>3. S = Nat
  <2>. HIDE DEF S
  <2>1. S \in SUBSET Nat
    BY DEF S
  <2>. QED  BY <1>1, <1>2, <2>1, SetInduction
<1>4. \E f : Defined(f, MaxDepth)
  BY <1>3, DepthAssumption
<1>. DEFINE V == CHOOSE f : Defined(f, MaxDepth)
<1>5. Defined(V, MaxDepth)
  <2>. HIDE DEF Defined
  <2>. QED  BY <1>4
<1>6. ValuesUpTo = V
  BY DEF ValuesUpTo
<1>. HIDE DEF V
<1>. QED  BY <1>5, <1>6

(* Of more inner values more values are made.                              *)
LEMMA ValuesOverGrow ==
  ASSUME NEW S, NEW T, S \subseteq T
  PROVE  ValuesOver(S) \subseteq ValuesOver(T)
<1>1. [name : Texts, data : S] \subseteq [name : Texts, data : T]
  OBVIOUS
<1>2. Seq([name : Texts, data : S]) \subseteq Seq([name : Texts, data : T])
  BY <1>1, SeqMonotonic, Zenon
<1>. QED  BY <1>2 DEF ValuesOver

(* What the items of a value of so many levels are.                        *)
Below(d) == IF d = 0 THEN {} ELSE ValuesUpTo[d - 1]

(* The values of a level are made of those inside it.                      *)
LEMMA BelowFact ==
  \A d \in 0 .. MaxDepth : /\ ValuesUpTo[d] = ValuesOver(Below(d))
                           /\ d + 1 \in 0 .. MaxDepth => Below(d + 1) = ValuesUpTo[d]
<1>. SUFFICES ASSUME NEW d \in 0 .. MaxDepth
              PROVE  /\ ValuesUpTo[d] = ValuesOver(Below(d))
                     /\ d + 1 \in 0 .. MaxDepth => Below(d + 1) = ValuesUpTo[d]
  OBVIOUS
<1>1. ValuesUpTo[d] = ValuesOver(Below(d))
  BY ValuesUpToFact, Zenon DEF Below
<1>2. d + 1 # 0 /\ (d + 1) - 1 = d
  BY DepthAssumption
<1>. QED  BY <1>1, <1>2 DEF Below

(* What is inside a level is of that level, too.                           *)
LEMMA BelowGrows ==
  \A d \in 0 .. MaxDepth : Below(d) \subseteq ValuesUpTo[d]
<1>. DEFINE S == {n \in Nat : n \in 0 .. MaxDepth => Below(n) \subseteq ValuesUpTo[n]}
<1>1. 0 \in S
  BY DEF Below
<1>2. \A n \in S : n + 1 \in S
  <2>. SUFFICES ASSUME NEW n \in S, n + 1 \in 0 .. MaxDepth
                PROVE  Below(n + 1) \subseteq ValuesUpTo[n + 1]
    OBVIOUS
  <2>1. n \in 0 .. MaxDepth /\ Below(n) \subseteq ValuesUpTo[n]
    BY DepthAssumption
  <2>2. /\ Below(n + 1) = ValuesUpTo[n]
        /\ ValuesUpTo[n] = ValuesOver(Below(n))
        /\ ValuesUpTo[n + 1] = ValuesOver(Below(n + 1))
    BY <2>1, BelowFact
  <2>3. ValuesOver(Below(n)) \subseteq ValuesOver(Below(n + 1))
    BY <2>1, <2>2, ValuesOverGrow
  <2>. QED  BY <2>2, <2>3
<1>3. S = Nat
  <2>1. S \in SUBSET Nat
    OBVIOUS
  <2>. HIDE DEF S
  <2>. QED  BY <1>1, <1>2, <2>1, SetInduction
<1>. QED  BY <1>3, DepthAssumption

(* Every level holds those below it.                                       *)
LEMMA ValuesGrow ==
  ASSUME NEW c \in Nat, NEW d \in Nat, c <= d, d <= MaxDepth
  PROVE  ValuesUpTo[c] \subseteq ValuesUpTo[d]
<1>. DEFINE S == {n \in Nat : c + n <= MaxDepth => ValuesUpTo[c] \subseteq ValuesUpTo[c + n]}
<1>1. 0 \in S
  <2>1. c + 0 = c
    OBVIOUS
  <2>. QED  BY <2>1
<1>2. \A n \in S : n + 1 \in S
  <2>. SUFFICES ASSUME NEW n \in S, c + (n + 1) <= MaxDepth
                PROVE  ValuesUpTo[c] \subseteq ValuesUpTo[c + (n + 1)]
    OBVIOUS
  <2>1. /\ c + n \in 0 .. MaxDepth /\ (c + n) + 1 \in 0 .. MaxDepth
        /\ (c + n) + 1 = c + (n + 1)
    BY DepthAssumption
  <2>2. ValuesUpTo[c] \subseteq ValuesUpTo[c + n]
    BY <2>1, DepthAssumption
  <2>3. ValuesUpTo[c + n] \subseteq ValuesUpTo[(c + n) + 1]
    BY <2>1, BelowFact, BelowGrows
  <2>. QED  BY <2>1, <2>2, <2>3
<1>3. S = Nat
  <2>1. S \in SUBSET Nat
    OBVIOUS
  <2>. HIDE DEF S
  <2>. QED  BY <1>1, <1>2, <2>1, SetInduction
<1>4. d - c \in Nat /\ c + (d - c) = d
  OBVIOUS
<1>. QED  BY <1>3, <1>4

Types == Composites \cup {"number", "boolean", "string", "null", "undefined", "date"}

(* What a value is made of.                                                *)
LEMMA ValueParts ==
  ASSUME NEW inner, NEW v \in ValuesOver(inner)
  PROVE  /\ v.type \in Types /\ v.text \in Texts
         /\ v.items \in Seq([name : Texts, data : inner])
         /\ v.type \notin Composites => v.items = <<>>
<1>. DEFINE S == [name : Texts, data : inner]
<1>0. <<>> \in Texts /\ <<>> \in Seq(S)
  BY EmptySeq, Zenon DEF Texts
<1>1. CASE v \in Simple
  <2>1. /\ v.type \in {"number", "boolean", "string", "null", "undefined", "date"}
        /\ v.text \in Texts /\ v.items \in {<<>>}
    BY <1>1, Zenon DEF Simple
  <2>2. v.type \in Types
    BY <2>1, Zenon DEF Types
  <2>3. v.items = <<>>
    BY ONLY <2>1
  <2>. HIDE DEF S
  <2>. QED  BY <1>0, <2>1, <2>2, <2>3, Zenon DEF S
<1>2. CASE v \in [type : Composites, text : {<<>>}, items : Seq(S)]
  <2>. HIDE DEF S
  <2>1. v.type \in Composites /\ v.text = <<>> /\ v.items \in Seq(S)
    BY <1>2
  <2>2. v.type \in Types
    BY <2>1, Zenon DEF Types
  <2>. QED  BY <1>0, <2>1, <2>2, Zenon DEF S
<1>. QED  BY <1>1, <1>2 DEF ValuesOver

(* What the items of a value are.                                          *)
LEMMA ItemParts ==
  ASSUME NEW inner, NEW v \in ValuesOver(inner)
  PROVE  /\ Len(v.items) \in Nat /\ DOMAIN v.items = 1 .. Len(v.items)
         /\ \A i \in DOMAIN v.items : /\ v.items[i].name \in Texts
                                      /\ v.items[i].data \in inner
<1>. DEFINE S == [name : Texts, data : inner]
<1>1. v.items \in Seq(S)
  BY ValueParts
<1>2. \A x \in S : x.name \in Texts /\ x.data \in inner
  OBVIOUS
<1>. HIDE DEF S
<1>3. \A i \in DOMAIN v.items : v.items[i] \in S
  BY <1>1, LenProperties, ElementOfSeq
<1>. QED  BY <1>1, <1>2, <1>3, LenProperties

Kids(f, v) == [i \in DOMAIN v.items |-> f[v.items[i].data]]

(* A function that takes the elements of one set to those of another.     *)
Maps(F, X, Y) == \A x \in X : F[x] \in Y

KidsAre(f, v, X) ==
  /\ Kids(f, v) \in Seq(X) /\ Len(Kids(f, v)) = Len(v.items)
  /\ \A i \in DOMAIN v.items : Kids(f, v)[i] = f[v.items[i].data]

(* What a function makes of the items is a sequence of its results.        *)
LEMMA KidsIn ==
  ASSUME NEW inner, NEW v \in ValuesOver(inner), NEW X, NEW f, Maps(f, inner, X)
  PROVE  KidsAre(f, v, X)
<1>. DEFINE n == Len(v.items)
            k == [i \in 1 .. n |-> f[v.items[i].data]]
<1>1. n \in Nat /\ Kids(f, v) = k
  BY ItemParts DEF Kids
<1>2. \A i \in 1 .. n : f[v.items[i].data] \in X
  BY ItemParts DEF Maps
<1>3. k \in [1 .. n -> X]
  BY <1>2
<1>4. k \in Seq(X) /\ Len(k) = n
  <2>. HIDE DEF k, n
  <2>. QED  BY <1>1, <1>3, SeqDef
<1>5. DOMAIN v.items = 1 .. n
  BY ItemParts
<1>. QED  BY <1>1, <1>4, <1>5 DEF KidsAre

(* A function of values that is computed from those of their items.        *)
DeterminedBy(f, V, X, G) == f \in [V -> X] /\ \A v \in V : f[v] = G[<<v, Kids(f, v)>>]

(* A function that follows the items of one level does so one level        *)
(* further.                                                                *)
LEMMA RecursionStep ==
  ASSUME NEW X, NEW I, I \subseteq ValuesOver(I), NEW G,
         \A v \in ValuesOver(I), s \in Seq(X) : G[<<v, s>>] \in X,
         NEW f, DeterminedBy(f, I, X, G)
  PROVE  \E g : DeterminedBy(g, ValuesOver(I), X, G)
<1>0. f \in [I -> X] /\ \A v \in I : f[v] = G[<<v, Kids(f, v)>>]
  BY DEF DeterminedBy
<1>. DEFINE V == ValuesOver(I)
            g == [v \in V |-> G[<<v, Kids(f, v)>>]]
<1>1. \A v \in V : G[<<v, Kids(f, v)>>] \in X
  <2>1. \A v \in V : Kids(f, v) \in Seq(X)
    <3>1. Maps(f, I, X)
      BY <1>0 DEF Maps
    <3>. HIDE DEF V
    <3>2. \A v \in V : KidsAre(f, v, X)
      BY <3>1, KidsIn, Zenon DEF V
    <3>. QED  BY <3>2 DEF KidsAre
  <2>. QED  BY <2>1
<1>2. \A u \in I : g[u] = f[u]
  BY <1>0
<1>3. \A v \in V : Kids(g, v) = Kids(f, v)
  <2>1. \A v \in V : \A i \in DOMAIN v.items : v.items[i].data \in I
    BY ItemParts
  <2>. HIDE DEF g
  <2>. QED  BY <1>2, <2>1 DEF Kids
<1>4. \A v \in V : g[v] = G[<<v, Kids(f, v)>>]
  OBVIOUS
<1>5. g \in [V -> X]
  BY <1>1
<1>. HIDE DEF g
<1>. QED  BY <1>3, <1>4, <1>5 DEF DeterminedBy

(* What the items determine is defined of every value: XmlTokens and       *)
(* DataTokens are functions.                                               *)
LEMMA ValueRecursion ==
  ASSUME NEW X, NEW G, \A v \in Values, s \in Seq(X) : G[<<v, s>>] \in X
  PROVE  \E f : DeterminedBy(f, Values, X, G)
<1>. DEFINE Has(d) == \E f : DeterminedBy(f, ValuesUpTo[d], X, G)
            S == {d \in Nat : d <= MaxDepth => Has(d)}
<1>0. ASSUME NEW d \in 0 .. MaxDepth, NEW f, DeterminedBy(f, Below(d), X, G)
      PROVE  Has(d)
  <2>1. ValuesUpTo[d] = ValuesOver(Below(d)) /\ Below(d) \subseteq ValuesUpTo[d]
    BY BelowFact, BelowGrows
  <2>2. ValuesUpTo[d] \subseteq Values
    BY ValuesGrow, DepthAssumption DEF Values
  <2>3. \A v \in ValuesOver(Below(d)), s \in Seq(X) : G[<<v, s>>] \in X
    BY <2>1, <2>2
  <2>4. Below(d) \subseteq ValuesOver(Below(d))
    BY <2>1
  <2>5. \E g : DeterminedBy(g, ValuesOver(Below(d)), X, G)
    BY <1>0, <2>3, <2>4, RecursionStep, Zenon
  <2>. QED  BY <2>1, <2>5
<1>1. 0 \in S
  <2>1. 0 \in 0 .. MaxDepth /\ Below(0) = {}
    BY DepthAssumption DEF Below
  <2>2. DeterminedBy([v \in {} |-> 0], Below(0), X, G)
    BY <2>1 DEF DeterminedBy
  <2>. QED  BY <1>0, <2>1, <2>2
<1>2. \A n \in S : n + 1 \in S
  <2>. HIDE DEF Has
  <2>. SUFFICES ASSUME NEW n \in S, n + 1 <= MaxDepth PROVE Has(n + 1)
    OBVIOUS
  <2>1. n \in 0 .. MaxDepth /\ n + 1 \in 0 .. MaxDepth
    BY DepthAssumption
  <2>2. PICK f : DeterminedBy(f, ValuesUpTo[n], X, G)
    BY <2>1 DEF Has
  <2>3. Below(n + 1) = ValuesUpTo[n]
    BY <2>1, BelowFact
  <2>. HIDE DEF S
  <2>. QED  BY <1>0, <2>1, <2>2, <2>3
<1>3. S = Nat
  <2>1. S \in SUBSET Nat
    OBVIOUS
  <2>. HIDE DEF S
  <2>. QED  BY <1>1, <1>2, <2>1, SetInduction
<1>. QED  BY <1>3, DepthAssumption DEF Values

(* The items of a value are values.                                        *)
LEMMA ValueItems ==
  \A v \in Values : /\ v \in ValuesOver(Values)
                    /\ \A i \in DOMAIN v.items : v.items[i].data \in Values
<1>1. MaxDepth \in 0 .. MaxDepth /\ Values = ValuesOver(Below(MaxDepth))
      /\ Below(MaxDepth) \subseteq Values
  BY BelowFact, BelowGrows, DepthAssumption DEF Values
<1>2. Values \subseteq ValuesOver(Values)
  BY <1>1, ValuesOverGrow, Zenon
<1>. QED  BY <1>2, ItemParts

(* Induction over values: what holds of a value when it holds of its items *)
(* holds of all values.                                                    *)
LEMMA ValueInduction ==
  ASSUME NEW P, \A v \in Values : (\A i \in DOMAIN v.items : v.items[i].data \in P) => v \in P
  PROVE  \A v \in Values : v \in P
<1>. DEFINE S == {d \in Nat : d <= MaxDepth => ValuesUpTo[d] \subseteq P}
<1>0. ASSUME NEW d \in 0 .. MaxDepth, Below(d) \subseteq P PROVE ValuesUpTo[d] \subseteq P
  <2>1. ValuesUpTo[d] = ValuesOver(Below(d)) /\ ValuesUpTo[d] \subseteq Values
    BY BelowFact, ValuesGrow, DepthAssumption DEF Values
  <2>2. \A v \in ValuesUpTo[d] : \A i \in DOMAIN v.items : v.items[i].data \in Below(d)
    BY <2>1, ItemParts
  <2>. QED  BY <1>0, <2>1, <2>2
<1>1. 0 \in S
  BY <1>0, DepthAssumption DEF Below
<1>2. \A n \in S : n + 1 \in S
  <2>. SUFFICES ASSUME NEW n \in S, n + 1 <= MaxDepth PROVE ValuesUpTo[n + 1] \subseteq P
    OBVIOUS
  <2>1. n \in 0 .. MaxDepth /\ n + 1 \in 0 .. MaxDepth
    BY DepthAssumption
  <2>2. ValuesUpTo[n] \subseteq P
    BY <2>1
  <2>3. Below(n + 1) = ValuesUpTo[n]
    BY <2>1, BelowFact
  <2>. QED  BY <1>0, <2>1, <2>2, <2>3
<1>3. S = Nat
  <2>1. S \in SUBSET Nat
    OBVIOUS
  <2>. HIDE DEF S
  <2>. QED  BY <1>1, <1>2, <2>1, SetInduction
<1>. QED  BY <1>3, DepthAssumption DEF Values

----------------------------------------------------------------------------
(* A state that is carried over a sequence by a function G of the state    *)
(* and the next element.                                                   *)
Reader(G, X, T) == G \in [X \X T -> X]
IsRun(f, G, a, s) ==
  f = [i \in 0 .. Len(s) |-> IF i = 0 THEN a ELSE G[<<f[i - 1], s[i]>>]]
RunTo(G, a, s) == CHOOSE f : IsRun(f, G, a, s)
Run(G, a, s) == RunTo(G, a, s)[Len(s)]

Runs(G, X, a, s) ==
  /\ RunTo(G, a, s)[0] = a
  /\ \A i \in 0 .. Len(s) : RunTo(G, a, s)[i] \in X
  /\ \A i \in 1 .. Len(s) : RunTo(G, a, s)[i] = G[<<RunTo(G, a, s)[i - 1], s[i]>>]

(* The states it comes through, from one to the next.                      *)
LEMMA RunFact ==
  ASSUME NEW X, NEW T, NEW G, Reader(G, X, T), NEW a \in X, NEW s \in Seq(T)
  PROVE  Runs(G, X, a, s)
<1>. DEFINE n == Len(s)
            H == [p \in Nat \X X |-> G[<<p[2], s[p[1]]>>]]
<1>0. n \in Nat /\ \A i \in 1 .. n : s[i] \in T
  BY LenProperties, ElementOfSeq
<1>. HIDE DEF n
<1>1. PICK f : Steps(f, n, a, H)
  BY <1>0, StepsExist
<1>2. \A i \in 1 .. n : \A x \in X : H[<<i, x>>] = G[<<x, s[i]>>] /\ H[<<i, x>>] \in X
  BY <1>0 DEF Reader
<1>. HIDE DEF H
<1>3. \A i \in 0 .. n : f[i] \in X
  <2>1. \A i \in 1 .. n : \A x \in X : H[<<i, x>>] \in X
    BY <1>2
  <2>. QED  BY <1>0, <1>1, <2>1, StepsIn
<1>4. \A i \in 0 .. n : f[i] = IF i = 0 THEN a ELSE G[<<f[i - 1], s[i]>>]
  <2>1. f[0] = a /\ \A i \in 1 .. n : f[i] = H[<<i, f[i - 1]>>]
    BY <1>1 DEF Steps
  <2>2. \A i \in 0 .. n : i # 0 => i \in 1 .. n /\ i - 1 \in 0 .. n
    BY <1>0
  <2>. QED  BY <1>2, <1>3, <2>1, <2>2
<1>5. f = [i \in 0 .. n |-> f[i]]
  BY <1>1 DEF Steps
<1>6. IsRun(f, G, a, s)
  BY <1>4, <1>5, Zenon DEF IsRun, n
<1>. DEFINE u == RunTo(G, a, s)
<1>7. IsRun(u, G, a, s)
  BY <1>6 DEF RunTo
<1>. HIDE DEF u
<1>8. \A i \in 0 .. n : u[i] = IF i = 0 THEN a ELSE G[<<u[i - 1], s[i]>>]
  BY <1>7, Zenon DEF IsRun, n
<1>9. u[0] = a /\ \A i \in 1 .. n : u[i] = G[<<u[i - 1], s[i]>>]
  <2>1. 0 \in 0 .. n /\ \A i \in 1 .. n : i \in 0 .. n /\ i # 0
    BY <1>0
  <2>. QED  BY <1>8, <2>1, Zenon
<1>. DEFINE P == {i \in 0 .. n : u[i] \in X}
<1>10. \A i \in 0 .. n : i \in P
  <2>1. 0 \in P
    BY <1>0, <1>9
  <2>2. \A i \in 1 .. n : i - 1 \in P => i \in P
    <3>. SUFFICES ASSUME NEW i \in 1 .. n, i - 1 \in P PROVE i \in P
      OBVIOUS
    <3>1. u[i - 1] \in X /\ s[i] \in T /\ i \in 0 .. n
      BY <1>0
    <3>2. G[<<u[i - 1], s[i]>>] \in X
      BY <3>1 DEF Reader
    <3>. QED  BY <1>9, <3>1, <3>2
  <2>. HIDE DEF P
  <2>. QED  BY <1>0, <2>1, <2>2, StepInduction
<1>. QED  BY <1>9, <1>10 DEF Runs, u, n

(* Nothing to read leaves the state.                                       *)
LEMMA RunNone ==
  ASSUME NEW X, NEW T, NEW G, Reader(G, X, T), NEW a \in X
  PROVE  Run(G, a, <<>>) = a
<1>1. <<>> \in Seq(T) /\ Len(<<>>) = 0
  BY EmptySeq
<1>2. Runs(G, X, a, <<>>)
  BY <1>1, RunFact, Zenon
<1>3. RunTo(G, a, <<>>)[0] = a
  BY <1>2, Zenon DEF Runs
<1>. QED  BY <1>1, <1>3, Zenon DEF Run

(* A state of the reader is carried to one.                                *)
LEMMA RunIn ==
  ASSUME NEW X, NEW T, NEW G, Reader(G, X, T), NEW a \in X, NEW s \in Seq(T)
  PROVE  Run(G, a, s) \in X
<1>1. Len(s) \in 0 .. Len(s)
  BY LenProperties
<1>2. Runs(G, X, a, s)
  BY RunFact, Zenon
<1>. QED  BY <1>1, <1>2 DEF Run, Runs

(* One more element is one more step.                                      *)
RunsOn(G, a, s, e) == Run(G, a, Append(s, e)) = G[<<Run(G, a, s), e>>]
LEMMA RunAppend ==
  ASSUME NEW X, NEW T, NEW G, Reader(G, X, T), NEW a \in X, NEW s \in Seq(T), NEW e \in T
  PROVE  RunsOn(G, a, s, e)
<1>. DEFINE t == Append(s, e)
            n == Len(s)
            u == RunTo(G, a, s)
            w == RunTo(G, a, t)
<1>1. /\ t \in Seq(T) /\ n \in Nat /\ Len(t) = n + 1
      /\ t[n + 1] = e /\ \A i \in 1 .. n : t[i] = s[i]
  BY AppendProperties, LenProperties
<1>. HIDE DEF t
<1>2. /\ u[0] = a /\ \A i \in 1 .. n : u[i] = G[<<u[i - 1], s[i]>>]
      /\ w[0] = a /\ \A i \in 1 .. n + 1 : w[i] = G[<<w[i - 1], t[i]>>]
  <2>0. Runs(G, X, a, s) /\ Runs(G, X, a, t)
    BY <1>1, RunFact, Zenon
  <2>1. u[0] = a /\ \A i \in 1 .. n : u[i] = G[<<u[i - 1], s[i]>>]
    BY <2>0, Zenon DEF Runs
  <2>2. w[0] = a /\ \A i \in 1 .. Len(t) : w[i] = G[<<w[i - 1], t[i]>>]
    BY <2>0, Zenon DEF Runs
  <2>. HIDE DEF u, w
  <2>. QED  BY <1>1, <2>1, <2>2
<1>. HIDE DEF u, w, n
<1>. DEFINE P == {i \in 0 .. n : u[i] = w[i]}
<1>3. \A i \in 0 .. n : i \in P
  <2>1. 0 \in P
    BY <1>1, <1>2
  <2>2. \A i \in 1 .. n : i - 1 \in P => i \in P
    <3>. SUFFICES ASSUME NEW i \in 1 .. n, i - 1 \in P PROVE i \in P
      OBVIOUS
    <3>1. u[i] = G[<<u[i - 1], s[i]>>] /\ w[i] = G[<<w[i - 1], t[i]>>] /\ t[i] = s[i]
      BY <1>1, <1>2
    <3>. QED  BY <3>1
  <2>. HIDE DEF P
  <2>. QED  BY <1>1, <2>1, <2>2, StepInduction
<1>4. u[n] = w[n] /\ w[n + 1] = G[<<w[(n + 1) - 1], t[n + 1]>>] /\ (n + 1) - 1 = n
  BY <1>1, <1>2, <1>3
<1>5. w[n + 1] = G[<<u[n], e>>]
  BY <1>1, <1>4
<1>6. Run(G, a, t) = w[n + 1] /\ Run(G, a, s) = u[n]
  BY <1>1 DEF Run, u, w, n
<1>. QED  BY <1>5, <1>6 DEF RunsOn, t

(* Two sequences are read one after the other.                             *)
RunsBehind(G, T, a, s) == \A t \in Seq(T) : Run(G, a, s \o t) = Run(G, Run(G, a, s), t)
LEMMA RunConcat ==
  ASSUME NEW X, NEW T, NEW G, Reader(G, X, T), NEW a \in X, NEW s \in Seq(T)
  PROVE  RunsBehind(G, T, a, s)
<1>. DEFINE b == Run(G, a, s)
            P == {t \in Seq(T) : Run(G, a, s \o t) = Run(G, b, t)}
<1>0. b \in X
  BY RunIn
<1>. HIDE DEF b
<1>1. <<>> \in P
  <2>1. <<>> \in Seq(T) /\ s \o <<>> = s
    BY EmptySeq, ConcatEmptySeq
  <2>2. Run(G, b, <<>>) = b
    BY <1>0, RunNone
  <2>. QED  BY <2>1, <2>2 DEF b
<1>2. \A t \in Seq(T), e \in T : t \in P => Append(t, e) \in P
  <2>. SUFFICES ASSUME NEW t \in Seq(T), NEW e \in T, Run(G, a, s \o t) = Run(G, b, t)
                PROVE  Append(t, e) \in P
    OBVIOUS
  <2>1. s \o Append(t, e) = Append(s \o t, e) /\ s \o t \in Seq(T) /\ Append(t, e) \in Seq(T)
    OBVIOUS
  <2>2. RunsOn(G, a, s \o t, e)
    BY <2>1, RunAppend, Zenon
  <2>3. RunsOn(G, b, t, e)
    BY <1>0, RunAppend, Zenon
  <2>. QED  BY <2>1, <2>2, <2>3 DEF RunsOn
<1>. HIDE DEF P
<1>3. \A t \in Seq(T) : t \in P
  BY <1>1, <1>2, AppendInduction
<1>. QED  BY <1>3 DEF RunsBehind, P, b

(* What a function carries over a sequence is also what Fold makes of it,  *)
(* for the operators that are folded.                                      *)
IsJoining(f, s) ==
  f = [i \in 0 .. Len(s) |-> IF i = 0 THEN {<<>>} ELSE {before \o s[i] : before \in f[i - 1]}]
Joining(T) == [p \in Seq(T) \X Seq(T) |-> p[1] \o p[2]]

(* Joining carries a sequence.                                             *)
LEMMA JoiningReads == \A T : Reader(Joining(T), Seq(T), Seq(T)) /\ <<>> \in Seq(T)
  BY ConcatProperties DEF Reader, Joining

(* Joined folds to the function's last state: the CHOOSE of Fold is        *)
(* unique.                                                                 *)
LEMMA JoinedIsRun ==
  ASSUME NEW T, NEW s \in Seq(Seq(T))
  PROVE  Joined(s) = Run(Joining(T), <<>>, s)
<1>. DEFINE n == Len(s)
            u == RunTo(Joining(T), <<>>, s)
            g == [i \in 0 .. n |-> {u[i]}]
            f == CHOOSE h : IsJoining(h, s)
<1>1. n \in Nat /\ \A i \in 1 .. n : s[i] \in Seq(T)
  BY LenProperties, ElementOfSeq
<1>2. /\ u[0] = <<>> /\ \A i \in 0 .. n : u[i] \in Seq(T)
      /\ \A i \in 1 .. n : u[i] = Joining(T)[<<u[i - 1], s[i]>>]
  <2>1. Reader(Joining(T), Seq(T), Seq(T)) /\ <<>> \in Seq(T)
    BY JoiningReads, Zenon
  <2>2. Runs(Joining(T), Seq(T), <<>>, s)
    BY <2>1, RunFact, Zenon
  <2>. QED  BY <2>2, Zenon DEF Runs
<1>. HIDE DEF u, n
<1>3. \A i \in 1 .. n : u[i] = u[i - 1] \o s[i] /\ i - 1 \in 0 .. n
  <2>. TAKE i \in 1 .. n
  <2>1. i - 1 \in 0 .. n
    BY <1>1
  <2>. QED  BY <1>1, <1>2, <2>1 DEF Joining
<1>4. \A i \in 0 .. n : g[i] = IF i = 0 THEN {<<>>} ELSE {before \o s[i] : before \in g[i - 1]}
  <2>. TAKE i \in 0 .. n
  <2>1. CASE i = 0
    BY <1>1, <1>2, <2>1
  <2>2. CASE i # 0
    <3>1. i \in 1 .. n
      BY <1>1, <2>2
    <3>2. g[i] = {u[i - 1] \o s[i]} /\ g[i - 1] = {u[i - 1]}
      BY <1>3, <3>1
    <3>. QED  BY <2>2, <3>2
  <2>. QED  BY <2>1, <2>2
<1>5. g = [i \in 0 .. n |-> g[i]]
  OBVIOUS
<1>6. IsJoining(g, s)
  <2>. HIDE DEF g
  <2>. QED  BY <1>4, <1>5, Zenon DEF IsJoining, n
<1>7. IsJoining(f, s)
  BY <1>6
<1>. HIDE DEF f
<1>8. \A i \in 0 .. n : f[i] = IF i = 0 THEN {<<>>} ELSE {before \o s[i] : before \in f[i - 1]}
  BY <1>7, Zenon DEF IsJoining, n
<1>. DEFINE P == {i \in 0 .. n : f[i] = g[i]}
<1>9. \A i \in 0 .. n : i \in P
  <2>. HIDE DEF g
  <2>1. 0 \in P
    <3>1. 0 \in 0 .. n
      BY <1>1
    <3>. QED  BY <1>4, <1>8, <3>1
  <2>2. \A i \in 1 .. n : i - 1 \in P => i \in P
    <3>. SUFFICES ASSUME NEW i \in 1 .. n, i - 1 \in P PROVE i \in P
      OBVIOUS
    <3>1. i \in 0 .. n /\ i # 0
      BY <1>1
    <3>2. f[i - 1] = g[i - 1]
      OBVIOUS
    <3>3. f[i] = {before \o s[i] : before \in f[i - 1]} /\ g[i] = {before \o s[i] : before \in g[i - 1]}
      BY <1>4, <1>8, <3>1, Zenon
    <3>. QED  BY <3>1, <3>2, <3>3
  <2>. HIDE DEF P
  <2>. QED  BY <1>1, <2>1, <2>2, StepInduction
<1>10. f[n] = {u[n]}
  BY <1>1, <1>9
<1>11. Joined(s) = CHOOSE s1 \in f[n] : TRUE
  BY Zenon DEF Joined, Fold, IsJoining, f, n
<1>. QED  BY <1>10, <1>11 DEF Run, u, n

(* Joining puts the next sequence behind.                                  *)
JoinsOn(s, e) == Joined(Append(s, e)) = Joined(s) \o e
(* Nothing joined is nothing.                                              *)
LEMMA JoinedNone == Joined(<<>>) = <<>>
<1>1. <<>> \in Seq(Seq({})) /\ <<>> \in Seq({})
  BY EmptySeq
<1>2. Joined(<<>>) = Run(Joining({}), <<>>, <<>>)
  BY <1>1, JoinedIsRun
<1>3. Run(Joining({}), <<>>, <<>>) = <<>>
  BY JoiningReads, RunNone, Zenon
<1>. QED  BY <1>2, <1>3

(* Sequences joined are a sequence of the same elements.                   *)
LEMMA JoinedIn ==
  ASSUME NEW T, NEW s \in Seq(Seq(T))
  PROVE  Joined(s) \in Seq(T)
<1>1. Run(Joining(T), <<>>, s) \in Seq(T)
  BY JoiningReads, RunIn, Zenon
<1>. QED  BY <1>1, JoinedIsRun

(* One more sequence comes behind the others.                              *)
LEMMA JoinedAppended ==
  ASSUME NEW T, NEW s \in Seq(Seq(T)), NEW e \in Seq(T)
  PROVE  JoinsOn(s, e)
<1>1. RunsOn(Joining(T), <<>>, s, e)
  BY JoiningReads, RunAppend, Zenon
<1>2. Append(s, e) \in Seq(Seq(T))
  OBVIOUS
<1>3. /\ Joined(s) = Run(Joining(T), <<>>, s) /\ Joined(s) \in Seq(T)
      /\ Joined(Append(s, e)) = Run(Joining(T), <<>>, Append(s, e))
  BY <1>2, JoinedIsRun, JoinedIn, Zenon
<1>4. Joined(Append(s, e)) = Joining(T)[<<Joined(s), e>>]
  BY <1>1, <1>3, Zenon DEF RunsOn
<1>. DEFINE b == Joined(s)
<1>. HIDE DEF b
<1>5. Joining(T)[<<b, e>>] = b \o e
  BY <1>3 DEF Joining, b
<1>. QED  BY <1>4, <1>5, Zenon DEF JoinsOn, b

----------------------------------------------------------------------------
(* From every state in A, s leads to one in B.                             *)
Moves(G, X, T, A, s, B) ==
  /\ Reader(G, X, T) /\ A \subseteq X /\ B \subseteq X /\ s \in Seq(T)
  /\ \A a \in A : Run(G, a, s) \in B

(* Nothing read, nothing moved.                                            *)
LEMMA MovesNone ==
  ASSUME NEW G, NEW X, NEW T, Reader(G, X, T), NEW A, A \subseteq X
  PROVE  Moves(G, X, T, A, <<>>, A)
<1>1. \A a \in A : Run(G, a, <<>>) = a
  BY RunNone
<1>. QED  BY <1>1, EmptySeq DEF Moves

(* One element is one step.                                                *)
LEMMA MovesOne ==
  ASSUME NEW G, NEW X, NEW T, Reader(G, X, T), NEW A, NEW B, A \subseteq X, B \subseteq X,
         NEW e \in T, \A a \in A : G[<<a, e>>] \in B
  PROVE  Moves(G, X, T, A, <<e>>, B)
<1>1. <<>> \in Seq(T) /\ <<e>> = Append(<<>>, e) /\ <<e>> \in Seq(T)
  BY EmptySeq
<1>2. ASSUME NEW a \in A PROVE Run(G, a, <<e>>) \in B
  <2>1. a \in X
    OBVIOUS
  <2>2. RunsOn(G, a, <<>>, e)
    BY <1>1, <2>1, RunAppend, Zenon
  <2>3. Run(G, a, <<>>) = a
    BY <2>1, RunNone, Zenon
  <2>4. Run(G, a, <<e>>) = G[<<a, e>>]
    BY <1>1, <2>2, <2>3, Zenon DEF RunsOn
  <2>. QED  BY <2>4
<1>. QED  BY <1>1, <1>2 DEF Moves

(* One move behind the other.                                              *)
LEMMA MovesConcat ==
  ASSUME NEW G, NEW X, NEW T, NEW A, NEW B, NEW C, NEW s, NEW t,
         Moves(G, X, T, A, s, B), Moves(G, X, T, B, t, C)
  PROVE  Moves(G, X, T, A, s \o t, C)
<1>1. /\ Reader(G, X, T) /\ A \subseteq X /\ C \subseteq X /\ s \in Seq(T) /\ t \in Seq(T)
      /\ \A a \in A : Run(G, a, s) \in B
      /\ \A b \in B : Run(G, b, t) \in C
  BY DEF Moves
<1>2. s \o t \in Seq(T)
  BY <1>1, ConcatProperties
<1>3. ASSUME NEW a \in A PROVE Run(G, a, s \o t) \in C
  <2>1. a \in X
    BY <1>1
  <2>2. RunsBehind(G, T, a, s)
    BY <1>1, <2>1, RunConcat, Zenon
  <2>3. Run(G, a, s \o t) = Run(G, Run(G, a, s), t)
    BY <1>1, <2>2, Zenon DEF RunsBehind
  <2>. QED  BY <1>1, <2>3
<1>. QED  BY <1>1, <1>2, <1>3 DEF Moves

(* Weaker at the start, stronger at the end.                               *)
LEMMA MovesWithin ==
  ASSUME NEW G, NEW X, NEW T, NEW A, NEW B, NEW C, NEW D, NEW s,
         Moves(G, X, T, B, s, C), A \subseteq B, C \subseteq D, D \subseteq X
  PROVE  Moves(G, X, T, A, s, D)
  BY DEF Moves

(* What every part keeps, the parts keep together.                         *)
Keepers(G, X, T, A) == {s \in Seq(T) : Moves(G, X, T, A, s, A)}
(* Induction over what is joined.                                          *)
LEMMA MovesJoined ==
  ASSUME NEW G, NEW X, NEW T, Reader(G, X, T), NEW A, A \subseteq X
  PROVE  \A w \in Seq(Keepers(G, X, T, A)) : Moves(G, X, T, A, Joined(w), A)
<1>. DEFINE W == Keepers(G, X, T, A)
            P == {w \in Seq(W) : Moves(G, X, T, A, Joined(w), A)}
<1>0. W \subseteq Seq(T) /\ \A s \in W : Moves(G, X, T, A, s, A)
  BY DEF Keepers
<1>. HIDE DEF W
<1>1. Seq(W) \subseteq Seq(Seq(T))
  BY <1>0, SeqMonotonic, Zenon
<1>2. <<>> \in P
  BY EmptySeq, JoinedNone, MovesNone
<1>3. \A w \in Seq(W), e \in W : w \in P => Append(w, e) \in P
  <2>. SUFFICES ASSUME NEW w \in Seq(W), NEW e \in W, Moves(G, X, T, A, Joined(w), A)
                PROVE  Append(w, e) \in P
    OBVIOUS
  <2>1. Append(w, e) \in Seq(W)
    OBVIOUS
  <2>2. w \in Seq(Seq(T)) /\ e \in Seq(T) /\ Moves(G, X, T, A, e, A)
    BY <1>0, <1>1
  <2>3. JoinsOn(w, e)
    BY <2>2, JoinedAppended, Zenon
  <2>4. Moves(G, X, T, A, Joined(w) \o e, A)
    BY <2>2, MovesConcat, Zenon
  <2>. QED  BY <2>1, <2>3, <2>4 DEF JoinsOn
<1>. HIDE DEF P
<1>4. \A w \in Seq(W) : w \in P
  BY <1>2, <1>3, AppendInduction
<1>. QED  BY <1>4 DEF P, W

(* The parts by their numbers.                                             *)
LEMMA MovesEach ==
  ASSUME NEW G, NEW X, NEW T, Reader(G, X, T), NEW A, A \subseteq X, NEW n \in Nat, NEW w,
         w = [i \in 1 .. n |-> w[i]], \A i \in 1 .. n : Moves(G, X, T, A, w[i], A)
  PROVE  Moves(G, X, T, A, Joined(w), A)
<1>. DEFINE W == Keepers(G, X, T, A)
<1>1. \A i \in 1 .. n : w[i] \in W
  BY DEF Keepers, Moves
<1>. HIDE DEF W
<1>2. w \in [1 .. n -> W]
  BY <1>1
<1>3. w \in Seq(W)
  BY <1>2, SeqDef
<1>. QED  BY <1>3, MovesJoined, Zenon DEF W

----------------------------------------------------------------------------
(* What the callbacks hand to the printer, and what is printed of it.      *)
GivenItem ==
  [part : DOMAIN Parts, value : {<<>>}] \cup [part : {"metadata", "document"}, value : Values]
Said(f, gs) == Joined([i \in DOMAIN gs |-> TokensOf(f, gs[i])])
Says(f, T) == \A g \in GivenItem : TokensOf(f, g) \in Seq(T)

SaidOn(f, T, gs, g) ==
  /\ Said(f, Append(gs, g)) = Said(f, gs) \o TokensOf(f, g)
  /\ Said(f, gs) \in Seq(T)
(* What a callback hands over is printed behind the rest.                  *)
LEMMA SaidAppended ==
  ASSUME NEW f, NEW T, Says(f, T), NEW gs \in Seq(GivenItem), NEW g \in GivenItem
  PROVE  SaidOn(f, T, gs, g)
<1>. DEFINE w == [i \in DOMAIN gs |-> TokensOf(f, gs[i])]
            e == TokensOf(f, g)
            t == Append(gs, g)
            n == Len(gs)
            x == [i \in DOMAIN t |-> TokensOf(f, t[i])]
<1>1. n \in Nat /\ DOMAIN gs = 1 .. n /\ \A i \in 1 .. n : gs[i] \in GivenItem
  BY LenProperties, ElementOfSeq
<1>2. /\ Len(t) = n + 1 /\ DOMAIN t = 1 .. n + 1
      /\ t[n + 1] = g /\ \A i \in 1 .. n : t[i] = gs[i]
  <2>1. t \in Seq(GivenItem) /\ Len(t) = n + 1 /\ t[n + 1] = g /\ \A i \in 1 .. n : t[i] = gs[i]
    BY AppendProperties, LenProperties
  <2>. HIDE DEF t, n
  <2>. QED  BY <2>1, LenProperties
<1>. HIDE DEF t, n
<1>3. e \in Seq(T) /\ \A i \in 1 .. n : TokensOf(f, gs[i]) \in Seq(T)
  BY <1>1 DEF Says
<1>4. w \in Seq(Seq(T)) /\ Len(w) = n
  <2>1. w \in [1 .. n -> Seq(T)]
    BY <1>1, <1>3
  <2>. HIDE DEF w
  <2>. QED  BY <1>1, <2>1, SeqDef
<1>5. x = Append(w, e)
  <2>1. /\ Append(w, e) \in Seq(Seq(T)) /\ Len(Append(w, e)) = n + 1
        /\ Append(w, e)[n + 1] = e /\ \A i \in 1 .. n : Append(w, e)[i] = w[i]
    <3>. HIDE DEF w, e
    <3>. QED  BY <1>1, <1>3, <1>4, AppendProperties
  <2>2. Append(w, e) = [i \in 1 .. n + 1 |-> Append(w, e)[i]]
    <3>. DEFINE z == Append(w, e)
    <3>. HIDE DEF z
    <3>. QED  BY <2>1, LenProperties, SeqDef DEF z
  <2>3. x = [i \in 1 .. n + 1 |-> TokensOf(f, t[i])]
    BY <1>2
  <2>4. \A i \in 1 .. n + 1 : Append(w, e)[i] = TokensOf(f, t[i])
    <3>. TAKE i \in 1 .. n + 1
    <3>1. CASE i = n + 1
      BY <1>2, <2>1, <3>1, Zenon
    <3>2. CASE i # n + 1
      <4>1. i \in 1 .. n
        BY <1>1, <3>2
      <4>2. w[i] = TokensOf(f, gs[i])
        BY <1>1, <4>1
      <4>. QED  BY <1>2, <2>1, <4>1, <4>2, Zenon
    <3>. QED  BY <3>1, <3>2
  <2>. HIDE DEF w, e, x
  <2>. QED  BY <2>2, <2>3, <2>4
<1>. HIDE DEF w, e, x
<1>6. JoinsOn(w, e) /\ Joined(w) \in Seq(T)
  BY <1>3, <1>4, JoinedAppended, JoinedIn, Zenon
<1>7. Said(f, t) = Joined(x) /\ Said(f, gs) = Joined(w)
  BY Zenon DEF Said, x, w
<1>. QED  BY <1>5, <1>6, <1>7, Zenon DEF SaidOn, JoinsOn, e, t

(* Before anything is handed over nothing is printed.                      *)
LEMMA SaidNothing == \A f : Said(f, <<>>) = <<>>
<1>1. \A f : [i \in DOMAIN <<>> |-> TokensOf(f, <<>>[i])] = <<>>
  OBVIOUS
<1>. QED  BY <1>1, JoinedNone DEF Said

(* The state of a reader of what was printed.                              *)
At(G, a, f, gs, A) == Run(G, a, Said(f, gs)) \in A

(* A part that moves a reader from A to B does so behind what was printed. *)
LEMMA SaidMoves ==
  ASSUME NEW G, NEW X, NEW T, NEW a \in X, NEW f, Says(f, T), NEW A, NEW B,
         NEW gs \in Seq(GivenItem), NEW g \in GivenItem,
         At(G, a, f, gs, A), Moves(G, X, T, A, TokensOf(f, g), B)
  PROVE  At(G, a, f, Append(gs, g), B)
<1>1. Reader(G, X, T) /\ TokensOf(f, g) \in Seq(T)
      /\ \A b \in A : Run(G, b, TokensOf(f, g)) \in B
  BY DEF Moves
<1>2. SaidOn(f, T, gs, g)
  BY SaidAppended, Zenon
<1>3. RunsBehind(G, T, a, Said(f, gs))
  BY <1>1, <1>2, RunConcat, Zenon DEF SaidOn
<1>4. Run(G, a, Said(f, gs) \o TokensOf(f, g)) = Run(G, Run(G, a, Said(f, gs)), TokensOf(f, g))
  BY <1>1, <1>3, Zenon DEF RunsBehind
<1>. QED  BY <1>1, <1>2, <1>4, Zenon DEF At, SaidOn

----------------------------------------------------------------------------
(* Where a full dump is in the document, by what is printed next.          *)
Over == pc \in {"close", "finish", "done"}
PlaceOf(next, type, with) ==
  CASE next \in {"open", "header"} -> "start"
    [] next \in {"tag", "end"} -> "tags"
    [] next \in {"decode", "prev"} -> "tag"
    [] next = "packet" /\ type = "audio" -> "audio"
    [] next = "packet" /\ type # "audio" -> "video"
    [] next = "composition" -> "avc"
    [] next \in {"close", "finish", "done"} /\ with = "OK" -> "closed"
    [] OTHER -> "broken"
Place == PlaceOf(pc, Tag.type, status)

(* The places, one by one.                                                 *)
LEMMA PlaceIs ==
  \A next, type, with :
    /\ next \in {"open", "header"} => PlaceOf(next, type, with) = "start"
    /\ next \in {"tag", "end"} => PlaceOf(next, type, with) = "tags"
    /\ next \in {"decode", "prev"} => PlaceOf(next, type, with) = "tag"
    /\ next = "packet" /\ type = "audio" => PlaceOf(next, type, with) = "audio"
    /\ next = "packet" /\ type # "audio" => PlaceOf(next, type, with) = "video"
    /\ next = "composition" => PlaceOf(next, type, with) = "avc"
    /\ next \in {"close", "finish", "done"} =>
         PlaceOf(next, type, with) = IF with = "OK" THEN "closed" ELSE "broken"
  BY SMTT(30) DEF PlaceOf

(* The parts a full dump is made of, from one place to another.            *)
Paths ==
  {<<"start", "header", "tags">>, <<"tags", "tag", "tag">>, <<"tag", "prev", "tags">>,
   <<"tag", "audio", "tag">>, <<"tag", "audioStart", "audio">>, <<"audio", "audioPacket", "tag">>,
   <<"tag", "video", "tag">>, <<"tag", "extended", "tag">>, <<"tag", "videoStart", "video">>,
   <<"video", "avcStart", "avc">>, <<"avc", "avcTime", "avc">>, <<"avc", "avcEnd", "tag">>,
   <<"tags", "end", "closed">>}
Places == {"start", "tags", "tag", "audio", "video", "avc", "closed", "broken"}

(* The printers of a format hand a reader G from place to place, the       *)
(* values included, and a document is left unfinished only inside it.      *)
Document(v) == [part |-> "document", value |-> v]
Metadata(v) == [part |-> "metadata", value |-> v]
Accepts(G, X, T, f, P) ==
  /\ Reader(G, X, T)
  /\ \A x \in Places : P[x] \subseteq P["broken"] /\ P[x] \subseteq X
  /\ \A way \in Paths : Moves(G, X, T, P[way[1]], TokensOf(f, NamedPart(way[2])), P[way[3]])
  /\ \A v \in Values : /\ Moves(G, X, T, P["tag"], TokensOf(f, Metadata(v)), P["tag"])
                       /\ Moves(G, X, T, P["start"], TokensOf(f, Document(v)), P["closed"])

(* A dump is inside a tag of the file, and its status is that of how it    *)
(* was stopped.                                                            *)
WhereInv ==
  /\ InTag => tagOffset \in 0 .. Size
  /\ ~Over => status = "OK"
  /\ request.whole => status # "STOP_OK"

(* The body of a tag is read inside the tag.                               *)
LEMMA TagKept == BodyAction => tagOffset' = tagOffset
<1>1. Audio => tagOffset' = tagOffset
  BY DEF Audio, ReadAudioTag, NotInBody, EmptyBody, BodyMissing, Refused, ReadPastEnd, tagVars
<1>2. Video => tagOffset' = tagOffset
  BY DEF Video, ReadVideoTag, NotInBody, EmptyBody, BodyMissing, Refused, ReadPastEnd, tagVars
<1>3. PacketType \/ Composition => tagOffset' = tagOffset
  BY DEF PacketType, Composition, ReadTagBody, tagVars
<1>4. MetaData => tagOffset' = tagOffset
  BY DEF MetaData, ReadMetadata, NotInBody, EmptyBody, Refused, ReadPastEnd, tagVars
<1>5. Unknown => tagOffset' = tagOffset
  BY DEF Unknown, vars, tagVars
<1>. QED  BY <1>1, <1>2, <1>3, <1>4, <1>5 DEF BodyAction

(* Every step keeps this.                                                  *)
LEMMA WhereStep ==
  ASSUME TypeOK, TypeOK', WhereInv, [DumpNext]_allVars
  PROVE  WhereInv'
<1>0. request' = request /\ file' = file /\ Size' = Size
  BY RequestKept DEF Size
<1>1. CASE OpenFile
  BY <1>0, <1>1 DEF OpenFile, Go, WhereInv, InTag, Over, vars
<1>2. CASE Header
  BY <1>0, <1>2 DEF Header, ReadHeader, Refused, ReadPastEnd, Go, Stop, WhereInv, InTag, Over
<1>3. CASE NextTagOrEnd
  <2>1. status' = status /\ pc = "tag" /\ pc' \in {"decode", "end"}
    BY <1>3 DEF NextTagOrEnd, Go, NoMoreTags
  <2>2. pc' = "decode" => result' = "OK"
    BY <1>3 DEF NextTagOrEnd, Go, NoMoreTags
  <2>3. result' = "OK" => tagOffset' \in 0 .. Size
    <3>. SUFFICES ASSUME result' = "OK" PROVE tagOffset' \in 0 .. Size
      OBVIOUS
    <3>1. tagOffset' = NextTag /\ Available(NextTag, TagSize)
      BY <1>3 DEF NextTagOrEnd, ReadTag, Refused, ReadPastEnd
    <3>2. tagOffset' \in Nat /\ TagSize \in Nat /\ Size \in Nat
      BY SizesAssumption, FilesAssumption DEF TypeOK, IsFile, Size
    <3>. QED  BY <3>1, <3>2 DEF Available
  <2>. QED  BY <1>0, <2>1, <2>2, <2>3 DEF WhereInv, InTag, Over
<1>4. CASE BodyAction
  <2>1. /\ pc \in {"decode", "packet", "composition"}
        /\ pc' \in {"packet", "composition", "prev", "close"}
    BY <1>4, BodyActions
  <2>3. tagOffset' = tagOffset
    BY <1>4, TagKept
  <2>2. (pc' # "close" => status' = status) /\ (status' = "STOP_OK" => ~request.whole \/ status = "STOP_OK")
    BY <1>4 DEF BodyAction, Audio, Video, PacketType, Composition, MetaData, Unknown, Go, Stop
  <2>. QED  BY <1>0, <2>1, <2>2, <2>3 DEF WhereInv, InTag, Over
<1>5. CASE PrevTagSizeField
  BY <1>0, <1>5 DEF PrevTagSizeField, ReadPrevTagSize, Refused, ReadPastEnd, Go, Stop, WhereInv, InTag, Over
<1>6. CASE EndOfStream \/ CloseFile \/ Finish
  BY <1>0, <1>6 DEF EndOfStream, CloseFile, Finish, Go, WhereInv, InTag, Over
<1>7. CASE UNCHANGED allVars
  BY <1>0, <1>7 DEF allVars, dumpVars, vars, tagVars, WhereInv, InTag, Over
<1>. QED  BY <1>1, <1>2, <1>3, <1>4, <1>5, <1>6, <1>7, StepCases

GivenTypes == given \in Seq(GivenItem)

(* What a callback prints comes behind what was printed.                   *)
LEMMA SayAppends ==
  ASSUME GivenTypes, request.whole
  PROVE  /\ \A g \in GivenItem : SayAll(<<g>>) => given' = Append(given, g)
         /\ \A g, h \in GivenItem : SayAll(<<g, h>>) => given' = Append(Append(given, g), h)
<1>1. ASSUME NEW g \in GivenItem, SayAll(<<g>>) PROVE given' = Append(given, g)
  <2>1. given' = given \o <<g>>
    BY <1>1 DEF SayAll
  <2>2. given \o <<g>> = Append(given, g)
    BY AppendIsConcat DEF GivenTypes
  <2>. QED  BY <2>1, <2>2
<1>2. ASSUME NEW g \in GivenItem, NEW h \in GivenItem, SayAll(<<g, h>>)
      PROVE  given' = Append(Append(given, g), h)
  <2>1. given' = given \o <<g, h>>
    BY <1>2 DEF SayAll
  <2>2. given \o <<g, h>> = Append(Append(given, g), h)
    BY DEF GivenTypes
  <2>. QED  BY <2>1, <2>2
<1>. QED  BY <1>1, <1>2

(* Parts and values are what is handed over.                               *)
LEMMA PartsAreItems ==
  /\ \A part \in DOMAIN Parts : NamedPart(part) \in GivenItem
  /\ \A v \in Values : Metadata(v) \in GivenItem /\ Document(v) \in GivenItem
  BY DEF GivenItem, NamedPart, Metadata, Document

PartNames == {"header", "tag", "prev", "end", "audio", "audioStart", "audioPacket",
              "video", "extended", "videoStart", "avcStart", "avcTime", "avcEnd"}
(* Their names are those of Parts.                                         *)
LEMMA PartsNamed == DOMAIN Parts = PartNames /\ \A way \in Paths : way[2] \in PartNames
<1>1. DOMAIN Parts = PartNames
  BY DEF Parts, PartNames
<1>2. \A way \in Paths : way[2] \in PartNames
  BY DEF Paths, PartNames
<1>. QED  BY <1>1, <1>2

Behind(way) ==
  /\ way \in Paths /\ Place = way[1] /\ Place' = way[3]
  /\ given' = Append(given, NamedPart(way[2]))
BehindTwo(one, two) ==
  /\ one \in Paths /\ two \in Paths /\ one[3] = two[1]
  /\ Place = one[1] /\ Place' = two[3]
  /\ given' = Append(Append(given, NamedPart(one[2])), NamedPart(two[2]))
Moved ==
  \/ given' = given /\ Place' \in {Place, "broken"}
  \/ \E way \in Paths : Behind(way)
  \/ \E one, two \in Paths : BehindTwo(one, two)
  \/ Place = "tag" /\ Place' = "tag" /\ \E v \in Values : given' = Append(given, Metadata(v))

(* The paths, one by one.                                                  *)
LEMMA PathIs ==
  ASSUME NEW x, NEW part, NEW y, <<x, part, y>> \in Paths, GivenTypes, request.whole,
         Place = x, Place' = y, Say(part)
  PROVE  Moved
<1>1. part \in DOMAIN Parts
  BY PartsNamed
<1>2. given' = Append(given, NamedPart(part))
  BY <1>1, SayAppends, PartsAreItems DEF Say
<1>3. Behind(<<x, part, y>>)
  BY <1>2 DEF Behind
<1>. QED  BY <1>3 DEF Moved

(* Every step of a full dump prints a part that leads from its place to    *)
(* the next, or stops the dump.                                            *)
LEMMA PlaceMoves ==
  ASSUME TypeOK, GivenTypes, WhereInv, request.whole, [DumpNext]_allVars
  PROVE  Moved
<1>0. request' = request /\ file' = file
  BY RequestKept
<1>1. CASE OpenFile
  BY <1>1, PlaceIs DEF OpenFile, Silent, Go, Place, Over, Moved
<1>2. CASE Header
  <2>1. pc = "header" /\ Place = "start"
    BY <1>2, PlaceIs DEF Header, Place
  <2>2. CASE result' = "OK" /\ Go("tag") /\ Say("header")
    <3>1. Place' = "tags"
      BY <2>2, PlaceIs DEF Go, Place
    <3>2. <<"start", "header", "tags">> \in Paths
      BY DEF Paths
    <3>. QED  BY <2>1, <2>2, <3>1, <3>2, PathIs
  <2>3. CASE Silent /\ pc' = "close" /\ status' # "OK"
    BY <2>3, PlaceIs DEF Silent, Place, Over, Moved
  <2>. QED  BY <1>2, <2>2, <2>3 DEF Header, Stop
<1>3. CASE NextTagOrEnd
  <2>1. pc = "tag" /\ Place = "tags"
    BY <1>3, PlaceIs DEF NextTagOrEnd, Place
  <2>2. CASE pc' = "decode" /\ Say("tag")
    <3>1. Place' = "tag"
      BY <2>2, PlaceIs DEF Place
    <3>2. <<"tags", "tag", "tag">> \in Paths
      BY DEF Paths
    <3>. QED  BY <2>1, <2>2, <3>1, <3>2, PathIs
  <2>3. CASE pc' = "end" /\ Silent
    BY <2>1, <2>3, PlaceIs DEF Silent, Place, Moved
  <2>. QED  BY <1>3, <2>2, <2>3 DEF NextTagOrEnd, Go, NoMoreTags
<1>4. CASE BodyAction
  <2>0. /\ pc \in {"decode", "packet", "composition"} /\ tagOffset' = tagOffset
        /\ tagOffset \in 0 .. Size /\ file \in Files /\ Tag' = Tag
        /\ IsDumpFile(Contents[file])
    <3>1. pc \in {"decode", "packet", "composition"} /\ tagOffset' = tagOffset
      BY <1>4, BodyActions, TagKept
    <3>. QED  BY <1>0, <3>1, DumpFilesAssumption DEF WhereInv, InTag, TypeOK, Tag
  <2>1. /\ Tag.values # {} => \A v \in Tag.values : v \in Values
        /\ Tag.type = "audio" => Tag.packets < 2
    BY <2>0 DEF IsDumpFile, Tag, Size
  <2>2. CASE given' = given /\ pc = "decode" /\ pc' = "prev"
    BY <2>2, PlaceIs DEF Place, Moved
  <2>3. CASE given' = given /\ pc' = "close" /\ status' # "OK"
    BY <2>3, PlaceIs DEF Place, Over, Moved
  <2>4. CASE Audio
    <3>1. pc = "decode" /\ Place = "tag" /\ Tag.type = "audio"
      BY <2>4, PlaceIs DEF Audio, Place
    <3>2. CASE pc' = "packet" /\ Say("audioStart")
      <4>1. Place' = "audio"
        BY <2>0, <3>1, <3>2, PlaceIs DEF Place
      <4>2. <<"tag", "audioStart", "audio">> \in Paths
        BY DEF Paths
      <4>. QED  BY <3>1, <3>2, <4>1, <4>2, PathIs
    <3>3. CASE pc' = "prev" /\ Say("audio")
      <4>1. Place' = "tag"
        BY <3>3, PlaceIs DEF Place
      <4>2. <<"tag", "audio", "tag">> \in Paths
        BY DEF Paths
      <4>. QED  BY <3>1, <3>3, <4>1, <4>2, PathIs
    <3>. QED  BY <2>2, <2>3, <2>4, <3>2, <3>3 DEF Audio, Go, Stop, Silent
  <2>5. CASE Video
    <3>1. pc = "decode" /\ Place = "tag" /\ Tag.type = "video"
      BY <2>5, PlaceIs DEF Video, Place
    <3>2. CASE pc' = "packet" /\ Say("videoStart")
      <4>1. Place' = "video"
        BY <2>0, <3>1, <3>2, PlaceIs DEF Place
      <4>2. <<"tag", "videoStart", "video">> \in Paths
        BY DEF Paths
      <4>. QED  BY <3>1, <3>2, <4>1, <4>2, PathIs
    <3>3. ASSUME NEW part \in {"video", "extended"}, pc' = "prev", Say(part) PROVE Moved
      <4>1. Place' = "tag"
        BY <3>3, PlaceIs DEF Place
      <4>2. <<"tag", part, "tag">> \in Paths
        BY DEF Paths
      <4>. QED  BY <3>1, <3>3, <4>1, <4>2, PathIs
    <3>4. \/ given' = given /\ pc' = "prev"
          \/ given' = given /\ pc' = "close" /\ status' # "OK"
          \/ pc' = "packet" /\ Say("videoStart")
          \/ pc' = "prev" /\ Say(IF ExtendedAt(pos) THEN "extended" ELSE "video")
      BY <2>5 DEF Video, Go, Stop, Silent
    <3>. QED  BY <2>2, <2>3, <3>1, <3>2, <3>3, <3>4
  <2>6. CASE PacketType
    <3>1. pc = "packet"
      BY <2>6 DEF PacketType
    <3>2. CASE Tag.type = "audio" /\ pc' = "prev" /\ Say("audioPacket")
      <4>1. Place = "audio" /\ Place' = "tag"
        BY <3>1, <3>2, PlaceIs DEF Place
      <4>2. <<"audio", "audioPacket", "tag">> \in Paths
        BY DEF Paths
      <4>. QED  BY <3>2, <4>1, <4>2, PathIs
    <3>3. CASE /\ Tag.type = "video" /\ pc' = "prev"
               /\ SayAll(<<NamedPart("avcStart"), NamedPart("avcEnd")>>)
      <4>1. Place = "video" /\ Place' = "tag"
        BY <3>1, <3>3, PlaceIs DEF Place
      <4>2. <<"video", "avcStart", "avc">> \in Paths /\ <<"avc", "avcEnd", "tag">> \in Paths
        BY DEF Paths
      <4>3. "avcStart" \in DOMAIN Parts /\ "avcEnd" \in DOMAIN Parts
        BY PartsNamed DEF PartNames
      <4>4. given' = Append(Append(given, NamedPart("avcStart")), NamedPart("avcEnd"))
        BY <3>3, <4>3, SayAppends, PartsAreItems
      <4>5. BehindTwo(<<"video", "avcStart", "avc">>, <<"avc", "avcEnd", "tag">>)
        BY <4>1, <4>2, <4>4 DEF BehindTwo
      <4>. QED  BY <4>2, <4>5 DEF Moved
    <3>4. CASE Tag.packets = 2 /\ pc' = "composition" /\ Say("avcStart")
      <4>1. Place = "video" /\ Place' = "avc"
        BY <2>1, <3>1, <3>4, PlaceIs DEF Place
      <4>2. <<"video", "avcStart", "avc">> \in Paths
        BY DEF Paths
      <4>. QED  BY <3>4, <4>1, <4>2, PathIs
    <3>5. \/ given' = given /\ pc' = "close" /\ status' # "OK"
          \/ Tag.type = "audio" /\ pc' = "prev" /\ Say("audioPacket")
          \/ Tag.type = "video" /\ pc' = "prev" /\ SayAll(<<NamedPart("avcStart"), NamedPart("avcEnd")>>)
          \/ Tag.packets = 2 /\ pc' = "composition" /\ Say("avcStart")
      BY <2>6 DEF PacketType, Go, Stop, Silent
    <3>. QED  BY <2>3, <3>2, <3>3, <3>4, <3>5
  <2>7. CASE Composition
    <3>1. pc = "composition" /\ Place = "avc"
      BY <2>7, PlaceIs DEF Composition, Place
    <3>2. CASE pc' = "prev" /\ SayAll(<<NamedPart("avcTime"), NamedPart("avcEnd")>>)
      <4>1. Place' = "tag"
        BY <3>2, PlaceIs DEF Place
      <4>2. <<"avc", "avcTime", "avc">> \in Paths /\ <<"avc", "avcEnd", "tag">> \in Paths
        BY DEF Paths
      <4>3. "avcTime" \in DOMAIN Parts /\ "avcEnd" \in DOMAIN Parts
        BY PartsNamed DEF PartNames
      <4>4. given' = Append(Append(given, NamedPart("avcTime")), NamedPart("avcEnd"))
        BY <3>2, <4>3, SayAppends, PartsAreItems
      <4>5. BehindTwo(<<"avc", "avcTime", "avc">>, <<"avc", "avcEnd", "tag">>)
        BY <3>1, <4>1, <4>2, <4>4 DEF BehindTwo
      <4>. QED  BY <4>2, <4>5 DEF Moved
    <3>. QED  BY <2>3, <2>7, <3>2 DEF Composition, Go, Stop, Silent
  <2>8. CASE MetaData
    <3>1. pc = "decode" /\ Place = "tag"
      BY <2>8, PlaceIs DEF MetaData, Place
    <3>2. ASSUME NEW v \in Tag.values, pc' = "prev", SayAll(<<Metadata(v)>>) PROVE Moved
      <4>1. Place' = "tag"
        BY <3>2, PlaceIs DEF Place
      <4>2. v \in Values
        BY <2>1
      <4>3. given' = Append(given, Metadata(v))
        BY <3>2, <4>2, SayAppends, PartsAreItems
      <4>. QED  BY <3>1, <4>1, <4>2, <4>3 DEF Moved
    <3>3. \/ given' = given /\ pc' = "prev"
          \/ given' = given /\ pc' = "close" /\ status' # "OK"
          \/ pc' = "prev" /\ \E v \in Tag.values : SayAll(<<Metadata(v)>>)
      BY <2>8 DEF MetaData, Go, Stop, Silent, Metadata
    <3>. QED  BY <2>2, <2>3, <3>1, <3>2, <3>3
  <2>9. CASE Unknown
    BY <2>2, <2>9 DEF Unknown, Go, Silent
  <2>. QED  BY <1>4, <2>4, <2>5, <2>6, <2>7, <2>8, <2>9 DEF BodyAction
<1>5. CASE PrevTagSizeField
  <2>1. pc = "prev" /\ Place = "tag"
    BY <1>5, PlaceIs DEF PrevTagSizeField, Place
  <2>2. CASE pc' = "tag" /\ Say("prev")
    <3>1. Place' = "tags"
      BY <2>2, PlaceIs DEF Place
    <3>2. <<"tag", "prev", "tags">> \in Paths
      BY DEF Paths
    <3>. QED  BY <2>1, <2>2, <3>1, <3>2, PathIs
  <2>3. CASE given' = given /\ pc' = "close" /\ status' # "OK"
    BY <2>3, PlaceIs DEF Place, Over, Moved
  <2>. QED  BY <1>5, <2>2, <2>3 DEF PrevTagSizeField, Go, Stop, Silent
<1>6. CASE EndOfStream
  <2>1. pc = "end" /\ Place = "tags" /\ status = "OK" /\ pc' = "close" /\ status' = status
    BY <1>6, PlaceIs DEF EndOfStream, Place, WhereInv, Over
  <2>2. Place' = "closed"
    BY <2>1, PlaceIs DEF Place, Over
  <2>3. <<"tags", "end", "closed">> \in Paths
    BY DEF Paths
  <2>. QED  BY <1>6, <2>1, <2>2, <2>3, PathIs DEF EndOfStream
<1>7. CASE CloseFile \/ Finish
  <2>1. given' = given /\ status' = status /\ Over /\ Over'
    BY <1>7 DEF CloseFile, Finish, Go, Silent, Over, WhereInv
  <2>. QED  BY <2>1, PlaceIs DEF Place, Over, Moved
<1>8. CASE UNCHANGED allVars
  <2>1. given' = given /\ Place' = Place
    BY <1>8, PlaceIs DEF allVars, dumpVars, vars, tagVars, Place, Tag, Over
  <2>. QED  BY <2>1 DEF Moved
<1>. QED  BY <1>1, <1>2, <1>3, <1>4, <1>5, <1>6, <1>7, <1>8, StepCases

(* A reader of what a dump of the whole file prints is where the dump is;  *)
(* a metadata dump prints nothing or one document.                         *)
Documents == {<<>>} \cup {<<Document(v)>> : v \in Values}
ReaderInv(G, a, f, P) ==
  /\ WhereInv
  /\ request.whole => GivenTypes /\ At(G, a, f, given, P[Place])
  /\ ~request.whole => given \in Documents

(* All that can be handed over is printed in tokens of the format.         *)
LEMMA AcceptsSays ==
  ASSUME NEW G, NEW X, NEW T, NEW f, NEW P, Accepts(G, X, T, f, P)
  PROVE  Says(f, T)
<1>. SUFFICES ASSUME NEW g \in GivenItem PROVE TokensOf(f, g) \in Seq(T)
  BY DEF Says
<1>1. CASE g \in [part : DOMAIN Parts, value : {<<>>}]
  <2>1. g = NamedPart(g.part) /\ g.part \in PartNames
    BY <1>1, PartsNamed DEF NamedPart
  <2>2. PICK way \in Paths : way[2] = g.part
    BY <2>1 DEF Paths, PartNames
  <2>3. Moves(G, X, T, P[way[1]], TokensOf(f, NamedPart(way[2])), P[way[3]])
    BY DEF Accepts
  <2>. QED  BY <2>1, <2>2, <2>3 DEF Moves
<1>2. CASE g \in [part : {"metadata", "document"}, value : Values]
  <2>1. g = Metadata(g.value) \/ g = Document(g.value)
    BY <1>2 DEF Metadata, Document
  <2>2. g.value \in Values
    BY <1>2
  <2>3. /\ Moves(G, X, T, P["tag"], TokensOf(f, Metadata(g.value)), P["tag"])
        /\ Moves(G, X, T, P["start"], TokensOf(f, Document(g.value)), P["closed"])
    BY <2>2 DEF Accepts
  <2>. QED  BY <2>1, <2>3 DEF Moves
<1>. QED  BY <1>1, <1>2 DEF GivenItem

(* A reader of nothing is at the start.                                    *)
LEMMA NothingSaid ==
  ASSUME NEW G, NEW X, NEW T, NEW f, NEW P, Accepts(G, X, T, f, P), NEW a \in P["start"]
  PROVE  At(G, a, f, <<>>, P["start"])
<1>1. Reader(G, X, T) /\ a \in X
  BY DEF Accepts, Places
<1>2. Run(G, a, <<>>) = a
  BY <1>1, RunNone, Zenon
<1>. QED  BY <1>2, SaidNothing DEF At

(* A dump starts at the start.                                             *)
LEMMA ReaderInit ==
  ASSUME NEW G, NEW X, NEW T, NEW f, NEW P, Accepts(G, X, T, f, P), NEW a \in P["start"],
         DumpInit
  PROVE  ReaderInv(G, a, f, P)
<1>1. given = <<>> /\ pc = "open" /\ status = "OK"
  BY DEF DumpInit
<1>2. Place = "start" /\ WhereInv /\ GivenTypes
  BY <1>1, PlaceIs, EmptySeq DEF Place, WhereInv, InTag, Over, GivenTypes
<1>. QED  BY <1>1, <1>2, NothingSaid DEF ReaderInv, Documents

(* Every action that prints takes the reader along one path, or two;       *)
(* MetaData prints a value where one may be; all others print nothing, and *)
(* stop inside the document at most.                                       *)
LEMMA ReaderStep ==
  ASSUME NEW G, NEW X, NEW T, NEW f, NEW P, Accepts(G, X, T, f, P), NEW a \in P["start"],
         TypeOK, TypeOK', ReaderInv(G, a, f, P), [DumpNext]_allVars
  PROVE  ReaderInv(G, a, f, P)'
<1>0. WhereInv' /\ request' = request
  BY WhereStep, RequestKept DEF ReaderInv
<1>1. CASE request.whole
  <2>. DEFINE In(gs, x) == gs \in Seq(GivenItem) /\ At(G, a, f, gs, P[x])
  <2>0. a \in X /\ Says(f, T) /\ Place \in Places
    <3>1. a \in X
      BY DEF Accepts, Places
    <3>2. Place \in Places
      BY DEF Place, PlaceOf, Places
    <3>. QED  BY <3>1, <3>2, AcceptsSays
  <2>1. In(given, Place)
    BY <1>1 DEF ReaderInv, GivenTypes
  <2>2. ASSUME NEW gs, NEW way \in Paths, In(gs, way[1])
        PROVE  In(Append(gs, NamedPart(way[2])), way[3])
    <3>1. NamedPart(way[2]) \in GivenItem
      BY PartsNamed, PartsAreItems
    <3>2. Moves(G, X, T, P[way[1]], TokensOf(f, NamedPart(way[2])), P[way[3]])
      BY DEF Accepts
    <3>3. At(G, a, f, Append(gs, NamedPart(way[2])), P[way[3]])
      BY <2>0, <2>2, <3>1, <3>2, SaidMoves, Zenon
    <3>4. Append(gs, NamedPart(way[2])) \in Seq(GivenItem)
      BY <2>2, <3>1, AppendProperties
    <3>. QED  BY <3>3, <3>4
  <2>3. ASSUME NEW v \in Values, In(given, "tag") PROVE In(Append(given, Metadata(v)), "tag")
    <3>1. Metadata(v) \in GivenItem
      BY PartsAreItems
    <3>2. Moves(G, X, T, P["tag"], TokensOf(f, Metadata(v)), P["tag"])
      BY DEF Accepts
    <3>3. At(G, a, f, Append(given, Metadata(v)), P["tag"])
      BY <2>0, <2>3, <3>1, <3>2, SaidMoves, Zenon
    <3>4. Append(given, Metadata(v)) \in Seq(GivenItem)
      BY <2>3, <3>1, AppendProperties
    <3>. QED  BY <3>3, <3>4
  <2>4. P[Place] \subseteq P["broken"]
    BY <2>0 DEF Accepts
  <2>5. In(given, "broken")
    BY <2>1, <2>4 DEF At
  <2>. HIDE DEF In
  <2>6. In(given', Place')
    <3>1. CASE given' = given /\ Place' \in {Place, "broken"}
      BY <2>1, <2>5, <3>1
    <3>2. CASE \E way \in Paths : Behind(way)
      <4>1. PICK way \in Paths : Behind(way)
        BY <3>2
      <4>2. In(given, way[1])
        BY <2>1, <4>1 DEF Behind
      <4>3. In(Append(given, NamedPart(way[2])), way[3])
        BY <2>2, <4>2
      <4>. QED  BY <4>1, <4>3 DEF Behind
    <3>3. CASE \E one, two \in Paths : BehindTwo(one, two)
      <4>1. PICK one \in Paths, two \in Paths : BehindTwo(one, two)
        BY <3>3
      <4>2. In(given, one[1]) /\ one[3] = two[1]
        BY <2>1, <4>1 DEF BehindTwo
      <4>3. In(Append(given, NamedPart(one[2])), two[1])
        BY <2>2, <4>2
      <4>4. In(Append(Append(given, NamedPart(one[2])), NamedPart(two[2])), two[3])
        BY <2>2, <4>3
      <4>. QED  BY <4>1, <4>4 DEF BehindTwo
    <3>4. CASE /\ Place = "tag" /\ Place' = "tag"
               /\ \E v \in Values : given' = Append(given, Metadata(v))
      BY <2>1, <2>3, <3>4
    <3>5. Moved
      BY <1>1, PlaceMoves DEF ReaderInv
    <3>. QED  BY <3>1, <3>2, <3>3, <3>4, <3>5 DEF Moved
  <2>7. GivenTypes' /\ At(G, a, f, given', P[Place'])
    BY <2>6 DEF In, GivenTypes
  <2>. QED  BY <1>0, <1>1, <2>7 DEF ReaderInv
<1>2. CASE ~request.whole
  <2>1. given' = given \/ \E v \in Values : given' = <<Document(v)>>
    <3>1. CASE MetaData
      <4>1. given' = given \/ \E v \in Tag.values : given' = <<Document(v)>>
        BY <1>2, <3>1 DEF MetaData, DumpValue, Silent, SayAll, Document
      <4>2. Tag.values # {} => \A v \in Tag.values : v \in Values
        <5>1. tagOffset \in 0 .. Size /\ file \in Files
          BY <3>1 DEF MetaData, ReaderInv, WhereInv, InTag, TypeOK
        <5>. QED  BY <5>1, DumpFilesAssumption DEF IsDumpFile, Tag, Size
      <4>. QED  BY <4>1, <4>2
    <3>2. CASE ~MetaData
      BY <1>2, <3>2 DEF DumpNext, OpenFile, Header, NextTagOrEnd, Audio, Video, PacketType,
         Composition, Unknown, PrevTagSizeField, EndOfStream, CloseFile, Finish, Done,
         Silent, Say, SayAll, allVars, dumpVars
    <3>. QED  BY <3>1, <3>2
  <2>. QED  BY <1>0, <1>2, <2>1 DEF ReaderInv, Documents
<1>. QED  BY <1>1, <1>2

(* A reader of a complete document has closed it, and any other is inside. *)
LEMMA ReaderDone ==
  ASSUME NEW G, NEW X, NEW T, NEW f, NEW P, Accepts(G, X, T, f, P), NEW a \in P["start"],
         ReaderInv(G, a, f, P)
  PROVE  /\ Said(f, given) \in Seq(T)
         /\ At(G, a, f, given, P["broken"])
         /\ Finished => At(G, a, f, given, P["closed"])
<1>0. /\ \A x \in Places : P[x] \subseteq P["broken"]
      /\ "start" \in Places /\ "closed" \in Places /\ Place \in Places
  BY DEF Accepts, Places, Place, PlaceOf
<1>01. Said(f, given) \in Seq(T)
  <2>1. given \in Seq(GivenItem)
    <3>1. CASE request.whole
      BY <3>1 DEF ReaderInv, GivenTypes
    <3>2. CASE ~request.whole
      <4>1. \A v \in Values : <<Document(v)>> \in Seq(GivenItem)
        BY PartsAreItems
      <4>. QED  BY <3>2, <4>1, EmptySeq DEF ReaderInv, Documents
    <3>. QED  BY <3>1, <3>2
  <2>2. Says(f, T) /\ NamedPart("tag") \in GivenItem
    BY AcceptsSays, PartsAreItems, PartsNamed DEF PartNames
  <2>3. SaidOn(f, T, given, NamedPart("tag"))
    BY <2>1, <2>2, SaidAppended, Zenon
  <2>. QED  BY <2>3 DEF SaidOn
<1>1. CASE request.whole
  <2>1. At(G, a, f, given, P[Place])
    BY <1>1 DEF ReaderInv
  <2>2. Finished => Place = "closed"
    BY <1>1, PlaceIs DEF Finished, Place
  <2>. QED  BY <1>0, <1>01, <2>1, <2>2 DEF At
<1>2. CASE ~request.whole /\ given = <<>>
  <2>1. At(G, a, f, given, P["start"])
    BY <1>2, NothingSaid
  <2>. QED  BY <1>0, <1>01, <1>2, <2>1 DEF At, Finished
<1>3. ASSUME NEW v \in Values, given = <<Document(v)>> PROVE At(G, a, f, given, P["closed"])
  <2>1. <<>> \in Seq(GivenItem) /\ given = Append(<<>>, Document(v)) /\ Document(v) \in GivenItem
    BY <1>3, EmptySeq, PartsAreItems
  <2>2. At(G, a, f, <<>>, P["start"]) /\ Says(f, T) /\ a \in X
    BY NothingSaid, AcceptsSays DEF Accepts, Places
  <2>3. Moves(G, X, T, P["start"], TokensOf(f, Document(v)), P["closed"])
    BY DEF Accepts
  <2>4. At(G, a, f, Append(<<>>, Document(v)), P["closed"])
    BY <2>1, <2>2, <2>3, SaidMoves, Zenon
  <2>. QED  BY <2>1, <2>4
<1>4. CASE ~request.whole /\ given # <<>>
  <2>1. PICK v \in Values : given = <<Document(v)>>
    BY <1>4 DEF ReaderInv, Documents
  <2>. QED  BY <1>0, <1>01, <1>3, <2>1 DEF At
<1>. QED  BY <1>1, <1>2, <1>4

(* What is printed in the format of the request.                           *)
LEMMA SaidIsPrinted == Tokens = Said(Format, given)
  BY DEF Tokens, Said

----------------------------------------------------------------------------
(* Reading XML.                                                            *)
XmlNames == Types \cup {"xml", "flv", "tag", "entry", "videoData", "audioData", "AACData",
                        "AVCData", "scriptDataObject"}
XmlToken == [kind : {"prolog", "open", "close", "empty", "begin", "finish"},
             name : XmlNames, text : {<<>>}]
XmlState == [ok : BOOLEAN, prolog : BOOLEAN, root : BOOLEAN, tag : XmlNames \cup {""},
             open : Seq(XmlNames)]
XmlStep == [p \in XmlState \X XmlToken |-> ReadXml(p[1], p[2])]
XmlNew == [ok |-> TRUE, prolog |-> FALSE, root |-> FALSE, tag |-> "", open |-> <<>>]

(* One more element, or the last one less.                                 *)
LEMMA LongerShorter ==
  ASSUME NEW X, NEW s \in Seq(X), NEW x \in X
  PROVE  /\ Append(s, x) \in Seq(X)
         /\ s # <<>> => SubSeq(s, 1, Len(s) - 1) \in Seq(X)
<1>1. s # <<>> => Len(s) - 1 \in 0 .. Len(s)
  BY EmptySeq, LenProperties
<1>2. \A n \in 0 .. Len(s) : SubSeq(s, 1, n) \in Seq(X)
  OBVIOUS
<1>. QED  BY <1>1, <1>2, AppendProperties

(* Reading XML stays among the states.                                     *)
LEMMA XmlToState == \A r \in XmlState, x \in XmlToken : ReadXml(r, x) \in XmlState
<1>1. ASSUME NEW r \in XmlState, NEW x \in XmlToken PROVE ReadXml(r, x) \in XmlState
  <2>1. /\ r.ok \in BOOLEAN /\ r.root \in BOOLEAN /\ r.tag \in XmlNames \cup {""}
        /\ r.open \in Seq(XmlNames) /\ x.name \in XmlNames
    BY DEF XmlState, XmlToken
  <2>2. /\ ReadXml(r, x).ok \in BOOLEAN /\ ReadXml(r, x).root \in BOOLEAN
        /\ ReadXml(r, x).prolog = TRUE
    BY DEF ReadXml
  <2>3. ReadXml(r, x).tag \in XmlNames \cup {""}
    BY <2>1 DEF ReadXml
  <2>4. ReadXml(r, x).open \in Seq(XmlNames)
    <3>1. /\ Append(r.open, x.name) \in Seq(XmlNames)
          /\ r.open # <<>> => SubSeq(r.open, 1, Len(r.open) - 1) \in Seq(XmlNames)
      BY <2>1, LongerShorter, Zenon
    <3>. QED  BY <2>1, <3>1 DEF ReadXml
  <2>5. ReadXml(r, x) = [ok |-> ReadXml(r, x).ok, prolog |-> ReadXml(r, x).prolog,
                         root |-> ReadXml(r, x).root, tag |-> ReadXml(r, x).tag,
                         open |-> ReadXml(r, x).open]
    BY DEF ReadXml
  <2>. QED  BY <2>2, <2>3, <2>4, <2>5 DEF XmlState
<1>. QED  BY <1>1

(* So it is carried over any tokens.                                       *)
LEMMA XmlReads == Reader(XmlStep, XmlState, XmlToken) /\ XmlNew \in XmlState
<1>2. XmlNew \in XmlState
  BY EmptySeq DEF XmlNew, XmlState
<1>. QED  BY <1>2, XmlToState DEF Reader, XmlStep

(* Before the root, inside the elements o, and inside a start tag.         *)
XmlFresh == {r \in XmlState : r.ok /\ r.prolog /\ ~r.root /\ r.tag = "" /\ r.open = <<>>}
XmlIn(o) == {r \in XmlState : r.ok /\ r.prolog /\ r.root /\ r.tag = "" /\ r.open = o}
XmlInTag(o, n) == {r \in XmlState : r.ok /\ r.prolog /\ r.root /\ r.tag = n /\ r.open = o}
XmlBefore(o) == IF o = <<>> THEN XmlFresh ELSE XmlIn(o)
XmlGoes(A, s, B) == Moves(XmlStep, XmlState, XmlToken, A, s, B)

XmlOpen == Seq(XmlNames)
(* One more element that is open, and what is last then.                   *)
LEMMA XmlOpens ==
  ASSUME NEW o \in XmlOpen, NEW n \in XmlNames
  PROVE  /\ Append(o, n) \in XmlOpen /\ Append(o, n) # <<>>
         /\ Append(o, n)[Len(Append(o, n))] = n
         /\ SubSeq(Append(o, n), 1, Len(Append(o, n)) - 1) = o
  BY DEF XmlOpen

(* One token is one step of ReadXml.                                       *)
LEMMA XmlOne ==
  ASSUME NEW A, NEW B, A \subseteq XmlState, B \subseteq XmlState, NEW x \in XmlToken,
         \A r \in A : ReadXml(r, x) \in B
  PROVE  XmlGoes(A, <<x>>, B)
<1>1. \A r \in A : XmlStep[<<r, x>>] \in B
  BY DEF XmlStep
<1>. QED  BY <1>1, XmlReads, MovesOne, Zenon DEF XmlGoes

(* These are states.                                                       *)
LEMMA XmlSubsets ==
  /\ XmlFresh \subseteq XmlState
  /\ \A o : XmlIn(o) \subseteq XmlState /\ XmlBefore(o) \subseteq XmlState
  /\ \A o, n : XmlInTag(o, n) \subseteq XmlState
  BY DEF XmlFresh, XmlIn, XmlInTag, XmlBefore

(* The XML declaration is read first.                                      *)
LEMMA PrologGoes == XmlGoes({XmlNew}, Prolog, XmlFresh)
<1>. DEFINE x == Tok("prolog", "xml", <<>>)
<1>1. x \in XmlToken
  BY DEF Tok, XmlToken, XmlNames
<1>2. ReadXml(XmlNew, x) \in XmlFresh
  <2>1. ReadXml(XmlNew, x) \in XmlState
    BY <1>1, XmlReads, XmlToState
  <2>. QED  BY <2>1 DEF XmlFresh, ReadXml, XmlNew, Tok
<1>3. {XmlNew} \subseteq XmlState /\ \A r \in {XmlNew} : ReadXml(r, x) \in XmlFresh
  BY <1>2, XmlReads
<1>. HIDE DEF x
<1>4. XmlGoes({XmlNew}, <<x>>, XmlFresh)
  BY <1>1, <1>3, XmlSubsets, XmlOne, Zenon
<1>. QED  BY <1>4 DEF Prolog, x

(* A start tag opens an element.                                           *)
LEMMA StartGoes ==
  ASSUME NEW o \in XmlOpen, NEW n \in XmlNames
  PROVE  XmlGoes(XmlBefore(o), Start(n), XmlIn(Append(o, n)))
<1>. DEFINE x == Tok("open", n, <<>>)
<1>1. x \in XmlToken
  BY DEF Tok, XmlToken
<1>2. ASSUME NEW r \in XmlBefore(o) PROVE ReadXml(r, x) \in XmlIn(Append(o, n))
  <2>1. r \in XmlState /\ r.ok /\ r.prolog /\ r.tag = "" /\ r.open = o /\ (o = <<>> => ~r.root)
    BY DEF XmlBefore, XmlFresh, XmlIn
  <2>2. ReadXml(r, x) \in XmlState
    BY <1>1, <2>1, XmlToState
  <2>. QED  BY <2>1, <2>2 DEF XmlIn, ReadXml, Tok
<1>. HIDE DEF x
<1>4. XmlGoes(XmlBefore(o), <<x>>, XmlIn(Append(o, n)))
  BY <1>1, <1>2, XmlSubsets, XmlOne, Zenon
<1>. QED  BY <1>4 DEF Start, x

(* An end tag closes the element that was opened last.                     *)
LEMMA EndGoes ==
  ASSUME NEW o \in XmlOpen, NEW n \in XmlNames
  PROVE  XmlGoes(XmlIn(Append(o, n)), End(n), XmlIn(o))
<1>. DEFINE x == Tok("close", n, <<>>)
<1>1. x \in XmlToken
  BY DEF Tok, XmlToken
<1>2. ASSUME NEW r \in XmlIn(Append(o, n)) PROVE ReadXml(r, x) \in XmlIn(o)
  <2>1. r \in XmlState /\ r.ok /\ r.prolog /\ r.root /\ r.tag = "" /\ r.open = Append(o, n)
    BY DEF XmlIn
  <2>2. ReadXml(r, x) \in XmlState
    BY <1>1, <2>1, XmlToState
  <2>3. r.open # <<>> /\ r.open[Len(r.open)] = n /\ SubSeq(r.open, 1, Len(r.open) - 1) = o
    BY <2>1, XmlOpens, Zenon
  <2>. QED  BY <2>1, <2>2, <2>3 DEF XmlIn, ReadXml, Tok
<1>. HIDE DEF x
<1>4. XmlGoes(XmlIn(Append(o, n)), <<x>>, XmlIn(o))
  BY <1>1, <1>2, XmlSubsets, XmlOne, Zenon
<1>. QED  BY <1>4 DEF End, x

(* An element without content leaves what is open.                         *)
LEMMA EmptyGoes ==
  ASSUME NEW o \in XmlOpen, NEW n \in XmlNames
  PROVE  XmlGoes(XmlBefore(o), Empty(n), XmlIn(o))
<1>. DEFINE x == Tok("empty", n, <<>>)
<1>1. x \in XmlToken
  BY DEF Tok, XmlToken
<1>2. ASSUME NEW r \in XmlBefore(o) PROVE ReadXml(r, x) \in XmlIn(o)
  <2>1. r \in XmlState /\ r.ok /\ r.prolog /\ r.tag = "" /\ r.open = o /\ (o = <<>> => ~r.root)
    BY DEF XmlBefore, XmlFresh, XmlIn
  <2>2. ReadXml(r, x) \in XmlState
    BY <1>1, <2>1, XmlToState
  <2>. QED  BY <2>1, <2>2 DEF XmlIn, ReadXml, Tok
<1>. HIDE DEF x
<1>4. XmlGoes(XmlBefore(o), <<x>>, XmlIn(o))
  BY <1>1, <1>2, XmlSubsets, XmlOne, Zenon
<1>. QED  BY <1>4 DEF Empty, x

(* The start of an element, up to its last attribute, and its end.         *)
LEMMA BeginGoes ==
  ASSUME NEW o \in XmlOpen, o # <<>>
  PROVE  /\ XmlGoes(XmlIn(o), <<Tok("begin", "AVCData", <<>>)>>, XmlInTag(o, "AVCData"))
         /\ XmlGoes(XmlInTag(o, "AVCData"), <<Tok("finish", "AVCData", <<>>)>>, XmlIn(o))
<1>. DEFINE x == Tok("begin", "AVCData", <<>>)
            y == Tok("finish", "AVCData", <<>>)
<1>1. x \in XmlToken /\ y \in XmlToken
  BY DEF Tok, XmlToken, XmlNames
<1>2. ASSUME NEW r \in XmlIn(o) PROVE ReadXml(r, x) \in XmlInTag(o, "AVCData")
  <2>1. r \in XmlState /\ r.ok /\ r.prolog /\ r.root /\ r.tag = "" /\ r.open = o
    BY DEF XmlIn
  <2>2. ReadXml(r, x) \in XmlState
    BY <1>1, <2>1, XmlToState
  <2>. QED  BY <2>1, <2>2 DEF XmlInTag, ReadXml, Tok
<1>3. ASSUME NEW r \in XmlInTag(o, "AVCData") PROVE ReadXml(r, y) \in XmlIn(o)
  <2>1. r \in XmlState /\ r.ok /\ r.prolog /\ r.root /\ r.tag = "AVCData" /\ r.open = o
    BY DEF XmlInTag
  <2>2. ReadXml(r, y) \in XmlState
    BY <1>1, <2>1, XmlToState
  <2>. QED  BY <2>1, <2>2 DEF XmlIn, ReadXml, Tok
<1>. HIDE DEF x, y
<1>4. /\ XmlGoes(XmlIn(o), <<x>>, XmlInTag(o, "AVCData"))
      /\ XmlGoes(XmlInTag(o, "AVCData"), <<y>>, XmlIn(o))
  BY <1>1, <1>2, <1>3, XmlSubsets, XmlOne, Zenon
<1>. QED  BY <1>4 DEF x, y

(* Values in terms of Values.                                              *)
LEMMA ItemsOf ==
  ASSUME NEW v \in Values
  PROVE  /\ v.type \in Types /\ v.text \in Texts
         /\ Len(v.items) \in Nat /\ DOMAIN v.items = 1 .. Len(v.items)
         /\ \A i \in DOMAIN v.items : v.items[i].name \in Texts /\ v.items[i].data \in Values
  BY ValueItems, ValueParts, ItemParts

(* What a function gives for the items of a value.                         *)
LEMMA KidsOf ==
  ASSUME NEW v \in Values, NEW X, NEW f, Maps(f, Values, X)
  PROVE  Kids(f, v) \in Seq(X) /\ Len(Kids(f, v)) = Len(v.items)
<1>1. v \in ValuesOver(Values)
  BY ValueItems
<1>2. KidsAre(f, v, X)
  BY <1>1, KidsIn, Zenon
<1>. QED  BY <1>2 DEF KidsAre

Entry(s) == Start("entry") \o s \o End("entry")
EntriesOf(v, items) == [i \in DOMAIN v.items |-> Entry(items[i])]
(* XmlAround with its entries named.                                       *)
LEMMA XmlAroundIs ==
  \A v, items : XmlAround(v, items) =
     IF ~HasContent(v) THEN Empty(v.type)
     ELSE Start(v.type) \o Joined(IF v.type = "array" THEN items ELSE EntriesOf(v, items))
            \o End(v.type)
  BY DEF XmlAround, EntriesOf, Entry

(* Tags are sequences of tokens.                                           *)
LEMMA XmlOnes ==
  ASSUME NEW n \in XmlNames
  PROVE  Start(n) \in Seq(XmlToken) /\ End(n) \in Seq(XmlToken) /\ Empty(n) \in Seq(XmlToken)
<1>1. /\ Tok("open", n, <<>>) \in XmlToken /\ Tok("close", n, <<>>) \in XmlToken
      /\ Tok("empty", n, <<>>) \in XmlToken
  BY DEF Tok, XmlToken
<1>2. \A x \in XmlToken : <<x>> \in Seq(XmlToken)
  OBVIOUS
<1>. QED  BY <1>1, <1>2 DEF Start, End, Empty

(* A value is printed in tokens when its items are.                        *)
LEMMA XmlAroundIn ==
  ASSUME NEW v \in Values, NEW s \in Seq(Seq(XmlToken)), Len(s) = Len(v.items)
  PROVE  XmlAround(v, s) \in Seq(XmlToken)
<1>. DEFINE n == Len(v.items)
            w == EntriesOf(v, s)
            S == Seq(XmlToken)
<1>0. /\ n \in Nat /\ DOMAIN v.items = 1 .. n /\ v.type \in XmlNames /\ "entry" \in XmlNames
  BY ItemsOf DEF XmlNames
<1>01. Len(s) = n
  OBVIOUS
<1>. HIDE DEF n
<1>1. \A i \in 1 .. n : s[i] \in S
  BY <1>01, ElementOfSeq
<1>2. Start("entry") \in S /\ End("entry") \in S
      /\ Start(v.type) \in S /\ End(v.type) \in S /\ Empty(v.type) \in S
  BY <1>0, XmlOnes
<1>. HIDE DEF S
<1>3. \A a, b, c \in S : a \o b \o c \in S
  BY ConcatProperties DEF S
<1>4. \A i \in 1 .. n : Entry(s[i]) \in S
  BY <1>1, <1>2, <1>3 DEF Entry
<1>5. w = [i \in 1 .. n |-> w[i]] /\ \A i \in 1 .. n : w[i] \in S
  BY <1>0, <1>4 DEF EntriesOf
<1>. HIDE DEF w
<1>6. w \in Seq(S)
  <2>1. w \in [1 .. n -> S]
    BY <1>5
  <2>. QED  BY <1>0, <2>1, SeqDef
<1>7. Joined(w) \in S /\ Joined(s) \in S
  BY <1>6, JoinedIn DEF S
<1>8. Start(v.type) \o Joined(IF v.type = "array" THEN s ELSE w) \o End(v.type) \in S
  BY <1>2, <1>3, <1>7
<1>. QED  BY <1>2, <1>8, XmlAroundIs DEF S, w

(* xml_amf_data_dump of a value, by what it prints of the items.           *)
LEMMA XmlFact ==
  \A v \in Values : XmlTokens[v] = XmlAround(v, Kids(XmlTokens, v))
<1>. DEFINE S == Seq(XmlToken)
            G == [p \in Values \X Seq(S) |->
                    IF Len(p[2]) = Len(p[1].items) THEN XmlAround(p[1], p[2]) ELSE <<>>]
            Is(f) == f = [v \in Values |-> XmlAround(v, Kids(f, v))]
<1>0. <<>> \in S
  BY EmptySeq
<1>1. ASSUME NEW v \in Values, NEW s \in Seq(S), Len(s) = Len(v.items)
      PROVE  G[<<v, s>>] = XmlAround(v, s) /\ XmlAround(v, s) \in S
  <2>1. XmlAround(v, s) \in S
    BY <1>1, XmlAroundIn
  <2>. QED  BY <1>1, <2>1
<1>2. \A v \in Values, s \in Seq(S) : G[<<v, s>>] \in S
  <2>. TAKE v \in Values
  <2>. TAKE s \in Seq(S)
  <2>1. CASE Len(s) = Len(v.items)
    BY <1>1, <2>1
  <2>2. CASE Len(s) # Len(v.items)
    <3>. HIDE DEF S
    <3>1. G[<<v, s>>] = <<>>
      BY <2>2
    <3>. QED  BY <1>0, <3>1
  <2>. QED  BY <2>1, <2>2
<1>. HIDE DEF G, S
<1>3. PICK f : DeterminedBy(f, Values, S, G)
  BY <1>2, ValueRecursion, Zenon
<1>4. f \in [Values -> S] /\ \A v \in Values : f[v] = G[<<v, Kids(f, v)>>]
  BY <1>3 DEF DeterminedBy
<1>6. \A v \in Values : f[v] = XmlAround(v, Kids(f, v))
  <2>. TAKE v \in Values
  <2>1. Maps(f, Values, S)
    BY <1>4 DEF Maps
  <2>2. Kids(f, v) \in Seq(S) /\ Len(Kids(f, v)) = Len(v.items)
    BY <2>1, KidsOf
  <2>. QED  BY <1>1, <1>4, <2>2
<1>7. Is(f)
  BY <1>4, <1>6
<1>8. Is(XmlTokens)
  <2>1. XmlTokens = CHOOSE g : Is(g)
    BY DEF XmlTokens, Kids
  <2>. HIDE DEF Is
  <2>. QED  BY <1>7, <2>1
<1>. HIDE DEF Is
<1>. QED  BY <1>8, Zenon DEF Is

(* A value is an element: wherever one may be, it is read as one.          *)
ElementAt(s) == \A o \in XmlOpen : XmlGoes(XmlBefore(o), s, XmlIn(o))

(* An element in an entry is an element.                                   *)
LEMMA EntryGoes ==
  ASSUME NEW o \in XmlOpen, o # <<>>, NEW s, ElementAt(s)
  PROVE  XmlGoes(XmlIn(o), Entry(s), XmlIn(o))
<1>. DEFINE p == Append(o, "entry")
<1>1. "entry" \in XmlNames
  BY DEF XmlNames
<1>2. p \in XmlOpen /\ p # <<>>
  BY <1>1, XmlOpens
<1>3. XmlGoes(XmlIn(o), Start("entry"), XmlIn(p))
  BY <1>1, StartGoes DEF XmlBefore
<1>4. XmlGoes(XmlIn(p), End("entry"), XmlIn(o))
  BY <1>1, EndGoes
<1>. HIDE DEF p
<1>5. XmlGoes(XmlIn(p), s, XmlIn(p))
  BY <1>2 DEF XmlBefore, ElementAt
<1>6. XmlGoes(XmlIn(o), Start("entry") \o s, XmlIn(p))
  BY <1>3, <1>5, MovesConcat, Zenon DEF XmlGoes
<1>7. XmlGoes(XmlIn(o), (Start("entry") \o s) \o End("entry"), XmlIn(o))
  BY <1>4, <1>6, MovesConcat, Zenon DEF XmlGoes
<1>. QED  BY <1>7 DEF Entry

(* A value is an element when its items are.                               *)
LEMMA ElementGoes ==
  ASSUME NEW v \in Values,
         \A i \in DOMAIN v.items : ElementAt(XmlTokens[v.items[i].data])
  PROVE  ElementAt(XmlTokens[v])
<1>. SUFFICES ASSUME NEW o \in XmlOpen PROVE XmlGoes(XmlBefore(o), XmlTokens[v], XmlIn(o))
  BY DEF ElementAt
<1>. DEFINE n == Len(v.items)
            k == Kids(XmlTokens, v)
            p == Append(o, v.type)
            e == EntriesOf(v, k)
<1>1. n \in Nat /\ DOMAIN v.items = 1 .. n /\ v.type \in XmlNames
  BY ItemsOf DEF XmlNames
<1>2. p \in XmlOpen /\ p # <<>>
  BY <1>1, XmlOpens
<1>3. /\ XmlGoes(XmlBefore(o), Start(v.type), XmlIn(p))
      /\ XmlGoes(XmlIn(p), End(v.type), XmlIn(o))
      /\ XmlGoes(XmlBefore(o), Empty(v.type), XmlIn(o))
  BY <1>1, StartGoes, EndGoes, EmptyGoes
<1>. HIDE DEF n, p
<1>4. /\ k = [i \in 1 .. n |-> k[i]]
      /\ \A i \in 1 .. n : k[i] = XmlTokens[v.items[i].data]
  BY <1>1 DEF Kids
<1>5. \A i \in 1 .. n : ElementAt(k[i])
  BY <1>1, <1>4
<1>. HIDE DEF k
<1>6. \A i \in 1 .. n : XmlGoes(XmlIn(p), k[i], XmlIn(p))
  BY <1>2, <1>5 DEF XmlBefore, ElementAt
<1>7. /\ e = [i \in 1 .. n |-> e[i]]
      /\ \A i \in 1 .. n : XmlGoes(XmlIn(p), e[i], XmlIn(p))
  <2>1. e = [i \in 1 .. n |-> Entry(k[i])]
    BY <1>1 DEF EntriesOf
  <2>2. \A i \in 1 .. n : XmlGoes(XmlIn(p), Entry(k[i]), XmlIn(p))
    BY <1>2, <1>5, EntryGoes, Zenon
  <2>. HIDE DEF e
  <2>. QED  BY <2>1, <2>2
<1>. HIDE DEF e
<1>8. XmlGoes(XmlIn(p), Joined(k), XmlIn(p)) /\ XmlGoes(XmlIn(p), Joined(e), XmlIn(p))
  BY <1>1, <1>4, <1>6, <1>7, MovesEach, XmlReads, XmlSubsets, Zenon DEF XmlGoes
<1>. DEFINE w == IF v.type = "array" THEN k ELSE e
<1>9. XmlGoes(XmlIn(p), Joined(w), XmlIn(p))
  BY <1>8
<1>. HIDE DEF w
<1>10. XmlGoes(XmlBefore(o), Start(v.type) \o Joined(w), XmlIn(p))
  BY <1>3, <1>9, MovesConcat, Zenon DEF XmlGoes
<1>11. XmlGoes(XmlBefore(o), (Start(v.type) \o Joined(w)) \o End(v.type), XmlIn(o))
  BY <1>3, <1>10, MovesConcat, Zenon DEF XmlGoes
<1>12. XmlTokens[v] = IF ~HasContent(v) THEN Empty(v.type)
                     ELSE (Start(v.type) \o Joined(w)) \o End(v.type)
  BY XmlFact, XmlAroundIs, Zenon DEF w, k, e
<1>. QED  BY <1>3, <1>11, <1>12

(* Every value is an element: induction over values.                       *)
LEMMA ValuesAreElements == \A v \in Values : ElementAt(XmlTokens[v])
<1>. DEFINE P == {v \in Values : ElementAt(XmlTokens[v])}
<1>1. ASSUME NEW v \in Values, \A i \in DOMAIN v.items : v.items[i].data \in P PROVE v \in P
  BY <1>1, ElementGoes
<1>. HIDE DEF P
<1>2. \A v \in Values : v \in P
  BY <1>1, ValueInduction
<1>. QED  BY <1>2 DEF P

(* What is open at each place of a full dump.                              *)
InFlv == <<"flv">>
InFlvTag == <<"flv", "tag">>
InAudio == <<"flv", "tag", "audioData">>
InVideo == <<"flv", "tag", "videoData">>
XmlPlaces ==
  [start |-> {XmlNew}, tags |-> XmlIn(InFlv), tag |-> XmlIn(InFlvTag),
   audio |-> XmlIn(InAudio), video |-> XmlIn(InVideo), avc |-> XmlInTag(InVideo, "AVCData"),
   closed |-> XmlIn(<<>>), broken |-> {r \in XmlState : r.ok}]

(* What is open there.                                                     *)
LEMMA XmlInside ==
  /\ <<>> \in XmlOpen /\ InFlv \in XmlOpen /\ InFlvTag \in XmlOpen
  /\ InAudio \in XmlOpen /\ InVideo \in XmlOpen
  /\ InFlv # <<>> /\ InFlvTag # <<>> /\ InAudio # <<>> /\ InVideo # <<>>
  /\ InFlv = Append(<<>>, "flv") /\ InFlvTag = Append(InFlv, "tag")
  /\ InAudio = Append(InFlvTag, "audioData") /\ InVideo = Append(InFlvTag, "videoData")
<1>. DEFINE N == {"flv", "tag", "audioData", "videoData"}
<1>1. N \subseteq XmlNames
  BY DEF XmlNames
<1>2. <<>> \in Seq(N) /\ InFlv \in Seq(N) /\ InFlvTag \in Seq(N) /\ InAudio \in Seq(N) /\ InVideo \in Seq(N)
  BY DEF InFlv, InFlvTag, InAudio, InVideo
<1>3. Seq(N) \subseteq XmlOpen
  <2>. HIDE DEF N
  <2>. QED  BY <1>1, SeqMonotonic, Zenon DEF XmlOpen
<1>4. InFlv # <<>> /\ InFlvTag # <<>> /\ InAudio # <<>> /\ InVideo # <<>>
  BY DEF InFlv, InFlvTag, InAudio, InVideo
<1>5. /\ InFlv = Append(<<>>, "flv") /\ InFlvTag = Append(InFlv, "tag")
      /\ InAudio = Append(InFlvTag, "audioData") /\ InVideo = Append(InFlvTag, "videoData")
  BY DEF InFlv, InFlvTag, InAudio, InVideo
<1>. QED  BY <1>2, <1>3, <1>4, <1>5

(* What the callbacks print.                                               *)
XmlPart(part) == TokensOf("xml", NamedPart(part))
(* The XML of each part, one by one.                                       *)
LEMMA XmlParts ==
  /\ XmlPart("header") = Prolog \o Start("flv") /\ XmlPart("tag") = Start("tag")
  /\ XmlPart("prev") = End("tag") /\ XmlPart("end") = End("flv")
  /\ XmlPart("audio") = Empty("audioData") /\ XmlPart("audioStart") = Start("audioData")
  /\ XmlPart("audioPacket") = Empty("AACData") \o End("audioData")
  /\ XmlPart("video") = Empty("videoData") /\ XmlPart("extended") = Empty("videoData")
  /\ XmlPart("videoStart") = Start("videoData")
  /\ XmlPart("avcStart") = <<Tok("begin", "AVCData", <<>>)>> /\ XmlPart("avcTime") = <<>>
  /\ XmlPart("avcEnd") = <<Tok("finish", "AVCData", <<>>)>> \o End("videoData")
<1>1. XmlPart("header") = Prolog \o Start("flv") /\ XmlPart("tag") = Start("tag")
  BY DEF XmlPart, TokensOf, NamedPart, Parts, All, OnHeader, OnTag
<1>2. XmlPart("prev") = End("tag") /\ XmlPart("end") = End("flv")
  BY DEF XmlPart, TokensOf, NamedPart, Parts, All, OnPrevTagSize, OnStreamEnd
<1>3. XmlPart("audio") = Empty("audioData") /\ XmlPart("audioStart") = Start("audioData")
  BY DEF XmlPart, TokensOf, NamedPart, Parts, All, AudioWhole, AudioStart
<1>4. XmlPart("audioPacket") = Empty("AACData") \o End("audioData")
  BY DEF XmlPart, TokensOf, NamedPart, Parts, All, AudioPacket
<1>5. /\ XmlPart("video") = Empty("videoData") /\ XmlPart("extended") = Empty("videoData")
      /\ XmlPart("videoStart") = Start("videoData")
  BY DEF XmlPart, TokensOf, NamedPart, Parts, All, VideoWhole, VideoStart
<1>6. XmlPart("avcStart") = <<Tok("begin", "AVCData", <<>>)>> /\ XmlPart("avcTime") = <<>>
  BY DEF XmlPart, TokensOf, NamedPart, Parts, All, AvcStart, AvcTime
<1>7. XmlPart("avcEnd") = <<Tok("finish", "AVCData", <<>>)>> \o End("videoData")
  BY DEF XmlPart, TokensOf, NamedPart, Parts, All, AvcEnd
<1>. QED  BY <1>1, <1>2, <1>3, <1>4, <1>5, <1>6, <1>7

(* And of a value, within the dump or alone.                               *)
LEMMA XmlValueParts ==
  \A v : /\ TokensOf("xml", Document(v)) = Prolog \o XmlTokens[v]
         /\ TokensOf("xml", Metadata(v)) =
              Start("scriptDataObject") \o XmlTokens[v] \o End("scriptDataObject")
  BY DEF TokensOf, Document, Metadata, OnDataOnly, OnMetaData, All

(* The printers of the XML dump make a well-formed document.               *)
LEMMA XmlAccepted == Accepts(XmlStep, XmlState, XmlToken, "xml", XmlPlaces)
<1>. DEFINE P == XmlPlaces
<1>1. \A x \in Places : P[x] \subseteq P["broken"] /\ P[x] \subseteq XmlState
  <2>. DEFINE R == {r \in XmlState : r.ok}
  <2>1. /\ P["start"] = {XmlNew} /\ P["tags"] = XmlIn(InFlv) /\ P["tag"] = XmlIn(InFlvTag)
        /\ P["audio"] = XmlIn(InAudio) /\ P["video"] = XmlIn(InVideo)
        /\ P["avc"] = XmlInTag(InVideo, "AVCData") /\ P["closed"] = XmlIn(<<>>) /\ P["broken"] = R
    BY DEF XmlPlaces
  <2>2. R \subseteq XmlState /\ {XmlNew} \subseteq R
    <3>1. XmlNew.ok
      BY DEF XmlNew
    <3>. QED  BY <3>1, XmlReads
  <2>3. \A o : XmlIn(o) \subseteq R /\ XmlInTag(o, "AVCData") \subseteq R
    BY DEF XmlIn, XmlInTag
  <2>. HIDE DEF R, P
  <2>. QED  BY <2>1, <2>2, <2>3 DEF Places
<1>2. /\ P["start"] = {XmlNew} /\ P["tags"] = XmlIn(InFlv) /\ P["tag"] = XmlIn(InFlvTag)
      /\ P["audio"] = XmlIn(InAudio) /\ P["video"] = XmlIn(InVideo)
      /\ P["avc"] = XmlInTag(InVideo, "AVCData") /\ P["closed"] = XmlIn(<<>>)
  BY DEF XmlPlaces
<1>3. /\ "flv" \in XmlNames /\ "tag" \in XmlNames /\ "audioData" \in XmlNames
      /\ "videoData" \in XmlNames /\ "AACData" \in XmlNames /\ "scriptDataObject" \in XmlNames
  BY DEF XmlNames
<1>4. /\ XmlBefore(<<>>) = XmlFresh /\ XmlBefore(InFlv) = XmlIn(InFlv)
      /\ XmlBefore(InFlvTag) = XmlIn(InFlvTag) /\ XmlBefore(InAudio) = XmlIn(InAudio)
      /\ XmlBefore(InVideo) = XmlIn(InVideo)
  BY XmlInside DEF XmlBefore
<1>5. \A A, B, C, s, t : XmlGoes(A, s, B) /\ XmlGoes(B, t, C) => XmlGoes(A, s \o t, C)
  BY MovesConcat, Zenon DEF XmlGoes
<1>. HIDE DEF P
<1>10. XmlGoes(P["start"], XmlPart("header"), P["tags"])
  <2>1. XmlGoes({XmlNew}, Prolog, XmlFresh) /\ XmlGoes(XmlFresh, Start("flv"), XmlIn(InFlv))
    BY <1>3, <1>4, PrologGoes, StartGoes, XmlInside
  <2>2. XmlGoes({XmlNew}, Prolog \o Start("flv"), XmlIn(InFlv))
    BY <1>5, <2>1, Zenon
  <2>. QED  BY <1>2, <2>2, XmlParts
<1>11. XmlGoes(P["tags"], XmlPart("tag"), P["tag"])
  BY <1>2, <1>3, <1>4, StartGoes, XmlInside, XmlParts
<1>12. XmlGoes(P["tag"], XmlPart("prev"), P["tags"])
  BY <1>2, <1>3, EndGoes, XmlInside, XmlParts
<1>13. XmlGoes(P["tags"], XmlPart("end"), P["closed"])
  BY <1>2, <1>3, EndGoes, XmlInside, XmlParts
<1>14. XmlGoes(P["tag"], XmlPart("audio"), P["tag"])
  BY <1>2, <1>3, <1>4, EmptyGoes, XmlInside, XmlParts
<1>15. XmlGoes(P["tag"], XmlPart("audioStart"), P["audio"])
  BY <1>2, <1>3, <1>4, StartGoes, XmlInside, XmlParts
<1>16. XmlGoes(P["audio"], XmlPart("audioPacket"), P["tag"])
  <2>1. /\ XmlGoes(XmlIn(InAudio), Empty("AACData"), XmlIn(InAudio))
        /\ XmlGoes(XmlIn(InAudio), End("audioData"), XmlIn(InFlvTag))
    BY <1>3, <1>4, EmptyGoes, EndGoes, XmlInside
  <2>2. XmlGoes(XmlIn(InAudio), Empty("AACData") \o End("audioData"), XmlIn(InFlvTag))
    BY <1>5, <2>1, Zenon
  <2>. QED  BY <1>2, <2>2, XmlParts
<1>17. XmlGoes(P["tag"], XmlPart("video"), P["tag"]) /\ XmlGoes(P["tag"], XmlPart("extended"), P["tag"])
  BY <1>2, <1>3, <1>4, EmptyGoes, XmlInside, XmlParts
<1>18. XmlGoes(P["tag"], XmlPart("videoStart"), P["video"])
  BY <1>2, <1>3, <1>4, StartGoes, XmlInside, XmlParts
<1>19. XmlGoes(P["video"], XmlPart("avcStart"), P["avc"])
  BY <1>2, BeginGoes, XmlInside, XmlParts
<1>20. XmlGoes(P["avc"], XmlPart("avcTime"), P["avc"])
  BY <1>2, XmlReads, XmlSubsets, MovesNone, XmlParts DEF XmlGoes
<1>21. XmlGoes(P["avc"], XmlPart("avcEnd"), P["tag"])
  <2>1. /\ XmlGoes(XmlInTag(InVideo, "AVCData"), <<Tok("finish", "AVCData", <<>>)>>, XmlIn(InVideo))
        /\ XmlGoes(XmlIn(InVideo), End("videoData"), XmlIn(InFlvTag))
    BY <1>3, BeginGoes, EndGoes, XmlInside
  <2>2. XmlGoes(XmlInTag(InVideo, "AVCData"),
                <<Tok("finish", "AVCData", <<>>)>> \o End("videoData"), XmlIn(InFlvTag))
    BY <1>5, <2>1, Zenon
  <2>. QED  BY <1>2, <2>2, XmlParts
<1>22. \A way \in Paths : XmlGoes(P[way[1]], XmlPart(way[2]), P[way[3]])
  BY <1>10, <1>11, <1>12, <1>13, <1>14, <1>15, <1>16, <1>17, <1>18, <1>19, <1>20, <1>21 DEF Paths
<1>23. ASSUME NEW v \in Values
       PROVE  /\ XmlGoes(P["tag"], TokensOf("xml", Metadata(v)), P["tag"])
              /\ XmlGoes(P["start"], TokensOf("xml", Document(v)), P["closed"])
  <2>. DEFINE o == Append(InFlvTag, "scriptDataObject")
  <2>1. o \in XmlOpen /\ o # <<>>
    BY <1>3, XmlInside, XmlOpens
  <2>2. /\ XmlGoes(XmlIn(InFlvTag), Start("scriptDataObject"), XmlIn(o))
        /\ XmlGoes(XmlIn(o), End("scriptDataObject"), XmlIn(InFlvTag))
    BY <1>3, <1>4, StartGoes, EndGoes, XmlInside
  <2>. HIDE DEF o
  <2>3. XmlGoes(XmlIn(o), XmlTokens[v], XmlIn(o)) /\ XmlGoes(XmlFresh, XmlTokens[v], XmlIn(<<>>))
    <3>1. ElementAt(XmlTokens[v]) /\ XmlBefore(o) = XmlIn(o)
      BY <2>1, ValuesAreElements DEF XmlBefore
    <3>. QED  BY <1>4, <2>1, <3>1, XmlInside, Zenon DEF ElementAt
  <2>4. XmlGoes(XmlIn(InFlvTag), Start("scriptDataObject") \o XmlTokens[v], XmlIn(o))
    BY <1>5, <2>2, <2>3, Zenon
  <2>5. XmlGoes(XmlIn(InFlvTag), (Start("scriptDataObject") \o XmlTokens[v]) \o End("scriptDataObject"),
                XmlIn(InFlvTag))
    BY <1>5, <2>2, <2>4, Zenon
  <2>6. XmlGoes({XmlNew}, Prolog \o XmlTokens[v], XmlIn(<<>>))
    BY <1>5, <2>3, PrologGoes, Zenon
  <2>. QED  BY <1>2, <2>5, <2>6, XmlValueParts
<1>. QED  BY <1>1, <1>22, <1>23, XmlReads DEF Accepts, XmlGoes, XmlPart, P

(* Folding ReadXml.                                                        *)
IsXmlRead(f, s) ==
  f = [i \in 0 .. Len(s) |-> IF i = 0 THEN {XmlNew} ELSE {ReadXml(r, s[i]) : r \in f[i - 1]}]

(* XmlRead is the last state of the reader.                                *)
LEMMA XmlReadIsRun ==
  ASSUME NEW s \in Seq(XmlToken)
  PROVE  XmlRead(s) = Run(XmlStep, XmlNew, s)
<1>. DEFINE n == Len(s)
            u == RunTo(XmlStep, XmlNew, s)
            g == [i \in 0 .. n |-> {u[i]}]
            f == CHOOSE h : IsXmlRead(h, s)
<1>1. n \in Nat /\ \A i \in 1 .. n : s[i] \in XmlToken
  BY LenProperties, ElementOfSeq
<1>2. /\ u[0] = XmlNew /\ \A i \in 0 .. n : u[i] \in XmlState
      /\ \A i \in 1 .. n : u[i] = XmlStep[<<u[i - 1], s[i]>>]
  <2>1. Reader(XmlStep, XmlState, XmlToken) /\ XmlNew \in XmlState
    BY XmlReads, Zenon
  <2>2. Runs(XmlStep, XmlState, XmlNew, s)
    BY <2>1, RunFact, Zenon
  <2>. QED  BY <2>2, Zenon DEF Runs
<1>. HIDE DEF u, n
<1>3. \A i \in 1 .. n : u[i] = ReadXml(u[i - 1], s[i]) /\ i - 1 \in 0 .. n
  <2>. TAKE i \in 1 .. n
  <2>1. i - 1 \in 0 .. n
    BY <1>1
  <2>. QED  BY <1>1, <1>2, <2>1 DEF XmlStep
<1>4. \A i \in 0 .. n : g[i] = IF i = 0 THEN {XmlNew} ELSE {ReadXml(r, s[i]) : r \in g[i - 1]}
  <2>. TAKE i \in 0 .. n
  <2>1. CASE i = 0
    BY <1>1, <1>2, <2>1
  <2>2. CASE i # 0
    <3>1. i \in 1 .. n
      BY <1>1, <2>2
    <3>2. g[i] = {ReadXml(u[i - 1], s[i])} /\ g[i - 1] = {u[i - 1]}
      BY <1>3, <3>1
    <3>. QED  BY <2>2, <3>2
  <2>. QED  BY <2>1, <2>2
<1>5. g = [i \in 0 .. n |-> g[i]]
  OBVIOUS
<1>6. IsXmlRead(g, s)
  <2>. HIDE DEF g
  <2>. QED  BY <1>4, <1>5, Zenon DEF IsXmlRead, n
<1>7. IsXmlRead(f, s)
  BY <1>6
<1>. HIDE DEF f
<1>8. \A i \in 0 .. n : f[i] = IF i = 0 THEN {XmlNew} ELSE {ReadXml(r, s[i]) : r \in f[i - 1]}
  BY <1>7, Zenon DEF IsXmlRead, n
<1>. DEFINE P == {i \in 0 .. n : f[i] = g[i]}
<1>9. \A i \in 0 .. n : i \in P
  <2>. HIDE DEF g
  <2>1. 0 \in P
    <3>1. 0 \in 0 .. n
      BY <1>1
    <3>. QED  BY <1>4, <1>8, <3>1
  <2>2. \A i \in 1 .. n : i - 1 \in P => i \in P
    <3>. SUFFICES ASSUME NEW i \in 1 .. n, i - 1 \in P PROVE i \in P
      OBVIOUS
    <3>1. i \in 0 .. n /\ i # 0
      BY <1>1
    <3>2. f[i - 1] = g[i - 1]
      OBVIOUS
    <3>3. f[i] = {ReadXml(r, s[i]) : r \in f[i - 1]} /\ g[i] = {ReadXml(r, s[i]) : r \in g[i - 1]}
      BY <1>4, <1>8, <3>1, Zenon
    <3>. QED  BY <3>1, <3>2, <3>3
  <2>. HIDE DEF P
  <2>. QED  BY <1>1, <2>1, <2>2, StepInduction
<1>10. f[n] = {u[n]}
  BY <1>1, <1>9
<1>11. XmlRead(s) = CHOOSE s1 \in f[n] : TRUE
  BY Zenon DEF XmlRead, XmlNew, Fold, IsXmlRead, f, n
<1>. QED  BY <1>10, <1>11 DEF Run, u, n

(* What is printed of any file and request in XML is well formed (as far   *)
(* as it goes, and whole when the dump ends without an error).             *)
LEMMA XmlGood == ReaderInv(XmlStep, XmlNew, "xml", XmlPlaces) => XmlWellFormed
<1>. SUFFICES ASSUME ReaderInv(XmlStep, XmlNew, "xml", XmlPlaces), Format = "xml"
              PROVE  XmlWellFormed
  BY DEF XmlWellFormed
<1>. DEFINE r == XmlRead(Tokens)
<1>1. XmlNew \in XmlPlaces["start"]
  BY DEF XmlPlaces
<1>2. /\ Said("xml", given) \in Seq(XmlToken)
      /\ At(XmlStep, XmlNew, "xml", given, XmlPlaces["broken"])
      /\ Finished => At(XmlStep, XmlNew, "xml", given, XmlPlaces["closed"])
  BY <1>1, XmlAccepted, ReaderDone, Zenon
<1>3. r = Run(XmlStep, XmlNew, Said("xml", given))
  BY <1>2, SaidIsPrinted, XmlReadIsRun
<1>. HIDE DEF r
<1>4. r.ok /\ (Finished => r.root /\ r.open = <<>> /\ r.tag = "")
  BY <1>2, <1>3 DEF At, XmlPlaces, XmlIn
<1>. QED  BY <1>4 DEF XmlWellFormed, r

(* XmlWellFormed for all files and requests, and values of any depth: what *)
(* dump_xml.c prints is the start of a well-formed document at any time,   *)
(* and a whole one when the dump ends without an error.                    *)
THEOREM XmlIsWellFormed == DumpSpec => []XmlWellFormed
<1>1. XmlNew \in XmlPlaces["start"]
  BY DEF XmlPlaces
<1>. DEFINE Inv == ReaderInv(XmlStep, XmlNew, "xml", XmlPlaces)
<1>2. DumpInit => Inv
  BY <1>1, XmlAccepted, ReaderInit, Zenon
<1>3. StreamInv /\ StreamInv' /\ Inv /\ [DumpNext]_allVars => Inv'
  <2>1. StreamInv => TypeOK
    BY DEF StreamInv
  <2>2. StreamInv' => TypeOK'
    BY DEF StreamInv
  <2>. QED  BY <1>1, <2>1, <2>2, XmlAccepted, ReaderStep
<1>4. Inv => XmlWellFormed
  BY XmlGood
<1>. HIDE DEF Inv
<1>. QED  BY <1>2, <1>3, <1>4, DumpKeepsStream, PTL DEF DumpSpec

----------------------------------------------------------------------------
(* Reading JSON: the characters, the reader, and the tokens.               *)
JsonChars == {"value", ":", ",", "{", "}", "[", "]"}
JsonHeard == JsonChars \cup {"key"}
JsonOpen == Seq({"{", "["})
JsonReader == [ok : BOOLEAN, last : JsonHeard \cup {""}, open : JsonOpen, events : Seq(JsonHeard)]
JsonReads == [p \in JsonReader \X JsonChars |-> ReadJson(p[1], p[2])]
JsonUnread == [ok |-> TRUE, last |-> "", open |-> <<>>, events |-> <<>>]
Printed == Texts \cup {Word}
JsonToken ==
  [kind : {"key", "scalar", "open", "close"}, name : {"", "map", "list"}, text : Printed]

(* What is written for a token.                                            *)
LEMMA JsonTexts ==
  ASSUME NEW x \in JsonToken
  PROVE  /\ x.kind = "key" => JsonText(x) = <<"value", ":">>
         /\ x.kind # "key" => \E c \in JsonChars : JsonText(x) = <<c>>
         /\ JsonText(x) \in Seq(JsonChars)
<1>1. x.kind \in {"key", "scalar", "open", "close"}
  BY DEF JsonToken
<1>2. x.kind = "key" => JsonText(x) = <<"value", ":">>
  BY DEF JsonText
<1>3. x.kind # "key" => \E c \in JsonChars : JsonText(x) = <<c>>
  <2>1. x.kind = "scalar" => JsonText(x) = <<"value">>
    BY DEF JsonText
  <2>2. x.kind = "open" => JsonText(x) \in {<<"{">>, <<"[">>}
    BY DEF JsonText
  <2>3. x.kind = "close" => JsonText(x) \in {<<"}">>, <<"]">>}
    BY DEF JsonText
  <2>. QED  BY <1>1, <2>1, <2>2, <2>3 DEF JsonChars
<1>4. <<"value", ":">> \in Seq(JsonChars) /\ \A c \in JsonChars : <<c>> \in Seq(JsonChars)
  BY DEF JsonChars
<1>. QED  BY <1>2, <1>3, <1>4

(* Reading JSON stays among the states.                                    *)
LEMMA JsonToReader == \A r \in JsonReader, x \in JsonChars : ReadJson(r, x) \in JsonReader
<1>1. ASSUME NEW r \in JsonReader, NEW x \in JsonChars PROVE ReadJson(r, x) \in JsonReader
  <2>1. /\ r.ok \in BOOLEAN /\ r.last \in JsonHeard \cup {""}
        /\ r.open \in JsonOpen /\ r.events \in Seq(JsonHeard)
    BY DEF JsonReader
  <2>2. ReadJson(r, x).ok \in BOOLEAN
    BY DEF ReadJson
  <2>3. ReadJson(r, x).last \in JsonHeard \cup {""}
    BY DEF ReadJson, JsonHeard
  <2>4. ReadJson(r, x).open \in JsonOpen
    <3>1. x \in {"{", "["} => Append(r.open, x) \in JsonOpen
      BY <2>1, AppendProperties DEF JsonOpen
    <3>2. r.open # <<>> => SubSeq(r.open, 1, Len(r.open) - 1) \in JsonOpen
      <4>1. "{" \in {"{", "["}
        OBVIOUS
      <4>. QED  BY <2>1, <4>1, LongerShorter, Zenon DEF JsonOpen
    <3>. QED  BY <2>1, <3>1, <3>2 DEF ReadJson
  <2>5. ReadJson(r, x).events \in Seq(JsonHeard)
    <3>1. Append(r.events, x) \in Seq(JsonHeard) /\ Append(r.events, "key") \in Seq(JsonHeard)
      BY <2>1, AppendProperties DEF JsonHeard
    <3>. QED  BY <2>1, <3>1 DEF ReadJson
  <2>6. ReadJson(r, x) = [ok |-> ReadJson(r, x).ok, last |-> ReadJson(r, x).last,
                          open |-> ReadJson(r, x).open, events |-> ReadJson(r, x).events]
    BY DEF ReadJson
  <2>. HIDE DEF JsonReader
  <2>. QED  BY <2>2, <2>3, <2>4, <2>5, <2>6 DEF JsonReader
<1>. QED  BY <1>1

(* So it is carried over any text.                                         *)
LEMMA JsonReadsText == Reader(JsonReads, JsonReader, JsonChars) /\ JsonUnread \in JsonReader
<1>1. JsonUnread \in JsonReader
  <2>1. <<>> \in JsonOpen /\ <<>> \in Seq(JsonHeard)
    BY EmptySeq DEF JsonOpen
  <2>. QED  BY <2>1 DEF JsonUnread, JsonReader
<1>. QED  BY <1>1, JsonToReader DEF Reader, JsonReads

(* The emitter carried over the tokens.                                    *)
JsonWriter == [comma : BOOLEAN, text : Seq(JsonChars)]
JsonEmits == [p \in JsonWriter \X JsonToken |-> EmitJson(p[1], p[2])]
JsonPiece(comma, x) == (IF comma /\ x.kind # "close" THEN <<",">> ELSE <<>>) \o JsonText(x)

(* EmitJson puts the comma and the text behind the rest.                   *)
LEMMA JsonPieces ==
  ASSUME NEW w \in JsonWriter, NEW x \in JsonToken
  PROVE  /\ JsonPiece(w.comma, x) \in Seq(JsonChars)
         /\ EmitJson(w, x) = [comma |-> CommaAfter(x), text |-> w.text \o JsonPiece(w.comma, x)]
         /\ EmitJson(w, x) \in JsonWriter
<1>1. w.text \in Seq(JsonChars) /\ JsonText(x) \in Seq(JsonChars)
  BY JsonTexts DEF JsonWriter
<1>. DEFINE c == IF w.comma /\ x.kind # "close" THEN <<",">> ELSE <<>>
<1>2. c \in Seq(JsonChars)
  <2>1. "," \in JsonChars
    BY DEF JsonChars
  <2>2. \A e \in JsonChars : <<e>> \in Seq(JsonChars)
    OBVIOUS
  <2>3. <<",">> \in Seq(JsonChars) /\ <<>> \in Seq(JsonChars)
    BY <2>1, <2>2, EmptySeq, Zenon
  <2>. QED  BY <2>3
<1>3. EmitJson(w, x) = [comma |-> CommaAfter(x), text |-> (w.text \o c) \o JsonText(x)]
  BY DEF EmitJson
<1>4. JsonPiece(w.comma, x) = c \o JsonText(x)
  BY DEF JsonPiece
<1>. HIDE DEF c
<1>5. /\ c \o JsonText(x) \in Seq(JsonChars)
      /\ (w.text \o c) \o JsonText(x) = w.text \o (c \o JsonText(x))
  <2>. DEFINE t == JsonText(x)
  <2>1. t \in Seq(JsonChars)
    BY <1>1
  <2>. HIDE DEF t
  <2>2. c \o t \in Seq(JsonChars)
    BY <1>2, <2>1, ConcatProperties, Zenon
  <2>3. (w.text \o c) \o t = w.text \o (c \o t)
    <3>1. \A S : \A a, b, d \in Seq(S) : (a \o b) \o d = a \o (b \o d)
      BY ConcatAssociative
    <3>2. \A a, b, d \in Seq(JsonChars) : (a \o b) \o d = a \o (b \o d)
      BY <3>1
    <3>. QED  BY <1>1, <1>2, <2>1, <3>2, ZenonT(40)
  <2>. QED  BY <2>2, <2>3 DEF t
<1>6. w.text \o (c \o JsonText(x)) \in Seq(JsonChars)
  BY <1>1, <1>5, ConcatProperties
<1>. QED  BY <1>3, <1>4, <1>5, <1>6 DEF JsonWriter, CommaAfter

(* It is carried over any tokens.                                          *)
LEMMA JsonWrites == Reader(JsonEmits, JsonWriter, JsonToken) /\ NewJson \in JsonWriter
<1>1. NewJson \in JsonWriter
  BY EmptySeq DEF NewJson, JsonWriter
<1>2. \A w \in JsonWriter, x \in JsonToken : EmitJson(w, x) \in JsonWriter
  BY JsonPieces
<1>. QED  BY <1>1, <1>2 DEF Reader, JsonEmits

(* Folding ReadJson, and EmitJson.                                         *)
IsJsonRead(f, s) ==
  f = [i \in 0 .. Len(s) |-> IF i = 0 THEN {JsonUnread} ELSE {ReadJson(r, s[i]) : r \in f[i - 1]}]

(* JsonRead is the last state of the reader.                               *)
LEMMA JsonReadIsRun ==
  ASSUME NEW s \in Seq(JsonChars)
  PROVE  JsonRead(s) = Run(JsonReads, JsonUnread, s)
<1>. DEFINE n == Len(s)
            u == RunTo(JsonReads, JsonUnread, s)
            g == [i \in 0 .. n |-> {u[i]}]
            f == CHOOSE h : IsJsonRead(h, s)
<1>1. n \in Nat /\ \A i \in 1 .. n : s[i] \in JsonChars
  BY LenProperties, ElementOfSeq
<1>2. /\ u[0] = JsonUnread /\ \A i \in 0 .. n : u[i] \in JsonReader
      /\ \A i \in 1 .. n : u[i] = JsonReads[<<u[i - 1], s[i]>>]
  <2>1. Reader(JsonReads, JsonReader, JsonChars) /\ JsonUnread \in JsonReader
    BY JsonReadsText, Zenon
  <2>2. Runs(JsonReads, JsonReader, JsonUnread, s)
    BY <2>1, RunFact, Zenon
  <2>. QED  BY <2>2, Zenon DEF Runs
<1>. HIDE DEF u, n
<1>3. \A i \in 1 .. n : u[i] = ReadJson(u[i - 1], s[i]) /\ i - 1 \in 0 .. n
  <2>. TAKE i \in 1 .. n
  <2>1. i - 1 \in 0 .. n
    BY <1>1
  <2>. QED  BY <1>1, <1>2, <2>1 DEF JsonReads
<1>4. \A i \in 0 .. n : g[i] = IF i = 0 THEN {JsonUnread} ELSE {ReadJson(r, s[i]) : r \in g[i - 1]}
  <2>. TAKE i \in 0 .. n
  <2>1. CASE i = 0
    BY <1>1, <1>2, <2>1
  <2>2. CASE i # 0
    <3>1. i \in 1 .. n
      BY <1>1, <2>2
    <3>2. g[i] = {ReadJson(u[i - 1], s[i])} /\ g[i - 1] = {u[i - 1]}
      BY <1>3, <3>1
    <3>. QED  BY <2>2, <3>2
  <2>. QED  BY <2>1, <2>2
<1>5. g = [i \in 0 .. n |-> g[i]]
  OBVIOUS
<1>6. IsJsonRead(g, s)
  <2>. HIDE DEF g
  <2>. QED  BY <1>4, <1>5, Zenon DEF IsJsonRead, n
<1>7. IsJsonRead(f, s)
  BY <1>6
<1>. HIDE DEF f
<1>8. \A i \in 0 .. n : f[i] = IF i = 0 THEN {JsonUnread} ELSE {ReadJson(r, s[i]) : r \in f[i - 1]}
  BY <1>7, Zenon DEF IsJsonRead, n
<1>. DEFINE P == {i \in 0 .. n : f[i] = g[i]}
<1>9. \A i \in 0 .. n : i \in P
  <2>. HIDE DEF g
  <2>1. 0 \in P
    <3>1. 0 \in 0 .. n
      BY <1>1
    <3>. QED  BY <1>4, <1>8, <3>1
  <2>2. \A i \in 1 .. n : i - 1 \in P => i \in P
    <3>. SUFFICES ASSUME NEW i \in 1 .. n, i - 1 \in P PROVE i \in P
      OBVIOUS
    <3>1. i \in 0 .. n /\ i # 0
      BY <1>1
    <3>2. f[i - 1] = g[i - 1]
      OBVIOUS
    <3>3. f[i] = {ReadJson(r, s[i]) : r \in f[i - 1]} /\ g[i] = {ReadJson(r, s[i]) : r \in g[i - 1]}
      BY <1>4, <1>8, <3>1, Zenon
    <3>. QED  BY <3>1, <3>2, <3>3
  <2>. HIDE DEF P
  <2>. QED  BY <1>1, <2>1, <2>2, StepInduction
<1>10. f[n] = {u[n]}
  BY <1>1, <1>9
<1>11. JsonRead(s) = CHOOSE s1 \in f[n] : TRUE
  BY Zenon DEF JsonRead, JsonUnread, Fold, IsJsonRead, f, n
<1>. QED  BY <1>10, <1>11 DEF Run, u, n

IsJsonWritten(f, s) ==
  f = [i \in 0 .. Len(s) |-> IF i = 0 THEN {NewJson} ELSE {EmitJson(w, s[i]) : w \in f[i - 1]}]

(* JsonPrinted is the last state of the emitter.                           *)
LEMMA JsonWrittenIsRun ==
  ASSUME NEW s \in Seq(JsonToken)
  PROVE  Fold(EmitJson, NewJson, s) = Run(JsonEmits, NewJson, s)
<1>. DEFINE n == Len(s)
            u == RunTo(JsonEmits, NewJson, s)
            g == [i \in 0 .. n |-> {u[i]}]
            f == CHOOSE h : IsJsonWritten(h, s)
<1>1. n \in Nat /\ \A i \in 1 .. n : s[i] \in JsonToken
  BY LenProperties, ElementOfSeq
<1>2. /\ u[0] = NewJson /\ \A i \in 0 .. n : u[i] \in JsonWriter
      /\ \A i \in 1 .. n : u[i] = JsonEmits[<<u[i - 1], s[i]>>]
  <2>1. Reader(JsonEmits, JsonWriter, JsonToken) /\ NewJson \in JsonWriter
    BY JsonWrites, Zenon
  <2>2. Runs(JsonEmits, JsonWriter, NewJson, s)
    BY <2>1, RunFact, Zenon
  <2>. QED  BY <2>2, Zenon DEF Runs
<1>. HIDE DEF u, n
<1>3. \A i \in 1 .. n : u[i] = EmitJson(u[i - 1], s[i]) /\ i - 1 \in 0 .. n
  <2>. TAKE i \in 1 .. n
  <2>1. i - 1 \in 0 .. n
    BY <1>1
  <2>. QED  BY <1>1, <1>2, <2>1 DEF JsonEmits
<1>4. \A i \in 0 .. n : g[i] = IF i = 0 THEN {NewJson} ELSE {EmitJson(w, s[i]) : w \in g[i - 1]}
  <2>. TAKE i \in 0 .. n
  <2>1. CASE i = 0
    BY <1>1, <1>2, <2>1
  <2>2. CASE i # 0
    <3>1. i \in 1 .. n
      BY <1>1, <2>2
    <3>2. g[i] = {EmitJson(u[i - 1], s[i])} /\ g[i - 1] = {u[i - 1]}
      BY <1>3, <3>1
    <3>. QED  BY <2>2, <3>2
  <2>. QED  BY <2>1, <2>2
<1>5. g = [i \in 0 .. n |-> g[i]]
  OBVIOUS
<1>6. IsJsonWritten(g, s)
  <2>. HIDE DEF g
  <2>. QED  BY <1>4, <1>5, Zenon DEF IsJsonWritten, n
<1>7. IsJsonWritten(f, s)
  BY <1>6
<1>. HIDE DEF f
<1>8. \A i \in 0 .. n : f[i] = IF i = 0 THEN {NewJson} ELSE {EmitJson(w, s[i]) : w \in f[i - 1]}
  BY <1>7, Zenon DEF IsJsonWritten, n
<1>. DEFINE P == {i \in 0 .. n : f[i] = g[i]}
<1>9. \A i \in 0 .. n : i \in P
  <2>. HIDE DEF g
  <2>1. 0 \in P
    <3>1. 0 \in 0 .. n
      BY <1>1
    <3>. QED  BY <1>4, <1>8, <3>1
  <2>2. \A i \in 1 .. n : i - 1 \in P => i \in P
    <3>. SUFFICES ASSUME NEW i \in 1 .. n, i - 1 \in P PROVE i \in P
      OBVIOUS
    <3>1. i \in 0 .. n /\ i # 0
      BY <1>1
    <3>2. f[i - 1] = g[i - 1]
      OBVIOUS
    <3>3. f[i] = {EmitJson(w, s[i]) : w \in f[i - 1]} /\ g[i] = {EmitJson(w, s[i]) : w \in g[i - 1]}
      BY <1>4, <1>8, <3>1, Zenon
    <3>. QED  BY <3>1, <3>2, <3>3
  <2>. HIDE DEF P
  <2>. QED  BY <1>1, <2>1, <2>2, StepInduction
<1>10. f[n] = {u[n]}
  BY <1>1, <1>9
<1>11. Fold(EmitJson, NewJson, s) = CHOOSE s1 \in f[n] : TRUE
  BY Zenon DEF Fold, IsJsonWritten, f, n
<1>. QED  BY <1>10, <1>11 DEF Run, u, n

(* The emitter's text as a reader takes it, token by token, with what the  *)
(* tokens mean.                                                            *)
JsonMeant(x) == IF x.kind = "key" THEN "key" ELSE JsonText(x)[1]
JsonState == [comma : BOOLEAN, r : JsonReader, said : Seq(JsonHeard)]
JsonNew == [comma |-> FALSE, r |-> JsonUnread, said |-> <<>>]
JsonComma(k, x) == IF k.comma /\ x.kind # "close" THEN ReadJson(k.r, ",") ELSE k.r
JsonHeardOf(r, x) ==
  IF x.kind = "key" THEN ReadJson(ReadJson(r, "value"), ":") ELSE ReadJson(r, JsonText(x)[1])
JsonAfter(k, x) ==
  [comma |-> CommaAfter(x), r |-> JsonHeardOf(JsonComma(k, x), x),
   said |-> Append(k.said, JsonMeant(x))]
JsonStep == [p \in JsonState \X JsonToken |-> JsonAfter(p[1], p[2])]

(* All but a name is one character of JSON.                                *)
LEMMA JsonFirst ==
  ASSUME NEW x \in JsonToken
  PROVE  x.kind # "key" => JsonText(x) = <<JsonText(x)[1]>> /\ JsonText(x)[1] \in JsonChars
<1>1. \A c : <<c>>[1] = c
  OBVIOUS
<1>2. x.kind # "key" => \E c \in JsonChars : JsonText(x) = <<c>>
  BY JsonTexts
<1>. DEFINE t == JsonText(x)
<1>. HIDE DEF t
<1>3. (\E c \in JsonChars : t = <<c>>) => t = <<t[1]>> /\ t[1] \in JsonChars
  BY <1>1
<1>. QED  BY <1>2, <1>3 DEF t

(* Reading the comma, if there is one.                                     *)
LEMMA JsonCommaIn ==
  ASSUME NEW k \in JsonState, NEW x
  PROVE  JsonComma(k, x) \in JsonReader
<1>1. k.r \in JsonReader /\ "," \in JsonChars
  BY DEF JsonState, JsonChars
<1>. QED  BY <1>1, JsonToReader DEF JsonComma

(* A token leads from state to state.                                      *)
LEMMA JsonAfterIn == \A k \in JsonState, x \in JsonToken : JsonAfter(k, x) \in JsonState
<1>1. ASSUME NEW k \in JsonState, NEW x \in JsonToken PROVE JsonAfter(k, x) \in JsonState
  <2>1. k.comma \in BOOLEAN /\ k.r \in JsonReader /\ k.said \in Seq(JsonHeard)
    BY DEF JsonState
  <2>2. JsonMeant(x) \in JsonHeard
    BY JsonFirst DEF JsonMeant, JsonHeard
  <2>3. Append(k.said, JsonMeant(x)) \in Seq(JsonHeard)
    BY <2>1, <2>2, AppendProperties
  <2>4. JsonHeardOf(JsonComma(k, x), x) \in JsonReader
    <3>1. JsonComma(k, x) \in JsonReader
      BY JsonCommaIn
    <3>2. "value" \in JsonChars /\ ":" \in JsonChars
      BY DEF JsonChars
    <3>. QED  BY <3>1, <3>2, JsonFirst, JsonToReader DEF JsonHeardOf
  <2>5. CommaAfter(x) \in BOOLEAN
    BY DEF CommaAfter
  <2>. QED  BY <2>3, <2>4, <2>5 DEF JsonAfter, JsonState
<1>. QED  BY <1>1

(* So this is carried over any tokens.                                     *)
LEMMA JsonGoesOn == Reader(JsonStep, JsonState, JsonToken) /\ JsonNew \in JsonState
<1>1. JsonNew \in JsonState
  BY JsonReadsText, EmptySeq DEF JsonNew, JsonState
<1>. QED  BY <1>1, JsonAfterIn DEF Reader, JsonStep

(* What is emitted for a token, read.                                      *)
LEMMA JsonReadsPiece ==
  ASSUME NEW k \in JsonState, NEW x \in JsonToken
  PROVE  Run(JsonReads, k.r, JsonPiece(k.comma, x)) = JsonHeardOf(JsonComma(k, x), x)
<1>. DEFINE G == JsonReads
            c == IF k.comma /\ x.kind # "close" THEN <<",">> ELSE <<>>
            t == JsonText(x)
            q == JsonComma(k, x)
<1>0. Reader(G, JsonReader, JsonChars)
  BY JsonReadsText
<1>1. ASSUME NEW r \in JsonReader, NEW e \in JsonChars PROVE Run(G, r, <<e>>) = ReadJson(r, e)
  <2>1. RunsOn(G, r, <<>>, e)
    BY <1>0, EmptySeq, RunAppend, Zenon
  <2>2. Run(G, r, <<>>) = r /\ <<e>> = Append(<<>>, e)
    BY <1>0, RunNone
  <2>3. Run(G, r, <<e>>) = G[<<r, e>>]
    BY <2>1, <2>2, Zenon DEF RunsOn
  <2>. QED  BY <2>3 DEF JsonReads
<1>2. k.r \in JsonReader /\ q \in JsonReader /\ "," \in JsonChars /\ "value" \in JsonChars
      /\ ":" \in JsonChars
  BY JsonCommaIn DEF JsonState, JsonChars
<1>3. Run(G, k.r, c) = q /\ c \in Seq(JsonChars)
  <2>1. CASE k.comma /\ x.kind # "close"
    <3>1. c = <<",">> /\ q = ReadJson(k.r, ",")
      BY <2>1 DEF JsonComma
    <3>2. \A e \in JsonChars : <<e>> \in Seq(JsonChars)
      OBVIOUS
    <3>. QED  BY <1>1, <1>2, <3>1, <3>2
  <2>2. CASE ~(k.comma /\ x.kind # "close")
    <3>1. c = <<>> /\ q = k.r
      BY <2>2 DEF JsonComma
    <3>2. Run(G, k.r, <<>>) = k.r
      <4>1. \A r \in JsonReader : Run(G, r, <<>>) = r
        BY <1>0, RunNone
      <4>. QED  BY <1>2, <4>1
    <3>3. <<>> \in Seq(JsonChars)
      BY EmptySeq
    <3>. HIDE DEF c, q
    <3>. QED  BY <3>1, <3>2, <3>3
  <2>. QED  BY <2>1, <2>2
<1>. HIDE DEF c, q
<1>4. Run(G, q, t) = JsonHeardOf(q, x)
  <2>1. CASE x.kind = "key"
    <3>1. t = <<"value", ":">>
      BY <2>1, JsonTexts
    <3>2. <<"value", ":">> = Append(<<"value">>, ":") /\ \A e \in JsonChars : <<e>> \in Seq(JsonChars)
      OBVIOUS
    <3>3. RunsOn(G, q, <<"value">>, ":")
      BY <1>0, <1>2, <3>2, RunAppend, Zenon
    <3>4. Run(G, q, <<"value">>) = ReadJson(q, "value")
      BY <1>1, <1>2
    <3>5. Run(G, q, t) = G[<<ReadJson(q, "value"), ":">>]
      BY <3>1, <3>2, <3>3, <3>4, Zenon DEF RunsOn
    <3>6. ReadJson(q, "value") \in JsonReader
      BY <1>2, JsonToReader
    <3>7. G[<<ReadJson(q, "value"), ":">>] = ReadJson(ReadJson(q, "value"), ":")
      <4>. DEFINE v == ReadJson(q, "value")
      <4>. HIDE DEF v
      <4>1. G[<<v, ":">>] = ReadJson(v, ":")
        BY <1>2, <3>6 DEF JsonReads, v
      <4>. QED  BY <4>1 DEF v
    <3>. QED  BY <2>1, <3>5, <3>7 DEF JsonHeardOf
  <2>2. CASE x.kind # "key"
    <3>1. t = <<t[1]>> /\ t[1] \in JsonChars
      BY <2>2, JsonFirst
    <3>. HIDE DEF t
    <3>2. Run(G, q, <<t[1]>>) = ReadJson(q, t[1])
      BY <1>1, <1>2, <3>1, Zenon
    <3>. QED  BY <2>2, <3>1, <3>2, Zenon DEF JsonHeardOf, t
  <2>. QED  BY <2>1, <2>2
<1>5. RunsBehind(G, JsonChars, k.r, c)
  BY <1>0, <1>2, <1>3, RunConcat, Zenon
<1>6. Run(G, k.r, c \o t) = Run(G, Run(G, k.r, c), t)
  <2>1. t \in Seq(JsonChars)
    BY JsonTexts
  <2>. QED  BY <1>5, <2>1, Zenon DEF RunsBehind
<1>7. JsonPiece(k.comma, x) = c \o t
  BY DEF JsonPiece, c
<1>. QED  BY <1>3, <1>4, <1>6, <1>7 DEF q

(* So the reader of the whole text is in that state.                       *)
JsonSoFar(s) ==
  Run(JsonStep, JsonNew, s) =
    [comma |-> Run(JsonEmits, NewJson, s).comma,
     r |-> Run(JsonReads, JsonUnread, Run(JsonEmits, NewJson, s).text), said |-> JsonMeaning(s)]

(* One more token means one more thing.                                    *)
LEMMA JsonMeaningAppend ==
  ASSUME NEW s \in Seq(JsonToken), NEW x \in JsonToken, JsonMeaning(s) \in Seq(JsonHeard)
  PROVE  JsonMeaning(Append(s, x)) = Append(JsonMeaning(s), JsonMeant(x))
<1>. DEFINE m == JsonMeaning(s)
            t == Append(s, x)
            n == Len(s)
<1>1. n \in Nat /\ DOMAIN s = 1 .. n
  BY LenProperties
<1>2. t \in Seq(JsonToken) /\ Len(t) = n + 1 /\ t[n + 1] = x /\ \A i \in 1 .. n : t[i] = s[i]
  BY AppendProperties, LenProperties
<1>. HIDE DEF t, n
<1>3. DOMAIN t = 1 .. n + 1
  BY <1>2, LenProperties
<1>4. m = [i \in 1 .. n |-> JsonMeant(s[i])]
  BY <1>1 DEF JsonMeaning, JsonMeant
<1>5. JsonMeaning(t) = [i \in 1 .. n + 1 |-> JsonMeant(t[i])]
  BY <1>3 DEF JsonMeaning, JsonMeant
<1>6. JsonMeant(x) \in JsonHeard
  BY JsonFirst DEF JsonMeant, JsonHeard
<1>7. m \in Seq(JsonHeard)
  OBVIOUS
<1>. HIDE DEF m
<1>8. Len(m) = n
  BY <1>1, <1>4, <1>7, LenProperties
<1>. DEFINE a == Append(m, JsonMeant(x))
<1>9. /\ a \in Seq(JsonHeard) /\ Len(a) = n + 1
      /\ a[n + 1] = JsonMeant(x) /\ \A i \in 1 .. n : a[i] = m[i]
  BY <1>1, <1>6, <1>7, <1>8, AppendProperties
<1>. HIDE DEF a
<1>10. a = [i \in 1 .. n + 1 |-> a[i]]
  BY <1>9, LenProperties, SeqDef
<1>11. \A i \in 1 .. n + 1 : a[i] = JsonMeant(t[i])
  <2>. TAKE i \in 1 .. n + 1
  <2>1. CASE i = n + 1
    BY <1>2, <1>9, <2>1
  <2>2. CASE i # n + 1
    <3>1. i \in 1 .. n
      BY <1>1, <2>2
    <3>. QED  BY <1>2, <1>4, <1>9, <3>1
  <2>. QED  BY <2>1, <2>2
<1>. QED  BY <1>5, <1>10, <1>11 DEF a, m, t

(* Token by token, by induction.                                           *)
LEMMA JsonIsSoFar == \A s \in Seq(JsonToken) : JsonSoFar(s)
<1>. DEFINE P == {s \in Seq(JsonToken) : JsonSoFar(s)}
<1>1. <<>> \in P
  <2>1. Run(JsonStep, JsonNew, <<>>) = JsonNew
    BY JsonGoesOn, RunNone, Zenon
  <2>2. Run(JsonEmits, NewJson, <<>>) = NewJson
    BY JsonWrites, RunNone, Zenon
  <2>3. Run(JsonReads, JsonUnread, <<>>) = JsonUnread
    BY JsonReadsText, RunNone, Zenon
  <2>4. JsonMeaning(<<>>) = <<>>
    BY DEF JsonMeaning
  <2>5. NewJson.comma = FALSE /\ NewJson.text = <<>>
    BY DEF NewJson
  <2>. QED  BY <2>1, <2>2, <2>3, <2>4, <2>5, EmptySeq DEF JsonSoFar, JsonNew
<1>2. \A s \in Seq(JsonToken), x \in JsonToken : s \in P => Append(s, x) \in P
  <2>. SUFFICES ASSUME NEW s \in Seq(JsonToken), NEW x \in JsonToken, JsonSoFar(s)
                PROVE  JsonSoFar(Append(s, x))
    BY AppendProperties
  <2>. DEFINE k == Run(JsonStep, JsonNew, s)
              w == Run(JsonEmits, NewJson, s)
              p == JsonPiece(w.comma, x)
              t == Append(s, x)
  <2>1. k \in JsonState /\ w \in JsonWriter
    BY JsonGoesOn, JsonWrites, RunIn, Zenon
  <2>2. k.comma = w.comma /\ k.r = Run(JsonReads, JsonUnread, w.text) /\ k.said = JsonMeaning(s)
    BY DEF JsonSoFar
  <2>3. RunsOn(JsonStep, JsonNew, s, x) /\ RunsOn(JsonEmits, NewJson, s, x)
    BY JsonGoesOn, JsonWrites, RunAppend, Zenon
  <2>4. Run(JsonStep, JsonNew, t) = JsonStep[<<k, x>>] /\ Run(JsonEmits, NewJson, t) = JsonEmits[<<w, x>>]
    BY <2>3, Zenon DEF RunsOn
  <2>. HIDE DEF k, w, t
  <2>5. JsonStep[<<k, x>>] = JsonAfter(k, x) /\ JsonEmits[<<w, x>>] = EmitJson(w, x)
    BY <2>1 DEF JsonStep, JsonEmits
  <2>6. p \in Seq(JsonChars) /\ EmitJson(w, x) = [comma |-> CommaAfter(x), text |-> w.text \o p]
    BY <2>1, JsonPieces
  <2>7. w.text \in Seq(JsonChars) /\ k.said \in Seq(JsonHeard)
    BY <2>1 DEF JsonWriter, JsonState
  <2>8. RunsBehind(JsonReads, JsonChars, JsonUnread, w.text)
    BY <2>7, JsonReadsText, RunConcat, Zenon
  <2>9. Run(JsonReads, JsonUnread, w.text \o p) = Run(JsonReads, k.r, p)
    BY <2>2, <2>6, <2>8, Zenon DEF RunsBehind
  <2>10. Run(JsonReads, k.r, p) = JsonHeardOf(JsonComma(k, x), x)
    BY <2>1, <2>2, JsonReadsPiece
  <2>11. JsonMeaning(t) = Append(k.said, JsonMeant(x))
    BY <2>2, <2>7, JsonMeaningAppend DEF t
  <2>. DEFINE e == EmitJson(w, x)
  <2>12. e.comma = CommaAfter(x) /\ e.text = w.text \o p
    <3>1. \A y, z : [comma |-> y, text |-> z].comma = y /\ [comma |-> y, text |-> z].text = z
      OBVIOUS
    <3>. HIDE DEF p
    <3>. QED  BY <2>6, <3>1, Zenon
  <2>. HIDE DEF e, p
  <2>13. JsonAfter(k, x) =
           [comma |-> e.comma, r |-> Run(JsonReads, JsonUnread, e.text), said |-> JsonMeaning(t)]
    BY <2>9, <2>10, <2>11, <2>12 DEF JsonAfter
  <2>14. Run(JsonStep, JsonNew, t) = JsonAfter(k, x) /\ Run(JsonEmits, NewJson, t) = e
    BY <2>4, <2>5 DEF e
  <2>15. JsonSoFar(t)
    BY <2>13, <2>14, Zenon DEF JsonSoFar
  <2>. QED  BY <2>15 DEF t
<1>. HIDE DEF P
<1>3. \A s \in Seq(JsonToken) : s \in P
  BY <1>1, <1>2, AppendInduction
<1>. QED  BY <1>3 DEF P

(* In the words of the model.                                              *)
LEMMA JsonIsRead ==
  ASSUME NEW s \in Seq(JsonToken)
  PROVE  /\ JsonRead(Fold(EmitJson, NewJson, s).text) = Run(JsonStep, JsonNew, s).r
         /\ JsonMeaning(s) = Run(JsonStep, JsonNew, s).said
<1>. DEFINE w == Run(JsonEmits, NewJson, s)
<1>1. w \in JsonWriter
  BY JsonWrites, RunIn, Zenon
<1>2. Fold(EmitJson, NewJson, s) = w
  BY JsonWrittenIsRun, Zenon
<1>3. JsonSoFar(s)
  BY JsonIsSoFar
<1>. HIDE DEF w
<1>4. JsonRead(w.text) = Run(JsonReads, JsonUnread, w.text)
  BY <1>1, JsonReadIsRun DEF JsonWriter
<1>5. /\ Run(JsonStep, JsonNew, s).r = Run(JsonReads, JsonUnread, w.text)
      /\ Run(JsonStep, JsonNew, s).said = JsonMeaning(s)
  BY <1>3 DEF JsonSoFar, w
<1>. QED  BY <1>2, <1>4, <1>5

(* Where a reader of JSON is: a value may come, a member of the mapping    *)
(* may come, or a value is complete; all it heard was meant.               *)
JsonAt(o, L) ==
  {k \in JsonState : /\ k.r.ok /\ k.r.open = o /\ k.r.events = k.said
                     /\ k.r.last \in L /\ (k.comma <=> Complete(k.r.last))}
JsonPast(o) == JsonAt(o, {"value", "}", "]"})
JsonMembers(o) == JsonAt(Append(o, "{"), {"{", "value", "}", "]"})
JsonTop(o) == IF o = <<>> THEN "" ELSE o[Len(o)]
JsonExpects(o) ==
  JsonAt(o, CASE JsonTop(o) = "{" -> {":"}
              [] JsonTop(o) = "[" -> {"[", "value", "}", "]"}
              [] OTHER -> {""})
JsonGoes(A, s, B) == Moves(JsonStep, JsonState, JsonToken, A, s, B)

(* The collection that was opened last.                                    *)
LEMMA JsonTops ==
  ASSUME NEW o \in JsonOpen
  PROVE  /\ JsonTop(o) \in {"", "{", "["} /\ (JsonTop(o) = "" <=> o = <<>>)
         /\ \A b \in {"{", "["} : /\ Append(o, b) \in JsonOpen /\ JsonTop(Append(o, b)) = b
                                  /\ Append(o, b) # <<>>
                                  /\ SubSeq(Append(o, b), 1, Len(Append(o, b)) - 1) = o
<1>. DEFINE B == {"{", "["}
<1>0. o \in Seq(B) /\ JsonOpen = Seq(B)
  BY DEF JsonOpen
<1>. HIDE DEF B
<1>1. o # <<>> => o[Len(o)] \in B
  <2>1. o # <<>> => Len(o) \in 1 .. Len(o)
    BY <1>0, EmptySeq, LenProperties
  <2>. QED  BY <1>0, <2>1, ElementOfSeq
<1>2. \A b \in B : /\ Append(o, b) \in JsonOpen /\ Append(o, b) # <<>>
                  /\ Append(o, b)[Len(Append(o, b))] = b
                  /\ SubSeq(Append(o, b), 1, Len(Append(o, b)) - 1) = o
  BY <1>0
<1>. QED  BY <1>1, <1>2 DEF JsonTop, B

(* These are states.                                                       *)
LEMMA JsonSets ==
  /\ \A o, L : JsonAt(o, L) \subseteq JsonState
  /\ \A o : /\ JsonPast(o) \subseteq JsonState /\ JsonMembers(o) \subseteq JsonState
            /\ JsonExpects(o) \subseteq JsonState
  BY DEF JsonAt, JsonPast, JsonMembers, JsonExpects

(* What was read before a value, by what is open.                          *)
LEMMA JsonExpectsIs ==
  ASSUME NEW o
  PROVE  /\ JsonTop(o) = "{" => JsonExpects(o) = JsonAt(o, {":"})
         /\ JsonTop(o) = "[" => JsonExpects(o) = JsonAt(o, {"[", "value", "}", "]"})
         /\ JsonTop(o) = "" => JsonExpects(o) = JsonAt(o, {""})
  BY DEF JsonExpects

(* What is complete in a collection may be followed by more of it.         *)
LEMMA JsonMore ==
  ASSUME NEW o \in JsonOpen
  PROVE  /\ JsonPast(Append(o, "{")) \subseteq JsonMembers(o)
         /\ JsonPast(Append(o, "[")) \subseteq JsonExpects(Append(o, "["))
<1>1. JsonPast(Append(o, "{")) \subseteq JsonMembers(o)
  BY DEF JsonPast, JsonMembers, JsonAt
<1>2. JsonExpects(Append(o, "[")) = JsonAt(Append(o, "["), {"[", "value", "}", "]"})
  BY JsonTops, JsonExpectsIs
<1>3. JsonPast(Append(o, "[")) \subseteq JsonAt(Append(o, "["), {"[", "value", "}", "]"})
  BY DEF JsonPast, JsonAt
<1>. QED  BY <1>1, <1>2, <1>3

(* The reader before a value or a name, the comma behind it.               *)
JsonReady(o, heard, L) ==
  {r \in JsonReader : r.ok /\ r.open = o /\ r.events = heard /\ r.last \in L}
JsonBefore(o) ==
  CASE JsonTop(o) = "{" -> {":"} [] JsonTop(o) = "[" -> {"[", ","} [] OTHER -> {""}

(* A comma is read behind a value inside a collection.                     *)
LEMMA JsonCommas ==
  ASSUME NEW o \in JsonOpen, o # <<>>, NEW r \in JsonReader, r.ok, r.open = o, Complete(r.last)
  PROVE  ReadJson(r, ",") \in JsonReady(o, r.events, {","})
<1>1. ReadJson(r, ",") \in JsonReader
  BY JsonToReader DEF JsonChars
<1>. QED  BY <1>1 DEF JsonReady, ReadJson

(* The emitter writes a comma before a value just where the reader needs   *)
(* one.                                                                    *)
LEMMA JsonBeforeValue ==
  ASSUME NEW o \in JsonOpen, NEW k \in JsonExpects(o), NEW x, x.kind # "close"
  PROVE  JsonComma(k, x) \in JsonReady(o, k.said, JsonBefore(o))
<1>1. k \in JsonState /\ k.r.ok /\ k.r.open = o /\ k.r.events = k.said
      /\ (k.comma <=> Complete(k.r.last))
  BY DEF JsonExpects, JsonAt
<1>2. k.r \in JsonReader
  BY <1>1 DEF JsonState
<1>3. CASE JsonTop(o) = "["
  <2>1. k.r.last \in {"[", "value", "}", "]"} /\ o # <<>> /\ JsonBefore(o) = {"[", ","}
    BY <1>3, JsonExpectsIs DEF JsonAt, JsonTop, JsonBefore
  <2>2. CASE k.comma
    <3>1. ReadJson(k.r, ",") \in JsonReady(o, k.said, {","})
      BY <1>1, <1>2, <2>1, <2>2, JsonCommas
    <3>. QED  BY <2>1, <2>2, <3>1 DEF JsonComma, JsonReady
  <2>3. CASE ~k.comma
    BY <1>1, <1>2, <2>1, <2>3 DEF JsonComma, JsonReady, Complete
  <2>. QED  BY <2>2, <2>3
<1>4. CASE JsonTop(o) = "{"
  <2>1. k.r.last = ":" /\ JsonBefore(o) = {":"}
    BY <1>4, JsonExpectsIs DEF JsonAt, JsonBefore
  <2>. QED  BY <1>1, <1>2, <2>1 DEF JsonComma, JsonReady, Complete
<1>5. CASE JsonTop(o) = ""
  <2>1. k.r.last = "" /\ JsonBefore(o) = {""}
    BY <1>5, JsonExpectsIs DEF JsonAt, JsonBefore
  <2>. QED  BY <1>1, <1>2, <2>1 DEF JsonComma, JsonReady, Complete
<1>. QED  BY <1>3, <1>4, <1>5, JsonTops

(* And before a name.                                                      *)
LEMMA JsonBeforeName ==
  ASSUME NEW o \in JsonOpen, NEW k \in JsonMembers(o), NEW x, x.kind # "close"
  PROVE  JsonComma(k, x) \in JsonReady(Append(o, "{"), k.said, {"{", ","})
<1>. DEFINE p == Append(o, "{")
<1>0. p \in JsonOpen /\ p # <<>>
  BY JsonTops
<1>1. k \in JsonState /\ k.r.ok /\ k.r.open = p /\ k.r.events = k.said
      /\ (k.comma <=> Complete(k.r.last)) /\ k.r.last \in {"{", "value", "}", "]"}
  BY DEF JsonMembers, JsonAt
<1>. HIDE DEF p
<1>2. k.r \in JsonReader
  BY <1>1 DEF JsonState
<1>3. CASE k.comma
  <2>1. ReadJson(k.r, ",") \in JsonReady(p, k.said, {","})
    BY <1>0, <1>1, <1>2, <1>3, JsonCommas
  <2>. QED  BY <1>3, <2>1 DEF JsonComma, JsonReady, p
<1>4. CASE ~k.comma
  BY <1>1, <1>2, <1>4 DEF JsonComma, JsonReady, Complete, p
<1>. QED  BY <1>3, <1>4

JsonHas(q, last, heard, open) ==
  q \in JsonReader /\ q.ok /\ q.last = last /\ q.events = heard /\ q.open = open

(* What the reader makes of a value, a collection, a name and an end.      *)
LEMMA JsonValueRead ==
  ASSUME NEW o \in JsonOpen, NEW heard, NEW r \in JsonReady(o, heard, JsonBefore(o)),
         NEW c \in {"value", "{", "["}
  PROVE  JsonHas(ReadJson(r, c), c, Append(heard, c), IF c = "value" THEN o ELSE Append(o, c))
<1>. DEFINE q == ReadJson(r, c)
<1>1. r \in JsonReader /\ r.ok /\ r.open = o /\ r.events = heard /\ r.last \in JsonBefore(o)
  BY DEF JsonReady
<1>2. q \in JsonReader
  BY <1>1, JsonToReader DEF JsonChars
<1>3. Inside(r) = JsonTop(o)
  BY <1>1 DEF Inside, JsonTop
<1>4. /\ JsonTop(o) \in {"", "{", "["} /\ (JsonTop(o) = "" <=> o = <<>>)
      /\ JsonTop(o) = "" => r.last = ""
      /\ JsonTop(o) = "{" => r.last = ":"
      /\ JsonTop(o) = "[" => r.last \in {"[", ","}
  BY <1>1, JsonTops DEF JsonBefore
<1>5. q.ok /\ q.last = c /\ q.events = Append(heard, c)
      /\ q.open = IF c = "value" THEN o ELSE Append(o, c)
  <2>1. q.ok
    BY <1>1, <1>3, <1>4 DEF ReadJson
  <2>2. q.last = c /\ q.events = Append(heard, c)
    BY <1>1, <1>3, <1>4 DEF ReadJson
  <2>3. q.open = IF c = "value" THEN o ELSE Append(o, c)
    BY <1>1 DEF ReadJson
  <2>. QED  BY <2>1, <2>2, <2>3
<1>. HIDE DEF q
<1>. QED  BY <1>2, <1>5 DEF JsonHas, q

(* A name and its colon.                                                   *)
LEMMA JsonNameRead ==
  ASSUME NEW o \in JsonOpen, NEW heard, NEW r \in JsonReady(Append(o, "{"), heard, {"{", ","})
  PROVE  JsonHas(ReadJson(ReadJson(r, "value"), ":"), ":", Append(heard, "key"), Append(o, "{"))
<1>. DEFINE p == Append(o, "{")
            v == ReadJson(r, "value")
            q == ReadJson(v, ":")
<1>1. r \in JsonReader /\ r.ok /\ r.open = p /\ r.events = heard /\ r.last \in {"{", ","}
  BY DEF JsonReady
<1>2. p # <<>> /\ JsonTop(p) = "{"
  BY JsonTops
<1>. HIDE DEF p
<1>3. Inside(r) = "{"
  BY <1>1, <1>2 DEF Inside, JsonTop
<1>4. v \in JsonReader
  BY <1>1, JsonToReader DEF JsonChars
<1>5. v.ok /\ v.last = "key" /\ v.open = p /\ v.events = Append(heard, "key")
  BY <1>1, <1>3 DEF ReadJson
<1>. HIDE DEF v
<1>6. q \in JsonReader
  BY <1>4, JsonToReader DEF JsonChars
<1>7. q.ok /\ q.last = ":" /\ q.open = p /\ q.events = Append(heard, "key")
  BY <1>5 DEF ReadJson
<1>. HIDE DEF q
<1>. QED  BY <1>6, <1>7 DEF JsonHas, q, v, p

(* An end of the collection that was opened last.                          *)
LEMMA JsonEndRead ==
  ASSUME NEW o \in JsonOpen, NEW b \in {"{", "["}, NEW r \in JsonReader, r.ok,
         r.open = Append(o, b), r.last = b \/ Complete(r.last)
  PROVE  LET c == IF b = "{" THEN "}" ELSE "]"
         IN  JsonHas(ReadJson(r, c), c, Append(r.events, c), o)
<1>. DEFINE c == IF b = "{" THEN "}" ELSE "]"
            q == ReadJson(r, c)
            p == Append(o, b)
<1>1. c \in {"}", "]"} /\ c \in JsonChars /\ (c = "}" <=> b = "{")
  BY DEF JsonChars
<1>. HIDE DEF c
<1>2. p # <<>> /\ JsonTop(p) = b /\ SubSeq(p, 1, Len(p) - 1) = o
  <2>1. CASE b = "{"
    BY <2>1, JsonTops
  <2>2. CASE b = "["
    BY <2>2, JsonTops
  <2>. QED  BY <2>1, <2>2
<1>. HIDE DEF p
<1>3. Inside(r) = b /\ r.open = p
  BY <1>2 DEF Inside, JsonTop, p
<1>4. q \in JsonReader
  BY <1>1, JsonToReader
<1>5. q.ok
  BY <1>1, <1>3 DEF ReadJson
<1>6. q.last = c /\ q.events = Append(r.events, c)
  BY <1>1 DEF ReadJson
<1>7. q.open = o
  BY <1>1, <1>2, <1>3 DEF ReadJson
<1>. HIDE DEF q
<1>8. JsonHas(q, c, Append(r.events, c), o)
  BY <1>4, <1>5, <1>6, <1>7 DEF JsonHas
<1>. QED  BY <1>8 DEF q, c

(* One token is one step of JsonAfter.                                     *)
LEMMA JsonOne ==
  ASSUME NEW A, NEW B, A \subseteq JsonState, B \subseteq JsonState, NEW x \in JsonToken,
         \A k \in A : JsonAfter(k, x) \in B
  PROVE  JsonGoes(A, <<x>>, B)
<1>1. \A k \in A : JsonStep[<<k, x>>] \in B
  BY DEF JsonStep
<1>. QED  BY <1>1, JsonGoesOn, MovesOne, Zenon DEF JsonGoes

(* One token: what the reader makes of it decides where it is.             *)
LEMMA JsonLands ==
  ASSUME NEW k \in JsonState, NEW x \in JsonToken, NEW o, NEW L,
         LET q == JsonHeardOf(JsonComma(k, x), x) IN
         /\ q.ok /\ q.open = o /\ q.events = Append(k.said, JsonMeant(x)) /\ q.last \in L
         /\ (CommaAfter(x) <=> Complete(q.last))
  PROVE  JsonAfter(k, x) \in JsonAt(o, L)
<1>. DEFINE q == JsonHeardOf(JsonComma(k, x), x)
            j == JsonAfter(k, x)
<1>1. j \in JsonState
  BY JsonAfterIn
<1>2. j.r = q /\ j.said = Append(k.said, JsonMeant(x)) /\ (j.comma <=> CommaAfter(x))
  BY DEF JsonAfter
<1>. HIDE DEF j, q
<1>3. q.ok /\ q.open = o /\ q.events = Append(k.said, JsonMeant(x)) /\ q.last \in L
      /\ (CommaAfter(x) <=> Complete(q.last))
  BY DEF q
<1>. QED  BY <1>1, <1>2, <1>3 DEF JsonAt, j

(* The tokens.                                                             *)
LEMMA JsonTokens ==
  /\ \A t \in Printed : Tok("key", "", t) \in JsonToken /\ Tok("scalar", "", t) \in JsonToken
  /\ \A n \in {"map", "list"} : Tok("open", n, <<>>) \in JsonToken /\ Tok("close", n, <<>>) \in JsonToken
  /\ \A t : JsonText(Tok("scalar", "", t)) = <<"value">>
  /\ JsonText(Tok("open", "map", <<>>)) = <<"{">> /\ JsonText(Tok("open", "list", <<>>)) = <<"[">>
  /\ JsonText(Tok("close", "map", <<>>)) = <<"}">> /\ JsonText(Tok("close", "list", <<>>)) = <<"]">>
<1>1. <<>> \in Printed
  BY EmptySeq DEF Texts, Printed
<1>2. \A t \in Printed : Tok("key", "", t) \in JsonToken /\ Tok("scalar", "", t) \in JsonToken
  BY DEF Tok, JsonToken
<1>3. \A n \in {"map", "list"} : Tok("open", n, <<>>) \in JsonToken /\ Tok("close", n, <<>>) \in JsonToken
  BY <1>1 DEF Tok, JsonToken
<1>4. \A t : JsonText(Tok("scalar", "", t)) = <<"value">>
  BY DEF Tok, JsonText
<1>5. JsonText(Tok("open", "map", <<>>)) = <<"{">> /\ JsonText(Tok("open", "list", <<>>)) = <<"[">>
  BY DEF Tok, JsonText
<1>6. JsonText(Tok("close", "map", <<>>)) = <<"}">> /\ JsonText(Tok("close", "list", <<>>)) = <<"]">>
  BY DEF Tok, JsonText
<1>. QED  BY <1>2, <1>3, <1>4, <1>5, <1>6

(* A name is read where a member may be, and expects a value.              *)
LEMMA KeyGoes ==
  ASSUME NEW o \in JsonOpen, NEW t \in Printed
  PROVE  JsonGoes(JsonMembers(o), Key(t), JsonExpects(Append(o, "{")))
<1>. DEFINE x == Tok("key", "", t)
            p == Append(o, "{")
<1>1. x \in JsonToken /\ x.kind = "key" /\ JsonExpects(p) = JsonAt(p, {":"})
  BY JsonTokens, JsonTops, JsonExpectsIs DEF Tok
<1>. HIDE DEF x
<1>2. ASSUME NEW k \in JsonMembers(o) PROVE JsonAfter(k, x) \in JsonAt(p, {":"})
  <2>. DEFINE r == JsonComma(k, x)
              q == JsonHeardOf(r, x)
  <2>1. k \in JsonState
    BY DEF JsonMembers, JsonAt
  <2>2. r \in JsonReady(p, k.said, {"{", ","})
    BY <1>1, JsonBeforeName
  <2>3. q = ReadJson(ReadJson(r, "value"), ":") /\ JsonMeant(x) = "key" /\ ~CommaAfter(x)
    BY <1>1 DEF JsonHeardOf, JsonMeant, CommaAfter
  <2>. HIDE DEF r
  <2>31. JsonHas(ReadJson(ReadJson(r, "value"), ":"), ":", Append(k.said, "key"), p)
    BY <2>2, JsonNameRead, Zenon
  <2>. HIDE DEF q, p
  <2>4. q.ok /\ q.last = ":" /\ q.events = Append(k.said, "key") /\ q.open = p
    BY <2>3, <2>31 DEF JsonHas
  <2>5. q.ok /\ q.open = p /\ q.events = Append(k.said, JsonMeant(x)) /\ q.last \in {":"}
        /\ (CommaAfter(x) <=> Complete(q.last))
    BY <2>3, <2>4 DEF Complete
  <2>. QED  BY <1>1, <2>1, <2>5, JsonLands DEF q, r
<1>3. JsonGoes(JsonMembers(o), <<x>>, JsonExpects(p))
  <2>. HIDE DEF p
  <2>. QED  BY <1>1, <1>2, JsonSets, JsonOne, Zenon
<1>. QED  BY <1>3 DEF Key, x

(* A token that is, or begins, a value.                                    *)
LEMMA JsonValueLands ==
  ASSUME NEW o \in JsonOpen, NEW x \in JsonToken, x.kind \in {"scalar", "open"},
         NEW c \in {"value", "{", "["}, JsonText(x) = <<c>>, CommaAfter(x) <=> c = "value",
         NEW k \in JsonExpects(o)
  PROVE  JsonAfter(k, x) \in JsonAt(IF c = "value" THEN o ELSE Append(o, c), {c})
<1>. DEFINE r == JsonComma(k, x)
            q == JsonHeardOf(r, x)
            p == IF c = "value" THEN o ELSE Append(o, c)
<1>1. k \in JsonState
  BY JsonSets
<1>2. r \in JsonReady(o, k.said, JsonBefore(o))
  BY JsonBeforeValue
<1>3. q = ReadJson(r, c) /\ JsonMeant(x) = c
  <2>1. <<c>>[1] = c
    OBVIOUS
  <2>2. JsonText(x)[1] = c
    BY <2>1
  <2>. QED  BY <2>2 DEF JsonHeardOf, JsonMeant
<1>. HIDE DEF r
<1>31. JsonHas(ReadJson(r, c), c, Append(k.said, c), p)
  BY <1>2, JsonValueRead, Zenon
<1>5. c = "value" <=> Complete(c)
  BY DEF Complete
<1>. HIDE DEF q, p
<1>4. q.ok /\ q.last = c /\ q.events = Append(k.said, c) /\ q.open = p
  BY <1>3, <1>31 DEF JsonHas
<1>6. q.ok /\ q.open = p /\ q.events = Append(k.said, JsonMeant(x)) /\ q.last \in {c}
      /\ (CommaAfter(x) <=> Complete(q.last))
  BY <1>3, <1>4, <1>5
<1>. QED  BY <1>1, <1>6, JsonLands DEF q, r, p

(* A scalar is read where a value is expected.                             *)
LEMMA ScalarGoes ==
  ASSUME NEW o \in JsonOpen, NEW t \in Printed
  PROVE  JsonGoes(JsonExpects(o), Scalar(t), JsonPast(o))
<1>. DEFINE x == Tok("scalar", "", t)
<1>1. x \in JsonToken /\ x.kind = "scalar" /\ JsonText(x) = <<"value">>
  BY JsonTokens DEF Tok
<1>. HIDE DEF x
<1>2. CommaAfter(x)
  BY <1>1 DEF CommaAfter
<1>3. \A k \in JsonExpects(o) : JsonAfter(k, x) \in JsonAt(o, {"value"})
  BY <1>1, <1>2, JsonValueLands
<1>4. JsonAt(o, {"value"}) \subseteq JsonPast(o)
  BY DEF JsonAt, JsonPast
<1>5. JsonGoes(JsonExpects(o), <<x>>, JsonPast(o))
  BY <1>1, <1>3, <1>4, JsonSets, JsonOne
<1>. QED  BY <1>5 DEF Scalar, x

(* A mapping is opened there.                                              *)
LEMMA MapStartGoes ==
  ASSUME NEW o \in JsonOpen
  PROVE  JsonGoes(JsonExpects(o), MapStart, JsonMembers(o))
<1>. DEFINE x == Tok("open", "map", <<>>)
<1>1. x \in JsonToken /\ x.kind = "open" /\ JsonText(x) = <<"{">>
  BY JsonTokens DEF Tok
<1>. HIDE DEF x
<1>2. ~CommaAfter(x)
  BY <1>1 DEF CommaAfter
<1>3. \A k \in JsonExpects(o) : JsonAfter(k, x) \in JsonAt(Append(o, "{"), {"{"})
  BY <1>1, <1>2, JsonValueLands
<1>4. JsonAt(Append(o, "{"), {"{"}) \subseteq JsonMembers(o)
  BY DEF JsonAt, JsonMembers
<1>5. JsonGoes(JsonExpects(o), <<x>>, JsonMembers(o))
  BY <1>1, <1>3, <1>4, JsonSets, JsonOne
<1>. QED  BY <1>5 DEF MapStart, x

(* So is a sequence.                                                       *)
LEMMA ListStartGoes ==
  ASSUME NEW o \in JsonOpen
  PROVE  JsonGoes(JsonExpects(o), ListStart, JsonExpects(Append(o, "[")))
<1>. DEFINE x == Tok("open", "list", <<>>)
<1>1. x \in JsonToken /\ x.kind = "open" /\ JsonText(x) = <<"[">>
  BY JsonTokens DEF Tok
<1>. HIDE DEF x
<1>2. ~CommaAfter(x)
  BY <1>1 DEF CommaAfter
<1>3. \A k \in JsonExpects(o) : JsonAfter(k, x) \in JsonAt(Append(o, "["), {"["})
  BY <1>1, <1>2, JsonValueLands
<1>4. JsonAt(Append(o, "["), {"["}) \subseteq JsonExpects(Append(o, "["))
  <2>1. JsonExpects(Append(o, "[")) = JsonAt(Append(o, "["), {"[", "value", "}", "]"})
    BY JsonTops, JsonExpectsIs
  <2>. QED  BY <2>1 DEF JsonAt
<1>5. JsonGoes(JsonExpects(o), <<x>>, JsonExpects(Append(o, "[")))
  BY <1>1, <1>3, <1>4, JsonSets, JsonOne
<1>. QED  BY <1>5 DEF ListStart, x

(* The end of a collection.                                                *)
LEMMA JsonEndLands ==
  ASSUME NEW o \in JsonOpen, NEW x \in JsonToken, x.kind = "close", NEW b \in {"{", "["},
         JsonText(x) = <<IF b = "{" THEN "}" ELSE "]">>,
         NEW k \in JsonAt(Append(o, b), {b, "value", "}", "]"})
  PROVE  JsonAfter(k, x) \in JsonPast(o)
<1>. DEFINE c == IF b = "{" THEN "}" ELSE "]"
            q == ReadJson(k.r, c)
<1>1. /\ k \in JsonState /\ k.r.ok /\ k.r.open = Append(o, b) /\ k.r.events = k.said
      /\ k.r.last = b \/ Complete(k.r.last)
  BY DEF JsonAt, Complete
<1>2. k.r \in JsonReader
  BY <1>1 DEF JsonState
<1>31. JsonHas(q, c, Append(k.r.events, c), o)
  BY <1>1, <1>2, JsonEndRead, Zenon
<1>3. q.ok /\ q.last = c /\ q.events = Append(k.said, c) /\ q.open = o
  <2>. HIDE DEF q, c
  <2>. QED  BY <1>1, <1>31 DEF JsonHas
<1>4. c \in {"}", "]"} /\ JsonText(x) = <<c>> /\ <<c>>[1] = c
  OBVIOUS
<1>. HIDE DEF c
<1>5. JsonComma(k, x) = k.r /\ JsonMeant(x) = c /\ JsonHeardOf(k.r, x) = q
  BY <1>4 DEF JsonComma, JsonMeant, JsonHeardOf
<1>6. CommaAfter(x) /\ Complete(c)
  BY <1>4 DEF CommaAfter, Complete
<1>. HIDE DEF q
<1>7. q.ok /\ q.open = o /\ q.events = Append(k.said, JsonMeant(x)) /\ q.last \in {"value", "}", "]"}
      /\ (CommaAfter(x) <=> Complete(q.last))
  BY <1>3, <1>4, <1>5, <1>6
<1>. QED  BY <1>1, <1>5, <1>7, JsonLands DEF JsonPast

(* A mapping is closed after its members.                                  *)
LEMMA MapEndGoes ==
  ASSUME NEW o \in JsonOpen
  PROVE  JsonGoes(JsonMembers(o), MapEnd, JsonPast(o))
<1>. DEFINE x == Tok("close", "map", <<>>)
<1>1. x \in JsonToken /\ x.kind = "close" /\ JsonText(x) = <<"}">>
  BY JsonTokens DEF Tok
<1>. HIDE DEF x
<1>3. \A k \in JsonMembers(o) : JsonAfter(k, x) \in JsonPast(o)
  BY <1>1, JsonEndLands DEF JsonMembers
<1>5. JsonGoes(JsonMembers(o), <<x>>, JsonPast(o))
  BY <1>1, <1>3, JsonSets, JsonOne
<1>. QED  BY <1>5 DEF MapEnd, x

(* A sequence is closed after its elements.                                *)
LEMMA ListEndGoes ==
  ASSUME NEW o \in JsonOpen
  PROVE  JsonGoes(JsonExpects(Append(o, "[")), ListEnd, JsonPast(o))
<1>. DEFINE x == Tok("close", "list", <<>>)
            p == Append(o, "[")
<1>1. x \in JsonToken /\ x.kind = "close" /\ JsonText(x) = <<"]">>
  BY JsonTokens DEF Tok
<1>2. JsonExpects(p) = JsonAt(p, {"[", "value", "}", "]"})
  BY JsonTops, JsonExpectsIs
<1>. HIDE DEF x
<1>3. \A k \in JsonExpects(p) : JsonAfter(k, x) \in JsonPast(o)
  BY <1>1, <1>2, JsonEndLands
<1>5. JsonGoes(JsonExpects(p), <<x>>, JsonPast(o))
  <2>. HIDE DEF p
  <2>. QED  BY <1>1, <1>3, JsonSets, JsonOne, Zenon
<1>. QED  BY <1>5 DEF ListEnd, x

(* One move behind the other.                                              *)
LEMMA JsonChain ==
  \A A, B, C, s, t : JsonGoes(A, s, B) /\ JsonGoes(B, t, C) => JsonGoes(A, s \o t, C)
  BY MovesConcat, Zenon DEF JsonGoes

(* The state after it is among others.                                     *)
LEMMA JsonWithin ==
  ASSUME NEW A, NEW B, NEW C, NEW s, JsonGoes(A, s, B), B \subseteq C, C \subseteq JsonState
  PROVE  JsonGoes(A, s, C)
<1>1. A \subseteq A
  OBVIOUS
<1>. QED  BY <1>1, MovesWithin, Zenon DEF JsonGoes

(* The texts of names and strings are those of tokens.                     *)
LEMMA TextsArePrinted == Word \in Printed /\ Texts \subseteq Printed
  BY DEF Printed

(* Names with values, and a name with a mapping that is opened.            *)
LEMMA MemberGoes ==
  ASSUME NEW o \in JsonOpen, NEW t \in Printed, NEW s,
         JsonGoes(JsonExpects(Append(o, "{")), s, JsonPast(Append(o, "{")))
  PROVE  JsonGoes(JsonMembers(o), Key(t) \o s, JsonMembers(o))
<1>1. JsonGoes(JsonExpects(Append(o, "{")), s, JsonMembers(o))
  BY JsonMore, JsonSets, JsonWithin, Zenon
<1>2. JsonGoes(JsonMembers(o), Key(t), JsonExpects(Append(o, "{")))
  BY KeyGoes
<1>. QED  BY <1>1, <1>2, JsonChain, Zenon

(* Any number of members.                                                  *)
LEMMA PairsGoes ==
  ASSUME NEW o \in JsonOpen, NEW n \in Nat
  PROVE  JsonGoes(JsonMembers(o), Pairs(n), JsonMembers(o))
<1>. DEFINE s == Key(Word) \o Scalar(Word)
            w == [i \in 1 .. n |-> s]
            A == JsonMembers(o)
<1>1. Append(o, "{") \in JsonOpen
  BY JsonTops
<1>2. JsonGoes(A, s, A)
  BY <1>1, TextsArePrinted, ScalarGoes, MemberGoes
<1>3. Pairs(n) = Joined(w)
  BY DEF Pairs
<1>. HIDE DEF s
<1>4. w = [i \in 1 .. n |-> w[i]] /\ \A i \in 1 .. n : JsonGoes(A, w[i], A)
  BY <1>2
<1>5. A \subseteq JsonState /\ Reader(JsonStep, JsonState, JsonToken)
  BY JsonSets, JsonGoesOn
<1>. HIDE DEF w, A
<1>6. JsonGoes(A, Joined(w), A)
  BY <1>4, <1>5, MovesEach, Zenon DEF JsonGoes
<1>. QED  BY <1>3, <1>6 DEF A

(* A member that is a mapping.                                             *)
LEMMA KeyedMapGoes ==
  ASSUME NEW o \in JsonOpen
  PROVE  JsonGoes(JsonMembers(o), KeyedMap, JsonMembers(Append(o, "{")))
<1>1. Append(o, "{") \in JsonOpen
  BY JsonTops
<1>2. /\ JsonGoes(JsonMembers(o), Key(Word), JsonExpects(Append(o, "{")))
      /\ JsonGoes(JsonExpects(Append(o, "{")), MapStart, JsonMembers(Append(o, "{")))
  BY <1>1, TextsArePrinted, KeyGoes, MapStartGoes
<1>. QED  BY <1>2, JsonChain, Zenon DEF KeyedMap

(* The end of a mapping in a mapping, and in a sequence.                   *)
LEMMA InnerEndGoes ==
  ASSUME NEW o \in JsonOpen
  PROVE  /\ JsonGoes(JsonMembers(Append(o, "{")), MapEnd, JsonMembers(o))
         /\ JsonGoes(JsonMembers(Append(o, "[")), MapEnd, JsonExpects(Append(o, "[")))
         /\ JsonGoes(JsonExpects(Append(Append(o, "{"), "[")), ListEnd, JsonMembers(o))
<1>1. Append(o, "{") \in JsonOpen /\ Append(o, "[") \in JsonOpen
  BY JsonTops
<1>2. /\ JsonGoes(JsonMembers(Append(o, "{")), MapEnd, JsonPast(Append(o, "{")))
      /\ JsonGoes(JsonMembers(Append(o, "[")), MapEnd, JsonPast(Append(o, "[")))
      /\ JsonGoes(JsonExpects(Append(Append(o, "{"), "[")), ListEnd, JsonPast(Append(o, "{")))
  BY <1>1, MapEndGoes, ListEndGoes
<1>3. /\ JsonPast(Append(o, "{")) \subseteq JsonMembers(o)
      /\ JsonPast(Append(o, "[")) \subseteq JsonExpects(Append(o, "["))
      /\ JsonMembers(o) \subseteq JsonState /\ JsonExpects(Append(o, "[")) \subseteq JsonState
  BY JsonMore, JsonSets
<1>. QED  BY <1>2, <1>3, JsonWithin, Zenon

----------------------------------------------------------------------------
(* json_amf_data_dump of a value, by what it prints of the items.          *)
Member(name, s) == Key(name) \o s
MembersOf(v, items) == [i \in DOMAIN v.items |-> Member(v.items[i].name, items[i])]
(* DataAround by the type of the value.                                    *)
LEMMA DataAroundIs ==
  ASSUME NEW v, NEW items
  PROVE  /\ v.type \in {"object", "assoc"} =>
              DataAround(v, items) = MapStart \o Joined(MembersOf(v, items)) \o MapEnd
         /\ v.type = "array" => DataAround(v, items) = ListStart \o Joined(items) \o ListEnd
         /\ v.type = "string" => DataAround(v, items) = Scalar(v.text)
         /\ v.type \notin {"object", "assoc", "array", "string"} =>
              DataAround(v, items) = Scalar(Word)
  BY DEF DataAround, MembersOf, Member

(* These are sequences of tokens.                                          *)
LEMMA JsonOnes ==
  /\ MapStart \in Seq(JsonToken) /\ MapEnd \in Seq(JsonToken)
  /\ ListStart \in Seq(JsonToken) /\ ListEnd \in Seq(JsonToken)
  /\ \A t \in Printed : Key(t) \in Seq(JsonToken) /\ Scalar(t) \in Seq(JsonToken)
<1>1. \A x \in JsonToken : <<x>> \in Seq(JsonToken)
  OBVIOUS
<1>. QED  BY <1>1, JsonTokens DEF MapStart, MapEnd, ListStart, ListEnd, Key, Scalar

(* A value is printed in tokens when its items are.                        *)
LEMMA DataAroundIn ==
  ASSUME NEW v \in Values, NEW s \in Seq(Seq(JsonToken)), Len(s) = Len(v.items)
  PROVE  DataAround(v, s) \in Seq(JsonToken)
<1>. DEFINE n == Len(v.items)
            w == MembersOf(v, s)
            S == Seq(JsonToken)
<1>0. /\ n \in Nat /\ DOMAIN v.items = 1 .. n /\ v.text \in Texts
      /\ \A i \in 1 .. n : v.items[i].name \in Texts
  BY ItemsOf
<1>01. Len(s) = n
  OBVIOUS
<1>. HIDE DEF n
<1>1. \A i \in 1 .. n : s[i] \in S
  BY <1>01, ElementOfSeq
<1>2. /\ MapStart \in S /\ MapEnd \in S /\ ListStart \in S /\ ListEnd \in S
      /\ \A t \in Printed : Key(t) \in S /\ Scalar(t) \in S
  BY JsonOnes
<1>. HIDE DEF S
<1>3. (\A a, b \in S : a \o b \in S) /\ (\A a, b, c \in S : a \o b \o c \in S)
  BY ConcatProperties DEF S
<1>4. \A i \in 1 .. n : Member(v.items[i].name, s[i]) \in S
  BY <1>0, <1>1, <1>2, <1>3, TextsArePrinted DEF Member
<1>5. w = [i \in 1 .. n |-> w[i]] /\ \A i \in 1 .. n : w[i] \in S
  BY <1>0, <1>4 DEF MembersOf
<1>. HIDE DEF w
<1>6. w \in Seq(S)
  <2>1. w \in [1 .. n -> S]
    BY <1>5
  <2>. QED  BY <1>0, <2>1, SeqDef
<1>7. Joined(w) \in S /\ Joined(s) \in S
  BY <1>6, JoinedIn DEF S
<1>8. MapStart \o Joined(w) \o MapEnd \in S /\ ListStart \o Joined(s) \o ListEnd \in S
  BY <1>2, <1>3, <1>7
<1>9. Scalar(v.text) \in S /\ Scalar(Word) \in S
  BY <1>0, <1>2, TextsArePrinted
<1>. QED  BY <1>8, <1>9, DataAroundIs DEF S, w

(* The definition of DataTokens is met: by recursion over values there is  *)
(* such a function.                                                        *)
LEMMA DataFact ==
  \A v \in Values : DataTokens[v] = DataAround(v, Kids(DataTokens, v))
<1>. DEFINE S == Seq(JsonToken)
            G == [p \in Values \X Seq(S) |->
                    IF Len(p[2]) = Len(p[1].items) THEN DataAround(p[1], p[2]) ELSE <<>>]
            Is(f) == f = [v \in Values |-> DataAround(v, Kids(f, v))]
<1>0. <<>> \in S
  BY EmptySeq
<1>1. ASSUME NEW v \in Values, NEW s \in Seq(S), Len(s) = Len(v.items)
      PROVE  G[<<v, s>>] = DataAround(v, s) /\ DataAround(v, s) \in S
  <2>1. DataAround(v, s) \in S
    BY <1>1, DataAroundIn
  <2>. QED  BY <1>1, <2>1
<1>2. \A v \in Values, s \in Seq(S) : G[<<v, s>>] \in S
  <2>. TAKE v \in Values
  <2>. TAKE s \in Seq(S)
  <2>1. CASE Len(s) = Len(v.items)
    BY <1>1, <2>1
  <2>2. CASE Len(s) # Len(v.items)
    <3>. HIDE DEF S
    <3>1. G[<<v, s>>] = <<>>
      BY <2>2
    <3>. QED  BY <1>0, <3>1
  <2>. QED  BY <2>1, <2>2
<1>. HIDE DEF G, S
<1>3. PICK f : DeterminedBy(f, Values, S, G)
  BY <1>2, ValueRecursion, Zenon
<1>4. f \in [Values -> S] /\ \A v \in Values : f[v] = G[<<v, Kids(f, v)>>]
  BY <1>3 DEF DeterminedBy
<1>6. \A v \in Values : f[v] = DataAround(v, Kids(f, v))
  <2>. TAKE v \in Values
  <2>1. Maps(f, Values, S)
    BY <1>4 DEF Maps
  <2>2. Kids(f, v) \in Seq(S) /\ Len(Kids(f, v)) = Len(v.items)
    BY <2>1, KidsOf
  <2>. QED  BY <1>1, <1>4, <2>2
<1>7. Is(f)
  BY <1>4, <1>6
<1>8. Is(DataTokens)
  <2>1. DataTokens = CHOOSE g : Is(g)
    BY DEF DataTokens, Kids
  <2>. HIDE DEF Is
  <2>. QED  BY <1>7, <2>1
<1>. HIDE DEF Is
<1>. QED  BY <1>8, Zenon DEF Is

(* Wherever a value may be, it is read as one.                             *)
ValueAt(s) == \A o \in JsonOpen : JsonGoes(JsonExpects(o), s, JsonPast(o))

(* A value is read as one when its items are.                              *)
LEMMA DataGoes ==
  ASSUME NEW v \in Values,
         \A i \in DOMAIN v.items : ValueAt(DataTokens[v.items[i].data])
  PROVE  ValueAt(DataTokens[v])
<1>. SUFFICES ASSUME NEW o \in JsonOpen PROVE JsonGoes(JsonExpects(o), DataTokens[v], JsonPast(o))
  BY DEF ValueAt
<1>. DEFINE n == Len(v.items)
            k == Kids(DataTokens, v)
            e == MembersOf(v, k)
            A == JsonMembers(o)
            B == JsonExpects(Append(o, "["))
<1>1. n \in Nat /\ DOMAIN v.items = 1 .. n /\ v.text \in Texts
      /\ \A i \in 1 .. n : v.items[i].name \in Texts
  BY ItemsOf
<1>2. Append(o, "{") \in JsonOpen /\ Append(o, "[") \in JsonOpen
  BY JsonTops
<1>3. /\ JsonGoes(JsonExpects(o), MapStart, A) /\ JsonGoes(A, MapEnd, JsonPast(o))
      /\ JsonGoes(JsonExpects(o), ListStart, B) /\ JsonGoes(B, ListEnd, JsonPast(o))
      /\ JsonGoes(JsonExpects(o), Scalar(v.text), JsonPast(o))
      /\ JsonGoes(JsonExpects(o), Scalar(Word), JsonPast(o))
  BY <1>1, MapStartGoes, MapEndGoes, ListStartGoes, ListEndGoes, ScalarGoes, TextsArePrinted
<1>. HIDE DEF n
<1>4. /\ k = [i \in 1 .. n |-> k[i]]
      /\ \A i \in 1 .. n : k[i] = DataTokens[v.items[i].data]
  BY <1>1 DEF Kids
<1>5. \A i \in 1 .. n : ValueAt(k[i])
  BY <1>1, <1>4
<1>. HIDE DEF k
<1>6. \A i \in 1 .. n : JsonGoes(B, k[i], B)
  <2>1. JsonPast(Append(o, "[")) \subseteq B /\ B \subseteq JsonState
    BY JsonMore, JsonSets
  <2>2. \A i \in 1 .. n : JsonGoes(B, k[i], JsonPast(Append(o, "[")))
    BY <1>2, <1>5 DEF ValueAt
  <2>. QED  BY <2>1, <2>2, JsonWithin, Zenon
<1>7. /\ e = [i \in 1 .. n |-> e[i]]
      /\ \A i \in 1 .. n : JsonGoes(A, e[i], A)
  <2>1. e = [i \in 1 .. n |-> Member(v.items[i].name, k[i])]
    BY <1>1 DEF MembersOf
  <2>2. ASSUME NEW i \in 1 .. n PROVE JsonGoes(A, Member(v.items[i].name, k[i]), A)
    <3>1. JsonGoes(JsonExpects(Append(o, "{")), k[i], JsonPast(Append(o, "{")))
      BY <1>2, <1>5 DEF ValueAt
    <3>2. v.items[i].name \in Printed
      BY <1>1, TextsArePrinted
    <3>. QED  BY <3>1, <3>2, MemberGoes DEF Member
  <2>. HIDE DEF e, A
  <2>. QED  BY <2>1, <2>2
<1>. HIDE DEF e
<1>8. JsonGoes(B, Joined(k), B) /\ JsonGoes(A, Joined(e), A)
  <2>1. A \subseteq JsonState /\ B \subseteq JsonState /\ Reader(JsonStep, JsonState, JsonToken)
    BY JsonSets, JsonGoesOn
  <2>. HIDE DEF A, B
  <2>. QED  BY <1>1, <1>4, <1>6, <1>7, <2>1, MovesEach, Zenon DEF JsonGoes
<1>. HIDE DEF A, B
<1>9. JsonGoes(JsonExpects(o), (MapStart \o Joined(e)) \o MapEnd, JsonPast(o))
  <2>1. JsonGoes(JsonExpects(o), MapStart \o Joined(e), A)
    BY <1>3, <1>8, JsonChain, Zenon
  <2>. QED  BY <1>3, <2>1, JsonChain, Zenon
<1>10. JsonGoes(JsonExpects(o), (ListStart \o Joined(k)) \o ListEnd, JsonPast(o))
  <2>1. JsonGoes(JsonExpects(o), ListStart \o Joined(k), B)
    BY <1>3, <1>8, JsonChain, Zenon
  <2>. QED  BY <1>3, <2>1, JsonChain, Zenon
<1>11. DataTokens[v] \in {MapStart \o Joined(e) \o MapEnd, ListStart \o Joined(k) \o ListEnd,
                         Scalar(v.text), Scalar(Word)}
  <2>1. DataTokens[v] = DataAround(v, k)
    BY DataFact DEF k
  <2>. QED  BY <2>1, DataAroundIs DEF e
<1>. QED  BY <1>3, <1>9, <1>10, <1>11

(* Every value is: induction over values.                                  *)
LEMMA ValuesAreRead == \A v \in Values : ValueAt(DataTokens[v])
<1>. DEFINE P == {v \in Values : ValueAt(DataTokens[v])}
<1>1. ASSUME NEW v \in Values, \A i \in DOMAIN v.items : v.items[i].data \in P PROVE v \in P
  BY <1>1, DataGoes
<1>. HIDE DEF P
<1>2. \A v \in Values : v \in P
  BY <1>1, ValueInduction
<1>. QED  BY <1>2 DEF P

(* What is open at each place of a full dump.                              *)
InRoot == Append(<<>>, "{")
InRootTags == Append(InRoot, "[")
InPart == Append(InRootTags, "{")
InPacket == Append(InPart, "{")
JsonPlaces ==
  [start |-> JsonExpects(<<>>), tags |-> JsonExpects(InRootTags),
   tag |-> JsonMembers(InRootTags),
   audio |-> JsonMembers(InPart), video |-> JsonMembers(InPart), avc |-> JsonMembers(InPacket),
   closed |-> JsonPast(<<>>), broken |-> {k \in JsonState : k.r.ok /\ k.r.events = k.said}]

(* What is open there.                                                     *)
LEMMA JsonInside ==
  /\ <<>> \in JsonOpen /\ InRoot \in JsonOpen /\ InRootTags \in JsonOpen
  /\ InPart \in JsonOpen /\ InPacket \in JsonOpen
<1>1. <<>> \in JsonOpen
  BY EmptySeq DEF JsonOpen
<1>2. InRoot \in JsonOpen
  BY <1>1, JsonTops DEF InRoot
<1>3. InRootTags \in JsonOpen
  BY <1>2, JsonTops DEF InRootTags
<1>4. InPart \in JsonOpen
  BY <1>3, JsonTops DEF InPart
<1>5. InPacket \in JsonOpen
  BY <1>4, JsonTops DEF InPacket
<1>. QED  BY <1>1, <1>2, <1>3, <1>4, <1>5

(* What the callbacks print.                                               *)
JsonPart(part) == TokensOf("json", NamedPart(part))
(* The tokens of each part, one by one.                                    *)
LEMMA JsonParts ==
  /\ JsonPart("header") = MapStart \o Pairs(4) \o Key(Word) \o ListStart
  /\ JsonPart("tag") = MapStart \o Pairs(4)
  /\ JsonPart("prev") = MapEnd /\ JsonPart("end") = ListEnd \o MapEnd
  /\ JsonPart("audio") = KeyedMap \o Pairs(4) \o MapEnd
  /\ JsonPart("audioStart") = KeyedMap \o Pairs(4)
  /\ JsonPart("audioPacket") = KeyedMap \o Pairs(1) \o MapEnd \o MapEnd
  /\ JsonPart("video") = KeyedMap \o Pairs(2) \o MapEnd
  /\ JsonPart("extended") = KeyedMap \o Pairs(3) \o MapEnd
  /\ JsonPart("videoStart") = KeyedMap \o Pairs(2)
  /\ JsonPart("avcStart") = KeyedMap \o Pairs(1) /\ JsonPart("avcTime") = Pairs(1)
  /\ JsonPart("avcEnd") = MapEnd \o MapEnd
<1>1. /\ JsonPart("header") = MapStart \o Pairs(4) \o Key(Word) \o ListStart
      /\ JsonPart("tag") = MapStart \o Pairs(4)
  BY DEF JsonPart, TokensOf, NamedPart, Parts, All, OnHeader, OnTag
<1>2. JsonPart("prev") = MapEnd /\ JsonPart("end") = ListEnd \o MapEnd
  BY DEF JsonPart, TokensOf, NamedPart, Parts, All, OnPrevTagSize, OnStreamEnd
<1>3. /\ JsonPart("audio") = KeyedMap \o Pairs(4) \o MapEnd
      /\ JsonPart("audioStart") = KeyedMap \o Pairs(4)
  BY DEF JsonPart, TokensOf, NamedPart, Parts, All, AudioWhole, AudioStart, AudioText
<1>4. JsonPart("audioPacket") = KeyedMap \o Pairs(1) \o MapEnd \o MapEnd
  BY DEF JsonPart, TokensOf, NamedPart, Parts, All, AudioPacket
<1>5. JsonPart("video") = KeyedMap \o Pairs(2) \o MapEnd
  BY DEF JsonPart, TokensOf, NamedPart, Parts, All, VideoWhole, VideoText
<1>6. JsonPart("extended") = KeyedMap \o Pairs(3) \o MapEnd
  BY DEF JsonPart, TokensOf, NamedPart, Parts, All, VideoWhole, VideoText
<1>7. JsonPart("videoStart") = KeyedMap \o Pairs(2)
  BY DEF JsonPart, TokensOf, NamedPart, Parts, All, VideoStart, VideoText
<1>8. JsonPart("avcStart") = KeyedMap \o Pairs(1) /\ JsonPart("avcTime") = Pairs(1)
  BY DEF JsonPart, TokensOf, NamedPart, Parts, All, AvcStart, AvcTime
<1>9. JsonPart("avcEnd") = MapEnd \o MapEnd
  BY DEF JsonPart, TokensOf, NamedPart, Parts, All, AvcEnd
<1>. QED  BY <1>1, <1>2, <1>3, <1>4, <1>5, <1>6, <1>7, <1>8, <1>9

(* And of a value, within the dump or alone.                               *)
LEMMA JsonValueParts ==
  \A v : /\ TokensOf("json", Document(v)) = DataTokens[v]
         /\ TokensOf("json", Metadata(v)) =
              KeyedMap \o Pairs(1) \o Key(Word) \o DataTokens[v] \o MapEnd
  BY DEF TokensOf, Document, Metadata, OnDataOnly, OnMetaData, All

(* A named mapping, begun, within the mapping o.                           *)
LEMMA BegunGoes ==
  ASSUME NEW o \in JsonOpen, NEW n \in Nat
  PROVE  /\ JsonGoes(JsonMembers(o), KeyedMap \o Pairs(n), JsonMembers(Append(o, "{")))
         /\ JsonGoes(JsonMembers(o), (KeyedMap \o Pairs(n)) \o MapEnd, JsonMembers(o))
<1>1. Append(o, "{") \in JsonOpen
  BY JsonTops
<1>2. /\ JsonGoes(JsonMembers(o), KeyedMap, JsonMembers(Append(o, "{")))
      /\ JsonGoes(JsonMembers(Append(o, "{")), Pairs(n), JsonMembers(Append(o, "{")))
      /\ JsonGoes(JsonMembers(Append(o, "{")), MapEnd, JsonMembers(o))
  BY <1>1, KeyedMapGoes, PairsGoes, InnerEndGoes
<1>3. JsonGoes(JsonMembers(o), KeyedMap \o Pairs(n), JsonMembers(Append(o, "{")))
  BY <1>2, JsonChain, Zenon
<1>. QED  BY <1>2, <1>3, JsonChain, Zenon

(* The printers of the JSON dump are read back.                            *)
LEMMA JsonAccepted == Accepts(JsonStep, JsonState, JsonToken, "json", JsonPlaces)
<1>. DEFINE P == JsonPlaces
<1>1. \A x \in Places : P[x] \subseteq P["broken"] /\ P[x] \subseteq JsonState
  <2>. DEFINE R == {k \in JsonState : k.r.ok /\ k.r.events = k.said}
  <2>1. R \subseteq JsonState
    OBVIOUS
  <2>2. \A o, L : JsonAt(o, L) \subseteq R
    BY DEF JsonAt
  <2>. HIDE DEF R
  <2>3. \A o : JsonPast(o) \subseteq R /\ JsonMembers(o) \subseteq R
    BY <2>2, Zenon DEF JsonPast, JsonMembers
  <2>4. \A o : JsonExpects(o) \subseteq R
    <3>1. \A o : \E L : JsonExpects(o) = JsonAt(o, L)
      BY Zenon DEF JsonExpects
    <3>. QED  BY <2>2, <3>1
  <2>5. \A x \in Places : P[x] \subseteq R /\ P["broken"] = R
    BY <2>3, <2>4 DEF JsonPlaces, Places, R
  <2>. HIDE DEF P
  <2>. QED  BY <2>1, <2>5
<1>2. /\ P["start"] = JsonExpects(<<>>) /\ P["tags"] = JsonExpects(InRootTags)
      /\ P["tag"] = JsonMembers(InRootTags) /\ P["audio"] = JsonMembers(InPart)
      /\ P["video"] = JsonMembers(InPart) /\ P["avc"] = JsonMembers(InPacket)
      /\ P["closed"] = JsonPast(<<>>)
  BY DEF JsonPlaces
<1>. HIDE DEF P
<1>3. /\ InRoot = Append(<<>>, "{") /\ InRootTags = Append(InRoot, "[")
      /\ InPart = Append(InRootTags, "{") /\ InPacket = Append(InPart, "{")
  BY DEF InRoot, InRootTags, InPart, InPacket
<1>4. 1 \in Nat /\ 2 \in Nat /\ 3 \in Nat /\ 4 \in Nat
  OBVIOUS
<1>5. /\ JsonGoes(JsonMembers(InPart), MapEnd, P["tag"])
      /\ JsonGoes(JsonMembers(InRootTags), MapEnd, P["tags"])
      /\ JsonGoes(JsonMembers(InPacket), MapEnd, JsonMembers(InPart))
      /\ JsonGoes(P["tags"], ListEnd, JsonMembers(<<>>))
      /\ JsonGoes(JsonMembers(<<>>), MapEnd, P["closed"])
  BY <1>2, <1>3, JsonInside, InnerEndGoes, MapEndGoes
<1>6. /\ JsonGoes(P["tag"], KeyedMap \o Pairs(4), JsonMembers(InPart))
      /\ JsonGoes(P["tag"], (KeyedMap \o Pairs(4)) \o MapEnd, P["tag"])
      /\ JsonGoes(P["tag"], KeyedMap \o Pairs(2), JsonMembers(InPart))
      /\ JsonGoes(P["tag"], (KeyedMap \o Pairs(2)) \o MapEnd, P["tag"])
      /\ JsonGoes(P["tag"], (KeyedMap \o Pairs(3)) \o MapEnd, P["tag"])
      /\ JsonGoes(P["tag"], KeyedMap \o Pairs(1), JsonMembers(InPart))
      /\ JsonGoes(JsonMembers(InPart), KeyedMap \o Pairs(1), JsonMembers(InPacket))
      /\ JsonGoes(JsonMembers(InPart), (KeyedMap \o Pairs(1)) \o MapEnd, JsonMembers(InPart))
  BY <1>2, <1>3, <1>4, JsonInside, BegunGoes
<1>10. JsonGoes(P["start"], JsonPart("header"), P["tags"])
  <2>1. /\ JsonGoes(P["start"], MapStart, JsonMembers(<<>>))
        /\ JsonGoes(JsonMembers(<<>>), Pairs(4), JsonMembers(<<>>))
        /\ JsonGoes(JsonMembers(<<>>), Key(Word), JsonExpects(InRoot))
        /\ JsonGoes(JsonExpects(InRoot), ListStart, P["tags"])
    BY <1>2, <1>3, <1>4, JsonInside, TextsArePrinted, MapStartGoes, PairsGoes, KeyGoes, ListStartGoes
  <2>2. JsonGoes(P["start"], MapStart \o Pairs(4), JsonMembers(<<>>))
    BY <2>1, JsonChain, Zenon
  <2>3. JsonGoes(P["start"], (MapStart \o Pairs(4)) \o Key(Word), JsonExpects(InRoot))
    BY <2>1, <2>2, JsonChain, Zenon
  <2>4. JsonGoes(P["start"], ((MapStart \o Pairs(4)) \o Key(Word)) \o ListStart, P["tags"])
    BY <2>1, <2>3, JsonChain, Zenon
  <2>. QED  BY <2>4, JsonParts
<1>11. JsonGoes(P["tags"], JsonPart("tag"), P["tag"])
  <2>1. /\ JsonGoes(P["tags"], MapStart, JsonMembers(InRootTags))
        /\ JsonGoes(JsonMembers(InRootTags), Pairs(4), P["tag"])
    BY <1>2, <1>4, JsonInside, MapStartGoes, PairsGoes
  <2>2. JsonGoes(P["tags"], MapStart \o Pairs(4), P["tag"])
    BY <2>1, JsonChain, Zenon
  <2>. QED  BY <2>2, JsonParts
<1>12. JsonGoes(P["tag"], JsonPart("prev"), P["tags"])
  BY <1>2, <1>5, JsonParts
<1>13. JsonGoes(P["tags"], JsonPart("end"), P["closed"])
  <2>1. JsonGoes(P["tags"], ListEnd \o MapEnd, P["closed"])
    BY <1>5, JsonChain, Zenon
  <2>. QED  BY <2>1, JsonParts
<1>14. /\ JsonGoes(P["tag"], JsonPart("audio"), P["tag"])
       /\ JsonGoes(P["tag"], JsonPart("video"), P["tag"])
       /\ JsonGoes(P["tag"], JsonPart("extended"), P["tag"])
  BY <1>6, JsonParts
<1>15. /\ JsonGoes(P["tag"], JsonPart("audioStart"), P["audio"])
       /\ JsonGoes(P["tag"], JsonPart("videoStart"), P["video"])
       /\ JsonGoes(P["video"], JsonPart("avcStart"), P["avc"])
  BY <1>2, <1>6, JsonParts
<1>16. JsonGoes(P["audio"], JsonPart("audioPacket"), P["tag"])
  <2>1. JsonGoes(JsonMembers(InPart), ((KeyedMap \o Pairs(1)) \o MapEnd) \o MapEnd, P["tag"])
    BY <1>5, <1>6, JsonChain, Zenon
  <2>. QED  BY <1>2, <2>1, JsonParts
<1>17. JsonGoes(P["avc"], JsonPart("avcTime"), P["avc"])
  BY <1>2, <1>4, JsonInside, PairsGoes, JsonParts
<1>18. JsonGoes(P["avc"], JsonPart("avcEnd"), P["tag"])
  <2>1. JsonGoes(JsonMembers(InPacket), MapEnd \o MapEnd, P["tag"])
    BY <1>5, JsonChain, Zenon
  <2>. QED  BY <1>2, <2>1, JsonParts
<1>22. \A way \in Paths : JsonGoes(P[way[1]], JsonPart(way[2]), P[way[3]])
  BY <1>10, <1>11, <1>12, <1>13, <1>14, <1>15, <1>16, <1>17, <1>18 DEF Paths
<1>23. ASSUME NEW v \in Values
       PROVE  /\ JsonGoes(P["tag"], TokensOf("json", Metadata(v)), P["tag"])
              /\ JsonGoes(P["start"], TokensOf("json", Document(v)), P["closed"])
  <2>1. ValueAt(DataTokens[v])
    BY ValuesAreRead
  <2>2. JsonGoes(P["start"], DataTokens[v], P["closed"])
    BY <1>2, <2>1, JsonInside DEF ValueAt
  <2>3. InPacket = Append(InPart, "{") /\ InPart \in JsonOpen /\ InPacket \in JsonOpen
    BY <1>3, JsonInside
  <2>4. /\ JsonGoes(JsonMembers(InPart), Key(Word), JsonExpects(InPacket))
        /\ JsonGoes(JsonExpects(InPacket), DataTokens[v], JsonPast(InPacket))
    BY <2>1, <2>3, KeyGoes, TextsArePrinted DEF ValueAt
  <2>5. JsonGoes(JsonExpects(InPacket), DataTokens[v], JsonMembers(InPart))
    BY <2>3, <2>4, JsonMore, JsonSets, JsonWithin
  <2>6. JsonGoes(P["tag"], (KeyedMap \o Pairs(1)) \o Key(Word), JsonExpects(InPacket))
    BY <1>6, <2>4, JsonChain, Zenon
  <2>7. JsonGoes(P["tag"], ((KeyedMap \o Pairs(1)) \o Key(Word)) \o DataTokens[v], JsonMembers(InPart))
    BY <2>5, <2>6, JsonChain, Zenon
  <2>8. JsonGoes(P["tag"], (((KeyedMap \o Pairs(1)) \o Key(Word)) \o DataTokens[v]) \o MapEnd, P["tag"])
    BY <1>5, <2>7, JsonChain, Zenon
  <2>. QED  BY <2>2, <2>8, JsonValueParts
<1>. QED  BY <1>1, <1>22, <1>23, JsonGoesOn DEF Accepts, JsonGoes, JsonPart, P

(* The reader of nothing expects the document.                             *)
LEMMA JsonStarts == JsonNew \in JsonPlaces["start"]
<1>1. JsonExpects(<<>>) = JsonAt(<<>>, {""})
  BY JsonExpectsIs DEF JsonTop
<1>2. JsonNew \in JsonAt(<<>>, {""})
  <2>1. JsonNew \in JsonState
    BY JsonGoesOn
  <2>2. JsonNew.r.ok /\ JsonNew.r.open = <<>> /\ JsonNew.r.events = JsonNew.said
        /\ JsonNew.r.last = "" /\ ~JsonNew.comma
    BY DEF JsonNew, JsonUnread
  <2>. QED  BY <2>1, <2>2 DEF JsonAt, Complete
<1>. QED  BY <1>1, <1>2 DEF JsonPlaces

(* What is printed of any file and request in JSON is read back.           *)
LEMMA JsonGood == ReaderInv(JsonStep, JsonNew, "json", JsonPlaces) => JsonReadsBack
<1>. SUFFICES ASSUME ReaderInv(JsonStep, JsonNew, "json", JsonPlaces), Format = "json"
              PROVE  JsonReadsBack
  BY DEF JsonReadsBack
<1>. DEFINE k == Run(JsonStep, JsonNew, Said("json", given))
            r == JsonRead(JsonPrinted.text)
<1>2. /\ Said("json", given) \in Seq(JsonToken)
      /\ At(JsonStep, JsonNew, "json", given, JsonPlaces["broken"])
      /\ Finished => At(JsonStep, JsonNew, "json", given, JsonPlaces["closed"])
  BY JsonStarts, JsonAccepted, ReaderDone, Zenon
<1>3. Tokens = Said("json", given)
  BY SaidIsPrinted
<1>4. r = k.r /\ JsonMeaning(Tokens) = k.said
  BY <1>2, <1>3, JsonIsRead DEF JsonPrinted
<1>5. k \in JsonPlaces["broken"] /\ (Finished => k \in JsonPlaces["closed"])
  BY <1>2 DEF At
<1>. HIDE DEF k, r
<1>6. /\ r.ok /\ r.events = JsonMeaning(Tokens)
      /\ Finished => r.open = <<>>
  BY <1>4, <1>5 DEF JsonPlaces, JsonPast, JsonAt
<1>. QED  BY <1>6 DEF JsonReadsBack, r

(* JsonReadsBack for all files and requests, and values of any depth: what *)
(* dump_json.c prints by way of json.c, commas included, is read back with *)
(* the structure it was printed for, and is a whole document when the dump *)
(* ends without an error.                                                  *)
THEOREM JsonIsReadBack == DumpSpec => []JsonReadsBack
<1>. DEFINE Inv == ReaderInv(JsonStep, JsonNew, "json", JsonPlaces)
<1>2. DumpInit => Inv
  BY JsonStarts, JsonAccepted, ReaderInit, Zenon
<1>3. StreamInv /\ StreamInv' /\ Inv /\ [DumpNext]_allVars => Inv'
  <2>1. StreamInv => TypeOK
    BY DEF StreamInv
  <2>2. StreamInv' => TypeOK'
    BY DEF StreamInv
  <2>. QED  BY JsonStarts, <2>1, <2>2, JsonAccepted, ReaderStep
<1>4. Inv => JsonReadsBack
  BY JsonGood
<1>. HIDE DEF Inv
<1>. QED  BY <1>2, <1>3, <1>4, DumpKeepsStream, PTL DEF DumpSpec
=============================================================================
