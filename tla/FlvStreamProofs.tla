-------------------------- MODULE FlvStreamProofs --------------------------
(***************************************************************************)
(* What FlvStream guarantees of every file: types, the order of the tags,  *)
(* and, when the metadata fit their tags, the tag boundaries.              *)
(***************************************************************************)
EXTENDS FlvStream, WellFoundedInduction, TLAPS

(* Every set of naturals has a least element.                             *)
LEMMA LeastElement ==
  ASSUME NEW S \in SUBSET Nat, S # {}
  PROVE  \E x \in S : \A y \in S : x <= y
<1>. DEFINE R == OpToRel(<, Nat)
<1>1. IsWellFoundedOn(R, Nat)
  BY NatLessThanWellFounded, Zenon
<1>2. \E x \in S : \A y \in S : ~(<<y, x>> \in R)
  <2>. HIDE DEF R
  <2>. QED  BY <1>1, WFMin
<1>3. PICK x \in S : \A y \in S : ~(<<y, x>> \in R)
  BY <1>2
<1>4. \A y \in S : ~(y < x)
  BY <1>3, Zenon DEF OpToRel
<1>. QED  BY <1>4

(* The facts on files the steps use, stated on the current one.            *)
LEMMA FileFacts ==
  ASSUME file \in Files
  PROVE  /\ Size \in Nat
         /\ \A o \in 0 .. Size : LengthAt(o) \in Nat
         /\ \A o \in 0 .. Size : /\ AmfAt(o).used \in Nat \ {0}
                                 /\ AmfAt(o).size \in Nat \ {0}
                                 /\ AmfAt(o).size <= AmfAt(o).used + 1
                                 /\ AmfAt(o).hitsEnd \in BOOLEAN
<1>1. IsFile(Contents[file])
  BY FilesAssumption
<1>2. Size \in Nat /\ \A o \in 0 .. Size : LengthAt(o) \in Nat
  BY <1>1 DEF IsFile, Size, LengthAt
<1>3. ASSUME NEW o \in 0 .. Size
      PROVE  /\ AmfAt(o).used \in Nat \ {0}
             /\ AmfAt(o).size \in Nat \ {0}
             /\ AmfAt(o).size <= AmfAt(o).used + 1
             /\ AmfAt(o).hitsEnd \in BOOLEAN
  BY <1>1, <1>2 DEF IsFile, IsAmfElement, Size, AmfAt
<1>. QED  BY <1>2, <1>3

(* What a partial read returns is bounded by the buffer and the body.      *)
LEMMA GotBounds ==
  ASSUME file \in Files, NEW o \in Nat, NEW n \in Nat, NEW left \in Nat
  PROVE  Got(o, n, left) \in Nat /\ Got(o, n, left) <= left
BY FileFacts DEF Got, Wanted, Lesser, Greater

(* StreamInv but for the end indicator, a Boolean that the provers treat    *)
(* apart from the numbers.                                                 *)
CursorInv ==
  /\ file \in Files /\ pos \in Nat /\ tagOffset \in Nat /\ tagLength \in Nat
  /\ bodyLength \in Nat /\ overflow \in Nat
  /\ state \in States /\ result \in Results
  /\ state = "TAG_BODY" => overflow = 0
  /\ state = "START" => tagOffset = 0
  /\ state = "PREV_TAG_SIZE" /\ ~eof => pos + PrevTagSize > tagOffset
  /\ state \in {"TAG", "TAG_BODY"} /\ ~eof => pos > tagOffset

LEMMA StreamInvParts == StreamInv <=> CursorInv /\ eof \in BOOLEAN
BY Zenon DEF StreamInv, CursorInv, TypeOK

LEMMA StreamInit == Init => StreamInv
<1>1. Init => CursorInv
  BY SizesAssumption DEF Init, Open, CursorInv, States, Results
<1>2. Init => eof \in BOOLEAN
  BY Zenon DEF Init, Open
<1>. QED  BY <1>1, <1>2, StreamInvParts

LEMMA LessIsBoolean == \A a, b : (a < b) \in BOOLEAN
OBVIOUS

LEMMA EofStep == eof \in BOOLEAN /\ [Next]_vars => eof' \in BOOLEAN
<1>. SUFFICES ASSUME eof \in BOOLEAN, [Next]_vars PROVE eof' \in BOOLEAN
  OBVIOUS
<1>1. CASE ReadHeader
  BY <1>1, Zenon DEF ReadHeader, Refused, ReadPastEnd
<1>2. CASE ReadPrevTagSize
  BY <1>2, Zenon DEF ReadPrevTagSize, Refused, ReadPastEnd
<1>3. CASE ReadTag
  BY <1>3, Zenon DEF ReadTag, Refused, ReadPastEnd
<1>4. CASE ReadAudioTag
  BY <1>4, Zenon DEF ReadAudioTag, NotInBody, EmptyBody, BodyMissing, Refused,
     ReadPastEnd
<1>5. CASE ReadVideoTag
  BY <1>5, LessIsBoolean, Zenon DEF ReadVideoTag, NotInBody, EmptyBody,
     BodyMissing, Refused, ReadPastEnd
<1>6. CASE ReadMetadata
  BY <1>6, Zenon DEF ReadMetadata, NotInBody, EmptyBody, Refused, ReadPastEnd
<1>7. ASSUME NEW n \in BufferSizes, ReadTagBody(n) PROVE eof' \in BOOLEAN
  BY <1>7, LessIsBoolean, Zenon DEF ReadTagBody
<1>8. CASE Reset
  BY <1>8, Zenon DEF Reset
<1>9. CASE Close
  BY <1>9, Zenon DEF Close
<1>10. CASE UNCHANGED vars
  BY <1>10, Zenon DEF vars
<1>. QED
  BY <1>1, <1>2, <1>3, <1>4, <1>5, <1>6, <1>7, <1>8, <1>9, <1>10, Zenon DEF Next

(* One step per operation; the operations that decode a body know where    *)
(* its first byte is.                                                      *)
LEMMA CursorStep == CursorInv /\ [Next]_vars => CursorInv'
<1>. SUFFICES ASSUME CursorInv, [Next]_vars PROVE CursorInv'
  OBVIOUS
<1>. USE SizesAssumption
<1>f. /\ Size \in Nat
      /\ \A o \in 0 .. Size : LengthAt(o) \in Nat
      /\ \A o \in 0 .. Size : /\ AmfAt(o).used \in Nat \ {0}
                              /\ AmfAt(o).size \in Nat \ {0}
                              /\ AmfAt(o).size <= AmfAt(o).used + 1
                              /\ AmfAt(o).hitsEnd \in BOOLEAN
  BY FileFacts DEF CursorInv
<1>1. CASE ReadHeader
  BY <1>1, <1>f DEF ReadHeader, Refused, ReadPastEnd, Available, Greater,
     Usable, tagVars, bodyVars, CursorInv, States, Results
<1>2. CASE ReadPrevTagSize
  BY <1>2, <1>f DEF ReadPrevTagSize, Refused, ReadPastEnd, Available, Greater,
     Usable, TagEnd, tagVars, bodyVars, CursorInv, States, Results
<1>3. CASE ReadTag
  <2>1. ~eof /\ state # "CLOSED" => NextTag \in Nat /\ NextTag > tagOffset
    BY DEF NextTag, TagEnd, CursorInv, States
  <2>2. Available(NextTag, TagSize) /\ NextTag \in Nat => LengthAt(NextTag) \in Nat
    BY <1>f DEF Available
  <2>. QED
    BY <1>3, <2>1, <2>2, <1>f DEF ReadTag, Refused, ReadPastEnd, Available,
       Greater, Usable, tagVars, bodyVars, CursorInv, States, Results
<1>4. CASE ReadAudioTag
  BY <1>4, <1>f DEF ReadAudioTag, NotInBody, EmptyBody, BodyMissing, HasBody,
     InBody, Refused, ReadPastEnd, Available, Greater, Undecoded, BodyUsable,
     StateWith, tagVars, bodyVars, CursorInv, States, Results
<1>5. CASE ReadVideoTag
  <2>1. CASE NotInBody \/ EmptyBody \/ BodyMissing
    BY <2>1, <1>f DEF NotInBody, EmptyBody, BodyMissing, InBody, Refused,
       ReadPastEnd, Greater, tagVars, bodyVars, CursorInv, States, Results
  <2>2. CASE HasBody
    <3>1. DEFINE left == bodyLength - 1
                 got == Got(pos + 1, FourccSize, left)
    <3>2. left \in Nat /\ pos + 1 \in Nat /\ pos = tagOffset + TagSize
      BY <1>5, <2>2 DEF ReadVideoTag, HasBody, InBody, Undecoded, CursorInv
    <3>3. got \in Nat /\ got <= left
      BY <3>2, GotBounds DEF CursorInv
    <3>. HIDE DEF got
    <3>4. /\ file' = file /\ tagOffset' = tagOffset /\ tagLength' = tagLength
          /\ overflow' = overflow
          /\ \/ pos' = pos + 1 /\ bodyLength' = left
             \/ pos' = pos + 1 + got /\ bodyLength' = left - got
          /\ state' = StateWith(bodyLength')
          /\ result' \in {"OK", "EOF"}
      BY <1>5, <2>2 DEF ReadVideoTag, HasBody, NotInBody, EmptyBody, BodyMissing,
         InBody, got, tagVars, bodyVars
    <3>. QED
      BY <3>2, <3>3, <3>4, <2>2 DEF StateWith, HasBody, InBody, CursorInv,
         States, Results
  <2>. QED  BY <1>5, <2>1, <2>2 DEF ReadVideoTag
<1>6. CASE ReadMetadata
  BY <1>6, <1>f, SMTT(60) DEF ReadMetadata, NotInBody, EmptyBody, InBody, Refused,
     ReadPastEnd, Available, AmfAvailable, Greater, Remaining, Overflow,
     Undecoded, BodyUsable, StateWith, tagVars, bodyVars, CursorInv,
     States, Results
<1>7. ASSUME NEW n \in BufferSizes, ReadTagBody(n) PROVE CursorInv'
  <2>1. n \in Nat /\ pos \in Nat /\ bodyLength \in Nat /\ file \in Files
    BY DEF CursorInv
  <2>2. /\ Got(pos, n, bodyLength) \in Nat
        /\ Got(pos, n, bodyLength) <= bodyLength
    BY ONLY <2>1, GotBounds
  <2>. QED
    BY <1>7, <2>1, <2>2 DEF ReadTagBody, InBody, BodyUsable, StateWith, tagVars,
       bodyVars, CursorInv, States, Results
<1>8. CASE Reset
  BY <1>8 DEF Reset, Usable, CursorInv, States, Results
<1>9. CASE Close
  BY <1>9 DEF Close, tagVars, bodyVars, CursorInv, States, Results
<1>10. CASE UNCHANGED vars
  BY <1>10 DEF vars, CursorInv
<1>. QED
  BY <1>1, <1>2, <1>3, <1>4, <1>5, <1>6, <1>7, <1>8, <1>9, <1>10 DEF Next

LEMMA StreamStep == StreamInv /\ [Next]_vars => StreamInv'
<1>1. CursorInv' /\ eof' \in BOOLEAN => StreamInv'
  BY Zenon DEF StreamInv, CursorInv, TypeOK
<1>. QED  BY <1>1, StreamInvParts, CursorStep, EofStep

(* Every file, every order of calls: the stream keeps its types, an        *)
(* overflow never outlives the tag it belongs to, and the cursor is ahead  *)
(* of the last tag once its body is left (the reading half of flv.c).      *)
THEOREM StreamInvariant == Spec => []StreamInv
BY StreamInit, StreamStep, PTL DEF Spec

(* The types of the stream, for every file.                                *)
THEOREM StreamTypes == Spec => []TypeOK
<1>1. StreamInv => TypeOK
  BY DEF StreamInv
<1>. QED  BY <1>1, StreamInvariant, PTL

(* The loops on flv_read_tag visit the tags of a file in order, none       *)
(* twice, whatever its metadata are: each moves on, so each comes to the   *)
(* end of the file.                                                        *)
THEOREM TagsOrdered == Spec => TagsAdvance
<1>1. StreamInv /\ [Next]_vars =>
        [ReadTag /\ result' = "OK" => tagOffset' > tagOffset]_vars
  <2>. SUFFICES ASSUME StreamInv, ReadTag, result' = "OK"
                PROVE  tagOffset' > tagOffset
    OBVIOUS
  <2>1. CursorInv
    BY StreamInvParts
  <2>2. ~eof /\ tagOffset' = NextTag /\ state # "CLOSED"
    BY DEF ReadTag, Refused, ReadPastEnd, Usable
  <2>. QED
    BY <2>1, <2>2, SizesAssumption DEF NextTag, TagEnd, CursorInv, States
<1>. QED  BY <1>1, StreamInvariant, PTL DEF Spec, TagsAdvance

----------------------------------------------------------------------------
(* The tag boundaries of the current file.                                 *)
LEMMA TagFacts ==
  ASSUME file \in Files
  PROVE  /\ HeaderSize + PrevTagSize \in Tags
         /\ \A o \in Tags : o \in Nat
         /\ \A o \in Tags : o + TagSize <= Size =>
               o + TagSize + LengthAt(o) + PrevTagSize \in Tags
BY FilesAssumption DEF IsFile, Tags, Size, LengthAt

(* What MetadataFits says of a tag of the current file.                    *)
LEMMA FitFacts ==
  ASSUME file \in Files, MetadataFits(Contents[file]), NEW o \in Tags,
         AmfAvailable(o + TagSize), AmfAt(o + TagSize).ok,
         o + TagSize + 1 <= Size
  PROVE  LET name == AmfAt(o + TagSize)
             at == o + TagSize + name.used
         IN  /\ name.used = name.size /\ name.size < LengthAt(o)
             /\ AmfAvailable(at) /\ AmfAt(at).ok =>
                   AmfAt(at).used = AmfAt(at).size
BY DEF MetadataFits, AmfAvailable, Available, AmfAt, Tags, Size, LengthAt

(* Besides the two properties, a rewound stream is at the start of its     *)
(* file, so that flv_read_tag finds the first tag there.                   *)
BoundaryPart ==
  /\ OnBoundary
  /\ BodyAccount
  /\ state = "START" /\ ~eof /\ result # "NO_FLV" => pos = 0

LEMMA BoundaryInit == Init => BoundaryPart
BY DEF Init, Open, BoundaryPart, OnBoundary, BodyAccount

LEMMA FileKept == [Next]_vars => file' = file
<1>. SUFFICES ASSUME [Next]_vars PROVE file' = file
  OBVIOUS
<1>. QED
  BY Zenon DEF Next, vars, ReadHeader, ReadPrevTagSize, ReadTag, ReadAudioTag,
     ReadVideoTag, ReadMetadata, ReadTagBody, Reset, Close, NotInBody,
     EmptyBody, BodyMissing, Refused

LEMMA BoundaryStep ==
  ASSUME MetadataFits(Contents[file]), CursorInv, BoundaryPart, [Next]_vars
  PROVE  BoundaryPart'
<1>. USE SizesAssumption
<1>f. /\ Size \in Nat
      /\ \A o \in 0 .. Size : LengthAt(o) \in Nat
      /\ \A o \in 0 .. Size : /\ AmfAt(o).used \in Nat \ {0}
                              /\ AmfAt(o).size \in Nat \ {0}
                              /\ AmfAt(o).size <= AmfAt(o).used + 1
                              /\ AmfAt(o).hitsEnd \in BOOLEAN
  BY FileFacts DEF CursorInv
<1>t. /\ HeaderSize + PrevTagSize \in Tags
      /\ \A o \in Tags : o \in Nat
      /\ \A o \in Tags : o + TagSize <= Size =>
            o + TagSize + LengthAt(o) + PrevTagSize \in Tags
  BY TagFacts DEF CursorInv
<1>g. SUFFICES
        /\ state' = "TAG_BODY" => /\ tagOffset' \in Tags
                                  /\ tagOffset' + TagSize <= Size
                                  /\ tagLength' = LengthAt(tagOffset')
        /\ state' = "PREV_TAG_SIZE" /\ ~eof' => pos' + PrevTagSize \in Tags
        /\ state' = "TAG" /\ ~eof' => pos' \in Tags
        /\ state' = "TAG_BODY" /\ result' = "OK" =>
              pos' + bodyLength' = tagOffset' + TagSize + tagLength'
        /\ state' = "START" /\ ~eof' /\ result' # "NO_FLV" => pos' = 0
  BY FileKept DEF BoundaryPart, OnBoundary, BodyAccount, TagEnd, Tags, Size, LengthAt
\* the end of the current tag is followed by a boundary
<1>e. state = "TAG_BODY" => /\ TagEnd \in Nat /\ TagEnd + PrevTagSize \in Tags
                            /\ tagOffset \in Tags
                            /\ tagLength = LengthAt(tagOffset)
  BY <1>t, <1>f DEF BoundaryPart, OnBoundary, CursorInv, TagEnd
<1>1. CASE ReadHeader
  BY <1>1, <1>t, <1>f DEF ReadHeader, Refused, ReadPastEnd, Usable, tagVars,
     bodyVars, BoundaryPart, OnBoundary, BodyAccount, TagEnd, CursorInv
<1>2. CASE ReadPrevTagSize
  BY <1>2, <1>e, <1>f DEF ReadPrevTagSize, Refused, ReadPastEnd, Usable, tagVars,
     bodyVars, BoundaryPart, OnBoundary, BodyAccount, TagEnd, CursorInv
<1>3. CASE ReadTag
  <2>1. ~eof /\ Usable => NextTag \in Tags
    BY <1>e, <1>t DEF NextTag, Usable, BoundaryPart, OnBoundary, CursorInv, States
  <2>. QED
    BY <1>3, <2>1, <1>t, <1>f DEF ReadTag, Refused, ReadPastEnd, Available,
       tagVars, bodyVars, BoundaryPart, OnBoundary, BodyAccount, TagEnd, CursorInv
<1>4. CASE ReadAudioTag
  BY <1>4, <1>e, <1>f DEF ReadAudioTag, NotInBody, EmptyBody, BodyMissing,
     HasBody, InBody, Refused, ReadPastEnd, Undecoded, BodyUsable, StateWith,
     tagVars, bodyVars, BoundaryPart, OnBoundary, BodyAccount, TagEnd, CursorInv
<1>5. CASE ReadVideoTag
  <2>1. CASE NotInBody \/ EmptyBody \/ BodyMissing
    BY <1>5, <2>1 DEF ReadVideoTag, Undecoded, BodyUsable, NotInBody, EmptyBody,
       BodyMissing, InBody, Refused, ReadPastEnd, tagVars, bodyVars, BoundaryPart,
       OnBoundary, BodyAccount, TagEnd, CursorInv
  <2>2. CASE HasBody
    <3>1. DEFINE left == bodyLength - 1
                 got == Got(pos + 1, FourccSize, left)
    <3>2. /\ left \in Nat /\ pos + 1 \in Nat /\ file \in Files
          /\ pos + bodyLength = TagEnd /\ state = "TAG_BODY"
      BY <1>5, <2>2 DEF ReadVideoTag, HasBody, InBody, Undecoded, BodyUsable,
         BoundaryPart, BodyAccount, CursorInv
    <3>3. got \in Nat /\ got <= left
      BY <3>2, GotBounds
    <3>. HIDE DEF got
    <3>4. /\ tagOffset' = tagOffset /\ tagLength' = tagLength
          /\ \/ pos' = pos + 1 /\ bodyLength' = left
             \/ pos' = pos + 1 + got /\ bodyLength' = left - got
          /\ state' = StateWith(bodyLength')
      BY <1>5, <2>2 DEF ReadVideoTag, HasBody, NotInBody, EmptyBody, BodyMissing,
         InBody, got, tagVars, bodyVars
    <3>. QED
      BY <3>2, <3>3, <3>4, <1>e DEF StateWith, BoundaryPart, OnBoundary, TagEnd,
         CursorInv
  <2>. QED  BY <1>5, <2>1, <2>2 DEF ReadVideoTag
<1>6. CASE ReadMetadata
  <2>1. CASE ~(InBody /\ bodyLength > 0 /\ AmfAvailable(pos) /\ AmfAt(pos).ok)
    <3>1. AmfAvailable(pos) => AmfAt(pos).size \in Nat
      BY <1>f DEF AmfAvailable, CursorInv
    <3>2. \/ NotInBody
          \/ EmptyBody
          \/ /\ InBody /\ ReadPastEnd(pos)
             /\ UNCHANGED <<file, state, tagVars, bodyVars>>
          \/ /\ InBody /\ result' = "INVALID_METADATA_NAME"
             /\ UNCHANGED <<file, eof, state, tagVars, bodyVars>>
      BY <1>6, <2>1, <3>1 DEF ReadMetadata, CursorInv
    <3>3. /\ result = "OK" /\ state' = state /\ tagOffset' = tagOffset
          /\ tagLength' = tagLength /\ result' # "OK"
      BY <1>6, <3>2 DEF ReadMetadata, Undecoded, BodyUsable, NotInBody, EmptyBody,
         Refused, ReadPastEnd, tagVars
    <3>4. state = "TAG_BODY" \/ (eof' = eof /\ pos' = pos)
      BY <3>2, Zenon DEF NotInBody, EmptyBody, InBody, Refused
    <3>. QED
      BY <3>3, <3>4 DEF BoundaryPart, OnBoundary
  <2>2. CASE InBody /\ bodyLength > 0 /\ AmfAvailable(pos) /\ AmfAt(pos).ok
    <3>. DEFINE name == AmfAt(pos)
                at == pos + name.used
                data == AmfAt(at)
    <3>1. /\ state = "TAG_BODY" /\ ~eof
          /\ pos = tagOffset + TagSize /\ bodyLength = LengthAt(tagOffset)
          /\ pos \in 0 .. Size /\ at \in 0 .. Size /\ tagOffset \in Tags
      BY <1>6, <2>2, <1>e, <1>f DEF ReadMetadata, InBody, Undecoded, AmfAvailable,
         Available, CursorInv
    <3>2. /\ name.used = name.size /\ name.size < bodyLength
          /\ AmfAvailable(at) /\ data.ok => data.used = data.size
      <4>1. pos + 1 <= Size
        BY <3>1, <1>f DEF CursorInv
      <4>. QED
        BY <2>2, <3>1, <4>1, FitFacts DEF CursorInv
    <3>3. /\ name.used \in Nat \ {0} /\ name.size \in Nat
          /\ data.used \in Nat \ {0} /\ data.size \in Nat
      BY <3>1, <1>f
    <3>. QED
      BY <1>6, <2>2, <3>1, <3>2, <3>3, <1>e DEF ReadMetadata, NotInBody, EmptyBody,
         ReadPastEnd, Remaining, Overflow, Greater, StateWith, tagVars, bodyVars,
         BoundaryPart, OnBoundary, BodyAccount, TagEnd, CursorInv
  <2>. QED
    BY <2>1, <2>2 DEF CursorInv
<1>7. CASE \E n \in BufferSizes : ReadTagBody(n)
  <2>. PICK n \in BufferSizes : ReadTagBody(n)
    BY <1>7
  <2>1. n \in Nat /\ pos \in Nat /\ bodyLength \in Nat /\ file \in Files
    BY DEF CursorInv
  <2>2. /\ Got(pos, n, bodyLength) \in Nat
        /\ Got(pos, n, bodyLength) <= bodyLength
    BY ONLY <2>1, GotBounds
  <2>3. CASE ~InBody
    BY <2>3 DEF ReadTagBody, InBody, BodyUsable, tagVars, bodyVars, BoundaryPart,
       OnBoundary, BodyAccount, TagEnd, CursorInv
  <2>4. CASE InBody
    <3>. DEFINE got == Got(pos, n, bodyLength)
    <3>1. /\ tagOffset' = tagOffset /\ tagLength' = tagLength
          /\ pos' = pos + got /\ bodyLength' = bodyLength - got
          /\ state' = StateWith(bodyLength') /\ result = "OK" /\ state = "TAG_BODY"
      BY <2>4 DEF ReadTagBody, BodyUsable, InBody, tagVars
    <3>. QED
      BY <2>1, <2>2, <3>1, <1>e DEF StateWith, BoundaryPart, OnBoundary,
         BodyAccount, TagEnd, CursorInv
  <2>. QED  BY <2>3, <2>4
<1>8. CASE Reset
  BY <1>8 DEF Reset
<1>9. CASE Close
  BY <1>9 DEF Close
<1>10. CASE UNCHANGED vars
  BY <1>10 DEF vars, BoundaryPart, OnBoundary, BodyAccount, TagEnd
<1>. QED
  BY <1>1, <1>2, <1>3, <1>4, <1>5, <1>6, <1>7, <1>8, <1>9, <1>10 DEF Next

(* In a file whose metadata tags fit their bodies the stream never loses   *)
(* the tags and accounts for every byte of a body, whatever is read,       *)
(* refused, found invalid or skipped, and however often it is rewound.     *)
FitInv == StreamInv /\ (MetadataFits(Contents[file]) => BoundaryPart)
THEOREM Boundaries == Spec => []BoundariesKept
<1>1. Init => FitInv
  BY StreamInit, BoundaryInit DEF FitInv
<1>2. FitInv /\ [Next]_vars => FitInv'
  <2>. SUFFICES ASSUME FitInv, [Next]_vars PROVE FitInv'
    OBVIOUS
  <2>1. StreamInv' /\ CursorInv
    BY StreamStep, StreamInvParts DEF FitInv
  <2>2. MetadataFits(Contents[file]) => BoundaryPart'
    BY <2>1, BoundaryStep DEF FitInv
  <2>3. MetadataFits(Contents[file])' = MetadataFits(Contents[file])
    BY FileKept DEF MetadataFits
  <2>. QED
    BY <2>1, <2>2, <2>3 DEF FitInv
<1>3. FitInv => BoundariesKept
  BY DEF FitInv, BoundaryPart, BoundariesKept
<1>. QED  BY <1>1, <1>2, <1>3, PTL DEF Spec
=============================================================================
