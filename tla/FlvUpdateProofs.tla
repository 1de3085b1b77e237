-------------------------- MODULE FlvUpdateProofs --------------------------
(* Theorems about FlvUpdate.                                               *)
EXTENDS FlvUpdate, SequenceTheorems, WellFoundedInduction, TLAPS

USE UpdateSizes

LEMMA TsRangePositive == TsRange \in Nat \ {0}
  <1>1. ExtRange \in Nat /\ ExtCount \in Nat /\ ExtRange > 0 /\ ExtCount > 0
    OBVIOUS
  <1> HIDE UpdateSizes
  <1>2. ExtRange * ExtCount \in Nat /\ ExtRange * ExtCount > 0
    BY <1>1
  <1> QED BY <1>2 DEF TsRange

LEMMA ModRange ==
  ASSUME NEW a \in Int, NEW n \in Nat \ {0}
  PROVE  a % n \in 0 .. n - 1
  OBVIOUS

LEMMA AppendType ==
  ASSUME NEW S, NEW s \in Seq(S), NEW e \in S
  PROVE  /\ Append(s, e) \in Seq(S)
         /\ Len(Append(s, e)) = Len(s) + 1
         /\ Append(s, e)[Len(s) + 1] = e
         /\ \A k \in 1 .. Len(s) : Append(s, e)[k] = s[k]
  OBVIOUS

LEMMA EmptyType == ASSUME NEW S PROVE <<>> \in Seq(S)
  OBVIOUS

LEMMA SingletonType ==
  ASSUME NEW S, NEW e \in S
  PROVE  <<>> \in Seq(S) /\ <<e>> \in Seq(S)
  OBVIOUS

LEMMA Naturals ==
  ASSUME TypeOK
  PROVE  /\ prevTagsSize \in Nat /\ videoSize \in Nat /\ audioSize \in Nat
         /\ metaSize \in Nat /\ onMetaSize \in Nat /\ onMetaOffset \in Nat
         /\ bodySize \in Nat /\ filesize \in Nat /\ datasize \in Nat /\ outSize \in Nat
  BY Zenon DEF TypeOK

LEMMA InputFacts ==
  ASSUME input \in Inputs
  PROVE  /\ Len(input.tags) \in Nat
         /\ DOMAIN input.tags = 1 .. Len(input.tags)
         /\ input.pos \in [1 .. Len(input.tags) + 1 -> Nat]
         /\ input.pos[1] = HeaderSize + PrevTagSize
         /\ \A k \in 1 .. Len(input.tags) : IsTag(input.tags[k])
         /\ \A j, k \in 1 .. Len(input.tags) + 1 : j < k => input.pos[j] < input.pos[k]
         /\ \A k \in 1 .. Len(input.tags) :
              input.pos[k + 1] = input.pos[k] + Room(input.tags[k].body)
  <1>1. IsInput(input)
    BY UpdateInputs
  <1> DEFINE Elements == {input.tags[k] : k \in DOMAIN input.tags}
  <1>a. input.tags \in Seq(Elements)
    BY <1>1 DEF IsInput
  <1> HIDE DEF Elements
  <1>2. Len(input.tags) \in Nat /\ DOMAIN input.tags = 1 .. Len(input.tags)
    BY <1>a
  <1>4. \A k \in 1 .. Len(input.tags) : IsTag(input.tags[k])
    BY <1>1, <1>2 DEF IsInput
  <1>3. \A k \in 1 .. Len(input.tags) : input.tags[k].body \in Nat
    BY <1>4 DEF IsTag
  <1>6. /\ input.pos \in [1 .. Len(input.tags) + 1 -> Nat]
        /\ input.pos[1] = HeaderSize + PrevTagSize
    BY <1>1 DEF IsInput
  <1>5. \A k \in 1 .. Len(input.tags) :
          input.pos[k + 1] = input.pos[k] + Room(input.tags[k].body)
    <2> TAKE k \in 1 .. Len(input.tags)
    <2>1. input.pos[k + 1] = input.pos[k] + TagSize + input.tags[k].body + PrevTagSize
      <3>1. \A n \in DOMAIN input.tags :
              input.pos[n + 1] = input.pos[n] + TagSize + input.tags[n].body + PrevTagSize
        BY <1>1 DEF IsInput
      <3> QED BY <1>2, <3>1
    <2>2. input.pos[k] \in Nat /\ input.tags[k].body \in Nat
      <3>1. k \in 1 .. Len(input.tags) + 1
        BY <1>2
      <3>2. input.pos[k] \in Nat
        BY <1>6, <3>1, Zenon
      <3> QED BY <1>3, <3>2
    <2> DEFINE p == input.pos[k]
               body == input.tags[k].body
    <2>3. p + TagSize + body + PrevTagSize = p + (TagSize + body + PrevTagSize)
      <3> HIDE DEF p, body
      <3>1. p \in Nat /\ body \in Nat
        BY <2>2 DEF p, body
      <3> QED BY <3>1
    <2> QED BY <2>1, <2>3 DEF Room
  <1>7. \A j, k \in 1 .. Len(input.tags) + 1 : j < k => input.pos[j] < input.pos[k]
    BY <1>1 DEF IsInput
  <1> QED BY <1>2, <1>4, <1>5, <1>6, <1>7

LEMMA TickType ==
  ASSUME NEW c \in Clocks, NEW tag, IsTag(tag)
  PROVE  Tick(c, tag) \in Clocks
  <1>1. CASE tag.type \notin Media
    BY <1>1 DEF Tick
  <1>2. CASE tag.type \in Media
    <2> DEFINE ext == IF Wraps(c[tag.type], tag.time)
                      THEN (c[tag.type].ext + 1) % ExtCount ELSE c[tag.type].ext
    <2>1. c[tag.type].ext \in 0 .. ExtCount - 1
      BY <1>2 DEF Clocks
    <2>a. (c[tag.type].ext + 1) % ExtCount \in 0 .. ExtCount - 1
      <3> DEFINE n == c[tag.type].ext + 1
      <3>1. n \in Int
        BY <2>1
      <3> HIDE DEF n
      <3>2. n % ExtCount \in 0 .. ExtCount - 1
        BY <3>1, ModRange
      <3> QED BY <3>2 DEF n
    <2>2. ext \in 0 .. ExtCount - 1
      <3>1. CASE Wraps(c[tag.type], tag.time)
        BY <3>1, <2>a
      <3>2. CASE ~Wraps(c[tag.type], tag.time)
        BY <3>2, <2>1
      <3> QED BY <3>1, <3>2
    <2>3. tag.time \in 0 .. TsRange - 1
      BY DEF IsTag
    <2>4. [prev |-> tag.time, ext |-> ext] \in [prev : 0 .. TsRange - 1, ext : 0 .. ExtCount - 1]
      BY <2>2, <2>3
    <2> HIDE DEF ext
    <2>5. [c EXCEPT ![tag.type] = [prev |-> tag.time, ext |-> ext]] \in Clocks
      BY <2>4 DEF Clocks
    <2> QED BY <1>2, <2>5 DEF Tick, ext
  <1> QED BY <1>1, <1>2

LEMMA RecoveredType ==
  ASSUME NEW c \in Clocks, NEW tag, IsTag(tag)
  PROVE  Recovered(c, tag) \in 0 .. TsRange - 1
  <1>1. tag.time \in 0 .. TsRange - 1
    BY DEF IsTag
  <1>2. CASE tag.type \in Media
    <2>1. Tick(c, tag)[tag.type].ext \in Int
      BY TickType, <1>2 DEF Clocks
    <2>2. Tick(c, tag)[tag.type].ext * ExtRange \in Int
      BY <2>1
    <2>3. tag.time + Tick(c, tag)[tag.type].ext * ExtRange \in Int
      BY <2>2, <1>1, TsRangePositive
    <2> QED BY <2>3, <1>2, ModRange, TsRangePositive DEF Recovered
  <1> QED BY <1>1, <1>2 DEF Recovered

LEMMA RebasedType ==
  ASSUME NEW time \in 0 .. TsRange - 1, NEW first \in 0 .. TsRange - 1
  PROVE  Rebased(time, first) \in 0 .. TsRange - 1
  <1>1. (time - first) % TsRange \in 0 .. TsRange - 1
    BY ModRange, TsRangePositive
  <1> QED BY <1>1 DEF Rebased

LEMMA ReadingFacts ==
  ASSUME TypeOK, NEW phase, Reading(phase)
  PROVE  /\ i \in 1 .. Len(input.tags) /\ i + 1 \in 1 .. Len(input.tags) + 1
         /\ IsTag(Tag) /\ Offset \in Nat
         /\ Tag.body \in Nat /\ Tag.body \in 0 .. LengthRange - 1 /\ Tag.there \in 0 .. Tag.body
         /\ Tag.type \in Media \union {"OTHER"}
         /\ input.pos[i + 1] = Offset + Room(Tag.body)
  <1>1. input \in Inputs /\ i \in 1 .. Len(input.tags) + 1
    BY DEF TypeOK
  <1>2. i \in 1 .. Len(input.tags) /\ i + 1 \in 1 .. Len(input.tags) + 1
    BY <1>1, InputFacts DEF Reading
  <1>3. IsTag(Tag) /\ Offset \in Nat /\ input.pos[i + 1] = Offset + Room(Tag.body)
    BY <1>1, <1>2, InputFacts DEF Tag, Offset
  <1> QED BY <1>2, <1>3 DEF IsTag

LEMMA TimeTypes ==
  ASSUME TypeOK, NEW phase, Reading(phase)
  PROVE  /\ Tick(clock, Tag) \in Clocks
         /\ Recovered(clock, Tag) \in 0 .. TsRange - 1
         /\ First \in 0 .. TsRange - 1
         /\ ScanTime \in 0 .. TsRange - 1
         /\ CopyTime \in 0 .. TsRange - 1
  <1>1. clock \in Clocks /\ firstTime \in 0 .. TsRange - 1 /\ IsTag(Tag)
    BY ReadingFacts DEF TypeOK
  <1>2. Tick(clock, Tag) \in Clocks /\ Recovered(clock, Tag) \in 0 .. TsRange - 1
    BY <1>1, TickType, RecoveredType
  <1>3. First \in 0 .. TsRange - 1
    BY <1>1, <1>2 DEF First
  <1> QED BY <1>1, <1>2, <1>3, RebasedType DEF ScanTime, CopyTime

(* What every step of the first pass preserves of the types.               *)
ScanTypes ==
  /\ input \in Inputs /\ opts \in Options
  /\ haveFirst \in BOOLEAN /\ inserted \in BOOLEAN
  /\ biggest \in 0 .. LengthRange - 1
  /\ firstTime \in 0 .. TsRange - 1 /\ lastTime \in 0 .. TsRange - 1
  /\ clock \in Clocks
  /\ seen \in Seq([time : 0 .. TsRange - 1, clock : Clocks])
  /\ bodySize \in Nat /\ filesize \in Nat /\ datasize \in Nat
  /\ filepositions \in Seq(Int)
  /\ out \in Seq(Entries) /\ outSize \in Nat

LEMMA ScanTagTypes ==
  ASSUME TypeOK, ScanTag
  PROVE  ScanTypes'
  <1>1. Reading("SCAN")
    BY DEF ScanTag
  <1>2. clock' \in Clocks /\ firstTime' \in 0 .. TsRange - 1
    BY <1>1, TimeTypes DEF ScanTag
  <1>3. biggest' \in 0 .. LengthRange - 1
    BY <1>1, ReadingFacts DEF ScanTag, TypeOK, Greater
  <1>4. lastTime' \in 0 .. TsRange - 1
    BY <1>1, TimeTypes DEF ScanTag, TypeOK
  <1>5. seen' \in Seq([time : 0 .. TsRange - 1, clock : Clocks])
    <2>1. [time |-> ScanTime, clock |-> clock'] \in [time : 0 .. TsRange - 1, clock : Clocks]
      BY <1>1, <1>2, TimeTypes
    <2> QED BY <2>1 DEF ScanTag, TypeOK
  <1>6. haveFirst' \in BOOLEAN
    BY Zenon DEF ScanTag, TypeOK
  <1>7. UNCHANGED <<input, opts, metaVars, outVars>>
    BY DEF ScanTag
  <1>8. inserted' \in BOOLEAN /\ input' \in Inputs /\ opts' \in Options
    BY <1>7, Zenon DEF TypeOK, outVars
  <1> QED BY <1>2, <1>3, <1>4, <1>5, <1>6, <1>7, <1>8
          DEF ScanTypes, TypeOK, metaVars, outVars

ControlTypes ==
  /\ pc \in {"OPEN", "SCAN", "WRITE", "COPY", "DONE"}
  /\ i \in 1 .. Len(input.tags) + 1
  /\ result \in {"OK", "ERROR_NO_FLV", "ERROR_EOF", "ERROR_INVALID_TAG", "ERROR_WRITE"}
CountTypes ==
  /\ prevTagsSize \in Nat /\ videoSize \in Nat /\ audioSize \in Nat
  /\ metaSize \in Nat /\ onMetaSize \in Nat /\ onMetaOffset \in Nat
  /\ haveLast \in BOOLEAN
  /\ keyframes \in Seq([time : 0 .. TsRange - 1, offset : Nat])

LEMMA TypeParts == TypeOK <=> ScanTypes /\ ControlTypes /\ CountTypes
  BY Zenon DEF TypeOK, ScanTypes, ControlTypes, CountTypes

LEMMA TypePartsNext == TypeOK' <=> ScanTypes' /\ ControlTypes' /\ CountTypes'
  BY Zenon DEF TypeOK, ScanTypes, ControlTypes, CountTypes

LEMMA ContinueTypes ==
  ASSUME TypeOK, NEW phase, Reading(phase), Continue, UNCHANGED input
  PROVE  ControlTypes'
  <1>1. i' \in 1 .. Len(input'.tags) + 1
    BY ReadingFacts DEF Continue
  <1> QED BY <1>1 DEF Continue, ControlTypes, TypeOK

LEMMA StopTypes ==
  ASSUME TypeOK, NEW error, Stop(error), UNCHANGED input,
         error \in {"OK", "ERROR_NO_FLV", "ERROR_EOF", "ERROR_INVALID_TAG", "ERROR_WRITE"}
  PROVE  ControlTypes'
  BY DEF Stop, ControlTypes, TypeOK

LEMMA ScanMetaTypes ==
  ASSUME TypeOK, ScanMeta
  PROVE  TypeOK'
  <1>1. Reading("SCAN") /\ ScanTag /\ UNCHANGED <<videoSize, audioSize, keyframes>>
    BY DEF ScanMeta
  <1>2. UNCHANGED input
    BY <1>1 DEF ScanTag
  <1>3. ScanTypes'
    BY <1>1, ScanTagTypes
  <1>4. Stop("ERROR_EOF") \/ Stop("ERROR_INVALID_TAG") \/ Continue
    BY DEF ScanMeta
  <1>5. ControlTypes'
    BY <1>1, <1>2, <1>4, ContinueTypes, StopTypes
  <1>6. haveLast' \in BOOLEAN
    <2>1. haveLast' = haveLast \/ haveLast' = (haveLast \/ Named(Tag, "onLastSecond"))
      BY Zenon DEF ScanMeta
    <2> QED BY <2>1, Zenon DEF TypeOK
  <1>7. Tag.body \in Nat /\ Offset \in Nat
    BY <1>1, ReadingFacts
  <1>8. /\ metaSize' \in Nat /\ prevTagsSize' \in Nat
        /\ onMetaSize' \in Nat /\ onMetaOffset' \in Nat
    <2>1. CASE UNCHANGED <<metaSize, prevTagsSize, onMetaSize, onMetaOffset, haveLast>>
      BY <2>1 DEF TypeOK
    <2>2. CASE /\ onMetaSize' = TagSize + Tag.body + PrevTagSize
               /\ onMetaOffset' = Offset
               /\ UNCHANGED <<metaSize, prevTagsSize, haveLast>>
      BY SMTT(30), <2>2, <1>7 DEF TypeOK
    <2>3. CASE /\ metaSize' = metaSize + Tag.body + TagSize
               /\ prevTagsSize' = prevTagsSize + PrevTagSize
               /\ UNCHANGED <<onMetaSize, onMetaOffset>>
      BY SMTT(30), <2>3, <1>7 DEF TypeOK
    <2> QED BY <2>1, <2>2, <2>3, Zenon DEF ScanMeta
  <1>9. CountTypes'
    BY <1>1, <1>6, <1>8, Zenon DEF CountTypes, TypeOK
  <1> QED BY <1>3, <1>5, <1>9, TypePartsNext

LEMMA ScanVideoTypes ==
  ASSUME TypeOK, ScanVideo
  PROVE  TypeOK'
  <1>1. /\ Reading("SCAN") /\ ScanTag
        /\ UNCHANGED <<audioSize, metaSize, onMetaSize, onMetaOffset, haveLast>>
    BY DEF ScanVideo
  <1>2. UNCHANGED input
    BY <1>1 DEF ScanTag
  <1>3. ScanTypes'
    BY <1>1, ScanTagTypes
  <1>4. Stop("ERROR_EOF") \/ Continue
    BY DEF ScanVideo
  <1>5. ControlTypes'
    BY <1>1, <1>2, <1>4, ContinueTypes, StopTypes
  <1>6. Tag.body \in Nat
    BY <1>1, ReadingFacts
  <1>7. videoSize' \in Nat /\ prevTagsSize' \in Nat
    <2>1. CASE UNCHANGED <<videoSize, prevTagsSize>>
      BY <2>1 DEF TypeOK
    <2>2. CASE /\ videoSize' = videoSize + Tag.body + TagSize
               /\ prevTagsSize' = prevTagsSize + PrevTagSize
      BY SMTT(30), <2>2, <1>6 DEF TypeOK
    <2> QED BY <2>1, <2>2, Zenon DEF ScanVideo
  <1>8. keyframes' \in Seq([time : 0 .. TsRange - 1, offset : Nat])
    <2>1. [time |-> ScanTime, offset |-> Offset] \in [time : 0 .. TsRange - 1, offset : Nat]
      BY <1>1, ReadingFacts, TimeTypes
    <2>2. keyframes' = keyframes \/ keyframes' = Append(keyframes, [time |-> ScanTime, offset |-> Offset])
      BY DEF ScanVideo
    <2> DEFINE Listing == [time : 0 .. TsRange - 1, offset : Nat]
    <2>3. keyframes \in Seq(Listing)
      BY DEF TypeOK
    <2> HIDE DEF Listing
    <2>4. keyframes' \in Seq(Listing)
      <3>1. [time |-> ScanTime, offset |-> Offset] \in Listing
        BY <2>1 DEF Listing
      <3> QED BY <2>2, <2>3, <3>1, AppendType
    <2> QED BY <2>4 DEF Listing
  <1>9. CountTypes'
    BY <1>1, <1>7, <1>8 DEF CountTypes, TypeOK
  <1> QED BY <1>3, <1>5, <1>9, TypePartsNext

LEMMA ScanAudioTypes ==
  ASSUME TypeOK, ScanAudio
  PROVE  TypeOK'
  <1>1. /\ Reading("SCAN") /\ ScanTag
        /\ UNCHANGED <<videoSize, metaSize, onMetaSize, onMetaOffset, haveLast, keyframes>>
    BY DEF ScanAudio
  <1>2. UNCHANGED input
    BY <1>1 DEF ScanTag
  <1>3. ScanTypes'
    BY <1>1, ScanTagTypes
  <1>4. Stop("ERROR_EOF") \/ Continue
    BY DEF ScanAudio
  <1>5. ControlTypes'
    BY <1>1, <1>2, <1>4, ContinueTypes, StopTypes
  <1>6. Tag.body \in Nat
    BY <1>1, ReadingFacts
  <1>7. audioSize' \in Nat /\ prevTagsSize' \in Nat
    <2>1. CASE UNCHANGED <<audioSize, prevTagsSize>>
      BY <2>1 DEF TypeOK
    <2>2. CASE /\ audioSize' = audioSize + Tag.body + TagSize
               /\ prevTagsSize' = prevTagsSize + PrevTagSize
      BY SMTT(30), <2>2, <1>6 DEF TypeOK
    <2> QED BY <2>1, <2>2, Zenon DEF ScanAudio
  <1>8. CountTypes'
    BY <1>1, <1>7 DEF CountTypes, TypeOK
  <1> QED BY <1>3, <1>5, <1>8, TypePartsNext

LEMMA ScanOtherTypes ==
  ASSUME TypeOK, ScanOther
  PROVE  TypeOK'
  <1>1. /\ Reading("SCAN") /\ ScanTag
        /\ UNCHANGED <<videoSize, audioSize, metaSize, onMetaSize, onMetaOffset,
                       haveLast, keyframes>>
    BY DEF ScanOther
  <1>2. UNCHANGED input
    BY <1>1 DEF ScanTag
  <1>3. ScanTypes'
    BY <1>1, ScanTagTypes
  <1>4. Stop("ERROR_INVALID_TAG") \/ Continue
    BY DEF ScanOther
  <1>5. ControlTypes'
    BY <1>1, <1>2, <1>4, ContinueTypes, StopTypes
  <1>6. prevTagsSize' \in Nat
    BY DEF ScanOther, TypeOK
  <1>7. CountTypes'
    BY <1>1, <1>6 DEF CountTypes, TypeOK
  <1> QED BY <1>3, <1>5, <1>7, TypePartsNext

LEMMA ReadHeaderTypes ==
  ASSUME TypeOK, ReadHeader
  PROVE  TypeOK'
  <1>1. UNCHANGED <<input, opts, i, videoSize, audioSize, metaSize, onMetaSize,
                    onMetaOffset, haveLast, keyframes, biggest, firstTime,
                    haveFirst, lastTime, seen, clock, metaVars, outVars>>
    BY DEF ReadHeader
  <1>2. ScanTypes'
    BY <1>1, TypeParts, Zenon DEF ScanTypes, metaVars, outVars
  <1>3. ControlTypes'
    BY DEF ReadHeader, ControlTypes, TypeOK
  <1>4. prevTagsSize' \in Nat
    BY DEF ReadHeader, TypeOK
  <1>5. CountTypes'
    BY <1>1, <1>4, TypeParts, Zenon DEF CountTypes
  <1> QED BY <1>2, <1>3, <1>5, TypePartsNext

LEMMA RoomType == ASSUME NEW n \in Nat PROVE Room(n) \in Nat
  BY DEF Room

LEMMA ComputeTypes ==
  ASSUME TypeOK, Compute
  PROVE  TypeOK'
  <1>1. UNCHANGED <<input, opts, i, result, clock, infoVars, outVars>>
    BY DEF Compute
  <1>2. bodySize' \in Nat
    <2>1. PICK size \in MetaSizes : bodySize' = size + KeyframeSize * Len(keyframes)
      BY DEF Compute
    <2>2. Len(keyframes) \in Nat
      BY DEF TypeOK
    <2>3. KeyframeSize * Len(keyframes) \in Nat
      BY <2>2
    <2> QED BY <2>1, <2>3
  <1>3. Room(bodySize') \in Nat /\ Room(LastBody) \in Nat
    BY <1>2, RoomType
  <1>4. filesize' \in Nat
    <2>1. filesize' = FileSize(bodySize')
      BY DEF Compute
    <2>2. \A body \in Nat : FileSize(body) \in Nat
      BY Naturals, RoomType DEF FileSize
    <2> QED BY <2>1, <2>2, <1>2
  <1>5. datasize' \in Nat
    <2>1. datasize' = DataSize(bodySize')
      BY DEF Compute
    <2>2. metaSize \in Nat
      BY Naturals
    <2>3. \A body \in Nat : DataSize(body) \in Nat
      BY <2>2 DEF DataSize
    <2> QED BY <2>1, <2>3, <1>2
  <1>6. filepositions' \in Seq(Int)
    <2>1. filepositions' = [k \in DOMAIN keyframes |-> NewPosition(keyframes[k], bodySize')]
      BY DEF Compute
    <2> DEFINE Listing == [time : 0 .. TsRange - 1, offset : Nat]
    <2>2. keyframes \in Seq(Listing)
      BY DEF TypeOK
    <2>3. \A kf \in Listing : kf.offset \in Nat
      OBVIOUS
    <2> HIDE DEF Listing
    <2>4. DOMAIN keyframes = 1 .. Len(keyframes) /\ Len(keyframes) \in Nat
      BY <2>2
    <2>a. ASSUME NEW k \in 1 .. Len(keyframes)
          PROVE  NewPosition(keyframes[k], bodySize') \in Int
      <3>1. keyframes[k] \in Listing
        BY <2>2
      <3>2. keyframes[k].offset \in Nat
        BY <3>1, <2>3
      <3>3. onMetaSize \in Nat
        BY DEF TypeOK
      <3> QED BY <3>2, <3>3, <1>3 DEF NewPosition
    <2> DEFINE F(k) == NewPosition(keyframes[k], bodySize')
    <2> HIDE DEF F
    <2>5. \A k \in 1 .. Len(keyframes) : F(k) \in Int
      BY <2>a DEF F
    <2>6. [k \in 1 .. Len(keyframes) |-> F(k)] \in Seq(Int)
      BY <2>4, <2>5
    <2> QED BY <2>1, <2>4, <2>6 DEF F
  <1>7. ScanTypes'
    BY <1>1, <1>2, <1>4, <1>5, <1>6, TypeParts, Zenon DEF ScanTypes, infoVars, outVars
  <1>8. ControlTypes'
    BY <1>1 DEF Compute, ControlTypes, TypeOK
  <1>9. CountTypes'
    BY <1>1, TypeParts, Zenon DEF CountTypes, infoVars, scanVars
  <1> QED BY <1>7, <1>8, <1>9, TypePartsNext

LEMMA EntryType ==
  ASSUME NEW kind \in {"ON_METADATA", "ON_LAST_SECOND", "COPY"}, NEW index \in Nat,
         NEW at \in Nat, NEW length \in Nat, NEW bytes \in Nat,
         NEW time \in 0 .. TsRange - 1
  PROVE  Entry(kind, index, at, length, bytes, time) \in Entries
  BY DEF Entry, Entries

LEMMA NewMetaDataType ==
  ASSUME NEW at \in Nat, TypeOK
  PROVE  NewMetaData(at) \in Entries
  <1>1. bodySize \in Nat /\ bodySize % LengthRange \in Nat
    BY ModRange DEF TypeOK
  <1>2. 0 \in 0 .. TsRange - 1
    BY TsRangePositive
  <1> QED BY <1>1, <1>2, EntryType DEF NewMetaData

LEMMA WriteHeaderTypes ==
  ASSUME TypeOK, WriteHeader
  PROVE  TypeOK'
  <1>1. UNCHANGED <<input, opts, result, infoVars, metaVars, inserted>>
    BY DEF WriteHeader
  <1>2. Room(bodySize) \in Nat /\ HeaderSize + PrevTagSize \in Nat
    BY RoomType, Naturals
  <1>3. out' \in Seq(Entries)
    <2>1. NewMetaData(HeaderSize + PrevTagSize) \in Entries
      BY <1>2, NewMetaDataType
    <2>2. out' = <<>> \/ out' = <<NewMetaData(HeaderSize + PrevTagSize)>>
      BY DEF WriteHeader
    <2> QED BY <2>1, <2>2, SingletonType
  <1>4. outSize' \in Nat
    BY <1>2 DEF WriteHeader
  <1>5. clock' \in Clocks
    <2>1. 0 \in 0 .. TsRange - 1 /\ 0 \in 0 .. ExtCount - 1
      BY TsRangePositive
    <2> QED BY <2>1 DEF WriteHeader, ResetClock, Clocks
  <1>6. ScanTypes'
    BY <1>1, <1>3, <1>4, <1>5, TypeParts, Zenon DEF ScanTypes, infoVars, metaVars
  <1>7. ControlTypes'
    BY <1>1, InputFacts DEF WriteHeader, ControlTypes, TypeOK
  <1>8. CountTypes'
    BY <1>1, TypeParts, Zenon DEF CountTypes, infoVars, scanVars
  <1> QED BY <1>6, <1>7, <1>8, TypePartsNext

LEMMA ReplaceMetaDataTypes ==
  ASSUME TypeOK, ReplaceMetaData
  PROVE  TypeOK'
  <1>1. /\ Reading("COPY") /\ Continue
        /\ UNCHANGED <<input, opts, infoVars, metaVars, inserted>>
    BY DEF ReplaceMetaData
  <1>2. outSize \in Nat /\ Room(bodySize) \in Nat
    BY RoomType, Naturals
  <1>3. out' \in Seq(Entries)
    BY <1>2, NewMetaDataType, AppendType DEF ReplaceMetaData, TypeOK
  <1>4. outSize' \in Nat
    BY <1>2 DEF ReplaceMetaData
  <1>5. clock' \in Clocks
    BY <1>1, TimeTypes DEF ReplaceMetaData
  <1>6. ScanTypes'
    BY <1>1, <1>3, <1>4, <1>5, TypeParts, Zenon DEF ScanTypes, infoVars, metaVars
  <1>7. ControlTypes'
    BY <1>1, ContinueTypes
  <1>8. CountTypes'
    BY <1>1, TypeParts, Zenon DEF CountTypes, infoVars, scanVars
  <1> QED BY <1>6, <1>7, <1>8, TypePartsNext

(* A tag of the second pass: what is written for it, whatever is left out. *)
LEMMA PrecedingTypes ==
  ASSUME TypeOK, Reading("COPY")
  PROVE  /\ CopyAt \in Nat /\ Preceding \in Seq(Entries)
         /\ \A bytes \in Nat :
              Entry("COPY", i, CopyAt, Tag.body, bytes, CopyTime) \in Entries
  <1>1. outSize \in Nat /\ bodySize \in Nat /\ Room(LastBody) \in Nat
    BY Naturals, RoomType
  <1>2. CopyAt \in Nat
    BY <1>1 DEF CopyAt
  <1>3. CopyTime \in 0 .. TsRange - 1
    BY TimeTypes
  <1>4. NewLastSecond(outSize, CopyTime) \in Entries
    <2>1. LastBody % LengthRange \in Nat
      BY ModRange
    <2> QED BY <1>1, <1>3, <2>1, EntryType DEF NewLastSecond
  <1>5. out \in Seq(Entries)
    BY Zenon DEF TypeOK
  <1>6. Preceding \in Seq(Entries)
    BY <1>4, <1>5, AppendType DEF Preceding
  <1>7. i \in Nat /\ Tag.body \in Nat
    BY ReadingFacts
  <1> QED BY <1>2, <1>3, <1>6, <1>7, EntryType

LEMMA CopySteps ==
  ASSUME CopyTag
  PROVE  /\ Reading("COPY") /\ Offset # onMetaOffset
         /\ clock' = Tick(clock, Tag)
         /\ inserted' = (inserted \/ InsertNow)
         /\ UNCHANGED <<input, opts, infoVars, metaVars>>
         /\ \/ /\ Lesser(ToCopy(Tag.body), Tag.there) = ToCopy(Tag.body)
               /\ Put(ToCopy(Tag.body)) /\ Continue
            \/ /\ Lesser(ToCopy(Tag.body), Tag.there) < ToCopy(Tag.body)
               /\ \/ Omit /\ (Stop("ERROR_EOF") \/ Stop("OK"))
                  \/ /\ opts.onError = "IGNORE" /\ Stop("OK")
                     /\ Put(Lesser(ToCopy(Tag.body), Tag.there))
  BY Zenon DEF CopyTag

LEMMA WriteFailsSteps ==
  ASSUME WriteFails
  PROVE  /\ pc \in {"WRITE", "COPY"} /\ Stop("ERROR_WRITE")
         /\ UNCHANGED <<input, opts, clock, infoVars, metaVars, outVars>>
  BY DEF WriteFails, Reading

LEMMA CopyTagTypes ==
  ASSUME TypeOK, CopyTag
  PROVE  TypeOK'
  <1>1. /\ Reading("COPY")
        /\ UNCHANGED <<input, opts, infoVars, metaVars>>
    BY CopySteps
  <1>2. Continue \/ Stop("ERROR_EOF") \/ Stop("OK")
    BY CopySteps
  <1>3. Omit \/ Put(ToCopy(Tag.body)) \/ Put(Lesser(ToCopy(Tag.body), Tag.there))
    BY CopySteps
  <1>4. ToCopy(Tag.body) \in Nat /\ Lesser(ToCopy(Tag.body), Tag.there) \in Nat
    <2>1. biggest \in Nat
      BY DEF TypeOK
    <2>2. Tag.body \in Nat /\ Tag.there \in Nat
      BY <1>1, ReadingFacts
    <2> QED BY <2>1, <2>2 DEF ToCopy, Lesser
  <1>5. out' \in Seq(Entries) /\ outSize' \in Nat
    <2>1. CASE Omit
      BY <1>1, <2>1, PrecedingTypes DEF Omit
    <2>2. ASSUME NEW bytes \in Nat, Put(bytes)
          PROVE  out' \in Seq(Entries) /\ outSize' \in Nat
      <3> DEFINE copy == Entry("COPY", i, CopyAt, Tag.body, bytes, CopyTime)
      <3>1. copy \in Entries /\ Preceding \in Seq(Entries) /\ CopyAt \in Nat
        BY <1>1, PrecedingTypes
      <3>2. out' = Append(Preceding, copy) /\ outSize' = CopyAt + Room(bytes)
        BY <2>2 DEF Put
      <3> HIDE DEF copy
      <3>3. out' \in Seq(Entries)
        BY <3>1, <3>2, AppendType
      <3>4. outSize' \in Nat
        <4>1. outSize' = CopyAt + Room(bytes) /\ Room(bytes) \in Nat
          BY <3>2, RoomType
        <4> QED BY <3>1, <4>1
      <3> QED BY <3>3, <3>4
    <2> QED BY <1>3, <1>4, <2>1, <2>2
  <1>6. clock' \in Clocks
    BY <1>1, CopySteps, TimeTypes
  <1>7. inserted' \in BOOLEAN
    BY CopySteps, Zenon DEF TypeOK
  <1>8. ScanTypes'
    BY <1>1, <1>5, <1>6, <1>7, TypeParts, Zenon DEF ScanTypes, infoVars, metaVars
  <1>9. ControlTypes'
    BY <1>1, <1>2, ContinueTypes, StopTypes
  <1>10. CountTypes'
    BY <1>1, TypeParts, Zenon DEF CountTypes, infoVars, scanVars
  <1> QED BY <1>8, <1>9, <1>10, TypePartsNext

LEMMA EndTypes ==
  ASSUME TypeOK, EndOfCopy \/ WriteFails
  PROVE  TypeOK'
  <1>1. /\ Stop("OK") \/ Stop("ERROR_WRITE")
        /\ UNCHANGED <<input, opts, clock, infoVars, metaVars, outVars>>
    BY DEF EndOfCopy, WriteFails
  <1>2. ScanTypes'
    BY <1>1, TypeParts, Zenon DEF ScanTypes, infoVars, metaVars, outVars
  <1>3. ControlTypes'
    BY <1>1, StopTypes
  <1>4. CountTypes'
    BY <1>1, TypeParts, Zenon DEF CountTypes, infoVars, scanVars
  <1> QED BY <1>2, <1>3, <1>4, TypePartsNext

LEMMA StutterTypes ==
  ASSUME TypeOK, UNCHANGED vars
  PROVE  TypeOK'
  <1>1. ScanTypes'
    BY TypeParts, Zenon DEF ScanTypes, vars, infoVars, metaVars, outVars
  <1>2. ControlTypes'
    BY TypeParts, Zenon DEF ControlTypes, vars
  <1>3. CountTypes'
    BY TypeParts, Zenon DEF CountTypes, vars, infoVars, scanVars
  <1> QED BY <1>1, <1>2, <1>3, TypePartsNext

LEMMA InitTypes == Init => TypeOK
  <1> SUFFICES ASSUME Init PROVE TypeOK
    OBVIOUS
  <1>1. 0 \in 0 .. TsRange - 1 /\ 0 \in 0 .. ExtCount - 1 /\ 0 \in 0 .. LengthRange - 1
    BY TsRangePositive
  <1>2. clock \in Clocks
    BY <1>1 DEF Init, Clocks
  <1>3. ScanTypes
    <2>1. /\ seen = <<>> /\ out = <<>> /\ filepositions = <<>>
          /\ firstTime = 0 /\ lastTime = 0 /\ biggest = 0
          /\ bodySize = 0 /\ filesize = 0 /\ datasize = 0 /\ outSize = 0
      BY DEF Init
    <2>2. /\ input \in Inputs /\ opts \in Options
          /\ haveFirst \in BOOLEAN /\ inserted \in BOOLEAN
      BY DEF Init
    <2>3. /\ seen \in Seq([time : 0 .. TsRange - 1, clock : Clocks])
          /\ filepositions \in Seq(Int) /\ out \in Seq(Entries)
      BY <2>1, EmptyType
    <2>4. /\ bodySize \in Nat /\ filesize \in Nat /\ datasize \in Nat /\ outSize \in Nat
      BY <2>1
    <2>5. /\ firstTime \in 0 .. TsRange - 1 /\ lastTime \in 0 .. TsRange - 1
          /\ biggest \in 0 .. LengthRange - 1
      BY <2>1, <1>1
    <2> QED BY <1>2, <2>2, <2>3, <2>4, <2>5, Zenon DEF ScanTypes
  <1>4. ControlTypes
    BY InputFacts DEF Init, ControlTypes
  <1>5. CountTypes
    <2>1. keyframes = <<>>
      BY DEF Init
    <2>2. keyframes \in Seq([time : 0 .. TsRange - 1, offset : Nat])
      BY <2>1, EmptyType
    <2>3. /\ prevTagsSize \in Nat /\ videoSize \in Nat /\ audioSize \in Nat
          /\ metaSize \in Nat /\ onMetaSize \in Nat /\ onMetaOffset \in Nat
      BY DEF Init
    <2>4. haveLast \in BOOLEAN
      BY DEF Init
    <2> QED BY <2>2, <2>3, <2>4, Zenon DEF CountTypes
  <1> QED BY <1>3, <1>4, <1>5, TypeParts

LEMMA StepTypes == TypeOK /\ [Next]_vars => TypeOK'
  BY ReadHeaderTypes, ScanMetaTypes, ScanVideoTypes, ScanAudioTypes, ScanOtherTypes,
     ComputeTypes, WriteHeaderTypes, ReplaceMetaDataTypes, CopyTagTypes, EndTypes,
     StutterTypes DEF Next

(* Every variable of an update keeps its type: the counters of wrapped     *)
(* timestamps stay within a byte, the timestamps within 32 bits.           *)
THEOREM UpdateTypes == Spec => []TypeOK
  BY InitTypes, StepTypes, PTL DEF Spec

----------------------------------------------------------------------------
(* The sizes the first pass counts.                                        *)
NotScanned == pc # "SCAN" /\ ~Scanned

LEMMA StopFacts ==
  ASSUME NEW error, Stop(error), error # "OK"
  PROVE  NotScanned'
  BY DEF Stop, NotScanned, Scanned, Finished

LEMMA AccountScan ==
  ASSUME TypeOK, AccountInv, Reading("SCAN"), ScanTag, Continue,
         Known(input) => Account' = Account + Room(Tag.body)
  PROVE  AccountInv'
  <1> SUFFICES ASSUME Known(input)'
               PROVE  /\ Account' = input'.pos[i']
                      /\ \A k \in 1 .. i' - 1 : input'.tags[k].body <= biggest'
    BY DEF AccountInv, Scanned, Finished, Continue, Reading
  <1>1. input' = input /\ Known(input)
    BY DEF ScanTag
  <1>2. Account = input.pos[i] /\ \A k \in 1 .. i - 1 : input.tags[k].body <= biggest
    BY <1>1 DEF AccountInv, Reading
  <1>3. i' = i + 1 /\ input.pos[i + 1] = Offset + Room(Tag.body) /\ Offset = input.pos[i]
    BY ReadingFacts DEF Continue, Offset
  <1>4. Account' = input'.pos[i']
    BY <1>1, <1>2, <1>3
  <1>5. Tag.type \in Media
    <2>1. DOMAIN input.tags = 1 .. Len(input.tags) /\ i \in 1 .. Len(input.tags)
      BY InputFacts, ReadingFacts DEF TypeOK
    <2> QED BY <1>1, <2>1 DEF Known, Tag
  <1>6. biggest' = Greater(biggest, Tag.body)
    BY <1>5 DEF ScanTag
  <1>7. biggest \in Nat /\ Tag.body \in Nat /\ i \in Nat
    BY ReadingFacts DEF TypeOK
  <1>8. biggest <= biggest' /\ Tag.body <= biggest' /\ biggest' \in Nat
    BY <1>6, <1>7 DEF Greater
  <1>9. ASSUME NEW k \in 1 .. i
        PROVE  input.tags[k].body <= biggest'
    <2>1. CASE k = i
      BY <2>1, <1>8 DEF Tag
    <2>2. CASE k \in 1 .. i - 1
      <3>1. input.tags[k].body \in Nat
        <4>1. k \in 1 .. Len(input.tags)
          BY <2>2, ReadingFacts, InputFacts DEF TypeOK
        <4>2. IsTag(input.tags[k])
          BY <4>1, InputFacts DEF TypeOK
        <4> QED BY <4>2 DEF IsTag
      <3> QED BY <2>2, <3>1, <1>2, <1>7, <1>8
    <2> QED BY <2>1, <2>2, <1>7
  <1>10. i' - 1 = i
    BY <1>3, <1>7
  <1> QED BY <1>1, <1>4, <1>9, <1>10

LEMMA AccountStep ==
  ASSUME UpdateInv, TypeOK', [Next]_vars
  PROVE  AccountInv'
  <1>0. TypeOK /\ AccountInv /\ ClockInv
    BY DEF UpdateInv
  <1>a. ASSUME NotScanned', pc' # "OPEN" PROVE AccountInv'
    BY <1>a DEF AccountInv, NotScanned
  <1>b. ASSUME NEW error, Stop(error), error # "OK" PROVE AccountInv'
    BY <1>b, <1>a, StopFacts DEF Stop
  <1>c. /\ HeaderSize \in Nat /\ PrevTagSize \in Nat /\ TagSize \in Nat
        /\ prevTagsSize \in Nat /\ videoSize \in Nat /\ audioSize \in Nat
        /\ metaSize \in Nat /\ onMetaSize \in Nat
    BY <1>0, Naturals
  <1>1. CASE ReadHeader
    <2>1. CASE pc' = "DONE" /\ result' # "OK"
      BY <1>a, <2>1 DEF NotScanned, Scanned, Finished
    <2>2. CASE pc' = "SCAN" /\ prevTagsSize' = PrevTagSize
      <3>1. /\ pc = "OPEN" /\ i' = i /\ input' = input
            /\ UNCHANGED <<videoSize, audioSize, metaSize, onMetaSize>>
        BY <1>1 DEF ReadHeader
      <3>2. i' = 1 /\ input'.pos[1] = HeaderSize + PrevTagSize
        BY <3>1, <1>0, InputFacts DEF ClockInv, TypeOK
      <3>3. Known(input)' => Account' = HeaderSize + PrevTagSize
        BY <3>1, <1>0, <1>c, <2>2 DEF AccountInv, Account, Known
      <3> QED BY <3>2, <3>3, <2>2 DEF AccountInv, Scanned, Finished
    <2> QED BY <1>1, <2>1, <2>2 DEF ReadHeader
  <1>2. CASE ScanMeta
    <2>1. Reading("SCAN") /\ ScanTag /\ UNCHANGED <<videoSize, audioSize>>
      BY <1>2 DEF ScanMeta
    <2>2. Stop("ERROR_EOF") \/ Stop("ERROR_INVALID_TAG") \/
          /\ Continue
          /\ \/ /\ onMetaSize = 0 /\ onMetaSize' = TagSize + Tag.body + PrevTagSize
                /\ UNCHANGED <<metaSize, prevTagsSize>>
             \/ /\ metaSize' = metaSize + Tag.body + TagSize
                /\ prevTagsSize' = prevTagsSize + PrevTagSize
                /\ UNCHANGED onMetaSize
      BY <1>2 DEF ScanMeta
    <2>3. CASE Continue
      <3>1. Tag.body \in Nat
        BY <1>0, <2>1, ReadingFacts
      <3>2. \/ Account' = Account + Room(Tag.body)
            \/ Stop("ERROR_EOF") \/ Stop("ERROR_INVALID_TAG")
        BY <1>c, <2>1, <2>2, <3>1 DEF Account, Room
      <3> QED BY <1>0, <1>b, <2>1, <2>3, <3>2, AccountScan
    <2> QED BY <1>b, <2>2, <2>3
  <1>3. CASE ScanVideo
    <2>1. Reading("SCAN") /\ ScanTag /\ UNCHANGED <<audioSize, metaSize, onMetaSize>>
      BY <1>3 DEF ScanVideo
    <2>2. \/ Stop("ERROR_EOF")
          \/ /\ Continue
             /\ videoSize' = videoSize + Tag.body + TagSize
             /\ prevTagsSize' = prevTagsSize + PrevTagSize
      BY <1>3 DEF ScanVideo
    <2>3. Tag.body \in Nat
      BY <1>0, <2>1, ReadingFacts
    <2>4. CASE Stop("ERROR_EOF")
      BY <1>b, <2>4
    <2>5. CASE /\ Continue
               /\ videoSize' = videoSize + Tag.body + TagSize
               /\ prevTagsSize' = prevTagsSize + PrevTagSize
      <3>1. Account' = Account + Room(Tag.body)
        BY <1>c, <2>1, <2>3, <2>5 DEF Account, Room
      <3> QED BY <1>0, <2>1, <2>5, <3>1, AccountScan
    <2> QED BY <2>2, <2>4, <2>5
  <1>4. CASE ScanAudio
    <2>1. Reading("SCAN") /\ ScanTag /\ UNCHANGED <<videoSize, metaSize, onMetaSize>>
      BY <1>4 DEF ScanAudio
    <2>2. \/ Stop("ERROR_EOF")
          \/ /\ Continue
             /\ audioSize' = audioSize + Tag.body + TagSize
             /\ prevTagsSize' = prevTagsSize + PrevTagSize
      BY <1>4 DEF ScanAudio
    <2>3. Tag.body \in Nat
      BY <1>0, <2>1, ReadingFacts
    <2>4. CASE Stop("ERROR_EOF")
      BY <1>b, <2>4
    <2>5. CASE /\ Continue
               /\ audioSize' = audioSize + Tag.body + TagSize
               /\ prevTagsSize' = prevTagsSize + PrevTagSize
      <3>1. Account' = Account + Room(Tag.body)
        BY <1>c, <2>1, <2>3, <2>5 DEF Account, Room
      <3> QED BY <1>0, <2>1, <2>5, <3>1, AccountScan
    <2> QED BY <2>2, <2>4, <2>5
  <1>5. CASE ScanOther
    <2>1. Reading("SCAN") /\ ScanTag /\ Tag.type = "OTHER"
      BY <1>5 DEF ScanOther
    <2>2. Stop("ERROR_INVALID_TAG") \/ Continue
      BY <1>5 DEF ScanOther
    <2>3. ~Known(input)
      <3>1. i \in DOMAIN input.tags
        BY <1>0, <2>1, InputFacts, ReadingFacts DEF TypeOK
      <3> QED BY <2>1, <3>1 DEF Known, Tag, Media
    <2> QED BY <1>0, <1>b, <2>1, <2>2, <2>3, AccountScan
  <1>6. CASE Compute
    <2>1. /\ UNCHANGED <<input, opts, infoVars>>
          /\ pc = "SCAN" /\ pc' = "WRITE" /\ filesize' = FileSize(bodySize')
          /\ i > Count
      BY <1>6 DEF Compute, Count
    <2>2. i = Count + 1 /\ Count \in Nat
      <3>1. i \in 1 .. Count + 1 /\ Count \in Nat
        BY <1>0, InputFacts DEF TypeOK, Count
      <3> QED BY <2>1, <3>1
    <2>3. /\ Account' = Account /\ Count' = Count /\ biggest' = biggest
          /\ ToInsert' = ToInsert /\ onMetaSize' = onMetaSize /\ input' = input
      BY <2>1 DEF Account, Count, ToInsert, infoVars, scanVars
    <2>4. bodySize' \in Nat /\ Room(bodySize') \in Nat /\ Room(LastBody) \in Nat
      <3>1. bodySize' \in Nat
        BY DEF TypeOK
      <3>2. LastBody \in Nat
        OBVIOUS
      <3> QED BY <3>1, <3>2, RoomType
    <2>5. filesize' = Account - onMetaSize + Room(bodySize')
                      + (IF ToInsert THEN Room(LastBody) ELSE 0)
      BY <2>1, <2>4, <1>c DEF FileSize, Account
    <2>6. Room(bodySize)' = Room(bodySize')
      BY DEF Room
    <2> QED BY <1>0, <2>1, <2>2, <2>3, <2>5, <2>6 DEF AccountInv, Scanned
  <1>7. CASE Scanned /\ pc' # "OPEN" /\ pc' # "SCAN" /\ UNCHANGED <<input, opts, infoVars, metaVars>>
    <2>1. /\ Account' = Account /\ Count' = Count /\ biggest' = biggest /\ filesize' = filesize
          /\ ToInsert' = ToInsert /\ onMetaSize' = onMetaSize /\ input' = input
          /\ bodySize' = bodySize
      BY <1>7 DEF Account, Count, ToInsert, infoVars, scanVars, metaVars
    <2>2. Room(bodySize)' = Room(bodySize) /\ Room(LastBody)' = Room(LastBody)
      BY <2>1 DEF Room
    <2> QED BY <1>0, <1>7, <2>1, <2>2 DEF AccountInv
  <1>8. CASE UNCHANGED vars
    BY <1>0, <1>8 DEF vars, infoVars, scanVars, metaVars, AccountInv, Account, Known,
       Scanned, Finished, Room, ToInsert, Count
  <1>9. CASE WriteHeader \/ ReplaceMetaData \/ CopyTag \/ EndOfCopy \/ WriteFails
    <2>1. Scanned /\ UNCHANGED <<input, opts, infoVars, metaVars>>
      BY <1>9 DEF WriteHeader, ReplaceMetaData, CopyTag, EndOfCopy, WriteFails,
         Scanned, Reading
    <2>2. pc' # "OPEN" /\ pc' # "SCAN"
      BY <1>9 DEF WriteHeader, ReplaceMetaData, CopyTag, EndOfCopy, WriteFails,
         Reading, Continue, Stop
    <2> QED BY <1>7, <2>1, <2>2
  <1> QED BY <1>1, <1>2, <1>3, <1>4, <1>5, <1>6, <1>8, <1>9 DEF Next
(* The onMetaData that is to be replaced is a tag of the input.            *)
LEMMA ReplacedKept ==
  ASSUME TypeOK, ReplacedInv, UNCHANGED <<input, onMetaSize, onMetaOffset>>,
         pc' # "OPEN", i' >= i, i' \in Nat, pc' = "SCAN" => pc \in {"OPEN", "SCAN"}
  PROVE  ReplacedInv'
  <1>1. CASE onMetaSize = 0
    BY <1>1 DEF ReplacedInv
  <1>2. CASE onMetaSize > 0
    <2>1. PICK k \in 1 .. Count : /\ onMetaOffset = input.pos[k]
                                  /\ onMetaSize = Room(input.tags[k].body)
                                  /\ pc = "SCAN" => k < i
      BY <1>2 DEF ReplacedInv
    <2>2. pc # "OPEN"
      BY <1>2 DEF ReplacedInv
    <2>3. Count' = Count /\ Count \in Nat /\ i \in Nat
      BY InputFacts DEF TypeOK, Count
    <2>4. Room(input.tags[k].body)' = Room(input.tags[k].body)
      BY DEF Room
    <2>5. ASSUME pc' = "SCAN"
          PROVE  k < i'
      <3>a. pc = "SCAN"
        BY <2>2, <2>5
      <3>1. k < i
        BY <2>1, <3>a
      <3>2. k \in Nat /\ i \in Nat /\ i' \in Nat /\ i <= i'
        BY <2>3
      <3> QED BY <3>1, <3>2
    <2> QED BY <1>2, <2>1, <2>2, <2>3, <2>4, <2>5 DEF ReplacedInv
  <1> QED BY <1>1, <1>2, Naturals

LEMMA ReplacedStep ==
  ASSUME UpdateInv, TypeOK', [Next]_vars
  PROVE  ReplacedInv'
  <1>0. TypeOK /\ ReplacedInv /\ ClockInv /\ i \in Nat /\ i' \in Nat
    BY InputFacts DEF UpdateInv, TypeOK
  <1>1. CASE ScanMeta
    <2>1. Reading("SCAN") /\ UNCHANGED input
      BY <1>1 DEF ScanMeta, ScanTag
    <2>2. CASE UNCHANGED <<onMetaSize, onMetaOffset>>
      <3>1. pc' # "OPEN" /\ i' >= i
        BY <1>0, <1>1 DEF ScanMeta, Continue, Stop, Reading
      <3> QED BY <1>0, <2>1, <2>2, <3>1, ReplacedKept DEF Reading
    <2>3. CASE /\ onMetaSize' = TagSize + Tag.body + PrevTagSize
               /\ onMetaOffset' = Offset /\ Continue
      <3>1. /\ i \in 1 .. Count /\ Tag.body \in Nat /\ Count' = Count
            /\ Count \in Nat /\ input' = input /\ i' = i + 1 /\ pc' = "SCAN"
        BY <1>0, <2>1, <2>3, ReadingFacts, InputFacts DEF Count, Continue, Reading, TypeOK
      <3>2. onMetaSize' = Room(Tag.body) /\ onMetaSize' > 0
        BY <2>3, <3>1 DEF Room
      <3>3. onMetaOffset' = input'.pos[i] /\ onMetaSize' = Room(input'.tags[i].body)
        BY <2>3, <3>1, <3>2 DEF Offset, Tag
      <3>4. Room(input.tags[i].body)' = Room(input'.tags[i'].body)
        BY DEF Room
      <3>5. \E k \in 1 .. Count' : /\ onMetaOffset' = input'.pos[k]
                                   /\ onMetaSize' = Room(input'.tags[k].body)
                                   /\ k < i'
        BY <3>1, <3>3, <1>0
      <3> QED BY <3>1, <3>2, <3>5 DEF ReplacedInv, Room
    <2>4. \/ UNCHANGED <<onMetaSize, onMetaOffset>>
          \/ /\ onMetaSize' = TagSize + Tag.body + PrevTagSize
             /\ onMetaOffset' = Offset /\ Continue
      BY <1>1, Zenon DEF ScanMeta
    <2> QED BY <2>2, <2>3, <2>4
  <1>2. CASE ScanVideo \/ ScanAudio \/ ScanOther
    <2>1. Reading("SCAN") /\ UNCHANGED <<input, onMetaSize, onMetaOffset>>
      BY <1>2 DEF ScanVideo, ScanAudio, ScanOther, ScanTag
    <2>2. pc' # "OPEN" /\ i' >= i
      BY <1>0, <1>2 DEF ScanVideo, ScanAudio, ScanOther, Continue, Stop, Reading
    <2> QED BY <1>0, <2>1, <2>2, ReplacedKept DEF Reading
  <1>3. CASE ReadHeader
    <2>1. UNCHANGED <<input, i, onMetaSize, onMetaOffset>> /\ pc' # "OPEN" /\ pc = "OPEN"
      BY <1>3 DEF ReadHeader
    <2> QED BY <1>0, <2>1, ReplacedKept
  <1>4. CASE Compute
    <2>1. /\ UNCHANGED <<input, i, onMetaSize, onMetaOffset>>
          /\ pc' # "OPEN" /\ pc' # "SCAN"
      BY <1>4 DEF Compute, infoVars, scanVars
    <2> QED BY <1>0, <2>1, ReplacedKept
  <1>5. CASE WriteHeader \/ ReplaceMetaData \/ CopyTag \/ EndOfCopy \/ WriteFails
    <2>1. UNCHANGED <<input, infoVars>>
      BY <1>5 DEF WriteHeader, ReplaceMetaData, CopyTag, EndOfCopy, WriteFails
    <2>2. pc # "OPEN" /\ pc' # "OPEN" /\ pc' # "SCAN"
      BY <1>5 DEF WriteHeader, ReplaceMetaData, CopyTag, EndOfCopy, WriteFails,
         Reading, Continue, Stop
    <2>3. onMetaSize' = onMetaSize /\ onMetaOffset' = onMetaOffset /\ input' = input
      BY <2>1 DEF infoVars, scanVars
    <2>4. CASE onMetaSize = 0
      BY <1>0, <2>2, <2>3, <2>4 DEF ReplacedInv
    <2>5. CASE onMetaSize > 0
      <3>1. PICK k \in 1 .. Count : /\ onMetaOffset = input.pos[k]
                                    /\ onMetaSize = Room(input.tags[k].body)
        BY <1>0, <2>5 DEF ReplacedInv
      <3>2. Count' = Count /\ Room(input.tags[k].body)' = Room(input.tags[k].body)
        BY <2>3 DEF Count, Room
      <3> QED BY <2>2, <2>3, <2>5, <3>1, <3>2 DEF ReplacedInv
    <2> QED BY <1>0, <2>4, <2>5, Naturals
  <1>6. CASE UNCHANGED vars
    BY <1>0, <1>6 DEF vars, infoVars, scanVars, ReplacedInv, Count, Room
  <1> QED BY <1>1, <1>2, <1>3, <1>4, <1>5, <1>6 DEF Next
----------------------------------------------------------------------------
(* The clocks of the two passes.                                           *)
LEMMA SeenFacts ==
  ASSUME TypeOK
  PROVE  Len(seen) \in Nat /\ DOMAIN seen = 1 .. Len(seen)
  <1> DEFINE Kind == [time : 0 .. TsRange - 1, clock : Clocks]
  <1>1. seen \in Seq(Kind)
    BY Zenon DEF TypeOK
  <1> HIDE DEF Kind
  <1> QED BY <1>1

LEMMA SeenGrows ==
  ASSUME TypeOK, NEW entry, seen' = Append(seen, entry)
  PROVE  /\ Len(seen') = Len(seen) + 1
         /\ DOMAIN seen' = 1 .. Len(seen) + 1
         /\ seen'[Len(seen) + 1] = entry
         /\ \A k \in 1 .. Len(seen) : seen'[k] = seen[k]
  <1> DEFINE Kind == [time : 0 .. TsRange - 1, clock : Clocks]
  <1>1. seen \in Seq(Kind \union {entry})
    <2>1. seen \in Seq(Kind)
      BY Zenon DEF TypeOK
    <2> HIDE DEF Kind
    <2> QED BY <2>1
  <1> HIDE DEF Kind
  <1>2. seen' \in Seq(Kind \union {entry}) /\ Len(seen') = Len(seen) + 1
    BY <1>1, AppendType
  <1>3. DOMAIN seen' = 1 .. Len(seen) + 1
    BY <1>2
  <1> QED BY <1>1, <1>2, <1>3, AppendType

LEMMA ClockScan ==
  ASSUME TypeOK, ClockInv, Reading("SCAN"), ScanTag, Continue
  PROVE  ClockInv'
  <1> DEFINE entry == [time |-> ScanTime, clock |-> clock']
  <1>0. seen' = Append(seen, entry)
    BY DEF ScanTag
  <1>1. /\ Len(seen) = i - 1 /\ i \in 1 .. Count /\ Count \in Nat
        /\ i' = i + 1 /\ pc = "SCAN" /\ pc' = "SCAN"
        /\ input' = input /\ opts' = opts
    BY ReadingFacts, InputFacts DEF ClockInv, Reading, Count, Continue, ScanTag, TypeOK
  <1>2. /\ Len(seen') = i /\ DOMAIN seen' = 1 .. i /\ seen'[i] = entry
        /\ \A k \in 1 .. i - 1 : seen'[k] = seen[k]
    <2> HIDE DEF entry
    <2>1. Len(seen) + 1 = i
      BY <1>1
    <2> QED BY <1>0, <1>1, <2>1, SeenGrows
  <1>3. ASSUME NEW k \in 1 .. i
        PROVE  Prior(k)' = Prior(k)
    <2>1. k # 1 => k - 1 \in 1 .. i - 1
      BY <1>1
    <2> QED BY <1>2, <2>1 DEF Prior
  <1>4. clock = Prior(i) /\ clock' = Tick(clock, Tag)
    BY <1>1 DEF ClockInv, ScanTag
  <1>5. clock' = Prior(i)'
    <2>1. i' # 1 /\ i' - 1 = i
      BY <1>1
    <2> QED BY <1>2, <2>1 DEF Prior
  <1>6. ASSUME NEW k \in DOMAIN seen'
        PROVE  seen'[k].clock = Tick(Prior(k)', input'.tags[k])
    <2>1. CASE k = i
      <3>1. seen'[k].clock = clock' /\ Prior(k)' = Prior(i)
        BY <1>1, <1>2, <1>3, <2>1
      <3> QED BY <1>1, <1>4, <2>1, <3>1 DEF Tag
    <2>2. CASE k \in 1 .. i - 1
      <3>1. seen[k].clock = Tick(Prior(k), input.tags[k])
        BY <1>1, <2>2, SeenFacts DEF ClockInv
      <3>2. k \in 1 .. i
        BY <1>2
      <3> QED BY <1>1, <1>2, <1>3, <2>2, <3>1, <3>2
    <2> QED BY <1>1, <1>2, <2>1, <2>2
  <1>7. haveFirst <=> Dated(i - 1)
    BY <1>1 DEF ClockInv
  <1>8. haveFirst' <=> Dated(i)
    <2>1. haveFirst' <=> Dated(i - 1) \/ Tag.type # "META"
      BY <1>7 DEF ScanTag
    <2>2. Dated(i) <=> Dated(i - 1) \/ Tag.type # "META"
      BY <1>1 DEF Dated, Tag
    <2> QED BY <2>1, <2>2, Zenon
  <1>9. firstTime' = First
    BY DEF ScanTag
  <1>10. ASSUME NEW k \in DOMAIN seen', k = Len(seen') \/ Dated(k)' \/ ~opts.reset
         PROVE  seen'[k].time = TimeOf(k)'
    <2>1. CASE k = i
      <3>1. seen'[k].time = Rebased(Recovered(clock, Tag), First)
        BY <1>2, <2>1 DEF ScanTime
      <3>2. Recovered(Prior(k), input.tags[k])' = Recovered(clock, Tag)
        BY <1>1, <1>3, <1>4, <2>1 DEF Tag, Recovered
      <3>3. TimeOf(k)' = Rebased(Recovered(clock, Tag), First)
        BY <1>1, <1>9, <3>2 DEF TimeOf, Rebased
      <3> QED BY <3>1, <3>3
    <2>2. CASE k \in 1 .. i - 1 /\ ~opts.reset
      <3>1. seen[k].time = TimeOf(k)
        BY <1>1, <2>2, SeenFacts DEF ClockInv
      <3>2. Recovered(Prior(k), input.tags[k])' = Recovered(Prior(k), input.tags[k])
        <4>1. k \in 1 .. i
          BY <1>2, <2>2
        <4> QED BY <1>1, <1>3, <4>1 DEF Recovered
      <3>3. TimeOf(k)' = TimeOf(k)
        BY <1>1, <2>2, <3>2 DEF TimeOf, Rebased
      <3> QED BY <1>2, <2>2, <3>1, <3>3
    <2>3. CASE k \in 1 .. i - 1 /\ opts.reset
      <3>1. Dated(k)
        BY <1>1, <1>2, <1>10, <2>3 DEF Dated
      <3>2. seen[k].time = TimeOf(k)
        BY <1>1, <2>3, <3>1, SeenFacts DEF ClockInv
      <3>3. haveFirst /\ firstTime' = firstTime
        <4>1. Dated(i - 1)
          BY <1>1, <2>3, <3>1 DEF Dated
        <4> QED BY <1>7, <1>9, <4>1 DEF First
      <3>4. Recovered(Prior(k), input.tags[k])' = Recovered(Prior(k), input.tags[k])
        <4>1. k \in 1 .. i
          BY <1>2
        <4> QED BY <1>1, <1>3, <4>1 DEF Recovered
      <3>5. TimeOf(k)' = TimeOf(k)
        BY <1>1, <3>3, <3>4 DEF TimeOf, Rebased
      <3> QED BY <1>2, <2>3, <3>2, <3>5
    <2> QED BY <1>1, <1>2, <2>1, <2>2, <2>3
  <1>11. Known(input)' => lastTime' = seen'[Len(seen')].time
    <2>1. i \in DOMAIN input.tags
      BY <1>1, InputFacts DEF Count, TypeOK
    <2>2. Known(input)' => Tag.type \in Media
      BY <1>1, <2>1 DEF Known, Tag
    <2> QED BY <1>2, <2>2 DEF ScanTag
  <1>12. i' - 1 = i /\ Len(seen') = i' - 1
    BY <1>1, <1>2
  <1>13. (pc' = "SCAN" => (haveFirst' <=> Dated(i - 1)'))
    <2>1. Dated(i - 1)' <=> Dated(i)
      BY <1>1, <1>12 DEF Dated
    <2> QED BY <1>8, <2>1, Zenon
  <1> QED BY <1>1, <1>2, <1>5, <1>6, <1>10, <1>11, <1>12, <1>13
          DEF ClockInv, Scanned, Finished
(* A step that leaves what the first pass has seen alone.                  *)
LEMMA ClockKept ==
  ASSUME TypeOK, ClockInv, UNCHANGED <<input, opts, seen, firstTime, lastTime>>,
         pc = "SCAN" \/ Scanned, pc' \notin {"OPEN", "SCAN"},
         Scanned' => Len(seen) = Count, pc' = "COPY" => clock' = Prior(i')
  PROVE  ClockInv'
  <1>1. DOMAIN seen = 1 .. Len(seen) /\ Len(seen) \in Nat
    BY SeenFacts
  <1>2. Count' = Count /\ seen' = seen /\ input' = input
    BY DEF Count
  <1>3. \A k \in DOMAIN seen' : seen'[k].clock = Tick(Prior(k)', input'.tags[k])
    <2> SUFFICES ASSUME NEW k \in DOMAIN seen
                 PROVE  seen[k].clock = Tick(Prior(k)', input.tags[k])
      BY <1>2
    <2>1. Prior(k)' = Prior(k)
      BY <1>2 DEF Prior
    <2> QED BY <2>1 DEF ClockInv
  <1>4. \A k \in DOMAIN seen' :
          k = Len(seen') \/ Dated(k)' \/ ~opts'.reset => seen'[k].time = TimeOf(k)'
    <2> SUFFICES ASSUME NEW k \in DOMAIN seen,
                        k = Len(seen) \/ Dated(k)' \/ ~opts.reset
                 PROVE  seen[k].time = TimeOf(k)'
      BY <1>2
    <2>1. TimeOf(k)' = TimeOf(k)
      BY <1>2 DEF TimeOf, Prior, Recovered, Rebased
    <2>2. Dated(k)' = Dated(k)
      BY <1>2 DEF Dated
    <2> QED BY <2>1, <2>2 DEF ClockInv
  <1>5. Known(input)' /\ seen' # <<>> => lastTime' = seen'[Len(seen')].time
    BY <1>2 DEF ClockInv, Known
  <1>6. pc' = "COPY" => clock' = Prior(i)'
    BY <1>2 DEF Prior
  <1> QED BY <1>2, <1>3, <1>4, <1>5, <1>6 DEF ClockInv

LEMMA ClockStep ==
  ASSUME UpdateInv, TypeOK', [Next]_vars
  PROVE  ClockInv'
  <1>0. TypeOK /\ ClockInv
    BY DEF UpdateInv
  <1>a. ASSUME NEW error, Stop(error), error # "OK" PROVE ClockInv'
    BY <1>a DEF Stop, ClockInv, Scanned, Finished
  <1>1. CASE ReadHeader
    <2>1. CASE pc' = "DONE" /\ result' # "OK"
      BY <2>1 DEF ClockInv, Scanned, Finished
    <2>2. CASE pc' = "SCAN"
      <3>1. pc = "OPEN" /\ UNCHANGED <<i, seen, clock, haveFirst>>
        BY <1>1 DEF ReadHeader
      <3>2. i = 1 /\ seen = <<>> /\ clock = Prior(1) /\ ~haveFirst
        BY <1>0, <3>1 DEF ClockInv
      <3>3. i' = 1 /\ seen' = <<>> /\ ~haveFirst' /\ DOMAIN seen' = {} /\ Len(seen') = 0
        BY <3>1, <3>2
      <3>4. clock' = Prior(i)'
        BY <3>1, <3>2 DEF Prior
      <3>5. ~Dated(i - 1)'
        BY <3>3 DEF Dated
      <3> QED BY <2>2, <3>3, <3>4, <3>5 DEF ClockInv, Scanned, Finished
    <2> QED BY <1>1, <2>1, <2>2 DEF ReadHeader
  <1>2. CASE ScanMeta \/ ScanVideo \/ ScanAudio \/ ScanOther
    <2>1. Reading("SCAN") /\ ScanTag
      BY <1>2 DEF ScanMeta, ScanVideo, ScanAudio, ScanOther
    <2>2. Stop("ERROR_EOF") \/ Stop("ERROR_INVALID_TAG") \/ Continue
      BY <1>2 DEF ScanMeta, ScanVideo, ScanAudio, ScanOther
    <2> QED BY <1>0, <1>a, <2>1, <2>2, ClockScan
  <1>3. CASE Compute
    <2>1. /\ pc = "SCAN" /\ pc' = "WRITE" /\ i > Count
          /\ UNCHANGED <<input, opts, infoVars>>
      BY <1>3 DEF Compute, Count
    <2>2. i \in 1 .. Count + 1 /\ Count \in Nat /\ Len(seen) = i - 1
      BY <1>0, <2>1, InputFacts DEF TypeOK, Count, ClockInv
    <2>3. UNCHANGED <<input, opts, seen, firstTime, lastTime>>
      BY <2>1 DEF infoVars
    <2> QED BY <1>0, <2>1, <2>2, <2>3, ClockKept
  <1>4. CASE WriteHeader
    <2>1. /\ Scanned /\ pc' = "COPY" /\ i' = 1 /\ clock' = ResetClock
          /\ UNCHANGED <<input, opts, infoVars>>
      BY <1>4 DEF WriteHeader, Scanned
    <2>2. Len(seen) = Count
      BY <1>0, <2>1 DEF ClockInv
    <2>3. UNCHANGED <<input, opts, seen, firstTime, lastTime>>
      BY <2>1 DEF infoVars
    <2>4. clock' = Prior(i')
      BY <2>1 DEF Prior, ResetClock
    <2> QED BY <1>0, <2>1, <2>2, <2>3, <2>4, ClockKept
  <1>5. CASE ReplaceMetaData \/ CopyTag
    <2>1. /\ Reading("COPY") /\ clock' = Tick(clock, Tag)
          /\ UNCHANGED <<input, opts, infoVars>>
      BY <1>5, CopySteps DEF ReplaceMetaData
    <2>2. Scanned /\ Len(seen) = Count /\ clock = Prior(i) /\ i \in 1 .. Count /\ Count \in Nat
      BY <1>0, <2>1, ReadingFacts, InputFacts DEF ClockInv, Reading, Scanned, Count, TypeOK
    <2>3. UNCHANGED <<input, opts, seen, firstTime, lastTime>>
      BY <2>1 DEF infoVars
    <2>4. Continue \/ Stop("ERROR_EOF") \/ Stop("OK")
      BY <1>5, CopySteps DEF ReplaceMetaData
    <2>5. CASE Continue
      <3>1. pc' = "COPY" /\ i' = i + 1
        BY <2>1, <2>5 DEF Continue, Reading
      <3>2. seen[i].clock = Tick(Prior(i), input.tags[i])
        BY <1>0, <2>2, SeenFacts DEF ClockInv
      <3>3. clock' = Prior(i')
        BY <2>1, <2>2, <3>1, <3>2 DEF Prior, Tag
      <3> QED BY <1>0, <2>2, <2>3, <3>1, <3>3, ClockKept
    <2>6. CASE Stop("OK") \/ Stop("ERROR_EOF")
      <3>1. pc' = "DONE"
        BY <2>6 DEF Stop
      <3> QED BY <1>0, <2>2, <2>3, <3>1, ClockKept
    <2> QED BY <2>4, <2>5, <2>6
  <1>6. CASE EndOfCopy \/ WriteFails
    <2>1. /\ Scanned /\ pc' = "DONE" /\ UNCHANGED <<input, opts, infoVars>>
      BY <1>6, WriteFailsSteps DEF EndOfCopy, Scanned, Stop
    <2>2. Len(seen) = Count
      BY <1>0, <2>1 DEF ClockInv
    <2>3. UNCHANGED <<input, opts, seen, firstTime, lastTime>>
      BY SMTT(30), <2>1 DEF infoVars
    <2> QED BY <1>0, <2>1, <2>2, <2>3, ClockKept
  <1>7. CASE UNCHANGED vars
    BY ZenonT(40), <1>0, <1>7 DEF vars, infoVars, scanVars, ClockInv, Prior, TimeOf, Dated, Recovered,
       Rebased, Scanned, Finished, Count, Known
  <1> QED BY <1>1, <1>2, <1>3, <1>4, <1>5, <1>6, <1>7 DEF Next

----------------------------------------------------------------------------
(* The timestamp the first pass rebases with.                              *)
LEMMA FirstScan ==
  ASSUME TypeOK, ClockInv, FirstInv, Reading("SCAN"), ScanTag, Continue
  PROVE  FirstInv'
  <1> DEFINE entry == [time |-> ScanTime, clock |-> clock']
  <1>0. seen' = Append(seen, entry)
    BY DEF ScanTag
  <1>1. /\ Len(seen) = i - 1 /\ i \in 1 .. Count /\ Count \in Nat
        /\ i' = i + 1 /\ pc = "SCAN" /\ pc' = "SCAN"
        /\ input' = input /\ opts' = opts
    BY ReadingFacts, InputFacts DEF ClockInv, Reading, Count, Continue, ScanTag, TypeOK
  <1>2. /\ DOMAIN seen' = 1 .. i /\ seen'[i] = entry
        /\ \A k \in 1 .. i - 1 : seen'[k] = seen[k]
        /\ DOMAIN seen = 1 .. i - 1
    <2> HIDE DEF entry
    <2>1. Len(seen) + 1 = i
      BY <1>1
    <2> QED BY <1>0, <1>1, <2>1, SeenGrows, SeenFacts
  <1>3. ASSUME NEW k \in 1 .. i
        PROVE  /\ Recovered(Prior(k), input.tags[k])' = Recovered(Prior(k), input.tags[k])
               /\ Dated(k)' = Dated(k) /\ Dated(k - 1)' = Dated(k - 1)
    <2>1. k # 1 => k - 1 \in 1 .. i - 1
      BY <1>1
    <2>2. Prior(k)' = Prior(k)
      BY <1>2, <2>1 DEF Prior
    <2> QED BY <1>1, <2>2 DEF Recovered, Dated
  <1>4. clock = Prior(i) /\ (haveFirst <=> Dated(i - 1))
    BY <1>1 DEF ClockInv
  <1>5. firstTime' = First /\ (haveFirst' <=> haveFirst \/ Tag.type # "META")
    BY DEF ScanTag
  <1>6. ~haveFirst => firstTime = 0
    BY DEF FirstInv
  <1>7. ~haveFirst' => firstTime' = 0
    BY <1>5, <1>6 DEF First
  <1>8. Dated(i) <=> Dated(i - 1) \/ Tag.type # "META"
    BY <1>1 DEF Dated, Tag
  <1>9. ASSUME NEW k \in 1 .. i - 1
        PROVE  /\ ~Dated(k) => seen[k].time = Recovered(Prior(k), input.tags[k])
               /\ Dated(k) /\ ~Dated(k - 1) =>
                    firstTime' = Recovered(Prior(k), input.tags[k])
    <2>1. /\ ~Dated(k) => seen[k].time = Recovered(Prior(k), input.tags[k])
          /\ Dated(k) /\ ~Dated(k - 1) =>
               firstTime = Recovered(Prior(k), input.tags[k])
      BY <1>1, <1>2 DEF FirstInv
    <2>2. Dated(k) => haveFirst
      BY <1>1, <1>4 DEF Dated
    <2> QED BY <1>5, <2>1, <2>2 DEF First
  <1>10. ~Dated(i) => ScanTime = Recovered(clock, Tag)
    <2> SUFFICES ASSUME ~Dated(i) PROVE ScanTime = Recovered(clock, Tag)
      OBVIOUS
    <2>1. First = 0
      BY <1>4, <1>6, <1>8 DEF First
    <2>2. Recovered(clock, Tag) \in 0 .. TsRange - 1
      BY <1>1, TimeTypes
    <2>3. Recovered(clock, Tag) - 0 = Recovered(clock, Tag)
      BY <2>2, TsRangePositive
    <2>4. Recovered(clock, Tag) % TsRange = Recovered(clock, Tag)
      <3> DEFINE t == Recovered(clock, Tag)
                 m == TsRange
      <3>1. t \in 0 .. m - 1 /\ m \in Nat \ {0}
        BY <2>2, TsRangePositive
      <3> HIDE DEF t, m
      <3>2. t % m = t
        BY <3>1
      <3> QED BY <3>2 DEF t, m
    <2> QED BY <2>1, <2>3, <2>4 DEF ScanTime, Rebased
  <1>11. Dated(i) /\ ~Dated(i - 1) => firstTime' = Recovered(clock, Tag)
    BY <1>4, <1>5, <1>8 DEF First
  <1>12. ASSUME NEW k \in 1 .. i
         PROVE  /\ ~Dated(k) => seen'[k].time = Recovered(Prior(k), input.tags[k])
                /\ Dated(k) /\ ~Dated(k - 1) =>
                     firstTime' = Recovered(Prior(k), input.tags[k])
    <2>1. CASE k = i
      <3>1. Recovered(Prior(k), input.tags[k]) = Recovered(clock, Tag)
        BY <1>4, <2>1 DEF Tag
      <3> QED BY <1>2, <1>10, <1>11, <2>1, <3>1
    <2>2. CASE k \in 1 .. i - 1
      BY <1>2, <1>9, <2>2
    <2> QED BY <1>1, <2>1, <2>2
  <1>13. ASSUME NEW k \in DOMAIN seen'
         PROVE  /\ ~Dated(k)' => seen'[k].time = Recovered(Prior(k), input.tags[k])'
                /\ Dated(k)' /\ ~Dated(k - 1)' =>
                     firstTime' = Recovered(Prior(k), input.tags[k])'
    BY <1>2, <1>3, <1>12
  <1> QED BY <1>1, <1>7, <1>13 DEF FirstInv

LEMMA FirstStep ==
  ASSUME UpdateInv, TypeOK', [Next]_vars
  PROVE  FirstInv'
  <1>0. TypeOK /\ ClockInv /\ FirstInv
    BY DEF UpdateInv
  <1>a. ASSUME UNCHANGED <<input, seen, haveFirst, firstTime>>,
               pc = "SCAN" \/ Scanned, pc' # "OPEN"
        PROVE  FirstInv'
    <2>1. ~haveFirst' => firstTime' = 0
      BY <1>0, <1>a DEF FirstInv
    <2>2. ASSUME NEW k
          PROVE  /\ Recovered(Prior(k), input.tags[k])' = Recovered(Prior(k), input.tags[k])
                 /\ Dated(k)' = Dated(k) /\ Dated(k - 1)' = Dated(k - 1)
      BY <1>a DEF Prior, Recovered, Dated
    <2> QED BY <1>0, <1>a, <2>1, <2>2 DEF FirstInv
  <1>b. ASSUME NEW error, Stop(error), error # "OK", ~haveFirst' => firstTime' = 0
        PROVE  FirstInv'
    BY <1>b DEF Stop, FirstInv, Scanned, Finished
  <1>1. CASE ReadHeader
    <2>1. pc = "OPEN" /\ pc' # "OPEN" /\ UNCHANGED <<firstTime, haveFirst, seen>>
      BY <1>1 DEF ReadHeader
    <2>2. firstTime' = 0 /\ seen' = <<>> /\ DOMAIN seen' = {}
      BY <1>0, <2>1 DEF FirstInv, ClockInv
    <2> QED BY <2>1, <2>2 DEF FirstInv
  <1>2. CASE ScanMeta \/ ScanVideo \/ ScanAudio \/ ScanOther
    <2>1. Reading("SCAN") /\ ScanTag
      BY <1>2 DEF ScanMeta, ScanVideo, ScanAudio, ScanOther
    <2>2. Stop("ERROR_EOF") \/ Stop("ERROR_INVALID_TAG") \/ Continue
      BY <1>2 DEF ScanMeta, ScanVideo, ScanAudio, ScanOther
    <2>3. ~haveFirst' => firstTime' = 0
      BY <1>0, <2>1 DEF ScanTag, First, FirstInv
    <2> QED BY <1>0, <1>b, <2>1, <2>2, <2>3, FirstScan
  <1>3. CASE Compute
    <2>1. /\ pc = "SCAN" /\ pc' = "WRITE" /\ UNCHANGED <<input, infoVars>>
      BY <1>3 DEF Compute
    <2> QED BY <1>a, <2>1 DEF infoVars
  <1>4. CASE WriteHeader \/ ReplaceMetaData \/ CopyTag \/ EndOfCopy \/ WriteFails
    <2>1. /\ Scanned /\ pc' \in {"COPY", "DONE"} /\ UNCHANGED <<input, infoVars>>
      <3>1. CASE WriteHeader
        BY <3>1 DEF WriteHeader, Scanned
      <3>2. CASE ReplaceMetaData \/ CopyTag
        <4>1. Reading("COPY") /\ UNCHANGED <<input, infoVars>>
          BY <3>2, CopySteps DEF ReplaceMetaData
        <4>2. Continue \/ Stop("ERROR_EOF") \/ Stop("OK")
          BY <3>2, CopySteps DEF ReplaceMetaData
        <4> QED BY <4>1, <4>2 DEF Reading, Scanned, Continue, Stop
      <3>3. CASE EndOfCopy \/ WriteFails
        BY <3>3, WriteFailsSteps DEF EndOfCopy, Scanned, Stop
      <3> QED BY <1>4, <3>1, <3>2, <3>3
    <2> QED BY <1>a, <2>1 DEF infoVars
  <1>5. CASE UNCHANGED vars
    BY ZenonT(40), <1>0, <1>5 DEF vars, infoVars, scanVars, FirstInv, Prior, Dated, Recovered,
       Scanned, Finished
  <1> QED BY <1>1, <1>2, <1>3, <1>4, <1>5 DEF Next

----------------------------------------------------------------------------
(* The file the second pass writes.                                        *)
LEMMA InsertedStep ==
  ASSUME UpdateInv, TypeOK', [Next]_vars
  PROVE  InsertedInv'
  <1>0. TypeOK /\ InsertedInv
    BY DEF UpdateInv, OutputInv
  <1>1. CASE ReadHeader \/ ScanMeta \/ ScanVideo \/ ScanAudio \/ ScanOther \/ Compute
    <2>1. UNCHANGED <<inserted, out>> /\ pc \in {"OPEN", "SCAN"}
      BY <1>1 DEF ReadHeader, ScanMeta, ScanVideo, ScanAudio, ScanOther, Compute,
         ScanTag, Reading, outVars
    <2> QED BY <1>0, <2>1 DEF InsertedInv
  <1>2. CASE WriteHeader
    BY <1>0, <1>2 DEF WriteHeader, InsertedInv
  <1>3. CASE ReplaceMetaData \/ CopyTag
    <2>1. /\ Reading("COPY") /\ UNCHANGED <<opts, infoVars>>
          /\ inserted' = inserted \/ inserted' = (inserted \/ InsertNow)
      BY <1>3, CopySteps, Zenon DEF ReplaceMetaData
    <2>2. Continue \/ Stop("ERROR_EOF") \/ Stop("OK")
      BY <1>3, CopySteps DEF ReplaceMetaData
    <2>3. pc' \in {"COPY", "DONE"}
      BY <2>1, <2>2 DEF Continue, Stop, Reading
    <2>4. ToInsert' = ToInsert
      BY <2>1 DEF ToInsert, infoVars, scanVars
    <2>5. inserted' => ToInsert
      BY <1>0, <2>1, Zenon DEF InsertedInv, InsertNow
    <2> QED BY <2>3, <2>4, <2>5 DEF InsertedInv
  <1>4. CASE EndOfCopy \/ WriteFails \/ UNCHANGED vars
    <2>1. /\ UNCHANGED <<opts, infoVars, outVars>>
          /\ pc' = "DONE" \/ pc' = pc
      BY <1>4 DEF EndOfCopy, WriteFails, vars, Stop
    <2>2. ToInsert' = ToInsert
      BY <2>1 DEF ToInsert, infoVars, scanVars
    <2> QED BY <1>0, <2>1, <2>2 DEF InsertedInv, outVars
  <1> QED BY <1>1, <1>2, <1>3, <1>4 DEF Next

(* The onMetaData to replace is a tag of the input, found by its offset.   *)
LEMMA ReplacedFacts ==
  ASSUME TypeOK, ReplacedInv, NEW n \in 1 .. Count + 1
  PROVE  /\ input.pos[n] \in Nat
         /\ onMetaSize = 0 => onMetaOffset = 0
         /\ input.pos[n] > 0
         /\ n = 1 /\ onMetaSize # 0 => ~(onMetaOffset < input.pos[n])
         /\ n = Count + 1 /\ onMetaSize # 0 => onMetaOffset < input.pos[n]
         /\ n <= Count /\ onMetaOffset = input.pos[n] =>
              onMetaSize # 0 /\ onMetaSize = Room(input.tags[n].body)
         /\ n <= Count /\ onMetaOffset # input.pos[n] =>
              (onMetaSize = 0 \/ onMetaOffset < input.pos[n + 1]
                 <=> onMetaSize = 0 \/ onMetaOffset < input.pos[n])
  <1>0. onMetaSize \in Nat
    BY Naturals
  <1>1. Count \in Nat /\ input.pos \in [1 .. Count + 1 -> Nat]
    BY InputFacts DEF TypeOK, Count
  <1>2. \A j, k \in 1 .. Count + 1 : j < k => input.pos[j] < input.pos[k]
    BY InputFacts DEF TypeOK, Count
  <1>3. input.pos[1] > 0
    BY InputFacts DEF TypeOK
  <1>4. input.pos[n] \in Nat /\ input.pos[n] > 0
    BY <1>1, <1>2, <1>3
  <1>5. CASE onMetaSize = 0
    BY <1>4, <1>5 DEF ReplacedInv
  <1>6. CASE onMetaSize # 0
    <2>1. PICK m \in 1 .. Count : /\ onMetaOffset = input.pos[m]
                                  /\ onMetaSize = Room(input.tags[m].body)
      BY <1>0, <1>6 DEF ReplacedInv
    <2>2. m < n => input.pos[m] < input.pos[n]
      BY <1>1, <1>2
    <2>3. n < m => input.pos[n] < input.pos[m]
      BY <1>1, <1>2
    <2>4. n <= Count => (m < n + 1 => input.pos[m] < input.pos[n + 1])
      BY <1>1, <1>2
    <2>5. n <= Count => (n + 1 < m => input.pos[n + 1] < input.pos[m])
      BY <1>1, <1>2
    <2>6. input.pos[m] \in Nat /\ (n <= Count => input.pos[n + 1] \in Nat)
      BY <1>1
    <2> QED BY SMTT(30), <1>1, <1>4, <1>6, <2>1, <2>2, <2>3, <2>4, <2>5, <2>6
  <1> QED BY <1>5, <1>6

(* The copy buffer takes every tag of a known type.                        *)
LEMMA KnownCopied ==
  ASSUME TypeOK, AccountInv, Known(input), Reading("COPY")
  PROVE  ToCopy(Tag.body) = Tag.body
  <1>1. i \in 1 .. Count /\ Tag.body \in Nat
    BY ReadingFacts DEF Count
  <1>2. Tag.body <= biggest /\ biggest \in Nat
    BY SMTT(30), <1>1 DEF AccountInv, Reading, Scanned, Tag, TypeOK
  <1> QED BY <1>1, <1>2 DEF ToCopy, Lesser

(* On a file of known tags that is not cut off, the second pass copies the *)
(* whole of every tag it does not replace.                                 *)
LEMMA CopyWhole ==
  ASSUME TypeOK, AccountInv, Sound, CopyTag
  PROVE  Put(Tag.body) /\ Continue
  <1>1. Reading("COPY")
    BY CopySteps
  <1>2. i \in 1 .. Count /\ Tag.body \in Nat
    BY <1>1, ReadingFacts DEF Count
  <1>3. Tag.there = Tag.body
    BY <1>2, InputFacts DEF Sound, Whole, Tag, TypeOK, Count
  <1>5. ToCopy(Tag.body) = Tag.body
    BY <1>1, KnownCopied DEF Sound
  <1>6. Lesser(ToCopy(Tag.body), Tag.there) = Tag.body
    BY <1>2, <1>3, <1>5 DEF Lesser
  <1>7. ~(Lesser(ToCopy(Tag.body), Tag.there) < ToCopy(Tag.body))
    BY <1>2, <1>5, <1>6
  <1> QED BY <1>5, <1>7, CopySteps

(* A step that leaves the input and what the first pass found of it.       *)
LEMMA InfoKept ==
  ASSUME UNCHANGED <<input, opts, infoVars, metaVars>>
  PROVE  /\ Sound' = Sound /\ Count' = Count /\ Replacement' = Replacement
         /\ ToInsert' = ToInsert /\ LastTagCopied' = LastTagCopied
         /\ UNCHANGED <<onMetaSize, onMetaOffset, firstTime, seen, lastTime, bodySize>>
  BY DEF Sound, Known, Whole, Count, Replacement, ToInsert, LastTagCopied, Room,
     infoVars, scanVars, metaVars

LEMMA SizeStep ==
  ASSUME UpdateInv, TypeOK', [Next]_vars
  PROVE  SizeInv'
  <1>0. /\ TypeOK /\ AccountInv /\ ReplacedInv /\ InsertedInv /\ SizeInv
        /\ outSize \in Nat /\ bodySize \in Nat /\ onMetaSize \in Nat /\ Room(LastBody) \in Nat
        /\ Room(bodySize) \in Nat /\ Insertion \in Nat /\ Replacement \in Int
    BY Naturals, RoomType DEF UpdateInv, OutputInv, Insertion, Replacement
  <1>a. Count \in Nat /\ i \in 1 .. Count + 1 /\ input \in Inputs
    <2>1. input \in Inputs /\ i \in 1 .. Len(input.tags) + 1
      BY <1>0 DEF TypeOK
    <2> QED BY <2>1, InputFacts DEF Count
  <1>1. CASE ReadHeader \/ ScanMeta \/ ScanVideo \/ ScanAudio \/ ScanOther \/ Compute
             \/ WriteFails
    <2>1. pc' \in {"SCAN", "WRITE"} \/ (pc' = "DONE" /\ result' # "OK")
      BY <1>1 DEF ReadHeader, ScanMeta, ScanVideo, ScanAudio, ScanOther, Compute,
         WriteFails, Stop, Continue, Reading
    <2> QED BY <2>1 DEF SizeInv, Finished
  <1>2. CASE WriteHeader
    <2>1. /\ UNCHANGED <<input, opts, infoVars, metaVars, inserted>>
          /\ pc = "WRITE" /\ pc' = "COPY" /\ i' = 1
          /\ outSize' = HeaderSize + PrevTagSize + (IF onMetaSize = 0 THEN Room(bodySize) ELSE 0)
      BY <1>2 DEF WriteHeader
    <2>2. ~inserted
      BY <1>0, <2>1 DEF InsertedInv
    <2>3. /\ input.pos[1] = HeaderSize + PrevTagSize
          /\ onMetaSize # 0 => ~(onMetaOffset < input.pos[1])
      <3>1. 1 \in 1 .. Count + 1
        BY <1>a
      <3>2. input.pos[1] = HeaderSize + PrevTagSize
        BY <1>0, InputFacts DEF TypeOK
      <3> QED BY <1>0, <3>1, <3>2, ReplacedFacts
    <2>4. Insertion' = 0
      BY <2>1, <2>2 DEF Insertion
    <2>5. onMetaSize = 0 => Replacement = Room(bodySize)
      BY <1>0 DEF Replacement
    <2>6. outSize' = input.pos[1] + 0
                     + (IF onMetaSize = 0 \/ onMetaOffset < input.pos[1] THEN Replacement ELSE 0)
      BY <1>0, <2>1, <2>3, <2>5
    <2> QED BY <2>1, <2>4, <2>6, InfoKept DEF SizeInv, Finished
  <1>3. CASE ReplaceMetaData
    <2>1. /\ UNCHANGED <<input, opts, infoVars, metaVars, inserted>>
          /\ Reading("COPY") /\ Offset = onMetaOffset
          /\ outSize' = outSize + Room(bodySize)
          /\ pc' = "COPY" /\ i' = i + 1
      BY <1>3 DEF ReplaceMetaData, Continue, Reading
    <2>2. i \in 1 .. Count /\ i \in 1 .. Count + 1 /\ i + 1 \in 1 .. Count + 1
      BY SMTT(30), <1>0, <2>1, ReadingFacts DEF Count
    <2>3. /\ onMetaSize # 0 /\ onMetaSize = Room(Tag.body)
      BY <1>0, <2>1, <2>2, ReplacedFacts DEF Offset, Tag
    <2>4. input.pos[i + 1] = Offset + Room(Tag.body) /\ Offset \in Nat
      BY <1>0, <2>1, ReadingFacts
    <2>5. Sound => outSize = Offset + Insertion
      <3>1. ~(onMetaSize = 0 \/ onMetaOffset < Offset)
        BY <2>1, <2>3, <2>4
      <3>2. Sound => outSize = Offset + Insertion
                       + (IF onMetaSize = 0 \/ onMetaOffset < Offset THEN Replacement ELSE 0)
        BY <1>0, <2>1 DEF SizeInv, Reading, Offset
      <3> QED BY <1>0, <2>4, <3>1, <3>2
    <2>6. Sound => outSize' = input.pos[i + 1] + Insertion + Replacement
      BY <1>0, <2>1, <2>3, <2>4, <2>5 DEF Replacement
    <2>7. onMetaOffset < input.pos[i + 1]
      BY <1>0, <2>1, <2>3, <2>4
    <2>8. Insertion' = Insertion
      BY <2>1 DEF Insertion
    <2> QED BY <2>1, <2>6, <2>7, <2>8, InfoKept DEF SizeInv, Finished
  <1>4. CASE CopyTag /\ Sound
    <2>1. Put(Tag.body) /\ Continue
      BY <1>0, <1>4, CopyWhole
    <2>2. /\ UNCHANGED <<input, opts, infoVars, metaVars>>
          /\ Reading("COPY") /\ Offset # onMetaOffset
          /\ inserted' = (inserted \/ InsertNow)
      BY <1>4, CopySteps
    <2>3. outSize' = CopyAt + Room(Tag.body) /\ pc' = "COPY" /\ i' = i + 1
      BY <2>1, <2>2 DEF Put, Continue, Reading
    <2>4. i \in 1 .. Count /\ i \in 1 .. Count + 1 /\ Tag.body \in Nat
      BY SMTT(30), <1>0, <2>2, ReadingFacts DEF Count
    <2>5. CopyAt = outSize - Insertion + Insertion'
      <3>1. CASE InsertNow
        <4>1. ~inserted /\ inserted'
          BY <2>2, <3>1, Zenon DEF InsertNow
        <4>2. Insertion = 0 /\ Insertion' = Room(LastBody)
          BY <4>1 DEF Insertion
        <4> QED BY <1>0, <3>1, <4>2 DEF CopyAt
      <3>2. CASE ~InsertNow
        <4>1. inserted' = inserted
          BY <1>0, <2>2, <3>2 DEF TypeOK
        <4> QED BY <1>0, <3>2, <4>1 DEF CopyAt, Insertion
      <3> QED BY <3>1, <3>2
    <2>6. input.pos[i + 1] = Offset + Room(Tag.body) /\ Offset \in Nat /\ Room(Tag.body) \in Nat
      BY <1>0, <2>2, <2>4, ReadingFacts, RoomType
    <2>7. outSize = Offset + Insertion
                    + (IF onMetaSize = 0 \/ onMetaOffset < Offset THEN Replacement ELSE 0)
      BY <1>0, <1>4, <2>2 DEF SizeInv, Reading, Offset
    <2>8. onMetaSize = 0 \/ onMetaOffset < input.pos[i + 1]
            <=> onMetaSize = 0 \/ onMetaOffset < Offset
      BY <1>0, <2>2, <2>4, ReplacedFacts DEF Offset
    <2>9. Insertion' \in Nat
      BY <1>0 DEF Insertion
    <2>10. outSize' = input.pos[i + 1] + Insertion'
             + (IF onMetaSize = 0 \/ onMetaOffset < input.pos[i + 1] THEN Replacement ELSE 0)
      <3>1. CASE onMetaSize = 0 \/ onMetaOffset < Offset
        BY <1>0, <2>3, <2>5, <2>6, <2>7, <2>8, <2>9, <3>1
      <3>2. CASE ~(onMetaSize = 0 \/ onMetaOffset < Offset)
        BY <1>0, <2>3, <2>5, <2>6, <2>7, <2>8, <2>9, <3>2
      <3> QED BY <3>1, <3>2
    <2> QED BY <2>2, <2>3, <2>10, InfoKept DEF SizeInv, Finished
  <1>5. CASE CopyTag /\ ~Sound
    <2>1. ~Sound'
      BY <1>5, CopySteps, InfoKept
    <2> QED BY <2>1 DEF SizeInv
  <1>6. CASE EndOfCopy
    <2>1. /\ pc = "COPY" /\ i = Count + 1 /\ pc' = "DONE"
          /\ UNCHANGED <<input, opts, infoVars, metaVars, outVars>>
      BY <1>a, <1>6 DEF EndOfCopy, Stop, Count
    <2>2. onMetaSize # 0 => onMetaOffset < input.pos[Count + 1]
      <3>1. Count + 1 \in 1 .. Count + 1
        BY <1>a
      <3> QED BY <1>0, <3>1, ReplacedFacts
    <2>3. Sound => outSize = input.pos[Count + 1] + Insertion + Replacement
      BY <1>0, <2>1, <2>2 DEF SizeInv
    <2>4. Insertion' = Insertion /\ outSize' = outSize
      BY <2>1 DEF Insertion, outVars
    <2> QED BY <2>1, <2>3, <2>4, InfoKept DEF SizeInv
  <1>7. CASE UNCHANGED vars
    <2>1. UNCHANGED <<input, opts, pc, i, result, infoVars, metaVars, outVars>>
      BY <1>7 DEF vars
    <2>2. Insertion' = Insertion /\ outSize' = outSize /\ Finished' = Finished
      BY <2>1 DEF Insertion, outVars, Finished
    <2> QED BY <1>0, <2>1, <2>2, InfoKept DEF SizeInv
  <1> QED BY <1>1, <1>2, <1>3, <1>4, <1>5, <1>6, <1>7 DEF Next

(* The second pass gives a tag the timestamp the first one gave it, from   *)
(* the first tag that is not metadata on.                                  *)
LEMMA CopyTimeFacts ==
  ASSUME TypeOK, ClockInv, Reading("COPY")
  PROVE  /\ CopyTime = TimeOf(i)
         /\ Known(input) /\ i = Count => CopyTime = lastTime
  <1>1. i \in 1 .. Count /\ pc = "COPY"
    BY ReadingFacts DEF Count, Reading
  <1>2. CopyTime = TimeOf(i)
    BY <1>1 DEF ClockInv, CopyTime, TimeOf, Tag
  <1>3. Len(seen) = Count /\ DOMAIN seen = 1 .. Count
    BY <1>1, SeenFacts DEF ClockInv, Scanned
  <1>4. ASSUME Known(input), i = Count PROVE CopyTime = lastTime
    <2>1. i \in DOMAIN seen /\ i = Len(seen) /\ seen # <<>>
      BY <1>1, <1>3, <1>4
    <2>2. seen[i].time = TimeOf(i) /\ lastTime = seen[i].time
      BY <1>1, <1>4, <2>1 DEF ClockInv, Scanned
    <2> QED BY <1>2, <2>2
  <1> QED BY <1>2, <1>4

LEMMA ZeroMod == ASSUME NEW n \in Nat \ {0} PROVE 0 % n = 0
  OBVIOUS

LEMMA PlacedStep ==
  ASSUME UpdateInv, TypeOK', [Next]_vars
  PROVE  PlacedInv'
  <1>0. TypeOK /\ AccountInv /\ ReplacedInv /\ ClockInv /\ PlacedInv
    BY DEF UpdateInv, OutputInv
  <1>a. Count \in Nat /\ i \in 1 .. Count + 1 /\ input \in Inputs
    <2>1. input \in Inputs /\ i \in 1 .. Len(input.tags) + 1
      BY <1>0 DEF TypeOK
    <2> QED BY <2>1, InputFacts DEF Count
  <1>1. CASE ReadHeader \/ ScanMeta \/ ScanVideo \/ ScanAudio \/ ScanOther \/ Compute
             \/ WriteFails
    <2>1. pc' \in {"SCAN", "WRITE"} \/ (pc' = "DONE" /\ result' # "OK")
      BY <1>1 DEF ReadHeader, ScanMeta, ScanVideo, ScanAudio, ScanOther, Compute,
         WriteFails, Stop, Continue, Reading
    <2> QED BY <2>1 DEF PlacedInv, Finished
  <1>2. CASE WriteHeader
    <2>1. /\ UNCHANGED <<input, opts, infoVars, metaVars, inserted>>
          /\ pc' = "COPY" /\ i' = 1
      BY <1>2 DEF WriteHeader
    <2>2. LastTagCopied => Count > 0
      <3>1. DOMAIN input.tags = 1 .. Count
        BY <1>a, InputFacts DEF Count
      <3>2. \E E : input.tags \in Seq(E)
        BY <1>a, UpdateInputs DEF IsInput
      <3> QED BY <1>a, <3>1, <3>2 DEF LastTagCopied, Count
    <2>3. ASSUME LastTagCopied PROVE i' # Count' + 1
      BY <1>a, <2>1, <2>2, <2>3, InfoKept
    <2> QED BY <2>1, <2>3, InfoKept DEF PlacedInv, Finished
  <1>3. CASE ReplaceMetaData
    <2>1. /\ UNCHANGED <<input, opts, infoVars, metaVars, inserted>>
          /\ Reading("COPY") /\ Offset = onMetaOffset
          /\ pc' = "COPY" /\ i' = i + 1
      BY <1>3 DEF ReplaceMetaData, Continue, Reading
    <2>2. i = Count => ~LastTagCopied
      BY <2>1 DEF LastTagCopied, Offset, Count
    <2>3. LastTagCopied => i' # Count' + 1
      BY <1>a, <2>1, <2>2, InfoKept
    <2> QED BY <2>1, <2>3, InfoKept DEF PlacedInv, Finished
  <1>4. CASE CopyTag
    <2>1. /\ UNCHANGED <<input, opts, infoVars, metaVars>>
          /\ Reading("COPY")
          /\ inserted' = (inserted \/ InsertNow)
      BY <1>4, CopySteps
    <2>2. CASE ~Sound
      BY <2>1, <2>2, InfoKept DEF PlacedInv
    <2>3. CASE ~ToInsert
      BY <2>1, <2>3, InfoKept DEF PlacedInv
    <2>4. CASE Sound /\ ToInsert
      <3>1. pc' = "COPY" /\ i' = i + 1
        BY <1>0, <1>4, <2>1, <2>4, CopyWhole DEF Continue, Reading
      <3>2. ASSUME i = Count PROVE inserted'
        <4>1. CopyTime = lastTime
          BY <1>0, <2>1, <2>4, <3>2, CopyTimeFacts DEF Sound
        <4>2. lastTime \in Int
          BY <1>0, TsRangePositive DEF TypeOK
        <4>3. (lastTime - CopyTime) % TsRange <= LastSecond
          <5>1. lastTime - CopyTime = 0
            BY <4>1, <4>2
          <5> QED BY <5>1, ZeroMod, TsRangePositive
        <4> QED BY <2>1, <2>4, <4>3, Zenon DEF InsertNow
      <3>3. Count' = Count
        BY <2>1, InfoKept
      <3>4. i' = Count' + 1 => i = Count
        BY <1>a, <3>1, <3>3
      <3> QED BY <3>1, <3>2, <3>4 DEF PlacedInv, Finished
    <2> QED BY <2>2, <2>3, <2>4
  <1>5. CASE EndOfCopy
    <2>1. /\ pc = "COPY" /\ i = Count + 1
          /\ UNCHANGED <<input, opts, infoVars, metaVars, outVars>> /\ pc' = "DONE"
      BY <1>a, <1>5 DEF EndOfCopy, Stop, Count
    <2>2. inserted' = inserted
      BY <2>1 DEF outVars
    <2> QED BY <1>0, <2>1, <2>2, InfoKept DEF PlacedInv
  <1>6. CASE UNCHANGED vars
    <2>1. UNCHANGED <<input, opts, pc, i, result, infoVars, metaVars, outVars>>
      BY <1>6 DEF vars
    <2>2. inserted' = inserted /\ Finished' = Finished
      BY <2>1 DEF outVars, Finished
    <2> QED BY <1>0, <2>1, <2>2, InfoKept DEF PlacedInv
  <1> QED BY <1>1, <1>2, <1>3, <1>4, <1>5, <1>6 DEF Next

(* What a tag appended to the output leaves of the tags before it.         *)
LEMMA OutFacts ==
  ASSUME NEW s \in Seq(Entries), NEW e
  PROVE  /\ DOMAIN s = 1 .. Len(s) /\ Len(s) \in Nat
         /\ DOMAIN Append(s, e) = 1 .. Len(s) + 1
         /\ Append(s, e)[Len(s) + 1] = e
         /\ \A k \in 1 .. Len(s) : Append(s, e)[k] = s[k]
  <1> DEFINE Kind == Entries
  <1>1. s \in Seq(Kind)
    OBVIOUS
  <1> HIDE DEF Kind
  <1> QED BY <1>1

CopyOK(e) == e.kind = "COPY" => e.index \in 1 .. Count /\ e.time = TimeOf(e.index)
AllCopies(s) == \A k \in DOMAIN s : CopyOK(s[k])

LEMMA AppendCopies ==
  ASSUME NEW s \in Seq(Entries), AllCopies(s), NEW e, CopyOK(e)
  PROVE  AllCopies(Append(s, e))
  <1> SUFFICES ASSUME NEW k \in DOMAIN Append(s, e) PROVE CopyOK(Append(s, e)[k])
    BY DEF AllCopies
  <1>1. CASE k = Len(s) + 1
    BY <1>1, OutFacts
  <1>2. CASE k \in 1 .. Len(s)
    <2>1. CopyOK(s[k])
      BY <1>2, OutFacts DEF AllCopies
    <2> QED BY <1>2, <2>1, OutFacts
  <1> QED BY <1>1, <1>2, OutFacts

LEMMA CopiesStep ==
  ASSUME UpdateInv, TypeOK', [Next]_vars
  PROVE  CopiesInv'
  <1>0. /\ TypeOK /\ ClockInv /\ InsertedInv /\ CopiesInv /\ out \in Seq(Entries)
        /\ outSize \in Nat
    BY Naturals, Zenon DEF UpdateInv, OutputInv, TypeOK
  <1>1. CASE ReadHeader \/ ScanMeta \/ ScanVideo \/ ScanAudio \/ ScanOther \/ Compute
    <2>1. pc \in {"OPEN", "SCAN"} /\ out' = out
      BY <1>1 DEF ReadHeader, ScanMeta, ScanVideo, ScanAudio, ScanOther, Compute,
         ScanTag, Reading, outVars
    <2>2. out' = <<>>
      BY <1>0, <2>1 DEF InsertedInv
    <2> QED BY <2>2 DEF CopiesInv
  <1>2. CASE WriteHeader
    <2>1. out' = <<>> \/ \E at \in Nat : out' = <<NewMetaData(at)>>
      BY <1>2 DEF WriteHeader
    <2>2. \A k \in DOMAIN out' : out'[k].kind # "COPY"
      BY <2>1 DEF NewMetaData, Entry
    <2> QED BY <2>2 DEF CopiesInv
  <1>3. ASSUME Reading("COPY") PROVE AllCopies(out)
    BY <1>0, <1>3 DEF CopiesInv, AllCopies, CopyOK, Reading
  <1>4. ASSUME UNCHANGED <<input, opts, infoVars, metaVars>>, AllCopies(out')
        PROVE  CopiesInv'
    <2> SUFFICES ASSUME NEW k \in DOMAIN out', out'[k].kind = "COPY"
                 PROVE  /\ out'[k].index \in 1 .. Count'
                        /\ out'[k].time = TimeOf(out[k].index)'
      BY DEF CopiesInv
    <2>1. out'[k].index \in 1 .. Count /\ out'[k].time = TimeOf(out'[k].index)
      BY <1>4 DEF AllCopies, CopyOK
    <2>2. Count' = Count
      BY SMTT(30), <1>4, InfoKept
    <2>3. TimeOf(out[k].index)' = TimeOf(out'[k].index)
      BY <1>4, InfoKept DEF TimeOf, Rebased, Recovered, Prior
    <2> QED BY <2>1, <2>2, <2>3
  <1>5. CASE ReplaceMetaData
    <2>1. /\ Reading("COPY") /\ out' = Append(out, NewMetaData(outSize))
          /\ UNCHANGED <<input, opts, infoVars, metaVars>>
      BY <1>5 DEF ReplaceMetaData
    <2>2. CopyOK(NewMetaData(outSize))
      BY DEF CopyOK, NewMetaData, Entry
    <2>3. AllCopies(out')
      BY <1>0, <1>3, <2>1, <2>2, AppendCopies
    <2> QED BY <1>4, <2>1, <2>3
  <1>6. CASE CopyTag
    <2>1. /\ UNCHANGED <<input, opts, infoVars, metaVars>> /\ Reading("COPY")
          /\ Omit \/ \E bytes : Put(bytes)
      BY <1>6, CopySteps, Zenon
    <2>2. Preceding \in Seq(Entries)
      BY <1>0, <2>1, PrecedingTypes
    <2>3. AllCopies(Preceding)
      <3>1. CopyOK(NewLastSecond(outSize, CopyTime))
        BY DEF CopyOK, NewLastSecond, Entry
      <3>2. CASE InsertNow
        BY <1>0, <1>3, <2>1, <3>1, <3>2, AppendCopies DEF Preceding
      <3>3. CASE ~InsertNow
        BY <1>3, <2>1, <3>3 DEF Preceding
      <3> QED BY <3>2, <3>3
    <2>4. ASSUME NEW bytes
          PROVE  CopyOK(Entry("COPY", i, CopyAt, Tag.body, bytes, CopyTime))
      <3>1. i \in 1 .. Count /\ CopyTime = TimeOf(i)
        BY <1>0, <2>1, ReadingFacts, CopyTimeFacts DEF Count
      <3> QED BY <3>1 DEF CopyOK, Entry
    <2>5. AllCopies(out')
      <3>1. CASE Omit
        BY <2>3, <3>1 DEF Omit
      <3>2. ASSUME NEW bytes, Put(bytes) PROVE AllCopies(out')
        <4>1. CopyOK(Entry("COPY", i, CopyAt, Tag.body, bytes, CopyTime))
          BY <2>4
        <4> QED BY <2>2, <2>3, <3>2, <4>1, AppendCopies DEF Put
      <3> QED BY <2>1, <3>1, <3>2
    <2> QED BY <1>4, <2>1, <2>5
  <1>7. CASE EndOfCopy
    <2>1. /\ pc = "COPY" /\ UNCHANGED <<input, opts, infoVars, metaVars, outVars>>
      BY <1>7 DEF EndOfCopy
    <2>2. AllCopies(out) /\ out' = out
      BY <1>0, <2>1 DEF CopiesInv, AllCopies, CopyOK, outVars
    <2>3. AllCopies(out')
      BY <2>2
    <2> QED BY <1>4, <2>1, <2>3
  <1>8. CASE WriteFails \/ UNCHANGED vars
    <2>1. UNCHANGED <<input, opts, infoVars, metaVars, outVars>>
      BY <1>8 DEF WriteFails, vars
    <2>2. pc' = "COPY" \/ Finished' => pc = "COPY" \/ Finished
      BY <1>8 DEF WriteFails, Stop, Finished, vars
    <2>3. Count' = Count /\ out' = out
      BY <2>1, InfoKept DEF outVars
    <2> SUFFICES ASSUME NEW k \in DOMAIN out, out[k].kind = "COPY"
                 PROVE  /\ out[k].index \in 1 .. Count
                        /\ pc' = "COPY" \/ Finished' => out[k].time = TimeOf(out[k].index)'
      BY SMTT(30), <2>3 DEF CopiesInv
    <2>4. TimeOf(out[k].index)' = TimeOf(out[k].index)
      BY <2>1, <2>3, InfoKept DEF TimeOf, Rebased, Recovered, Prior
    <2> QED BY <1>0, <2>2, <2>4 DEF CopiesInv
  <1> QED BY <1>1, <1>2, <1>5, <1>6, <1>7, <1>8 DEF Next

----------------------------------------------------------------------------
(* What stops an update that neither fixes nor ignores errors.             *)
LEMMA KnownTypes ==
  ASSUME TypeOK, NEW k \in 1 .. Count
  PROVE  /\ IsTag(input.tags[k]) /\ DOMAIN input.tags = 1 .. Count /\ Count \in Nat
         /\ input.tags[k].body \in Nat /\ input.tags[k].there \in 0 .. input.tags[k].body
  <1>1. IsTag(input.tags[k]) /\ DOMAIN input.tags = 1 .. Count /\ Count \in Nat
    BY InputFacts DEF TypeOK, Count
  <1> QED BY <1>1 DEF IsTag

LEMMA PassableIsKnown ==
  ASSUME TypeOK, \A k \in 1 .. Count : Passable(input.tags[k])
  PROVE  Known(input)
  <1>1. DOMAIN input.tags = 1 .. Count
    BY InputFacts DEF TypeOK, Count
  <1> QED BY <1>1 DEF Passable, Known

LEMMA ErrorsScan ==
  ASSUME TypeOK, ErrorsInv, Reading("SCAN"), ScanTag, Continue,
         opts.onError = "EXIT" => Passable(Tag)
  PROVE  ErrorsInv'
  <1>1. /\ i' = i + 1 /\ pc = "SCAN" /\ pc' = "SCAN" /\ input' = input /\ opts' = opts
        /\ i \in 1 .. Count
    BY ReadingFacts DEF Reading, Continue, ScanTag, Count
  <1> SUFFICES ASSUME opts.onError = "EXIT", NEW k \in 1 .. i' - 1
               PROVE  Passable(input.tags[k])
    BY <1>1 DEF ErrorsInv, Scanned, Finished
  <1>2. k = i \/ k \in 1 .. i - 1
    BY <1>1
  <1>3. \A m \in 1 .. i - 1 : Passable(input.tags[m])
    BY <1>1 DEF ErrorsInv
  <1> QED BY <1>2, <1>3 DEF Tag

LEMMA ErrorsStep ==
  ASSUME UpdateInv, TypeOK', [Next]_vars
  PROVE  ErrorsInv'
  <1>0. TypeOK /\ ErrorsInv /\ ClockInv /\ AccountInv
    BY DEF UpdateInv
  <1>a. Count \in Nat /\ i \in 1 .. Count + 1 /\ input \in Inputs
    <2>1. input \in Inputs /\ i \in 1 .. Len(input.tags) + 1
      BY <1>0 DEF TypeOK
    <2> QED BY <2>1, InputFacts DEF Count
  <1>b. ASSUME pc' \notin {"SCAN", "WRITE", "COPY"}, ~Finished' PROVE ErrorsInv'
    BY <1>b DEF ErrorsInv, Scanned
  <1>c. ASSUME NEW error, Stop(error), error # "OK" PROVE ErrorsInv'
    BY <1>b, <1>c DEF Stop, Finished
  <1>1. CASE ReadHeader
    <2>1. CASE pc' = "DONE" /\ result' # "OK"
      BY <1>b, <2>1 DEF Finished
    <2>2. CASE pc' = "SCAN"
      <3>1. pc = "OPEN" /\ i' = i
        BY <1>1 DEF ReadHeader
      <3>2. i' = 1
        BY <1>0, <3>1 DEF ClockInv
      <3> QED BY <2>2, <3>2 DEF ErrorsInv, Scanned, Finished
    <2> QED BY <1>1, <2>1, <2>2 DEF ReadHeader
  <1>2. CASE ScanMeta
    <2>1. Reading("SCAN") /\ ScanTag /\ Tag.type = "META"
      BY <1>2 DEF ScanMeta
    <2>2. \/ Stop("ERROR_EOF") \/ Stop("ERROR_INVALID_TAG")
          \/ /\ Continue
             /\ Tag.body > 0 => /\ Tag.read # "EOF"
                                /\ Tag.read = "BAD_DATA" => opts.onError # "EXIT"
      BY <1>2 DEF ScanMeta
    <2>3. CASE Stop("ERROR_EOF") \/ Stop("ERROR_INVALID_TAG")
      BY <1>c, <2>3
    <2>4. CASE /\ Continue
               /\ Tag.body > 0 => /\ Tag.read # "EOF"
                                  /\ Tag.read = "BAD_DATA" => opts.onError # "EXIT"
      <3>1. opts.onError = "EXIT" => Passable(Tag)
        BY <2>1, <2>4 DEF Passable, Media
      <3> QED BY <1>0, <2>1, <2>4, <3>1, ErrorsScan
    <2> QED BY <2>2, <2>3, <2>4
  <1>3. CASE ScanVideo \/ ScanAudio
    <2>1. Reading("SCAN") /\ ScanTag /\ Tag.type \in {"AUDIO", "VIDEO"}
      BY <1>3 DEF ScanVideo, ScanAudio
    <2>2. Stop("ERROR_EOF") \/ (Continue /\ (Tag.body > 0 => Tag.decodes))
      BY <1>3 DEF ScanVideo, ScanAudio
    <2>3. CASE Continue /\ (Tag.body > 0 => Tag.decodes)
      <3>1. Passable(Tag)
        BY <2>1, <2>3 DEF Passable, Media
      <3> QED BY <1>0, <2>1, <2>3, <3>1, ErrorsScan
    <2> QED BY <1>c, <2>2, <2>3
  <1>4. CASE ScanOther
    <2>1. Reading("SCAN") /\ ScanTag
      BY <1>4 DEF ScanOther
    <2>2. Stop("ERROR_INVALID_TAG") \/ (Continue /\ opts.onError # "EXIT")
      BY <1>4 DEF ScanOther
    <2> QED BY <1>0, <1>c, <2>1, <2>2, ErrorsScan
  <1>5. CASE Compute
    <2>1. pc = "SCAN" /\ pc' = "WRITE" /\ i > Count /\ UNCHANGED <<input, opts>>
      BY <1>5 DEF Compute, Count
    <2>2. i - 1 = Count /\ Count' = Count
      BY <1>a, <2>1 DEF Count
    <2> QED BY <1>0, <2>1, <2>2 DEF ErrorsInv, Finished
  <1>6. CASE WriteHeader
    <2>1. pc = "WRITE" /\ pc' = "COPY" /\ i' = 1 /\ UNCHANGED <<input, opts>>
      BY <1>6 DEF WriteHeader
    <2>2. Count' = Count
      BY <2>1 DEF Count
    <2> QED BY <1>0, <2>1, <2>2 DEF ErrorsInv, Scanned, Finished
  <1>7. ASSUME Reading("COPY"), Continue, UNCHANGED <<input, opts, infoVars, metaVars>>,
               opts.onError = "EXIT" => Uncut(i)
        PROVE  ErrorsInv'
    <2>1. /\ pc = "COPY" /\ pc' = "COPY" /\ i' = i + 1 /\ i \in 1 .. Count /\ Count' = Count
          /\ input' = input /\ opts' = opts /\ onMetaOffset' = onMetaOffset
      BY <1>0, <1>7, ReadingFacts, InfoKept DEF Reading, Continue, Count
    <2> SUFFICES ASSUME opts.onError = "EXIT"
                 PROVE  /\ \A k \in 1 .. Count : Passable(input.tags[k])
                        /\ \A k \in 1 .. i : Uncut(k)
      BY <2>1 DEF ErrorsInv, Finished, Uncut
    <2>2. \A k \in 1 .. Count : Passable(input.tags[k])
      BY <1>0, <2>1 DEF ErrorsInv, Scanned
    <2>3. \A k \in 1 .. i - 1 : Uncut(k)
      BY <1>0, <2>1 DEF ErrorsInv
    <2>4. \A k \in 1 .. i : k = i \/ k \in 1 .. i - 1
      BY <2>1
    <2> QED BY <1>7, <2>2, <2>3, <2>4
  <1>8. CASE ReplaceMetaData
    <2>1. /\ Reading("COPY") /\ Continue /\ Offset = onMetaOffset
          /\ UNCHANGED <<input, opts, infoVars, metaVars>>
      BY <1>8 DEF ReplaceMetaData
    <2> QED BY <1>7, <2>1 DEF Uncut, Offset
  <1>9. CASE CopyTag
    <2>1. /\ Reading("COPY") /\ UNCHANGED <<input, opts, infoVars, metaVars>>
      BY <1>9, CopySteps
    <2>2. opts' = opts
      BY <2>1
    <2>3. CASE opts.onError # "EXIT"
      BY <2>2, <2>3 DEF ErrorsInv
    <2>4. CASE opts.onError = "EXIT"
      <3> DEFINE count == ToCopy(Tag.body)
                 read  == Lesser(count, Tag.there)
      <3>1. i \in 1 .. Count /\ pc = "COPY"
        BY <1>0, <2>1, ReadingFacts DEF Count, Reading
      <3>2. Known(input)
        BY <1>0, <2>4, <3>1, PassableIsKnown DEF ErrorsInv, Scanned
      <3>3. Tag.body <= biggest /\ biggest \in Nat
        BY <1>0, <3>1, <3>2 DEF AccountInv, Scanned, Tag, TypeOK
      <3>4. Tag.body \in Nat /\ Tag.there \in 0 .. Tag.body
        BY <1>0, <2>1, ReadingFacts
      <3>5. count = Tag.body /\ read = Tag.there
        BY <3>3, <3>4 DEF ToCopy, Lesser
      <3>6. \/ read = count /\ Continue
            \/ Stop("ERROR_EOF")
        BY <1>9, <2>4 DEF CopyTag
      <3> HIDE DEF count, read
      <3>7. CASE Stop("ERROR_EOF")
        BY <1>c, <3>7
      <3>8. CASE read = count /\ Continue
        BY <1>7, <2>1, <3>5, <3>8 DEF Uncut, Tag
      <3> QED BY <3>6, <3>7, <3>8
    <2> QED BY <2>3, <2>4
  <1>10. CASE EndOfCopy
    <2>1. /\ pc = "COPY" /\ i > Count /\ pc' = "DONE"
          /\ UNCHANGED <<input, opts, infoVars, metaVars>>
      BY <1>10 DEF EndOfCopy, Stop, Count
    <2>2. i - 1 = Count /\ Count' = Count /\ onMetaOffset' = onMetaOffset
      BY <1>a, <2>1, InfoKept
    <2>3. \A k \in 1 .. Count : Uncut(k)' = Uncut(k)
      BY <2>1, <2>2 DEF Uncut
    <2> QED BY <1>0, <2>1, <2>2, <2>3 DEF ErrorsInv, Scanned
  <1>11. CASE WriteFails
    <2>1. Stop("ERROR_WRITE")
      BY <1>11 DEF WriteFails
    <2> QED BY <1>c, <2>1
  <1>12. CASE UNCHANGED vars
    BY <1>0, <1>12 DEF vars, infoVars, scanVars, ErrorsInv, Uncut, Scanned, Finished, Count
  <1> QED BY <1>1, <1>2, <1>3, <1>4, <1>5, <1>6, <1>8, <1>9, <1>10, <1>11, <1>12 DEF Next

----------------------------------------------------------------------------
(* Sums of sequences of integers.                                          *)
LEMMA SetInduction ==
  ASSUME NEW S \in SUBSET Nat, 0 \in S, \A n \in S : n + 1 \in S
  PROVE  S = Nat
  <1> HIDE UpdateSizes
  <1> DEFINE R == OpToRel(<, Nat)
             T == Nat \ S
  <1>1. IsWellFoundedOn(R, Nat)
    BY NatLessThanWellFounded, Zenon
  <1>2. ASSUME T # {} PROVE FALSE
    <2>1. \E x \in T : \A y \in T : ~(<<y, x>> \in R)
      <3>1. T \subseteq Nat
        OBVIOUS
      <3> HIDE DEF R, T
      <3> QED BY <1>1, <1>2, <3>1, WFMin
    <2>2. PICK x \in T : \A y \in T : ~(<<y, x>> \in R)
      BY <2>1
    <2>3. \A y \in T : ~(y < x)
      BY <2>2, Zenon DEF OpToRel
    <2>4. x # 0 /\ x - 1 \in Nat
      OBVIOUS
    <2>5. x - 1 \in T
      BY <2>4
    <2> QED BY <2>3, <2>4, <2>5
  <1> QED BY <1>2

(* f holds the sums of the beginnings of w.                                *)
Sums(w, f) ==
  /\ f \in [0 .. Len(w) -> Int] /\ f[0] = 0
  /\ \A n \in 1 .. Len(w) : f[n] = f[n - 1] + w[n]

LEMMA TotalSums ==
  ASSUME NEW w \in Seq(Int), NEW f, Sums(w, f)
  PROVE  Total(w) = f[Len(w)]
  <1> DEFINE N == Len(w)
             sum[n \in 0 .. N] == IF n = 0 THEN 0 ELSE sum[n - 1] + w[n]
  <1>1. Total(w) = sum[N]
    BY DEF Total
  <1>2. N \in Nat
    OBVIOUS
  <1>3. /\ f \in [0 .. N -> Int] /\ f[0] = 0
        /\ \A n \in 1 .. N : f[n] = f[n - 1] + w[n]
    BY DEF Sums
  <1> HIDE DEF N
  <1>4. f = [n \in 0 .. N |-> IF n = 0 THEN 0 ELSE f[n - 1] + w[n]]
    <2>1. \A n \in 0 .. N : f[n] = IF n = 0 THEN 0 ELSE f[n - 1] + w[n]
      BY <1>2, <1>3
    <2> QED BY <1>3, <2>1
  <1>5. sum = [n \in 0 .. N |-> IF n = 0 THEN 0 ELSE sum[n - 1] + w[n]]
    BY <1>4
  <1> HIDE DEF sum
  <1> DEFINE S == {n \in Nat : n \in 0 .. N => sum[n] = f[n]}
  <1>6. 0 \in S
    BY <1>2, <1>3, <1>5
  <1>7. \A n \in S : n + 1 \in S
    <2> SUFFICES ASSUME NEW n \in S, n + 1 \in 0 .. N PROVE sum[n + 1] = f[n + 1]
      OBVIOUS
    <2>1. n \in 0 .. N /\ n + 1 \in 1 .. N /\ n + 1 # 0 /\ (n + 1) - 1 = n
      BY <1>2
    <2>2. sum[n] = f[n]
      BY <2>1
    <2>3. sum[n + 1] = sum[(n + 1) - 1] + w[n + 1]
      BY <1>5, <2>1
    <2> QED BY <1>3, <2>1, <2>2, <2>3
  <1>8. S = Nat
    <2>1. S \in SUBSET Nat
      OBVIOUS
    <2> HIDE DEF S
    <2> QED BY <1>6, <1>7, <2>1, SetInduction
  <1> QED BY <1>1, <1>2, <1>8 DEF N

LEMMA SumsAppend ==
  ASSUME NEW w \in Seq(Int), NEW f, Sums(w, f), NEW x \in Int
  PROVE  \E g : Sums(Append(w, x), g) /\ g[Len(w) + 1] = f[Len(w)] + x
  <1> DEFINE N == Len(w)
             v == Append(w, x)
             g == [n \in 0 .. N + 1 |-> IF n = N + 1 THEN f[N] + x ELSE f[n]]
  <1>1. N \in Nat /\ Len(v) = N + 1 /\ v[N + 1] = x /\ \A k \in 1 .. N : v[k] = w[k]
    BY AppendType
  <1>2. /\ f \in [0 .. N -> Int] /\ f[0] = 0
        /\ \A n \in 1 .. N : f[n] = f[n - 1] + w[n]
    BY DEF Sums
  <1> HIDE DEF N, v
  <1>3. g \in [0 .. N + 1 -> Int] /\ g[0] = 0 /\ g[N + 1] = f[N] + x
    BY <1>1, <1>2
  <1>4. ASSUME NEW n \in 1 .. N + 1 PROVE g[n] = g[n - 1] + v[n]
    <2>1. CASE n = N + 1
      BY <1>1, <1>2, <2>1
    <2>2. CASE n \in 1 .. N
      BY <1>1, <1>2, <2>2
    <2> QED BY <1>1, <2>1, <2>2
  <1> HIDE DEF g
  <1>5. Sums(v, g)
    BY <1>1, <1>3, <1>4 DEF Sums
  <1> QED BY <1>3, <1>5 DEF v, N

LEMMA SumsExist ==
  ASSUME NEW w \in Seq(Int)
  PROVE  \E f : Sums(w, f)
  <1>1. ASSUME NEW v \in Seq(Int), Len(v) = 0 PROVE \E f : Sums(v, f)
    <2>1. Sums(v, [n \in 0 .. 0 |-> 0])
      BY <1>1 DEF Sums
    <2> QED BY <2>1
  <1>2. ASSUME NEW n \in Nat, \A u \in Seq(Int) : Len(u) = n => \E f : Sums(u, f),
               NEW v \in Seq(Int), Len(v) = n + 1
        PROVE  \E f : Sums(v, f)
    <2>1. v # <<>>
      <3>1. Len(v) # 0 /\ Len(<<>>) = 0
        BY <1>2
      <3> QED BY <3>1
    <2>2. PICK u \in Seq(Int), x \in Int : v = Append(u, x)
      <3> DEFINE Z == Int
      <3>1. v \in Seq(Z)
        OBVIOUS
      <3> HIDE DEF Z
      <3>2. \E u \in Seq(Z), x \in Z : v = Append(u, x)
        BY ONLY <2>1, <3>1, SequenceEmptyOrAppend
      <3> QED BY <3>2 DEF Z
    <2>3. Len(u) = n
      BY <1>2, <2>2
    <2>4. PICK f : Sums(u, f)
      BY <1>2, <2>3
    <2> QED BY <2>2, <2>4, SumsAppend
  <1> DEFINE S == {n \in Nat : \A v \in Seq(Int) : Len(v) = n => \E f : Sums(v, f)}
  <1>3. 0 \in S
    BY <1>1
  <1>4. ASSUME NEW n \in S PROVE n + 1 \in S
    <2>1. n \in Nat /\ \A u \in Seq(Int) : Len(u) = n => \E f : Sums(u, f)
      OBVIOUS
    <2>2. \A v \in Seq(Int) : Len(v) = n + 1 => \E f : Sums(v, f)
      BY <1>2, <2>1
    <2> QED BY <2>1, <2>2
  <1>5. S = Nat
    <2>1. S \in SUBSET Nat
      OBVIOUS
    <2> HIDE DEF S
    <2> QED BY <1>3, <1>4, <2>1, SetInduction
  <1>6. Len(w) \in Nat
    OBVIOUS
  <1> QED BY <1>5, <1>6

(* The sum of an empty sequence, and of one that grows.                    *)
LEMMA TotalFacts ==
  ASSUME NEW w \in Seq(Int), NEW x \in Int
  PROVE  /\ w = <<>> => Total(w) = 0
         /\ Total(w) \in Int
         /\ Total(Append(w, x)) = Total(w) + x
  <1>1. PICK f : Sums(w, f)
    BY SumsExist
  <1>2. Total(w) = f[Len(w)] /\ Len(w) \in Nat
    BY <1>1, TotalSums
  <1>3. PICK g : Sums(Append(w, x), g) /\ g[Len(w) + 1] = f[Len(w)] + x
    BY <1>1, SumsAppend
  <1>4. Append(w, x) \in Seq(Int) /\ Len(Append(w, x)) = Len(w) + 1
    OBVIOUS
  <1>5. Total(Append(w, x)) = g[Len(w) + 1]
    BY <1>3, <1>4, TotalSums
  <1> QED BY <1>1, <1>2, <1>3, <1>5 DEF Sums

(* The sizes of the metadata tags of the input.                            *)
LEMMA MetaTagType ==
  ASSUME TypeOK, NEW k \in 1 .. Count
  PROVE  MetaTag(k) \in Nat
  <1>1. input.tags[k].body \in Nat
    BY KnownTypes
  <1> QED BY <1>1 DEF MetaTag

LEMMA TotalNext ==
  ASSUME NEW n \in Nat, NEW f, \A k \in 1 .. n + 1 : f[k] \in Int
  PROVE  /\ Total([k \in 1 .. n |-> f[k]]) \in Int
         /\ Total([k \in 1 .. n + 1 |-> f[k]]) = Total([k \in 1 .. n |-> f[k]]) + f[n + 1]
  <1> DEFINE u == [k \in 1 .. n |-> f[k]]
             x == f[n + 1]
             v == [k \in 1 .. n + 1 |-> f[k]]
  <1>1. u \in Seq(Int) /\ Len(u) = n /\ v \in Seq(Int) /\ Len(v) = n + 1
    OBVIOUS
  <1>2. v[n + 1] = x /\ \A k \in 1 .. n : v[k] = u[k]
    OBVIOUS
  <1>3. x \in Int
    OBVIOUS
  <1> HIDE DEF u, v, x
  <1>4. /\ Append(u, x) \in Seq(Int) /\ Len(Append(u, x)) = n + 1
        /\ \A k \in 1 .. n + 1 : v[k] = Append(u, x)[k]
    BY <1>1, <1>2, <1>3
  <1>5. v = Append(u, x)
    BY <1>1, <1>4, SeqEqual
  <1>6. Total(u) \in Int /\ Total(Append(u, x)) = Total(u) + x
    BY <1>1, <1>3, TotalFacts
  <1> QED BY <1>5, <1>6 DEF u, v, x

LEMMA TotalEmpty == Total(<<>>) = 0
  <1>1. <<>> \in Seq(Int) /\ 0 \in Int
    OBVIOUS
  <1> QED BY <1>1, TotalFacts

LEMMA MetaUpToFacts ==
  ASSUME TypeOK, NEW n \in 0 .. Count
  PROVE  /\ MetaUpTo(0) = 0 /\ MetaUpTo(n) \in Int
         /\ n < Count => MetaUpTo(n + 1) = MetaUpTo(n) + MetaTag(n + 1)
  <1> DEFINE f == [k \in 1 .. Count |-> MetaTag(k)]
  <1>1. Count \in Nat
    BY InputFacts DEF TypeOK, Count
  <1>2. \A k \in 1 .. Count : f[k] \in Int /\ f[k] = MetaTag(k)
    BY MetaTagType
  <1> HIDE DEF f
  <1>3. ASSUME NEW m \in 0 .. Count
        PROVE  MetaUpTo(m) = Total([k \in 1 .. m |-> f[k]])
    <2>1. [k \in 1 .. m |-> f[k]] = [k \in 1 .. m |-> MetaTag(k)]
      BY <1>1, <1>2
    <2> QED BY <2>1 DEF MetaUpTo
  <1>4. MetaUpTo(0) = 0
    <2>1. [k \in 1 .. 0 |-> MetaTag(k)] = <<>>
      OBVIOUS
    <2> QED BY <2>1, TotalEmpty DEF MetaUpTo
  <1>5. ASSUME NEW m \in 0 .. Count - 1
        PROVE  MetaUpTo(m) \in Int /\ MetaUpTo(m + 1) = MetaUpTo(m) + MetaTag(m + 1)
    <2>1. m \in Nat /\ m \in 0 .. Count /\ m + 1 \in 0 .. Count /\ m + 1 \in 1 .. Count
      BY <1>1
    <2>2. \A k \in 1 .. m + 1 : f[k] \in Int
      BY <1>1, <1>2
    <2>3. f[m + 1] = MetaTag(m + 1)
      BY <1>2, <2>1
    <2> QED BY <1>3, <2>1, <2>2, <2>3, TotalNext
  <1>6. MetaUpTo(n) \in Int
    <2>1. CASE n = 0
      BY <1>4, <2>1
    <2>2. CASE n # 0
      <3>1. n - 1 \in 0 .. Count - 1 /\ n \in 1 .. Count /\ (n - 1) + 1 = n
        BY <1>1, <2>2
      <3>2. MetaUpTo(n) = MetaUpTo(n - 1) + MetaTag(n) /\ MetaUpTo(n - 1) \in Int
        BY <1>5, <3>1
      <3> QED BY <3>1, <3>2, MetaTagType
    <2> QED BY <2>1, <2>2
  <1>7. n < Count => n \in 0 .. Count - 1
    BY <1>1
  <1> QED BY <1>4, <1>5, <1>6, <1>7

(* The onMetaData to replace is behind the first pass.                     *)
LEMMA NotReplacedYet ==
  ASSUME TypeOK, ReplacedInv, Reading("SCAN")
  PROVE  /\ Offset # onMetaOffset
         /\ onMetaSize = 0 => \A k \in 1 .. i - 1 :
              input.pos[k] # onMetaOffset /\ input.pos[k] # Offset
  <1>1. i \in 1 .. Count /\ pc = "SCAN" /\ Count \in Nat
    BY ReadingFacts, InputFacts DEF Reading, Count, TypeOK
  <1>2. input.pos \in [1 .. Count + 1 -> Nat] /\ input.pos[1] > 0
    BY InputFacts DEF TypeOK, Count
  <1>3. \A j, k \in 1 .. Count + 1 : j < k => input.pos[j] < input.pos[k]
    BY InputFacts DEF TypeOK, Count
  <1>4. onMetaSize \in Nat
    BY Naturals
  <1>5. CASE onMetaSize = 0
    <2>1. onMetaOffset = 0
      BY <1>5 DEF ReplacedInv
    <2>2. ASSUME NEW k \in 1 .. i PROVE input.pos[k] > 0
      <3>1. k \in 1 .. Count + 1 /\ 1 \in 1 .. Count + 1 /\ (k = 1 \/ 1 < k)
        BY <1>1
      <3> DEFINE p == input.pos[k]
                 q == input.pos[1]
      <3>2. (k = 1 \/ q < p) /\ p \in Nat /\ q > 0 /\ q \in Nat
        BY <1>2, <1>3, <3>1
      <3> HIDE DEF p, q
      <3>3. k = 1 => p = q
        BY DEF p, q
      <3>4. p > 0
        BY <3>2, <3>3
      <3> QED BY <3>4 DEF p
    <2>3. ASSUME NEW k \in 1 .. i - 1 PROVE input.pos[k] < Offset /\ input.pos[k] \in Nat
      <3>1. k \in 1 .. Count + 1 /\ i \in 1 .. Count + 1 /\ k < i
        BY <1>1
      <3> QED BY <1>2, <1>3, <3>1 DEF Offset
    <2> QED BY <1>1, <1>2, <2>1, <2>2, <2>3 DEF Offset
  <1>6. CASE onMetaSize > 0
    <2>1. PICK k \in 1 .. Count : onMetaOffset = input.pos[k] /\ k < i
      BY <1>1, <1>6 DEF ReplacedInv
    <2>2. input.pos[k] < Offset /\ input.pos[k] \in Nat
      <3>1. k \in 1 .. Count + 1 /\ i \in 1 .. Count + 1
        BY <1>1
      <3> QED BY <1>2, <1>3, <2>1, <3>1 DEF Offset
    <2> QED BY <1>6, <2>1, <2>2
  <1> QED BY <1>4, <1>5, <1>6

KeyframeNoted(kf) ==
  \E j \in DOMAIN seen : /\ input.tags[j].type = "VIDEO" /\ input.pos[j] = kf.offset
                         /\ seen[j].time = kf.time
NewKeyframe == [time |-> ScanTime, offset |-> Offset]

LEMMA KeyframesGrow ==
  ASSUME TypeOK, NEW kf
  PROVE  \A k \in DOMAIN Append(keyframes, kf) :
           \/ k \in DOMAIN keyframes /\ Append(keyframes, kf)[k] = keyframes[k]
           \/ Append(keyframes, kf)[k] = kf
  <1> DEFINE Listing == [time : 0 .. TsRange - 1, offset : Nat]
  <1>1. keyframes \in Seq(Listing)
    BY Zenon DEF TypeOK
  <1> HIDE DEF Listing
  <1>2. keyframes \in Seq(Listing \union {kf})
    BY <1>1
  <1> QED BY <1>2

LEMMA NotedScan ==
  ASSUME TypeOK, TypeOK', ReplacedInv, ClockInv, NotedInv, Reading("SCAN"), ScanTag, Continue,
         \/ onMetaOffset' = onMetaOffset
         \/ onMetaSize = 0 /\ onMetaOffset' = Offset,
         metaSize' = metaSize + (IF Tag.type = "META" /\ Offset # onMetaOffset'
                                 THEN TagSize + Tag.body ELSE 0),
         \/ keyframes' = keyframes
         \/ Tag.type = "VIDEO" /\ keyframes' = Append(keyframes, NewKeyframe)
  PROVE  NotedInv'
  <1>1. /\ i' = i + 1 /\ pc = "SCAN" /\ pc' = "SCAN" /\ input' = input
        /\ i \in 1 .. Count /\ Count \in Nat /\ Count' = Count /\ Len(seen) = i - 1
    BY ReadingFacts, InputFacts DEF Reading, Continue, ScanTag, Count, ClockInv, TypeOK
  <1> DEFINE entry == [time |-> ScanTime, clock |-> clock']
  <1>2. seen' = Append(seen, entry)
    BY DEF ScanTag
  <1>3. /\ DOMAIN seen' = 1 .. i /\ seen'[i].time = ScanTime
        /\ \A k \in 1 .. i - 1 : seen'[k] = seen[k]
    <2>1. entry.time = ScanTime
      OBVIOUS
    <2> HIDE DEF entry
    <2>2. Len(seen) + 1 = i
      BY <1>1
    <2> QED BY <1>1, <1>2, <2>1, <2>2, SeenGrows
  <1>4. ASSUME NEW k \in DOMAIN keyframes'
        PROVE  \E j \in 1 .. i : /\ input.tags[j].type = "VIDEO"
                                 /\ input.pos[j] = keyframes'[k].offset
                                 /\ seen'[j].time = keyframes'[k].time
    <2>1. ASSUME k \in DOMAIN keyframes, keyframes'[k] = keyframes[k]
          PROVE  \E j \in 1 .. i : /\ input.tags[j].type = "VIDEO"
                                   /\ input.pos[j] = keyframes'[k].offset
                                   /\ seen'[j].time = keyframes'[k].time
      <3>1. PICK j \in DOMAIN seen : /\ input.tags[j].type = "VIDEO"
                                     /\ input.pos[j] = keyframes[k].offset
                                     /\ seen[j].time = keyframes[k].time
        BY <1>1, <2>1 DEF NotedInv
      <3>2. j \in 1 .. i - 1
        BY <1>1, SeenFacts
      <3>3. j \in 1 .. i
        BY <1>1, <3>2
      <3> QED BY <1>3, <2>1, <3>1, <3>2, <3>3
    <2>2. CASE Tag.type = "VIDEO" /\ keyframes'[k] = NewKeyframe
      <3>1. i \in 1 .. i
        BY <1>1
      <3> QED BY <1>3, <2>2, <3>1 DEF NewKeyframe, Tag, Offset
    <2> QED BY <2>1, <2>2, KeyframesGrow
  <1>5. Offset # onMetaOffset
    BY NotReplacedYet
  <1>6. ASSUME NEW k \in 1 .. i - 1 PROVE MetaTag(k)' = MetaTag(k)
    <2>1. input.pos[k] # onMetaOffset' <=> input.pos[k] # onMetaOffset
      BY NotReplacedYet
    <2> QED BY <1>1, <2>1 DEF MetaTag
  <1>7. metaSize = MetaUpTo(i - 1)
    BY <1>1 DEF NotedInv
  <1>8. metaSize' = MetaUpTo(i - 1)'
    <2>1. PICK n \in Nat : n = i - 1
      BY <1>1
    <2>2. MetaUpTo(n)' = MetaUpTo(n)
      <3>1. [k \in 1 .. n |-> MetaTag(k)'] = [k \in 1 .. n |-> MetaTag(k)]
        BY <1>6, <2>1
      <3> QED BY <3>1 DEF MetaUpTo
    <2>3. n \in 0 .. Count' /\ n < Count' /\ n + 1 = i /\ n + 1 = i' - 1
      BY <1>1, <2>1
    <2>4. MetaUpTo(n + 1)' = MetaUpTo(n)' + MetaTag(n + 1)'
      <3> DEFINE f == [k \in 1 .. n + 1 |-> MetaTag(k)']
      <3>1. \A k \in 1 .. n + 1 : input.tags[k].body \in Nat
        BY <1>1, <2>3, KnownTypes
      <3>2. \A k \in 1 .. n + 1 : f[k] = MetaTag(k)' /\ f[k] \in Int
        BY <1>1, <3>1 DEF MetaTag
      <3> HIDE DEF f
      <3>3. /\ [k \in 1 .. n |-> MetaTag(k)'] = [k \in 1 .. n |-> f[k]]
            /\ [k \in 1 .. n + 1 |-> MetaTag(k)'] = [k \in 1 .. n + 1 |-> f[k]]
        BY <3>2
      <3>4. f[n + 1] = MetaTag(n + 1)'
        BY <3>2
      <3>5. Total([k \in 1 .. n + 1 |-> f[k]]) = Total([k \in 1 .. n |-> f[k]]) + f[n + 1]
        BY <3>2, TotalNext
      <3> QED BY <3>3, <3>4, <3>5 DEF MetaUpTo
    <2>5. metaSize' = metaSize + MetaTag(n + 1)'
      BY <1>1, <2>3 DEF MetaTag, Tag, Offset
    <2>6. MetaUpTo(i - 1)' = MetaUpTo(n + 1)'
      BY <2>3 DEF MetaUpTo
    <2> QED BY <1>7, <2>1, <2>2, <2>4, <2>5, <2>6
  <1> QED BY <1>1, <1>3, <1>4, <1>8 DEF NotedInv, Scanned, Finished

(* A step that leaves what the first pass found alone.                     *)
LEMMA NotedKept ==
  ASSUME NotedInv, UNCHANGED <<input, opts, infoVars, metaVars>>, Scanned, pc' # "OPEN",
         pc' # "SCAN"
  PROVE  NotedInv'
  <1>1. /\ Count' = Count /\ ToInsert' = ToInsert /\ input' = input
        /\ UNCHANGED <<onMetaSize, onMetaOffset, seen, lastTime, bodySize, opts>>
    BY InfoKept
  <1>2. UNCHANGED <<metaSize, keyframes, datasize, filepositions>>
    BY DEF infoVars, scanVars, metaVars
  <1>3. MetaUpTo(Count)' = MetaUpTo(Count)
    BY <1>1 DEF MetaUpTo, MetaTag
  <1>4. DataSize(bodySize)' = DataSize(bodySize)
    BY <1>1, <1>2 DEF DataSize
  <1>5. \A k \in DOMAIN keyframes :
          NewPosition(keyframes[k], bodySize)' = NewPosition(keyframes[k], bodySize)
    BY <1>1, <1>2 DEF NewPosition, PastLastSecond, Room
  <1>6. filepositions' = [k \in DOMAIN keyframes' |-> NewPosition(keyframes[k], bodySize)']
    BY <1>2, <1>5 DEF NotedInv
  <1> QED BY <1>1, <1>2, <1>3, <1>4, <1>6 DEF NotedInv

LEMMA NotedStep ==
  ASSUME UpdateInv, TypeOK', [Next]_vars
  PROVE  NotedInv'
  <1>0. TypeOK /\ NotedInv /\ ReplacedInv /\ ClockInv
    BY DEF UpdateInv
  <1>a. Count \in Nat /\ i \in 1 .. Count + 1 /\ input \in Inputs
    <2>1. input \in Inputs /\ i \in 1 .. Len(input.tags) + 1
      BY <1>0 DEF TypeOK
    <2> QED BY <2>1, InputFacts DEF Count
  <1>b. ASSUME pc' = "DONE", ~Finished' PROVE NotedInv'
    BY <1>b DEF NotedInv, Scanned
  <1>c. ASSUME NEW error, Stop(error), error # "OK" PROVE NotedInv'
    BY <1>b, <1>c DEF Stop, Finished
  <1>d. ASSUME Reading("SCAN") PROVE Offset # onMetaOffset /\ metaSize \in Nat /\ Tag.body \in Nat
    BY <1>0, <1>d, NotReplacedYet, ReadingFacts, Naturals
  <1>1. CASE ReadHeader
    <2>1. CASE pc' = "DONE" /\ result' # "OK"
      BY <1>b, <2>1 DEF Finished
    <2>2. CASE pc' = "SCAN"
      <3>1. pc = "OPEN" /\ UNCHANGED <<input, i, metaSize, keyframes>>
        BY <1>1 DEF ReadHeader
      <3>2. i' = 1 /\ metaSize' = 0 /\ keyframes' = <<>> /\ DOMAIN keyframes' = {}
        BY <1>0, <3>1 DEF ClockInv, NotedInv
      <3>3. MetaUpTo(i - 1)' = 0
        <4>1. [k \in 1 .. i' - 1 |-> MetaTag(k)'] = <<>>
          BY <3>2
        <4> QED BY <4>1, TotalEmpty DEF MetaUpTo
      <3> QED BY <2>2, <3>2, <3>3 DEF NotedInv, Scanned, Finished
    <2> QED BY <1>1, <2>1, <2>2 DEF ReadHeader
  <1>2. CASE ScanMeta
    <2>1. Reading("SCAN") /\ ScanTag /\ Tag.type = "META" /\ keyframes' = keyframes
      BY <1>2 DEF ScanMeta
    <2>2. \/ Stop("ERROR_EOF") \/ Stop("ERROR_INVALID_TAG")
          \/ /\ Continue
             /\ \/ onMetaSize = 0 /\ onMetaOffset' = Offset /\ metaSize' = metaSize
                \/ onMetaOffset' = onMetaOffset /\ metaSize' = metaSize + Tag.body + TagSize
      BY <1>2 DEF ScanMeta
    <2>3. CASE Continue /\ onMetaSize = 0 /\ onMetaOffset' = Offset /\ metaSize' = metaSize
      <3>1. metaSize' = metaSize + (IF Tag.type = "META" /\ Offset # onMetaOffset'
                                    THEN TagSize + Tag.body ELSE 0)
        BY <1>d, <2>1, <2>3
      <3> QED BY <1>0, <2>1, <2>3, <3>1, NotedScan
    <2>4. CASE Continue /\ onMetaOffset' = onMetaOffset /\ metaSize' = metaSize + Tag.body + TagSize
      <3>1. metaSize' = metaSize + (IF Tag.type = "META" /\ Offset # onMetaOffset'
                                    THEN TagSize + Tag.body ELSE 0)
        BY <1>d, <2>1, <2>4
      <3> QED BY <1>0, <2>1, <2>4, <3>1, NotedScan
    <2> QED BY <1>c, <2>2, <2>3, <2>4
  <1>3. CASE ScanVideo \/ ScanAudio \/ ScanOther
    <2>1. /\ Reading("SCAN") /\ ScanTag /\ Tag.type # "META"
          /\ metaSize' = metaSize /\ onMetaOffset' = onMetaOffset
      BY <1>3 DEF ScanVideo, ScanAudio, ScanOther
    <2>2. \/ Stop("ERROR_EOF") \/ Stop("ERROR_INVALID_TAG")
          \/ /\ Continue
             /\ \/ keyframes' = keyframes
                \/ Tag.type = "VIDEO" /\ keyframes' = Append(keyframes, NewKeyframe)
      BY <1>3 DEF ScanVideo, ScanAudio, ScanOther, NewKeyframe
    <2>3. CASE /\ Continue
               /\ \/ keyframes' = keyframes
                  \/ Tag.type = "VIDEO" /\ keyframes' = Append(keyframes, NewKeyframe)
      <3>1. metaSize' = metaSize + (IF Tag.type = "META" /\ Offset # onMetaOffset'
                                    THEN TagSize + Tag.body ELSE 0)
        BY <1>d, <2>1
      <3> QED BY <1>0, <2>1, <2>3, <3>1, NotedScan
    <2> QED BY <1>c, <2>2, <2>3
  <1>4. CASE Compute
    <2>1. /\ pc = "SCAN" /\ pc' = "WRITE" /\ i > Count /\ UNCHANGED <<input, opts, infoVars>>
          /\ filepositions' = [k \in DOMAIN keyframes |-> NewPosition(keyframes[k], bodySize')]
          /\ datasize' = DataSize(bodySize')
      BY <1>4 DEF Compute, Count
    <2>2. i - 1 = Count /\ Count' = Count
      BY <1>a, <2>1 DEF Count
    <2>3. /\ UNCHANGED <<metaSize, keyframes, seen, onMetaOffset, onMetaSize, lastTime, opts>>
          /\ input' = input /\ ToInsert' = ToInsert
      BY <2>1 DEF infoVars, scanVars, ToInsert
    <2>4. metaSize' = MetaUpTo(Count)'
      <3>1. MetaUpTo(Count)' = MetaUpTo(Count)
        BY <2>2, <2>3 DEF MetaUpTo, MetaTag
      <3> QED BY <1>0, <2>1, <2>2, <2>3, <3>1 DEF NotedInv
    <2>5. datasize' = DataSize(bodySize)'
      BY <2>1, <2>3 DEF DataSize
    <2>6. filepositions' = [k \in DOMAIN keyframes' |-> NewPosition(keyframes[k], bodySize)']
      <3>1. \A k \in DOMAIN keyframes :
              NewPosition(keyframes[k], bodySize)' = NewPosition(keyframes[k], bodySize')
        BY <2>3 DEF NewPosition, PastLastSecond, Room
      <3> QED BY <2>1, <2>3, <3>1
    <2> QED BY <1>0, <2>1, <2>3, <2>4, <2>5, <2>6 DEF NotedInv, Scanned, Finished
  <1>5. CASE WriteHeader \/ ReplaceMetaData \/ CopyTag \/ EndOfCopy \/ WriteFails
    <2>1. Scanned /\ UNCHANGED <<input, opts, infoVars, metaVars>>
      BY <1>5 DEF WriteHeader, ReplaceMetaData, CopyTag, EndOfCopy, WriteFails,
         Scanned, Reading
    <2>2. pc' # "OPEN" /\ pc' # "SCAN"
      BY <1>5 DEF WriteHeader, ReplaceMetaData, CopyTag, EndOfCopy, WriteFails,
         Reading, Continue, Stop
    <2> QED BY <1>0, <2>1, <2>2, NotedKept
  <1>6. CASE UNCHANGED vars
    <2>1. UNCHANGED <<input, opts, pc, i, result, infoVars, metaVars>>
      BY <1>6 DEF vars
    <2>2. UNCHANGED <<metaSize, keyframes, seen, onMetaOffset, onMetaSize, lastTime, opts, haveLast,
                      bodySize, datasize, filepositions>>
      BY <2>1 DEF infoVars, scanVars, metaVars
    <2> QED BY <1>0, <2>1, <2>2 DEF NotedInv, Scanned, Finished, MetaUpTo, MetaTag, Count,
               DataSize, NewPosition, PastLastSecond, Room, ToInsert
  <1> QED BY <1>1, <1>2, <1>3, <1>4, <1>5, <1>6 DEF Next

----------------------------------------------------------------------------
(* What a tag appended to the tags of the output makes of them.            *)
AllHold(s) == \A k \in DOMAIN s : Holds(s[k])
HasLast(s) == \E k \in 1 .. Len(s) : s[k].kind = "ON_LAST_SECOND"

LEMMA AppendFacts ==
  ASSUME NEW s \in Seq(Entries), NEW e \in Entries
  PROVE  LET t == Append(s, e) IN
         /\ t \in Seq(Entries) /\ Len(s) \in Nat /\ Len(t) = Len(s) + 1
         /\ DOMAIN s = 1 .. Len(s) /\ DOMAIN t = 1 .. Len(s) + 1
         /\ t[Len(s) + 1] = e /\ \A k \in 1 .. Len(s) : t[k] = s[k]
  <1> DEFINE Kind == Entries
  <1>1. s \in Seq(Kind) /\ e \in Kind
    OBVIOUS
  <1> HIDE DEF Kind
  <1>2. /\ Append(s, e) \in Seq(Kind) /\ Len(s) \in Nat /\ Len(Append(s, e)) = Len(s) + 1
        /\ DOMAIN s = 1 .. Len(s) /\ DOMAIN Append(s, e) = 1 .. Len(s) + 1
        /\ Append(s, e)[Len(s) + 1] = e /\ \A k \in 1 .. Len(s) : Append(s, e)[k] = s[k]
    BY <1>1
  <1> QED BY <1>2 DEF Kind

LEMMA EntryFacts ==
  ASSUME NEW e \in Entries
  PROVE  /\ e.at \in Nat /\ e.prev \in Nat /\ e.bytes \in Nat /\ e.index \in Nat
         /\ e.time \in 0 .. TsRange - 1 /\ e.kind \in {"ON_METADATA", "ON_LAST_SECOND", "COPY"}
  BY DEF Entries

LEMMA AppendChained ==
  ASSUME NEW s \in Seq(Entries), NEW end, Chained(s, end),
         NEW e \in Entries, e.at = end
  PROVE  Chained(Append(s, e), end + e.prev + PrevTagSize)
  <1> DEFINE t == Append(s, e)
             n == Len(s)
  <1>1. /\ n \in Nat /\ Len(t) = n + 1 /\ t[n + 1] = e
        /\ \A k \in 1 .. n : t[k] = s[k]
    BY AppendFacts
  <1>2. \A k \in 1 .. n : s[k].at = EndOf(s, k - 1)
    BY DEF Chained
  <1>3. end = EndOf(s, n)
    BY DEF Chained
  <1> HIDE DEF t, n
  <1>4. \A k \in 0 .. n : EndOf(t, k) = EndOf(s, k)
    BY <1>1 DEF EndOf
  <1>5. ASSUME NEW k \in 1 .. n + 1 PROVE t[k].at = EndOf(t, k - 1)
    <2>1. CASE k = n + 1
      <3>1. k - 1 = n /\ n \in 0 .. n
        BY <1>1, <2>1
      <3> QED BY <1>1, <1>3, <1>4, <2>1, <3>1
    <2>2. CASE k \in 1 .. n
      <3>1. k - 1 \in 0 .. n
        BY <1>1, <2>2
      <3> QED BY <1>1, <1>2, <1>4, <2>2, <3>1
    <2> QED BY <1>1, <2>1, <2>2
  <1>6. end + e.prev + PrevTagSize = EndOf(t, n + 1)
    BY <1>1 DEF EndOf
  <1> QED BY <1>1, <1>5, <1>6 DEF Chained, t

LEMMA AppendHold ==
  ASSUME NEW s \in Seq(Entries), AllHold(s), NEW e \in Entries, Holds(e)
  PROVE  AllHold(Append(s, e))
  <1> SUFFICES ASSUME NEW k \in DOMAIN Append(s, e) PROVE Holds(Append(s, e)[k])
    BY DEF AllHold
  <1>1. CASE k = Len(s) + 1
    BY <1>1, AppendFacts
  <1>2. CASE k \in 1 .. Len(s)
    <2>1. Holds(s[k])
      BY <1>2, AppendFacts DEF AllHold
    <2> QED BY <1>2, <2>1, AppendFacts
  <1> QED BY <1>1, <1>2, AppendFacts

LEMMA AppendCopiesOf ==
  ASSUME NEW s \in Seq(Entries), NEW e \in Entries
  PROVE  CopiesOf(Append(s, e)) = CopiesOf(s) \union {k \in {Len(s) + 1} : e.kind = "COPY"}
  <1> DEFINE t == Append(s, e)
             n == Len(s)
  <1>1. /\ n \in Nat /\ Len(t) = n + 1 /\ t[n + 1] = e
        /\ \A k \in 1 .. n : t[k] = s[k]
    BY AppendFacts
  <1>2. CopiesOf(t) = {k \in 1 .. n + 1 : t[k].kind = "COPY"}
    BY <1>1 DEF CopiesOf
  <1>3. CopiesOf(s) = {k \in 1 .. n : s[k].kind = "COPY"}
    BY DEF CopiesOf
  <1> HIDE DEF t, n
  <1>4. CopiesOf(t) = CopiesOf(s) \union {k \in {n + 1} : e.kind = "COPY"}
    BY <1>1, <1>2, <1>3
  <1> QED BY <1>4 DEF t, n

(* A tag that is not a copy leaves the copies alone.                       *)
LEMMA AppendOther ==
  ASSUME NEW s \in Seq(Entries), NEW e \in Entries, e.kind # "COPY", NEW n,
         CopiedUpTo(s, n), Shifted(s)
  PROVE  CopiedUpTo(Append(s, e), n) /\ Shifted(Append(s, e))
  <1> DEFINE t == Append(s, e)
  <1>1. CopiesOf(t) = CopiesOf(s)
    BY AppendCopiesOf
  <1>2. \A k \in 1 .. Len(s) : t[k] = s[k]
    BY AppendFacts
  <1>3. \A k \in CopiesOf(s) : k \in 1 .. Len(s) /\ t[k] = s[k]
    BY <1>2 DEF CopiesOf
  <1> HIDE DEF t
  <1>4. CopiedUpTo(t, n)
    BY <1>1, <1>3 DEF CopiedUpTo
  <1>5. ASSUME NEW k \in CopiesOf(s) PROVE InsertedBefore(t, k) = InsertedBefore(s, k)
    <2>1. k \in 1 .. Len(s) /\ Len(s) \in Nat
      BY <1>3, AppendFacts
    <2>2. \A j \in 1 .. k - 1 : t[j] = s[j]
      BY <1>2, <2>1
    <2> QED BY <2>2 DEF InsertedBefore
  <1>6. Shifted(t)
    BY <1>1, <1>3, <1>5 DEF Shifted
  <1> QED BY <1>4, <1>6 DEF t

(* The copy of the next tag.                                               *)
LEMMA AppendCopy ==
  ASSUME NEW s \in Seq(Entries), NEW e \in Entries, e.kind = "COPY", NEW n \in Nat,
         CopiedUpTo(s, n), Shifted(s), e.index = n + 1,
         e.at = input.pos[n + 1] + Replaced(n + 1) + (IF HasLast(s) THEN Room(LastBody) ELSE 0)
  PROVE  CopiedUpTo(Append(s, e), n + 1) /\ Shifted(Append(s, e))
  <1> DEFINE t == Append(s, e)
             m == Len(s)
  <1>0. m \in Nat /\ t[m + 1] = e /\ \A k \in 1 .. m : t[k] = s[k]
    BY AppendFacts
  <1>1. CopiesOf(t) = CopiesOf(s) \union {m + 1}
    BY AppendCopiesOf
  <1>2. \A k \in CopiesOf(s) : k \in 1 .. m
    BY DEF CopiesOf
  <1>3. \A k \in CopiesOf(s) : s[k].index \in Nat
    BY <1>2, EntryFacts
  <1>a. HasLast(s) <=> \E j \in 1 .. m : s[j].kind = "ON_LAST_SECOND"
    BY DEF HasLast
  <1> HIDE DEF t, m
  <1>4. CopiedUpTo(t, n + 1)
    <2>1. \A k \in CopiesOf(t) : t[k].index <= n + 1
      BY <1>0, <1>1, <1>2, <1>3 DEF CopiedUpTo
    <2>2. \A j, k \in CopiesOf(t) : j < k => t[j].index < t[k].index
      <3> SUFFICES ASSUME NEW j \in CopiesOf(t), NEW k \in CopiesOf(t), j < k
                   PROVE  t[j].index < t[k].index
        OBVIOUS
      <3>1. CASE k \in CopiesOf(s)
        <4>1. j \in CopiesOf(s)
          BY <1>0, <1>1, <1>2, <3>1
        <4> QED BY <1>0, <1>2, <3>1, <4>1 DEF CopiedUpTo
      <3>2. CASE k = m + 1
        <4>1. j \in CopiesOf(s)
          BY <1>0, <1>1, <1>2, <3>2
        <4>2. s[j].index <= n /\ s[j].index \in Nat
          BY <1>3, <4>1 DEF CopiedUpTo
        <4>3. t[j].index = s[j].index /\ t[k].index = n + 1
          BY <1>0, <1>2, <3>2, <4>1
        <4> QED BY <4>2, <4>3
      <3> QED BY <1>1, <3>1, <3>2
    <2>3. ASSUME NEW p \in 1 .. n + 1, input.pos[p] # onMetaOffset
          PROVE  \E k \in CopiesOf(t) : t[k].index = p
      <3>1. CASE p = n + 1
        BY <1>0, <1>1, <3>1
      <3>2. CASE p \in 1 .. n
        BY <1>0, <1>1, <1>2, <2>3, <3>2 DEF CopiedUpTo
      <3> QED BY <3>1, <3>2
    <2> QED BY <2>1, <2>2, <2>3 DEF CopiedUpTo
  <1>5. ASSUME NEW k \in CopiesOf(s) PROVE InsertedBefore(t, k) = InsertedBefore(s, k)
    <2>1. \A j \in 1 .. k - 1 : t[j] = s[j]
      BY <1>0, <1>2
    <2> QED BY <2>1 DEF InsertedBefore
  <1>6. InsertedBefore(t, m + 1) = IF HasLast(s) THEN Room(LastBody) ELSE 0
    <2>1. (m + 1) - 1 = m
      BY <1>0
    <2>2. (\E j \in 1 .. m : t[j].kind = "ON_LAST_SECOND") <=> HasLast(s)
      BY <1>0, <1>a
    <2> QED BY <2>1, <2>2 DEF InsertedBefore
  <1>7. Shifted(t)
    BY <1>0, <1>1, <1>2, <1>5, <1>6 DEF Shifted
  <1> QED BY <1>4, <1>7 DEF t

(* The bytes of metadata.                                                  *)
LEMMA AppendMetaBytes ==
  ASSUME NEW s \in Seq(Entries), NEW e \in Entries
  PROVE  MetaBytesOf(Append(s, e)) = MetaBytesOf(s) + MetaBytes(e) /\ MetaBytesOf(s) \in Int
  <1> DEFINE t == Append(s, e)
             n == Len(s)
             f == [k \in 1 .. n + 1 |-> MetaBytes(t[k])]
  <1>0. /\ n \in Nat /\ t \in Seq(Entries) /\ DOMAIN s = 1 .. n /\ DOMAIN t = 1 .. n + 1
        /\ Len(t) = n + 1 /\ t[n + 1] = e /\ \A k \in 1 .. n : t[k] = s[k]
    BY AppendFacts
  <1> HIDE DEF t, n
  <1>1. ASSUME NEW k \in 1 .. n + 1 PROVE f[k] = MetaBytes(t[k]) /\ f[k] \in Int
    <2>1. t[k] \in Entries
      BY <1>0
    <2>2. t[k].bytes \in Nat
      BY <2>1, EntryFacts
    <2> QED BY <2>2 DEF MetaBytes
  <1> HIDE DEF f
  <1>2. /\ [k \in DOMAIN t |-> MetaBytes(t[k])] = [k \in 1 .. n + 1 |-> f[k]]
        /\ [k \in DOMAIN s |-> MetaBytes(s[k])] = [k \in 1 .. n |-> f[k]]
    BY <1>0, <1>1
  <1>3. f[n + 1] = MetaBytes(e)
    BY <1>0, <1>1
  <1>4. /\ Total([k \in 1 .. n |-> f[k]]) \in Int
        /\ Total([k \in 1 .. n + 1 |-> f[k]]) = Total([k \in 1 .. n |-> f[k]]) + f[n + 1]
    BY <1>0, <1>1, TotalNext
  <1> QED BY <1>2, <1>3, <1>4 DEF MetaBytesOf, t

(* Whether and where the onLastSecond is.                                  *)
LEMMA PlacedHas ==
  ASSUME NEW s
  PROVE  (Placed(s) => HasLast(s)) /\ (Unplaced(s) => ~HasLast(s))
  BY DEF Placed, Unplaced, HasLast

LEMMA AppendUnplaced ==
  ASSUME NEW s \in Seq(Entries), Unplaced(s), NEW e \in Entries,
         e.kind # "ON_LAST_SECOND", ToInsert /\ e.kind = "COPY" => ~Late(e)
  PROVE  Unplaced(Append(s, e))
  <1> DEFINE t == Append(s, e)
             n == Len(s)
  <1>0. n \in Nat /\ Len(t) = n + 1 /\ t[n + 1] = e /\ \A k \in 1 .. n : t[k] = s[k]
    BY AppendFacts
  <1>1. CopiesOf(t) = CopiesOf(s) \union {k \in {n + 1} : e.kind = "COPY"}
    BY AppendCopiesOf
  <1>2. \A k \in CopiesOf(s) : k \in 1 .. n
    BY DEF CopiesOf
  <1>3. \A k \in 1 .. n : s[k].kind # "ON_LAST_SECOND"
    BY DEF Unplaced
  <1> HIDE DEF t, n
  <1>4. \A k \in 1 .. Len(t) : t[k].kind # "ON_LAST_SECOND"
    BY <1>0, <1>3
  <1>5. ASSUME ToInsert, NEW k \in CopiesOf(t) PROVE ~Late(t[k])
    <2>1. CASE k \in CopiesOf(s)
      BY <1>0, <1>2, <1>5, <2>1 DEF Unplaced
    <2>2. CASE k = n + 1 /\ e.kind = "COPY"
      BY <1>0, <1>5, <2>2
    <2> QED BY <1>1, <2>1, <2>2
  <1> QED BY <1>4, <1>5 DEF Unplaced, t

LEMMA AppendPlaced ==
  ASSUME NEW s \in Seq(Entries), Placed(s), NEW e \in Entries, e.kind # "ON_LAST_SECOND"
  PROVE  Placed(Append(s, e))
  <1> DEFINE t == Append(s, e)
             n == Len(s)
  <1>0. n \in Nat /\ Len(t) = n + 1 /\ t[n + 1] = e /\ \A k \in 1 .. n : t[k] = s[k]
    BY AppendFacts
  <1>1. CopiesOf(t) = CopiesOf(s) \union {k \in {n + 1} : e.kind = "COPY"}
    BY AppendCopiesOf
  <1>2. \A k \in CopiesOf(s) : k \in 1 .. n
    BY DEF CopiesOf
  <1>3. PICK k \in 1 .. n :
          /\ \A j \in 1 .. n : s[j].kind = "ON_LAST_SECOND" <=> j = k
          /\ k + 1 \in CopiesOf(s) /\ Late(s[k + 1])
          /\ \A j \in CopiesOf(s) : j < k => ~Late(s[j])
    BY DEF Placed
  <1> HIDE DEF t, n
  <1>4. \A j \in 1 .. n + 1 : t[j].kind = "ON_LAST_SECOND" <=> j = k
    BY <1>0, <1>3
  <1>5. k + 1 \in CopiesOf(t) /\ Late(t[k + 1])
    BY <1>0, <1>1, <1>2, <1>3
  <1>6. \A j \in CopiesOf(t) : j < k => ~Late(t[j])
    BY <1>0, <1>1, <1>2, <1>3
  <1>7. k \in 1 .. Len(t)
    BY <1>0
  <1> QED BY <1>0, <1>4, <1>5, <1>6, <1>7 DEF Placed, t

LEMMA AppendBoth ==
  ASSUME NEW s \in Seq(Entries), Unplaced(s), ToInsert,
         NEW last \in Entries, last.kind = "ON_LAST_SECOND",
         NEW e \in Entries, e.kind = "COPY", Late(e)
  PROVE  Placed(Append(Append(s, last), e))
  <1> DEFINE u == Append(s, last)
             t == Append(u, e)
             n == Len(s)
  <1>0. /\ n \in Nat /\ u \in Seq(Entries) /\ Len(u) = n + 1 /\ u[n + 1] = last
        /\ \A k \in 1 .. n : u[k] = s[k]
    BY AppendFacts
  <1>a. Len(t) = n + 2 /\ t[n + 2] = e /\ \A k \in 1 .. n + 1 : t[k] = u[k]
    <2> HIDE DEF u
    <2>1. Len(t) = Len(u) + 1 /\ t[Len(u) + 1] = e /\ \A k \in 1 .. Len(u) : t[k] = u[k]
      BY <1>0, AppendFacts
    <2>2. Len(u) + 1 = n + 2
      BY <1>0
    <2> QED BY <1>0, <2>1, <2>2
  <1>1. CopiesOf(t) = CopiesOf(s) \union {n + 2}
    <2>1. CopiesOf(u) = CopiesOf(s)
      BY AppendCopiesOf
    <2> HIDE DEF u
    <2>2. CopiesOf(t) = CopiesOf(u) \union {Len(u) + 1}
      BY <1>0, AppendCopiesOf
    <2>3. Len(u) + 1 = n + 2
      BY <1>0
    <2> QED BY <2>1, <2>2, <2>3
  <1>2. \A k \in CopiesOf(s) : k \in 1 .. n
    BY DEF CopiesOf
  <1>3. \A k \in 1 .. n : s[k].kind # "ON_LAST_SECOND"
    BY DEF Unplaced
  <1>4. \A k \in CopiesOf(s) : ~Late(s[k])
    BY DEF Unplaced
  <1> HIDE DEF t, u, n
  <1>5. n + 1 \in 1 .. Len(t)
    BY <1>0, <1>a
  <1>6. \A j \in 1 .. Len(t) : t[j].kind = "ON_LAST_SECOND" <=> j = n + 1
    BY <1>0, <1>a, <1>3
  <1>7. (n + 1) + 1 \in CopiesOf(t) /\ Late(t[(n + 1) + 1])
    BY <1>0, <1>1, <1>a
  <1>8. \A j \in CopiesOf(t) : j < n + 1 => ~Late(t[j])
    BY <1>0, <1>a, <1>1, <1>2, <1>4
  <1> QED BY <1>5, <1>6, <1>7, <1>8 DEF Placed, t, u

(* The output after a step of the second pass: what is written depends on  *)
(* nothing else that the step changes.                                     *)
MetaWritten(s, n, last) ==
  MetaBytesOf(s) = MetaUpTo(n) + NewMeta(n) + (IF last THEN TagSize + LastBody ELSE 0)
LEMMA WrittenNext ==
  ASSUME UNCHANGED <<input, opts, infoVars, metaVars>>, NEW n,
         pc' = "COPY" => n = i' - 1, Finished' => n = Count,
         Chained(out', outSize'), AllHold(out'),
         Sound => /\ CopiedUpTo(out', n) /\ Shifted(out')
                  /\ IF inserted' THEN Placed(out') ELSE Unplaced(out')
                  /\ MetaWritten(out', n, inserted')
  PROVE  WrittenInv'
  <1>1. /\ Sound' = Sound /\ Count' = Count /\ Replacement' = Replacement
        /\ ToInsert' = ToInsert /\ input' = input
        /\ UNCHANGED <<onMetaSize, onMetaOffset, lastTime, bodySize>>
    BY InfoKept
  <1>2. Chained(out, outSize)'
    BY DEF Chained, EndOf
  <1>3. \A k \in DOMAIN out' : Holds(out[k])'
    BY <1>1 DEF AllHold, Holds, CutCopy
  <1>4. ASSUME Sound, NEW m, m = n, IF pc' = "COPY" THEN m = i' - 1 ELSE m = Count'
        PROVE  WrittenUpTo(m)'
    <2>1. CopiedUpTo(out, m)'
      BY <1>1, <1>4 DEF CopiedUpTo, CopiesOf
    <2>2. Shifted(out)'
      <3>1. Shifted(out')
        BY <1>4
      <3>2. \A k \in CopiesOf(out') : InsertedBefore(out, k)' = InsertedBefore(out', k)
        BY DEF InsertedBefore, Room
      <3>3. \A k \in CopiesOf(out') : Replaced(out[k].index)' = Replaced(out'[k].index)
        BY <1>1 DEF Replaced
      <3> QED BY <1>1, <3>1, <3>2, <3>3 DEF Shifted, CopiesOf
    <2>3. (IF inserted THEN Placed(out) ELSE Unplaced(out))'
      BY <1>1, <1>4 DEF Placed, Unplaced, CopiesOf, Late
    <2>4. MetaBytesOf(out)' = MetaBytesOf(out')
      BY <1>1 DEF MetaBytesOf, MetaBytes, IsMetaEntry
    <2>5. MetaUpTo(m)' = MetaUpTo(m) /\ NewMeta(m)' = NewMeta(m)
      BY <1>1 DEF MetaUpTo, MetaTag, NewMeta
    <2>6. NewLast' = IF inserted' THEN TagSize + LastBody ELSE 0
      BY DEF NewLast
    <2> QED BY <1>4, <2>1, <2>2, <2>3, <2>4, <2>5, <2>6 DEF WrittenUpTo, MetaWritten
  <1>5. ASSUME Sound, pc' = "COPY" \/ Finished'
        PROVE  WrittenUpTo(IF pc = "COPY" THEN i - 1 ELSE Count)'
    <2>1. n = IF pc' = "COPY" THEN i' - 1 ELSE Count'
      BY <1>1, <1>5 DEF Finished
    <2>2. WrittenUpTo(n)'
      BY <1>1, <1>4, <1>5, <2>1
    <2> QED BY <2>1, <2>2 DEF WrittenUpTo, CopiedUpTo, MetaUpTo, NewMeta
  <1> QED BY <1>1, <1>2, <1>3, <1>5 DEF WrittenInv

LEMMA EmptyWritten ==
  /\ Chained(<<>>, HeaderSize + PrevTagSize) /\ AllHold(<<>>)
  /\ CopiedUpTo(<<>>, 0) /\ Shifted(<<>>) /\ Unplaced(<<>>)
  /\ MetaBytesOf(<<>>) = 0
  <1>1. Len(<<>>) = 0 /\ DOMAIN <<>> = {}
    OBVIOUS
  <1>2. CopiesOf(<<>>) = {}
    BY <1>1 DEF CopiesOf
  <1>3. [k \in DOMAIN <<>> |-> MetaBytes(<<>>[k])] = <<>>
    BY <1>1
  <1>4. MetaBytesOf(<<>>) = 0
    BY <1>3, TotalEmpty DEF MetaBytesOf
  <1> QED BY <1>1, <1>2, <1>4 DEF Chained, EndOf, AllHold, CopiedUpTo, Shifted, Unplaced

(* The new onMetaData after the tags s.                                    *)
LEMMA WrittenMeta ==
  ASSUME TypeOK, NEW s \in Seq(Entries), NEW end \in Nat, Chained(s, end), AllHold(s)
  PROVE  LET t == Append(s, NewMetaData(end)) IN
         /\ t \in Seq(Entries)
         /\ Chained(t, end + Room(bodySize)) /\ AllHold(t)
         /\ \A n : CopiedUpTo(s, n) /\ Shifted(s) => CopiedUpTo(t, n) /\ Shifted(t)
         /\ Placed(s) => Placed(t)
         /\ Unplaced(s) => Unplaced(t)
         /\ MetaBytesOf(t) = MetaBytesOf(s) + TagSize + bodySize
         /\ MetaBytesOf(s) \in Int
  <1> DEFINE e == NewMetaData(end)
  <1>1. e \in Entries
    BY NewMetaDataType
  <1>2. /\ e.kind = "ON_METADATA" /\ e.at = end /\ e.bytes = bodySize
        /\ e.length = bodySize % LengthRange /\ e.prev = TagSize + bodySize
    BY DEF NewMetaData, Entry
  <1>3. bodySize \in Nat
    BY Naturals
  <1>4. Holds(e)
    BY <1>2 DEF Holds
  <1>5. MetaBytes(e) = TagSize + bodySize
    BY <1>2 DEF MetaBytes, IsMetaEntry
  <1> HIDE DEF e
  <1>6. Append(s, e) \in Seq(Entries)
    BY <1>1, AppendFacts
  <1>7. Chained(Append(s, e), end + Room(bodySize))
    <2>1. Chained(Append(s, e), end + e.prev + PrevTagSize)
      BY <1>1, <1>2, AppendChained
    <2>2. end + e.prev + PrevTagSize = end + Room(bodySize)
      BY <1>2, <1>3 DEF Room
    <2> QED BY <2>1, <2>2
  <1>8. AllHold(Append(s, e))
    BY <1>1, <1>4, AppendHold
  <1>9. \A n : CopiedUpTo(s, n) /\ Shifted(s) => CopiedUpTo(Append(s, e), n) /\ Shifted(Append(s, e))
    <2> TAKE n
    <2> QED BY <1>1, <1>2, AppendOther
  <1>10. (Placed(s) => Placed(Append(s, e))) /\ (Unplaced(s) => Unplaced(Append(s, e)))
    BY <1>1, <1>2, AppendPlaced, AppendUnplaced
  <1>11. MetaBytesOf(Append(s, e)) = MetaBytesOf(s) + TagSize + bodySize /\ MetaBytesOf(s) \in Int
    <2>1. MetaBytesOf(Append(s, e)) = MetaBytesOf(s) + MetaBytes(e) /\ MetaBytesOf(s) \in Int
      BY <1>1, AppendMetaBytes
    <2> QED BY <1>3, <1>5, <2>1
  <1> QED BY <1>6, <1>7, <1>8, <1>9, <1>10, <1>11 DEF e

LEMMA WrittenHeader ==
  ASSUME UpdateInv, TypeOK', WriteHeader
  PROVE  WrittenInv'
  <1>0. TypeOK /\ ReplacedInv /\ InsertedInv /\ bodySize \in Nat
    BY Naturals DEF UpdateInv, OutputInv
  <1> DEFINE start == HeaderSize + PrevTagSize
  <1>1. /\ UNCHANGED <<input, opts, infoVars, metaVars, inserted>>
        /\ pc = "WRITE" /\ pc' = "COPY" /\ i' = 1
        /\ IF onMetaSize = 0
           THEN out' = <<NewMetaData(start)>> /\ outSize' = start + Room(bodySize)
           ELSE out' = <<>> /\ outSize' = start
    BY <1>0 DEF WriteHeader
  <1>2. ~inserted' /\ 0 = i' - 1
    BY <1>0, <1>1 DEF InsertedInv
  <1>3. onMetaSize # 0 => NewMeta(0) = 0
    <2>1. Count \in Nat
      BY <1>0, InputFacts DEF TypeOK, Count
    <2>2. 1 \in 1 .. Count + 1
      BY <2>1
    <2> QED BY <1>0, <2>2, ReplacedFacts DEF NewMeta
  <1>4. onMetaSize = 0 => NewMeta(0) = TagSize + bodySize
    BY DEF NewMeta
  <1>5. MetaUpTo(0) = 0
    BY TotalEmpty DEF MetaUpTo
  <1>6. start \in Nat /\ <<>> \in Seq(Entries)
    OBVIOUS
  <1> HIDE DEF start
  <1>7. <<NewMetaData(start)>> = Append(<<>>, NewMetaData(start))
    OBVIOUS
  <1>8. Chained(<<>>, start)
    BY EmptyWritten DEF start
  <1>9. /\ Chained(out', outSize') /\ AllHold(out') /\ CopiedUpTo(out', 0) /\ Shifted(out')
        /\ Unplaced(out') /\ MetaBytesOf(out') = NewMeta(0)
    <2>1. CASE onMetaSize = 0
      <3> DEFINE t == Append(<<>>, NewMetaData(start))
      <3>1. out' = t /\ outSize' = start + Room(bodySize)
        BY <1>1, <1>7, <2>1
      <3>2. /\ Chained(t, start + Room(bodySize)) /\ AllHold(t) /\ CopiedUpTo(t, 0)
            /\ Shifted(t) /\ Unplaced(t)
            /\ MetaBytesOf(t) = MetaBytesOf(<<>>) + TagSize + bodySize
        BY <1>0, <1>6, <1>8, EmptyWritten, WrittenMeta
      <3>3. MetaBytesOf(t) = TagSize + bodySize
        BY <1>0, <3>2, EmptyWritten
      <3> HIDE DEF t
      <3> QED BY <1>4, <2>1, <3>1, <3>2, <3>3
    <2>2. CASE onMetaSize # 0
      BY <1>1, <1>3, <1>8, <2>2, EmptyWritten
    <2> QED BY <2>1, <2>2
  <1>10. MetaWritten(out', 0, inserted')
    <2>1. NewMeta(0) \in Nat
      BY <1>0 DEF NewMeta
    <2> QED BY <1>2, <1>5, <1>9, <2>1 DEF MetaWritten
  <1> QED BY <1>1, <1>2, <1>9, <1>10, WrittenNext DEF Finished

LEMMA WrittenReplacement ==
  ASSUME UpdateInv, TypeOK', ReplaceMetaData
  PROVE  WrittenInv'
  <1>0. /\ TypeOK /\ ReplacedInv /\ WrittenInv /\ bodySize \in Nat /\ outSize \in Nat
        /\ out \in Seq(Entries)
    BY Naturals, Zenon DEF UpdateInv, TypeOK
  <1>1. /\ UNCHANGED <<input, opts, infoVars, metaVars>> /\ inserted' = inserted
        /\ Reading("COPY") /\ Offset = onMetaOffset /\ pc = "COPY" /\ pc' = "COPY" /\ i' = i + 1
        /\ out' = Append(out, NewMetaData(outSize)) /\ outSize' = outSize + Room(bodySize)
    BY DEF ReplaceMetaData, Continue, Reading
  <1>2. /\ i \in 1 .. Count /\ i \in 1 .. Count + 1 /\ i - 1 \in 0 .. Count /\ Count \in Nat
        /\ i - 1 < Count /\ (i - 1) + 1 = i /\ i' - 1 = i
    <2>1. i \in 1 .. Count
      BY <1>0, <1>1, ReadingFacts DEF Count
    <2>2. Count \in Nat
      BY <1>0, InputFacts DEF Count, TypeOK
    <2> QED BY <1>1, <2>1, <2>2
  <1>3. Chained(out, outSize) /\ AllHold(out) /\ (Sound => WrittenUpTo(i - 1))
    BY <1>0, <1>1 DEF WrittenInv, AllHold
  <1>4. /\ Chained(out', outSize') /\ AllHold(out')
        /\ CopiedUpTo(out, i) /\ Shifted(out) => CopiedUpTo(out', i) /\ Shifted(out')
        /\ Placed(out) => Placed(out')
        /\ Unplaced(out) => Unplaced(out')
        /\ MetaBytesOf(out') = MetaBytesOf(out) + TagSize + bodySize /\ MetaBytesOf(out) \in Int
    BY <1>0, <1>1, <1>3, WrittenMeta
  <1>5. ASSUME Sound
        PROVE  /\ CopiedUpTo(out', i) /\ Shifted(out')
               /\ IF inserted' THEN Placed(out') ELSE Unplaced(out')
               /\ MetaWritten(out', i, inserted')
    <2>1. /\ CopiedUpTo(out, i - 1) /\ Shifted(out)
          /\ IF inserted THEN Placed(out) ELSE Unplaced(out)
          /\ MetaBytesOf(out) = MetaUpTo(i - 1) + NewMeta(i - 1) + NewLast
      BY <1>3, <1>5 DEF WrittenUpTo
    <2>2. CopiedUpTo(out, i)
      <3>1. \A k \in CopiesOf(out) : out[k].index <= i - 1 /\ out[k].index \in Nat
        <4>1. \A k \in CopiesOf(out) : k \in 1 .. Len(out)
          BY DEF CopiesOf
        <4>2. \A k \in 1 .. Len(out) : out[k] \in Entries
          BY <1>0
        <4> QED BY <2>1, <4>1, <4>2, EntryFacts DEF CopiedUpTo
      <3>2. \A k \in CopiesOf(out) : out[k].index <= i
        BY <1>2, <3>1
      <3>3. \A m \in 1 .. i : input.pos[m] # onMetaOffset => m \in 1 .. i - 1
        BY <1>1, <1>2 DEF Offset
      <3> QED BY <2>1, <3>2, <3>3 DEF CopiedUpTo
    <2>3. /\ MetaUpTo(i) = MetaUpTo(i - 1) + MetaTag(i) /\ MetaUpTo(i - 1) \in Int
      BY <1>0, <1>2, MetaUpToFacts
    <2>4. MetaTag(i) = 0
      BY <1>1 DEF MetaTag, Offset
    <2>5. onMetaSize # 0 /\ onMetaOffset = input.pos[i] /\ input.pos[i] \in Nat
      BY <1>0, <1>1, <1>2, ReplacedFacts DEF Offset
    <2>6. input.pos[i + 1] = input.pos[i] + Room(Tag.body) /\ Room(Tag.body) \in Nat
          /\ Room(Tag.body) > 0
      <3>1. input.pos[i + 1] = input.pos[i] + Room(Tag.body) /\ Tag.body \in Nat
        BY <1>0, <1>1, ReadingFacts DEF Offset
      <3>2. Room(Tag.body) \in Nat /\ Room(Tag.body) > 0
        BY <3>1 DEF Room
      <3> QED BY <3>1, <3>2
    <2>7. NewMeta(i - 1) = 0 /\ NewMeta(i) = TagSize + bodySize
      BY <1>2, <2>5, <2>6 DEF NewMeta
    <2>8. NewLast \in Int
      BY DEF NewLast
    <2>9. MetaWritten(out', i, inserted')
      <3>1. MetaBytesOf(out) = MetaUpTo(i) + NewLast
        BY <2>1, <2>3, <2>4, <2>7, <2>8
      <3>2. MetaUpTo(i) \in Int
        BY <2>3, <2>4
      <3>3. MetaBytesOf(out') = MetaUpTo(i) + (TagSize + bodySize) + NewLast
        BY <1>0, <1>4, <3>1, <3>2, <2>8
      <3> QED BY <1>1, <2>7, <3>3 DEF MetaWritten, NewLast
    <2> QED BY <1>1, <1>4, <2>1, <2>2, <2>9
  <1> QED BY <1>1, <1>2, <1>4, <1>5, WrittenNext DEF Finished

(* What precedes the copy of a tag.                                        *)
LEMMA WrittenPreceding ==
  ASSUME UpdateInv, CopyTag
  PROVE  /\ Preceding \in Seq(Entries) /\ CopyAt \in Nat
         /\ Chained(Preceding, CopyAt) /\ AllHold(Preceding)
         /\ Sound => /\ CopiedUpTo(Preceding, i - 1) /\ Shifted(Preceding)
                     /\ HasLast(Preceding) <=> inserted'
                     /\ CopyAt = input.pos[i] + Replaced(i)
                                  + (IF inserted' THEN Room(LastBody) ELSE 0)
                     /\ MetaBytesOf(Preceding) = MetaUpTo(i - 1) + NewMeta(i - 1)
                          + (IF inserted' THEN TagSize + LastBody ELSE 0)
  <1> DEFINE e == NewLastSecond(outSize, CopyTime)
  <1>0. /\ TypeOK /\ WrittenInv /\ SizeInv /\ ReplacedInv /\ bodySize \in Nat
        /\ outSize \in Nat /\ out \in Seq(Entries)
    BY Naturals, Zenon DEF UpdateInv, TypeOK, OutputInv
  <1>1. /\ Reading("COPY") /\ pc = "COPY" /\ inserted' = (inserted \/ InsertNow)
    BY CopySteps DEF Reading
  <1>2. Preceding \in Seq(Entries) /\ CopyAt \in Nat
    BY <1>0, <1>1, PrecedingTypes
  <1>3. Chained(out, outSize) /\ AllHold(out) /\ (Sound => WrittenUpTo(i - 1))
    BY <1>0, <1>1 DEF WrittenInv, AllHold
  <1>4. Sound => outSize = input.pos[i] + Insertion + Replaced(i)
    BY <1>0, <1>1 DEF SizeInv, Replaced
  <1>5. e \in Entries
    <2>1. LastBody % LengthRange \in Nat /\ LastBody \in Nat
      BY ModRange
    <2>2. CopyTime \in 0 .. TsRange - 1
      BY <1>0, <1>1, TimeTypes
    <2> QED BY <1>0, <2>1, <2>2, EntryType DEF NewLastSecond
  <1>6. /\ e.kind = "ON_LAST_SECOND" /\ e.at = outSize /\ e.bytes = LastBody
        /\ e.length = LastBody % LengthRange /\ e.prev = TagSize + LastBody
    BY DEF NewLastSecond, Entry
  <1>7. Holds(e) /\ MetaBytes(e) = TagSize + LastBody
    BY <1>6 DEF Holds, MetaBytes, IsMetaEntry
  <1> HIDE DEF e
  <1>8. /\ Chained(Preceding, CopyAt) /\ AllHold(Preceding)
    <2>1. CASE InsertNow
      <3>1. Preceding = Append(out, e) /\ CopyAt = outSize + Room(LastBody)
        BY <2>1 DEF Preceding, CopyAt, e
      <3>2. Chained(Append(out, e), outSize + e.prev + PrevTagSize)
        BY <1>0, <1>3, <1>5, <1>6, AppendChained
      <3>3. outSize + e.prev + PrevTagSize = CopyAt
        BY <1>0, <1>6, <3>1 DEF Room
      <3> QED BY <1>0, <1>3, <1>5, <1>7, <3>1, <3>2, <3>3, AppendHold
    <2>2. CASE ~InsertNow
      BY <1>0, <1>3, <2>2 DEF Preceding, CopyAt
    <2> QED BY <2>1, <2>2
  <1>9. ASSUME Sound
        PROVE  /\ CopiedUpTo(Preceding, i - 1) /\ Shifted(Preceding)
               /\ HasLast(Preceding) <=> inserted'
               /\ CopyAt = input.pos[i] + Replaced(i)
                            + (IF inserted' THEN Room(LastBody) ELSE 0)
               /\ MetaBytesOf(Preceding) = MetaUpTo(i - 1) + NewMeta(i - 1)
                    + (IF inserted' THEN TagSize + LastBody ELSE 0)
    <2>1. /\ CopiedUpTo(out, i - 1) /\ Shifted(out)
          /\ IF inserted THEN Placed(out) ELSE Unplaced(out)
          /\ MetaBytesOf(out) = MetaUpTo(i - 1) + NewMeta(i - 1) + NewLast
      BY <1>3, <1>9 DEF WrittenUpTo
    <2>2. HasLast(out) <=> inserted
      BY <2>1, PlacedHas
    <2>3. input.pos[i] \in Nat /\ Replaced(i) \in Int /\ Room(LastBody) \in Nat
      <3>1. input.pos[i] \in Nat
        BY <1>0, <1>1, ReadingFacts DEF Offset
      <3>2. LastBody \in Nat /\ onMetaSize \in Nat
        BY <1>0, Naturals
      <3>3. Room(LastBody) \in Nat /\ Room(bodySize) \in Nat
        BY <1>0, <3>2, RoomType
      <3> QED BY <3>1, <3>2, <3>3 DEF Replaced, Replacement
    <2>4. NewMeta(i - 1) \in Int /\ MetaUpTo(i - 1) \in Int
      <3>1. i \in 1 .. Count /\ Count \in Nat
        <4>1. i \in 1 .. Count
          BY <1>0, <1>1, ReadingFacts DEF Count
        <4>2. Count \in Nat
          BY <1>0, InputFacts DEF Count, TypeOK
        <4> QED BY <4>1, <4>2
      <3>2. i - 1 \in 0 .. Count
        BY <3>1
      <3>3. NewMeta(i - 1) \in Int
        BY <1>0 DEF NewMeta
      <3> QED BY <1>0, <3>2, <3>3, MetaUpToFacts
    <2>5. CASE InsertNow
      <3>1. Preceding = Append(out, e) /\ CopyAt = outSize + Room(LastBody) /\ inserted' /\ ~inserted
        BY <1>1, <2>5 DEF Preceding, CopyAt, e, InsertNow
      <3>2. CopiedUpTo(Preceding, i - 1) /\ Shifted(Preceding)
        BY <1>0, <1>5, <1>6, <2>1, <3>1, AppendOther
      <3>3. HasLast(Preceding)
        <4>1. Len(Preceding) = Len(out) + 1 /\ Len(out) \in Nat /\ Preceding[Len(out) + 1] = e
          BY <1>0, <1>5, <3>1, AppendFacts
        <4>2. Len(out) + 1 \in 1 .. Len(Preceding)
          BY <4>1
        <4> QED BY <1>6, <4>1, <4>2 DEF HasLast
      <3>4. MetaBytesOf(Preceding) = MetaBytesOf(out) + TagSize + LastBody /\ MetaBytesOf(out) \in Int
        <4>1. MetaBytesOf(Preceding) = MetaBytesOf(out) + MetaBytes(e) /\ MetaBytesOf(out) \in Int
          BY <1>0, <1>5, <3>1, AppendMetaBytes
        <4> QED BY <1>7, <4>1
      <3>5. NewLast = 0 /\ Insertion = 0
        BY <3>1 DEF NewLast, Insertion
      <3> QED BY SMTT(30), <1>4, <1>9, <2>1, <2>3, <2>4, <3>1, <3>2, <3>3, <3>4, <3>5
    <2>6. CASE ~InsertNow
      <3>1. Preceding = out /\ CopyAt = outSize /\ inserted' = inserted
        <4>1. inserted \in BOOLEAN
          BY <1>0, Zenon DEF TypeOK
        <4>2. inserted' = inserted
          BY <1>1, <2>6, <4>1, Zenon
        <4> QED BY <1>0, <2>6, <4>2 DEF Preceding, CopyAt
      <3> QED BY <1>4, <1>9, <2>1, <2>2, <2>3, <3>1 DEF NewLast, Insertion
    <2> QED BY <2>5, <2>6
  <1> QED BY <1>2, <1>8, <1>9

LEMMA WrittenCopy ==
  ASSUME UpdateInv, TypeOK', CopyTag
  PROVE  WrittenInv'
  <1>0. /\ TypeOK /\ AccountInv /\ ReplacedInv /\ WrittenInv /\ out \in Seq(Entries)
        /\ outSize \in Nat
    BY Naturals, Zenon DEF UpdateInv, TypeOK
  <1>1. /\ UNCHANGED <<input, opts, infoVars, metaVars>>
        /\ Reading("COPY") /\ pc = "COPY" /\ Offset # onMetaOffset
        /\ inserted' = (inserted \/ InsertNow)
    BY CopySteps DEF Reading
  <1>2. /\ i \in 1 .. Count /\ i \in 1 .. Count + 1 /\ i - 1 \in 0 .. Count /\ Count \in Nat
        /\ i - 1 < Count /\ (i - 1) + 1 = i /\ i - 1 \in Nat
    <2>1. i \in 1 .. Count
      BY <1>0, <1>1, ReadingFacts DEF Count
    <2>2. Count \in Nat
      BY <1>0, InputFacts DEF Count, TypeOK
    <2> QED BY <2>1, <2>2
  <1> DEFINE e(bytes) == Entry("COPY", i, CopyAt, Tag.body, bytes, CopyTime)
             s == Preceding
  <1>3. ASSUME NEW bytes
        PROVE  /\ e(bytes).kind = "COPY" /\ e(bytes).index = i /\ e(bytes).at = CopyAt
               /\ e(bytes).length = Tag.body /\ e(bytes).bytes = bytes
               /\ e(bytes).prev = TagSize + bytes /\ e(bytes).time = CopyTime
    BY DEF Entry
  <1>4. /\ s \in Seq(Entries) /\ CopyAt \in Nat
        /\ Chained(s, CopyAt) /\ AllHold(s)
    BY WrittenPreceding
  <1>5. \A bytes \in Nat : e(bytes) \in Entries
    BY <1>0, <1>1, PrecedingTypes
  <1>6. Tag.body \in Nat /\ Tag.there \in Nat /\ biggest \in Nat
    <2>1. Tag.body \in Nat /\ Tag.there \in 0 .. Tag.body
      BY <1>0, <1>1, ReadingFacts
    <2>2. biggest \in Nat
      BY <1>0 DEF TypeOK
    <2> QED BY <2>1, <2>2
  <1> HIDE DEF e, s
  <1>7. ASSUME NEW bytes \in Nat, Put(bytes),
               Known(input) => \/ bytes = Tag.body
                               \/ /\ opts.onError = "IGNORE" /\ CutOff(Tag)
                                  /\ bytes = Tag.there
        PROVE  Chained(out', outSize') /\ AllHold(out')
    <2>1. out' = Append(s, e(bytes)) /\ outSize' = CopyAt + Room(bytes)
      BY <1>7 DEF Put, e, s
    <2>2. Chained(out', CopyAt + e(bytes).prev + PrevTagSize)
      BY <1>3, <1>4, <1>5, <2>1, AppendChained
    <2>3. CopyAt + e(bytes).prev + PrevTagSize = outSize'
      BY <1>3, <1>4, <2>1 DEF Room
    <2>4. Holds(e(bytes))
      BY <1>1, <1>2, <1>3, <1>7 DEF Holds, CutCopy, Offset, Tag
    <2> QED BY <1>4, <1>5, <2>1, <2>2, <2>3, <2>4, AppendHold
  <1>8. CASE ~Sound
    <2>1. \/ Omit
          \/ \E bytes \in Nat :
               /\ Put(bytes)
               /\ Known(input) => \/ bytes = Tag.body
                                  \/ /\ opts.onError = "IGNORE" /\ CutOff(Tag)
                                     /\ bytes = Tag.there
      <3>1. ToCopy(Tag.body) \in Nat /\ Lesser(ToCopy(Tag.body), Tag.there) \in Nat
        BY <1>6 DEF ToCopy, Lesser
      <3>2. Known(input) => ToCopy(Tag.body) = Tag.body
        BY <1>0, <1>1, <1>2, <1>6, KnownCopied
      <3>3. Lesser(Tag.body, Tag.there) < Tag.body
              => CutOff(Tag) /\ Lesser(Tag.body, Tag.there) = Tag.there
        BY <1>6 DEF CutOff, Lesser
      <3>4. \/ Omit
            \/ Put(ToCopy(Tag.body))
            \/ /\ opts.onError = "IGNORE"
               /\ Lesser(ToCopy(Tag.body), Tag.there) < ToCopy(Tag.body)
               /\ Put(Lesser(ToCopy(Tag.body), Tag.there))
        BY CopySteps
      <3> QED BY <3>1, <3>2, <3>3, <3>4
    <2>2. Chained(out', outSize') /\ AllHold(out')
      <3>1. CASE Omit
        BY <1>4, <3>1 DEF Omit, s
      <3> QED BY <1>7, <1>8, <2>1, <3>1
    <2>3. Sound' = Sound
      BY <1>1, InfoKept
    <2>4. PICK n : n = IF pc' = "COPY" THEN i' - 1 ELSE Count
      OBVIOUS
    <2> QED BY <1>1, <1>8, <2>2, <2>4, WrittenNext DEF Finished
  <1>9. CASE Sound
    <2>1. Put(Tag.body) /\ pc' = "COPY" /\ i' = i + 1
      BY <1>0, <1>1, <1>9, CopyWhole DEF Continue
    <2> DEFINE c == e(Tag.body)
    <2>2. out' = Append(s, c)
      BY <2>1 DEF Put, e, s
    <2>3. c \in Entries
      BY <1>5, <1>6
    <2>4. /\ c.kind = "COPY" /\ c.index = i /\ c.at = CopyAt /\ c.bytes = Tag.body
          /\ c.time = CopyTime
      BY <1>3
    <2> HIDE DEF c
    <2>5. /\ CopiedUpTo(s, i - 1) /\ Shifted(s) /\ (HasLast(s) <=> inserted')
          /\ CopyAt = input.pos[i] + Replaced(i) + (IF inserted' THEN Room(LastBody) ELSE 0)
          /\ MetaBytesOf(s) = MetaUpTo(i - 1) + NewMeta(i - 1)
                              + (IF inserted' THEN TagSize + LastBody ELSE 0)
      BY <1>9, WrittenPreceding DEF s
    <2>6. CopiedUpTo(out', i) /\ Shifted(out')
      <3>1. PICK m \in Nat : m = i - 1 /\ m + 1 = i
        BY <1>2
      <3>2. CopiedUpTo(s, m)
        BY <2>5, <3>1
      <3>3. c.at = input.pos[m + 1] + Replaced(m + 1)
                   + (IF HasLast(s) THEN Room(LastBody) ELSE 0)
        <4>1. c.at = input.pos[i] + Replaced(i) + (IF HasLast(s) THEN Room(LastBody) ELSE 0)
          BY <2>4, <2>5, Zenon
        <4> QED BY <3>1, <4>1
      <3>4. c.index = m + 1
        BY <2>4, <3>1
      <3>5. CopiedUpTo(Append(s, c), m + 1) /\ Shifted(Append(s, c))
        BY <1>4, <2>3, <2>4, <2>5, <3>2, <3>3, <3>4, AppendCopy
      <3> QED BY <2>2, <3>1, <3>5
    <2>7. MetaWritten(out', i, inserted')
      <3>1. MetaBytesOf(out') = MetaBytesOf(s) + MetaBytes(c)
        BY <1>4, <2>2, <2>3, AppendMetaBytes
      <3>2. MetaBytes(c) = MetaTag(i)
        BY <1>1, <2>4 DEF MetaBytes, IsMetaEntry, MetaTag, Offset, Tag
      <3>3. MetaTag(i) \in Int /\ MetaUpTo(i) = MetaUpTo(i - 1) + MetaTag(i)
            /\ MetaUpTo(i - 1) \in Int
        <4>1. MetaTag(i) \in Nat
          BY <1>0, <1>2, MetaTagType
        <4>2. MetaUpTo((i - 1) + 1) = MetaUpTo(i - 1) + MetaTag((i - 1) + 1)
              /\ MetaUpTo(i - 1) \in Int
          BY <1>0, <1>2, MetaUpToFacts
        <4> QED BY <1>2, <4>1, <4>2
      <3>4. NewMeta(i) = NewMeta(i - 1) /\ NewMeta(i) \in Int
        <4>1. bodySize \in Nat
          BY <1>0, Naturals
        <4>2. onMetaSize = 0 \/ onMetaOffset < input.pos[i + 1]
                <=> onMetaSize = 0 \/ onMetaOffset < input.pos[i]
          BY <1>0, <1>1, <1>2, ReplacedFacts DEF Offset
        <4> QED BY <1>2, <4>1, <4>2 DEF NewMeta
      <3> DEFINE l == IF inserted' THEN TagSize + LastBody ELSE 0
      <3>5. l \in Int
        OBVIOUS
      <3>6. MetaBytesOf(s) = MetaUpTo(i - 1) + NewMeta(i - 1) + l
        BY <2>5
      <3> HIDE DEF l
      <3>7. MetaBytesOf(out') = MetaUpTo(i) + NewMeta(i) + l
        BY <3>1, <3>2, <3>3, <3>4, <3>5, <3>6
      <3> QED BY <3>7 DEF MetaWritten, l
    <2>8. IF inserted' THEN Placed(out') ELSE Unplaced(out')
      <3>1. IF inserted THEN Placed(out) ELSE Unplaced(out)
        BY <1>0, <1>1, <1>9 DEF WrittenInv, WrittenUpTo
      <3>2. Late(c) <=> (lastTime - CopyTime) % TsRange <= LastSecond
        BY <2>4 DEF Late
      <3>3. CASE inserted
        <4>1. inserted' /\ ~InsertNow
          BY <1>1, <3>3 DEF InsertNow
        <4>2. s = out
          BY <4>1 DEF Preceding, s
        <4> QED BY <1>4, <2>2, <2>3, <2>4, <3>1, <3>3, <4>1, <4>2, AppendPlaced
      <3>4. CASE ~inserted /\ InsertNow
        <4> DEFINE last == NewLastSecond(outSize, CopyTime)
        <4>1. inserted' /\ ToInsert /\ Late(c) /\ s = Append(out, last)
          BY <1>1, <3>2, <3>4 DEF InsertNow, Preceding, s
        <4>2. last.kind = "ON_LAST_SECOND"
          BY DEF NewLastSecond, Entry
        <4>3. last \in Entries
          <5>1. LastBody % LengthRange \in Nat /\ LastBody \in Nat
            BY ModRange
          <5>2. CopyTime \in 0 .. TsRange - 1
            BY <1>0, <1>1, TimeTypes
          <5> QED BY <1>0, <5>1, <5>2, EntryType DEF NewLastSecond
        <4> HIDE DEF last
        <4>4. Placed(Append(Append(out, last), c))
          BY <1>0, <2>3, <2>4, <3>1, <3>4, <4>1, <4>2, <4>3, AppendBoth
        <4> QED BY <2>2, <4>1, <4>4
      <3>5. CASE ~inserted /\ ~InsertNow
        <4>1. ~inserted'
          BY <1>1, <3>5
        <4>2. s = out /\ (ToInsert => ~Late(c))
          BY <3>2, <3>5 DEF Preceding, s, InsertNow
        <4> QED BY <1>4, <2>2, <2>3, <2>4, <3>1, <3>5, <4>1, <4>2, AppendUnplaced
      <3> QED BY <3>3, <3>4, <3>5
    <2>9. Chained(out', outSize') /\ AllHold(out')
      BY <1>6, <1>7, <2>1
    <2>10. i' - 1 = i /\ ~Finished'
      BY <1>2, <2>1 DEF Finished
    <2> QED BY <1>1, <2>6, <2>7, <2>8, <2>9, <2>10, WrittenNext
  <1> QED BY <1>8, <1>9

LEMMA WrittenStep ==
  ASSUME UpdateInv, TypeOK', [Next]_vars
  PROVE  WrittenInv'
  <1>0. TypeOK /\ WrittenInv
    BY DEF UpdateInv
  <1>1. CASE ReadHeader \/ ScanMeta \/ ScanVideo \/ ScanAudio \/ ScanOther \/ Compute
             \/ WriteFails
    <2>1. pc' \in {"SCAN", "WRITE"} \/ (pc' = "DONE" /\ result' # "OK")
      BY <1>1 DEF ReadHeader, ScanMeta, ScanVideo, ScanAudio, ScanOther, Compute,
         WriteFails, Stop, Continue, Reading
    <2> QED BY <2>1 DEF WrittenInv, Finished
  <1>2. CASE EndOfCopy
    <2>1. /\ pc = "COPY" /\ i > Count /\ pc' = "DONE"
          /\ UNCHANGED <<input, opts, infoVars, metaVars, outVars>>
      BY <1>2 DEF EndOfCopy, Stop, Count
    <2>2. i - 1 = Count
      <3>1. i \in 1 .. Count + 1 /\ Count \in Nat
        BY <1>0, InputFacts DEF TypeOK, Count
      <3> QED BY <2>1, <3>1
    <2>3. out' = out /\ outSize' = outSize /\ inserted' = inserted
      BY <2>1 DEF outVars
    <2>4. Chained(out, outSize) /\ AllHold(out) /\ (Sound => WrittenUpTo(Count))
      BY <1>0, <2>1, <2>2 DEF WrittenInv, AllHold
    <2>5. Sound => MetaWritten(out', Count, inserted')
      BY <2>3, <2>4 DEF WrittenUpTo, MetaWritten, NewLast
    <2> QED BY <2>1, <2>3, <2>4, <2>5, WrittenNext DEF WrittenUpTo
  <1>3. CASE UNCHANGED vars
    <2>1. UNCHANGED <<input, opts, pc, i, result, infoVars, metaVars, outVars>>
      BY <1>3 DEF vars
    <2>2. out' = out /\ outSize' = outSize /\ inserted' = inserted
      BY <2>1 DEF outVars
    <2>3. CASE pc = "COPY" \/ Finished
      <3> DEFINE m == IF pc = "COPY" THEN i - 1 ELSE Count
      <3>1. Chained(out, outSize) /\ AllHold(out) /\ (Sound => WrittenUpTo(m))
        BY <1>0, <2>3 DEF WrittenInv, AllHold
      <3>2. PICK n : n = m
        OBVIOUS
      <3>3. pc' = "COPY" => n = i' - 1
        BY <2>1, <3>2
      <3>4. Finished' => n = Count
        BY <2>1, <3>2 DEF Finished
      <3> HIDE DEF m
      <3>5. Sound => WrittenUpTo(n)
        BY <3>1, <3>2
      <3>6. Sound => MetaWritten(out', n, inserted')
        BY <2>2, <3>5 DEF WrittenUpTo, MetaWritten, NewLast
      <3> QED BY <2>1, <2>2, <3>1, <3>3, <3>4, <3>5, <3>6, WrittenNext DEF WrittenUpTo
    <2>4. CASE ~(pc = "COPY" \/ Finished)
      BY <2>1, <2>4 DEF WrittenInv, Finished
    <2> QED BY <2>3, <2>4
  <1> QED BY <1>1, <1>2, <1>3, WrittenHeader, WrittenReplacement, WrittenCopy DEF Next

----------------------------------------------------------------------------
LEMMA InitInv == Init => UpdateInv
  <1> SUFFICES ASSUME Init PROVE UpdateInv
    OBVIOUS
  <1>1. TypeOK
    BY InitTypes
  <1>2. /\ pc = "OPEN" /\ i = 1 /\ seen = <<>> /\ ~haveFirst /\ ~inserted /\ out = <<>>
        /\ clock = [type \in Media |-> [prev |-> 0, ext |-> 0]]
        /\ videoSize = 0 /\ audioSize = 0 /\ metaSize = 0 /\ prevTagsSize = 0
        /\ onMetaSize = 0 /\ onMetaOffset = 0
    BY DEF Init
  <1>3. AccountInv
    BY <1>2 DEF AccountInv, Account, Scanned, Finished
  <1>4. ReplacedInv
    BY <1>2 DEF ReplacedInv
  <1>5. ClockInv
    BY <1>2 DEF ClockInv, Prior, Scanned, Finished
  <1>9. FirstInv
    <2>1. firstTime = 0
      BY DEF Init
    <2> QED BY <1>2, <2>1 DEF FirstInv, Scanned, Finished
  <1>6. OutputInv
    BY <1>2 DEF OutputInv, InsertedInv, SizeInv, PlacedInv, CopiesInv, Finished
  <1>7. ErrorsInv /\ WrittenInv
    BY <1>2 DEF ErrorsInv, WrittenInv, Scanned, Finished
  <1>8. NotedInv
    <2>1. keyframes = <<>>
      BY DEF Init
    <2> QED BY <1>2, <2>1 DEF NotedInv, Scanned, Finished
  <1> QED BY <1>1, <1>3, <1>4, <1>5, <1>6, <1>7, <1>8, <1>9 DEF UpdateInv

(* The invariant the properties follow from: what the first pass counts of *)
(* the input (info.c:190-538) and what the second pass writes of it        *)
(* (update.c:39-254) keep in step.                                         *)
THEOREM UpdateInvariant == Spec => []UpdateInv
  <1>1. UpdateInv /\ [Next]_vars => UpdateInv'
    <2> SUFFICES ASSUME UpdateInv, [Next]_vars PROVE UpdateInv'
      OBVIOUS
    <2>1. TypeOK'
      BY StepTypes DEF UpdateInv
    <2>2. OutputInv'
      BY <2>1, InsertedStep, SizeStep, PlacedStep, CopiesStep DEF OutputInv
    <2> QED BY <2>1, <2>2, AccountStep, ReplacedStep, ClockStep, FirstStep, ErrorsStep, NotedStep,
               WrittenStep DEF UpdateInv
  <1> QED BY <1>1, InitInv, PTL DEF Spec

(* The filesize written in the new onMetaData before the output exists is  *)
(* the size of the output (info.c:709-718 against update.c:57-246), on     *)
(* every file of known tags that is not cut off and whose last tag is      *)
(* copied.                                                                 *)
THEOREM FilesizeIsExact == Spec => []FilesizeExact
  <1>1. UpdateInv => FilesizeExact
    <2> SUFFICES ASSUME UpdateInv, LastTagCopied, Finished, Sound
                 PROVE  filesize = outSize
      BY DEF FilesizeExact, FilesizeStated
    <2>1. TypeOK /\ AccountInv /\ InsertedInv /\ SizeInv /\ PlacedInv
      BY DEF UpdateInv, OutputInv
    <2>2. /\ Account = input.pos[Count + 1]
          /\ filesize = Account - onMetaSize + Room(bodySize)
                        + (IF ToInsert THEN Room(LastBody) ELSE 0)
      BY <2>1 DEF AccountInv, Sound, Scanned
    <2>3. outSize = input.pos[Count + 1] + Insertion + Replacement
      BY <2>1 DEF SizeInv
    <2>4. Insertion = IF ToInsert THEN Room(LastBody) ELSE 0
      BY <2>1 DEF InsertedInv, PlacedInv, Insertion
    <2>5. /\ onMetaSize \in Nat /\ Room(bodySize) \in Nat /\ Insertion \in Nat
          /\ input.pos[Count + 1] \in Nat
      <3>1. input.pos \in [1 .. Count + 1 -> Nat] /\ Count \in Nat
        BY <2>1, InputFacts DEF TypeOK, Count
      <3>2. onMetaSize \in Nat /\ bodySize \in Nat
        BY <2>1, Naturals
      <3>3. Room(bodySize) \in Nat /\ Room(LastBody) \in Nat
        BY <3>2, RoomType
      <3> QED BY <3>1, <3>2, <3>3 DEF Insertion
    <2> QED BY <2>2, <2>3, <2>4, <2>5 DEF Replacement
  <1> QED BY <1>1, UpdateInvariant, PTL

(* The two passes give every tag the same timestamp, wrapped counters and  *)
(* rebasing included, except metadata that precedes the other tags         *)
(* (info.c:280-319 against update.c:114-151).                              *)
THEOREM TimesAgreeInBothPasses == Spec => []TimesAgree
  <1>1. UpdateInv => TimesAgree
    <2> SUFFICES ASSUME UpdateInv, Finished, NEW k \in DOMAIN out, out[k].kind = "COPY"
                 PROVE  \/ out[k].time = seen[out[k].index].time
                        \/ /\ opts.reset
                           /\ \A j \in 1 .. out[k].index : input.tags[j].type = "META"
      BY DEF TimesAgree
    <2>1. TypeOK /\ ClockInv /\ CopiesInv
      BY DEF UpdateInv, OutputInv
    <2>2. out[k].index \in 1 .. Count /\ out[k].time = TimeOf(out[k].index)
      BY <2>1 DEF CopiesInv
    <2>3. out[k].index \in DOMAIN seen
      <3>1. DOMAIN seen = 1 .. Len(seen) /\ Len(seen) = Count
        BY <2>1, SeenFacts DEF ClockInv, Scanned
      <3> QED BY <2>2, <3>1
    <2>4. Dated(out[k].index) \/ ~opts.reset => seen[out[k].index].time = TimeOf(out[k].index)
      BY <2>1, <2>3 DEF ClockInv, Scanned
    <2> QED BY <2>2, <2>4 DEF Dated
  <1> QED BY <1>1, UpdateInvariant, PTL

(* Without --fix or --ignore, an update that ends well has passed over no  *)
(* tag of an unknown type, cut off or without valid contents, but for the  *)
(* onMetaData it replaces (info.c:190-538, update.c:209-216).              *)
THEOREM ErrorsStopTheUpdate == Spec => []ErrorsStop
  <1>1. UpdateInv => ErrorsStop
    <2> SUFFICES ASSUME UpdateInv, Finished, opts.onError = "EXIT" PROVE ErrorsStop
      BY DEF ErrorsStop
    <2>1. TypeOK /\ ErrorsInv
      BY DEF UpdateInv
    <2>2. \A k \in 1 .. Count : Passable(input.tags[k]) /\ Uncut(k)
      BY <2>1 DEF ErrorsInv, Scanned
    <2>3. Known(input)
      BY <2>1, <2>2, PassableIsKnown
    <2>4. DOMAIN input.tags = 1 .. Count
      BY <2>1, InputFacts DEF TypeOK, Count
    <2>5. ASSUME NEW k \in 1 .. Count, input.tags[k].there < input.tags[k].body
          PROVE  input.pos[k] = onMetaOffset
      BY <2>1, <2>2, <2>5, KnownTypes DEF Uncut
    <2> QED BY <2>2, <2>3, <2>4, <2>5 DEF ErrorsStop, Passable, CutOff
  <1> QED BY <1>1, UpdateInvariant, PTL

(* What the invariant says of a finished output.                           *)
LEMMA FinishedOutput ==
  ASSUME UpdateInv, Finished
  PROVE  /\ TypeOK /\ out \in Seq(Entries) /\ Len(out) \in Nat /\ DOMAIN out = 1 .. Len(out)
         /\ Count \in Nat /\ DOMAIN input.tags = 1 .. Count
         /\ Copies = CopiesOf(out)
         /\ Chained(out, outSize) /\ AllHold(out)
         /\ Sound => WrittenUpTo(Count)
         /\ inserted => ToInsert
         /\ Sound /\ LastTagCopied /\ ToInsert => inserted
  <1>1. /\ TypeOK /\ WrittenInv /\ InsertedInv /\ PlacedInv
    BY DEF UpdateInv, OutputInv
  <1>2. out \in Seq(Entries)
    BY <1>1, Zenon DEF TypeOK
  <1>3. Len(out) \in Nat /\ DOMAIN out = 1 .. Len(out)
    BY <1>2, OutFacts
  <1>4. Count \in Nat /\ DOMAIN input.tags = 1 .. Count
    BY <1>1, InputFacts DEF TypeOK, Count
  <1>5. Copies = CopiesOf(out)
    BY <1>3 DEF Copies, CopiesOf
  <1>6. Chained(out, outSize) /\ AllHold(out) /\ (Sound => WrittenUpTo(Count))
    BY <1>1 DEF WrittenInv, AllHold, Finished
  <1>7. (inserted => ToInsert) /\ (Sound /\ LastTagCopied /\ ToInsert => inserted)
    BY <1>1 DEF InsertedInv, PlacedInv
  <1> QED BY <1>1, <1>2, <1>3, <1>4, <1>5, <1>6, <1>7

(* The tags of the output follow each other, each as long as its header    *)
(* says, the tag that --ignore copies from a cut off file aside            *)
(* (update.c:207-244), on every file of known tags, as long as the new     *)
(* onMetaData has a length at all.                                         *)
THEOREM OutputWellFormed == Spec => []WellFormed
  <1>1. UpdateInv => WellFormed
    <2> SUFFICES ASSUME UpdateInv, Finished, Known(input), bodySize < LengthRange,
                        NEW k \in DOMAIN out
                 PROVE  /\ out[k].length = out[k].bytes \/ CutCopy(out[k])
                        /\ out[k].at = IF k = 1 THEN HeaderSize + PrevTagSize
                                       ELSE out[k - 1].at + out[k - 1].prev + PrevTagSize
      BY DEF WellFormed
    <2>1. Holds(out[k]) /\ Chained(out, outSize) /\ k \in 1 .. Len(out) /\ Len(out) \in Nat
      BY FinishedOutput DEF AllHold
    <2>2. out[k].at = EndOf(out, k - 1)
      BY <2>1 DEF Chained
    <2>3. k = 1 <=> k - 1 = 0
      BY <2>1
    <2>4. bodySize % LengthRange = bodySize /\ LastBody % LengthRange = LastBody
      <3>1. bodySize \in Nat
        BY FinishedOutput, Naturals
      <3>2. \A n \in Nat : n < LengthRange => n % LengthRange = n
        OBVIOUS
      <3> QED BY <3>1, <3>2
    <2> QED BY <2>1, <2>2, <2>3, <2>4 DEF EndOf, Holds
  <1> QED BY <1>1, UpdateInvariant, PTL

(* Every tag but the onMetaData replaced is copied once, whole and in      *)
(* order (update.c:103-246).                                               *)
THEOREM TagsAreKept == Spec => []NothingLost
  <1>1. UpdateInv => NothingLost
    <2> SUFFICES ASSUME UpdateInv, Finished, Sound
                 PROVE  /\ {out[k].index : k \in Copies} = ToKeep
                        /\ \A j, k \in Copies : j < k => out[j].index < out[k].index
                        /\ \A k \in Copies : out[k].bytes = input.tags[out[k].index].body
      BY DEF NothingLost
    <2>1. CopiedUpTo(out, Count) /\ Copies = CopiesOf(out)
      BY FinishedOutput DEF WrittenUpTo
    <2>2. ASSUME NEW k \in Copies
          PROVE  /\ out[k].index \in ToKeep
                 /\ out[k].bytes = input.tags[out[k].index].body
      <3>1. Holds(out[k]) /\ out[k].kind = "COPY"
        BY FinishedOutput DEF AllHold, Copies
      <3>2. DOMAIN input.tags = 1 .. Count
        BY FinishedOutput
      <3> QED BY <3>1, <3>2 DEF Holds, ToKeep, CutCopy, Sound, Whole
    <2>3. ASSUME NEW m \in ToKeep PROVE \E k \in Copies : out[k].index = m
      <3>1. m \in 1 .. Count /\ input.pos[m] # onMetaOffset
        BY FinishedOutput DEF ToKeep
      <3> QED BY <2>1, <3>1 DEF CopiedUpTo
    <2> QED BY <2>1, <2>2, <2>3 DEF CopiedUpTo
  <1> QED BY <1>1, UpdateInvariant, PTL

(* An onLastSecond is inserted when it is asked for and the input has      *)
(* none, once, before the first tag of the last second (update.c:153-180). *)
THEOREM LastSecondIsPlaced == Spec => []LastSecondPlaced
  <1>1. UpdateInv => LastSecondPlaced
    <2> DEFINE at == {k \in DOMAIN out : out[k].kind = "ON_LAST_SECOND"}
    <2> SUFFICES ASSUME UpdateInv, Finished, Sound, LastTagCopied
                 PROVE  IF ~ToInsert THEN at = {}
                        ELSE \E k \in at :
                               /\ at = {k}
                               /\ k + 1 \in Copies
                               /\ (lastTime - out[k + 1].time) % TsRange <= LastSecond
                               /\ \A j \in Copies : j < k =>
                                    (lastTime - out[j].time) % TsRange > LastSecond
      BY DEF LastSecondPlaced
    <2>1. /\ IF inserted THEN Placed(out) ELSE Unplaced(out)
          /\ inserted <=> ToInsert
          /\ Copies = CopiesOf(out) /\ DOMAIN out = 1 .. Len(out)
      BY FinishedOutput DEF WrittenUpTo
    <2>2. ASSUME ~ToInsert PROVE at = {}
      BY <2>1, <2>2 DEF Unplaced
    <2>3. ASSUME ToInsert
          PROVE  \E k \in at :
                   /\ at = {k}
                   /\ k + 1 \in Copies
                   /\ (lastTime - out[k + 1].time) % TsRange <= LastSecond
                   /\ \A j \in Copies : j < k =>
                        (lastTime - out[j].time) % TsRange > LastSecond
      <3>1. PICK k \in 1 .. Len(out) :
              /\ \A j \in 1 .. Len(out) : out[j].kind = "ON_LAST_SECOND" <=> j = k
              /\ k + 1 \in CopiesOf(out) /\ Late(out[k + 1])
              /\ \A j \in CopiesOf(out) : j < k => ~Late(out[j])
        BY <2>1, <2>3 DEF Placed
      <3>2. at = {k} /\ k \in at
        BY <2>1, <3>1
      <3>3. ASSUME NEW j \in Copies, j < k
            PROVE  (lastTime - out[j].time) % TsRange > LastSecond
        <4>1. ~((lastTime - out[j].time) % TsRange <= LastSecond)
          BY <2>1, <3>1, <3>3 DEF Late
        <4>2. (lastTime - out[j].time) % TsRange \in Int
          <5>1. out[j] \in Entries
            <6> HIDE DEF Entries
            <6>1. j \in 1 .. Len(out) BY <2>1, <3>3 DEF CopiesOf
            <6> QED BY <6>1, FinishedOutput DEF UpdateInv, TypeOK
          <5>3. lastTime \in 0 .. TsRange - 1
            BY DEF UpdateInv, TypeOK
          <5>2. lastTime - out[j].time \in Int
            BY <5>1, <5>3, EntryFacts, TsRangePositive
          <5> QED BY <5>2, ModRange, TsRangePositive
        <4> QED BY <4>1, <4>2
      <3> QED BY <2>1, <3>1, <3>2, <3>3 DEF Late
    <2> QED BY <2>2, <2>3
  <1> QED BY <1>1, UpdateInvariant, PTL

(* The datasize written in the new onMetaData before the output exists is  *)
(* the size of the metadata tags of the output (info.c:701-707).           *)
THEOREM DatasizeIsExact == Spec => []DatasizeExact
  <1>1. UpdateInv => DatasizeExact
    <2> SUFFICES ASSUME UpdateInv, Finished, Sound, LastTagCopied
                 PROVE  datasize = MetaBytesOf(out)
      BY DEF DatasizeExact
    <2>1. /\ TypeOK /\ NotedInv /\ ReplacedInv
      BY DEF UpdateInv
    <2>2. metaSize = MetaUpTo(Count) /\ datasize = DataSize(bodySize)
      BY <2>1 DEF NotedInv, Scanned
    <2>3. MetaBytesOf(out) = MetaUpTo(Count) + NewMeta(Count) + NewLast
      BY FinishedOutput DEF WrittenUpTo
    <2>4. NewMeta(Count) = TagSize + bodySize
      <3>1. Count + 1 \in 1 .. Count + 1
        BY FinishedOutput
      <3> QED BY <2>1, <3>1, ReplacedFacts DEF NewMeta
    <2>5. NewLast = IF ToInsert THEN TagSize + LastBody ELSE 0
      BY FinishedOutput DEF NewLast
    <2>6. metaSize \in Nat /\ bodySize \in Nat
      BY <2>1, Naturals
    <2> QED BY <2>2, <2>3, <2>4, <2>5, <2>6 DEF DataSize
  <1> QED BY <1>1, UpdateInvariant, PTL

----------------------------------------------------------------------------
(* Arithmetic.                                                             *)
LEMMA AtMost ==
  ASSUME NEW a \in Int, NEW b \in Int
  PROVE  a <= b <=> a < b \/ a = b
  OBVIOUS

LEMMA NoFurther ==
  ASSUME NEW a \in Int, NEW b \in Int, NEW last \in Int, NEW n \in Int,
         a <= b, last - a <= n
  PROVE  last - b <= n
  OBVIOUS

LEMMA SumOrder ==
  ASSUME NEW a \in Int, NEW b \in Int, NEW c \in Int, NEW d \in Int
  PROVE  a + (b - c) + d = a + b - c + d
  OBVIOUS

(* The timestamps the first pass has noted.                                *)
LEMMA SeenTimes ==
  ASSUME TypeOK
  PROVE  \A k \in DOMAIN seen : seen[k].time \in 0 .. TsRange - 1
  <1> DEFINE Kind == [time : 0 .. TsRange - 1, clock : Clocks]
  <1>1. seen \in Seq(Kind)
    BY Zenon DEF TypeOK
  <1>2. \A e \in Kind : e.time \in 0 .. TsRange - 1
    OBVIOUS
  <1> HIDE DEF Kind
  <1>3. \A k \in DOMAIN seen : seen[k] \in Kind
    BY <1>1
  <1> QED BY <1>2, <1>3

LEMMA SeenOrdered ==
  ASSUME TypeOK, InOrder, NEW a \in DOMAIN seen, NEW b \in DOMAIN seen, a <= b
  PROVE  seen[a].time <= seen[b].time
  <1>1. DOMAIN seen = 1 .. Len(seen) /\ Len(seen) \in Nat
    BY SeenFacts
  <1>2. \A k \in DOMAIN seen : seen[k].time \in 0 .. TsRange - 1
    BY SeenTimes
  <1>3. \A c \in DOMAIN seen : seen[c].time \in Int
    BY <1>2, TsRangePositive
  <1> HIDE UpdateSizes
  <1> DEFINE S == {n \in Nat : \A c \in DOMAIN seen :
                                 c = a + n => seen[a].time <= seen[c].time}
  <1>4. 0 \in S
    <2> SUFFICES ASSUME NEW c \in DOMAIN seen, c = a + 0
                 PROVE  seen[a].time <= seen[c].time
      OBVIOUS
    <2>1. c = a /\ seen[a].time \in Int
      BY <1>1, <1>3
    <2> QED BY <2>1
  <1>5. ASSUME NEW n \in S PROVE n + 1 \in S
    <2> SUFFICES ASSUME NEW c \in DOMAIN seen, c = a + (n + 1)
                 PROVE  seen[a].time <= seen[c].time
      OBVIOUS
    <2>1. c - 1 \in DOMAIN seen /\ c > 1 /\ c - 1 = a + n
      BY <1>1
    <2>2. seen[a].time <= seen[c - 1].time
      BY <2>1
    <2>3. seen[c - 1].time <= seen[c].time
      BY <2>1 DEF InOrder
    <2>4. seen[a].time \in Int /\ seen[c - 1].time \in Int /\ seen[c].time \in Int
      BY <1>3, <2>1
    <2> QED BY <2>2, <2>3, <2>4
  <1>6. S = Nat
    <2> S \in SUBSET Nat
      OBVIOUS
    <2> HIDE DEF S
    <2> QED BY <1>4, <1>5, SetInduction
  <1>7. b - a \in Nat /\ b = a + (b - a)
    BY <1>1
  <1> QED BY <1>6, <1>7

LEMMA FirstDated ==
  ASSUME NEW k \in Nat, Dated(k)
  PROVE  \E d \in 1 .. k : Dated(d) /\ ~Dated(d - 1)
  <1> DEFINE S == {n \in Nat : Dated(n) => \E d \in 1 .. n : Dated(d) /\ ~Dated(d - 1)}
  <1>1. 0 \in S
    BY DEF Dated
  <1>2. ASSUME NEW n \in S PROVE n + 1 \in S
    <2> SUFFICES ASSUME Dated(n + 1)
                 PROVE  \E d \in 1 .. n + 1 : Dated(d) /\ ~Dated(d - 1)
      OBVIOUS
    <2>1. CASE Dated(n)
      <3>1. PICK d \in 1 .. n : Dated(d) /\ ~Dated(d - 1)
        BY <2>1
      <3>2. d \in 1 .. n + 1
        OBVIOUS
      <3> QED BY <3>1, <3>2
    <2>2. CASE ~Dated(n)
      <3>1. n + 1 \in 1 .. n + 1 /\ n + 1 - 1 = n
        OBVIOUS
      <3> QED BY <2>2, <3>1
    <2> QED BY <2>1, <2>2
  <1>3. S = Nat
    <2> S \in SUBSET Nat
      OBVIOUS
    <2> HIDE DEF S
    <2> QED BY <1>1, <1>2, SetInduction
  <1> QED BY <1>3

(* In order, the metadata before the first timestamp is at zero: nothing   *)
(* before a dated tag is rebased by one pass and not by the other.         *)
LEMMA OrderedTimes ==
  ASSUME UpdateInv, Finished, InOrder, NEW j \in 1 .. Count, Dated(j), NEW n \in 1 .. j
  PROVE  seen[n].time = TimeOf(n)
  <1>1. TypeOK /\ ClockInv /\ FirstInv
    BY DEF UpdateInv
  <1>2. DOMAIN seen = 1 .. Count /\ Count \in Nat
    BY <1>1, SeenFacts, InputFacts DEF ClockInv, Scanned, TypeOK, Count
  <1>3. n \in 1 .. Count
    BY <1>2
  <1>4. Dated(n) \/ ~opts.reset => seen[n].time = TimeOf(n)
    BY <1>1, <1>2, <1>3 DEF ClockInv, Scanned
  <1>5. CASE ~Dated(n) /\ opts.reset
    <2>1. seen[n].time = Recovered(Prior(n), input.tags[n])
      BY <1>1, <1>2, <1>3, <1>5 DEF FirstInv, Scanned
    <2>2. PICK d \in 1 .. j : Dated(d) /\ ~Dated(d - 1)
      BY FirstDated, <1>2
    <2>3. d \in 1 .. Count
      BY <1>2
    <2>4. n < d
      <3>1. CASE d <= n
        <4>1. Dated(n)
          BY <2>2, <3>1 DEF Dated
        <4> QED BY <4>1, <1>5
      <3> QED BY <3>1, <1>2
    <2>5. seen[n].time <= seen[d].time
      BY <1>1, <1>2, <1>3, <2>3, <2>4, SeenOrdered
    <2>6. firstTime = Recovered(Prior(d), input.tags[d]) /\ seen[d].time = TimeOf(d)
      BY <1>1, <1>2, <2>2, <2>3 DEF FirstInv, ClockInv, Scanned
    <2>7. firstTime \in 0 .. TsRange - 1
      BY <1>1 DEF TypeOK
    <2>8. firstTime - firstTime = 0 /\ 0 % TsRange = 0
      BY <2>7, TsRangePositive, ZeroMod
    <2>9. seen[d].time = 0
      BY <2>6, <2>7, <2>8, <1>5, TsRangePositive DEF TimeOf, Rebased
    <2>10. seen[n].time = 0
      <3>1. seen[n].time \in 0 .. TsRange - 1
        BY <1>1, <1>2, <1>3, SeenTimes
      <3> QED BY <2>5, <2>9, <3>1, TsRangePositive
    <2> QED BY <2>1, <2>10 DEF TimeOf, Rebased
  <1> QED BY <1>4, <1>5

(* A copy has the timestamp the first pass has noted for its tag.          *)
LEMMA CopiesTimes ==
  ASSUME UpdateInv, Finished, InOrder, NEW m \in CopiesOf(out), Dated(out[m].index),
         NEW q \in CopiesOf(out), q <= m, Sound
  PROVE  /\ out[q].index \in 1 .. Count /\ out[q].time = seen[out[q].index].time
         /\ out[q].time <= out[m].time /\ out[m].time <= lastTime
         /\ out[q].time \in 0 .. TsRange - 1 /\ lastTime \in 0 .. TsRange - 1
  <1>1. /\ TypeOK /\ ClockInv /\ CopiesInv /\ lastTime \in 0 .. TsRange - 1
    BY DEF UpdateInv, OutputInv, TypeOK
  <1>2. DOMAIN seen = 1 .. Count /\ Count \in Nat /\ Len(seen) = Count
    BY <1>1, SeenFacts, InputFacts DEF ClockInv, Scanned, TypeOK, Count
  <1>3. /\ DOMAIN out = 1 .. Len(out)
        /\ \A j, k \in CopiesOf(out) : j < k => out[j].index < out[k].index
    BY FinishedOutput DEF WrittenUpTo, CopiedUpTo
  <1>4. \A k \in CopiesOf(out) : out[k].index \in 1 .. Count /\ out[k].time = TimeOf(out[k].index)
    BY <1>1, <1>3 DEF CopiesInv, CopiesOf
  <1> DEFINE a == out[q].index
             b == out[m].index
  <1>5. a \in 1 .. Count /\ b \in 1 .. Count /\ a <= b
    <2>1. q = m \/ q < m
      BY DEF CopiesOf
    <2> QED BY <1>2, <1>3, <1>4, <2>1
  <1>6. out[q].time = seen[a].time /\ out[m].time = seen[b].time
    <2>1. a \in 1 .. b /\ b \in 1 .. b
      BY <1>5
    <2> HIDE DEF a, b
    <2>2. Dated(b)
      BY DEF b
    <2>3. seen[a].time = TimeOf(a) /\ seen[b].time = TimeOf(b)
      BY <1>5, <2>1, <2>2, OrderedTimes
    <2> QED BY <1>4, <2>3 DEF a, b
  <1> HIDE DEF a, b
  <1>7. seen[a].time <= seen[b].time
    BY <1>1, <1>2, <1>5, SeenOrdered
  <1>8. lastTime = seen[Count].time
    <2>1. seen # <<>>
      BY <1>2, <1>5
    <2> QED BY <1>1, <1>2, <2>1 DEF ClockInv, Sound, Scanned
  <1>9. seen[b].time <= seen[Count].time
    <2>1. Count \in DOMAIN seen /\ b <= Count
      BY <1>2, <1>5
    <2> QED BY <1>1, <1>2, <1>5, <2>1, SeenOrdered
  <1>10. seen[a].time \in 0 .. TsRange - 1
    BY <1>1, <1>2, <1>5, SeenTimes
  <1> QED BY <1>1, <1>5, <1>6, <1>7, <1>8, <1>9, <1>10 DEF a

(* In order, the copies that are late are those after the onLastSecond.    *)
LEMMA LateAfterInsertion ==
  ASSUME UpdateInv, Finished, InOrder, Sound, NEW m \in CopiesOf(out),
         Dated(out[m].index), ToInsert
  PROVE  /\ Late(out[m]) <=> lastTime - out[m].time <= LastSecond
         /\ InsertedBefore(out, m) =
              IF lastTime - out[m].time <= LastSecond THEN Room(LastBody) ELSE 0
  <1>1. /\ out[m].time \in 0 .. TsRange - 1 /\ lastTime \in 0 .. TsRange - 1
        /\ out[m].time <= lastTime
    <2>1. m <= m
      BY DEF CopiesOf
    <2> QED BY <2>1, CopiesTimes
  <1>2. ASSUME NEW e, e.time \in 0 .. TsRange - 1, e.time <= lastTime
        PROVE  Late(e) <=> lastTime - e.time <= LastSecond
    <2>1. (lastTime - e.time) % TsRange = lastTime - e.time
      <3> DEFINE t == lastTime - e.time
                 n == TsRange
      <3>1. t \in 0 .. n - 1 /\ n \in Nat \ {0}
        BY <1>1, <1>2, TsRangePositive
      <3> HIDE DEF t, n
      <3>2. t % n = t
        BY <3>1
      <3> QED BY <3>2 DEF t, n
    <2> QED BY <2>1 DEF Late
  <1>3. Late(out[m]) <=> lastTime - out[m].time <= LastSecond
    BY <1>1, <1>2
  <1>4. /\ IF inserted THEN Placed(out) ELSE Unplaced(out)
        /\ m \in 1 .. Len(out) /\ out[m].kind = "COPY" /\ Len(out) \in Nat
    BY FinishedOutput DEF WrittenUpTo, CopiesOf
  <1>5. CASE Unplaced(out)
    <2>1. ~Late(out[m])
      BY <1>5 DEF Unplaced
    <2>2. InsertedBefore(out, m) = 0
      BY <1>4, <1>5 DEF Unplaced, InsertedBefore
    <2> QED BY <1>3, <2>1, <2>2
  <1>6. CASE Placed(out)
    <2>1. PICK k \in 1 .. Len(out) :
            /\ \A j \in 1 .. Len(out) : out[j].kind = "ON_LAST_SECOND" <=> j = k
            /\ k + 1 \in CopiesOf(out) /\ Late(out[k + 1])
            /\ \A j \in CopiesOf(out) : j < k => ~Late(out[j])
      BY <1>6 DEF Placed
    <2>2. InsertedBefore(out, m) = IF k < m THEN Room(LastBody) ELSE 0
      BY <1>4, <2>1 DEF InsertedBefore
    <2>3. m # k
      BY <1>4, <2>1
    <2>4. CASE m < k
      <3>1. ~Late(out[m])
        BY <2>1, <2>4
      <3> QED BY <1>3, <1>4, <2>2, <2>4, <3>1
    <2>5. CASE k < m
      <3>1. k + 1 <= m
        BY <1>4, <2>5
      <3>2. /\ out[k + 1].time <= out[m].time
            /\ out[k + 1].time \in 0 .. TsRange - 1
        BY <2>1, <3>1, CopiesTimes
      <3>3. out[k + 1].time <= lastTime
        BY SMTT(30), <1>1, <3>2, TsRangePositive
      <3>4. lastTime - out[k + 1].time <= LastSecond
        BY <2>1, <1>2, <3>2, <3>3
      <3>5. lastTime - out[m].time <= LastSecond
        <4>1. out[k + 1].time \in Int /\ out[m].time \in Int /\ lastTime \in Int
          BY <1>1, <3>2, TsRangePositive
        <4>2. LastSecond \in Int
          OBVIOUS
        <4> HIDE UpdateSizes
        <4> QED BY <3>2, <3>4, <4>1, <4>2, NoFurther
      <3> QED BY <1>3, <2>2, <2>5, <3>5
    <2> QED BY <1>4, <2>3, <2>4, <2>5
  <1> QED BY <1>3, <1>4, <1>5, <1>6

(* The positions announced for the keyframes are where they are found in   *)
(* the output, on both sides of an onLastSecond, when the timestamps are   *)
(* in order and onMetaData precedes the keyframes (info.c:677-699 against  *)
(* update.c:153-245).                                                      *)
THEOREM FilepositionsAreExact == Spec => []FilepositionsExact
  <1>1. UpdateInv => FilepositionsExact
    <2> SUFFICES ASSUME UpdateInv, InOrder, Unrounded, MetaDataFirst, Finished, Sound,
                        NEW k \in DOMAIN keyframes
                 PROVE  KeyframeAt(keyframes[k], filepositions[k])
      BY DEF FilepositionsExact, KeyframesFound
    <2> DEFINE kf == keyframes[k]
    <2>1. /\ TypeOK /\ ClockInv /\ CopiesInv /\ NotedInv
      BY DEF UpdateInv, OutputInv
    <2>2. DOMAIN seen = 1 .. Count /\ Count \in Nat
      BY <2>1, SeenFacts, InputFacts DEF ClockInv, Scanned, TypeOK, Count
    <2>3. PICK j \in DOMAIN seen : /\ input.tags[j].type = "VIDEO"
                                   /\ input.pos[j] = kf.offset
                                   /\ seen[j].time = kf.time
      BY <2>1 DEF NotedInv, Scanned
    <2>4. j \in 1 .. Count /\ Dated(j)
      BY <2>2, <2>3 DEF Dated
    <2>5. onMetaOffset < input.pos[j] /\ input.pos[j] # onMetaOffset
      <3>1. onMetaOffset < input.pos[j]
        BY <2>3 DEF MetaDataFirst
      <3>2. onMetaOffset \in Nat
        BY <2>1, Naturals
      <3> QED BY <3>1, <3>2
    <2>6. PICK m \in CopiesOf(out) : out[m].index = j
      BY <2>4, <2>5, FinishedOutput DEF WrittenUpTo, CopiedUpTo
    <2>7. out[m].at = kf.offset + Replacement + InsertedBefore(out, m)
      <3>1. out[m].at = input.pos[j] + Replaced(j) + InsertedBefore(out, m)
        BY <2>6, FinishedOutput DEF WrittenUpTo, Shifted
      <3> QED BY <2>3, <2>5, <3>1 DEF Replaced
    <2>8. out[m].time = kf.time /\ kf.time \in 0 .. TsRange - 1
          /\ lastTime \in 0 .. TsRange - 1
      <3>1. m <= m
        BY DEF CopiesOf
      <3> QED BY <2>3, <2>4, <2>6, <3>1, CopiesTimes
    <2>9. lastTime - kf.time <= LastSecond <=> PastLastSecond(kf.time)
      <3>1. lastTime - kf.time = LastSecond => kf.time \notin RoundsDown
        BY DEF Unrounded
      <3>2. lastTime - kf.time \in Int
        BY <2>8, TsRangePositive
      <3>3. PastLastSecond(kf.time) <=> \/ lastTime - kf.time < LastSecond
                                        \/ lastTime - kf.time = LastSecond
                                           /\ kf.time \notin RoundsDown
        BY Zenon DEF PastLastSecond
      <3>4. \/ lastTime - kf.time < LastSecond
            \/ lastTime - kf.time = LastSecond
            <=> lastTime - kf.time <= LastSecond
        <4>1. LastSecond \in Int
          OBVIOUS
        <4> HIDE UpdateSizes DEF kf
        <4> QED BY <3>2, <4>1, AtMost
      <3> QED BY <3>1, <3>3, <3>4, Zenon
    <2>10. InsertedBefore(out, m) =
             IF ToInsert /\ PastLastSecond(kf.time) THEN Room(LastBody) ELSE 0
      <3>1. CASE ToInsert
        BY <2>4, <2>6, <2>8, <2>9, <3>1, LateAfterInsertion
      <3>2. CASE ~ToInsert
        <4>1. Unplaced(out)
          BY <3>2, FinishedOutput DEF WrittenUpTo
        <4>2. InsertedBefore(out, m) = 0
          BY <4>1 DEF Unplaced, InsertedBefore, CopiesOf
        <4> QED BY <3>2, <4>2
      <3> QED BY <3>1, <3>2
    <2>11. filepositions[k] = NewPosition(kf, bodySize)
      BY <2>1 DEF NotedInv, Scanned
    <2>12. out[m].at = filepositions[k]
      <3>1. kf.offset \in Int /\ onMetaSize \in Int /\ Room(bodySize) \in Int
            /\ InsertedBefore(out, m) \in Int
        <4>1. kf.offset \in Int
          <5>1. input.pos[j] \in Nat
            <6>1. input.pos \in [1 .. Count + 1 -> Nat]
              BY <2>1, InputFacts DEF TypeOK, Count
            <6>2. j \in 1 .. Count + 1
              BY <2>2, <2>4
            <6> QED BY <6>1, <6>2
          <5> QED BY <2>3, <5>1
        <4>2. onMetaSize \in Nat /\ bodySize \in Nat /\ LastBody \in Nat
          <5>1. onMetaSize \in Nat /\ bodySize \in Nat
            BY <2>1, Naturals
          <5>2. LastBody \in Nat
            OBVIOUS
          <5> QED BY <5>1, <5>2
        <4>3. Room(bodySize) \in Nat /\ Room(LastBody) \in Nat
          BY <4>2, RoomType
        <4> QED BY <4>1, <4>2, <4>3 DEF InsertedBefore
      <3>2. /\ filepositions[k] = kf.offset + Room(bodySize) - onMetaSize
                                 + InsertedBefore(out, m)
            /\ out[m].at = kf.offset + (Room(bodySize) - onMetaSize) + InsertedBefore(out, m)
        BY <2>7, <2>10, <2>11, Zenon DEF NewPosition, Replacement
      <3> HIDE UpdateSizes DEF kf
      <3> QED BY <3>1, <3>2, SumOrder
    <2>13. out[m] \in {out[n] : n \in DOMAIN out} /\ out[m].kind = "COPY"
      BY FinishedOutput DEF CopiesOf
    <2> QED BY <2>3, <2>6, <2>12, <2>13 DEF KeyframeAt
  <1> QED BY <1>1, UpdateInvariant, PTL
=============================================================================
