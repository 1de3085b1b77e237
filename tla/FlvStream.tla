----------------------------- MODULE FlvStream -----------------------------
(***************************************************************************)
(* The FLV stream of flv.c: a read cursor over one file, and the state     *)
(* that tells what the next bytes are.  Every command of flvmeta reads its *)
(* input through these operations.  A caller may issue them in any order   *)
(* the callers in check.c, info.c, update.c and the dumpers do: a tag is   *)
(* decoded at most once, right after flv_read_tag; its body is only read   *)
(* further while the calls on it succeed; and nothing but flv_close        *)
(* follows a refused header.                                               *)
(*                                                                         *)
(* The bytes of a file are abstracted to what the stream decodes from them *)
(* at each offset, so that a cursor which has lost the tag boundaries      *)
(* still reads something: whatever the file happens to hold there.         *)
(***************************************************************************)
EXTENDS Integers

CONSTANTS
  Files,         \* the names of the files a stream may be opened on
  Contents,      \* what is in each of them, see IsFile
  HeaderSize,    \* FLV_HEADER_SIZE: signature, version, flags, offset
  TagSize,       \* FLV_TAG_SIZE: what precedes the body of a tag
  PrevTagSize,   \* sizeof(uint32_be): the size field that follows a body
  FourccSize,    \* FLV_VIDEO_FOURCC_SIZE
  BufferSizes    \* the buffer sizes handed to flv_read_tag_body

(***************************************************************************)
(* What amf_data_file_read makes of the bytes at an offset: whether it     *)
(* yields a value, the bytes it consumes, the amf_data_size of the value   *)
(* and whether it met the end of the file without failing (an associative  *)
(* array whose last name is empty ends there).                             *)
(***************************************************************************)
IsAmfElement(e) ==
  /\ e.ok \in BOOLEAN /\ e.hitsEnd \in BOOLEAN
  /\ e.used \in Nat \ {0} /\ e.size \in Nat \ {0}

(***************************************************************************)
(* A file: its size, whether it starts with the FLV signature, and at each *)
(* offset the body length a tag header found there carries, the extended   *)
(* header bit of a video tag byte and the AMF element.  The member tags    *)
(* holds the offsets at which the tags of the file start: the first one    *)
(* follows the header, each other one a tag before it whose header is      *)
(* in the file.                                                            *)
(***************************************************************************)
IsFile(f) ==
  /\ f.size \in Nat
  /\ f.isFlv \in BOOLEAN
  /\ f.length \in [0 .. f.size -> Nat]
  /\ f.extended \in [0 .. f.size -> BOOLEAN]
  /\ DOMAIN f.amf = 0 .. f.size
  /\ \A o \in 0 .. f.size :
       /\ IsAmfElement(f.amf[o])
       /\ f.amf[o].hitsEnd => f.amf[o].ok /\ o + f.amf[o].used = f.size
       \* an associative array cut off at the end is counted one byte longer
       /\ f.amf[o].size <= f.amf[o].used + (IF f.amf[o].hitsEnd THEN 1 ELSE 0)
  /\ HeaderSize + PrevTagSize \in f.tags
  /\ \A o \in f.tags : /\ o \in Nat
                       /\ o + TagSize <= f.size =>
                            o + TagSize + f.length[o] + PrevTagSize \in f.tags
                       /\ o # HeaderSize + PrevTagSize =>
                            \E p \in f.tags :
                              /\ p + TagSize <= f.size
                              /\ o = p + TagSize + f.length[p] + PrevTagSize

ASSUME SizesAssumption ==
  /\ HeaderSize \in Nat \ {0} /\ TagSize \in Nat \ {0}
  /\ PrevTagSize \in Nat \ {0} /\ FourccSize \in Nat \ {0}
  /\ BufferSizes \subseteq Nat \ {0}

ASSUME FilesAssumption == \A f \in Files : IsFile(Contents[f])

VARIABLES
  file,        \* the file the stream is open on
  pos,         \* the cursor of flvin
  eof,         \* feof(flvin)
  state,       \* stream->state, or "CLOSED"
  tagOffset,   \* current_tag_offset
  tagLength,   \* current_tag.body_length: the length in the tag header
  bodyLength,  \* current_tag_body_length: the bytes of the body left to read
  overflow,    \* current_tag_body_overflow
  result       \* what the last call returned

tagVars == <<tagOffset, tagLength>>
bodyVars == <<bodyLength, overflow>>
vars == <<file, pos, eof, state, tagOffset, tagLength, bodyLength, overflow, result>>

States == {"START", "TAG", "TAG_BODY", "PREV_TAG_SIZE", "CLOSED"}
Results == {"OK", "NO_FLV", "EOF", "EMPTY_TAG", "INVALID_METADATA_NAME",
            "INVALID_METADATA", "SHORT"}

TypeOK ==
  /\ file \in Files
  /\ pos \in Nat
  /\ eof \in BOOLEAN
  /\ state \in States
  /\ tagOffset \in Nat
  /\ tagLength \in Nat
  /\ bodyLength \in Nat
  /\ overflow \in Nat
  /\ result \in Results

----------------------------------------------------------------------------
Lesser(a, b) == IF a < b THEN a ELSE b
Greater(a, b) == IF a < b THEN b ELSE a

Size == Contents[file].size
LengthAt(o) == Contents[file].length[o]
ExtendedAt(o) == Contents[file].extended[o]
AmfAt(o) == Contents[file].amf[o]
Tags == Contents[file].tags

(* stdio: a read that cannot be satisfied leaves the cursor at the end of  *)
(* the file, or where a seek took it beyond, and sets the end indicator.   *)
Available(o, n) == o + n <= Size
ReadPastEnd(o) ==
  /\ pos' = Greater(o, Size)
  /\ eof' = TRUE
  /\ result' = "EOF"

(* The checks every reading operation starts with.                         *)
Refused ==
  /\ result' = "EOF"
  /\ UNCHANGED <<file, pos, eof, state, tagVars, bodyVars>>

Open ==
  /\ file \in Files
  /\ pos = 0 /\ eof = FALSE
  /\ state = "START"
  /\ tagOffset = 0 /\ tagLength = 0
  /\ bodyLength = 0 /\ overflow = 0
  /\ result = "OK"

Init == Open

(* Callers give up on a stream whose header was refused.                   *)
Usable == state # "CLOSED" /\ result # "NO_FLV"

(* Callers go on reading a body only while the calls on it succeed, and    *)
(* decode it from its first byte.                                          *)
BodyUsable == state # "CLOSED" /\ result = "OK"
Undecoded ==
  /\ BodyUsable
  /\ state = "TAG_BODY" => /\ pos = tagOffset + TagSize
                           /\ bodyLength = tagLength

ReadHeader ==
  /\ Usable
  /\ \/ /\ eof \/ state # "START"
        /\ Refused
     \/ /\ ~eof /\ state = "START"
        /\ ~Available(pos, HeaderSize)
        /\ ReadPastEnd(pos)
        /\ UNCHANGED <<file, state, tagVars, bodyVars>>
     \/ /\ ~eof /\ state = "START"
        /\ Available(pos, HeaderSize)
        /\ pos' = pos + HeaderSize
        /\ state' = IF Contents[file].isFlv THEN "PREV_TAG_SIZE" ELSE state
        /\ result' = IF Contents[file].isFlv THEN "OK" ELSE "NO_FLV"
        /\ UNCHANGED <<file, eof, tagVars, bodyVars>>

(* Where the current tag ends, by the length its header carries.  Mutated: *)
(* the seek is made relative to what was read, or without the tag offset.  *)
TagEndFromCursor == pos + bodyLength
TagEndFromStart == TagSize + tagLength
TagEnd == tagOffset + TagSize + tagLength

ReadPrevTagSize ==
  LET from == IF state = "TAG_BODY" THEN TagEnd ELSE pos IN
  /\ Usable
  /\ \/ /\ eof \/ state \notin {"TAG_BODY", "PREV_TAG_SIZE"}
        /\ Refused
     \/ /\ ~eof /\ state \in {"TAG_BODY", "PREV_TAG_SIZE"}
        /\ ~Available(from, PrevTagSize)
        /\ ReadPastEnd(from)
        /\ state' = "PREV_TAG_SIZE"
        /\ UNCHANGED <<file, tagVars, bodyVars>>
     \/ /\ ~eof /\ state \in {"TAG_BODY", "PREV_TAG_SIZE"}
        /\ Available(from, PrevTagSize)
        /\ pos' = from + PrevTagSize
        /\ state' = "TAG"
        /\ result' = "OK"
        /\ UNCHANGED <<file, eof, tagVars, bodyVars>>

(* Where flv_read_tag starts to read, after the three skips.               *)
NextTag ==
  CASE state = "START"         -> pos + HeaderSize + PrevTagSize
    [] state = "TAG_BODY"      -> TagEnd + PrevTagSize
    [] state = "PREV_TAG_SIZE" -> pos + PrevTagSize
    [] state = "TAG"           -> pos

ReadTag ==
  /\ Usable
  /\ \/ /\ eof
        /\ Refused
     \/ /\ ~eof
        /\ tagOffset' = NextTag
        /\ ~Available(NextTag, TagSize)
        /\ ReadPastEnd(NextTag)
        /\ state' = "TAG"
        /\ UNCHANGED <<file, tagLength, bodyVars>>
     \/ /\ ~eof
        /\ tagOffset' = NextTag
        /\ Available(NextTag, TagSize)
        /\ pos' = NextTag + TagSize
        /\ tagLength' = LengthAt(NextTag)
        /\ bodyLength' = tagLength'
        /\ overflow' = 0
        /\ state' = "TAG_BODY"
        /\ result' = "OK"
        /\ UNCHANGED <<file, eof>>

----------------------------------------------------------------------------
(* The state once "left" bytes of the body remain unread.                  *)
StateWith(left) == IF left = 0 THEN "PREV_TAG_SIZE" ELSE "TAG_BODY"

InBody == ~eof /\ state = "TAG_BODY"

(* The checks shared by the operations that decode a body.                 *)
NotInBody ==
  /\ ~InBody
  /\ Refused
EmptyBody ==
  /\ InBody /\ bodyLength = 0
  /\ result' = "EMPTY_TAG"
  /\ UNCHANGED <<file, pos, eof, state, tagVars, bodyVars>>
BodyMissing ==
  /\ InBody /\ bodyLength > 0
  /\ ~Available(pos, 1)
  /\ ReadPastEnd(pos)
  /\ UNCHANGED <<file, state, tagVars, bodyVars>>
HasBody == InBody /\ bodyLength > 0 /\ Available(pos, 1)

ReadAudioTag ==
  /\ Undecoded
  /\ \/ NotInBody
     \/ EmptyBody
     \/ BodyMissing
     \/ /\ HasBody
        /\ pos' = pos + 1
        /\ bodyLength' = bodyLength - 1
        /\ state' = StateWith(bodyLength')
        /\ result' = "OK"
        /\ UNCHANGED <<file, eof, tagVars, overflow>>

(* flv_read_tag_body on the bytes at o when "left" bytes of the body are   *)
(* unread: as many as the buffer, the body and the file allow.             *)
(* Mutated: the buffer is filled whatever the length of the body.          *)
WantedBuffer(n, left) == n
Wanted(n, left) == Lesser(n, left)
Got(o, n, left) == IF o + Wanted(n, left) <= Size THEN Wanted(n, left)
                   ELSE Greater(Size, o) - o

ReadTagBody(n) ==
  LET got == Got(pos, n, bodyLength) IN
  /\ BodyUsable
  /\ \/ /\ ~InBody
        /\ result' = "SHORT"
        /\ UNCHANGED <<file, pos, eof, state, tagVars, bodyVars>>
     \/ /\ InBody
        /\ pos' = pos + got
        /\ eof' = (got < Wanted(n, bodyLength))
        /\ bodyLength' = bodyLength - got
        /\ state' = StateWith(bodyLength')
        /\ result' = IF got < n THEN "SHORT" ELSE "OK"
        /\ UNCHANGED <<file, tagVars, overflow>>

(* The codec of an extended header is read with flv_read_tag_body: in a    *)
(* body too short to hold it nothing, or too little, is read.              *)
ReadVideoTag ==
  LET left == bodyLength - 1
      got == Got(pos + 1, FourccSize, left)
  IN
  /\ Undecoded
  /\ \/ NotInBody
     \/ EmptyBody
     \/ BodyMissing
     \/ /\ HasBody /\ ~ExtendedAt(pos)
        /\ pos' = pos + 1
        /\ bodyLength' = left
        /\ state' = StateWith(left)
        /\ result' = "OK"
        /\ UNCHANGED <<file, eof, tagVars, overflow>>
     \/ /\ HasBody /\ ExtendedAt(pos)
        /\ pos' = pos + 1 + got
        /\ eof' = (got < Wanted(FourccSize, left))
        /\ bodyLength' = left - got
        /\ state' = StateWith(left - got)
        /\ result' = IF got = FourccSize THEN "OK" ELSE "EOF"
        /\ UNCHANGED <<file, tagVars, overflow>>

(* The AMF element at o is complete within the file.                       *)
AmfAvailable(o) == o <= Size /\ Available(o, AmfAt(o).used)

(* What a value of the given size leaves of the body, and what it takes    *)
(* beyond it.                                                              *)
Remaining(left, size) == Greater(left - size, 0)
Overflow(left, size) == IF left < size THEN size - left ELSE overflow

(* A body holds a name and a value.  A name that fills the body leaves no  *)
(* value: the code clears the body length before it computes the overflow, *)
(* which is then the whole size of the name, and seeks back by it.         *)
ReadMetadata ==
  LET name == AmfAt(pos)
      at   == pos + name.used
      left == bodyLength - name.size
      data == AmfAt(at)
  IN
  /\ Undecoded
  /\ \/ NotInBody
     \/ EmptyBody
     \/ /\ InBody /\ bodyLength > 0
        /\ ~AmfAvailable(pos)
        /\ ReadPastEnd(pos)
        /\ UNCHANGED <<file, state, tagVars, bodyVars>>
     \/ /\ InBody /\ bodyLength > 0
        /\ AmfAvailable(pos) /\ ~name.ok
        /\ pos' = at
        /\ result' = "INVALID_METADATA_NAME"
        /\ UNCHANGED <<file, eof, state, tagVars, bodyVars>>
     \/ /\ InBody /\ bodyLength > 0
        /\ AmfAvailable(pos) /\ name.ok
        /\ bodyLength <= name.size
        /\ bodyLength' = 0
        /\ overflow' = name.size
        /\ pos' = at - overflow'
        /\ state' = "PREV_TAG_SIZE"
        /\ result' = "INVALID_METADATA"
        /\ UNCHANGED <<file, eof, tagVars>>
     \/ /\ InBody /\ AmfAvailable(pos) /\ name.ok
        /\ bodyLength > name.size
        /\ ~AmfAvailable(at)
        /\ ReadPastEnd(at)
        /\ bodyLength' = left
        /\ UNCHANGED <<file, state, tagVars, overflow>>
     \/ /\ InBody /\ AmfAvailable(pos) /\ name.ok
        /\ bodyLength > name.size
        /\ AmfAvailable(at) /\ ~data.ok
        /\ pos' = at + data.used
        /\ bodyLength' = left
        /\ result' = "INVALID_METADATA"
        /\ UNCHANGED <<file, eof, state, tagVars, overflow>>
     \/ /\ InBody /\ AmfAvailable(pos) /\ name.ok
        /\ bodyLength > name.size
        /\ AmfAvailable(at) /\ data.ok
        /\ bodyLength' = Remaining(left, data.size)
        /\ overflow' = Overflow(left, data.size)
        /\ state' = StateWith(bodyLength')
        /\ pos' = at + data.used - (IF bodyLength' = 0 THEN overflow' ELSE 0)
        \* a seek clears the end indicator
        /\ eof' = (data.hitsEnd /\ (bodyLength' = 0 => overflow' = 0))
        /\ result' = "OK"
        /\ UNCHANGED <<file, tagVars>>

(* flv_reset leaves the overflow of the last tag in place.                 *)
ResetKeepingOffset ==
  /\ Usable
  /\ bodyLength' = 0
  /\ state' = "START"
  /\ pos' = 0
  /\ eof' = FALSE
  /\ result' = "OK"
  /\ UNCHANGED <<file, tagOffset, tagLength, overflow>>
Reset ==
  /\ Usable
  /\ bodyLength' = 0
  /\ tagOffset' = 0
  /\ state' = "START"
  /\ pos' = 0
  /\ eof' = FALSE
  /\ result' = "OK"
  /\ UNCHANGED <<file, tagLength, overflow>>

Close ==
  /\ state # "CLOSED"
  /\ state' = "CLOSED"
  /\ UNCHANGED <<file, pos, eof, tagVars, bodyVars, result>>

Next ==
  \/ ReadHeader
  \/ ReadPrevTagSize
  \/ ReadTag
  \/ ReadAudioTag
  \/ ReadVideoTag
  \/ ReadMetadata
  \/ \E n \in BufferSizes : ReadTagBody(n)
  \/ Reset
  \/ Close

Spec == Init /\ [][Next]_vars

----------------------------------------------------------------------------
(***************************************************************************)
(* Properties.                                                             *)
(***************************************************************************)

(* The metadata tags of a file are sound: a name is shorter than the body  *)
(* that holds it, and name and value are as long as amf_data_size tells.   *)
MetadataFits(f) ==
  \A o \in f.tags :
    LET body == o + TagSize
        name == f.amf[body]
        at   == body + name.used
    IN  (body + 1 <= f.size /\ body + name.used <= f.size /\ name.ok) =>
          /\ name.used = name.size /\ name.size < f.length[o]
          /\ (at + f.amf[at].used <= f.size /\ f.amf[at].ok) =>
                f.amf[at].used = f.amf[at].size

(* The stream is at a boundary of a tag: the tag it reports is a tag of    *)
(* the file, with its length, and what it skips to is the end of a tag     *)
(* (flv_read_tag and flv_read_prev_tag_size, flv.c:93-168).                *)
OnBoundary ==
  /\ state = "TAG_BODY" => /\ tagOffset \in Tags
                           /\ tagOffset + TagSize <= Size
                           /\ tagLength = LengthAt(tagOffset)
  /\ state = "PREV_TAG_SIZE" /\ ~eof => pos + PrevTagSize \in Tags
  /\ state = "TAG" /\ ~eof => pos \in Tags

(* The length of the body still to read (current_tag_body_length) is the   *)
(* distance from the cursor to the end of the tag.                         *)
BodyAccount ==
  state = "TAG_BODY" /\ result = "OK" => pos + bodyLength = TagEnd

(* Whatever is read, skipped, refused or rewound before, the stream never  *)
(* loses the boundaries of the tags of a file whose metadata is sound, and *)
(* as long as the calls succeed the parts of a body that are read add up   *)
(* to the tag.  Without the condition OnBoundary does not hold: a body     *)
(* that is only a name, or one shorter than its value, moves the cursor    *)
(* off the tags (flv.c:285-297).                                           *)
BoundariesKept == MetadataFits(Contents[file]) => OnBoundary /\ BodyAccount

(* Between two rewinds the tags come in the order of the file, none twice, *)
(* even where bad metadata made the stream lose their boundaries: the      *)
(* loops on flv_read_tag in info.c, update.c and flv.c come to an end.     *)
TagsAdvance ==
  [][ReadTag /\ result' = "OK" => tagOffset' > tagOffset]_vars

(* The inductive invariant that holds of every file: the cursor of         *)
(* a stream is ahead of the start of the current tag.                      *)
StreamInv ==
  /\ TypeOK
  /\ state = "TAG_BODY" => overflow = 0
  /\ state = "START" => tagOffset = 0
  /\ state = "PREV_TAG_SIZE" /\ ~eof => pos + PrevTagSize > tagOffset
  /\ state \in {"TAG", "TAG_BODY"} /\ ~eof => pos > tagOffset
=============================================================================
