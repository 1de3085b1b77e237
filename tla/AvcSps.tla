------------------------------- MODULE AvcSps -------------------------------
(***************************************************************************)
(* avc.c and bitstream.c: the size of the picture is taken from the first  *)
(* sequence parameter set (SPS) of an AVC configuration, whose fields are  *)
(* bits and Exp-Golomb codes.                                              *)
(***************************************************************************)
EXTENDS Integers, SequencesExt

CONSTANT Word   \* the unsigned integers are below it (2^32)

ASSUME WordAssumption == Word \in Nat \ {0}

NoSize == {}   \* no size is set; a size that is set is a singleton

(***************************************************************************)
(* A bit buffer is its bits, a whole number of bytes, and the position of  *)
(* the next one, which skip_bits moves without a look at the end.  A       *)
(* reader yields a value and the buffer behind it; -1 is past the end.     *)
(***************************************************************************)
Buffer(bits) == [bits |-> bits, pos |-> 0]
SkipBits(b, n) == [b EXCEPT !.pos = @ + n]
AtEnd(b) == b.pos >= Len(b.bits)
GetBit(b) == IF AtEnd(b) THEN -1 ELSE b.bits[b.pos + 1]
AfterBit(b) == IF AtEnd(b) THEN b ELSE SkipBits(b, 1)

(* get_bits: all of them or, past the end, what says there are not enough. *)
HasBits(b, n) == b.pos + n <= Len(b.bits) \/ n = 0
Bits(b, n) == FoldLeft(LAMBDA v, bit : 2 * v + bit, 0, SubSeq(b.bits, b.pos + 1, b.pos + n))

(* exp_golomb_ue: as many zeros as there are bits behind the first one.  A *)
(* code that is cut off is 0.                                              *)
Zeros(b) ==
  LET ones == {i \in b.pos + 1 .. Len(b.bits) : b.bits[i] = 1}
  IN IF ones = {} THEN Len(b.bits) - b.pos
     ELSE (CHOOSE i \in ones : \A j \in ones : i <= j) - b.pos - 1
ToEnd(b) == IF AtEnd(b) THEN b ELSE [b EXCEPT !.pos = Len(b.bits)]
Ue(b) ==
  LET n == Zeros(b)
      rest == SkipBits(b, n + 1)
  IN IF AtEnd(b) \/ n = Len(b.bits) - b.pos \/ ~HasBits(rest, n)
     THEN [value |-> 0, buffer |-> ToEnd(b)]
     ELSE [value |-> 2 ^ n + Bits(rest, n) - 1, buffer |-> SkipBits(rest, n)]
UeValue(b) == Ue(b).value
AfterUe(b) == Ue(b).buffer
Se(b) == LET u == UeValue(b) IN IF u % 2 = 0 THEN -(u \div 2) ELSE (u + 1) \div 2

(* After so many codes of which the values are of no matter.               *)
AfterCodes(b, n) == FoldLeft(LAMBDA c, i : AfterUe(c), b, [i \in 1 .. n |-> i])

----------------------------------------------------------------------------
(* parse_scaling_list: a scale of 0 ends the codes, not the list.          *)
AfterWholeList(b, size) == AfterCodes(b, size)   \* the codes go on after a scale of 0
AfterScalingList(b, size) ==
  FoldLeft(LAMBDA s, i :
             IF s.next = 0 THEN s
             ELSE LET next == (s.next + Se(s.buffer) + 256) % 256
                  IN [next |-> next, buffer |-> AfterUe(s.buffer)],
           [next |-> 8, buffer |-> b], [i \in 1 .. size |-> i]).buffer

(* The scaling matrix: eight lists, each there or not.  The parsing is     *)
(* given up ({}) when the end comes before a flag.                         *)
AfterLists(b) ==
  FoldLeft(LAMBDA after, i :
             UNION {CASE GetBit(c) = -1 -> {}
                      [] GetBit(c) = 0 -> {AfterBit(c)}
                      [] OTHER -> {AfterScalingList(AfterBit(c), IF i <= 6 THEN 16 ELSE 64)} :
                    c \in after},
           {b}, [i \in 1 .. 8 |-> i])

(* What the high profiles add: the chroma format, the bit depths and the   *)
(* scaling matrix.                                                         *)
HighProfiles == {100, 110, 122, 144}
AfterHighFields(b) ==
  LET chroma == IF UeValue(b) = 3 THEN SkipBits(AfterUe(b), 1) ELSE AfterUe(b)
      matrix == SkipBits(AfterCodes(chroma, 2), 1)
  IN CASE GetBit(matrix) = -1 -> {}
       [] GetBit(matrix) = 0 -> {AfterBit(matrix)}
       [] OTHER -> AfterLists(AfterBit(matrix))

(* The order of the pictures, of one of three types.                       *)
AfterOrder(b) ==
  LET type == UeValue(b)
      c == AfterUe(b)
      offsets == AfterCodes(SkipBits(c, 1), 2)
  IN CASE type = 0 -> AfterUe(c)
       [] type = 1 -> AfterCodes(AfterUe(offsets), UeValue(offsets))
       [] OTHER -> c

(* Width and height in macroblocks, whether the pictures are frames only,  *)
(* and what is cropped of them.                                            *)
SizeAt(b) ==
  LET width == UeValue(b) + 1
      height == UeValue(AfterUe(b)) + 1
      frames == AfterCodes(b, 2)
      framesOnly == GetBit(frames)
      inference == IF framesOnly = 0 THEN SkipBits(AfterBit(frames), 1) ELSE AfterBit(frames)
      cropping == SkipBits(inference, 1)
      edge(i) == IF GetBit(cropping) = 1
                 THEN 2 * UeValue(AfterCodes(AfterBit(cropping), i)) ELSE 0
      fields == IF framesOnly = 0 THEN 2 ELSE 1
      rows == (height * 16 - fields * (edge(2) + edge(3))) % Word
  IN IF framesOnly = -1 \/ GetBit(cropping) = -1 THEN NoSize
     ELSE {<<(width * 16 - (edge(0) + edge(1))) % Word, (fields * rows) % Word>>}

ParseSps(bits) ==
  LET start == SkipBits(Buffer(bits), 8)
      id == SkipBits(SkipBits(start, 8), 16)
      high == Bits(start, 8) \in HighProfiles
      common == IF high THEN AfterHighFields(AfterUe(id)) ELSE {AfterUe(id)}
  IN IF ~HasBits(start, 8) THEN NoSize
     ELSE UNION {SizeAt(SkipBits(AfterUe(AfterOrder(AfterUe(b))), 1)) : b \in common}

----------------------------------------------------------------------------
(* read_avc_resolution: a body says how long it is (length, what follows   *)
(* the codec byte) and how much of it there is to read, the type of its    *)
(* packet, how many parameter sets it announces, of which size the first,  *)
(* and the bits of that one.                                               *)
RecordBytes == 1 + 3 + 6   \* packet type, composition time and configuration
SizeBytes == 2
SequenceHeader == 0

Answer(status, size) == [status |-> status, size |-> size]
ReadResolution(body) ==
  LET start == RecordBytes + SizeBytes
      left == (body.length - start) % Word
      there == body.available
  IN IF body.length < RecordBytes THEN Answer("OK", NoSize)
     ELSE IF there < 1 THEN Answer("EOF", NoSize)
     ELSE IF body.packet # SequenceHeader THEN Answer("OK", NoSize)
     ELSE IF there < RecordBytes THEN Answer("EOF", NoSize)
     ELSE IF body.sets = 0 THEN Answer("OK", NoSize)
     ELSE IF there < start \/ body.spsSize = 0 \/ body.spsSize > left THEN Answer("EOF", NoSize)
     ELSE IF there < start + body.spsSize THEN Answer("EOF", NoSize)
     ELSE Answer("OK", ParseSps(SubSeq(body.bits, 1, 8 * body.spsSize)))
=============================================================================
