----------------------------- MODULE FlvBodies -----------------------------
(***************************************************************************)
(* What is in the bodies of the tags: AMF data, which an update reads from *)
(* the input (flv_read_metadata), writes to the output and the next        *)
(* reader reads again, and the AVC configuration of a video tag, of which  *)
(* get_flv_info takes the size of the picture (info.c:433).  FlvStream and *)
(* FlvUpdate take of them only how many bytes they are.                    *)
(***************************************************************************)
EXTENDS AmfCodec, AvcSps

CONSTANTS
  Inputs,   \* the bytes AMF data may be read from
  Pictures  \* video bodies, each with the size of its picture

(* No value is nested deeper than there are bytes to open it.              *)
ASSUME InputsAssumption == \A b \in Inputs : b \in Seq(Byte) /\ Len(b) <= MaxDepth

VARIABLES
  stage,    \* how far the body has come
  bytes,    \* those of the input, then those of the output
  data,     \* what has been read of the input
  again,    \* what has been read of the output
  picture,  \* the video body, if it is one
  answer    \* what read_avc_resolution has answered

bodyVars == <<stage, bytes, data, again, picture, answer>>

Unread == Error("EOF", 0, FALSE)
BodyInit ==
  /\ data = Unread /\ again = Unread /\ answer = Answer("OK", NoSize)
  /\ \/ stage = "amf" /\ bytes \in Inputs /\ picture = {}
     \/ stage = "avc" /\ bytes = <<>> /\ \E p \in Pictures : picture = {p}

ReadData ==
  /\ stage = "amf" /\ stage' = "read"
  /\ data' = Read(bytes, 0)
  /\ UNCHANGED <<bytes, again, picture, answer>>

WriteData ==
  /\ stage = "read" /\ data.error = "OK" /\ stage' = "written"
  /\ bytes' = Write[data.value]
  /\ UNCHANGED <<data, again, picture, answer>>

ReadAgain ==
  /\ stage = "written" /\ stage' = "read again"
  /\ again' = Read(bytes, 0)
  /\ UNCHANGED <<bytes, data, picture, answer>>

ReadPicture ==
  /\ stage = "avc" /\ stage' = "answered"
  /\ \E p \in picture : answer' = ReadResolution(p.body)
  /\ UNCHANGED <<bytes, data, again, picture>>

BodyDone ==
  /\ stage = "read again" \/ stage = "answered" \/ (stage = "read" /\ data.error # "OK")
  /\ UNCHANGED bodyVars

BodyNext == ReadData \/ WriteData \/ ReadAgain \/ ReadPicture \/ BodyDone
BodySpec == BodyInit /\ [][BodyNext]_bodyVars

----------------------------------------------------------------------------
(* What is read counts no more bytes than it took, but for an associative  *)
(* array that ends with the file behind an empty name, which counts one    *)
(* more: check and update subtract the count from the unsigned length of   *)
(* the body (flv.c:250-290; IsFile of FlvStream assumes it).               *)
SizeBounded ==
  (stage = "read" /\ data.error = "OK") =>
    /\ Size[data.value] <= data.pos + (IF data.hitsEnd THEN 1 ELSE 0)
    /\ data.hitsEnd => data.pos = Len(bytes)

(* A written value is as long as amf_data_size says, which is what the     *)
(* offsets of the output are computed from (update.c:69-73, info.c:680),   *)
(* carries the right number of pairs as long as it has one byte, and reads *)
(* back the same, but for a name that began with a NUL and is now empty.   *)
NamesKept[v \in Values] ==
  \A i \in DOMAIN v.items : /\ v.type = "assoc" => v.items[i].name # <<>>
                            /\ NamesKept[v.items[i].data]
CountKept(v, out) ==
  (v.type = "assoc" /\ 2 * Len(v.items) < Base) =>
    SubSeq(out, 2, 1 + CountBytes) = WriteCount(v.items)
RoundTrip ==
  LET v == data.value IN
  /\ stage = "written" => Len(bytes) = Size[v] /\ CountKept(v, bytes)
  /\ (stage = "read again" /\ NamesKept[v]) => again = Got(v, Size[v], FALSE)

(* The size that is set is that of the picture; when the configuration or  *)
(* the file is cut off, none is set, or one that is not smaller (avc.c).   *)
Whole(p) ==
  LET b == p.body IN
  /\ b.packet = SequenceHeader /\ b.sets > 0 /\ 8 * b.spsSize = Len(b.bits)
  /\ b.available = b.length /\ b.length = RecordBytes + SizeBytes + b.spsSize
AtLeast(size, least) == size[1] >= least[1] /\ size[2] >= least[2]
Trusted(p) == p.frames \/ ~p.cropped   \* not fields, or fields that are not cropped
ResolutionMeant ==
  stage = "answered" => \A p \in picture :
    /\ Trusted(p) => \A size \in answer.size : AtLeast(size, p.size)
    /\ Trusted(p) /\ Whole(p) => answer = Answer("OK", {p.size})
    /\ p.body.available < p.body.length /\ answer.size # NoSize =>
         p.body.available >= RecordBytes + SizeBytes + p.body.spsSize

(* parse_sps "retrieves video width and height" (avc.c:72), of interlaced  *)
(* pictures too.                                                           *)
InterlacedMeant ==
  stage = "answered" => \A p \in picture : Whole(p) => answer = Answer("OK", {p.size})
=============================================================================
