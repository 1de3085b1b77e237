------------------------------ MODULE AmfCodec ------------------------------
(***************************************************************************)
(* amf.c: how AMF data are read from the bytes of a file, counted by       *)
(* amf_data_size and written.  The bytes are those that decide something:  *)
(* the types, the lengths and what names are made of.                      *)
(***************************************************************************)
EXTENDS Naturals, SequencesExt

CONSTANTS
  Base,         \* how many values a byte has (256)
  LengthBytes,  \* sizeof(uint16): the length of a string
  CountBytes,   \* sizeof(uint32): the number of elements
  NumberBytes,  \* sizeof(number64)
  ZoneBytes,    \* sizeof(sint16): the time zone of a date
  MaxDepth      \* how deep values are nested, at most

ASSUME WidthsAssumption ==
  /\ {LengthBytes, CountBytes, NumberBytes, ZoneBytes} \subseteq Nat \ {0}
  /\ Base \in Nat /\ Base > 16
  /\ MaxDepth \in Nat

Byte == 0 .. Base - 1

(* The types, and those that are read as an error.                         *)
TypeOf == [number |-> 0, boolean |-> 1, string |-> 2, object |-> 3, null |-> 5,
           undefined |-> 6, assoc |-> 8, array |-> 10, date |-> 11]
EndType == 9
Unsupported == {15, 16}
Typed(byte) == {t \in DOMAIN TypeOf : TypeOf[t] = byte}
PlainBytes(type) ==
  CASE type = "number" -> NumberBytes
    [] type = "boolean" -> 1
    [] type = "date" -> NumberBytes + ZoneBytes
    [] OTHER -> 0

(* A value: its type, the bytes of a string, the elements of an array or   *)
(* the names and elements of an object; a number's bytes are of no matter. *)
Value(type, text, items) == [type |-> type, text |-> text, items |-> items]
Plain(type) == Value(type, <<>>, <<>>)
Named(name, v) == [name |-> name, data |-> v]
NUL == 0
CString(text) ==   \* as far as strlen goes
  SubSeq(text, 1, (IF NUL \in ToSet(text) THEN SelectInSeq(text, LAMBDA b : b = NUL)
                   ELSE Len(text) + 1) - 1)

PlainTypes == {"number", "boolean", "null", "undefined", "date"}
WithNames == {"object", "assoc"}
ValuesOver(inner) ==
  {Plain(type) : type \in PlainTypes}
    \cup [type : {"string"}, text : Seq(Byte), items : {<<>>}]
    \cup [type : WithNames, text : {<<>>}, items : Seq([name : Seq(Byte), data : inner])]
    \cup [type : {"array"}, text : {<<>>}, items : Seq([name : {<<>>}, data : inner])]
ValuesUpTo[depth \in 0 .. MaxDepth] ==
  ValuesOver(IF depth = 0 THEN {} ELSE ValuesUpTo[depth - 1])
Values == ValuesUpTo[MaxDepth]

(* A number of so many bytes, the most significant first.                  *)
Digits(n, bytes) ==
  LET shifted[i \in 0 .. bytes] == IF i = 0 THEN n ELSE shifted[i - 1] \div Base
  IN [i \in 1 .. bytes |-> shifted[bytes - i] % Base]
NumberOf(digits) ==
  LET upTo[i \in 0 .. Len(digits)] == IF i = 0 THEN 0 ELSE upTo[i - 1] * Base + digits[i]
  IN upTo[Len(digits)]

----------------------------------------------------------------------------
(* Reading: an error or a value, the position behind it, and whether the   *)
(* end of the file was met on the way.  A read that is cut off leaves the  *)
(* file at its end.                                                        *)
Got(v, pos, hitsEnd) == [error |-> "OK", value |-> v, pos |-> pos, hitsEnd |-> hitsEnd]
Error(e, pos, hitsEnd) ==
  [error |-> e, value |-> Plain("null"), pos |-> pos, hitsEnd |-> hitsEnd]
Eof(bytes) == Error("EOF", Len(bytes), TRUE)

CanTake(bytes, pos, n) == pos + n <= Len(bytes)
Taken(bytes, pos, n) == SubSeq(bytes, pos + 1, pos + n)

ReadString(bytes, pos) ==
  LET start == pos + LengthBytes
      len == NumberOf(Taken(bytes, pos, LengthBytes))
  IN IF ~CanTake(bytes, pos, LengthBytes) \/ ~CanTake(bytes, start, len) THEN Eof(bytes)
     ELSE Got(Value("string", Taken(bytes, start, len), <<>>), start + len, FALSE)

(* What is read at a position: data, the rest of the pairs of an object or *)
(* associative array, or so many more elements of an array.                *)
Place(what, pos, count) == [what |-> what, pos |-> pos, count |-> count]
Places(bytes) ==
  [what : {"data", "object", "assoc", "array"}, pos : 0 .. Len(bytes), count : Nat]

(* The item read first, and the rest of the items behind it.               *)
Behind(name, element, rest) ==
  LET v == rest.value
  IN [error |-> rest.error, pos |-> rest.pos, hitsEnd |-> rest.hitsEnd \/ element.hitsEnd,
      value |-> IF rest.error # "OK" THEN v
                ELSE Value(v.type, <<>>, <<Named(name, element.value)>> \o v.items)]

(* An object ends with an element that is the end mark or of an unknown    *)
(* type, whatever its name; so does an associative array, which an empty   *)
(* name ends as well: what follows this name is read, and forgotten.       *)
Ends(element) == element.error \in {"END_TAG", "UNKNOWN_TYPE"}
ObjectEnds(name, element) == Ends(element)
AssocEnds(name, element) == name = <<>> \/ Ends(element)

ReadPairs(bytes, pos, type, read) ==
  LET name == ReadString(bytes, pos)
      text == name.value.text
      element == read[Place("data", name.pos, 0)]
      ends == IF type = "object" THEN ObjectEnds(text, element) ELSE AssocEnds(text, element)
  IN IF name.error # "OK" THEN name
     ELSE IF ends THEN Got(Value(type, <<>>, <<>>), element.pos, element.hitsEnd)
     ELSE IF element.error # "OK" THEN element
     ELSE Behind(CString(text), element, read[Place(type, element.pos, 0)])

(* The count of an associative array is of no matter.                      *)
ReadCounted(bytes, pos, type, read) ==
  LET start == pos + CountBytes
      count == IF type = "assoc" THEN 0 ELSE NumberOf(Taken(bytes, pos, CountBytes))
  IN IF CanTake(bytes, pos, CountBytes) THEN read[Place(type, start, count)] ELSE Eof(bytes)

ReadValue(bytes, pos, read) ==
  LET byte == bytes[pos + 1]
      type == CHOOSE t \in Typed(byte) : TRUE
      start == pos + 1
  IN IF ~CanTake(bytes, pos, 1) THEN Eof(bytes)
     ELSE IF byte = EndType THEN Error("END_TAG", start, FALSE)
     ELSE IF byte \in Unsupported THEN Error("UNSUPPORTED_TYPE", start, FALSE)
     ELSE IF Typed(byte) = {} THEN Error("UNKNOWN_TYPE", start, FALSE)
     ELSE IF type = "string" THEN ReadString(bytes, start)
     ELSE IF type = "object" THEN read[Place(type, start, 0)]
     ELSE IF type \in {"assoc", "array"} THEN ReadCounted(bytes, start, type, read)
     ELSE IF CanTake(bytes, start, PlainBytes(type))
     THEN Got(Plain(type), start + PlainBytes(type), FALSE)
     ELSE Eof(bytes)

ReadItems(bytes, pos, count, read) ==
  LET element == ReadValue(bytes, pos, read)
  IN IF count = 0 THEN Got(Value("array", <<>>, <<>>), pos, FALSE)
     ELSE IF element.error # "OK" THEN element
     ELSE Behind(<<>>, element, read[Place("array", element.pos, count - 1)])

Reading(bytes) ==
  LET read[p \in Places(bytes)] ==
        CASE p.what = "data" -> ReadValue(bytes, p.pos, read)
          [] p.what = "array" -> ReadItems(bytes, p.pos, p.count, read)
          [] OTHER -> ReadPairs(bytes, p.pos, p.what, read)
  IN read
Read(bytes, pos) == Reading(bytes)[Place("data", pos, 0)]

----------------------------------------------------------------------------
(* amf_data_size: of a value, from the sizes of its items.                 *)
CountedAlike(type) == NumberBytes   \* null and undefined are as long as a number
CountedBytes(type) == PlainBytes(type)
Total(numbers) ==
  LET upTo[i \in 0 .. Len(numbers)] == IF i = 0 THEN 0 ELSE upTo[i - 1] + numbers[i]
  IN upTo[Len(numbers)]
SizeWith(v, sizes) ==
  LET named == v.type \in WithNames
      item(i) == sizes[i] + (IF named THEN LengthBytes + Len(v.items[i].name) ELSE 0)
  IN 1 + (IF v.type \in PlainTypes THEN CountedBytes(v.type) ELSE 0)
       + (IF v.type = "string" THEN LengthBytes + Len(v.text) ELSE 0)
       + (IF v.type \in {"assoc", "array"} THEN CountBytes ELSE 0)
       + Total([i \in DOMAIN v.items |-> item(i)])
       + (IF named THEN LengthBytes + 1 ELSE 0)
Size[v \in Values] == SizeWith(v, [i \in DOMAIN v.items |-> Size[v.items[i].data]])

(* amf_data_write.  The number of an associative array's names and         *)
(* elements is halved after its bytes have been put in the order of the    *)
(* file, on a host of the other order.                                     *)
WriteString(text) == Digits(Len(text), LengthBytes) \o text
WriteCount(items) == Digits(Len(items), CountBytes)
WritePairsAsCount(items) == Digits(2 * Len(items), CountBytes)   \* not halved
WritePairCount(items) ==
  Reverse(Digits(NumberOf(Reverse(Digits(2 * Len(items), CountBytes))) \div 2, CountBytes))

WriteWith(v, written) ==
  LET named == v.type \in WithNames
      item(i) == (IF named THEN WriteString(v.items[i].name) ELSE <<>>) \o written[i]
  IN <<TypeOf[v.type]>>
       \o [i \in 1 .. PlainBytes(v.type) |-> 0]
       \o (IF v.type = "string" THEN WriteString(v.text) ELSE <<>>)
       \o (CASE v.type = "assoc" -> WritePairCount(v.items)
             [] v.type = "array" -> WriteCount(v.items)
             [] OTHER -> <<>>)
       \o FlattenSeq([i \in DOMAIN v.items |-> item(i)])
       \o (IF named THEN Digits(0, LengthBytes) \o <<EndType>> ELSE <<>>)
Write[v \in Values] == WriteWith(v, [i \in DOMAIN v.items |-> Write[v.items[i].data]])
=============================================================================
