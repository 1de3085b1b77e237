---------------------------- MODULE MCFlvBodies ----------------------------
(***************************************************************************)
(* Every short string of bytes, every beginning of the values of one and   *)
(* two levels, and the AVC configurations of a small picture, written bit  *)
(* by bit as the standard lays them out, whole and cut off.                *)
(***************************************************************************)
EXTENDS FlvBodies

StringsOf(S, lengths) == UNION {[1 .. n -> S] : n \in lengths}
AnyBytes == {0, 1, 2, 3, 5, 7, 8, 9, 10, 15}
Fewer == {0, 1, 3, 8, 9}

Leaves == {Plain("number"), Plain("null"), Plain("date"), Value("string", <<7>>, <<>>)}
ItemsOf(names, values) == StringsOf({Named(n, v) : n \in names, v \in values}, 0 .. 2)
Compounds(values) ==
  {Value(t, <<>>, i) : t \in {"object", "assoc"}, i \in ItemsOf({<<7>>, <<1, 0>>}, values)}
    \cup {Value("array", <<>>, i) : i \in ItemsOf({<<>>}, values)}
Inner == {Plain("number"), Value("assoc", <<>>, <<>>), Value("array", <<>>, <<Named(<<>>, Plain("null"))>>),
          Value("object", <<>>, <<Named(<<>>, Plain("null"))>>)}
Many == Value("assoc", <<>>, [i \in 1 .. 8 |-> Named(<<7>>, Plain("null"))])
MCValues == Compounds(Leaves) \cup Compounds(Inner) \cup {Many}
Beginnings(s) == {SubSeq(s, 1, n) : n \in 0 .. Len(s)}
MCInputs ==
  StringsOf(AnyBytes, 0 .. 4) \cup StringsOf(Fewer, 5 .. 6)
    \cup UNION {Beginnings(Write[v]) : v \in MCValues}

----------------------------------------------------------------------------
(* The codes of a number, unsigned and signed, and n bits of one.          *)
BitsOf(v, n) == [i \in 1 .. n |-> (v \div 2 ^ (n - i)) % 2]
BitLength(v) == CHOOSE n \in 1 .. 12 : 2 ^ (n - 1) <= v /\ v < 2 ^ n
UeCode(v) == LET n == BitLength(v + 1) IN BitsOf(0, n - 1) \o BitsOf(v + 1, n)
SeCode(v) == UeCode(IF v > 0 THEN 2 * v - 1 ELSE -2 * v)
Join(seqs) == FoldLeft(LAMBDA a, b : a \o b, <<>>, seqs)

(* Scaling lists: the second one is given, of a scale of 16 that goes on   *)
(* or of one that ends at once.                                            *)
Lists == {<<8>> \o [i \in 1 .. 15 |-> 0], <<-8>>}
Matrix(list) == <<1, 0, 1>> \o Join([i \in DOMAIN list |-> SeCode(list[i])]) \o BitsOf(0, 6)
Heads ==
  {BitsOf(66, 8) \o BitsOf(0, 16) \o UeCode(0)}
    \cup {BitsOf(100, 8) \o BitsOf(0, 16) \o UeCode(0) \o UeCode(1) \o UeCode(0) \o UeCode(2)
            \o <<0>> \o m : m \in {<<0>>} \cup {Matrix(l) : l \in Lists}}
Orders == {UeCode(0) \o UeCode(4), UeCode(2),
           UeCode(1) \o <<1>> \o SeCode(-1) \o SeCode(3) \o UeCode(2) \o SeCode(1) \o SeCode(-2)}
(* The picture: of w x h macroblocks of a frame, or of a field, less what  *)
(* is cropped of it: units of two samples, of four rows if of fields.      *)
Shape(w, h, frames, crop) == [w |-> w, h |-> h, frames |-> frames, crop |-> crop]
Shapes == {Shape(w, h, f, c) : w \in {1, 20}, h \in {1, 6}, f \in BOOLEAN,
                               c \in {<<>>, <<0, 0, 0, 1>>, <<1, 2, 0, 3>>}}
ShapeBits(s) ==
  UeCode(3) \o <<0>> \o UeCode(s.w - 1) \o UeCode(s.h - 1)
    \o (IF s.frames THEN <<1>> ELSE <<0, 1>>) \o <<1>>
    \o (IF s.crop = <<>> THEN <<0>> ELSE <<1>> \o Join([i \in 1 .. 4 |-> UeCode(s.crop[i])]))
SizeOf(s) ==
  LET c == IF s.crop = <<>> THEN <<0, 0, 0, 0>> ELSE s.crop
      fields == IF s.frames THEN 1 ELSE 2
  IN <<16 * s.w - 2 * (c[1] + c[2]), fields * (16 * s.h - 2 * (c[3] + c[4]))>>

(* The end of the bits, a one and zeros to the end of the byte.            *)
Closed(bits) ==
  LET b == Append(bits, 1) IN b \o [i \in 1 .. (8 - (Len(b) % 8)) % 8 |-> 0]
Sps(head, order, s) ==
  Closed(BitsOf(103, 8) \o head \o UeCode(0) \o order \o ShapeBits(s))
Pic(bits, s, spsSize, sets, packet, available) ==
  [size |-> SizeOf(s), frames |-> s.frames, cropped |-> s.crop # <<>>,
   body |-> [length |-> RecordBytes + SizeBytes + Len(bits) \div 8, available |-> available,
             packet |-> packet, sets |-> sets, spsSize |-> spsSize, bits |-> bits]]
OfBits(bits, s) ==
  LET n == Len(bits) \div 8
      all == RecordBytes + SizeBytes + n
  IN {Pic(bits, s, k, 1, 0, all) : k \in 0 .. n + 1}
       \cup {Pic(bits, s, n, 1, 0, there) : there \in {0, 3, RecordBytes, all - 1}}
       \cup {[Pic(bits, s, n, sets, packet, all - 1) EXCEPT !.body.length = all - 1] :
               sets \in {0, 1}, packet \in {0, 1}}
       \cup {[Pic(bits, s, n, 1, 0, short) EXCEPT !.body.length = short] : short \in {9, 10, 11}}
MCPictures ==
  UNION {OfBits(Sps(h, o, s), s) : h \in Heads, o \in Orders, s \in Shapes}
=============================================================================
