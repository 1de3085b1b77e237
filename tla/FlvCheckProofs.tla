--------------------------- MODULE FlvCheckProofs ---------------------------
(* Theorems about FlvCheck.                                                *)
EXTENDS FlvCheck, FiniteSetTheorems, WellFoundedInduction, TLAPS

(* Inductions over the naturals, by sets.                                  *)
LEMMA SetInduction ==
  ASSUME NEW S \in SUBSET Nat, 0 \in S, \A n \in S : n + 1 \in S
  PROVE  S = Nat
  <1> DEFINE R == OpToRel(<, Nat)
             T == Nat \ S
  <1>1. IsWellFoundedOn(R, Nat)
    BY NatLessThanWellFounded, Zenon
  <1>2. ASSUME T # {} PROVE FALSE
    <2>1. \E x \in T : \A y \in T : ~(<<y, x>> \in R)
      <3>1. T \subseteq Nat
        OBVIOUS
      <3> HIDE DEF R, T
      <3> QED BY <1>1, <1>2, <3>1, WFMin
    <2>2. PICK x \in T : \A y \in T : ~(<<y, x>> \in R)
      BY <2>1
    <2>3. \A y \in T : ~(y < x)
      BY <2>2, Zenon DEF OpToRel
    <2>4. x # 0 /\ x - 1 \in Nat
      OBVIOUS
    <2>5. x - 1 \in T
      BY <2>4
    <2> QED BY <2>3, <2>4, <2>5
  <1> QED BY <1>2

(* The least and the greatest element of a set of naturals.                *)
LEMMA MinFacts ==
  ASSUME NEW S \in SUBSET Nat, S # {}
  PROVE  Min(S) \in S /\ \A y \in S : Min(S) <= y
  <1> DEFINE R == OpToRel(<, Nat)
  <1>1. IsWellFoundedOn(R, Nat)
    BY NatLessThanWellFounded, Zenon
  <1>2. \E x \in S : \A y \in S : ~(<<y, x>> \in R)
    <2> HIDE DEF R
    <2> QED BY <1>1, WFMin
  <1>3. PICK x \in S : \A y \in S : ~(<<y, x>> \in R)
    BY <1>2
  <1>4. \A y \in S : ~(y < x)
    BY <1>3, Zenon DEF OpToRel
  <1>5. \A y \in S : x <= y
    BY <1>4
  <1>6. \E z \in S : \A y \in S : z <= y
    BY <1>5
  <1> QED BY <1>6 DEF Min

(* A least element is the least, and a greatest one the greatest.          *)
LEMMA MinIs ==
  ASSUME NEW S \in SUBSET Nat, NEW m \in S, \A y \in S : m <= y
  PROVE  Min(S) = m
  <1>1. Min(S) \in S /\ Min(S) <= m
    BY MinFacts
  <1>2. m <= Min(S) /\ m \in Nat /\ Min(S) \in Nat
    BY <1>1
  <1> QED BY <1>1, <1>2

LEMMA MaxIs ==
  ASSUME NEW S \in SUBSET Nat, NEW m \in S, \A y \in S : y <= m
  PROVE  Max(S) = m
  <1>1. \E x \in S : \A y \in S : x >= y
    OBVIOUS
  <1>2. Max(S) \in S /\ \A y \in S : Max(S) >= y
    BY <1>1 DEF Max
  <1>3. Max(S) >= m /\ m >= Max(S) /\ m \in Nat /\ Max(S) \in Nat
    BY <1>2
  <1> QED BY <1>3

----------------------------------------------------------------------------
(* The messages of a stage, and what they tell.                            *)

(* The messages of one stage: all are about the tag read next.             *)
Notes == Seq([level : DOMAIN Rank, code : Codes, tag : {i}])
(* Those that no property looks for.                                       *)
Others == Seq([level : DOMAIN Rank, code : OtherCodes, tag : {i}])
Tells(ms, code) == \E k \in DOMAIN ms : ms[k].code = code

(* The levels, from the one that says least.                               *)
LEMMA Levels ==
  /\ DOMAIN Rank = {"INFO", "WARNING", "ERROR", "FATAL"}
  /\ Rank["INFO"] = 0 /\ Rank["WARNING"] = 1 /\ Rank["ERROR"] = 2 /\ Rank["FATAL"] = 3
  BY DEF Rank

(* No code is both one the properties look for and one they do not.        *)
LEMMA CodesApart == OtherCodes \intersect TagCodes = {}
  BY DEF TagCodes, OtherCodes

(* Fatal messages are shown, whatever the level asked for.                 *)
LEMMA FatalShown == ASSUME TypeOK PROVE Shown("FATAL")
  BY Levels DEF TypeOK, IsCheckOptions, Shown

(* Concatenation, index by index.                                          *)
LEMMA ConcatFacts ==
  ASSUME NEW S, NEW s \in Seq(S), NEW t \in Seq(S)
  PROVE  /\ s \o t \in Seq(S) /\ Len(s \o t) = Len(s) + Len(t)
         /\ DOMAIN (s \o t) = 1 .. Len(s) + Len(t)
         /\ DOMAIN s = 1 .. Len(s) /\ DOMAIN t = 1 .. Len(t)
         /\ Len(s) \in Nat /\ Len(t) \in Nat
         /\ \A k \in 1 .. Len(s) : (s \o t)[k] = s[k]
         /\ \A k \in 1 .. Len(t) : (s \o t)[Len(s) + k] = t[k]
  OBVIOUS

(* The elements of a concatenation.                                        *)
LEMMA ConcatElements ==
  ASSUME NEW S, NEW s \in Seq(S), NEW t \in Seq(S)
  PROVE  /\ \A k \in DOMAIN (s \o t) :
              \/ k \in DOMAIN s /\ (s \o t)[k] = s[k]
              \/ \E n \in DOMAIN t : k = Len(s) + n /\ (s \o t)[k] = t[n]
         /\ \A k \in DOMAIN s : k \in DOMAIN (s \o t) /\ (s \o t)[k] = s[k]
         /\ \A k \in DOMAIN t : Len(s) + k \in DOMAIN (s \o t) /\ (s \o t)[Len(s) + k] = t[k]
  <1> DEFINE c == s \o t
  <1>1. /\ DOMAIN c = 1 .. Len(s) + Len(t) /\ DOMAIN s = 1 .. Len(s) /\ DOMAIN t = 1 .. Len(t)
        /\ Len(s) \in Nat /\ Len(t) \in Nat
        /\ \A k \in 1 .. Len(s) : c[k] = s[k]
        /\ \A k \in 1 .. Len(t) : c[Len(s) + k] = t[k]
    BY ConcatFacts
  <1> HIDE DEF c
  <1>2. ASSUME NEW k \in DOMAIN c
        PROVE  \/ k \in DOMAIN s /\ c[k] = s[k]
               \/ \E n \in DOMAIN t : k = Len(s) + n /\ c[k] = t[n]
    <2>1. CASE k <= Len(s)
      BY <1>1, <2>1
    <2>2. CASE k > Len(s)
      <3>1. k - Len(s) \in 1 .. Len(t) /\ k = Len(s) + (k - Len(s))
        BY <1>1, <2>2
      <3> QED BY <1>1, <3>1
    <2> QED BY <1>1, <2>1, <2>2
  <1> QED BY <1>1, <1>2 DEF c

(* Messages one after the other tell what each tells.                      *)
LEMMA Join ==
  ASSUME NEW s \in Notes, NEW t \in Notes
  PROVE  /\ s \o t \in Notes
         /\ \A c : Tells(s \o t, c) <=> Tells(s, c) \/ Tells(t, c)
         /\ Fatal(s \o t) <=> Fatal(s) \/ Fatal(t)
  <1> DEFINE S == [level : DOMAIN Rank, code : Codes, tag : {i}]
             j == s \o t
  <1>1. s \in Seq(S) /\ t \in Seq(S)
    BY DEF Notes
  <1> HIDE DEF S
  <1>2. /\ \A k \in DOMAIN j : \/ k \in DOMAIN s /\ j[k] = s[k]
                              \/ \E n \in DOMAIN t : k = Len(s) + n /\ j[k] = t[n]
        /\ \A k \in DOMAIN s : k \in DOMAIN j /\ j[k] = s[k]
        /\ \A k \in DOMAIN t : Len(s) + k \in DOMAIN j /\ j[Len(s) + k] = t[k]
    BY <1>1, ConcatElements
  <1>3. j \in Seq(S)
    BY <1>1, ConcatFacts
  <1>4. j \in Notes
    BY <1>3 DEF S, Notes
  <1> HIDE DEF j
  <1>5. \A c : Tells(j, c) <=> Tells(s, c) \/ Tells(t, c)
    BY <1>2 DEF Tells
  <1>6. Fatal(j) <=> Fatal(s) \/ Fatal(t)
    BY <1>2 DEF Fatal, FatalsOf
  <1> QED BY <1>4, <1>5, <1>6 DEF j

(* Messages no property looks for, one after the other.                    *)
LEMMA JoinOthers ==
  ASSUME NEW s \in Others, NEW t \in Others
  PROVE  s \o t \in Others
  <1> DEFINE S == [level : DOMAIN Rank, code : OtherCodes, tag : {i}]
  <1>1. s \in Seq(S) /\ t \in Seq(S)
    BY DEF Others
  <1> HIDE DEF S
  <1>2. s \o t \in Seq(S)
    BY <1>1, ConcatFacts
  <1> QED BY <1>2 DEF S, Others

(* What a check that finds something tells.                                *)
LEMMA FoundNotes ==
  ASSUME TypeOK, NEW cond \in BOOLEAN, NEW level \in DOMAIN Rank, NEW code \in Codes
  PROVE  /\ Found(cond, level, code) \in Notes
         /\ \A c : Tells(Found(cond, level, code), c) <=> cond /\ Shown(level) /\ c = code
         /\ Fatal(Found(cond, level, code)) <=> cond /\ level = "FATAL"
  <1> DEFINE m == [level |-> level, code |-> code, tag |-> i]
             S == [level : DOMAIN Rank, code : Codes, tag : {i}]
  <1>1. m \in S /\ m.code = code /\ m.level = level
    OBVIOUS
  <1> HIDE DEF m, S
  <1>2. <<>> \in Seq(S) /\ <<m>> \in Seq(S)
    BY <1>1
  <1>3. DOMAIN <<>> = {} /\ DOMAIN <<m>> = {1} /\ <<m>>[1] = m
    OBVIOUS
  <1>4. CASE cond /\ Shown(level)
    <2>1. Found(cond, level, code) = <<m>>
      BY <1>4 DEF Found, Message, m
    <2>2. <<m>> \in Notes
      BY <1>2 DEF Notes, S
    <2>3. \A c : Tells(<<m>>, c) <=> c = code
      BY <1>1, <1>3 DEF Tells
    <2>4. Fatal(<<m>>) <=> level = "FATAL"
      BY <1>1, <1>3 DEF Fatal, FatalsOf, IsFatal
    <2> QED BY <1>4, <2>1, <2>2, <2>3, <2>4
  <1>5. CASE ~(cond /\ Shown(level))
    <2>1. Found(cond, level, code) = <<>>
      BY <1>5 DEF Found, Message
    <2>2. ~(cond /\ level = "FATAL")
      BY <1>5, FatalShown
    <2> QED BY <1>2, <1>3, <1>5, <2>1, <2>2 DEF Notes, S, Tells, Fatal, FatalsOf, IsFatal
  <1> QED BY <1>4, <1>5

(* A check that finds something no property looks for.                     *)
LEMMA FoundOthers ==
  ASSUME NEW cond, NEW level \in DOMAIN Rank, NEW code \in OtherCodes
  PROVE  Found(cond, level, code) \in Others /\ Message(level, code) \in Others
         /\ <<>> \in Others
  <1> DEFINE m == [level |-> level, code |-> code, tag |-> i]
             S == [level : DOMAIN Rank, code : OtherCodes, tag : {i}]
  <1>1. m \in S
    OBVIOUS
  <1> HIDE DEF m, S
  <1>2. <<>> \in Seq(S) /\ <<m>> \in Seq(S)
    BY <1>1
  <1>3. Message(level, code) \in Seq(S)
    BY <1>2 DEF Message, m
  <1> QED BY <1>2, <1>3 DEF Others, S, Found

(* Messages no property looks for are messages of the stage.               *)
LEMMA OthersNotes ==
  ASSUME NEW ms \in Others
  PROVE  ms \in Notes /\ \A c \in TagCodes : ~Tells(ms, c)
  <1> DEFINE S == [level : DOMAIN Rank, code : OtherCodes, tag : {i}]
             T == [level : DOMAIN Rank, code : Codes, tag : {i}]
  <1>1. S \subseteq T /\ \A m \in S : m.code \notin TagCodes
    BY CodesApart DEF Codes
  <1>2. ms \in Seq(S)
    BY DEF Others
  <1> HIDE DEF S, T
  <1>3. ms \in Seq(T) /\ \A k \in DOMAIN ms : ms[k] \in S
    BY <1>1, <1>2
  <1> QED BY <1>1, <1>3 DEF Notes, T, Tells

(* Every element of s is one of c.                                         *)
Within(s, c) == \A m \in DOMAIN s : \E q \in DOMAIN c : c[q] = s[m]

(* A concatenation keeps the elements of both.                             *)
LEMMA ConcatKeeps ==
  ASSUME NEW S, NEW s \in Seq(S), NEW t \in Seq(S)
  PROVE  Within(s, s \o t) /\ Within(t, s \o t)
  <1>1. \A k \in DOMAIN s : k \in DOMAIN (s \o t) /\ (s \o t)[k] = s[k]
    BY ConcatElements
  <1>2. \A k \in DOMAIN t : Len(s) + k \in DOMAIN (s \o t) /\ (s \o t)[Len(s) + k] = t[k]
    BY ConcatElements
  <1> QED BY <1>1, <1>2, Zenon DEF Within

(* Flattening a sequence of sequences keeps their elements.                *)
LEMMA FlattenFacts ==
  ASSUME NEW S, NEW ss \in Seq(Seq(S))
  PROVE  /\ FlattenSeq(ss) \in Seq(S)
         /\ \A k \in DOMAIN ss : \A m \in DOMAIN ss[k] :
              \E q \in DOMAIN FlattenSeq(ss) : FlattenSeq(ss)[q] = ss[k][m]
  <1>6. ASSUME NEW s \in Seq(S), NEW t \in Seq(S)
        PROVE  Within(s, s \o t) /\ Within(t, s \o t)
    BY ConcatKeeps
  <1> DEFINE N == Len(ss)
             T == Seq(S)
             flatten[k \in 1 .. N] == IF k = 1 THEN ss[k] ELSE flatten[k - 1] \o ss[k]
  <1>1. N \in Nat /\ DOMAIN ss = 1 .. N /\ \A k \in 1 .. N : ss[k] \in T
    OBVIOUS
  <1>2. N # 0 => FlattenSeq(ss) = flatten[N]
    BY DEF FlattenSeq
  <1>3. N = 0 => ss = <<>> /\ FlattenSeq(ss) = <<>> /\ DOMAIN ss = {}
    BY DEF FlattenSeq
  <1>4. \A s, t \in T : s \o t \in T
    OBVIOUS
  <1>5. <<>> \in T
    OBVIOUS
  <1>15. \A s, t \in T : Within(s, s \o t) /\ Within(t, s \o t)
    BY <1>6
  <1> HIDE DEF N, T
  <1>7. \E f : f = [k \in 1 .. N |-> IF k = 1 THEN ss[k] ELSE f[k - 1] \o ss[k]]
    <2> DEFINE A == {n \in Nat : n <= N =>
                       \E g : /\ g \in [1 .. n -> T]
                              /\ \A k \in 1 .. n : g[k] = IF k = 1 THEN ss[k]
                                                          ELSE g[k - 1] \o ss[k]}
    <2>1. 0 \in A
      <3> DEFINE g == [k \in 1 .. 0 |-> <<>>]
      <3>1. g \in [1 .. 0 -> T] /\ 1 .. 0 = {}
        BY <1>5
      <3> QED BY <3>1
    <2>2. ASSUME NEW n \in A PROVE n + 1 \in A
      <3> SUFFICES ASSUME n + 1 <= N
                   PROVE  \E g : /\ g \in [1 .. n + 1 -> T]
                                 /\ \A k \in 1 .. n + 1 :
                                      g[k] = IF k = 1 THEN ss[k] ELSE g[k - 1] \o ss[k]
        OBVIOUS
      <3>1. PICK f : /\ f \in [1 .. n -> T]
                     /\ \A k \in 1 .. n : f[k] = IF k = 1 THEN ss[k] ELSE f[k - 1] \o ss[k]
        BY <1>1
      <3> DEFINE x == IF n + 1 = 1 THEN ss[n + 1] ELSE f[n] \o ss[n + 1]
                 g == [k \in 1 .. n + 1 |-> IF k = n + 1 THEN x ELSE f[k]]
      <3>2. ss[n + 1] \in T /\ n \in Nat
        BY <1>1
      <3>3. x \in T
        <4>1. n + 1 # 1 => f[n] \in T
          BY <3>1, <3>2
        <4> QED BY <1>4, <3>2, <4>1
      <3> HIDE DEF x
      <3>4. g \in [1 .. n + 1 -> T]
        BY <3>1, <3>2, <3>3
      <3>5. ASSUME NEW k \in 1 .. n + 1
            PROVE  g[k] = IF k = 1 THEN ss[k] ELSE g[k - 1] \o ss[k]
        <4>1. CASE k = n + 1
          <5>1. g[k] = x /\ k - 1 = n
            BY <3>2, <4>1
          <5>2. k # 1 => g[k - 1] = f[n]
            BY <3>2, <4>1
          <5> QED BY <4>1, <5>1, <5>2 DEF x
        <4>2. CASE k \in 1 .. n
          <5>1. g[k] = f[k] /\ (k # 1 => g[k - 1] = f[k - 1])
            BY <3>2, <4>2
          <5> QED BY <3>1, <4>2, <5>1
        <4> QED BY <3>2, <4>1, <4>2
      <3> HIDE DEF g
      <3> QED BY <3>4, <3>5
    <2>3. A = Nat
      <3> A \in SUBSET Nat
        OBVIOUS
      <3> HIDE DEF A
      <3> QED BY <2>1, <2>2, SetInduction
    <2>4. PICK g : /\ g \in [1 .. N -> T]
                   /\ \A k \in 1 .. N : g[k] = IF k = 1 THEN ss[k] ELSE g[k - 1] \o ss[k]
      <3>1. N \in A
        <4> HIDE DEF A
        <4> QED BY <1>1, <2>3
      <3>2. N <= N
        BY <1>1
      <3> QED BY <3>1, <3>2
    <2>5. g = [k \in 1 .. N |-> IF k = 1 THEN ss[k] ELSE g[k - 1] \o ss[k]]
      BY <2>4
    <2> QED BY <2>5
  <1>8. flatten = [k \in 1 .. N |-> IF k = 1 THEN ss[k] ELSE flatten[k - 1] \o ss[k]]
    BY <1>7
  <1> HIDE DEF flatten
  <1>14. \A k \in 1 .. N : flatten[k] = IF k = 1 THEN ss[k] ELSE flatten[k - 1] \o ss[k]
    BY <1>8
  <1> DEFINE B == {n \in Nat : n \in 1 .. N =>
                     /\ flatten[n] \in T
                     /\ \A k \in 1 .. n : \A m \in DOMAIN ss[k] :
                          \E q \in DOMAIN flatten[n] : flatten[n][q] = ss[k][m]}
  <1>9. 0 \in B
    OBVIOUS
  <1>10. ASSUME NEW n \in B PROVE n + 1 \in B
    <2> SUFFICES ASSUME n + 1 \in 1 .. N
                 PROVE  /\ flatten[n + 1] \in T
                        /\ \A k \in 1 .. n + 1 : \A m \in DOMAIN ss[k] :
                             \E q \in DOMAIN flatten[n + 1] : flatten[n + 1][q] = ss[k][m]
      OBVIOUS
    <2>1. n \in Nat /\ ss[n + 1] \in T
      BY <1>1
    <2>2. CASE n = 0
      <3>1. flatten[n + 1] = ss[n + 1] /\ 1 .. n + 1 = {n + 1}
        BY <1>8, <2>2
      <3> QED BY <2>1, <3>1
    <2>3. CASE n # 0
      <3>1. n \in 1 .. N /\ n + 1 # 1 /\ n + 1 - 1 = n
        BY <2>1, <2>3, <1>1
      <3>2. /\ flatten[n] \in T
            /\ \A k \in 1 .. n : \A m \in DOMAIN ss[k] :
                 \E q \in DOMAIN flatten[n] : flatten[n][q] = ss[k][m]
        BY <3>1
      <3>3. flatten[n + 1] = flatten[n] \o ss[n + 1]
        <4>1. ASSUME NEW c \in 1 .. N, c = n + 1
              PROVE  flatten[c] = flatten[n] \o ss[c]
          <5>1. c # 1 /\ c - 1 = n
            BY <2>1, <3>1, <4>1
          <5>2. flatten[c] = flatten[c - 1] \o ss[c]
            BY <1>14, <5>1, Zenon
          <5> QED BY <5>1, <5>2, Zenon
        <4> QED BY <4>1
      <3>4. flatten[n + 1] \in T
        BY <1>4, <2>1, <3>2, <3>3
      <3>5. ASSUME NEW k \in 1 .. n + 1, NEW m \in DOMAIN ss[k]
            PROVE  \E q \in DOMAIN flatten[n + 1] : flatten[n + 1][q] = ss[k][m]
        <4>1. CASE k = n + 1
          <5>1. m \in DOMAIN ss[n + 1]
            BY <4>1
          <5>2. \E q \in DOMAIN (flatten[n] \o ss[n + 1]) :
                  (flatten[n] \o ss[n + 1])[q] = ss[n + 1][m]
            BY <1>15, <2>1, <3>2, <5>1, Zenon DEF Within
          <5> QED BY <3>3, <4>1, <5>2, Zenon
        <4>2. CASE k \in 1 .. n
          <5>1. PICK p \in DOMAIN flatten[n] : flatten[n][p] = ss[k][m]
            BY <3>2, <4>2
          <5>2. \E q \in DOMAIN (flatten[n] \o ss[n + 1]) :
                  (flatten[n] \o ss[n + 1])[q] = flatten[n][p]
            BY <1>15, <2>1, <3>2, <5>1, Zenon DEF Within
          <5> QED BY <3>3, <5>1, <5>2, Zenon
        <4> QED BY <2>1, <4>1, <4>2
      <3> QED BY <3>4, <3>5
    <2> QED BY <2>2, <2>3
  <1>11. B = Nat
    <2> B \in SUBSET Nat
      OBVIOUS
    <2> HIDE DEF B
    <2> QED BY <1>9, <1>10, SetInduction
  <1>12. CASE N = 0
    BY <1>3, <1>5, <1>12 DEF T
  <1>13. CASE N # 0
    <2>1. N \in 1 .. N
      BY <1>1, <1>13
    <2>2. /\ flatten[N] \in T
          /\ \A k \in 1 .. N : \A m \in DOMAIN ss[k] :
               \E q \in DOMAIN flatten[N] : flatten[N][q] = ss[k][m]
      BY <1>1, <1>11, <2>1
    <2> QED BY <1>1, <1>2, <1>13, <2>2 DEF T
  <1> QED BY <1>12, <1>13

(* The stages other than that of a tag tell nothing the properties look    *)
(* for.                                                                    *)
LEMMA OtherLevels == {"INFO", "WARNING", "ERROR", "FATAL"} = DOMAIN Rank
  BY DEF Rank

(* The header.                                                             *)
LEMMA HeaderOthers == HeaderMessages \in Others
  <1>1. {"HEADER_NO_STREAMS", "HEADER_NO_AUDIO", "HEADER_NO_VIDEO", "HEADER_EOF",
         "HEADER_NO_SIGNATURE", "HEADER_BAD_VERSION", "HEADER_BAD_RESERVED_FLAGS",
         "HEADER_BAD_OFFSET", "PREV_TAG_SIZE_EOF", "PREV_TAG_SIZE_BAD_FIRST",
         "GENERAL_NO_TAG"} \subseteq OtherCodes
    BY DEF OtherCodes
  <1>2. StreamsMessages \in Others
    BY <1>1, FoundOthers, JoinOthers, OtherLevels DEF StreamsMessages
  <1> QED BY ZenonT(40), <1>1, <1>2, FoundOthers, JoinOthers, OtherLevels DEF HeaderMessages

(* The bytes after the last tag.                                           *)
LEMMA EndOthers == Found(file.tail > 0, "FATAL", "TAG_EOF") \in Others
  BY FoundOthers, OtherLevels DEF OtherCodes

(* The file as a whole.                                                    *)
LEMMA FinalOthers == FinalMessages \in Others
  <1>1. {"TIMESTAMP_VIDEO_ENDS_FIRST", "TIMESTAMP_AUDIO_ENDS_FIRST", "HEADER_VIDEO_NOT_FOUND",
         "HEADER_AUDIO_NOT_FOUND", "VIDEO_NO_KEYFRAME", "VIDEO_ONLY_KEYFRAMES",
         "VIDEO_ONLY_KF_LAST_SEC", "METADATA_LAST_SECOND_BAD", "METADATA_NOT_PRESENT",
         "INFO_COMPUTATION_ERROR"} \subseteq OtherCodes
    BY DEF OtherCodes
  <1>2. EndsMessages \in Others
    BY <1>1, FoundOthers, OtherLevels DEF EndsMessages
  <1> QED BY <1>1, <1>2, FoundOthers, JoinOthers, OtherLevels DEF FinalMessages

(* What get_flv_info found.                                                *)
LEMMA GlobalOthers == ASSUME NEW found PROVE GlobalMessages(found) \in Others
  <1>1. {"VIDEO_SIZE_ERROR", "VIDEO_CODEC", "AUDIO_FORMAT", "TIMESTAMP_USE_EXTENDED",
         "GENERAL_LARGE_FILE"} \subseteq OtherCodes
    BY DEF OtherCodes
  <1> QED BY <1>1, FoundOthers, JoinOthers, OtherLevels DEF GlobalMessages

(* Messages that no property looks for and that do not end the check.      *)
MildLevels == {"INFO", "WARNING", "ERROR"}
Mild == Seq([level : MildLevels, code : OtherCodes, tag : {i}])

(* They are messages no property looks for, and none is fatal.             *)
LEMMA MildOthers ==
  ASSUME NEW ms \in Mild
  PROVE  ms \in Others /\ ~Fatal(ms)
  <1> DEFINE S == [level : DOMAIN Rank, code : OtherCodes, tag : {i}]
             T == [level : MildLevels, code : OtherCodes, tag : {i}]
  <1>1. T \subseteq S /\ \A m \in T : ~IsFatal(m)
    BY OtherLevels DEF MildLevels, IsFatal
  <1>2. ms \in Seq(T)
    BY DEF Mild
  <1> HIDE DEF S, T
  <1>3. ms \in Seq(S) /\ \A k \in DOMAIN ms : ms[k] \in T
    BY <1>1, <1>2
  <1> QED BY <1>1, <1>3 DEF Others, S, Fatal, FatalsOf

(* A check that finds something mild.                                      *)
LEMMA FoundMild ==
  ASSUME NEW cond, NEW level \in MildLevels, NEW code \in OtherCodes
  PROVE  Found(cond, level, code) \in Mild /\ Message(level, code) \in Mild /\ <<>> \in Mild
  <1> DEFINE m == [level |-> level, code |-> code, tag |-> i]
             S == [level : MildLevels, code : OtherCodes, tag : {i}]
  <1>1. m \in S
    OBVIOUS
  <1> HIDE DEF m, S
  <1>2. <<>> \in Seq(S) /\ <<m>> \in Seq(S)
    BY <1>1
  <1>3. Message(level, code) \in Seq(S)
    BY <1>2 DEF Message, m
  <1> QED BY <1>2, <1>3 DEF Mild, S, Found

(* Mild messages one after the other.                                      *)
LEMMA JoinMild ==
  ASSUME NEW s \in Mild, NEW t \in Mild
  PROVE  s \o t \in Mild
  <1> DEFINE S == [level : MildLevels, code : OtherCodes, tag : {i}]
  <1>1. s \in Seq(S) /\ t \in Seq(S)
    BY DEF Mild
  <1> HIDE DEF S
  <1>2. s \o t \in Seq(S)
    BY <1>1, ConcatFacts
  <1> QED BY <1>2 DEF S, Mild

(* A keyframe of an index.                                                 *)
LEMMA KeyframeMild == ASSUME NEW e, NEW n PROVE KeyframeMessages(e, n) \in Mild
  <1>1. {"KEYFRAMES_TIME_TYPE_BAD", "KEYFRAMES_TIME_BAD", "KEYFRAMES_TIME_DUPLICATE",
         "KEYFRAMES_POS_TYPE_BAD", "KEYFRAMES_POS_BAD"} \subseteq OtherCodes
    BY DEF OtherCodes
  <1>2. "WARNING" \in MildLevels
    BY DEF MildLevels
  <1> QED BY <1>1, <1>2, FoundMild, JoinMild DEF KeyframeMessages

(* Messages one after the other.                                           *)
LEMMA FlattenMild ==
  ASSUME NEW ss \in Seq(Mild)
  PROVE  FlattenSeq(ss) \in Mild
  <1> DEFINE S == [level : MildLevels, code : OtherCodes, tag : {i}]
  <1>1. ss \in Seq(Seq(S))
    BY DEF Mild
  <1> HIDE DEF S
  <1>2. FlattenSeq(ss) \in Seq(S)
    BY <1>1, FlattenFacts
  <1> QED BY <1>2 DEF Mild, S

(* The entries of an onMetaData, and what is said of each.                 *)
LEMMA EntryMild ==
  ASSUME TypeOK, onMetaData # 0
  PROVE  /\ Entries \in Seq({Entries[k] : k \in DOMAIN Entries})
         /\ \A k \in DOMAIN Entries : EntryMessages(Entries[k]) \in Mild
  <1>0. {"WARNING", "ERROR"} \subseteq MildLevels
    BY DEF MildLevels
  <1>1. {"KEYFRAMES_TIMES_MISSING", "KEYFRAMES_FILEPOS_MISSING", "KEYFRAMES_TIMES_TYPE_BAD",
         "KEYFRAMES_FILEPOS_TYPE_BAD", "KEYFRAMES_ARRAY_LENGTH_BAD", "AMF_DATA_INVALID_TYPE",
         "AMF_DATA_INVALID_VALUE", "AMF_DATA_VIDEO_NEEDED", "AMF_DATA_AUDIO_NEEDED",
         "AMF_DATA_AUDIO_VIDEO_NEEDED"}
          \subseteq OtherCodes
    BY SMTT(30) DEF OtherCodes
  <1>2. Entries \in Seq({Entries[k] : k \in DOMAIN Entries})
    <2>1. onMetaData \in DOMAIN file.tags
      BY DEF TypeOK, IsFile, End
    <2> QED BY <2>1 DEF TypeOK, IsFile, IsTag, Entries
  <1>3. ASSUME NEW k \in DOMAIN Entries PROVE EntryMessages(Entries[k]) \in Mild
    <2> DEFINE e == Entries[k]
    <2>1. /\ e.times.list \in Seq({e.times.list[n] : n \in DOMAIN e.times.list})
      <3>1. onMetaData \in DOMAIN file.tags
        BY DEF TypeOK, IsFile, End
      <3> QED BY ZenonT(40), <3>1 DEF TypeOK, IsFile, IsTag, Entries
    <2> HIDE DEF e
    <2>2. KeyframesMessages(e) \in Mild
      <3> DEFINE ss == [n \in DOMAIN e.times.list |-> KeyframeMessages(e, n)]
      <3>1. ss \in Seq(Mild)
        <4>1. DOMAIN e.times.list = 1 .. Len(e.times.list) /\ Len(e.times.list) \in Nat
          BY <2>1
        <4>2. \A n \in DOMAIN e.times.list : KeyframeMessages(e, n) \in Mild
          BY KeyframeMild
        <4> HIDE DEF Mild
        <4> QED BY <4>1, <4>2
      <3> HIDE DEF ss
      <3>2. FlattenSeq(ss) \in Mild
        BY <3>1, FlattenMild
      <3> QED BY <1>1, <3>2, FoundMild, JoinMild, <1>0 DEF KeyframesMessages, ss
    <2>3. NeededCode(e.name) \in OtherCodes
      BY <1>1 DEF NeededCode
    <2>4. TypeOf("keyframes") = "OBJECT"
      BY DEF TypeOf, Booleans, Numbers, OfVideo, OfAudio, OfFile
    <2>5. EntryMessages(e) \in Mild
      BY <1>1, <2>2, <2>3, <2>4, FoundMild, <1>0 DEF EntryMessages
    <2> QED BY <2>5 DEF e
  <1> QED BY <1>2, <1>3

(* The whole of an onMetaData.                                             *)
LEMMA MetaDataMild ==
  ASSUME TypeOK, onMetaData # 0
  PROVE  MetaDataMessages \in Mild
  <1>1. "ERROR" \in MildLevels
    BY DEF MildLevels
  <1>2. {"VIDEO_WIDTH_MISSING", "VIDEO_HEIGHT_MISSING"} \subseteq OtherCodes
    BY DEF OtherCodes
  <1> DEFINE ss == [k \in DOMAIN Entries |-> EntryMessages(Entries[k])]
  <1>3. ss \in Seq(Mild)
    <2> HIDE DEF Mild
    <2> QED BY EntryMild
  <1> HIDE DEF ss
  <1>4. FlattenSeq(ss) \in Mild
    BY <1>3, FlattenMild
  <1> QED BY <1>1, <1>2, <1>4, FoundMild, JoinMild DEF MetaDataMessages, ss

(* The length of a tag's body.                                             *)
LEMMA LengthOthers == LengthMessages \in Others
  <1>1. {"TAG_BODY_LENGTH_OVERFLOW", "TAG_BODY_LENGTH_LARGE", "TAG_BODY_LENGTH_ZERO"}
          \subseteq OtherCodes
    BY DEF OtherCodes
  <1> QED BY <1>1, FoundOthers, JoinOthers, OtherLevels DEF LengthMessages

(* The previous tag size after a tag.                                      *)
LEMMA PrevOthers == PrevMessages \in Others
  <1>1. {"PREV_TAG_SIZE_EOF", "PREV_TAG_SIZE_BAD"} \subseteq OtherCodes
    BY DEF OtherCodes
  <1> QED BY <1>1, FoundOthers, JoinOthers, OtherLevels DEF PrevMessages

----------------------------------------------------------------------------
(* What the messages of a tag tell.                                        *)

(* What messages say, of the codes the properties look for.                *)
Says(ms, codes) == ms \in Notes /\ \A c \in TagCodes : Tells(ms, c) <=> c \in codes
Told(cond, level, code) == {c \in {code} : cond /\ Shown(level)}

(* Messages one after the other say what each says.                        *)
LEMMA SaysJoin ==
  ASSUME NEW s, NEW t, NEW C, NEW D, Says(s, C), Says(t, D)
  PROVE  Says(s \o t, C \union D)
  <1>1. s \in Notes /\ t \in Notes
    BY DEF Says
  <1>2. s \o t \in Notes /\ \A c : Tells(s \o t, c) <=> Tells(s, c) \/ Tells(t, c)
    BY <1>1, Join
  <1> QED BY <1>2 DEF Says

(* The same, with a part that says nothing.                                *)
LEMMA SaysMore ==
  ASSUME NEW s, NEW C, Says(s, C), NEW t \in Others
  PROVE  Says(s \o t, C) /\ Says(t \o s, C)
  <1>1. s \in Notes /\ t \in Notes /\ \A c \in TagCodes : ~Tells(t, c)
    BY OthersNotes DEF Says
  <1>2. /\ s \o t \in Notes /\ \A c : Tells(s \o t, c) <=> Tells(s, c) \/ Tells(t, c)
        /\ t \o s \in Notes /\ \A c : Tells(t \o s, c) <=> Tells(t, c) \/ Tells(s, c)
    BY <1>1, Join
  <1> QED BY <1>1, <1>2 DEF Says

(* A check that finds something the properties look for.                   *)
LEMMA SaysFound ==
  ASSUME TypeOK, NEW cond \in BOOLEAN, NEW level \in DOMAIN Rank, NEW code \in TagCodes
  PROVE  Says(Found(cond, level, code), Told(cond, level, code))
  <1>1. code \in Codes
    BY DEF Codes
  <1>2. /\ Found(cond, level, code) \in Notes
        /\ \A c : Tells(Found(cond, level, code), c) <=> cond /\ Shown(level) /\ c = code
    BY <1>1, FoundNotes
  <1> QED BY <1>2 DEF Says, Told

(* Messages no property looks for say nothing.                             *)
LEMMA SaysOther == ASSUME NEW ms \in Others PROVE Says(ms, {})
  BY OthersNotes DEF Says

TypeTold == Told(Is("OTHER") /\ TooManyUnknown, "FATAL", "CONSECUTIVE_UNKNOWN_TAGS")
(* What the checks of a tag's type say.                                    *)
LEMMA TypeSays == ASSUME TypeOK PROVE Says(TypeMessages, TypeTold)
  <1>1. {"TAG_TYPE_UNKNOWN", "HEADER_UNEXPECTED_VIDEO", "HEADER_UNEXPECTED_AUDIO"}
          \subseteq OtherCodes
    BY DEF OtherCodes
  <1>2. Says(Found(Is("OTHER") /\ TooManyUnknown, "FATAL", "CONSECUTIVE_UNKNOWN_TAGS"), TypeTold)
    BY SaysFound, OtherLevels DEF TagCodes, TypeTold
  <1> QED BY <1>1, <1>2, FoundOthers, SaysMore, OtherLevels DEF TypeMessages

TimeTold ==
  Told(Is("AUDIO") /\ last["AUDIO"] > Tag.time, "ERROR", "TIMESTAMP_AUDIO_DECREASE")
  \union Told(Is("VIDEO") /\ last["VIDEO"] > Tag.time, "ERROR", "TIMESTAMP_VIDEO_DECREASE")
(* What the checks of a tag's timestamp say.                               *)
LEMMA TimeSays == ASSUME TypeOK PROVE Says(TimeMessages, TimeTold)
  <1>1. {"TIMESTAMP_FIRST_NON_ZERO", "TIMESTAMP_OVERFLOW", "TIMESTAMP_DECREASE"}
          \subseteq OtherCodes
    BY DEF OtherCodes
  <1> DEFINE before == Found(i = 1 /\ Tag.time # 0, "ERROR", "TIMESTAMP_FIRST_NON_ZERO")
             audio == Found(Is("AUDIO") /\ last["AUDIO"] > Tag.time, "ERROR",
                            "TIMESTAMP_AUDIO_DECREASE")
             video == Found(Is("VIDEO") /\ last["VIDEO"] > Tag.time, "ERROR",
                            "TIMESTAMP_VIDEO_DECREASE")
             A == Told(Is("AUDIO") /\ last["AUDIO"] > Tag.time, "ERROR",
                       "TIMESTAMP_AUDIO_DECREASE")
             V == Told(Is("VIDEO") /\ last["VIDEO"] > Tag.time, "ERROR",
                       "TIMESTAMP_VIDEO_DECREASE")
  <1>2. before \in Others
    BY <1>1, FoundOthers, OtherLevels
  <1>3. Says(audio, A)
    BY SaysFound, OtherLevels DEF TagCodes
  <1>4. Says(video, V)
    BY SaysFound, OtherLevels DEF TagCodes
  <1>5. A \union V = TimeTold
    BY DEF TimeTold
  <1> HIDE DEF before, audio, video, A, V
  <1>6. Says(before \o audio, A)
    BY <1>2, <1>3, SaysMore
  <1>7. Says(before \o audio \o video, TimeTold)
    BY <1>4, <1>5, <1>6, SaysJoin
  <1> QED BY <1>1, <1>7, FoundOthers, SaysMore, OtherLevels
          DEF TimeMessages, before, audio, video

DesyncTold == Told(DesyncFound, "WARNING", "TIMESTAMP_DESYNC")
(* What the check of the distance of audio and video says.                 *)
LEMMA DesyncSays == ASSUME TypeOK PROVE Says(DesyncMessages, DesyncTold)
  <1>1. "TAG_STREAM_ID_NON_ZERO" \in OtherCodes
    BY DEF OtherCodes
  <1>2. DesyncFound \in BOOLEAN
    BY DEF DesyncFound
  <1>3. Says(Found(DesyncFound, "WARNING", "TIMESTAMP_DESYNC"), DesyncTold)
    BY <1>2, SaysFound, OtherLevels DEF TagCodes, DesyncTold
  <1> QED BY <1>1, <1>3, FoundOthers, SaysMore, OtherLevels DEF DesyncMessages

AudioTold ==
  Told(prevOf["AUDIO"] > 0 /\ PrevTag("AUDIO").audio # Tag.audio, "WARNING",
       "AUDIO_FORMAT_CHANGED")
(* What the checks of an audio tag say.                                    *)
LEMMA AudioSays == ASSUME TypeOK PROVE Says(AudioMessages, AudioTold)
  <1>1. {"AUDIO_CODEC_UNKNOWN", "AUDIO_CODEC_RESERVED", "AUDIO_CODEC_AAC_BAD",
         "AUDIO_CODEC_NELLYMOSER_BAD", "AUDIO_CODEC_AAC_MONO", "AUDIO_CODEC_LINEAR_PCM"}
          \subseteq OtherCodes
    BY DEF OtherCodes
  <1> DEFINE a == Tag.audio
             changed == Found(prevOf["AUDIO"] > 0 /\ PrevTag("AUDIO").audio # a, "WARNING",
                              "AUDIO_FORMAT_CHANGED")
             unknown == Found(a.format = "UNKNOWN", "WARNING", "AUDIO_CODEC_UNKNOWN")
             reserved == Found(a.format = "RESERVED", "WARNING", "AUDIO_CODEC_RESERVED")
             rate == Found(a.format = "AAC" /\ ~a.rate44, "WARNING", "AUDIO_CODEC_AAC_BAD")
             mono == Found(a.format = "NELLYMOSER" /\ a.stereo, "WARNING",
                           "AUDIO_CODEC_NELLYMOSER_BAD")
             stereo == Found(a.format = "AAC" /\ ~a.stereo, "WARNING", "AUDIO_CODEC_AAC_MONO")
             pcm == Found(a.format = "PCM", "WARNING", "AUDIO_CODEC_LINEAR_PCM")
  <1>2. Says(changed, AudioTold)
    BY SaysFound, OtherLevels DEF TagCodes, AudioTold
  <1>3. /\ unknown \in Others /\ reserved \in Others /\ rate \in Others
        /\ mono \in Others /\ stereo \in Others /\ pcm \in Others
    BY <1>1, FoundOthers, OtherLevels
  <1>4. AudioMessages
          = changed \o unknown \o reserved \o rate \o mono \o stereo \o pcm
    BY Zenon DEF AudioMessages
  <1> HIDE DEF changed, unknown, reserved, rate, mono, stereo, pcm
  <1>5. Says(changed \o unknown \o reserved \o rate, AudioTold)
    BY <1>2, <1>3, SaysMore
  <1>6. Says(changed \o unknown \o reserved \o rate \o mono \o stereo \o pcm, AudioTold)
    BY <1>3, <1>5, SaysMore
  <1> QED BY <1>4, <1>6

VideoTold ==
  Told(prevOf["VIDEO"] > 0 /\ PrevTag("VIDEO").codec # Tag.codec, "WARNING",
       "VIDEO_FORMAT_CHANGED")
  \union Told(FirstFrame /\ Tag.frame # "KEY", "WARNING", "VIDEO_NO_FIRST_KEYFRAME")
(* What the checks of a video tag say.                                     *)
LEMMA VideoSays == ASSUME TypeOK PROVE Says(VideoMessages, VideoTold)
  <1>1. {"TAG_EOF", "VIDEO_FRAME_TYPE_UNKNOWN", "VIDEO_CODEC_UNKNOWN", "VIDEO_CODEC_JPEG"}
          \subseteq OtherCodes
    BY DEF OtherCodes
  <1> DEFINE before == Found(~Tag.reads, "FATAL", "TAG_EOF")
             changed == Found(prevOf["VIDEO"] > 0 /\ PrevTag("VIDEO").codec # Tag.codec,
                              "WARNING", "VIDEO_FORMAT_CHANGED")
             frame == Found(Tag.frame = "UNKNOWN", "ERROR", "VIDEO_FRAME_TYPE_UNKNOWN")
             first == Found(FirstFrame /\ Tag.frame # "KEY", "WARNING",
                            "VIDEO_NO_FIRST_KEYFRAME")
             C == Told(prevOf["VIDEO"] > 0 /\ PrevTag("VIDEO").codec # Tag.codec, "WARNING",
                       "VIDEO_FORMAT_CHANGED")
             F == Told(FirstFrame /\ Tag.frame # "KEY", "WARNING", "VIDEO_NO_FIRST_KEYFRAME")
  <1>2. before \in Others /\ frame \in Others
    BY <1>1, FoundOthers, OtherLevels
  <1>3. Says(changed, C)
    BY SaysFound, OtherLevels DEF TagCodes
  <1>4. Says(first, F)
    BY SaysFound, OtherLevels DEF TagCodes, FirstFrame
  <1>5. C \union F = VideoTold
    BY DEF VideoTold
  <1> HIDE DEF before, changed, frame, first, C, F
  <1>6. Says(before \o changed \o frame, C)
    BY <1>2, <1>3, SaysMore
  <1>7. Says(before \o changed \o frame \o first, VideoTold)
    BY <1>4, <1>5, <1>6, SaysJoin
  <1> QED BY <1>1, <1>7, FoundOthers, SaysMore, OtherLevels
          DEF VideoMessages, before, changed, frame, first

MetaTold == Told(Named("onMetaData") /\ ~FirstMetaData, "WARNING", "METADATA_DUPLICATE")
(* What the checks of a metadata tag say.                                  *)
LEMMA MetaSays ==
  ASSUME TypeOK, i < End, Is("META"), Tag.body > 0
  PROVE  Says(MetaMessages, MetaTold)
  <1>1. {"METADATA_NAME_EMPTY", "METADATA_DATA_REMAINING", "METADATA_DATA_MISSING",
         "METADATA_LAST_SECOND_DUP", "METADATA_DATA_INVALID_TYPE", "METADATA_BAD_TAG",
         "METADATA_BAD_TIMESTAMP", "METADATA_NAME_UNKNOWN", "TAG_EOF",
         "METADATA_NAME_INVALID", "METADATA_DATA_INVALID", "METADATA_NAME_INVALID_TYPE"}
          \subseteq OtherCodes
    BY DEF OtherCodes
  <1>3. Says(NamedMessages, MetaTold)
    <2> DEFINE empty == Found(Tag.name = "", "WARNING", "METADATA_NAME_EMPTY")
               remaining == Found(Tag.left > 0, "WARNING", "METADATA_DATA_REMAINING")
               missing == Found(Tag.left < 0, "WARNING", "METADATA_DATA_MISSING")
               second == Found(Named("onLastSecond") /\ onLastSecond > 0, "WARNING",
                               "METADATA_LAST_SECOND_DUP")
               invalid == Found(FirstMetaData /\ ~Tag.assoc, "ERROR",
                                "METADATA_DATA_INVALID_TYPE")
               late == Found(FirstMetaData /\ i # 1, "WARNING", "METADATA_BAD_TAG")
               timed == Found(FirstMetaData /\ Tag.time # 0, "WARNING",
                              "METADATA_BAD_TIMESTAMP")
               again == Found(Named("onMetaData") /\ ~FirstMetaData, "WARNING",
                              "METADATA_DUPLICATE")
               unknown == Found(Tag.name \notin {"onMetaData", "onCuePoint", "onLastSecond"},
                                "INFO", "METADATA_NAME_UNKNOWN")
    <2>1. Says(again, MetaTold)
      BY SaysFound, OtherLevels DEF TagCodes, MetaTold
    <2>2. /\ empty \in Others /\ remaining \in Others /\ missing \in Others
          /\ second \in Others /\ invalid \in Others /\ late \in Others
          /\ timed \in Others /\ unknown \in Others
      BY <1>1, FoundOthers, OtherLevels
    <2>3. NamedMessages = empty \o remaining \o missing \o second \o invalid \o late \o timed
                          \o again \o unknown
      BY Zenon DEF NamedMessages
    <2> HIDE DEF empty, remaining, missing, second, invalid, late, timed, again, unknown
    <2>4. empty \o remaining \o missing \o second \in Others
      BY <2>2, JoinOthers
    <2>5. empty \o remaining \o missing \o second \o invalid \o late \o timed \in Others
      BY <2>2, <2>4, JoinOthers
    <2> QED BY <2>1, <2>2, <2>3, <2>5, SaysMore
  <1>4. ASSUME Tag.read # "OK" \/ Tag.name = "none" PROVE MetaTold = {}
    BY SMTT(30), <1>4 DEF MetaTold, Told, Named
  <1>5. Tag.read \in {"OK", "EOF", "BAD_NAME", "BAD_DATA"}
    <2>1. i \in DOMAIN file.tags
      BY SMTT(30) DEF TypeOK, IsFile, End
    <2> QED BY <2>1 DEF TypeOK, IsFile, IsTag, Tag
  <1> QED BY <1>1, <1>3, <1>4, <1>5, FoundOthers, SaysOther, OtherLevels DEF MetaMessages

BodyTold ==
  {c \in AudioTold : Is("AUDIO") /\ Tag.body > 0}
  \union {c \in VideoTold : Is("VIDEO") /\ Tag.body > 0}
  \union MetaTold
(* What the checks of a tag's body say.                                    *)
LEMMA BodySays ==
  ASSUME TypeOK, i < End
  PROVE  Says(BodyMessages, BodyTold)
  <1>1. Tag.type \in {"AUDIO", "VIDEO", "META", "OTHER"} /\ Tag.body \in Nat
    <2>1. i \in DOMAIN file.tags
      BY DEF TypeOK, IsFile, End
    <2> QED BY <2>1 DEF TypeOK, IsFile, IsTag, Tag, AV
  <1>2. ~(Is("META") /\ Tag.body > 0) => MetaTold = {}
    BY DEF MetaTold, Told, Named
  <1>3. CASE Tag.body = 0 \/ Is("OTHER")
    <2>1. BodyTold = {}
      BY <1>1, <1>2, <1>3 DEF BodyTold, Is
    <2>2. BodyMessages = <<>>
      BY <1>3 DEF BodyMessages, Is
    <2>3. <<>> \in Others
      BY DEF Others
    <2> QED BY <2>1, <2>2, <2>3, SaysOther
  <1>4. CASE Tag.body > 0 /\ Is("AUDIO")
    <2>1. BodyTold = AudioTold
      BY <1>2, <1>4 DEF BodyTold, Is
    <2>2. BodyMessages = AudioMessages
      BY <1>4 DEF BodyMessages, Is
    <2> QED BY <2>1, <2>2, AudioSays
  <1>5. CASE Tag.body > 0 /\ Is("VIDEO")
    <2>1. BodyTold = VideoTold
      BY <1>2, <1>5 DEF BodyTold, Is
    <2>2. BodyMessages = VideoMessages
      BY <1>5 DEF BodyMessages, Is
    <2> QED BY <2>1, <2>2, VideoSays
  <1>6. CASE Tag.body > 0 /\ Is("META")
    <2>1. BodyTold = MetaTold
      BY <1>6 DEF BodyTold, Is
    <2>2. BodyMessages = MetaMessages
      BY <1>6 DEF BodyMessages, Is
    <2> QED BY <1>6, <2>1, <2>2, MetaSays
  <1> QED BY <1>1, <1>3, <1>4, <1>5, <1>6 DEF Is

(* What a tag is told about.                                               *)
LEMMA TagSays ==
  ASSUME TypeOK, i < End
  PROVE  /\ TagMessages \in Notes
         /\ Tells(TagMessages, "CONSECUTIVE_UNKNOWN_TAGS") <=> Is("OTHER") /\ TooManyUnknown
         /\ Tells(TagMessages, "TIMESTAMP_AUDIO_DECREASE")
              <=> Shown("ERROR") /\ Is("AUDIO") /\ last["AUDIO"] > Tag.time
         /\ Tells(TagMessages, "TIMESTAMP_VIDEO_DECREASE")
              <=> Shown("ERROR") /\ Is("VIDEO") /\ last["VIDEO"] > Tag.time
         /\ Tells(TagMessages, "TIMESTAMP_DESYNC") <=> Shown("WARNING") /\ DesyncFound
         /\ Tells(TagMessages, "AUDIO_FORMAT_CHANGED")
              <=> /\ Shown("WARNING") /\ Is("AUDIO") /\ Tag.body > 0
                  /\ prevOf["AUDIO"] > 0 /\ PrevTag("AUDIO").audio # Tag.audio
         /\ Tells(TagMessages, "VIDEO_FORMAT_CHANGED")
              <=> /\ Shown("WARNING") /\ Is("VIDEO") /\ Tag.body > 0
                  /\ prevOf["VIDEO"] > 0 /\ PrevTag("VIDEO").codec # Tag.codec
         /\ Tells(TagMessages, "VIDEO_NO_FIRST_KEYFRAME")
              <=> /\ Shown("WARNING") /\ Is("VIDEO") /\ Tag.body > 0
                  /\ FirstFrame /\ Tag.frame # "KEY"
         /\ Tells(TagMessages, "METADATA_DUPLICATE")
              <=> Shown("WARNING") /\ Named("onMetaData") /\ ~FirstMetaData
         /\ Is("OTHER") /\ TooManyUnknown => Fatal(TagMessages)
  <1> DEFINE t1 == TypeMessages \o LengthMessages
             t2 == t1 \o TimeMessages
             t3 == t2 \o DesyncMessages
             t4 == t3 \o BodyMessages
             T == TypeTold \union TimeTold \union DesyncTold \union BodyTold
  <1>1. Says(t1, TypeTold)
    BY TypeSays, LengthOthers, SaysMore
  <1>2. Says(t2, TypeTold \union TimeTold)
    <2> HIDE DEF t1
    <2> QED BY <1>1, TimeSays, SaysJoin
  <1>3. Says(t3, TypeTold \union TimeTold \union DesyncTold)
    <2> HIDE DEF t2
    <2> QED BY <1>2, DesyncSays, SaysJoin
  <1>4. Says(t4, T)
    <2> HIDE DEF t3
    <2> QED BY <1>3, BodySays, SaysJoin
  <1>5. TagMessages = t4 \o PrevMessages
    BY DEF TagMessages
  <1>6. Says(TagMessages, T)
    <2> HIDE DEF t4, T
    <2> QED BY <1>4, <1>5, PrevOthers, SaysMore
  <1>7. \A c \in TagCodes : Tells(TagMessages, c) <=> c \in T
    BY <1>6 DEF Says
  <1>8. TagMessages \in Notes
    BY <1>6 DEF Says
  <1>9. Is("OTHER") /\ TooManyUnknown => Fatal(TagMessages)
    <2> DEFINE m == TagMessages
    <2> SUFFICES ASSUME Is("OTHER"), TooManyUnknown PROVE Fatal(TagMessages)
      OBVIOUS
    <2>1. "CONSECUTIVE_UNKNOWN_TAGS" \in TagCodes
      BY DEF TagCodes
    <2>2. Fatal(TypeMessages)
      <3> DEFINE a == Found(Is("OTHER"), "ERROR", "TAG_TYPE_UNKNOWN")
                 b == Found(Is("OTHER") /\ TooManyUnknown, "FATAL", "CONSECUTIVE_UNKNOWN_TAGS")
                 c == Found(Is("VIDEO") /\ Tag.type \notin have \union file.has, "WARNING",
                            "HEADER_UNEXPECTED_VIDEO")
                 d == Found(Is("AUDIO") /\ Tag.type \notin have \union file.has, "WARNING",
                            "HEADER_UNEXPECTED_AUDIO")
      <3>1. /\ "TAG_TYPE_UNKNOWN" \in OtherCodes /\ "HEADER_UNEXPECTED_VIDEO" \in OtherCodes
            /\ "HEADER_UNEXPECTED_AUDIO" \in OtherCodes
        BY DEF OtherCodes
      <3>2. a \in Notes /\ c \in Notes /\ d \in Notes
        BY <3>1, FoundOthers, OthersNotes, OtherLevels
      <3>3. b \in Notes /\ Fatal(b)
        BY <2>1, FoundNotes, OtherLevels DEF Codes
      <3>4. TypeMessages = a \o b \o c \o d
        BY DEF TypeMessages
      <3> HIDE DEF a, b, c, d
      <3>5. a \o b \in Notes /\ Fatal(a \o b)
        BY <3>2, <3>3, Join
      <3>6. a \o b \o c \in Notes /\ Fatal(a \o b \o c)
        BY <3>2, <3>5, Join
      <3> QED BY <3>2, <3>4, <3>6, Join
    <2>3. /\ TypeMessages \in Notes /\ LengthMessages \in Notes /\ TimeMessages \in Notes
          /\ DesyncMessages \in Notes /\ BodyMessages \in Notes /\ PrevMessages \in Notes
      BY TypeSays, TimeSays, DesyncSays, BodySays, LengthOthers, PrevOthers, OthersNotes DEF Says
    <2>4. t1 \in Notes /\ Fatal(t1)
      BY <2>2, <2>3, Join
    <2>5. t2 \in Notes /\ Fatal(t2)
      BY <2>3, <2>4, Join
    <2>6. t3 \in Notes /\ Fatal(t3)
      BY <2>3, <2>5, Join
    <2>7. t4 \in Notes /\ Fatal(t4)
      BY <2>3, <2>6, Join
    <2> QED BY <1>5, <2>3, <2>7, Join
  <1>10. TagCodes = {
           "CONSECUTIVE_UNKNOWN_TAGS", "TIMESTAMP_AUDIO_DECREASE", "TIMESTAMP_VIDEO_DECREASE",
           "TIMESTAMP_DESYNC", "AUDIO_FORMAT_CHANGED", "VIDEO_FORMAT_CHANGED",
           "VIDEO_NO_FIRST_KEYFRAME", "METADATA_DUPLICATE"}
    BY DEF TagCodes
  <1> HIDE DEF t1, t2, t3, t4
  <1>11. Tells(TagMessages, "CONSECUTIVE_UNKNOWN_TAGS") <=> Is("OTHER") /\ TooManyUnknown
    BY <1>7, <1>10, FatalShown
       DEF TypeTold, TimeTold, DesyncTold, BodyTold, AudioTold, VideoTold, MetaTold, Told
  <1>12. /\ Tells(TagMessages, "TIMESTAMP_AUDIO_DECREASE")
              <=> Shown("ERROR") /\ Is("AUDIO") /\ last["AUDIO"] > Tag.time
         /\ Tells(TagMessages, "TIMESTAMP_VIDEO_DECREASE")
              <=> Shown("ERROR") /\ Is("VIDEO") /\ last["VIDEO"] > Tag.time
    BY <1>7, <1>10
       DEF TypeTold, TimeTold, DesyncTold, BodyTold, AudioTold, VideoTold, MetaTold, Told
  <1>13. Tells(TagMessages, "TIMESTAMP_DESYNC") <=> Shown("WARNING") /\ DesyncFound
    BY <1>7, <1>10
       DEF TypeTold, TimeTold, DesyncTold, BodyTold, AudioTold, VideoTold, MetaTold, Told
  <1>14. Tells(TagMessages, "AUDIO_FORMAT_CHANGED")
           <=> /\ Shown("WARNING") /\ Is("AUDIO") /\ Tag.body > 0
               /\ prevOf["AUDIO"] > 0 /\ PrevTag("AUDIO").audio # Tag.audio
    BY <1>7, <1>10
       DEF TypeTold, TimeTold, DesyncTold, BodyTold, AudioTold, VideoTold, MetaTold, Told
  <1>15. Tells(TagMessages, "VIDEO_FORMAT_CHANGED")
           <=> /\ Shown("WARNING") /\ Is("VIDEO") /\ Tag.body > 0
               /\ prevOf["VIDEO"] > 0 /\ PrevTag("VIDEO").codec # Tag.codec
    BY <1>7, <1>10
       DEF TypeTold, TimeTold, DesyncTold, BodyTold, AudioTold, VideoTold, MetaTold, Told
  <1>16. Tells(TagMessages, "VIDEO_NO_FIRST_KEYFRAME")
           <=> /\ Shown("WARNING") /\ Is("VIDEO") /\ Tag.body > 0
               /\ FirstFrame /\ Tag.frame # "KEY"
    BY <1>7, <1>10
       DEF TypeTold, TimeTold, DesyncTold, BodyTold, AudioTold, VideoTold, MetaTold, Told
  <1>17. Tells(TagMessages, "METADATA_DUPLICATE")
           <=> Shown("WARNING") /\ Named("onMetaData") /\ ~FirstMetaData
    BY <1>7, <1>10
       DEF TypeTold, TimeTold, DesyncTold, BodyTold, AudioTold, VideoTold, MetaTold, Told
  <1> QED BY <1>8, <1>9, <1>11, <1>12, <1>13, <1>14, <1>15, <1>16, <1>17, Zenon

----------------------------------------------------------------------------
(* Counting the messages, and printing them up to a fatal one.             *)

(* Counting over a concatenation.                                          *)
Shifted(m, n, A, B, C) ==
  /\ m \in Nat /\ n \in Nat
  /\ A \in SUBSET (1 .. m) /\ B \in SUBSET (1 .. n) /\ C \in SUBSET (1 .. m + n)
  /\ \A k \in 1 .. m : k \in C <=> k \in A
  /\ \A k \in 1 .. n : m + k \in C <=> k \in B
(* Sets that are shifted copies of one another are counted alike.          *)
LEMMA CountShifted ==
  ASSUME NEW m, NEW n, NEW A, NEW B, NEW C, Shifted(m, n, A, B, C)
  PROVE  Cardinality(C) = Cardinality(A) + Cardinality(B)
  <1> USE DEF Shifted
  <1> DEFINE D == {m + k : k \in B}
             f == [k \in B |-> m + k]
  <1>1. IsFiniteSet(A) /\ IsFiniteSet(B)
    <2>1. IsFiniteSet(1 .. m) /\ IsFiniteSet(1 .. n)
      BY FS_Interval
    <2> QED BY <2>1, FS_Subset
  <1>2. f \in Bijection(B, D)
    <2>1. f \in [B -> D]
      OBVIOUS
    <2>2. \A j, k \in B : f[j] = f[k] => j = k
      <3> SUFFICES ASSUME NEW j \in B, NEW k \in B, f[j] = f[k] PROVE j = k
        OBVIOUS
      <3>1. m + j = m + k /\ j \in Nat /\ k \in Nat
        OBVIOUS
      <3> QED BY <3>1
    <2>3. \A d \in D : \E k \in B : f[k] = d
      OBVIOUS
    <2> HIDE DEF f, D
    <2> QED BY <2>1, <2>2, <2>3 DEF Bijection, Injection, Surjection, IsInjective
  <1>3. IsFiniteSet(D) /\ Cardinality(D) = Cardinality(B)
    <2>1. ExistsBijection(B, D)
      BY <1>2 DEF ExistsBijection
    <2> QED BY <1>1, <2>1, FS_Bijection
  <1>4. A \intersect D = {}
    OBVIOUS
  <1>5. Cardinality(A) \in Nat /\ Cardinality(B) \in Nat
    BY <1>1, FS_CardinalityType
  <1>9. C = A \union D
    <2>1. ASSUME NEW k \in C PROVE k \in A \union D
      <3>1. k \notin 1 .. m => k - m \in 1 .. n /\ k = m + (k - m)
        OBVIOUS
      <3> QED BY <3>1
    <2>2. ASSUME NEW k \in B PROVE m + k \in C
      OBVIOUS
    <2> QED BY <2>1, <2>2
  <1> HIDE DEF D
  <1>6. Cardinality(A \union D) = Cardinality(A) + Cardinality(D) - Cardinality({})
    BY <1>1, <1>3, <1>4, FS_Union
  <1>7. Cardinality({}) = 0
    BY FS_EmptySet
  <1> QED BY <1>3, <1>5, <1>6, <1>7, <1>9

(* The errors and the warnings of a concatenation are counted apart.       *)
LEMMA CountJoin ==
  ASSUME NEW S, NEW s \in Seq(S), NEW t \in Seq(S)
  PROVE  /\ Cardinality(ErrorsOf(s \o t)) = Cardinality(ErrorsOf(s)) + Cardinality(ErrorsOf(t))
         /\ Cardinality(WarningsOf(s \o t))
              = Cardinality(WarningsOf(s)) + Cardinality(WarningsOf(t))
  <1> DEFINE c == s \o t
             m == Len(s)
             n == Len(t)
  <1>1. /\ DOMAIN s = 1 .. m /\ DOMAIN t = 1 .. n /\ DOMAIN c = 1 .. m + n
        /\ m \in Nat /\ n \in Nat
        /\ \A k \in 1 .. m : c[k] = s[k]
        /\ \A k \in 1 .. n : c[m + k] = t[k]
    BY ConcatFacts
  <1>2. \A k \in 1 .. n : m + k \in 1 .. m + n
    BY <1>1
  <1>3. \A k \in 1 .. m : k \in 1 .. m + n
    BY <1>1
  <1> HIDE DEF c, m, n
  <1>4. /\ ErrorsOf(s) \in SUBSET (1 .. m) /\ ErrorsOf(t) \in SUBSET (1 .. n)
        /\ ErrorsOf(c) \in SUBSET (1 .. m + n)
        /\ WarningsOf(s) \in SUBSET (1 .. m) /\ WarningsOf(t) \in SUBSET (1 .. n)
        /\ WarningsOf(c) \in SUBSET (1 .. m + n)
    BY <1>1 DEF ErrorsOf, WarningsOf
  <1>5. /\ \A k \in 1 .. m : k \in ErrorsOf(c) <=> k \in ErrorsOf(s)
        /\ \A k \in 1 .. m : k \in WarningsOf(c) <=> k \in WarningsOf(s)
    BY <1>1, <1>3 DEF ErrorsOf, WarningsOf
  <1>6. /\ \A k \in 1 .. n : m + k \in ErrorsOf(c) <=> k \in ErrorsOf(t)
        /\ \A k \in 1 .. n : m + k \in WarningsOf(c) <=> k \in WarningsOf(t)
    BY <1>1, <1>2 DEF ErrorsOf, WarningsOf
  <1>8. Cardinality(ErrorsOf(c)) = Cardinality(ErrorsOf(s)) + Cardinality(ErrorsOf(t))
    <2> DEFINE A == ErrorsOf(s)
               B == ErrorsOf(t)
               C == ErrorsOf(c)
    <2>1. Shifted(m, n, A, B, C)
      BY <1>1, <1>4, <1>5, <1>6 DEF Shifted
    <2> HIDE DEF A, B, C
    <2>3. Cardinality(C) = Cardinality(A) + Cardinality(B)
      BY <2>1, CountShifted
    <2> QED BY <2>3 DEF A, B, C
  <1>9. Cardinality(WarningsOf(c)) = Cardinality(WarningsOf(s)) + Cardinality(WarningsOf(t))
    <2> DEFINE A == WarningsOf(s)
               B == WarningsOf(t)
               C == WarningsOf(c)
    <2>1. Shifted(m, n, A, B, C)
      BY <1>1, <1>4, <1>5, <1>6 DEF Shifted
    <2> HIDE DEF A, B, C
    <2>3. Cardinality(C) = Cardinality(A) + Cardinality(B)
      BY <2>1, CountShifted
    <2> QED BY <2>3 DEF A, B, C
  <1> QED BY <1>8, <1>9 DEF c

(* They can be counted.                                                    *)
LEMMA CountType ==
  ASSUME NEW S, NEW s \in Seq(S)
  PROVE  /\ Cardinality(ErrorsOf(s)) \in Nat /\ Cardinality(WarningsOf(s)) \in Nat
         /\ Cardinality(ErrorsOf(s)) > 0 <=> ErrorsOf(s) # {}
  <1>1. IsFiniteSet(1 .. Len(s)) /\ DOMAIN s = 1 .. Len(s)
    BY FS_Interval
  <1>2. IsFiniteSet(ErrorsOf(s)) /\ IsFiniteSet(WarningsOf(s))
    BY <1>1, FS_Subset DEF ErrorsOf, WarningsOf
  <1>3. Cardinality(ErrorsOf(s)) = 0 <=> ErrorsOf(s) = {}
    BY <1>2, FS_EmptySet
  <1>4. Cardinality(ErrorsOf(s)) \in Nat /\ Cardinality(WarningsOf(s)) \in Nat
    BY <1>2, FS_CardinalityType
  <1> QED BY <1>3, <1>4

(* What is printed of the messages of a stage.                             *)
LEMMA Printed ==
  ASSUME NEW ms \in Notes
  PROVE  /\ UpToFatal(ms) \in Notes
         /\ ~Fatal(ms) => UpToFatal(ms) = ms
         /\ Fatal(ms) => Fatal(UpToFatal(ms))
         /\ Fatal(UpToFatal(ms)) => /\ Fatal(ms) /\ Len(UpToFatal(ms)) > 0
                                    /\ FatalsOf(UpToFatal(ms)) = {Len(UpToFatal(ms))}
         /\ \A c : Tells(UpToFatal(ms), c) => Tells(ms, c)
  <1> DEFINE S == [level : DOMAIN Rank, code : Codes, tag : {i}]
             u == UpToFatal(ms)
             n == Min(FatalsOf(ms))
  <1>1. ms \in Seq(S)
    BY DEF Notes
  <1>2. CASE ~Fatal(ms)
    BY <1>2 DEF UpToFatal
  <1>3. CASE Fatal(ms)
    <2>1. FatalsOf(ms) \in SUBSET Nat /\ FatalsOf(ms) # {}
      <3> HIDE DEF S
      <3> QED BY <1>1, <1>3 DEF Fatal, FatalsOf
    <2>2. n \in FatalsOf(ms) /\ \A k \in FatalsOf(ms) : n <= k
      BY <2>1, MinFacts
    <2>3. u = SubSeq(ms, 1, n)
      BY <1>3 DEF UpToFatal
    <2> HIDE DEF S, n, u
    <2>4. n \in 1 .. Len(ms) /\ IsFatal(ms[n]) /\ \A k \in 1 .. n - 1 : ~IsFatal(ms[k])
      <3>1. n \in 1 .. Len(ms) /\ IsFatal(ms[n]) /\ Len(ms) \in Nat
        BY <1>1, <2>2 DEF FatalsOf
      <3>2. ASSUME NEW k \in 1 .. n - 1, IsFatal(ms[k]) PROVE FALSE
        <4>1. k \in DOMAIN ms /\ ~(n <= k)
          BY <1>1, <3>1
        <4> QED BY <2>2, <3>2, <4>1 DEF FatalsOf
      <3> QED BY <3>1, <3>2
    <2>5. /\ u \in Seq(S) /\ Len(u) = n /\ DOMAIN u = 1 .. n
          /\ \A k \in 1 .. n : u[k] = ms[k]
      BY <1>1, <2>3, <2>4
    <2>6. FatalsOf(u) = {n}
      BY <2>4, <2>5 DEF FatalsOf
    <2>7. \A c : Tells(u, c) => Tells(ms, c)
      BY <1>1, <2>4, <2>5 DEF Tells
    <2>8. u \in Notes
      BY <2>5 DEF Notes, S
    <2> QED BY <1>3, <2>4, <2>5, <2>6, <2>7, <2>8 DEF Fatal, u
  <1> QED BY <1>2, <1>3

(* What is known of a file does not change while the file does not.        *)
LEMMA FileFrame ==
  ASSUME file' = file
  PROVE  /\ \A k, type : Until(k, type)' = Until(k, type)
         /\ \A k, type : FilledUntil(k, type)' = FilledUntil(k, type)
         /\ \A k : TimeAt(k)' = TimeAt(k)
         /\ \A k : ApartAt(k)' <=> ApartAt(k)
         /\ \A k : PrevTime(k)' = PrevTime(k)
         /\ \A k : Filled(k)' = Filled(k)
         /\ \A k : LastBefore(k)' = LastBefore(k)
         /\ \A ks : MetaDataOf(ks)' = MetaDataOf(ks)
         /\ End' = End
  <1>1. \A k, type : Until(k, type)' = Until(k, type)
    BY DEF Until
  <1>2. \A k, type : FilledUntil(k, type)' = FilledUntil(k, type)
    BY DEF FilledUntil, Until
  <1>3. \A k : TimeAt(k)' = TimeAt(k)
    BY DEF TimeAt
  <1>4. \A k : ApartAt(k)' <=> ApartAt(k)
    BY Zenon DEF ApartAt, Until, Apart, Distance
  <1>5. \A k : PrevTime(k)' = PrevTime(k)
    BY DEF PrevTime, Before
  <1>6. \A k : Filled(k)' = Filled(k)
    BY DEF Filled, Before
  <1>7. \A k : LastBefore(k)' = LastBefore(k)
    BY DEF LastBefore, Filled, Before
  <1>8. \A ks : MetaDataOf(ks)' = MetaDataOf(ks)
    BY DEF MetaDataOf
  <1>9. End' = End
    BY DEF End
  <1> QED BY <1>1, <1>2, <1>3, <1>4, <1>5, <1>6, <1>7, <1>8, <1>9

(* Messages of a stage can be added to the report, and are about the tag   *)
(* read next.                                                              *)
LEMMA NotesMessages ==
  ASSUME TypeOK, NEW ms \in Notes
  PROVE  /\ ms \in Seq(Messages)
         /\ \A k \in DOMAIN ms : ms[k].tag = i
  <1> DEFINE S == [level : DOMAIN Rank, code : Codes, tag : {i}]
  <1>1. S \subseteq Messages /\ \A m \in S : m.tag = i
    BY DEF Messages, TypeOK
  <1>2. ms \in Seq(S)
    BY DEF Notes
  <1> HIDE DEF S, Messages
  <1> QED BY <1>1, <1>2

(* What a stage adds to the report and to the totals.                      *)
LEMMA Reported ==
  ASSUME TypeOK, TotalsInv, FatalInv, pc \notin {"END", "DONE"}, opts' = opts,
         NEW ms \in Notes, Report(UpToFatal(ms))
  PROVE  /\ report' \in Seq(Messages) /\ errors' \in Nat /\ warnings' \in Nat
         /\ ~opts.quiet => /\ errors' = Cardinality(ErrorsOf(report'))
                           /\ warnings' = Cardinality(WarningsOf(report'))
         /\ \A k \in DOMAIN report' :
              \/ k \in DOMAIN report /\ report'[k] = report[k]
              \/ ~opts.quiet /\ report'[k].tag = i /\ Tells(ms, report'[k].code)
         /\ \A c : \A k : k \in About(c)' =>
                     k \in About(c) \/ (~opts.quiet /\ k = i /\ Tells(ms, c))
         /\ \A c : \A k : k \in About(c) => k \in About(c)'
         /\ ~opts.quiet /\ ~Fatal(ms) => \A c : Tells(ms, c) => i \in About(c)'
         /\ ~opts.quiet /\ ~Fatal(ms) => ~Fatal(report')
         /\ ~opts.quiet /\ Fatal(ms) =>
              /\ FatalsOf(report') = {Len(report')} /\ Fatal(report')
              /\ report' # <<>> /\ IsFatal(report'[Len(report')])
  <1> DEFINE u == UpToFatal(ms)
             r == report \o u
  <1>1. /\ u \in Notes
        /\ ~Fatal(ms) => u = ms
        /\ Fatal(ms) => Fatal(u)
        /\ Fatal(u) => Fatal(ms) /\ Len(u) > 0 /\ FatalsOf(u) = {Len(u)}
        /\ \A c : Tells(u, c) => Tells(ms, c)
    BY Printed
  <1> HIDE DEF u
  <1>2. u \in Seq(Messages) /\ report \in Seq(Messages) /\ \A k \in DOMAIN u : u[k].tag = i
    BY <1>1, NotesMessages DEF TypeOK
  <1>3. /\ report' = IF opts.quiet THEN report ELSE r
        /\ errors' = errors + Cardinality(ErrorsOf(u))
        /\ warnings' = warnings + Cardinality(WarningsOf(u))
    BY DEF Report, u
  <1>4. /\ Cardinality(ErrorsOf(u)) \in Nat /\ Cardinality(WarningsOf(u)) \in Nat
    BY <1>2, CountType
  <1>5. /\ Cardinality(ErrorsOf(r)) = Cardinality(ErrorsOf(report)) + Cardinality(ErrorsOf(u))
        /\ Cardinality(WarningsOf(r))
             = Cardinality(WarningsOf(report)) + Cardinality(WarningsOf(u))
    BY <1>2, CountJoin
  <1>6. /\ r \in Seq(Messages) /\ DOMAIN u = 1 .. Len(u) /\ DOMAIN report = 1 .. Len(report)
        /\ Len(u) \in Nat /\ Len(report) \in Nat
        /\ Len(r) = Len(report) + Len(u) /\ DOMAIN r = 1 .. Len(r)
    BY <1>2, ConcatFacts
  <1>7. /\ \A k \in DOMAIN r : \/ k \in DOMAIN report /\ r[k] = report[k]
                              \/ \E n \in DOMAIN u : k = Len(report) + n /\ r[k] = u[n]
        /\ \A k \in DOMAIN report : k \in DOMAIN r /\ r[k] = report[k]
        /\ \A k \in DOMAIN u : Len(report) + k \in DOMAIN r /\ r[Len(report) + k] = u[k]
    BY <1>2, ConcatElements
  <1> HIDE DEF r
  <1>8. report' \in Seq(Messages) /\ errors' \in Nat /\ warnings' \in Nat
    BY <1>2, <1>3, <1>4, <1>6 DEF TypeOK
  <1>9. ~opts.quiet => /\ errors' = Cardinality(ErrorsOf(report'))
                       /\ warnings' = Cardinality(WarningsOf(report'))
    BY <1>3, <1>5 DEF TotalsInv
  <1>10. \A k \in DOMAIN report' :
              \/ k \in DOMAIN report /\ report'[k] = report[k]
              \/ ~opts.quiet /\ report'[k].tag = i /\ Tells(ms, report'[k].code)
    <2>1. \A n \in DOMAIN u : Tells(ms, u[n].code)
      BY <1>1 DEF Tells
    <2> QED BY <1>2, <1>3, <1>7, <2>1
  <1>11. \A c : \A k : k \in About(c)' =>
                     k \in About(c) \/ (~opts.quiet /\ k = i /\ Tells(ms, c))
    BY <1>10 DEF About
  <1>12. \A c : \A k : k \in About(c) => k \in About(c)'
    BY <1>3, <1>7 DEF About
  <1>13. ~opts.quiet /\ ~Fatal(ms) => \A c : Tells(ms, c) => i \in About(c)'
    <2> SUFFICES ASSUME ~opts.quiet, ~Fatal(ms), NEW c, Tells(ms, c) PROVE i \in About(c)'
      OBVIOUS
    <2>1. PICK k \in DOMAIN u : u[k].code = c
      BY <1>1 DEF Tells
    <2>2. Len(report) + k \in DOMAIN report' /\ report'[Len(report) + k] = u[k]
      BY <1>3, <1>7
    <2> QED BY <1>2, <2>1, <2>2 DEF About
  <1>14. ~opts.quiet => ~Fatal(report)
    BY DEF FatalInv
  <1>15. ~opts.quiet /\ ~Fatal(ms) => ~Fatal(report')
    BY <1>1, <1>3, <1>7, <1>14 DEF Fatal, FatalsOf
  <1>16. ~opts.quiet /\ Fatal(ms) =>
              /\ FatalsOf(report') = {Len(report')} /\ Fatal(report')
              /\ report' # <<>> /\ IsFatal(report'[Len(report')])
    <2> SUFFICES ASSUME ~opts.quiet, Fatal(ms)
                 PROVE  /\ FatalsOf(r) = {Len(r)} /\ Fatal(r)
                        /\ r # <<>> /\ IsFatal(r[Len(r)])
      BY <1>3
    <2>1. FatalsOf(u) = {Len(u)} /\ Len(u) > 0
      BY <1>1
    <2>2. /\ Len(u) \in DOMAIN u /\ IsFatal(u[Len(u)])
          /\ \A k \in DOMAIN u : IsFatal(u[k]) => k = Len(u)
      BY <1>6, <2>1 DEF FatalsOf
    <2>3. Len(r) \in DOMAIN r /\ r[Len(r)] = u[Len(u)]
      BY <1>6, <1>7, <2>2
    <2>4. \A k \in DOMAIN r : IsFatal(r[k]) => k = Len(r)
      BY <1>6, <1>7, <1>14, <2>2 DEF Fatal, FatalsOf
    <2>5. FatalsOf(r) = {Len(r)}
      BY <2>2, <2>3, <2>4 DEF FatalsOf
    <2> QED BY <1>6, <2>2, <2>3, <2>5 DEF Fatal
  <1> QED BY <1>8, <1>9, <1>10, <1>11, <1>12, <1>13, <1>15, <1>16

----------------------------------------------------------------------------
(* The stages.                                                             *)

(* What is known of the tags read depends on them and on i alone.          *)
LEMMA SeenFrame ==
  ASSUME SeenInv, file' = file, i' = i, tagVars' = tagVars
  PROVE  SeenInv'
  <1>1. /\ have' = have /\ last' = last /\ prevOf' = prevOf /\ desync' = desync
        /\ unknowns' = unknowns
    BY DEF tagVars
  <1>2. have' = {type \in AV : Until(i - 1, type)' # {}}
    BY <1>1 DEF SeenInv, Until
  <1>4. (last = [type \in AV |-> TimeAt(LastOf(Until(i - 1, type)))])'
    BY <1>1, Zenon DEF SeenInv, Until, TimeAt, LastOf
  <1>5. (prevOf = [type \in AV |-> LastOf(FilledUntil(i - 1, type))])'
    BY <1>1, Zenon DEF SeenInv, FilledUntil, Until, LastOf
  <1>6. (desync <=> \E j \in Checked : ApartAt(j))'
    <2>1. \A j : ApartAt(j)' <=> ApartAt(j)
      BY FileFrame
    <2>2. Checked' = Checked
      BY DEF Checked
    <2>3. desync <=> \E j \in Checked : ApartAt(j)
      BY DEF SeenInv
    <2> QED BY <1>1, <2>1, <2>2, <2>3
  <1>7. (unknowns = IF i > 1 /\ file.tags[i - 1].type = "OTHER" THEN 1 ELSE 0)'
    BY <1>1 DEF SeenInv
  <1> QED BY <1>2, <1>4, <1>5, <1>6, <1>7 DEF SeenInv

(* A stage that reads no tag, and the stage of a tag that stops the check, *)
(* leave what has been seen as it is, and add nothing the properties look  *)
(* for except about two unknown tags in a row.                             *)
LEMMA StageStep ==
  ASSUME ReportInv, NEW from, NEW to, NEW ms \in Notes, Stage(from, ms, to),
         UNCHANGED <<file, opts, i, tagVars, result>>,
         info' \in [known : BOOLEAN, has : SUBSET AV, sized : BOOLEAN],
         from \in {"HEADER", "TAGS", "FINAL", "METADATA", "GLOBAL"},
         to \in {"TAGS", "FINAL", "METADATA", "GLOBAL", "END"},
         to = "TAGS" \/ Fatal(ms) \/ i = End,
         to = "TAGS" => from = "HEADER",
         to = "METADATA" => onMetaData # 0,
         \/ \A c \in TagCodes : ~Tells(ms, c)
         \/ /\ Fatal(ms)
            /\ Tells(ms, "CONSECUTIVE_UNKNOWN_TAGS") =>
                 /\ i > 1 /\ file.tags[i - 1].type = "OTHER" /\ file.tags[i].type = "OTHER"
  PROVE  ReportInv'
  <1>1. /\ TypeOK /\ TotalsInv /\ FatalInv /\ SeenInv /\ AboutInv /\ FatalEnds
        /\ DecreaseReported /\ FormatsCompared /\ DesyncOnce /\ FirstMetaDataChecked
    BY DEF ReportInv
  <1>2. /\ pc = from /\ Report(UpToFatal(ms)) /\ pc' = IF Fatal(ms) THEN "END" ELSE to
        /\ pc \notin {"OPEN", "END", "DONE"} /\ ~Finished /\ ~Ended
    BY DEF Stage, Finished, Ended
  <1>3. /\ report' \in Seq(Messages) /\ errors' \in Nat /\ warnings' \in Nat
        /\ ~opts.quiet => /\ errors' = Cardinality(ErrorsOf(report'))
                          /\ warnings' = Cardinality(WarningsOf(report'))
        /\ \A k \in DOMAIN report' :
              \/ k \in DOMAIN report /\ report'[k] = report[k]
              \/ ~opts.quiet /\ report'[k].tag = i /\ Tells(ms, report'[k].code)
        /\ \A c : \A k : k \in About(c)' =>
                    k \in About(c) \/ (~opts.quiet /\ k = i /\ Tells(ms, c))
        /\ \A c : \A k : k \in About(c) => k \in About(c)'
        /\ ~opts.quiet /\ ~Fatal(ms) => ~Fatal(report')
        /\ ~opts.quiet /\ Fatal(ms) =>
              /\ FatalsOf(report') = {Len(report')} /\ Fatal(report')
              /\ report' # <<>> /\ IsFatal(report'[Len(report')])
    BY <1>1, <1>2, Reported
  <1>4. TypeOK'
    BY <1>1, <1>2, <1>3 DEF TypeOK, tagVars, End
  <1>5. ~Finished' /\ (Ended' <=> pc' = "END") /\ End' = End /\ Checked' = Checked
        /\ (opts.quiet)' = opts.quiet
    BY <1>2 DEF Finished, Ended, End, Checked
  <1>6. TotalsInv'
    BY <1>3, <1>5 DEF TotalsInv
  <1>7. FatalInv'
    <2>1. (pc' = "OPEN" => i' = 1 /\ report' = <<>>) /\
          (pc' \in {"FINAL", "METADATA", "GLOBAL"} => i' = End') /\
          (pc' = "METADATA" => onMetaData' # 0)
      BY <1>2, <1>5 DEF tagVars
    <2>2. ~opts.quiet =>
            /\ Ended' => i = End \/ (report' # <<>> /\ IsFatal(report'[Len(report')]))
            /\ Fatal(report') => pc' \in {"END", "DONE"} /\ FatalsOf(report') = {Len(report')}
      BY <1>2, <1>3, <1>5
    <2>3. Fatal(report)' <=> Fatal(report')
      BY DEF Fatal, FatalsOf
    <2>4. FatalsOf(report)' = FatalsOf(report')
      BY DEF FatalsOf
    <2> QED BY <1>5, <2>1, <2>2, <2>3, <2>4 DEF FatalInv, IsFatal
  <1>8. SeenInv'
    BY <1>1, SeenFrame
  <1>9. i \notin Checked
    BY <1>1 DEF Checked, TypeOK
  <1>10. \A c \in TagCodes : \A k \in Checked : k \in About(c)' <=> k \in About(c)
    BY <1>3, <1>9
  <1>11. TagCodes = {
          "CONSECUTIVE_UNKNOWN_TAGS", "TIMESTAMP_AUDIO_DECREASE", "TIMESTAMP_VIDEO_DECREASE",
          "TIMESTAMP_DESYNC", "AUDIO_FORMAT_CHANGED", "VIDEO_FORMAT_CHANGED",
          "VIDEO_NO_FIRST_KEYFRAME", "METADATA_DUPLICATE"}
    BY DEF TagCodes
  <1>12. \A l : Prints(l)' <=> Prints(l)
    BY DEF Prints, Shown
  <1>13. AboutInv'
    <2> SUFFICES ASSUME InTags', NEW k \in DOMAIN report', report'[k].tag >= i'
                 PROVE  report'[k].code \notin TagCodes
      BY DEF AboutInv
    <2>1. pc' = "TAGS" /\ ~Fatal(ms) /\ pc = "HEADER"
      BY <1>2 DEF InTags
    <2>2. \A c \in TagCodes : ~Tells(ms, c)
      BY <2>1
    <2>3. CASE k \in DOMAIN report /\ report'[k] = report[k]
      BY <1>1, <2>1, <2>3 DEF AboutInv, InTags
    <2>4. CASE Tells(ms, report'[k].code)
      BY <2>2, <2>4
    <2> QED BY <1>3, <2>3, <2>4
  <1>14. FatalEnds'
    <2> DEFINE other(k) == file.tags[k].type = "OTHER"
    <2>1. \A k \in Checked : k > 1 => ~(other(k - 1) /\ other(k))
      BY <1>1 DEF FatalEnds
    <2>2. \A k \in About("CONSECUTIVE_UNKNOWN_TAGS") : k > 1 /\ other(k - 1) /\ other(k)
      BY <1>1 DEF FatalEnds
    <2>3. \A k \in About("CONSECUTIVE_UNKNOWN_TAGS")' : k > 1 /\ other(k - 1) /\ other(k)
      BY <1>3, <1>11, <2>2
    <2>4. ~opts.quiet => \A k \in DOMAIN report' :
             IsFatal(report'[k]) => k = Len(report') /\ pc' \in {"END", "DONE"}
      BY <1>2, <1>3 DEF Fatal, FatalsOf
    <2> QED BY <1>5, <2>1, <2>3, <2>4 DEF FatalEnds, IsFatal
  <1>15. DecreaseReported'
    <2>1. \A k : PrevTime(k)' = PrevTime(k)
      BY FileFrame
    <2> QED BY <1>1, <1>5, <1>10, <1>11, <1>12, <2>1 DEF DecreaseReported
  <1>16. FormatsCompared'
    <2>1. /\ \A k : Filled(k)' = Filled(k)
          /\ \A k : LastBefore(k)' = LastBefore(k)
      BY FileFrame
    <2> QED BY <1>1, <1>5, <1>10, <1>11, <1>12, <2>1 DEF FormatsCompared
  <1>17. DesyncOnce'
    <2>1. \A k : ApartAt(k)' <=> ApartAt(k)
      BY FileFrame
    <2> QED BY <1>1, <1>5, <1>10, <1>11, <1>12, <2>1 DEF DesyncOnce
  <1>18. FirstMetaDataChecked'
    <2>1. \A ks : MetaDataOf(ks)' = MetaDataOf(ks)
      BY FileFrame
    <2>2. onMetaData' = onMetaData
      BY DEF tagVars
    <2>3. (onMetaData = IF MetaDataOf(Checked) = {} THEN 0 ELSE Min(MetaDataOf(Checked)))'
      BY <1>1, <2>2 DEF FirstMetaDataChecked, MetaDataOf, Checked
    <2>4. pc' # "END" => ~Fatal(ms)
      BY <1>2
    <2>5. ~Fatal(ms) => About("METADATA_DUPLICATE")' = About("METADATA_DUPLICATE")
      BY <1>3, <1>11
    <2>6. pc # "END" /\ ~Finished
      BY <1>2
    <2> QED BY <1>1, <1>5, <1>12, <2>1, <2>2, <2>3, <2>4, <2>5, <2>6 DEF FirstMetaDataChecked
  <1> QED BY <1>4, <1>6, <1>7, <1>8, <1>13, <1>14, <1>15, <1>16, <1>17, <1>18 DEF ReportInv

(* The invariant holds before the file is opened.                          *)
LEMMA CheckInit == Init => ReportInv
  <1> SUFFICES ASSUME Init PROVE ReportInv
    OBVIOUS
  <1>1. IsFile(file) /\ IsCheckOptions(opts)
    BY CheckInputs DEF Init
  <1>2. End \in Nat \ {0} /\ Checked = {} /\ i = 1
    BY <1>1 DEF Init, IsFile, End, Checked
  <1>3. TypeOK
    <2>1. TsRange \in Nat \ {0}
      BY CheckSizes DEF TsRange
    <2>2. report \in Seq(Messages) /\ info \in [known : BOOLEAN, has : SUBSET AV, sized : BOOLEAN]
      BY DEF Init, NoInfo
    <2>3. /\ last \in [AV -> 0 .. TsRange - 1] /\ prevOf \in [AV -> 0 .. i - 1]
          /\ have \subseteq AV
      BY <1>2, <2>1 DEF Init
    <2>4. lastTime \in 0 .. TsRange - 1
      BY <2>1 DEF Init
    <2>5. errors \in Nat /\ warnings \in Nat /\ i \in 1 .. End
      BY <1>2 DEF Init
    <2>7. desync \in BOOLEAN
      BY DEF Init
    <2>6. /\ onMetaData \in 0 .. i - 1 /\ onLastSecond \in 0 .. i - 1 /\ unknowns \in 0 .. 1
          /\ frames \in 0 .. i - 1 /\ keyframes \in 0 .. frames
      BY <1>2 DEF Init
    <2> QED BY <1>1, <2>2, <2>3, <2>4, <2>5, <2>6, <2>7 DEF TypeOK, Init
  <1>4. DOMAIN report = {} /\ ErrorsOf(report) = {} /\ WarningsOf(report) = {}
        /\ FatalsOf(report) = {}
    BY DEF Init, ErrorsOf, WarningsOf, FatalsOf
  <1>5. TotalsInv
    <2>1. Cardinality(ErrorsOf(report)) = 0 /\ Cardinality(WarningsOf(report)) = 0
      BY <1>4, FS_EmptySet
    <2> QED BY <2>1 DEF TotalsInv, Init, Finished
  <1>6. FatalInv
    BY <1>4 DEF FatalInv, Init, Ended, Finished, Fatal
  <1>7. SeenInv
    <2>1. \A type : Until(i - 1, type) = {} /\ FilledUntil(i - 1, type) = {}
      BY <1>2 DEF Until, FilledUntil
    <2>2. TimeAt(0) = 0 /\ LastOf({}) = 0
      BY DEF TimeAt, LastOf
    <2>3. have = {type \in AV : Until(i - 1, type) # {}}
      BY <2>1 DEF Init
    <2>4. last = [type \in AV |-> TimeAt(LastOf(Until(i - 1, type)))]
      BY <2>1, <2>2 DEF Init
    <2>5. prevOf = [type \in AV |-> LastOf(FilledUntil(i - 1, type))]
      BY <2>1, <2>2 DEF Init
    <2>6. /\ desync <=> \E j \in Checked : ApartAt(j)
          /\ unknowns = IF i > 1 /\ file.tags[i - 1].type = "OTHER" THEN 1 ELSE 0
      BY <1>2 DEF Init
    <2> QED BY <2>3, <2>4, <2>5, <2>6 DEF SeenInv
  <1>8. AboutInv
    BY <1>4 DEF AboutInv
  <1>9. \A c : About(c) = {}
    BY <1>4 DEF About
  <1>10. FatalEnds
    BY <1>2, <1>4, <1>9 DEF FatalEnds, Init, Finished
  <1>11. DecreaseReported /\ FormatsCompared /\ DesyncOnce
    BY <1>2 DEF DecreaseReported, FormatsCompared, DesyncOnce
  <1>12. FirstMetaDataChecked
    <2>1. MetaDataOf(Checked) = {}
      BY <1>2 DEF MetaDataOf
    <2> QED BY <1>9, <2>1 DEF FirstMetaDataChecked, Init
  <1> QED BY <1>3, <1>5, <1>6, <1>7, <1>8, <1>10, <1>11, <1>12 DEF ReportInv

(* A step that prints nothing.                                             *)
LEMMA SilentStep ==
  ASSUME ReportInv, UNCHANGED <<file, opts, i, report, errors, warnings, tagVars, info>>,
         pc' = pc \/ pc' = "DONE" \/ (pc = "OPEN" /\ pc' = "HEADER"),
         result' \in {"NONE", "OK", "ERROR_OPEN_READ", "ERROR_INVALID_FLV_FILE"},
         Finished' => result' = IF errors > 0 THEN "ERROR_INVALID_FLV_FILE" ELSE "OK",
         Ended' <=> Ended, pc \in {"END", "DONE"} => pc' \in {"END", "DONE"}
  PROVE  ReportInv'
  <1>1. /\ TypeOK /\ TotalsInv /\ FatalInv /\ SeenInv /\ AboutInv /\ FatalEnds
        /\ DecreaseReported /\ FormatsCompared /\ DesyncOnce /\ FirstMetaDataChecked
    BY DEF ReportInv
  <1>2. End' = End /\ Checked' = Checked /\ (opts.quiet)' = opts.quiet
        /\ (\A l : Prints(l)' <=> Prints(l)) /\ (\A c : About(c)' = About(c))
    BY DEF End, Checked, Prints, Shown, About
  <1>3. TypeOK'
    BY <1>1, <1>2 DEF TypeOK, tagVars
  <1>4. TotalsInv'
    BY <1>1, <1>2 DEF TotalsInv, ErrorsOf, WarningsOf, IsError, IsWarning
  <1>5. FatalsOf(report)' = FatalsOf(report) /\ (Fatal(report)' <=> Fatal(report))
    BY DEF FatalsOf, Fatal, IsFatal
  <1>6. FatalInv'
    <2>1. /\ pc' = "OPEN" => pc = "OPEN"
          /\ pc' \in {"FINAL", "METADATA", "GLOBAL"} => pc' = pc
          /\ i' = i /\ report' = report /\ onMetaData' = onMetaData
      BY DEF tagVars
    <2>2. /\ (pc = "OPEN" => i = 1 /\ report = <<>>)'
          /\ (pc \in {"FINAL", "METADATA", "GLOBAL"} => i = End)'
          /\ (pc = "METADATA" => onMetaData # 0)'
      BY <1>1, <1>2, <2>1 DEF FatalInv
    <2>3. IsFatal(report[Len(report)])' <=> IsFatal(report[Len(report)])
      BY <2>1 DEF IsFatal
    <2>4. ~opts'.quiet => (Ended => i = End \/ (report # <<>> /\ IsFatal(report[Len(report)])))'
      BY <1>1, <1>2, <2>1, <2>3 DEF FatalInv
    <2>5. ~opts'.quiet =>
            (Fatal(report) => pc \in {"END", "DONE"} /\ FatalsOf(report) = {Len(report)})'
      BY <1>1, <1>2, <1>5, <2>1 DEF FatalInv
    <2> HIDE DEF Ended, Fatal
    <2> QED BY <2>2, <2>4, <2>5 DEF FatalInv
  <1>7. SeenInv'
    BY <1>1, SeenFrame
  <1>8. AboutInv'
    BY <1>1 DEF AboutInv, InTags
  <1>9. FatalEnds'
    BY <1>1, <1>2, <1>6 DEF FatalEnds, FatalInv, Ended, IsFatal
  <1>10. DecreaseReported'
    <2>1. \A k : PrevTime(k)' = PrevTime(k)
      BY FileFrame
    <2> QED BY <1>1, <1>2, <2>1 DEF DecreaseReported
  <1>11. FormatsCompared'
    <2>1. /\ \A k : Filled(k)' = Filled(k)
          /\ \A k : LastBefore(k)' = LastBefore(k)
      BY FileFrame
    <2> QED BY <1>1, <1>2, <2>1 DEF FormatsCompared
  <1>12. DesyncOnce'
    <2>1. \A k : ApartAt(k)' <=> ApartAt(k)
      BY FileFrame
    <2> QED BY <1>1, <1>2, <2>1 DEF DesyncOnce
  <1>13. FirstMetaDataChecked'
    <2>1. \A ks : MetaDataOf(ks)' = MetaDataOf(ks)
      BY FileFrame
    <2>2. onMetaData' = onMetaData
      BY DEF tagVars
    <2>3. (onMetaData = IF MetaDataOf(Checked) = {} THEN 0 ELSE Min(MetaDataOf(Checked)))'
      BY <1>1, <2>2 DEF FirstMetaDataChecked, MetaDataOf, Checked
    <2>4. pc' # "END" /\ ~Finished' => pc # "END" /\ ~Finished
      BY DEF Ended
    <2> QED BY <1>1, <1>2, <2>1, <2>2, <2>3, <2>4 DEF FirstMetaDataChecked
  <1> QED BY <1>3, <1>4, <1>6, <1>7, <1>8, <1>9, <1>10, <1>11, <1>12, <1>13 DEF ReportInv

(* The steps one by one: opening the file,                                 *)
LEMMA OpenStep == ASSUME ReportInv, OpenFile PROVE ReportInv'
  <1>1. result \in {"NONE", "OK", "ERROR_OPEN_READ", "ERROR_INVALID_FLV_FILE"}
    BY DEF ReportInv, TypeOK
  <1> QED BY <1>1, SilentStep DEF OpenFile, Finished, Ended

(* the end of the report,                                                  *)
LEMMA FinishStep == ASSUME ReportInv, Finish PROVE ReportInv'
  BY SilentStep DEF Finish, Finished, Ended

(* no step at all,                                                         *)
LEMMA StutterStep == ASSUME ReportInv, UNCHANGED vars PROVE ReportInv'
  <1>1. /\ file' = file /\ opts' = opts /\ pc' = pc /\ i' = i /\ report' = report
        /\ errors' = errors /\ warnings' = warnings /\ tagVars' = tagVars
        /\ info' = info /\ result' = result
    BY DEF vars
  <1>2. TypeOK /\ TotalsInv
    BY DEF ReportInv
  <1>3. /\ result \in {"NONE", "OK", "ERROR_OPEN_READ", "ERROR_INVALID_FLV_FILE"}
        /\ Finished => result = IF errors > 0 THEN "ERROR_INVALID_FLV_FILE" ELSE "OK"
    BY <1>2 DEF TypeOK, TotalsInv
  <1>4. (Finished' <=> Finished) /\ (Ended' <=> Ended)
    BY <1>1 DEF Finished, Ended
  <1> QED BY <1>1, <1>3, <1>4, SilentStep

(* the header,                                                             *)
LEMMA HeaderStep == ASSUME ReportInv, CheckHeader PROVE ReportInv'
  <1>1. HeaderMessages \in Notes /\ \A c \in TagCodes : ~Tells(HeaderMessages, c)
    BY HeaderOthers, OthersNotes
  <1>2. info \in [known : BOOLEAN, has : SUBSET AV, sized : BOOLEAN]
    BY DEF ReportInv, TypeOK
  <1> QED BY <1>1, <1>2, StageStep DEF CheckHeader

(* the end of the tags,                                                    *)
LEMMA EndStep == ASSUME ReportInv, EndOfTags PROVE ReportInv'
  <1> DEFINE ms == Found(file.tail > 0, "FATAL", "TAG_EOF")
  <1>1. ms \in Notes /\ \A c \in TagCodes : ~Tells(ms, c)
    BY EndOthers, OthersNotes
  <1>2. info \in [known : BOOLEAN, has : SUBSET AV, sized : BOOLEAN]
    BY DEF ReportInv, TypeOK
  <1>3. Stage("TAGS", ms, "FINAL") /\ i = End
        /\ UNCHANGED <<file, opts, i, tagVars, info, result>>
    BY DEF EndOfTags
  <1> HIDE DEF ms
  <1> QED BY <1>1, <1>2, <1>3, StageStep

(* the file as a whole,                                                    *)
LEMMA WholeStep == ASSUME ReportInv, CheckWhole PROVE ReportInv'
  <1>1. FinalMessages \in Notes /\ \A c \in TagCodes : ~Tells(FinalMessages, c)
    BY FinalOthers, OthersNotes
  <1>2. info' \in [known : BOOLEAN, has : SUBSET AV, sized : BOOLEAN]
    <2>1. InfoHas \in SUBSET AV /\ InfoSized \in BOOLEAN
      BY DEF InfoHas, InfoSized, SizedBy
    <2> QED BY <2>1 DEF CheckWhole, ReportInv, TypeOK
  <1>3. i = End
    BY DEF CheckWhole, Stage, ReportInv, FatalInv
  <1> DEFINE to == IF onMetaData = 0 THEN "GLOBAL" ELSE "METADATA"
  <1>4. Stage("FINAL", FinalMessages, to) /\ UNCHANGED <<file, opts, i, tagVars, result>>
        /\ to \in {"GLOBAL", "METADATA"} /\ (to = "METADATA" => onMetaData # 0)
    BY DEF CheckWhole
  <1> HIDE DEF to
  <1> QED BY <1>1, <1>2, <1>3, <1>4, StageStep

(* the first onMetaData,                                                   *)
LEMMA MetaDataStep == ASSUME ReportInv, CheckMetaData PROVE ReportInv'
  <1>1. TypeOK /\ onMetaData # 0 /\ i = End
    BY DEF ReportInv, CheckMetaData, Stage, FatalInv
  <1>2. MetaDataMessages \in Notes /\ \A c \in TagCodes : ~Tells(MetaDataMessages, c)
    BY <1>1, MetaDataMild, MildOthers, OthersNotes
  <1>3. info \in [known : BOOLEAN, has : SUBSET AV, sized : BOOLEAN]
    BY <1>1 DEF TypeOK
  <1> QED BY <1>1, <1>2, <1>3, StageStep DEF CheckMetaData

(* what get_flv_info found,                                                *)
LEMMA GlobalStep == ASSUME ReportInv, CheckGlobal PROVE ReportInv'
  <1>1. PICK found \in InfoRead : Stage("GLOBAL", GlobalMessages(found), "END")
    BY DEF CheckGlobal
  <1>2. GlobalMessages(found) \in Notes /\ \A c \in TagCodes : ~Tells(GlobalMessages(found), c)
    BY GlobalOthers, OthersNotes
  <1>3. info \in [known : BOOLEAN, has : SUBSET AV, sized : BOOLEAN]
    BY DEF ReportInv, TypeOK
  <1>4. i = End
    BY <1>1 DEF Stage, ReportInv, FatalInv
  <1> QED BY <1>1, <1>2, <1>3, <1>4, StageStep DEF CheckGlobal

(* and a tag with a fatal message.                                         *)
LEMMA AbortStep == ASSUME ReportInv, AbortTag PROVE ReportInv'
  <1>1. TypeOK /\ SeenInv
    BY DEF ReportInv
  <1>2. TagMessages \in Notes
        /\ (Tells(TagMessages, "CONSECUTIVE_UNKNOWN_TAGS") <=> Is("OTHER") /\ TooManyUnknown)
    BY <1>1, TagSays DEF AbortTag
  <1>3. Is("OTHER") /\ TooManyUnknown =>
          i > 1 /\ file.tags[i - 1].type = "OTHER" /\ file.tags[i].type = "OTHER"
    BY <1>1 DEF TooManyUnknown, SeenInv, Is, Tag
  <1>4. info \in [known : BOOLEAN, has : SUBSET AV, sized : BOOLEAN]
    BY DEF ReportInv, TypeOK
  <1> QED BY <1>2, <1>3, <1>4, StageStep DEF AbortTag

----------------------------------------------------------------------------
(* The step that reads a tag.                                              *)

(* What reading one more tag adds to what has been seen.                   *)
LEMMA MaxMore ==
  ASSUME NEW n \in Nat, NEW S \in SUBSET (1 .. n - 1)
  PROVE  /\ Max(S \union {n}) = n
         /\ S # {} => Max(S) \in S /\ \A k \in S : k <= Max(S)
  <1>1. S \union {n} \in SUBSET Nat /\ n \in S \union {n} /\ \A y \in S \union {n} : y <= n
    OBVIOUS
  <1>2. Max(S \union {n}) = n
    BY <1>1, MaxIs
  <1>3. ASSUME S # {} PROVE Max(S) \in S /\ \A k \in S : k <= Max(S)
    <2> DEFINE T == {n - k : k \in S}
    <2>1. T \in SUBSET Nat /\ T # {}
      <3>1. \A k \in S : n - k \in Nat
        OBVIOUS
      <3> QED BY <1>3, <3>1
    <2> HIDE DEF T
    <2>2. Min(T) \in T /\ \A t \in T : Min(T) <= t
      BY <2>1, MinFacts
    <2>3. PICK m \in S : Min(T) = n - m
      BY <2>2 DEF T
    <2>4. \A k \in S : k <= m
      <3> TAKE k \in S
      <3>1. n - k \in T
        BY DEF T
      <3>2. n - m <= n - k /\ k \in Nat /\ m \in Nat
        BY <2>2, <2>3, <3>1
      <3> QED BY <3>2
    <2>5. Max(S) = m
      BY <2>4, MaxIs
    <2> QED BY <2>4, <2>5
  <1> QED BY <1>2, <1>3

(* A tag that is read is one of the file.                                  *)
LEMMA TagFacts ==
  ASSUME TypeOK, i < End
  PROVE  /\ i \in DOMAIN file.tags /\ i \in Nat /\ i >= 1 /\ i + 1 \in 1 .. End
         /\ Tag.type \in {"AUDIO", "VIDEO", "META", "OTHER"} /\ Tag.body \in Nat
         /\ Tag.time \in 0 .. TsRange - 1 /\ (i + 1) - 1 = i
         /\ Checked = 1 .. i - 1 /\ 1 .. i = (1 .. i - 1) \union {i} /\ i \notin 1 .. i - 1
  <1>1. i \in DOMAIN file.tags /\ i \in Nat /\ i >= 1 /\ i + 1 \in 1 .. End
    BY SMTT(30) DEF TypeOK, IsFile, End
  <1>2. IsTag(Tag)
    BY <1>1 DEF TypeOK, IsFile, Tag
  <1>3. /\ Tag.type \in {"AUDIO", "VIDEO", "META", "OTHER"} /\ Tag.body \in Nat
        /\ Tag.time \in 0 .. TsRange - 1
    BY <1>2 DEF IsTag, AV
  <1>4. /\ (i + 1) - 1 = i /\ Checked = 1 .. i - 1
        /\ 1 .. i = (1 .. i - 1) \union {i} /\ i \notin 1 .. i - 1
    BY <1>1 DEF Checked
  <1> QED BY <1>1, <1>3, <1>4

(* The tags of a medium, once one more has been read.                      *)
LEMMA UntilNext ==
  ASSUME TypeOK, i < End, NEW type
  PROVE  /\ Until(i, type) = Until(i - 1, type) \union {k \in {i} : Is(type)}
         /\ FilledUntil(i, type)
              = FilledUntil(i - 1, type) \union {k \in {i} : Is(type) /\ Tag.body > 0}
         /\ Until(i - 1, type) \in SUBSET (1 .. i - 1)
         /\ FilledUntil(i - 1, type) \in SUBSET (1 .. i - 1)
         /\ LastOf(Until(i, type)) = IF Is(type) THEN i ELSE LastOf(Until(i - 1, type))
         /\ LastOf(FilledUntil(i, type))
              = IF Is(type) /\ Tag.body > 0 THEN i ELSE LastOf(FilledUntil(i - 1, type))
  <1>1. 1 .. i = (1 .. i - 1) \union {i} /\ i \in Nat
    BY TagFacts
  <1>2. Until(i, type) = Until(i - 1, type) \union {k \in {i} : Is(type)}
    BY <1>1 DEF Until, Is, Tag
  <1>3. FilledUntil(i, type)
          = FilledUntil(i - 1, type) \union {k \in {i} : Is(type) /\ Tag.body > 0}
    BY <1>1 DEF FilledUntil, Until, Is, Tag
  <1>4. Until(i - 1, type) \in SUBSET (1 .. i - 1)
        /\ FilledUntil(i - 1, type) \in SUBSET (1 .. i - 1)
    BY DEF Until, FilledUntil
  <1>5. LastOf(Until(i, type)) = IF Is(type) THEN i ELSE LastOf(Until(i - 1, type))
    <2>1. CASE Is(type)
      <3>1. Until(i, type) = Until(i - 1, type) \union {i}
        BY <1>2, <2>1
      <3>2. Max(Until(i - 1, type) \union {i}) = i
        BY <1>1, <1>4, MaxMore
      <3> QED BY <2>1, <3>1, <3>2 DEF LastOf
    <2>2. CASE ~Is(type)
      <3>1. Until(i, type) = Until(i - 1, type)
        BY <1>2, <2>2
      <3> QED BY <2>2, <3>1
    <2> QED BY <2>1, <2>2
  <1>6. LastOf(FilledUntil(i, type))
          = IF Is(type) /\ Tag.body > 0 THEN i ELSE LastOf(FilledUntil(i - 1, type))
    <2>1. CASE Is(type) /\ Tag.body > 0
      <3>1. FilledUntil(i, type) = FilledUntil(i - 1, type) \union {i}
        BY <1>3, <2>1
      <3>2. Max(FilledUntil(i - 1, type) \union {i}) = i
        BY <1>1, <1>4, MaxMore
      <3> QED BY <2>1, <3>1, <3>2 DEF LastOf
    <2>2. CASE ~(Is(type) /\ Tag.body > 0)
      <3>1. FilledUntil(i, type) = FilledUntil(i - 1, type)
        BY <1>3, <2>2
      <3> QED BY <2>2, <3>1
    <2> QED BY <2>1, <2>2
  <1> QED BY <1>2, <1>3, <1>4, <1>5, <1>6

(* The medium's last timestamp is that of the tag before, and the tag a    *)
(* format is compared with is the last of the medium that has a body.      *)
LEMMA TagBefore ==
  ASSUME TypeOK, SeenInv, i < End, Tag.type \in AV
  PROVE  /\ last[Tag.type] = PrevTime(i)
         /\ prevOf[Tag.type] = LastOf(Filled(i))
         /\ (prevOf[Tag.type] > 0 <=> Filled(i) # {})
         /\ Filled(i) # {} => PrevTag(Tag.type) = LastBefore(i)
  <1>1. Before(i) = Until(i - 1, Tag.type) /\ Filled(i) = FilledUntil(i - 1, Tag.type)
    BY DEF Before, Until, Filled, FilledUntil, Tag
  <1>2. /\ last[Tag.type] = TimeAt(LastOf(Until(i - 1, Tag.type)))
        /\ prevOf[Tag.type] = LastOf(FilledUntil(i - 1, Tag.type))
    BY DEF SeenInv
  <1>3. /\ Before(i) \in SUBSET (1 .. i - 1) /\ Filled(i) \in SUBSET (1 .. i - 1) /\ i \in Nat
    BY TagFacts DEF Before, Filled
  <1>4. /\ Before(i) # {} => Max(Before(i)) \in Before(i)
        /\ Filled(i) # {} => Max(Filled(i)) \in Filled(i)
    BY <1>3, MaxMore
  <1>5. last[Tag.type] = PrevTime(i)
    <2>1. Before(i) # {} => Max(Before(i)) # 0
      BY <1>3, <1>4
    <2> QED BY <1>1, <1>2, <2>1 DEF TimeAt, LastOf, PrevTime
  <1>6. prevOf[Tag.type] = LastOf(Filled(i)) /\ (prevOf[Tag.type] > 0 <=> Filled(i) # {})
    BY <1>1, <1>2, <1>3, <1>4 DEF LastOf
  <1> QED BY <1>5, <1>6 DEF PrevTag, LastBefore, LastOf

(* The two media are apart at a tag.                                       *)
LEMMA ApartNow ==
  ASSUME TypeOK, SeenInv, i < End
  PROVE  ApartAt(i) <=> HaveNow = AV /\ Apart(LastNow)
  <1>1. \A type \in AV : Until(i, type) = Until(i - 1, type) \union {k \in {i} : Is(type)}
    BY UntilNext
  <1>2. HaveNow = {type \in AV : Until(i, type) # {}}
    <2>1. have = {type \in AV : Until(i - 1, type) # {}}
      BY DEF SeenInv
    <2> QED BY <1>1, <2>1 DEF HaveNow, Is
  <1>3. HaveNow = AV <=> \A type \in AV : Until(i, type) # {}
    BY <1>2
  <1>4. ASSUME \A type \in AV : Until(i, type) # {}
        PROVE  [type \in AV |-> file.tags[Max(Until(i, type))].time] = LastNow
    <2>1. ASSUME NEW type \in AV
          PROVE  file.tags[Max(Until(i, type))].time = LastNow[type]
      <3>1. LastOf(Until(i, type)) = IF Is(type) THEN i ELSE LastOf(Until(i - 1, type))
        BY UntilNext
      <3>2. LastOf(Until(i, type)) = Max(Until(i, type))
        BY <1>4 DEF LastOf
      <3>3. LastNow[type] = IF Is(type) THEN Tag.time ELSE last[type]
        BY DEF LastNow
      <3>4. last[type] = TimeAt(LastOf(Until(i - 1, type)))
        BY DEF SeenInv
      <3>5. LastOf(Until(i, type)) # 0
        <4>1. Until(i, type) \in SUBSET (1 .. i) /\ i \in Nat
          BY TagFacts DEF Until
        <4>2. 1 .. i = 1 .. (i + 1) - 1 /\ i + 1 \in Nat
          BY <4>1
        <4>3. Max(Until(i, type)) \in Until(i, type)
          BY <1>4, <4>1, <4>2, MaxMore
        <4> QED BY <3>2, <4>1, <4>3
      <3>6. CASE Is(type)
        BY <3>1, <3>2, <3>3, <3>6 DEF Tag
      <3>7. CASE ~Is(type)
        BY <3>1, <3>2, <3>3, <3>4, <3>5, <3>7 DEF TimeAt
      <3> QED BY <3>6, <3>7
    <2>2. LastNow = [type \in AV |-> LastNow[type]]
      BY DEF LastNow
    <2> QED BY <2>1, <2>2
  <1>5. ApartAt(i) <=> /\ \A type \in AV : Until(i, type) # {}
                       /\ Apart([type \in AV |-> file.tags[Max(Until(i, type))].time])
    BY DEF ApartAt
  <1> QED BY <1>3, <1>4, <1>5

(* A tag that is read: the types and the totals,                           *)
LEMMA TagStepType ==
  ASSUME ReportInv, CheckTag,
         report' \in Seq(Messages), errors' \in Nat, warnings' \in Nat
  PROVE  TypeOK'
  <1>1. TypeOK /\ i < End
    BY DEF ReportInv, CheckTag
  <1>2. /\ i \in DOMAIN file.tags /\ i \in Nat /\ i >= 1 /\ i + 1 \in 1 .. End
        /\ Tag.type \in {"AUDIO", "VIDEO", "META", "OTHER"} /\ Tag.body \in Nat
        /\ Tag.time \in 0 .. TsRange - 1
    BY <1>1, TagFacts
  <1>3. /\ file' = file /\ opts' = opts /\ i' = i + 1 /\ End' = End
        /\ info' = info /\ result' = result /\ pc' = "TAGS"
    BY DEF CheckTag, End, Stage
  <1>4. unknowns' \in 0 .. 1
    <2>1. Is("OTHER") => ~TooManyUnknown
      BY <1>1, TagSays DEF CheckTag
    <2> QED BY <1>1, <2>1 DEF CheckTag, TooManyUnknown, TypeOK
  <1>5. have' \subseteq AV /\ last' \in [AV -> 0 .. TsRange - 1] /\ lastTime' \in 0 .. TsRange - 1
    BY <1>1, <1>2 DEF CheckTag, HaveNow, LastNow, TypeOK
  <1>6. desync' \in BOOLEAN
    BY DEF CheckTag
  <1>7. onMetaData' \in 0 .. i' - 1 /\ onLastSecond' \in 0 .. i' - 1
    BY <1>1, <1>2, <1>3 DEF CheckTag, OnMetaDataNow, TypeOK
  <1>8. prevOf' \in [AV -> 0 .. i' - 1]
    <2>1. prevOf' = [type \in AV |-> IF Is(type) /\ Tag.body > 0 THEN i ELSE prevOf[type]]
      BY DEF CheckTag
    <2>2. \A type \in AV : prevOf[type] \in 0 .. i
      BY <1>1, <1>2 DEF TypeOK
    <2>3. i' - 1 = i /\ i \in 0 .. i
      BY <1>2, <1>3
    <2> QED BY <2>1, <2>2, <2>3
  <1>9. frames' \in 0 .. i' - 1 /\ keyframes' \in 0 .. frames'
    BY <1>1, <1>2, <1>3 DEF CheckTag, TypeOK
  <1> QED BY <1>1, <1>2, <1>3, <1>4, <1>5, <1>6, <1>7, <1>8, <1>9 DEF TypeOK

(* what is known of the tags,                                              *)
LEMMA TagStepSeen ==
  ASSUME ReportInv, CheckTag
  PROVE  SeenInv'
  <1>1. TypeOK /\ SeenInv /\ i < End
    BY DEF ReportInv, CheckTag
  <1>2. file' = file /\ i' = i + 1 /\ i' - 1 = i /\ i \in Nat /\ i >= 1
    BY <1>1, TagFacts DEF CheckTag
  <1>3. /\ \A k, type : Until(k, type)' = Until(k, type)
        /\ \A k, type : FilledUntil(k, type)' = FilledUntil(k, type)
        /\ \A k : ApartAt(k)' <=> ApartAt(k)
    BY <1>2, FileFrame
  <1>4. (have = {type \in AV : Until(i - 1, type) # {}})'
    <2>1. have = {type \in AV : Until(i - 1, type) # {}}
      BY <1>1 DEF SeenInv
    <2>2. \A type \in AV : Until(i, type) = Until(i - 1, type) \union {k \in {i} : Is(type)}
      BY <1>1, UntilNext
    <2>3. have' = have \union ({Tag.type} \intersect AV)
      BY DEF CheckTag, HaveNow
    <2>4. have' = {type \in AV : Until(i, type) # {}}
      BY <2>1, <2>2, <2>3 DEF Is
    <2>5. \A type : Until(i - 1, type)' = Until(i, type)
      BY <1>2 DEF Until
    <2> QED BY <2>4, <2>5
  <1>5. (last = [type \in AV |-> TimeAt(LastOf(Until(i - 1, type)))])'
    <2>1. ASSUME NEW type \in AV
          PROVE  last'[type] = TimeAt(LastOf(Until(i, type)))
      <3>1. last[type] = TimeAt(LastOf(Until(i - 1, type)))
        BY <1>1 DEF SeenInv
      <3>2. LastOf(Until(i, type)) = IF Is(type) THEN i ELSE LastOf(Until(i - 1, type))
        BY <1>1, UntilNext
      <3>3. last'[type] = IF Is(type) THEN Tag.time ELSE last[type]
        BY DEF CheckTag, LastNow
      <3>4. TimeAt(i) = Tag.time
        BY <1>2 DEF TimeAt, Tag
      <3> QED BY <3>1, <3>2, <3>3, <3>4
    <2>2. last' = [type \in AV |-> TimeAt(LastOf(Until(i, type)))]
      <3>1. last' = [type \in AV |-> last'[type]]
        BY DEF CheckTag, LastNow
      <3> QED BY <2>1, <3>1
    <2>3. last' = [type \in AV |-> TimeAt(LastOf(Until(i' - 1, type)))]
      BY <1>2, <2>2
    <2> QED BY <1>2, <2>3, Zenon DEF TimeAt, LastOf, Until
  <1>6. (prevOf = [type \in AV |-> LastOf(FilledUntil(i - 1, type))])'
    <2>1. ASSUME NEW type \in AV
          PROVE  prevOf'[type] = LastOf(FilledUntil(i, type))
      <3>1. prevOf[type] = LastOf(FilledUntil(i - 1, type))
        BY <1>1 DEF SeenInv
      <3>2. LastOf(FilledUntil(i, type))
              = IF Is(type) /\ Tag.body > 0 THEN i ELSE LastOf(FilledUntil(i - 1, type))
        BY <1>1, UntilNext
      <3>3. prevOf'[type] = IF Is(type) /\ Tag.body > 0 THEN i ELSE prevOf[type]
        BY DEF CheckTag
      <3> QED BY <3>1, <3>2, <3>3
    <2>2. prevOf' = [type \in AV |-> LastOf(FilledUntil(i, type))]
      <3>1. prevOf' = [type \in AV |-> prevOf'[type]]
        BY DEF CheckTag
      <3> QED BY <2>1, <3>1
    <2>3. prevOf' = [type \in AV |-> LastOf(FilledUntil(i' - 1, type))]
      BY <1>2, <2>2
    <2> QED BY <1>2, <2>3, Zenon DEF LastOf, FilledUntil, Until
  <1>7. (desync <=> \E j \in Checked : ApartAt(j))'
    <2>1. desync <=> \E j \in Checked : ApartAt(j)
      BY <1>1 DEF SeenInv
    <2>2. ApartAt(i) <=> HaveNow = AV /\ Apart(LastNow)
      BY <1>1, ApartNow
    <2>3. desync' <=> desync \/ (HaveNow = AV /\ ~desync /\ Apart(LastNow))
      BY DEF CheckTag, DesyncFound
    <2>4. Checked' = Checked \union {i}
      BY <1>1, <1>2, TagFacts DEF Checked
    <2>5. desync' <=> \E j \in Checked' : ApartAt(j)
      BY <2>1, <2>2, <2>3, <2>4
    <2> QED BY <1>3, <2>5
  <1>8. (unknowns = IF i > 1 /\ file.tags[i - 1].type = "OTHER" THEN 1 ELSE 0)'
    <2>1. Is("OTHER") => ~TooManyUnknown
      BY <1>1, TagSays DEF CheckTag
    <2>2. unknowns' = IF Is("OTHER") THEN unknowns + 1 ELSE 0
      BY DEF CheckTag
    <2>3. unknowns' = IF Is("OTHER") THEN 1 ELSE 0
      BY <1>1, <2>1, <2>2 DEF TooManyUnknown, TypeOK
    <2>4. i' > 1
      BY <1>2
    <2> QED BY <1>2, <2>3, <2>4 DEF Is, Tag
  <1> QED BY <1>4, <1>5, <1>6, <1>7, <1>8 DEF SeenInv

(* The reports about a tag are those made when it was read.                *)
LEMMA TagStepAbout ==
  ASSUME ReportInv, CheckTag
  PROVE  /\ report' \in Seq(Messages) /\ errors' \in Nat /\ warnings' \in Nat
         /\ TotalsInv' /\ FatalInv' /\ AboutInv'
         /\ ~opts.quiet => ~Fatal(report')
         /\ \A c \in TagCodes : i \notin About(c)
         /\ \A c \in TagCodes : \A k : k \in About(c)' <=>
              k \in About(c) \/ (~opts.quiet /\ k = i /\ Tells(TagMessages, c))
  <1> DEFINE ms == TagMessages
  <1>1. TypeOK /\ TotalsInv /\ FatalInv /\ AboutInv /\ i < End /\ pc = "TAGS" /\ pc' = "TAGS"
        /\ ~Fatal(ms) /\ file' = file /\ opts' = opts /\ i' = i + 1 /\ result' = result
        /\ i \in Nat /\ Report(UpToFatal(ms))
    BY TagFacts DEF ReportInv, CheckTag, Stage
  <1>2. ms \in Notes
    BY <1>1, TagSays
  <1>3. pc \notin {"END", "DONE"}
    BY <1>1
  <1> HIDE DEF ms
  <1>4. /\ report' \in Seq(Messages) /\ errors' \in Nat /\ warnings' \in Nat
        /\ ~opts.quiet => /\ errors' = Cardinality(ErrorsOf(report'))
                          /\ warnings' = Cardinality(WarningsOf(report'))
        /\ \A k \in DOMAIN report' :
              \/ k \in DOMAIN report /\ report'[k] = report[k]
              \/ ~opts.quiet /\ report'[k].tag = i /\ Tells(ms, report'[k].code)
        /\ \A c : \A k : k \in About(c)' =>
                    k \in About(c) \/ (~opts.quiet /\ k = i /\ Tells(ms, c))
        /\ \A c : \A k : k \in About(c) => k \in About(c)'
        /\ ~opts.quiet /\ ~Fatal(ms) => \A c : Tells(ms, c) => i \in About(c)'
        /\ ~opts.quiet /\ ~Fatal(ms) => ~Fatal(report')
    BY <1>1, <1>2, <1>3, Reported
  <1>5. ~Finished' /\ ~Ended'
    BY <1>1 DEF Finished, Ended
  <1>6. TotalsInv'
    BY <1>1, <1>4, <1>5 DEF TotalsInv
  <1>7. FatalInv'
    <2>1. Fatal(report)' <=> Fatal(report')
      BY DEF Fatal, FatalsOf
    <2> QED BY <1>1, <1>4, <1>5, <2>1 DEF FatalInv
  <1>8. AboutInv'
    <2> SUFFICES ASSUME NEW k \in DOMAIN report', report'[k].tag >= i + 1
                 PROVE  report'[k].code \notin TagCodes
      BY <1>1 DEF AboutInv
    <2>1. CASE k \in DOMAIN report /\ report'[k] = report[k]
      <3>1. report[k].tag \in Nat
        <4>1. report \in Seq(Messages)
          BY <1>1 DEF TypeOK
        <4>2. report[k] \in Messages
          BY <2>1, <4>1
        <4> QED BY <4>2 DEF Messages
      <3>2. report[k].tag >= i
        BY <1>1, <2>1, <3>1
      <3> QED BY <1>1, <2>1, <3>2 DEF AboutInv, InTags
    <2>2. CASE report'[k].tag = i
      BY <1>1, <2>2
    <2> QED BY <1>4, <2>1, <2>2
  <1>9. \A c \in TagCodes : i \notin About(c)
    BY <1>1 DEF AboutInv, InTags, About
  <1>10. \A c \in TagCodes : \A k : k \in About(c)' <=>
              k \in About(c) \/ (~opts.quiet /\ k = i /\ Tells(ms, c))
    BY <1>1, <1>4
  <1> QED BY <1>1, <1>4, <1>6, <1>7, <1>8, <1>9, <1>10 DEF ms

(* what the reports say,                                                   *)
LEMMA TagStepProperties ==
  ASSUME ReportInv, CheckTag
  PROVE  /\ FatalEnds' /\ DecreaseReported' /\ FormatsCompared' /\ DesyncOnce'
         /\ FirstMetaDataChecked'
  <1> DEFINE ms == TagMessages
  <1>1. /\ TypeOK /\ SeenInv /\ FatalEnds /\ DecreaseReported /\ FormatsCompared /\ DesyncOnce
        /\ FirstMetaDataChecked /\ i < End /\ pc = "TAGS" /\ pc' = "TAGS"
        /\ file' = file /\ opts' = opts /\ i' = i + 1 /\ ~Fatal(ms)
    BY DEF ReportInv, CheckTag, Stage
  <1>2. /\ ~opts.quiet => ~Fatal(report')
        /\ \A c \in TagCodes : i \notin About(c)
        /\ \A c \in TagCodes : \A k : k \in About(c)' <=>
              k \in About(c) \/ (~opts.quiet /\ k = i /\ Tells(ms, c))
    BY TagStepAbout
  <1>3. TagCodes = {
          "CONSECUTIVE_UNKNOWN_TAGS", "TIMESTAMP_AUDIO_DECREASE", "TIMESTAMP_VIDEO_DECREASE",
          "TIMESTAMP_DESYNC", "AUDIO_FORMAT_CHANGED", "VIDEO_FORMAT_CHANGED",
          "VIDEO_NO_FIRST_KEYFRAME", "METADATA_DUPLICATE"}
    BY DEF TagCodes
  <1>4. /\ Tells(ms, "CONSECUTIVE_UNKNOWN_TAGS") <=> Is("OTHER") /\ TooManyUnknown
        /\ Tells(ms, "TIMESTAMP_AUDIO_DECREASE")
             <=> Shown("ERROR") /\ Is("AUDIO") /\ last["AUDIO"] > Tag.time
        /\ Tells(ms, "TIMESTAMP_VIDEO_DECREASE")
             <=> Shown("ERROR") /\ Is("VIDEO") /\ last["VIDEO"] > Tag.time
        /\ Tells(ms, "TIMESTAMP_DESYNC") <=> Shown("WARNING") /\ DesyncFound
        /\ Tells(ms, "AUDIO_FORMAT_CHANGED")
             <=> /\ Shown("WARNING") /\ Is("AUDIO") /\ Tag.body > 0
                 /\ prevOf["AUDIO"] > 0 /\ PrevTag("AUDIO").audio # Tag.audio
        /\ Tells(ms, "VIDEO_FORMAT_CHANGED")
             <=> /\ Shown("WARNING") /\ Is("VIDEO") /\ Tag.body > 0
                 /\ prevOf["VIDEO"] > 0 /\ PrevTag("VIDEO").codec # Tag.codec
        /\ Tells(ms, "VIDEO_NO_FIRST_KEYFRAME")
             <=> /\ Shown("WARNING") /\ Is("VIDEO") /\ Tag.body > 0
                 /\ FirstFrame /\ Tag.frame # "KEY"
        /\ Tells(ms, "METADATA_DUPLICATE")
             <=> Shown("WARNING") /\ Named("onMetaData") /\ ~FirstMetaData
        /\ Is("OTHER") /\ TooManyUnknown => Fatal(ms)
    BY <1>1, TagSays
  <1>5. /\ Checked' = Checked \union {i} /\ i \notin Checked /\ Checked = 1 .. i - 1
        /\ i \in Nat /\ i >= 1
        /\ Tag.type \in {"AUDIO", "VIDEO", "META", "OTHER"} /\ Tag.body \in Nat
        /\ Tag.time \in 0 .. TsRange - 1 /\ Tag = file.tags[i]
    BY <1>1, TagFacts DEF Checked, Tag
  <1>6. \A l : Prints(l)' <=> Prints(l)
    BY <1>1 DEF Prints, Shown
  <1>7. End' = End /\ ~Finished' /\ (opts.quiet)' = opts.quiet
    BY <1>1 DEF End, Finished
  <1> HIDE DEF ms
  <1>8. FatalEnds'
    <2> DEFINE other(k) == file.tags[k].type = "OTHER"
    <2>1. /\ \A k \in Checked : k > 1 => ~(other(k - 1) /\ other(k))
          /\ \A k \in About("CONSECUTIVE_UNKNOWN_TAGS") : k > 1 /\ other(k - 1) /\ other(k)
      BY <1>1 DEF FatalEnds
    <2>2. ~(Is("OTHER") /\ TooManyUnknown)
      BY <1>1, <1>4
    <2>3. i > 1 => ~(other(i - 1) /\ other(i))
      BY <1>1, <2>2 DEF SeenInv, TooManyUnknown, Is, Tag
    <2>4. \A k \in Checked' : k > 1 => ~(other(k - 1) /\ other(k))
      BY <1>5, <2>1, <2>3
    <2>5. \A k \in About("CONSECUTIVE_UNKNOWN_TAGS")' : k > 1 /\ other(k - 1) /\ other(k)
      BY <1>2, <1>3, <1>4, <2>1, <2>2
    <2>6. ~opts.quiet => \A k \in DOMAIN report' : ~IsFatal(report'[k])
      BY <1>2 DEF Fatal, FatalsOf
    <2> QED BY <1>1, <1>7, <2>4, <2>5, <2>6 DEF FatalEnds, IsFatal
  <1>9. Tag.type \in AV => /\ last[Tag.type] = PrevTime(i)
                           /\ (prevOf[Tag.type] > 0 <=> Filled(i) # {})
                           /\ Filled(i) # {} => PrevTag(Tag.type) = LastBefore(i)
                           /\ last[Tag.type] \in Int /\ prevOf[Tag.type] \in Nat
    <2>1. Tag.type \in AV => last[Tag.type] \in Int /\ prevOf[Tag.type] \in Nat
      BY <1>1, <1>5 DEF TypeOK
    <2> QED BY <1>1, <2>1, TagBefore
  <1>10. DecreaseReported'
    <2>1. \A k : PrevTime(k)' = PrevTime(k)
      BY <1>1, FileFrame
    <2>2. Prints("ERROR") =>
            (i \in About("TIMESTAMP_AUDIO_DECREASE")' \union About("TIMESTAMP_VIDEO_DECREASE")'
               <=> Tag.type \in AV /\ Tag.time < PrevTime(i))
      BY <1>2, <1>3, <1>4, <1>5, <1>9 DEF Prints, Is, AV
    <2>3. \A k \in Checked : \A c \in TagCodes : k \in About(c)' <=> k \in About(c)
      BY <1>2, <1>5
    <2> SUFFICES ASSUME Prints("ERROR"), NEW k \in Checked'
                 PROVE  k \in About("TIMESTAMP_AUDIO_DECREASE")'
                               \union About("TIMESTAMP_VIDEO_DECREASE")'
                          <=> file.tags[k].type \in AV /\ file.tags[k].time < PrevTime(k)
      BY <1>1, <1>6, <2>1 DEF DecreaseReported
    <2>4. CASE k \in Checked
      BY <1>1, <1>3, <2>3, <2>4 DEF DecreaseReported
    <2>5. CASE k = i
      BY <1>5, <2>2, <2>5
    <2> QED BY <1>5, <2>4, <2>5
  <1>11. FormatsCompared'
    <2>1. /\ \A k : Filled(k)' = Filled(k)
          /\ \A k : LastBefore(k)' = LastBefore(k)
      BY <1>1, FileFrame
    <2> DEFINE right(k) ==
          LET t == file.tags[k] IN
          t.body > 0 =>
            /\ k \in About("AUDIO_FORMAT_CHANGED")'
                 <=> t.type = "AUDIO" /\ Filled(k) # {} /\ LastBefore(k).audio # t.audio
            /\ k \in About("VIDEO_FORMAT_CHANGED")'
                 <=> t.type = "VIDEO" /\ Filled(k) # {} /\ LastBefore(k).codec # t.codec
            /\ k \in About("VIDEO_NO_FIRST_KEYFRAME")'
                 <=> t.type = "VIDEO" /\ Filled(k) = {} /\ t.frame # "KEY"
    <2>2. Prints("WARNING") => right(i)
      <3> SUFFICES ASSUME Prints("WARNING"), Tag.body > 0 PROVE right(i)
        BY <1>5
      <3>1. \A c \in TagCodes : i \in About(c)' <=> Tells(ms, c)
        BY <1>2 DEF Prints
      <3>2. Shown("WARNING")
        BY DEF Prints
      <3>3. i \in About("AUDIO_FORMAT_CHANGED")'
              <=> Tag.type = "AUDIO" /\ Filled(i) # {} /\ LastBefore(i).audio # Tag.audio
        BY <1>3, <1>4, <1>9, <3>1, <3>2 DEF Is, AV
      <3>4. i \in About("VIDEO_FORMAT_CHANGED")'
              <=> Tag.type = "VIDEO" /\ Filled(i) # {} /\ LastBefore(i).codec # Tag.codec
        BY <1>3, <1>4, <1>9, <3>1, <3>2 DEF Is, AV
      <3>5. i \in About("VIDEO_NO_FIRST_KEYFRAME")'
              <=> Tag.type = "VIDEO" /\ Filled(i) = {} /\ Tag.frame # "KEY"
        BY <1>3, <1>4, <1>9, <3>1, <3>2 DEF Is, AV, FirstFrame
      <3> QED BY <1>5, <3>3, <3>4, <3>5
    <2>3. \A k \in Checked : \A c \in TagCodes : k \in About(c)' <=> k \in About(c)
      BY <1>2, <1>5
    <2>4. Prints("WARNING") => \A k \in Checked : right(k)
      BY <1>1, <1>3, <2>3 DEF FormatsCompared
    <2>5. Prints("WARNING") => \A k \in Checked' : right(k)
      <3> HIDE DEF right
      <3> QED BY <1>5, <2>2, <2>4
    <2> QED BY <1>1, <1>6, <2>1, <2>5 DEF FormatsCompared
  <1>12. DesyncOnce'
    <2>1. \A k : ApartAt(k)' <=> ApartAt(k)
      BY <1>1, FileFrame
    <2>2. ApartAt(i) <=> HaveNow = AV /\ Apart(LastNow)
      BY <1>1, ApartNow
    <2>3. desync <=> \E j \in 1 .. i - 1 : ApartAt(j)
      BY <1>1, <1>5 DEF SeenInv
    <2>4. Prints("WARNING") => (i \in About("TIMESTAMP_DESYNC")'
                                  <=> ApartAt(i) /\ \A j \in 1 .. i - 1 : ~ApartAt(j))
      BY <1>2, <1>3, <1>4, <2>2, <2>3 DEF Prints, DesyncFound
    <2>5. \A k \in Checked : \A c \in TagCodes : k \in About(c)' <=> k \in About(c)
      BY <1>2, <1>5
    <2> SUFFICES ASSUME Prints("WARNING"), NEW k \in Checked'
                 PROVE  k \in About("TIMESTAMP_DESYNC")'
                          <=> ApartAt(k) /\ \A j \in 1 .. k - 1 : ~ApartAt(j)
      BY <1>1, <1>6, <2>1 DEF DesyncOnce
    <2>6. CASE k \in Checked
      BY <1>1, <1>3, <2>5, <2>6 DEF DesyncOnce
    <2>7. CASE k = i
      BY <2>4, <2>7
    <2> QED BY <1>5, <2>6, <2>7
  <1>13. FirstMetaDataChecked'
    <2>1. \A ks : MetaDataOf(ks)' = MetaDataOf(ks)
      BY <1>1, FileFrame
    <2>2. MetaDataOf(Checked') = MetaDataOf(Checked) \union {k \in {i} : Named("onMetaData")}
      BY <1>5 DEF MetaDataOf, Named, Is
    <2>3. MetaDataOf(Checked) \in SUBSET Nat /\ \A k \in MetaDataOf(Checked) : k < i /\ k > 0
      BY <1>5 DEF MetaDataOf
    <2>4. onMetaData = IF MetaDataOf(Checked) = {} THEN 0 ELSE Min(MetaDataOf(Checked))
      BY <1>1 DEF FirstMetaDataChecked
    <2>5. onMetaData = 0 <=> MetaDataOf(Checked) = {}
      <3>1. MetaDataOf(Checked) # {} => Min(MetaDataOf(Checked)) \in MetaDataOf(Checked)
        BY <2>3, MinFacts
      <3> QED BY <2>3, <2>4, <3>1
    <2>6. onMetaData' = IF Named("onMetaData") /\ onMetaData = 0 THEN i ELSE onMetaData
      BY DEF CheckTag, OnMetaDataNow, FirstMetaData
    <2>7. onMetaData' = IF MetaDataOf(Checked') = {} THEN 0 ELSE Min(MetaDataOf(Checked'))
      <3>1. CASE ~Named("onMetaData")
        <4>1. MetaDataOf(Checked') = MetaDataOf(Checked)
          BY <2>2, <3>1
        <4> QED BY <2>4, <2>6, <3>1, <4>1
      <3>2. CASE Named("onMetaData") /\ MetaDataOf(Checked) = {}
        <4>1. MetaDataOf(Checked') = {i}
          BY <2>2, <3>2
        <4>2. Min({i}) = i
          BY <1>5, MinIs
        <4> QED BY <2>5, <2>6, <3>2, <4>1, <4>2
      <3>3. CASE Named("onMetaData") /\ MetaDataOf(Checked) # {}
        <4> DEFINE m == Min(MetaDataOf(Checked))
        <4>1. MetaDataOf(Checked') = MetaDataOf(Checked) \union {i}
          BY <2>2, <3>3
        <4>2. m \in MetaDataOf(Checked) /\ \A k \in MetaDataOf(Checked) : m <= k
          BY <2>3, <3>3, MinFacts
        <4>3. onMetaData' = m
          BY <2>4, <2>5, <2>6, <3>3
        <4> HIDE DEF m
        <4>4. Min(MetaDataOf(Checked')) = m
          <5> DEFINE S == MetaDataOf(Checked')
          <5>1. S \in SUBSET Nat /\ m \in S /\ \A k \in S : m <= k
            <6>1. S \in SUBSET Nat /\ m \in S
              BY <1>5, <2>3, <4>1, <4>2
            <6>2. m <= i
              BY <1>5, <2>3, <4>2
            <6>3. \A k \in S : k \in MetaDataOf(Checked) \/ k = i
              BY <4>1
            <6> QED BY <4>2, <6>1, <6>2, <6>3
          <5> HIDE DEF S
          <5>2. Min(S) = m
            BY <5>1, MinIs
          <5> QED BY <5>2 DEF S
        <4> QED BY <4>1, <4>3, <4>4, <3>3
      <3> QED BY <3>1, <3>2, <3>3
    <2>8. Prints("WARNING") =>
            About("METADATA_DUPLICATE")' = MetaDataOf(Checked') \ {onMetaData'}
      <3> SUFFICES ASSUME Prints("WARNING")
                   PROVE  About("METADATA_DUPLICATE")' = MetaDataOf(Checked') \ {onMetaData'}
        OBVIOUS
      <3>1. About("METADATA_DUPLICATE") = MetaDataOf(Checked) \ {onMetaData}
        BY <1>1 DEF FirstMetaDataChecked, Finished
      <3>2. \A k : k \in About("METADATA_DUPLICATE")' <=>
              k \in About("METADATA_DUPLICATE")
                \/ (k = i /\ Named("onMetaData") /\ onMetaData # 0)
        BY <1>2, <1>3, <1>4 DEF Prints, FirstMetaData
      <3>3. onMetaData # i /\ i \notin MetaDataOf(Checked)
        BY <1>1, <1>5, <2>3 DEF TypeOK
      <3> QED BY <2>2, <2>5, <2>6, <3>1, <3>2, <3>3
    <2>9. (onMetaData = IF MetaDataOf(Checked) = {} THEN 0 ELSE Min(MetaDataOf(Checked)))'
      <3>1. MetaDataOf(Checked)' = MetaDataOf(Checked')
        BY <1>1 DEF MetaDataOf
      <3>2. Min(MetaDataOf(Checked))' = Min(MetaDataOf(Checked'))
        BY <1>1, Zenon DEF MetaDataOf
      <3> QED BY <2>7, <3>1, <3>2
    <2>10. MetaDataOf(Checked)' = MetaDataOf(Checked')
      BY <1>1 DEF MetaDataOf
    <2> QED BY <1>6, <2>8, <2>9, <2>10 DEF FirstMetaDataChecked
  <1> QED BY <1>8, <1>10, <1>11, <1>12, <1>13

(* and the whole invariant.                                                *)
LEMMA TagStep == ASSUME ReportInv, CheckTag PROVE ReportInv'
  BY TagStepAbout, TagStepType, TagStepSeen, TagStepProperties DEF ReportInv

(* Every step keeps what the reports say.                                  *)
LEMMA ReportStep == ASSUME ReportInv, [Next]_vars PROVE ReportInv'
  BY OpenStep, HeaderStep, TagStep, AbortStep, EndStep, WholeStep, MetaDataStep, GlobalStep,
     FinishStep, StutterStep DEF Next

(* The totals of the report count what it holds, and the exit status says  *)
(* whether it holds an error.                                              *)
LEMMA TotalsMean == ASSUME ReportInv PROVE TotalsTrue
  <1> SUFFICES ASSUME ~opts.quiet, Finished
               PROVE  /\ errors = Cardinality(ErrorsOf(report))
                      /\ warnings = Cardinality(WarningsOf(report))
                      /\ result = "ERROR_INVALID_FLV_FILE" <=> ErrorsOf(report) # {}
    BY DEF TotalsTrue
  <1>1. TypeOK /\ TotalsInv
    BY DEF ReportInv
  <1>2. /\ errors = Cardinality(ErrorsOf(report))
        /\ warnings = Cardinality(WarningsOf(report))
        /\ result = IF errors > 0 THEN "ERROR_INVALID_FLV_FILE" ELSE "OK"
    BY <1>1 DEF TotalsInv
  <1>3. IsFiniteSet(ErrorsOf(report))
    <2>1. report \in Seq(Messages) /\ ErrorsOf(report) \in SUBSET DOMAIN report
      BY <1>1 DEF TypeOK, ErrorsOf
    <2>2. DOMAIN report = 1 .. Len(report) /\ Len(report) \in Nat
      BY <2>1
    <2>3. IsFiniteSet(1 .. Len(report))
      BY <2>2, FS_Interval
    <2> QED BY <2>1, <2>2, <2>3, FS_Subset
  <1>4. errors = 0 <=> ErrorsOf(report) = {}
    BY <1>2, <1>3, FS_EmptySet
  <1>5. errors \in Nat
    BY <1>1 DEF TypeOK
  <1> QED BY <1>2, <1>4, <1>5

----------------------------------------------------------------------------
(* The index of keyframes.                                                 *)

(* A function defined by recursion on 0 .. N exists.                       *)
Closed(H, N, T) == \A n \in 1 .. N, t \in T : H[<<n, t>>] \in T
RunOf(f, H, x, N, T) ==
  f \in [0 .. N -> T] /\ f[0] = x /\ \A n \in 1 .. N : f[n] = H[<<n, f[n - 1]>>]

(* Such a function exists.                                                 *)
LEMMA Recursion ==
  ASSUME NEW T, NEW x \in T, NEW N \in Nat, NEW H, Closed(H, N, T)
  PROVE  \E f : RunOf(f, H, x, N, T)
  <1> DEFINE IsOne(f, m) == RunOf(f, H, x, m, T)
             A == {m \in Nat : m <= N => \E f : IsOne(f, m)}
  <1>1. 0 \in A
    <2>1. IsOne([n \in 0 .. 0 |-> x], 0)
      BY DEF RunOf
    <2> QED BY <2>1
  <1>2. ASSUME NEW m \in A PROVE m + 1 \in A
    <2> SUFFICES ASSUME m + 1 <= N PROVE \E f : IsOne(f, m + 1)
      OBVIOUS
    <2>1. PICK g : IsOne(g, m)
      OBVIOUS
    <2>2. m \in Nat /\ m + 1 \in 1 .. N /\ g[m] \in T
      BY <2>1 DEF RunOf
    <2>3. H[<<m + 1, g[m]>>] \in T
      BY <2>2 DEF Closed
    <2> DEFINE y == H[<<m + 1, g[m]>>]
               f == [n \in 0 .. m + 1 |-> IF n = m + 1 THEN y ELSE g[n]]
    <2>4. y \in T /\ y = H[<<m + 1, g[m]>>]
      BY <2>3
    <2> HIDE DEF y
    <2>5. f \in [0 .. m + 1 -> T] /\ f[0] = x
      BY <2>1, <2>2, <2>4 DEF RunOf
    <2>6. ASSUME NEW n \in 1 .. m + 1 PROVE f[n] = H[<<n, f[n - 1]>>]
      <3>1. CASE n = m + 1
        <4>1. f[n] = y /\ f[n - 1] = g[m]
          BY <2>2, <3>1
        <4> QED BY <2>4, <3>1, <4>1
      <3>2. CASE n \in 1 .. m
        <4>1. f[n] = g[n] /\ f[n - 1] = g[n - 1]
          BY <2>2, <3>2
        <4> QED BY <2>1, <3>2, <4>1 DEF RunOf
      <3> QED BY <2>2, <3>1, <3>2
    <2> HIDE DEF f
    <2> QED BY <2>5, <2>6 DEF RunOf
  <1>3. A = Nat
    <2> A \in SUBSET Nat
      OBVIOUS
    <2> HIDE DEF A
    <2> QED BY <1>1, <1>2, SetInduction
  <1>4. N \in A
    <2> HIDE DEF A
    <2> QED BY <1>3
  <1> QED BY <1>4

(* The keyframes listed in an index are keyframes of the file.             *)
LEMMA ListedFacts ==
  ASSUME TypeOK
  PROVE  ListedKeyframes \in Seq(KeyframeTags)
  <1> DEFINE N == End - 1
             T == Seq(KeyframeTags)
             Listed(n, s) ==
               IF /\ n \in KeyframeTags
                  /\ \/ s = <<>>
                     \/ Recovered(Last(s)) # Recovered(n)
               THEN Append(s, n) ELSE s
             listed[n \in 0 .. N] ==
               IF n = 0 THEN <<>>
               ELSE IF /\ n \in KeyframeTags
                       /\ \/ listed[n - 1] = <<>>
                          \/ Recovered(Last(listed[n - 1])) # Recovered(n)
                    THEN Append(listed[n - 1], n) ELSE listed[n - 1]
             H == [p \in (1 .. N) \X T |-> Listed(p[1], p[2])]
  <1>1. N \in Nat
    BY DEF TypeOK, IsFile, End
  <1>2. ListedKeyframes = listed[N]
    BY DEF ListedKeyframes
  <1> HIDE DEF N
  <1>3. \A n, s : s \in T => Listed(n, s) \in T
    OBVIOUS
  <1>4. <<>> \in T
    OBVIOUS
  <1> HIDE DEF Listed, T
  <1>5. Closed(H, N, T)
    BY <1>3 DEF Closed
  <1>6. \A n \in 1 .. N, s \in T : H[<<n, s>>] = Listed(n, s)
    OBVIOUS
  <1> HIDE DEF H
  <1>7. PICK f : RunOf(f, H, <<>>, N, T)
    BY <1>1, <1>4, <1>5, Recursion
  <1>8. \A n \in 1 .. N : f[n] = Listed(n, f[n - 1])
    <2> TAKE n \in 1 .. N
    <2>1. n - 1 \in 0 .. N
      BY <1>1
    <2>2. f[n - 1] \in T
      BY <1>7, <2>1 DEF RunOf
    <2> QED BY <1>6, <1>7, <2>2, Zenon DEF RunOf
  <1>9. f = [n \in 0 .. N |-> IF n = 0 THEN <<>> ELSE Listed(n, f[n - 1])]
    BY SMTT(30), <1>1, <1>7, <1>8 DEF RunOf
  <1>10. listed = [n \in 0 .. N |-> IF n = 0 THEN <<>> ELSE Listed(n, listed[n - 1])]
    BY <1>9 DEF Listed
  <1> HIDE DEF listed
  <1> DEFINE A == {n \in Nat : n <= N => listed[n] \in T}
  <1>11. A = Nat
    <2>1. 0 \in A
      BY <1>1, <1>4, <1>10
    <2>2. ASSUME NEW n \in A PROVE n + 1 \in A
      <3>1. n \in Nat /\ n + 1 # 0 /\ n + 1 - 1 = n
        OBVIOUS
      <3>2. n + 1 <= N => listed[n + 1] = Listed(n + 1, listed[n])
        BY <1>1, <1>10, <3>1
      <3>3. n + 1 <= N => listed[n] \in T
        BY <1>1, <3>1
      <3> QED BY <1>3, <3>1, <3>2, <3>3
    <2> A \in SUBSET Nat
      OBVIOUS
    <2> HIDE DEF A
    <2> QED BY <2>1, <2>2, SetInduction
  <1>12. listed[N] \in T
    <2>1. N \in A
      <3> HIDE DEF A
      <3> QED BY <1>1, <1>11
    <2> QED BY <1>1, <2>1
  <1> QED BY <1>2, <1>12 DEF T

(* The check of the file as a whole only ends when get_flv_info fails.     *)
LEMMA FinalFatal ==
  ASSUME TypeOK, Fatal(FinalMessages)
  PROVE  onMetaData > 0 /\ InfoFails
  <1> DEFINE ms ==
        Found("VIDEO" \in file.has \ have, "WARNING", "HEADER_VIDEO_NOT_FOUND")
        \o Found("AUDIO" \in file.has \ have, "WARNING", "HEADER_AUDIO_NOT_FOUND")
        \o EndsMessages
        \o Found("VIDEO" \in have /\ keyframes = 0, "WARNING", "VIDEO_NO_KEYFRAME")
        \o Found(OnlyKeyframes, "WARNING", "VIDEO_ONLY_KEYFRAMES")
        \o Found(OnlyKeyframes /\ onLastSecond > 0, "WARNING", "VIDEO_ONLY_KF_LAST_SEC")
        \o Found(onLastSecond > 0 /\
                 (lastTime - file.tags[onLastSecond].time) % TsRange >= 2 * Second,
                 "WARNING", "METADATA_LAST_SECOND_BAD")
        \o Found(onMetaData = 0, "WARNING", "METADATA_NOT_PRESENT")
             ending == Found(onMetaData > 0 /\ InfoFails, "FATAL", "INFO_COMPUTATION_ERROR")
  <1>1. {"TIMESTAMP_VIDEO_ENDS_FIRST", "TIMESTAMP_AUDIO_ENDS_FIRST", "HEADER_VIDEO_NOT_FOUND",
         "HEADER_AUDIO_NOT_FOUND", "VIDEO_NO_KEYFRAME", "VIDEO_ONLY_KEYFRAMES",
         "VIDEO_ONLY_KF_LAST_SEC", "METADATA_LAST_SECOND_BAD", "METADATA_NOT_PRESENT",
         "INFO_COMPUTATION_ERROR"} \subseteq OtherCodes
    BY DEF OtherCodes
  <1>2. "WARNING" \in MildLevels
    BY DEF MildLevels
  <1>3. EndsMessages \in Mild
    BY <1>1, <1>2, FoundMild DEF EndsMessages
  <1>4. ms \in Mild
    BY <1>1, <1>2, <1>3, FoundMild, JoinMild
  <1>5. FinalMessages = ms \o ending
    BY DEF FinalMessages
  <1> HIDE DEF ms
  <1>6. ms \in Notes /\ ~Fatal(ms)
    BY <1>4, MildOthers, OthersNotes
  <1>7. ending \in Notes /\ (Fatal(ending) <=> onMetaData > 0 /\ InfoFails)
    <2>1. "INFO_COMPUTATION_ERROR" \in Codes /\ "FATAL" \in DOMAIN Rank
      BY <1>1, OtherLevels DEF Codes
    <2>2. (onMetaData > 0 /\ InfoFails) \in BOOLEAN
      BY DEF InfoFails
    <2> QED BY <2>1, <2>2, FoundNotes
  <1> HIDE DEF ending
  <1>8. Fatal(ms) \/ Fatal(ending)
    BY <1>5, <1>6, <1>7, Join
  <1> QED BY <1>6, <1>7, <1>8

(* What flattening tells.                                                  *)
LEMMA FlattenTells ==
  ASSUME NEW ss \in Seq(Mild), NEW k \in DOMAIN ss, NEW c, Tells(ss[k], c)
  PROVE  Tells(FlattenSeq(ss), c)
  <1> DEFINE S == [level : MildLevels, code : OtherCodes, tag : {i}]
  <1>1. ss \in Seq(Seq(S))
    BY DEF Mild
  <1> HIDE DEF S
  <1>2. \A n \in DOMAIN ss : \A m \in DOMAIN ss[n] :
          \E q \in DOMAIN FlattenSeq(ss) : FlattenSeq(ss)[q] = ss[n][m]
    BY <1>1, FlattenFacts
  <1>3. PICK m \in DOMAIN ss[k] : ss[k][m].code = c
    BY DEF Tells
  <1>4. PICK q \in DOMAIN FlattenSeq(ss) : FlattenSeq(ss)[q] = ss[k][m]
    BY <1>2
  <1> QED BY <1>3, <1>4 DEF Tells

(* What found warnings tell.                                               *)
LEMMA FoundTells ==
  ASSUME Shown("WARNING"), NEW cond, cond, NEW code
  PROVE  Tells(Found(cond, "WARNING", code), code) /\ Tells(Message("WARNING", code), code)
  <1> DEFINE m == [level |-> "WARNING", code |-> code, tag |-> i]
  <1>1. Found(cond, "WARNING", code) = <<m>> /\ Message("WARNING", code) = <<m>>
    BY DEF Found, Message
  <1>2. 1 \in DOMAIN <<m>> /\ <<m>>[1].code = code
    OBVIOUS
  <1> QED BY <1>1, <1>2 DEF Tells

(* A concatenation tells what its parts tell.                              *)
LEMMA JoinTells ==
  ASSUME NEW s \in Mild, NEW t \in Mild, NEW c
  PROVE  Tells(s \o t, c) <=> Tells(s, c) \/ Tells(t, c)
  <1>1. s \in Notes /\ t \in Notes
    BY MildOthers, OthersNotes
  <1> QED BY <1>1, Join

(* Messages that say nothing of an index.                                  *)
Quiet(ms) == \A c \in IndexCodes : ~Tells(ms, c)

(* If messages say nothing of an index, no part of them does.              *)
LEMMA JoinQuiet ==
  ASSUME NEW s \in Mild, NEW t \in Mild, Quiet(s \o t)
  PROVE  Quiet(s) /\ Quiet(t)
  BY JoinTells DEF Quiet

(* A position nothing is said about is that of the keyframe it is listed   *)
(* with.                                                                   *)
LEMMA KeyframeTold ==
  ASSUME Shown("WARNING"), NEW e, NEW n, Quiet(KeyframeMessages(e, n))
  PROVE  e.positions.list[n].number = file.pos[ListedKeyframes[n]]
  <1> DEFINE time == e.times.list[n]
             position == e.positions.list[n]
             before == {m \in 1 .. n - 1 : e.times.list[m].type = "NUMBER"}
             k == ListedKeyframes[n]
             ofTime ==
               IF time.type # "NUMBER" THEN Message("WARNING", "KEYFRAMES_TIME_TYPE_BAD")
               ELSE Found(Distance(time.number, Recovered(k)) >= Second, "WARNING",
                          "KEYFRAMES_TIME_BAD")
                    \o Found(before # {} /\ e.times.list[Max(before)].number = time.number,
                             "WARNING", "KEYFRAMES_TIME_DUPLICATE")
             ofPosition ==
               IF position.type # "NUMBER" THEN Message("WARNING", "KEYFRAMES_POS_TYPE_BAD")
               ELSE Found(position.number # file.pos[k], "WARNING", "KEYFRAMES_POS_BAD")
  <1>1. {"KEYFRAMES_TIME_TYPE_BAD", "KEYFRAMES_TIME_BAD", "KEYFRAMES_TIME_DUPLICATE",
         "KEYFRAMES_POS_TYPE_BAD", "KEYFRAMES_POS_BAD"} \subseteq OtherCodes
    BY DEF OtherCodes
  <1>2. "WARNING" \in MildLevels
    BY DEF MildLevels
  <1>3. ofTime \in Mild
    BY <1>1, <1>2, FoundMild, JoinMild
  <1>4. ofPosition \in Mild
    BY <1>1, <1>2, FoundMild
  <1>5. KeyframeMessages(e, n) = ofTime \o ofPosition
    BY DEF KeyframeMessages
  <1>6. Quiet(ofPosition)
    <2> HIDE DEF ofTime, ofPosition
    <2> QED BY <1>3, <1>4, <1>5, JoinQuiet
  <1> HIDE DEF position, k, ofTime
  <1>7. position.type = "NUMBER"
    <2> SUFFICES ASSUME position.type # "NUMBER" PROVE FALSE
      OBVIOUS
    <2>1. ofPosition = Message("WARNING", "KEYFRAMES_POS_TYPE_BAD")
      OBVIOUS
    <2>2. Tells(Message("WARNING", "KEYFRAMES_POS_TYPE_BAD"), "KEYFRAMES_POS_TYPE_BAD")
      BY FoundTells
    <2>3. "KEYFRAMES_POS_TYPE_BAD" \in IndexCodes
      BY DEF IndexCodes
    <2> HIDE DEF ofPosition
    <2> QED BY <1>6, <2>1, <2>2, <2>3 DEF Quiet
  <1>8. position.number = file.pos[k]
    <2> SUFFICES ASSUME position.number # file.pos[k] PROVE FALSE
      OBVIOUS
    <2>1. ofPosition = Found(position.number # file.pos[k], "WARNING", "KEYFRAMES_POS_BAD")
      BY <1>7
    <2>2. Tells(Found(position.number # file.pos[k], "WARNING", "KEYFRAMES_POS_BAD"),
                "KEYFRAMES_POS_BAD")
      BY FoundTells
    <2>3. "KEYFRAMES_POS_BAD" \in IndexCodes
      BY DEF IndexCodes
    <2> HIDE DEF ofPosition
    <2> QED BY <1>6, <2>1, <2>2, <2>3 DEF Quiet
  <1> QED BY <1>8 DEF position, k

(* An index nothing is said about has as many positions as there are       *)
(* keyframes to list, and each is that of the keyframe it is listed with.  *)
LEMMA IndexTold ==
  ASSUME Shown("WARNING"), NEW e, Quiet(KeyframesMessages(e)),
         e.times.type \in ListTypes, e.positions.type \in ListTypes,
         e.times.list \in Seq({e.times.list[n] : n \in DOMAIN e.times.list})
  PROVE  /\ Len(e.times.list) = Len(ListedKeyframes)
         /\ Len(e.positions.list) = Len(ListedKeyframes)
         /\ \A n \in 1 .. Len(e.times.list) :
              e.positions.list[n].number = file.pos[ListedKeyframes[n]]
  <1> DEFINE ss == [n \in DOMAIN e.times.list |-> KeyframeMessages(e, n)]
             noTimes == Found(e.times.type = "MISSING", "WARNING", "KEYFRAMES_TIMES_MISSING")
             noPositions ==
               Found(e.positions.type = "MISSING", "WARNING", "KEYFRAMES_FILEPOS_MISSING")
             badTimes == Found(e.times.type = "OTHER", "WARNING", "KEYFRAMES_TIMES_TYPE_BAD")
             badPositions ==
               Found(e.positions.type = "OTHER", "WARNING", "KEYFRAMES_FILEPOS_TYPE_BAD")
             types == IF "MISSING" \in {e.times.type, e.positions.type} THEN <<>>
                      ELSE badTimes \o badPositions
             contents == IF {e.times.type, e.positions.type} # {"ARRAY"} THEN <<>>
                         ELSE IF ~SameLength(e)
                              THEN Message("WARNING", "KEYFRAMES_ARRAY_LENGTH_BAD")
                              ELSE FlattenSeq(ss)
  <1>1. {"KEYFRAMES_TIMES_MISSING", "KEYFRAMES_FILEPOS_MISSING", "KEYFRAMES_TIMES_TYPE_BAD",
         "KEYFRAMES_FILEPOS_TYPE_BAD", "KEYFRAMES_ARRAY_LENGTH_BAD"}
          \subseteq OtherCodes \intersect IndexCodes
    BY DEF OtherCodes, IndexCodes
  <1>2. "WARNING" \in MildLevels
    BY DEF MildLevels
  <1>3. ss \in Seq(Mild) /\ DOMAIN ss = DOMAIN e.times.list
        /\ DOMAIN e.times.list = 1 .. Len(e.times.list)
    <2>1. DOMAIN e.times.list = 1 .. Len(e.times.list) /\ Len(e.times.list) \in Nat
      OBVIOUS
    <2>2. \A n \in DOMAIN e.times.list : KeyframeMessages(e, n) \in Mild
      BY KeyframeMild
    <2> HIDE DEF Mild
    <2> QED BY <2>1, <2>2
  <1>4. \A n \in DOMAIN e.times.list : ss[n] = KeyframeMessages(e, n)
    OBVIOUS
  <1> HIDE DEF ss
  <1>5. FlattenSeq(ss) \in Mild
    BY <1>3, FlattenMild
  <1>6. KeyframesMessages(e) = noTimes \o noPositions \o types \o contents
    BY DEF KeyframesMessages, ss
  <1>7. noTimes \in Mild /\ noPositions \in Mild /\ badTimes \in Mild /\ badPositions \in Mild
        /\ <<>> \in Mild /\ Message("WARNING", "KEYFRAMES_ARRAY_LENGTH_BAD") \in Mild
    BY <1>1, <1>2, FoundMild
  <1>8. types \in Mild /\ contents \in Mild /\ noTimes \o noPositions \in Mild
        /\ noTimes \o noPositions \o types \in Mild
    <2> HIDE DEF noTimes, noPositions, badTimes, badPositions
    <2> QED BY <1>5, <1>7, JoinMild
  <1>9. Quiet(noTimes) /\ Quiet(noPositions) /\ Quiet(types) /\ Quiet(contents)
    <2> HIDE DEF noTimes, noPositions, types, contents
    <2> QED BY <1>6, <1>7, <1>8, JoinQuiet
  <1>10. e.times.type # "MISSING" /\ e.positions.type # "MISSING"
    BY <1>1, <1>9, FoundTells DEF Quiet
  <1>11. Quiet(badTimes) /\ Quiet(badPositions)
    <2>1. types = badTimes \o badPositions
      BY <1>10
    <2> HIDE DEF badTimes, badPositions, types
    <2> QED BY <1>7, <1>9, <2>1, JoinQuiet
  <1>12. e.times.type # "OTHER" /\ e.positions.type # "OTHER"
    BY <1>1, <1>11, FoundTells DEF Quiet
  <1>13. e.times.type = "ARRAY" /\ e.positions.type = "ARRAY"
    BY <1>10, <1>12 DEF ListTypes
  <1>14. SameLength(e)
    <2> SUFFICES ASSUME ~SameLength(e) PROVE FALSE
      OBVIOUS
    <2>1. contents = Message("WARNING", "KEYFRAMES_ARRAY_LENGTH_BAD")
      BY <1>13
    <2>2. Tells(Message("WARNING", "KEYFRAMES_ARRAY_LENGTH_BAD"), "KEYFRAMES_ARRAY_LENGTH_BAD")
      BY FoundTells
    <2> HIDE DEF contents
    <2> QED BY <1>1, <1>9, <2>1, <2>2 DEF Quiet
  <1>15. Quiet(FlattenSeq(ss))
    <2>1. contents = FlattenSeq(ss)
      BY <1>13, <1>14
    <2> HIDE DEF contents
    <2> QED BY <1>9, <2>1
  <1>16. ASSUME NEW n \in 1 .. Len(e.times.list)
         PROVE  e.positions.list[n].number = file.pos[ListedKeyframes[n]]
    <2>1. \A c : Tells(ss[n], c) => Tells(FlattenSeq(ss), c)
      BY <1>3, FlattenTells
    <2>2. Quiet(KeyframeMessages(e, n))
      BY <1>3, <1>4, <1>15, <2>1 DEF Quiet
    <2> QED BY <2>2, KeyframeTold
  <1> QED BY <1>14, <1>16 DEF SameLength

(* When nothing is said of the index of an onMetaData, what it lists can   *)
(* be sought.                                                              *)
LEMMA MetaDataTold ==
  ASSUME TypeOK, onMetaData # 0, Shown("WARNING"), Quiet(MetaDataMessages)
  PROVE  IndexSeekable
  <1> DEFINE ss == [k \in DOMAIN Entries |-> EntryMessages(Entries[k])]
  <1>0. onMetaData \in DOMAIN file.tags
    BY SMTT(30) DEF TypeOK, IsFile, End
  <1>1. /\ Entries \in Seq({Entries[k] : k \in DOMAIN Entries})
        /\ \A k \in DOMAIN Entries :
             LET e == Entries[k] IN
             /\ e.times.type \in ListTypes /\ e.positions.type \in ListTypes
             /\ e.times.list \in Seq({e.times.list[n] : n \in DOMAIN e.times.list})
             /\ e.positions.list \in Seq({e.positions.list[n] : n \in DOMAIN e.positions.list})
    BY ZenonT(40), <1>0 DEF TypeOK, IsFile, IsTag, Entries
  <1>2. ss \in Seq(Mild) /\ DOMAIN ss = DOMAIN Entries
    <2>1. \A k \in DOMAIN Entries : EntryMessages(Entries[k]) \in Mild
      BY EntryMild
    <2> HIDE DEF Mild
    <2> QED BY <1>1, <2>1
  <1>3. \A k \in DOMAIN Entries : ss[k] = EntryMessages(Entries[k])
    OBVIOUS
  <1>4. Quiet(FlattenSeq(ss))
    <2> DEFINE noWidth == Found(Lacks("width"), "ERROR", "VIDEO_WIDTH_MISSING")
               noHeight == Found(Lacks("height"), "ERROR", "VIDEO_HEIGHT_MISSING")
    <2>1. noWidth \in Mild /\ noHeight \in Mild
      BY FoundMild DEF MildLevels, OtherCodes
    <2>2. MetaDataMessages = FlattenSeq(ss) \o noWidth \o noHeight
      BY DEF MetaDataMessages
    <2> HIDE DEF ss, noWidth, noHeight
    <2>3. FlattenSeq(ss) \in Mild
      BY <1>2, FlattenMild
    <2>4. FlattenSeq(ss) \o noWidth \in Mild
      BY <2>1, <2>3, JoinMild
    <2> QED BY <2>1, <2>2, <2>3, <2>4, JoinQuiet
  <1> HIDE DEF ss
  <1>5. ASSUME NEW k \in KeyframeIndex, NEW n \in DOMAIN Entries[k].positions.list
        PROVE  Seekable(Entries[k].positions.list[n])
    <2> DEFINE e == Entries[k]
    <2>1. k \in DOMAIN Entries /\ e.name = "keyframes" /\ e.type = "OBJECT"
      BY DEF KeyframeIndex
    <2>2. /\ e.times.type \in ListTypes /\ e.positions.type \in ListTypes
          /\ e.times.list \in Seq({e.times.list[m] : m \in DOMAIN e.times.list})
          /\ e.positions.list \in Seq({e.positions.list[m] : m \in DOMAIN e.positions.list})
      BY <1>1, <2>1
    <2> HIDE DEF e
    <2>3. EntryMessages(e) = KeyframesMessages(e)
      <3>1. TypeOf("keyframes") = "OBJECT"
        BY DEF TypeOf, Booleans, Numbers, OfVideo, OfAudio, OfFile
      <3> QED BY <2>1, <3>1 DEF EntryMessages
    <2>4. Quiet(KeyframesMessages(e))
      <3>1. \A c : Tells(ss[k], c) => Tells(FlattenSeq(ss), c)
        BY <1>2, <2>1, FlattenTells
      <3>2. ss[k] = KeyframesMessages(e)
        BY <1>3, <2>1, <2>3 DEF e
      <3> QED BY <1>4, <3>1, <3>2 DEF Quiet
    <2>5. /\ Len(e.times.list) = Len(ListedKeyframes)
          /\ Len(e.positions.list) = Len(ListedKeyframes)
          /\ \A m \in 1 .. Len(e.times.list) :
               e.positions.list[m].number = file.pos[ListedKeyframes[m]]
      BY <2>2, <2>4, IndexTold
    <2>6. n \in 1 .. Len(e.positions.list)
      BY <2>2 DEF e
    <2>7. e.positions.list[n].number = file.pos[ListedKeyframes[n]]
      BY <2>5, <2>6
    <2>8. ListedKeyframes[n] \in KeyframeTags
      BY <2>5, <2>6, ListedFacts
    <2>9. /\ ListedKeyframes[n] \in DOMAIN file.tags
          /\ file.tags[ListedKeyframes[n]].type = "VIDEO"
          /\ file.tags[ListedKeyframes[n]].frame = "KEY"
      BY SMTT(30), <2>8 DEF KeyframeTags, Whole, End, TypeOK, IsFile
    <2> QED BY <2>7, <2>9 DEF Seekable, e
  <1> QED BY <1>5 DEF IndexSeekable

(* Where the index is looked for and what it says depend on the file.      *)
LEMMA IndexFrame ==
  ASSUME UNCHANGED <<file, onMetaData>>
  PROVE  IndexSeekable' <=> IndexSeekable
  BY DEF IndexSeekable, KeyframeIndex, Entries, Seekable

(* A report only grows.                                                    *)
LEMMA SilentBefore ==
  ASSUME TypeOK, NEW ms \in Notes, report' = report \o ms, IndexSilent'
  PROVE  IndexSilent /\ Quiet(ms)
  <1>1. ms \in Seq(Messages) /\ report \in Seq(Messages)
    BY NotesMessages DEF TypeOK
  <1>2. /\ \A k \in DOMAIN report : k \in DOMAIN report' /\ report'[k] = report[k]
        /\ \A k \in DOMAIN ms : Len(report) + k \in DOMAIN report'
                                /\ report'[Len(report) + k] = ms[k]
    <2> HIDE DEF Messages
    <2> QED BY <1>1, ConcatElements
  <1>3. IndexSilent
    BY <1>2 DEF IndexSilent
  <1>4. Quiet(ms)
    <2> SUFFICES ASSUME NEW c \in IndexCodes, NEW k \in DOMAIN ms, ms[k].code = c PROVE FALSE
      BY DEF Quiet, Tells
    <2> QED BY <1>2 DEF IndexSilent
  <1> QED BY <1>3, <1>4

(* The steps from which on the index has been looked for.                  *)
LEMMA IndexStep ==
  ASSUME ReportInv, IndexInv, [Next]_vars
  PROVE  IndexInv'
  <1> DEFINE late == {"GLOBAL", "END", "DONE"}
  <1>1. TypeOK /\ FatalInv /\ FirstMetaDataChecked
    BY DEF ReportInv
  <1>2. pc \notin {"METADATA", "GLOBAL", "END", "DONE"} => ~info.known
    BY DEF IndexInv
  <1>3. (Prints("WARNING")' <=> Prints("WARNING")) /\ file' = file
    <2>1. file' = file /\ opts' = opts
      BY DEF Next, vars, OpenFile, CheckHeader, CheckTag, AbortTag, EndOfTags, CheckWhole,
             CheckMetaData, CheckGlobal, Finish
    <2> QED BY <2>1 DEF Prints, Shown
  (* A step that finds no info.                                            *)
  <1>4. ASSUME ~info'.known PROVE IndexInv'
    BY <1>4 DEF IndexInv
  (* A step after the index has been compared.                             *)
  <1>5. ASSUME pc \in late, pc' \in late, info' = info, onMetaData' = onMetaData,
               Prints("WARNING") /\ IndexSilent' => IndexSilent
        PROVE  IndexInv'
    <2>1. IndexSeekable' <=> IndexSeekable
      BY <1>3, <1>5, IndexFrame
    <2> HIDE DEF IndexSeekable, IndexSilent, Prints
    <2> QED BY <1>3, <1>5, <2>1 DEF IndexInv
  <1>6. CASE OpenFile \/ CheckHeader \/ CheckTag \/ AbortTag \/ EndOfTags
    <2>1. info' = info /\ pc \in {"OPEN", "HEADER", "TAGS"}
      BY <1>6 DEF OpenFile, CheckHeader, CheckTag, AbortTag, EndOfTags, Stage
    <2> QED BY <1>2, <1>4, <2>1
  <1>7. CASE CheckWhole
    <2>1. pc = "FINAL" /\ onMetaData' = onMetaData
      BY <1>7 DEF CheckWhole, Stage, tagVars
    <2>2. CASE onMetaData = 0 \/ InfoFails
      <3>1. info' = info
        BY <1>7, <2>2 DEF CheckWhole
      <3> QED BY <1>2, <1>4, <2>1, <3>1
    <2>3. CASE ~(onMetaData = 0 \/ InfoFails)
      <3>1. ~Fatal(FinalMessages)
        BY <1>1, <2>3, FinalFatal
      <3>2. pc' = "METADATA" /\ onMetaData' # 0
        BY <1>7, <2>1, <2>3, <3>1 DEF CheckWhole, Stage
      <3> QED BY <3>2 DEF IndexInv
    <2> QED BY <2>2, <2>3
  <1>8. CASE CheckMetaData
    <2>1. /\ pc = "METADATA" /\ onMetaData' = onMetaData /\ info' = info /\ opts' = opts
          /\ onMetaData # 0
      BY <1>1, <1>8 DEF CheckMetaData, Stage, tagVars, FatalInv
    <2>2. MetaDataMessages \in Notes /\ ~Fatal(MetaDataMessages)
      BY <1>1, <2>1, MetaDataMild, MildOthers, OthersNotes
    <2>3. pc' = "GLOBAL" /\ Report(MetaDataMessages)
      BY <1>8, <2>2 DEF CheckMetaData, Stage, UpToFatal
    <2>4. ASSUME Prints("WARNING"), IndexSilent' PROVE IndexSeekable'
      <3>1. report' = report \o MetaDataMessages /\ Shown("WARNING")
        BY <2>3, <2>4 DEF Report, Prints
      <3>2. Quiet(MetaDataMessages)
        BY <1>1, <2>2, <2>4, <3>1, SilentBefore
      <3>3. IndexSeekable
        BY <1>1, <2>1, <3>1, <3>2, MetaDataTold
      <3> QED BY <1>3, <2>1, <3>3, IndexFrame
    <2>5. info'.known => onMetaData' # 0
      BY <2>1
    <2> HIDE DEF IndexSeekable, IndexSilent, Prints
    <2> QED BY <1>3, <2>3, <2>4, <2>5 DEF IndexInv
  <1>9. CASE CheckGlobal
    <2>1. PICK found \in InfoRead : Stage("GLOBAL", GlobalMessages(found), "END")
      BY <1>9 DEF CheckGlobal
    <2>2. /\ pc = "GLOBAL" /\ pc' = "END" /\ info' = info /\ onMetaData' = onMetaData
          /\ Report(UpToFatal(GlobalMessages(found)))
      BY <1>9, <2>1 DEF CheckGlobal, Stage, tagVars
    <2>3. GlobalMessages(found) \in Notes
      BY GlobalOthers, OthersNotes
    <2>4. UpToFatal(GlobalMessages(found)) \in Notes
      BY <2>3, Printed
    <2>5. Prints("WARNING") /\ IndexSilent' => IndexSilent
      BY <1>1, <2>2, <2>4, SilentBefore DEF Report, Prints
    <2> QED BY <1>5, <2>2, <2>5
  <1>10. CASE Finish
    <2>1. /\ pc = "END" /\ pc' = "DONE" /\ info' = info /\ onMetaData' = onMetaData
          /\ report' = report
      BY <1>10 DEF Finish, tagVars
    <2> QED BY <1>5, <2>1 DEF IndexSilent
  <1>11. CASE UNCHANGED vars
    <2>1. /\ pc' = pc /\ info' = info /\ onMetaData' = onMetaData /\ report' = report
          /\ file' = file
      BY <1>11 DEF vars, tagVars
    <2>2. IndexSeekable' <=> IndexSeekable
      BY <2>1, IndexFrame
    <2>3. IndexSilent' <=> IndexSilent
      BY <2>1 DEF IndexSilent
    <2> HIDE DEF IndexSeekable, IndexSilent, Prints
    <2> QED BY <1>3, <2>1, <2>2, <2>3 DEF IndexInv
  <1> QED BY <1>6, <1>7, <1>8, <1>9, <1>10, <1>11 DEF Next

(* Nothing has been said of the index before the file is opened.           *)
LEMMA IndexInit == ASSUME Init PROVE IndexInv
  BY DEF Init, NoInfo, IndexInv

----------------------------------------------------------------------------
(***************************************************************************)
(* The theorems.                                                           *)
(***************************************************************************)

(* The invariant of the check, in every file it may be given and with any  *)
(* options (check_flv_file, check.c:204-1480).                             *)
THEOREM CheckInvariant == Spec => []CheckInv
  <1>1. Init => CheckInv
    BY CheckInit, IndexInit DEF CheckInv
  <1>2. CheckInv /\ [Next]_vars => CheckInv'
    BY ReportStep, IndexStep DEF CheckInv
  <1> QED BY <1>1, <1>2, PTL DEF Spec

(* The state of the check stays within its types: the tags its counters    *)
(* and its remembered tags point at exist.                                 *)
THEOREM CheckTypes == Spec => []TypeOK
  BY CheckInvariant, PTL DEF CheckInv, ReportInv

(* The totals of the report and the exit status say what the report says   *)
(* (man page, line 298).                                                   *)
THEOREM TotalsAreTrue == Spec => []TotalsTrue
  <1>1. CheckInv => TotalsTrue
    BY TotalsMean DEF CheckInv
  <1> QED BY <1>1, CheckInvariant, PTL

(* A check that prints no fatal message has looked at every tag, one that  *)
(* prints one stops there; two tags of an unknown type in a row are fatal  *)
(* (check.c:264-750).                                                      *)
THEOREM FatalEndsTheCheck == Spec => []FatalEnds
  BY CheckInvariant, PTL DEF CheckInv, ReportInv

(* A tag earlier than the one before it of the same medium is reported, and *)
(* no other is (check.c:398-414).                                          *)
THEOREM DecreasesAreReported == Spec => []DecreaseReported
  BY CheckInvariant, PTL DEF CheckInv, ReportInv

(* Formats are compared with those of the last tag of the same medium that *)
(* has a body, and only the first video frame is asked to be a keyframe    *)
(* (check.c:457, 521, 542).                                                *)
THEOREM FormatsAreCompared == Spec => []FormatsCompared
  BY CheckInvariant, PTL DEF CheckInv, ReportInv

(* The first tag at which audio and video are a second apart is reported,  *)
(* and no other (check.c:429-435).                                         *)
THEOREM DesyncIsReportedOnce == Spec => []DesyncOnce
  BY CheckInvariant, PTL DEF CheckInv, ReportInv

(* The metadata compared with the file is that of the first onMetaData, and *)
(* every other one is reported (check.c:627-651).                          *)
THEOREM FirstMetaDataIsChecked == Spec => []FirstMetaDataChecked
  BY CheckInvariant, PTL DEF CheckInv, ReportInv

(* An index of keyframes the check has nothing to say about only holds     *)
(* positions of keyframes (check.c:1298-1418).                             *)
THEOREM KeyframesAreTrusted == Spec => []KeyframesTrusted
  <1>1. CheckInv => KeyframesTrusted
    BY DEF CheckInv, IndexInv, KeyframesTrusted, Finished
  <1> QED BY <1>1, CheckInvariant, PTL
=============================================================================
