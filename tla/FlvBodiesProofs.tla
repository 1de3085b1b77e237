-------------------------- MODULE FlvBodiesProofs --------------------------
(***************************************************************************)
(* Theorems about FlvBodies: what is read of any bytes is counted as no    *)
(* more than it took, and what is written of it is as long as it is        *)
(* counted and reads back the same.                                        *)
(***************************************************************************)
EXTENDS FlvBodies, SequenceTheorems, WellFoundedInduction, TLAPS

----------------------------------------------------------------------------
(* Induction over the naturals, for a set.                                 *)
LEMMA SetInduction ==
  ASSUME NEW S \in SUBSET Nat, 0 \in S, \A n \in S : n + 1 \in S
  PROVE  S = Nat
<1>. DEFINE R == OpToRel(<, Nat)
            T == Nat \ S
<1>1. IsWellFoundedOn(R, Nat)
  BY NatLessThanWellFounded, Zenon
<1>2. ASSUME T # {} PROVE FALSE
  <2>1. \E x \in T : \A y \in T : ~(<<y, x>> \in R)
    <3>1. T \subseteq Nat
      OBVIOUS
    <3>. HIDE DEF R, T
    <3>. QED  BY <1>1, <1>2, <3>1, WFMin
  <2>2. PICK x \in T : \A y \in T : ~(<<y, x>> \in R)
    BY <2>1
  <2>3. \A y \in T : ~(y < x)
    BY <2>2, Zenon DEF OpToRel
  <2>4. x # 0 /\ x - 1 \in Nat
    OBVIOUS
  <2>5. x - 1 \in T
    BY <2>4
  <2>. QED  BY <2>3, <2>4, <2>5
<1>. QED  BY <1>2

----------------------------------------------------------------------------
(* Values, and functions of values that are defined by their items.        *)

(* The function of levels is what its definition says: by induction it     *)
(* exists.                                                                 *)
LEMMA ValuesUpToFact ==
  \A d \in 0 .. MaxDepth :
    ValuesUpTo[d] = ValuesOver(IF d = 0 THEN {} ELSE ValuesUpTo[d - 1])
<1>. DEFINE Defined(f, n) == f = [d \in 0 .. n |-> ValuesOver(IF d = 0 THEN {} ELSE f[d - 1])]
            S == {n \in Nat : \E f : Defined(f, n)}
<1>1. 0 \in S
  <2>. DEFINE f == [d \in 0 .. 0 |-> ValuesOver({})]
  <2>1. Defined(f, 0)
    <3>1. \A d \in 0 .. 0 : d = 0
      OBVIOUS
    <3>. QED  BY <3>1
  <2>. HIDE DEF f, Defined
  <2>. QED  BY <2>1
<1>2. \A n \in S : n + 1 \in S
  <2>. SUFFICES ASSUME NEW n \in Nat, NEW f, Defined(f, n) PROVE \E g : Defined(g, n + 1)
    OBVIOUS
  <2>. DEFINE g == [d \in 0 .. n + 1 |-> ValuesOver(IF d = 0 THEN {} ELSE f[d - 1])]
  <2>1. \A d \in 0 .. n : f[d] = g[d]
    OBVIOUS
  <2>2. \A d \in 0 .. n + 1 : d # 0 => d - 1 \in 0 .. n
    OBVIOUS
  <2>3. Defined(g, n + 1)
    BY <2>1, <2>2
  <2>. HIDE DEF g, Defined
  <2>. QED  BY <2>3
<1>3. S = Nat
  <2>. HIDE DEF S
  <2>1. S \in SUBSET Nat
    BY DEF S
  <2>. QED  BY <1>1, <1>2, <2>1, SetInduction
<1>4. \E f : Defined(f, MaxDepth)
  BY <1>3, WidthsAssumption
<1>. DEFINE V == CHOOSE f : Defined(f, MaxDepth)
<1>5. Defined(V, MaxDepth)
  <2>. HIDE DEF Defined
  <2>. QED  BY <1>4
<1>6. ValuesUpTo = V
  BY DEF ValuesUpTo
<1>. HIDE DEF V
<1>. QED  BY <1>5, <1>6

(* Of more inner values more values are made.                              *)
LEMMA ValuesOverGrow ==
  ASSUME NEW S, NEW T, S \subseteq T
  PROVE  ValuesOver(S) \subseteq ValuesOver(T)
<1>1. [name : Seq(Byte), data : S] \subseteq [name : Seq(Byte), data : T]
  OBVIOUS
<1>2. [name : {<<>>}, data : S] \subseteq [name : {<<>>}, data : T]
  OBVIOUS
<1>3. /\ Seq([name : Seq(Byte), data : S]) \subseteq Seq([name : Seq(Byte), data : T])
      /\ Seq([name : {<<>>}, data : S]) \subseteq Seq([name : {<<>>}, data : T])
  BY <1>1, <1>2, SeqMonotonic, Zenon
<1>. QED  BY <1>3 DEF ValuesOver

(* What the items of a value of so many levels are.                        *)
Inside(d) == IF d = 0 THEN {} ELSE ValuesUpTo[d - 1]

(* The values of a level are made of those inside it.                      *)
LEMMA InsideFact ==
  \A d \in 0 .. MaxDepth : /\ ValuesUpTo[d] = ValuesOver(Inside(d))
                           /\ d + 1 \in 0 .. MaxDepth => Inside(d + 1) = ValuesUpTo[d]
<1>. SUFFICES ASSUME NEW d \in 0 .. MaxDepth
              PROVE  /\ ValuesUpTo[d] = ValuesOver(Inside(d))
                     /\ d + 1 \in 0 .. MaxDepth => Inside(d + 1) = ValuesUpTo[d]
  OBVIOUS
<1>1. ValuesUpTo[d] = ValuesOver(Inside(d))
  BY ValuesUpToFact, Zenon DEF Inside
<1>2. d + 1 # 0 /\ (d + 1) - 1 = d
  BY WidthsAssumption
<1>. QED  BY <1>1, <1>2 DEF Inside

(* What is inside a level is of that level, too.                           *)
LEMMA InsideGrows ==
  \A d \in 0 .. MaxDepth : Inside(d) \subseteq ValuesUpTo[d]
<1>. DEFINE S == {n \in Nat : n \in 0 .. MaxDepth => Inside(n) \subseteq ValuesUpTo[n]}
<1>1. 0 \in S
  BY DEF Inside
<1>2. \A n \in S : n + 1 \in S
  <2>. SUFFICES ASSUME NEW n \in S, n + 1 \in 0 .. MaxDepth
                PROVE  Inside(n + 1) \subseteq ValuesUpTo[n + 1]
    OBVIOUS
  <2>1. n \in 0 .. MaxDepth /\ Inside(n) \subseteq ValuesUpTo[n]
    BY WidthsAssumption
  <2>2. /\ Inside(n + 1) = ValuesUpTo[n]
        /\ ValuesUpTo[n] = ValuesOver(Inside(n))
        /\ ValuesUpTo[n + 1] = ValuesOver(Inside(n + 1))
    BY <2>1, InsideFact
  <2>3. ValuesOver(Inside(n)) \subseteq ValuesOver(Inside(n + 1))
    BY <2>1, <2>2, ValuesOverGrow
  <2>. QED  BY <2>2, <2>3
<1>3. S = Nat
  <2>1. S \in SUBSET Nat
    OBVIOUS
  <2>. HIDE DEF S
  <2>. QED  BY <1>1, <1>2, <2>1, SetInduction
<1>. QED  BY <1>3, WidthsAssumption

(* Every level holds those below it.                                       *)
LEMMA ValuesGrow ==
  ASSUME NEW c \in Nat, NEW d \in Nat, c <= d, d <= MaxDepth
  PROVE  ValuesUpTo[c] \subseteq ValuesUpTo[d]
<1>. DEFINE S == {n \in Nat : c + n <= MaxDepth => ValuesUpTo[c] \subseteq ValuesUpTo[c + n]}
<1>1. 0 \in S
  <2>1. c + 0 = c
    OBVIOUS
  <2>. QED  BY <2>1
<1>2. \A n \in S : n + 1 \in S
  <2>. SUFFICES ASSUME NEW n \in S, c + (n + 1) <= MaxDepth
                PROVE  ValuesUpTo[c] \subseteq ValuesUpTo[c + (n + 1)]
    OBVIOUS
  <2>1. /\ c + n \in 0 .. MaxDepth /\ (c + n) + 1 \in 0 .. MaxDepth
        /\ (c + n) + 1 = c + (n + 1)
    BY WidthsAssumption
  <2>2. ValuesUpTo[c] \subseteq ValuesUpTo[c + n]
    BY <2>1, WidthsAssumption
  <2>3. ValuesUpTo[c + n] \subseteq ValuesUpTo[(c + n) + 1]
    BY <2>1, InsideFact, InsideGrows
  <2>. QED  BY <2>1, <2>2, <2>3
<1>3. S = Nat
  <2>1. S \in SUBSET Nat
    OBVIOUS
  <2>. HIDE DEF S
  <2>. QED  BY <1>1, <1>2, <2>1, SetInduction
<1>4. d - c \in Nat /\ c + (d - c) = d
  OBVIOUS
<1>. QED  BY <1>3, <1>4

(* What a value is made of, and what makes a value.                        *)
LEMMA ValueParts ==
  ASSUME NEW inner, NEW v \in ValuesOver(inner)
  PROVE  /\ v = Value(v.type, v.text, v.items)
         /\ v.type \in PlainTypes \union WithNames \union {"string", "array"}
         /\ v.text \in Seq(Byte) /\ (v.type # "string" => v.text = <<>>)
         /\ v.items \in Seq([name : Seq(Byte), data : inner])
         /\ v.type \notin WithNames \union {"array"} => v.items = <<>>
         /\ v.type = "array" => \A i \in DOMAIN v.items : v.items[i].name = <<>>
<1>. DEFINE S == [name : Seq(Byte), data : inner]
            T == [name : {<<>>}, data : inner]
<1>0. <<>> \in Seq(Byte) /\ <<>> \in Seq(S)
  BY EmptySeq, Zenon
<1>1. CASE v \in {Plain(type) : type \in PlainTypes}
  <2>1. PICK type \in PlainTypes : v = Plain(type)
    BY <1>1
  <2>2. type \notin WithNames \union {"array", "string"}
    BY DEF PlainTypes, WithNames
  <2>3. v.type = type /\ v.text = <<>> /\ v.items = <<>> /\ v = Value(type, <<>>, <<>>)
    BY <2>1 DEF Plain, Value
  <2>. HIDE DEF S
  <2>. QED  BY <1>0, <2>2, <2>3 DEF S
<1>2. CASE v \in [type : {"string"}, text : Seq(Byte), items : {<<>>}]
  <2>1. v.type = "string" /\ v.text \in Seq(Byte) /\ v.items = <<>> /\ v = Value("string", v.text, <<>>)
    BY <1>2 DEF Value
  <2>2. "string" \notin WithNames \union {"array"}
    BY DEF WithNames
  <2>. HIDE DEF S
  <2>. QED  BY <1>0, <2>1, <2>2 DEF S
<1>3. CASE v \in [type : WithNames, text : {<<>>}, items : Seq(S)]
  <2>. HIDE DEF S
  <2>1. /\ v.type \in WithNames /\ v.text = <<>> /\ v.items \in Seq(S)
        /\ v = Value(v.type, <<>>, v.items)
    BY <1>3 DEF Value
  <2>2. v.type # "string" /\ v.type # "array"
    BY <2>1 DEF WithNames
  <2>. QED  BY <1>0, <2>1, <2>2 DEF S
<1>4. CASE v \in [type : {"array"}, text : {<<>>}, items : Seq(T)]
  <2>3. T \subseteq S
    BY EmptySeq
  <2>5. \A u \in T : u.name = <<>>
    OBVIOUS
  <2>. HIDE DEF S, T
  <2>1. v.items \in Seq(T) /\ v.type = "array" /\ v.text = <<>> /\ v = Value("array", <<>>, v.items)
    BY <1>4 DEF Value
  <2>2. \A i \in DOMAIN v.items : v.items[i].name = <<>>
    <3>1. \A i \in DOMAIN v.items : v.items[i] \in T
      BY <2>1, LenProperties, ElementOfSeq
    <3>. QED  BY <2>5, <3>1
  <2>4. v.items \in Seq(S)
    BY <2>1, <2>3, SeqMonotonic, Zenon
  <2>. QED  BY <1>0, <2>1, <2>2, <2>4 DEF S, WithNames
<1>. QED  BY <1>1, <1>2, <1>3, <1>4 DEF ValuesOver

(* What reading makes of inner values is a value over them.                *)
LEMMA ValueMade ==
  ASSUME NEW inner
  PROVE  /\ \A type \in PlainTypes : Plain(type) \in ValuesOver(inner)
         /\ \A text \in Seq(Byte) : Value("string", text, <<>>) \in ValuesOver(inner)
         /\ \A type \in WithNames, items \in Seq([name : Seq(Byte), data : inner]) :
              Value(type, <<>>, items) \in ValuesOver(inner)
         /\ \A items \in Seq([name : {<<>>}, data : inner]) :
              Value("array", <<>>, items) \in ValuesOver(inner)
  BY DEF ValuesOver, Value

(* Items.                                                                  *)
LEMMA ItemParts ==
  ASSUME NEW inner, NEW v \in ValuesOver(inner)
  PROVE  /\ Len(v.items) \in Nat /\ DOMAIN v.items = 1 .. Len(v.items)
         /\ \A i \in DOMAIN v.items : /\ v.items[i].name \in Seq(Byte)
                                      /\ v.items[i].data \in inner
<1>. DEFINE S == [name : Seq(Byte), data : inner]
<1>1. v.items \in Seq(S)
  BY ValueParts
<1>2. \A x \in S : x.name \in Seq(Byte) /\ x.data \in inner
  OBVIOUS
<1>. HIDE DEF S
<1>3. \A i \in DOMAIN v.items : v.items[i] \in S
  BY <1>1, LenProperties, ElementOfSeq
<1>. QED  BY <1>1, <1>2, <1>3, LenProperties

Kids(f, v) == [i \in DOMAIN v.items |-> f[v.items[i].data]]

(* A function that takes the elements of one set to those of another.     *)
Maps(F, X, Y) == \A x \in X : F[x] \in Y

KidsAre(f, v, X) ==
  /\ Kids(f, v) \in Seq(X) /\ Len(Kids(f, v)) = Len(v.items)
  /\ \A i \in DOMAIN v.items : Kids(f, v)[i] = f[v.items[i].data]

(* What a function makes of the items is a sequence of its results.        *)
LEMMA KidsIn ==
  ASSUME NEW inner, NEW v \in ValuesOver(inner), NEW X, NEW f, Maps(f, inner, X)
  PROVE  KidsAre(f, v, X)
<1>. DEFINE n == Len(v.items)
            k == [i \in 1 .. n |-> f[v.items[i].data]]
<1>1. n \in Nat /\ Kids(f, v) = k
  BY ItemParts DEF Kids
<1>2. \A i \in 1 .. n : f[v.items[i].data] \in X
  BY ItemParts DEF Maps
<1>3. k \in [1 .. n -> X]
  BY <1>2
<1>4. k \in Seq(X) /\ Len(k) = n
  <2>. HIDE DEF k, n
  <2>. QED  BY <1>1, <1>3, SeqDef
<1>5. DOMAIN v.items = 1 .. n
  BY ItemParts
<1>. QED  BY <1>1, <1>4, <1>5 DEF KidsAre

(* A function of values that is computed from those of their items.        *)
Follows(f, V, X, G) == f \in [V -> X] /\ \A v \in V : f[v] = G[<<v, Kids(f, v)>>]

(* A function that follows the items of one level does so one level        *)
(* further.                                                                *)
LEMMA RecursionStep ==
  ASSUME NEW X, NEW I, I \subseteq ValuesOver(I), NEW G,
         \A v \in ValuesOver(I), s \in Seq(X) : G[<<v, s>>] \in X,
         NEW f, Follows(f, I, X, G)
  PROVE  \E g : Follows(g, ValuesOver(I), X, G)
<1>0. f \in [I -> X] /\ \A v \in I : f[v] = G[<<v, Kids(f, v)>>]
  BY DEF Follows
<1>. DEFINE V == ValuesOver(I)
            g == [v \in V |-> G[<<v, Kids(f, v)>>]]
<1>1. \A v \in V : G[<<v, Kids(f, v)>>] \in X
  <2>1. \A v \in V : Kids(f, v) \in Seq(X)
    <3>1. Maps(f, I, X)
      BY <1>0 DEF Maps
    <3>. HIDE DEF V
    <3>2. \A v \in V : KidsAre(f, v, X)
      BY <3>1, KidsIn, Zenon DEF V
    <3>. QED  BY <3>2 DEF KidsAre
  <2>. QED  BY <2>1
<1>2. \A u \in I : g[u] = f[u]
  BY <1>0
<1>3. \A v \in V : Kids(g, v) = Kids(f, v)
  <2>1. \A v \in V : \A i \in DOMAIN v.items : v.items[i].data \in I
    BY ItemParts
  <2>. HIDE DEF g
  <2>. QED  BY <1>2, <2>1 DEF Kids
<1>4. \A v \in V : g[v] = G[<<v, Kids(f, v)>>]
  OBVIOUS
<1>5. g \in [V -> X]
  BY <1>1
<1>. HIDE DEF g
<1>. QED  BY <1>3, <1>4, <1>5 DEF Follows

(* What the items determine is defined of every value: Size, Write and     *)
(* NamesKept are functions.                                                *)
LEMMA ValueRecursion ==
  ASSUME NEW X, NEW G, \A v \in Values, s \in Seq(X) : G[<<v, s>>] \in X
  PROVE  \E f : Follows(f, Values, X, G)
<1>. DEFINE Has(d) == \E f : Follows(f, ValuesUpTo[d], X, G)
            S == {d \in Nat : d <= MaxDepth => Has(d)}
<1>0. ASSUME NEW d \in 0 .. MaxDepth, NEW f, Follows(f, Inside(d), X, G)
      PROVE  Has(d)
  <2>1. ValuesUpTo[d] = ValuesOver(Inside(d)) /\ Inside(d) \subseteq ValuesUpTo[d]
    BY InsideFact, InsideGrows
  <2>2. ValuesUpTo[d] \subseteq Values
    BY ValuesGrow, WidthsAssumption DEF Values
  <2>3. \A v \in ValuesOver(Inside(d)), s \in Seq(X) : G[<<v, s>>] \in X
    BY <2>1, <2>2
  <2>4. Inside(d) \subseteq ValuesOver(Inside(d))
    BY <2>1
  <2>5. \E g : Follows(g, ValuesOver(Inside(d)), X, G)
    BY <1>0, <2>3, <2>4, RecursionStep, Zenon
  <2>. QED  BY <2>1, <2>5
<1>1. 0 \in S
  <2>1. 0 \in 0 .. MaxDepth /\ Inside(0) = {}
    BY WidthsAssumption DEF Inside
  <2>2. Follows([v \in {} |-> 0], Inside(0), X, G)
    BY <2>1 DEF Follows
  <2>. QED  BY <1>0, <2>1, <2>2
<1>2. \A n \in S : n + 1 \in S
  <2>. HIDE DEF Has
  <2>. SUFFICES ASSUME NEW n \in S, n + 1 <= MaxDepth PROVE Has(n + 1)
    OBVIOUS
  <2>1. n \in 0 .. MaxDepth /\ n + 1 \in 0 .. MaxDepth
    BY WidthsAssumption
  <2>2. PICK f : Follows(f, ValuesUpTo[n], X, G)
    BY <2>1 DEF Has
  <2>3. Inside(n + 1) = ValuesUpTo[n]
    BY <2>1, InsideFact
  <2>. HIDE DEF S
  <2>. QED  BY <1>0, <2>1, <2>2, <2>3
<1>3. S = Nat
  <2>1. S \in SUBSET Nat
    OBVIOUS
  <2>. HIDE DEF S
  <2>. QED  BY <1>1, <1>2, <2>1, SetInduction
<1>. QED  BY <1>3, WidthsAssumption DEF Values

(* What holds of a value when it holds of its items, holds of all values.  *)
LEMMA ValueItems ==
  \A v \in Values : /\ v \in ValuesOver(Values)
                    /\ \A i \in DOMAIN v.items : v.items[i].data \in Values
<1>1. MaxDepth \in 0 .. MaxDepth /\ Values = ValuesOver(Inside(MaxDepth))
      /\ Inside(MaxDepth) \subseteq Values
  BY InsideFact, InsideGrows, WidthsAssumption DEF Values
<1>2. Values \subseteq ValuesOver(Values)
  BY <1>1, ValuesOverGrow, Zenon
<1>. QED  BY <1>2, ItemParts

(* Induction over values: what holds of a value when it holds of its items *)
(* holds of all values.                                                    *)
LEMMA ValueInduction ==
  ASSUME NEW P, \A v \in Values : (\A i \in DOMAIN v.items : v.items[i].data \in P) => v \in P
  PROVE  \A v \in Values : v \in P
<1>. DEFINE S == {d \in Nat : d <= MaxDepth => ValuesUpTo[d] \subseteq P}
<1>0. ASSUME NEW d \in 0 .. MaxDepth, Inside(d) \subseteq P PROVE ValuesUpTo[d] \subseteq P
  <2>1. ValuesUpTo[d] = ValuesOver(Inside(d)) /\ ValuesUpTo[d] \subseteq Values
    BY InsideFact, ValuesGrow, WidthsAssumption DEF Values
  <2>2. \A v \in ValuesUpTo[d] : \A i \in DOMAIN v.items : v.items[i].data \in Inside(d)
    BY <2>1, ItemParts
  <2>. QED  BY <1>0, <2>1, <2>2
<1>1. 0 \in S
  BY <1>0, WidthsAssumption DEF Inside
<1>2. \A n \in S : n + 1 \in S
  <2>. SUFFICES ASSUME NEW n \in S, n + 1 <= MaxDepth PROVE ValuesUpTo[n + 1] \subseteq P
    OBVIOUS
  <2>1. n \in 0 .. MaxDepth /\ n + 1 \in 0 .. MaxDepth
    BY WidthsAssumption
  <2>2. ValuesUpTo[n] \subseteq P
    BY <2>1
  <2>3. Inside(n + 1) = ValuesUpTo[n]
    BY <2>1, InsideFact
  <2>. QED  BY <1>0, <2>1, <2>2, <2>3
<1>3. S = Nat
  <2>1. S \in SUBSET Nat
    OBVIOUS
  <2>. HIDE DEF S
  <2>. QED  BY <1>1, <1>2, <2>1, SetInduction
<1>. QED  BY <1>3, WidthsAssumption DEF Values

(* Division by the base.                                                   *)
LEMMA Division ==
  ASSUME NEW n \in Nat
  PROVE  /\ n \div Base \in Nat /\ n % Base \in Byte
         /\ n = (n \div Base) * Base + (n % Base)
  BY WidthsAssumption DEF Byte

(* A digit behind a number: dividing gives both back.                      *)
LEMMA Quotient ==
  ASSUME NEW q \in Nat, NEW b \in Byte
  PROVE  /\ q * Base + b \in Nat
         /\ (q * Base + b) \div Base = q /\ (q * Base + b) % Base = b
<1>. DEFINE n == q * Base + b
            r == n \div Base
            c == n % Base
<1>1. Base \in Nat \ {0} /\ b \in Nat /\ b < Base
  BY WidthsAssumption DEF Byte
<1>2. n \in Nat
  BY <1>1
<1>. HIDE DEF n
<1>3. r \in Nat /\ c \in Nat /\ c < Base /\ n = r * Base + c
  BY <1>1, <1>2, Division DEF Byte
<1>4. n = q * Base + b
  BY DEF n
<1>. HIDE DEF r, c
<1>5. ASSUME r < q PROVE FALSE
  <2>1. PICK k \in Nat : q = r + 1 + k
    <3>1. q - r - 1 \in Nat /\ q = r + 1 + (q - r - 1)
      BY <1>3, <1>5
    <3>. QED  BY <3>1
  <2>2. q * Base = r * Base + Base + k * Base /\ k * Base \in Nat
    BY <1>1, <1>3, <2>1
  <2>. QED  BY <1>1, <1>3, <1>4, <2>2
<1>6. ASSUME q < r PROVE FALSE
  <2>1. PICK k \in Nat : r = q + 1 + k
    <3>1. r - q - 1 \in Nat /\ r = q + 1 + (r - q - 1)
      BY <1>3, <1>6
    <3>. QED  BY <3>1
  <2>2. r * Base = q * Base + Base + k * Base /\ k * Base \in Nat
    BY <1>1, <1>3, <2>1
  <2>. QED  BY <1>1, <1>3, <1>4, <2>2
<1>7. r = q
  BY <1>3, <1>5, <1>6
<1>8. c = b
  BY <1>1, <1>3, <1>4, <1>7
<1>. QED  BY <1>2, <1>7, <1>8 DEF n, r, c

(* Division keeps the order.                                               *)
LEMMA DivisionGrows ==
  ASSUME NEW m \in Nat, NEW n \in Nat, m <= n
  PROVE  m \div Base <= n \div Base
<1>. DEFINE q == m \div Base
            r == n \div Base
<1>1. Base \in Nat \ {0}
  BY WidthsAssumption
<1>2. /\ q \in Nat /\ r \in Nat /\ m % Base \in Nat /\ n % Base \in Nat
      /\ m % Base < Base /\ n % Base < Base
      /\ m = q * Base + (m % Base) /\ n = r * Base + (n % Base)
  BY Division, <1>1 DEF Byte
<1>. HIDE DEF q, r
<1>3. ASSUME r < q PROVE FALSE
  <2>1. PICK k \in Nat : q = r + 1 + k
    <3>1. q - r - 1 \in Nat /\ q = r + 1 + (q - r - 1)
      BY <1>2, <1>3
    <3>. QED  BY <3>1
  <2>2. q * Base = r * Base + Base + k * Base /\ k * Base \in Nat
    BY <1>1, <1>2, <2>1
  <2>. QED  BY <1>1, <1>2, <2>2
<1>4. q <= r
  BY <1>2, <1>3
<1>. QED  BY <1>4 DEF q, r

----------------------------------------------------------------------------
(* Functions defined from one number to the next.                          *)
Steps(f, n, a, G) ==
  /\ f = [i \in 0 .. n |-> f[i]] /\ f[0] = a
  /\ \A i \in 1 .. n : f[i] = G[<<i, f[i - 1]>>]

(* A function that is defined step by step exists.                         *)
LEMMA StepsExist ==
  ASSUME NEW a, NEW G, NEW n \in Nat
  PROVE  \E f : Steps(f, n, a, G)
<1>. DEFINE Has(m) == \E f : Steps(f, m, a, G)
            S == {m \in Nat : Has(m)}
<1>1. 0 \in S
  <2>. DEFINE f == [i \in 0 .. 0 |-> a]
  <2>1. f = [i \in 0 .. 0 |-> f[i]] /\ f[0] = a /\ 1 .. 0 = {}
    OBVIOUS
  <2>2. Steps(f, 0, a, G)
    BY <2>1 DEF Steps
  <2>. QED  BY <2>2
<1>2. \A m \in S : m + 1 \in S
  <2>. HIDE DEF Has
  <2>. SUFFICES ASSUME NEW m \in S PROVE Has(m + 1)
    OBVIOUS
  <2>1. PICK f : Steps(f, m, a, G)
    BY DEF Has
  <2>. DEFINE g == [i \in 0 .. m + 1 |-> IF i = m + 1 THEN G[<<m + 1, f[m]>>] ELSE f[i]]
  <2>2. /\ g = [i \in 0 .. m + 1 |-> g[i]] /\ g[0] = f[0]
        /\ \A i \in 1 .. m + 1 : g[i - 1] = f[i - 1]
        /\ \A i \in 1 .. m : g[i] = f[i]
        /\ g[m + 1] = G[<<m + 1, f[m]>>] /\ (m + 1) - 1 = m
    OBVIOUS
  <2>. HIDE DEF g
  <2>3. \A i \in 1 .. m + 1 : g[i] = G[<<i, g[i - 1]>>]
    <3>. TAKE i \in 1 .. m + 1
    <3>1. CASE i = m + 1
      BY <2>2, <3>1
    <3>2. CASE i \in 1 .. m
      BY <2>1, <2>2, <3>2 DEF Steps
    <3>. QED  BY <3>1, <3>2
  <2>4. Steps(g, m + 1, a, G)
    BY <2>1, <2>2, <2>3 DEF Steps
  <2>. QED  BY <2>4 DEF Has
<1>3. S = Nat
  <2>1. S \in SUBSET Nat
    OBVIOUS
  <2>. HIDE DEF S
  <2>. QED  BY <1>1, <1>2, <2>1, SetInduction
<1>. QED  BY <1>3

(* Digits, from the last one to the first.                                 *)
IsShifted(f, n, k) == f = [i \in 0 .. k |-> IF i = 0 THEN n ELSE f[i - 1] \div Base]
Shifted(n, k) == CHOOSE f : IsShifted(f, n, k)

(* The numbers that Digits divides, one after the other.                   *)
LEMMA ShiftedFact ==
  ASSUME NEW n \in Nat, NEW k \in Nat
  PROVE  /\ Shifted(n, k)[0] = n
         /\ \A i \in 1 .. k : Shifted(n, k)[i] = Shifted(n, k)[i - 1] \div Base
<1>. DEFINE G == [p \in Nat \X Nat |-> p[2] \div Base]
<1>1. PICK f : Steps(f, k, n, G)
  BY StepsExist
<1>2. \A i \in 0 .. k : f[i] \in Nat /\ (i > 0 => f[i] = f[i - 1] \div Base)
  <2>. DEFINE S == {i \in Nat : i <= k => f[i] \in Nat /\ (i > 0 => f[i] = f[i - 1] \div Base)}
  <2>1. 0 \in S
    BY <1>1 DEF Steps
  <2>2. \A i \in S : i + 1 \in S
    <3>. SUFFICES ASSUME NEW i \in S, i + 1 <= k
                  PROVE  f[i + 1] \in Nat /\ f[i + 1] = f[(i + 1) - 1] \div Base
      OBVIOUS
    <3>1. f[i] \in Nat /\ (i + 1) - 1 = i /\ i + 1 \in 1 .. k
      OBVIOUS
    <3>2. f[i + 1] = G[<<i + 1, f[i]>>]
      BY <1>1, <3>1 DEF Steps
    <3>3. f[i + 1] = f[i] \div Base
      BY <3>1, <3>2
    <3>. QED  BY <3>1, <3>3, Division
  <2>3. S = Nat
    <3>1. S \in SUBSET Nat
      OBVIOUS
    <3>. HIDE DEF S
    <3>. QED  BY <2>1, <2>2, <3>1, SetInduction
  <2>. QED  BY <2>3
<1>. HIDE DEF G
<1>3. IsShifted(f, n, k)
  <2>1. \A i \in 0 .. k : f[i] = IF i = 0 THEN n ELSE f[i - 1] \div Base
    <3>1. f[0] = n
      BY <1>1 DEF Steps
    <3>2. \A i \in 0 .. k : i # 0 => i > 0
      OBVIOUS
    <3>. QED  BY <1>2, <3>1, <3>2
  <2>2. f = [i \in 0 .. k |-> f[i]]
    BY <1>1 DEF Steps
  <2>. QED  BY <2>1, <2>2, Zenon DEF IsShifted
<1>4. IsShifted(Shifted(n, k), n, k)
  BY <1>3 DEF Shifted
<1>5. \A i \in 0 .. k : Shifted(n, k)[i] = IF i = 0 THEN n ELSE Shifted(n, k)[i - 1] \div Base
  BY <1>4, Zenon DEF IsShifted
<1>. QED  BY <1>5

(* They are naturals.                                                      *)
LEMMA ShiftedIn ==
  ASSUME NEW n \in Nat, NEW k \in Nat
  PROVE  \A i \in 0 .. k : Shifted(n, k)[i] \in Nat
<1>. DEFINE S == {i \in Nat : i <= k => Shifted(n, k)[i] \in Nat}
<1>1. 0 \in S
  BY ShiftedFact
<1>2. \A i \in S : i + 1 \in S
  <2>. SUFFICES ASSUME NEW i \in S, i + 1 <= k PROVE Shifted(n, k)[i + 1] \in Nat
    OBVIOUS
  <2>1. Shifted(n, k)[i] \in Nat /\ (i + 1) - 1 = i /\ i + 1 \in 1 .. k
    OBVIOUS
  <2>2. Shifted(n, k)[i + 1] = Shifted(n, k)[i] \div Base
    BY <2>1, ShiftedFact
  <2>. QED  BY <2>1, <2>2, Division
<1>3. S = Nat
  <2>1. S \in SUBSET Nat
    OBVIOUS
  <2>. HIDE DEF S
  <2>. QED  BY <1>1, <1>2, <2>1, SetInduction
<1>. QED  BY <1>3

(* Digits are as many bytes as are asked for.                              *)
LEMMA DigitsAre ==
  ASSUME NEW n \in Nat, NEW k \in Nat
  PROVE  /\ Digits(n, k) \in Seq(Byte) /\ Len(Digits(n, k)) = k
         /\ \A i \in 1 .. k : Digits(n, k)[i] = Shifted(n, k)[k - i] % Base
<1>1. Digits(n, k) = [i \in 1 .. k |-> Shifted(n, k)[k - i] % Base]
  BY Zenon DEF Digits, Shifted, IsShifted
<1>2. \A i \in 1 .. k : Shifted(n, k)[k - i] % Base \in Byte
  <2>1. \A i \in 1 .. k : k - i \in 0 .. k
    OBVIOUS
  <2>. QED  BY <2>1, ShiftedIn, Division
<1>3. Digits(n, k) \in [1 .. k -> Byte]
  BY <1>1, <1>2
<1>4. Digits(n, k) \in Seq(Byte) /\ Len(Digits(n, k)) = k
  BY <1>3, SeqDef
<1>. QED  BY <1>1, <1>4

(* One more digit: the last is the remainder, the others are those of the  *)
(* quotient.                                                               *)
LEMMA DigitsStep ==
  ASSUME NEW n \in Nat, NEW k \in Nat
  PROVE  Digits(n, k + 1) = Append(Digits(n \div Base, k), n % Base)
<1>. DEFINE f == Shifted(n, k + 1)
            g == Shifted(n \div Base, k)
            S == {i \in Nat : i <= k => f[i + 1] = g[i]}
<1>0. n \div Base \in Nat /\ n % Base \in Byte
  BY Division
<1>1. /\ f[0] = n /\ \A i \in 1 .. k + 1 : f[i] = f[i - 1] \div Base
      /\ g[0] = n \div Base /\ \A i \in 1 .. k : g[i] = g[i - 1] \div Base
  BY <1>0, ShiftedFact
<1>. HIDE DEF f, g
<1>2. 0 \in S
  <2>1. 0 + 1 \in 1 .. k + 1 /\ (0 + 1) - 1 = 0
    OBVIOUS
  <2>. QED  BY <1>1, <2>1
<1>3. \A i \in S : i + 1 \in S
  <2>. SUFFICES ASSUME NEW i \in S, i + 1 <= k PROVE f[(i + 1) + 1] = g[i + 1]
    OBVIOUS
  <2>1. /\ i + 1 \in 1 .. k /\ (i + 1) + 1 \in 1 .. k + 1
        /\ (i + 1) - 1 = i /\ ((i + 1) + 1) - 1 = i + 1
    OBVIOUS
  <2>2. f[i + 1] = g[i]
    BY <2>1
  <2>3. f[(i + 1) + 1] = f[i + 1] \div Base /\ g[i + 1] = g[i] \div Base
    BY <1>1, <2>1
  <2>. QED  BY <2>2, <2>3
<1>4. S = Nat
  <2>1. S \in SUBSET Nat
    OBVIOUS
  <2>. HIDE DEF S
  <2>. QED  BY <1>2, <1>3, <2>1, SetInduction
<1>5. \A i \in 0 .. k : f[i + 1] = g[i]
  BY <1>4
<1>. DEFINE d == Digits(n, k + 1)
            e == Append(Digits(n \div Base, k), n % Base)
<1>6. /\ d \in Seq(Byte) /\ Len(d) = k + 1
      /\ \A i \in 1 .. k + 1 : d[i] = f[(k + 1) - i] % Base
  BY DigitsAre DEF f
<1>7. /\ Digits(n \div Base, k) \in Seq(Byte) /\ Len(Digits(n \div Base, k)) = k
      /\ \A i \in 1 .. k : Digits(n \div Base, k)[i] = g[k - i] % Base
  BY <1>0, DigitsAre DEF g
<1>8. /\ e \in Seq(Byte) /\ Len(e) = k + 1
      /\ \A i \in 1 .. k : e[i] = g[k - i] % Base
      /\ e[k + 1] = n % Base
  BY <1>0, <1>7, AppendProperties
<1>. HIDE DEF d, e
<1>9. \A i \in 1 .. Len(d) : d[i] = e[i]
  <2>. SUFFICES ASSUME NEW i \in 1 .. k + 1 PROVE d[i] = e[i]
    BY <1>6
  <2>1. CASE i = k + 1
    <3>1. (k + 1) - i = 0
      BY <2>1
    <3>. QED  BY <1>1, <1>6, <1>8, <2>1, <3>1
  <2>2. CASE i \in 1 .. k
    <3>1. k - i \in 0 .. k /\ (k + 1) - i = (k - i) + 1
      BY <2>2
    <3>. QED  BY <1>5, <1>6, <1>8, <2>2, <3>1
  <2>. QED  BY <2>1, <2>2
<1>10. d = e
  BY <1>6, <1>8, <1>9, SeqEqual
<1>. QED  BY <1>10 DEF d, e

(* Induction up to a bound.                                                *)
LEMMA StepInduction ==
  ASSUME NEW n \in Nat, NEW P, 0 \in P, \A i \in 1 .. n : i - 1 \in P => i \in P
  PROVE  \A i \in 0 .. n : i \in P
<1>. DEFINE S == {i \in Nat : i <= n => i \in P}
<1>1. 0 \in S
  OBVIOUS
<1>2. \A i \in S : i + 1 \in S
  <2>. SUFFICES ASSUME NEW i \in S, i + 1 <= n PROVE i + 1 \in P
    OBVIOUS
  <2>1. i \in P /\ i + 1 \in 1 .. n /\ (i + 1) - 1 = i
    OBVIOUS
  <2>. QED  BY <2>1
<1>3. S = Nat
  <2>1. S \in SUBSET Nat
    OBVIOUS
  <2>. HIDE DEF S
  <2>. QED  BY <1>1, <1>2, <2>1, SetInduction
<1>. QED  BY <1>3

(* What every step keeps holds of all of them.                             *)
LEMMA StepsIn ==
  ASSUME NEW a, NEW G, NEW n \in Nat, NEW f, Steps(f, n, a, G),
         NEW X, a \in X, \A i \in 1 .. n : \A x \in X : G[<<i, x>>] \in X
  PROVE  \A i \in 0 .. n : f[i] \in X
<1>. DEFINE P == {i \in 0 .. n : f[i] \in X}
<1>1. 0 \in P
  BY DEF Steps
<1>2. \A i \in 1 .. n : i - 1 \in P => i \in P
  <2>. SUFFICES ASSUME NEW i \in 1 .. n, i - 1 \in P PROVE i \in P
    OBVIOUS
  <2>1. f[i - 1] \in X /\ i \in 0 .. n
    OBVIOUS
  <2>2. f[i] = G[<<i, f[i - 1]>>]
    BY DEF Steps
  <2>. QED  BY <2>1, <2>2
<1>. HIDE DEF P
<1>3. \A i \in 0 .. n : i \in P
  BY <1>1, <1>2, StepInduction
<1>. QED  BY <1>3 DEF P

(* Numbers, read digit by digit, and sums.                                 *)
IsUpTo(f, s) == f = [i \in 0 .. Len(s) |-> IF i = 0 THEN 0 ELSE f[i - 1] * Base + s[i]]
UpTo(s) == CHOOSE f : IsUpTo(f, s)

(* The numbers that NumberOf adds up, one after the other.                 *)
LEMMA UpToFact ==
  ASSUME NEW s \in Seq(Nat)
  PROVE  /\ UpTo(s)[0] = 0 /\ \A i \in 0 .. Len(s) : UpTo(s)[i] \in Nat
         /\ \A i \in 1 .. Len(s) : UpTo(s)[i] = UpTo(s)[i - 1] * Base + s[i]
         /\ NumberOf(s) = UpTo(s)[Len(s)]
<1>. DEFINE G == [p \in Nat \X Nat |-> p[2] * Base + s[p[1]]]
            n == Len(s)
<1>0. n \in Nat /\ Base \in Nat /\ \A i \in 1 .. n : s[i] \in Nat
  BY LenProperties, ElementOfSeq, WidthsAssumption
<1>. HIDE DEF n
<1>1. PICK f : Steps(f, n, 0, G)
  BY <1>0, StepsExist
<1>2. \A i \in 1 .. n : \A x \in Nat : G[<<i, x>>] = x * Base + s[i] /\ G[<<i, x>>] \in Nat
  BY <1>0
<1>. HIDE DEF G
<1>3. \A i \in 0 .. n : f[i] \in Nat
  BY <1>0, <1>1, <1>2, StepsIn
<1>4. \A i \in 0 .. n : f[i] = IF i = 0 THEN 0 ELSE f[i - 1] * Base + s[i]
  <2>1. f[0] = 0 /\ \A i \in 1 .. n : f[i] = G[<<i, f[i - 1]>>]
    BY <1>1 DEF Steps
  <2>2. \A i \in 0 .. n : i # 0 => i \in 1 .. n /\ i - 1 \in 0 .. n
    BY <1>0
  <2>. QED  BY <1>2, <1>3, <2>1, <2>2
<1>5. f = [i \in 0 .. n |-> f[i]]
  BY <1>1 DEF Steps
<1>6. IsUpTo(f, s)
  BY <1>4, <1>5, Zenon DEF IsUpTo, n
<1>. DEFINE u == UpTo(s)
<1>7. IsUpTo(u, s)
  BY <1>6 DEF UpTo
<1>. HIDE DEF u
<1>8. \A i \in 0 .. n : u[i] = IF i = 0 THEN 0 ELSE u[i - 1] * Base + s[i]
  BY <1>7, Zenon DEF IsUpTo, n
<1>9. u[0] = 0 /\ \A i \in 1 .. n : u[i] = u[i - 1] * Base + s[i]
  BY <1>0, <1>8
<1>. DEFINE P == {i \in 0 .. n : u[i] \in Nat}
<1>10. \A i \in 0 .. n : i \in P
  <2>1. 0 \in P
    BY <1>0, <1>9
  <2>2. \A i \in 1 .. n : i - 1 \in P => i \in P
    <3>. SUFFICES ASSUME NEW i \in 1 .. n, i - 1 \in P PROVE i \in P
      OBVIOUS
    <3>1. u[i - 1] \in Nat /\ s[i] \in Nat /\ i \in 0 .. n
      BY <1>0
    <3>2. u[i - 1] * Base \in Nat
      BY <1>0, <3>1
    <3>3. u[i] = u[i - 1] * Base + s[i]
      BY <1>9
    <3>. QED  BY <3>1, <3>2, <3>3
  <2>. HIDE DEF P
  <2>. QED  BY <1>0, <2>1, <2>2, StepInduction
<1>11. NumberOf(s) = u[n]
  BY Zenon DEF NumberOf, UpTo, IsUpTo, u, n
<1>. QED  BY <1>9, <1>10, <1>11 DEF u, n

(* One more digit multiplies the number and adds to it.                    *)
LEMMA NumberStep ==
  /\ NumberOf(<<>>) = 0
  /\ \A s \in Seq(Byte) : NumberOf(s) \in Nat
  /\ \A s \in Seq(Byte), b \in Byte : NumberOf(Append(s, b)) = NumberOf(s) * Base + b
<1>0. Byte \subseteq Nat
  BY WidthsAssumption DEF Byte
<1>1. NumberOf(<<>>) = 0
  BY EmptySeq, UpToFact
<1>2. ASSUME NEW s \in Seq(Byte) PROVE s \in Seq(Nat) /\ NumberOf(s) \in Nat
  <2>1. s \in Seq(Nat)
    BY <1>0, SeqMonotonic
  <2>2. Len(s) \in 0 .. Len(s)
    BY LenProperties
  <2>. QED  BY <2>1, <2>2, UpToFact
<1>3. ASSUME NEW s \in Seq(Byte), NEW b \in Byte
      PROVE  NumberOf(Append(s, b)) = NumberOf(s) * Base + b
  <2>. DEFINE t == Append(s, b)
              n == Len(s)
  <2>1. /\ t \in Seq(Byte) /\ Len(t) = n + 1 /\ n \in Nat
        /\ \A i \in 1 .. n : t[i] = s[i]
        /\ t[n + 1] = b
    BY AppendProperties, LenProperties
  <2>. HIDE DEF t, n
  <2>2. /\ UpTo(s)[0] = 0 /\ \A i \in 1 .. n : UpTo(s)[i] = UpTo(s)[i - 1] * Base + s[i]
        /\ NumberOf(s) = UpTo(s)[n]
    BY <1>2, UpToFact DEF n
  <2>3. /\ UpTo(t)[0] = 0 /\ \A i \in 1 .. n + 1 : UpTo(t)[i] = UpTo(t)[i - 1] * Base + t[i]
        /\ NumberOf(t) = UpTo(t)[n + 1]
    <3>1. t \in Seq(Nat)
      BY <1>2, <2>1
    <3>. QED  BY <2>1, <3>1, UpToFact
  <2>. DEFINE P == {i \in 0 .. n : UpTo(t)[i] = UpTo(s)[i]}
  <2>4. \A i \in 0 .. n : i \in P
    <3>1. 0 \in P
      BY <2>1, <2>2, <2>3
    <3>2. \A i \in 1 .. n : i - 1 \in P => i \in P
      BY <2>1, <2>2, <2>3
    <3>. HIDE DEF P
    <3>. QED  BY <2>1, <3>1, <3>2, StepInduction
  <2>5. UpTo(t)[n] = UpTo(s)[n]
    BY <2>1, <2>4
  <2>6. n + 1 \in 1 .. n + 1 /\ (n + 1) - 1 = n
    BY <2>1
  <2>. QED  BY <2>1, <2>2, <2>3, <2>5, <2>6 DEF t
<1>. QED  BY <1>1, <1>2, <1>3

(* Induction over sequences, by what they end or begin with.               *)
LEMMA AppendInduction ==
  ASSUME NEW X, NEW P, <<>> \in P, \A s \in Seq(X), e \in X : s \in P => Append(s, e) \in P
  PROVE  \A s \in Seq(X) : s \in P
<1>. DEFINE All(n) == \A s \in Seq(X) : Len(s) = n => s \in P
            S == {n \in Nat : All(n)}
<1>1. 0 \in S
  BY EmptySeq
<1>2. \A n \in S : n + 1 \in S
  <2>. SUFFICES ASSUME NEW n \in S, NEW s \in Seq(X), Len(s) = n + 1 PROVE s \in P
    OBVIOUS
  <2>1. s # <<>>
    BY EmptySeq
  <2>2. PICK t \in Seq(X), e \in X : s = Append(t, e)
    BY <2>1, SequenceEmptyOrAppend
  <2>3. Len(t) = n
    BY <2>2, AppendProperties, LenProperties
  <2>. QED  BY <2>2, <2>3
<1>3. S = Nat
  <2>1. S \in SUBSET Nat
    OBVIOUS
  <2>. HIDE DEF S
  <2>. QED  BY <1>1, <1>2, <2>1, SetInduction
<1>4. \A n \in Nat : All(n)
  BY <1>3
<1>. QED  BY <1>4, LenProperties

(* A sequence that is not empty is its first element and the rest.         *)
LEMMA SeqSplit ==
  ASSUME NEW X, NEW s \in Seq(X), s # <<>>
  PROVE  /\ Tail(s) \in Seq(X) /\ s[1] \in X /\ s = <<s[1]>> \o Tail(s)
         /\ Len(s) = Len(Tail(s)) + 1
<1>1. /\ Tail(s) \in Seq(X) /\ Len(Tail(s)) = Len(s) - 1 /\ Len(s) \in Nat \ {0}
      /\ \A i \in 1 .. Len(Tail(s)) : Tail(s)[i] = s[i + 1]
  BY HeadTailProperties, EmptySeq
<1>2. s[1] \in X
  BY <1>1, ElementOfSeq
<1>3. <<s[1]>> \in Seq(X) /\ Len(<<s[1]>>) = 1 /\ <<s[1]>>[1] = s[1]
  BY <1>2
<1>. DEFINE t == <<s[1]>> \o Tail(s)
<1>4. /\ t \in Seq(X) /\ Len(t) = 1 + Len(Tail(s))
      /\ \A i \in 1 .. 1 + Len(Tail(s)) : t[i] = IF i <= 1 THEN <<s[1]>>[i] ELSE Tail(s)[i - 1]
  BY <1>1, <1>3, ConcatProperties
<1>. HIDE DEF t
<1>5. \A i \in 1 .. Len(s) : s[i] = t[i]
  BY <1>1, <1>3, <1>4
<1>6. s = t
  BY <1>1, <1>4, <1>5, SeqEqual
<1>. QED  BY <1>1, <1>2, <1>6 DEF t

(* Induction by what a sequence begins with.                               *)
LEMMA PrependInduction ==
  ASSUME NEW X, NEW P, <<>> \in P, \A s \in Seq(X), e \in X : s \in P => <<e>> \o s \in P
  PROVE  \A s \in Seq(X) : s \in P
<1>. DEFINE All(n) == \A s \in Seq(X) : Len(s) = n => s \in P
            S == {n \in Nat : All(n)}
<1>1. 0 \in S
  BY EmptySeq
<1>2. \A n \in S : n + 1 \in S
  <2>. SUFFICES ASSUME NEW n \in S, NEW s \in Seq(X), Len(s) = n + 1 PROVE s \in P
    OBVIOUS
  <2>1. s # <<>>
    BY EmptySeq
  <2>2. /\ Tail(s) \in Seq(X) /\ s[1] \in X /\ s = <<s[1]>> \o Tail(s)
        /\ Len(Tail(s)) = n
    BY <2>1, SeqSplit, LenProperties
  <2>3. Tail(s) \in P
    BY <2>2
  <2>. QED  BY <2>2, <2>3
<1>3. S = Nat
  <2>1. S \in SUBSET Nat
    OBVIOUS
  <2>. HIDE DEF S
  <2>. QED  BY <1>1, <1>2, <2>1, SetInduction
<1>4. \A n \in Nat : All(n)
  BY <1>3
<1>. QED  BY <1>4, LenProperties

----------------------------------------------------------------------------
(* A number that so many bytes have been read as is written as these       *)
(* bytes; one that is smaller still fits in as many.                       *)
LEMMA NoDigits ==
  ASSUME NEW n \in Nat
  PROVE  Digits(n, 0) = <<>>
  BY DigitsAre, EmptySeq

(* The number that bytes stand for is written as these bytes.              *)
LEMMA DigitsOfNumber ==
  \A s \in Seq(Byte) : NumberOf(s) \in Nat /\ Digits(NumberOf(s), Len(s)) = s
<1>. DEFINE P == {s \in Seq(Byte) : Digits(NumberOf(s), Len(s)) = s}
<1>1. <<>> \in P
  BY NumberStep, NoDigits, EmptySeq
<1>2. ASSUME NEW s \in Seq(Byte), NEW b \in Byte, s \in P PROVE Append(s, b) \in P
  <2>1. Append(s, b) \in Seq(Byte) /\ Len(Append(s, b)) = Len(s) + 1 /\ Len(s) \in Nat
    BY AppendProperties, LenProperties
  <2>2. NumberOf(s) \in Nat /\ NumberOf(Append(s, b)) = NumberOf(s) * Base + b
    BY NumberStep
  <2>3. /\ NumberOf(Append(s, b)) \in Nat
        /\ NumberOf(Append(s, b)) \div Base = NumberOf(s)
        /\ NumberOf(Append(s, b)) % Base = b
    BY <2>2, Quotient
  <2>4. Digits(NumberOf(Append(s, b)), Len(s) + 1) = Append(Digits(NumberOf(s), Len(s)), b)
    BY <2>1, <2>3, DigitsStep
  <2>5. Digits(NumberOf(s), Len(s)) = s
    BY <1>2
  <2>. QED  BY <2>1, <2>4, <2>5
<1>. HIDE DEF P
<1>3. \A s \in Seq(Byte) : s \in P
  BY <1>1, <1>2, AppendInduction
<1>. QED  BY <1>3, NumberStep DEF P

Fits(n, k) == NumberOf(Digits(n, k)) = n

(* A number fits when its quotient fits in one byte less.                  *)
LEMMA FitsStep ==
  ASSUME NEW n \in Nat, NEW k \in Nat
  PROVE  /\ Fits(n, 0) <=> n = 0
         /\ Fits(n, k + 1) <=> Fits(n \div Base, k)
<1>1. Fits(n, 0) <=> n = 0
  BY NoDigits, NumberStep DEF Fits
<1>2. /\ n \div Base \in Nat /\ n % Base \in Byte
      /\ n = (n \div Base) * Base + (n % Base)
  BY Division
<1>. DEFINE q == n \div Base
            b == n % Base
            m == NumberOf(Digits(q, k))
<1>3. m \in Nat /\ NumberOf(Digits(n, k + 1)) = m * Base + b
  <2>1. Digits(q, k) \in Seq(Byte)
    BY <1>2, DigitsAre
  <2>2. Digits(n, k + 1) = Append(Digits(q, k), b)
    BY DigitsStep
  <2>. QED  BY <1>2, <2>1, <2>2, NumberStep
<1>4. q \in Nat /\ b \in Byte /\ n = q * Base + b
  BY <1>2
<1>5. ASSUME m * Base + b = n PROVE m = q
  <2>. HIDE DEF q, b, m
  <2>1. (m * Base + b) \div Base = m /\ (q * Base + b) \div Base = q
    BY <1>3, <1>4, Quotient
  <2>. QED  BY <1>4, <1>5, <2>1
<1>6. Fits(n, k + 1) <=> m = q
  <2>. HIDE DEF q, b, m
  <2>. QED  BY <1>3, <1>4, <1>5 DEF Fits
<1>. QED  BY <1>1, <1>6 DEF Fits

(* What is smaller than a number that fits, fits.                          *)
LEMMA FitsSmaller ==
  ASSUME NEW k \in Nat, NEW n \in Nat, NEW m \in Nat, m <= n, Fits(n, k)
  PROVE  Fits(m, k)
<1>. DEFINE All(i) == \A a, b \in Nat : b <= a /\ Fits(a, i) => Fits(b, i)
            S == {i \in Nat : All(i)}
<1>1. 0 \in S
  BY FitsStep
<1>2. \A i \in S : i + 1 \in S
  <2>. SUFFICES ASSUME NEW i \in S, NEW a \in Nat, NEW b \in Nat, b <= a, Fits(a, i + 1)
                PROVE  Fits(b, i + 1)
    OBVIOUS
  <2>1. a \div Base \in Nat /\ b \div Base \in Nat /\ b \div Base <= a \div Base
    BY Division, DivisionGrows
  <2>2. Fits(a \div Base, i)
    BY FitsStep
  <2>3. Fits(b \div Base, i)
    BY <2>1, <2>2
  <2>. QED  BY <2>3, FitsStep
<1>3. S = Nat
  <2>1. S \in SUBSET Nat
    OBVIOUS
  <2>. HIDE DEF S
  <2>. QED  BY <1>1, <1>2, <2>1, SetInduction
<1>4. All(k)
  BY <1>3
<1>. QED  BY <1>4

(* No more than was read fits in the bytes it was read from.               *)
LEMMA NumberFits ==
  ASSUME NEW s \in Seq(Byte), NEW n \in Nat, n <= NumberOf(s)
  PROVE  /\ Digits(n, Len(s)) \in Seq(Byte) /\ Len(Digits(n, Len(s))) = Len(s)
         /\ NumberOf(Digits(n, Len(s))) = n
<1>1. Len(s) \in Nat /\ NumberOf(s) \in Nat
  BY LenProperties, NumberStep
<1>2. Fits(NumberOf(s), Len(s))
  BY DigitsOfNumber DEF Fits
<1>3. Fits(n, Len(s))
  BY <1>1, <1>2, FitsSmaller
<1>. QED  BY <1>1, <1>3, DigitsAre DEF Fits

----------------------------------------------------------------------------
(* What halving the bytes of a number in the other order makes of it.      *)
Led(b, k) == [i \in 1 .. k |-> IF i = 1 THEN b ELSE 0]

(* The bytes of a small number in the order of the other host.             *)
LEMMA LedFact ==
  ASSUME NEW b \in Byte, NEW k \in Nat
  PROVE  /\ Led(b, k) \in Seq(Byte) /\ Len(Led(b, k)) = k
         /\ \A i \in 1 .. k : Led(b, k)[i] = IF i = 1 THEN b ELSE 0
         /\ k > 0 => Led(b, k + 1) = Append(Led(b, k), 0)
<1>0. 0 \in Byte
  BY WidthsAssumption DEF Byte
<1>1. ASSUME NEW j \in Nat
      PROVE  /\ Led(b, j) \in Seq(Byte) /\ Len(Led(b, j)) = j
             /\ \A i \in 1 .. j : Led(b, j)[i] = IF i = 1 THEN b ELSE 0
  <2>1. Led(b, j) \in [1 .. j -> Byte]
    BY <1>0 DEF Led
  <2>2. Led(b, j) \in Seq(Byte) /\ Len(Led(b, j)) = j
    BY <2>1, SeqDef
  <2>. QED  BY <2>2 DEF Led
<1>2. ASSUME k > 0 PROVE Led(b, k + 1) = Append(Led(b, k), 0)
  <2>. DEFINE s == Led(b, k + 1)
              t == Append(Led(b, k), 0)
  <2>1. k + 1 \in Nat /\ s \in Seq(Byte) /\ Len(s) = k + 1
        /\ \A i \in 1 .. k + 1 : s[i] = IF i = 1 THEN b ELSE 0
    BY <1>1
  <2>2. /\ t \in Seq(Byte) /\ Len(t) = k + 1
        /\ \A i \in 1 .. k : t[i] = IF i = 1 THEN b ELSE 0
        /\ t[k + 1] = 0
    <3>. DEFINE l == Led(b, k)
    <3>1. l \in Seq(Byte) /\ Len(l) = k /\ \A i \in 1 .. k : l[i] = IF i = 1 THEN b ELSE 0
      BY <1>1
    <3>. HIDE DEF l
    <3>2. /\ Append(l, 0) \in Seq(Byte) /\ Len(Append(l, 0)) = k + 1
          /\ \A i \in 1 .. k : Append(l, 0)[i] = l[i]
          /\ Append(l, 0)[k + 1] = 0
      BY <1>0, <3>1, AppendProperties
    <3>. QED  BY <3>1, <3>2 DEF l
  <2>. HIDE DEF s, t
  <2>3. \A i \in 1 .. Len(s) : s[i] = t[i]
    BY <1>2, <2>1, <2>2
  <2>4. s = t
    BY <2>1, <2>2, <2>3, SeqEqual
  <2>. QED  BY <2>4 DEF s, t
<1>. QED  BY <1>1, <1>2

(* Halving twice the number in the wrong order halves its one byte.        *)
LEMMA LedTwice ==
  ASSUME NEW k \in Nat \ {0}, NEW n \in Nat, 2 * n < Base
  PROVE  NumberOf(Led(2 * n, k)) \div 2 = NumberOf(Led(n, k)) /\ NumberOf(Led(n, k)) \in Nat
<1>0. n \in Byte /\ 2 * n \in Byte /\ 0 \in Byte
  BY WidthsAssumption DEF Byte
<1>. DEFINE Twice(j) == NumberOf(Led(2 * n, j + 1)) = 2 * NumberOf(Led(n, j + 1))
            S == {j \in Nat : Twice(j)}
<1>1. \A b \in Byte : NumberOf(Led(b, 1)) = b
  <2>. TAKE b \in Byte
  <2>1. /\ Led(b, 1) \in Seq(Byte) /\ Len(Led(b, 1)) = 1 /\ Led(b, 1)[1] = b
    <3>1. 1 \in Nat /\ 1 \in 1 .. 1
      OBVIOUS
    <3>2. /\ Led(b, 1) \in Seq(Byte) /\ Len(Led(b, 1)) = 1
          /\ \A i \in 1 .. 1 : Led(b, 1)[i] = IF i = 1 THEN b ELSE 0
      BY <3>1, LedFact, Zenon
    <3>. QED  BY <3>1, <3>2
  <2>2. /\ Append(<<>>, b) \in Seq(Byte) /\ Len(Append(<<>>, b)) = 1 /\ Append(<<>>, b)[1] = b
    BY EmptySeq, AppendProperties
  <2>3. Led(b, 1) = Append(<<>>, b)
    <3>1. \A i \in 1 .. Len(Led(b, 1)) : Led(b, 1)[i] = Append(<<>>, b)[i]
      <4>1. \A i \in 1 .. 1 : i = 1
        OBVIOUS
      <4>. QED  BY <2>1, <2>2, <4>1
    <3>. QED  BY <2>1, <2>2, <3>1, SeqEqual
  <2>4. NumberOf(Append(<<>>, b)) = 0 * Base + b
    BY NumberStep, EmptySeq
  <2>. QED  BY <2>3, <2>4, WidthsAssumption DEF Byte
<1>2. 0 \in S
  <2>1. 0 + 1 = 1
    OBVIOUS
  <2>2. NumberOf(Led(n, 1)) = n /\ NumberOf(Led(2 * n, 1)) = 2 * n
    BY <1>0, <1>1
  <2>. QED  BY <2>1, <2>2
<1>3. \A j \in S : j + 1 \in S
  <2>. SUFFICES ASSUME NEW j \in S PROVE Twice(j + 1)
    OBVIOUS
  <2>1. NumberOf(Led(2 * n, j + 1)) = 2 * NumberOf(Led(n, j + 1))
    OBVIOUS
  <2>2. \A b \in Byte : /\ NumberOf(Led(b, j + 1)) \in Nat
                        /\ NumberOf(Led(b, (j + 1) + 1)) = NumberOf(Led(b, j + 1)) * Base + 0
    <3>. TAKE b \in Byte
    <3>1. j + 1 \in Nat /\ j + 1 > 0
      OBVIOUS
    <3>2. Led(b, j + 1) \in Seq(Byte) /\ Led(b, (j + 1) + 1) = Append(Led(b, j + 1), 0)
      BY <3>1, LedFact
    <3>. QED  BY <1>0, <3>2, NumberStep
  <2>. DEFINE x == NumberOf(Led(n, j + 1))
              y == NumberOf(Led(2 * n, j + 1))
  <2>3. /\ x \in Nat /\ y = 2 * x
        /\ NumberOf(Led(n, (j + 1) + 1)) = x * Base + 0
        /\ NumberOf(Led(2 * n, (j + 1) + 1)) = y * Base + 0
    BY <1>0, <2>1, <2>2
  <2>. HIDE DEF x, y
  <2>4. x * Base \in Nat /\ (2 * x) * Base = 2 * (x * Base)
    BY <2>3, WidthsAssumption
  <2>. QED  BY <2>3, <2>4
<1>4. S = Nat
  <2>1. S \in SUBSET Nat
    OBVIOUS
  <2>. HIDE DEF S
  <2>. QED  BY <1>2, <1>3, <2>1, SetInduction
<1>5. k - 1 \in Nat /\ (k - 1) + 1 = k
  OBVIOUS
<1>6. NumberOf(Led(2 * n, k)) = 2 * NumberOf(Led(n, k))
  BY <1>4, <1>5
<1>7. NumberOf(Led(n, k)) \in Nat
  BY <1>0, LedFact, NumberStep
<1>. QED  BY <1>6, <1>7

(* A small number has one digit that is not 0, the last.                   *)
LEMMA DigitsOfByte ==
  ASSUME NEW k \in Nat, NEW b \in Byte
  PROVE  \A i \in 1 .. k : Digits(b, k)[i] = IF i = k THEN b ELSE 0
<1>0. b \in Nat /\ 0 \in Nat /\ 0 \in Byte
  BY WidthsAssumption DEF Byte
<1>1. \A c \in Byte : c \div Base = 0 /\ c % Base = c
  <2>. TAKE c \in Byte
  <2>1. 0 * Base + c = c
    BY WidthsAssumption DEF Byte
  <2>. QED  BY <2>1, Quotient
<1>. DEFINE Zero(j) == \A i \in 1 .. j : Digits(0, j)[i] = 0
            S == {j \in Nat : Zero(j)}
<1>2. ASSUME NEW j \in Nat, Zero(j), NEW c \in Byte
      PROVE  \A i \in 1 .. j + 1 : Digits(c, j + 1)[i] = IF i = j + 1 THEN c ELSE 0
  <2>1. c \in Nat /\ Digits(c, j + 1) = Append(Digits(0, j), c)
    <3>1. c \in Nat
      BY WidthsAssumption DEF Byte
    <3>. QED  BY <1>1, <3>1, DigitsStep
  <2>2. Digits(0, j) \in Seq(Byte) /\ Len(Digits(0, j)) = j
    BY DigitsAre
  <2>3. /\ \A i \in 1 .. j : Digits(c, j + 1)[i] = Digits(0, j)[i]
        /\ Digits(c, j + 1)[j + 1] = c
    BY <2>1, <2>2, AppendProperties
  <2>. QED  BY <1>2, <2>3
<1>3. S = Nat
  <2>1. S \in SUBSET Nat
    OBVIOUS
  <2>2. 0 \in S
    OBVIOUS
  <2>3. \A j \in S : j + 1 \in S
    <3>. SUFFICES ASSUME NEW j \in S PROVE Zero(j + 1)
      OBVIOUS
    <3>1. j \in Nat /\ Zero(j)
      OBVIOUS
    <3>. HIDE DEF Zero, S
    <3>2. \A i \in 1 .. j + 1 : Digits(0, j + 1)[i] = IF i = j + 1 THEN 0 ELSE 0
      BY <1>0, <1>2, <3>1
    <3>. QED  BY <3>2 DEF Zero
  <2>. HIDE DEF S
  <2>. QED  BY <2>1, <2>2, <2>3, SetInduction
<1>4. CASE k = 0
  BY <1>4
<1>5. CASE k # 0
  <2>1. k - 1 \in Nat /\ (k - 1) + 1 = k
    BY <1>5
  <2>2. Zero(k - 1)
    BY <1>3, <2>1
  <2>. HIDE DEF Zero, S
  <2>3. \A i \in 1 .. (k - 1) + 1 : Digits(b, (k - 1) + 1)[i] = IF i = (k - 1) + 1 THEN b ELSE 0
    BY <1>2, <2>1, <2>2
  <2>. QED  BY <2>1, <2>3
<1>. QED  BY <1>4, <1>5

(* Reversing keeps the elements.                                           *)
LEMMA ReverseFact ==
  ASSUME NEW X, NEW s \in Seq(X)
  PROVE  /\ Reverse(s) \in Seq(X) /\ Len(Reverse(s)) = Len(s)
         /\ \A i \in 1 .. Len(s) : Reverse(s)[i] = s[(Len(s) - i) + 1]
<1>. DEFINE n == Len(s)
<1>1. n \in Nat /\ \A i \in 1 .. n : s[i] \in X
  BY LenProperties, ElementOfSeq
<1>2. Reverse(s) = [i \in 1 .. n |-> s[(n - i) + 1]]
  BY DEF Reverse
<1>. HIDE DEF n
<1>3. \A i \in 1 .. n : (n - i) + 1 \in 1 .. n
  BY <1>1
<1>4. Reverse(s) \in [1 .. n -> X]
  BY <1>1, <1>2, <1>3
<1>5. Reverse(s) \in Seq(X) /\ Len(Reverse(s)) = n
  BY <1>1, <1>4, SeqDef
<1>. QED  BY <1>2, <1>5 DEF n

(* The two orders of a small number are the reverse of each other.         *)
LEMMA DigitsReversed ==
  ASSUME NEW k \in Nat, NEW b \in Byte
  PROVE  Reverse(Digits(b, k)) = Led(b, k) /\ Reverse(Led(b, k)) = Digits(b, k)
<1>. DEFINE d == Digits(b, k)
            l == Led(b, k)
<1>1. /\ d \in Seq(Byte) /\ Len(d) = k /\ \A i \in 1 .. k : d[i] = IF i = k THEN b ELSE 0
  <2>1. b \in Nat
    BY WidthsAssumption DEF Byte
  <2>. QED  BY <2>1, DigitsAre, DigitsOfByte
<1>2. l \in Seq(Byte) /\ Len(l) = k /\ \A i \in 1 .. k : l[i] = IF i = 1 THEN b ELSE 0
  BY LedFact
<1>. HIDE DEF d, l
<1>3. /\ Reverse(d) \in Seq(Byte) /\ Len(Reverse(d)) = k
      /\ \A i \in 1 .. k : Reverse(d)[i] = d[(k - i) + 1]
      /\ Reverse(l) \in Seq(Byte) /\ Len(Reverse(l)) = k
      /\ \A i \in 1 .. k : Reverse(l)[i] = l[(k - i) + 1]
  <2>1. /\ Reverse(d) \in Seq(Byte) /\ Len(Reverse(d)) = Len(d)
        /\ \A i \in 1 .. Len(d) : Reverse(d)[i] = d[(Len(d) - i) + 1]
    BY <1>1, ReverseFact, Zenon
  <2>2. /\ Reverse(l) \in Seq(Byte) /\ Len(Reverse(l)) = Len(l)
        /\ \A i \in 1 .. Len(l) : Reverse(l)[i] = l[(Len(l) - i) + 1]
    BY <1>2, ReverseFact, Zenon
  <2>. QED  BY <1>1, <1>2, <2>1, <2>2
<1>4. \A i \in 1 .. k : (k - i) + 1 \in 1 .. k /\ ((k - i) + 1 = k <=> i = 1)
                        /\ ((k - i) + 1 = 1 <=> i = k)
  OBVIOUS
<1>5. \A i \in 1 .. k : Reverse(d)[i] = l[i] /\ Reverse(l)[i] = d[i]
  BY <1>1, <1>2, <1>3, <1>4
<1>6. Reverse(d) = l /\ Reverse(l) = d
  BY <1>1, <1>2, <1>3, <1>5, SeqEqual
<1>. QED  BY <1>6 DEF d, l

(* amf_data_write halves the count of names and elements after it has been *)
(* put in the order of the file: right as long as twice the count has one  *)
(* byte.                                                                   *)
LEMMA PairCountRight ==
  ASSUME NEW items, Len(items) \in Nat, 2 * Len(items) < Base
  PROVE  WritePairCount(items) = WriteCount(items)
<1>. DEFINE n == Len(items)
            k == CountBytes
<1>1. k \in Nat \ {0} /\ n \in Nat /\ n \in Byte /\ 2 * n \in Byte
  BY WidthsAssumption DEF Byte
<1>2. Reverse(Digits(2 * n, k)) = Led(2 * n, k)
  BY <1>1, DigitsReversed
<1>3. NumberOf(Led(2 * n, k)) \div 2 = NumberOf(Led(n, k))
  BY <1>1, LedTwice
<1>4. Digits(NumberOf(Led(n, k)), k) = Led(n, k)
  BY <1>1, LedFact, DigitsOfNumber
<1>5. Reverse(Led(n, k)) = Digits(n, k)
  BY <1>1, DigitsReversed
<1>. QED  BY <1>2, <1>3, <1>4, <1>5 DEF WritePairCount, WriteCount

(* Sequences that begin with an element.                                   *)
LEMMA Prepended ==
  ASSUME NEW X, NEW s \in Seq(X), NEW e \in X
  PROVE  /\ <<e>> \o s \in Seq(X) /\ Len(<<e>> \o s) = Len(s) + 1 /\ Len(s) \in Nat
         /\ (<<e>> \o s)[1] = e
         /\ \A i \in 1 .. Len(s) : (<<e>> \o s)[i + 1] = s[i]
<1>1. <<e>> \in Seq(X) /\ Len(<<e>>) = 1 /\ <<e>>[1] = e
  OBVIOUS
<1>2. Len(s) \in Nat
  BY LenProperties
<1>. DEFINE t == <<e>> \o s
<1>3. /\ t \in Seq(X) /\ Len(t) = 1 + Len(s)
      /\ \A i \in 1 .. 1 + Len(s) : t[i] = IF i <= 1 THEN <<e>>[i] ELSE s[i - 1]
  BY <1>1, ConcatProperties
<1>. HIDE DEF t
<1>4. t[1] = e
  BY <1>1, <1>2, <1>3
<1>5. \A i \in 1 .. Len(s) : t[i + 1] = s[i]
  <2>. TAKE i \in 1 .. Len(s)
  <2>1. i + 1 \in 1 .. 1 + Len(s) /\ ~(i + 1 <= 1) /\ (i + 1) - 1 = i
    BY <1>2
  <2>. QED  BY <1>3, <2>1
<1>. QED  BY <1>2, <1>3, <1>4, <1>5 DEF t

(* A sequence is its first element and the one the others are those of.    *)
LEMMA SameSeq ==
  ASSUME NEW X, NEW s \in Seq(X), NEW t \in Seq(X), Len(s) = Len(t) + 1,
         NEW e \in X, s[1] = e, \A i \in 1 .. Len(t) : s[i + 1] = t[i]
  PROVE  s = <<e>> \o t
<1>. DEFINE u == <<e>> \o t
<1>1. /\ u \in Seq(X) /\ Len(u) = Len(t) + 1 /\ Len(t) \in Nat
      /\ u[1] = e /\ \A i \in 1 .. Len(t) : u[i + 1] = t[i]
  BY Prepended
<1>. HIDE DEF u
<1>2. \A i \in 1 .. Len(s) : s[i] = u[i]
  <2>. TAKE i \in 1 .. Len(s)
  <2>1. CASE i = 1
    BY <1>1, <2>1
  <2>2. CASE i # 1
    <3>1. i - 1 \in 1 .. Len(t) /\ (i - 1) + 1 = i
      BY <1>1, <2>2
    <3>. QED  BY <1>1, <3>1
  <2>. QED  BY <2>1, <2>2
<1>3. s = u
  BY <1>1, <1>2, SeqEqual
<1>. QED  BY <1>3 DEF u

Mapped(F, s) == [i \in DOMAIN s |-> F[s[i]]]

(* A function of every element of a sequence.                              *)
LEMMA MappedIn ==
  ASSUME NEW X, NEW Y, NEW F, Maps(F, X, Y), NEW s \in Seq(X)
  PROVE  /\ Mapped(F, s) \in Seq(Y) /\ Len(Mapped(F, s)) = Len(s)
         /\ \A i \in 1 .. Len(s) : Mapped(F, s)[i] = F[s[i]]
<1>. DEFINE n == Len(s)
            m == [i \in 1 .. n |-> F[s[i]]]
<1>1. n \in Nat /\ DOMAIN s = 1 .. n /\ \A i \in 1 .. n : s[i] \in X
  BY LenProperties, ElementOfSeq
<1>2. Mapped(F, s) = m
  BY <1>1 DEF Mapped
<1>. HIDE DEF n
<1>3. m \in [1 .. n -> Y]
  BY <1>1 DEF Maps
<1>4. m \in Seq(Y) /\ Len(m) = n
  <2>. HIDE DEF m
  <2>. QED  BY <1>1, <1>3, SeqDef
<1>. QED  BY <1>2, <1>4 DEF n

(* The function of a sequence with one more in front.                      *)
LEMMA MappedPrepended ==
  ASSUME NEW X, NEW Y, NEW F, Maps(F, X, Y), NEW s \in Seq(X), NEW e \in X
  PROVE  Mapped(F, <<e>> \o s) = <<F[e]>> \o Mapped(F, s)
<1>. DEFINE t == <<e>> \o s
            a == Mapped(F, t)
            b == Mapped(F, s)
<1>1. /\ t \in Seq(X) /\ Len(t) = Len(s) + 1 /\ Len(s) \in Nat
      /\ t[1] = e /\ \A i \in 1 .. Len(s) : t[i + 1] = s[i]
  BY Prepended
<1>. HIDE DEF t
<1>2. a \in Seq(Y) /\ Len(a) = Len(t) /\ \A i \in 1 .. Len(t) : a[i] = F[t[i]]
  BY <1>1, MappedIn
<1>3. b \in Seq(Y) /\ Len(b) = Len(s) /\ \A i \in 1 .. Len(s) : b[i] = F[s[i]]
  BY MappedIn
<1>. HIDE DEF a, b
<1>4. F[e] \in Y
  BY DEF Maps
<1>5. a[1] = F[e]
  BY <1>1, <1>2
<1>6. \A i \in 1 .. Len(b) : a[i + 1] = b[i]
  <2>. TAKE i \in 1 .. Len(b)
  <2>1. i + 1 \in 1 .. Len(t)
    BY <1>1, <1>3
  <2>. QED  BY <1>1, <1>2, <1>3, <2>1
<1>7. a = <<F[e]>> \o b
  <2>1. Len(a) = Len(b) + 1
    BY <1>1, <1>2, <1>3
  <2>. QED  BY <1>2, <1>3, <1>4, <1>5, <1>6, <2>1, SameSeq, Zenon
<1>. QED  BY <1>7 DEF a, b, t

(* The function of nothing.                                                *)
LEMMA MappedNone ==
  ASSUME NEW F
  PROVE  Mapped(F, <<>>) = <<>>
  BY DEF Mapped

(* Sums.                                                                   *)
IsSum(f, s) == f = [i \in 0 .. Len(s) |-> IF i = 0 THEN 0 ELSE f[i - 1] + s[i]]
SumTo(s) == CHOOSE f : IsSum(f, s)

(* The sums that Total adds up, one after the other.                       *)
LEMMA SumFact ==
  ASSUME NEW s \in Seq(Nat)
  PROVE  /\ SumTo(s)[0] = 0 /\ \A i \in 0 .. Len(s) : SumTo(s)[i] \in Nat
         /\ \A i \in 1 .. Len(s) : SumTo(s)[i] = SumTo(s)[i - 1] + s[i]
         /\ Total(s) = SumTo(s)[Len(s)]
<1>. DEFINE G == [p \in Nat \X Nat |-> p[2] + s[p[1]]]
            n == Len(s)
<1>0. n \in Nat /\ \A i \in 1 .. n : s[i] \in Nat
  BY LenProperties, ElementOfSeq
<1>. HIDE DEF n
<1>1. PICK f : Steps(f, n, 0, G)
  BY <1>0, StepsExist
<1>2. \A i \in 1 .. n : \A x \in Nat : G[<<i, x>>] = x + s[i] /\ G[<<i, x>>] \in Nat
  BY <1>0
<1>. HIDE DEF G
<1>3. \A i \in 0 .. n : f[i] \in Nat
  BY <1>0, <1>1, <1>2, StepsIn
<1>4. \A i \in 0 .. n : f[i] = IF i = 0 THEN 0 ELSE f[i - 1] + s[i]
  <2>1. f[0] = 0 /\ \A i \in 1 .. n : f[i] = G[<<i, f[i - 1]>>]
    BY <1>1 DEF Steps
  <2>2. \A i \in 0 .. n : i # 0 => i \in 1 .. n /\ i - 1 \in 0 .. n
    BY <1>0
  <2>. QED  BY <1>2, <1>3, <2>1, <2>2
<1>5. f = [i \in 0 .. n |-> f[i]]
  BY <1>1 DEF Steps
<1>6. IsSum(f, s)
  BY <1>4, <1>5, Zenon DEF IsSum, n
<1>. DEFINE u == SumTo(s)
<1>7. IsSum(u, s)
  BY <1>6 DEF SumTo
<1>. HIDE DEF u
<1>8. \A i \in 0 .. n : u[i] = IF i = 0 THEN 0 ELSE u[i - 1] + s[i]
  BY <1>7, Zenon DEF IsSum, n
<1>9. u[0] = 0 /\ \A i \in 1 .. n : u[i] = u[i - 1] + s[i]
  BY <1>0, <1>8
<1>. DEFINE P == {i \in 0 .. n : u[i] \in Nat}
<1>10. \A i \in 0 .. n : i \in P
  <2>1. 0 \in P
    BY <1>0, <1>9
  <2>2. \A i \in 1 .. n : i - 1 \in P => i \in P
    BY <1>0, <1>9
  <2>. HIDE DEF P
  <2>. QED  BY <1>0, <2>1, <2>2, StepInduction
<1>11. Total(s) = u[n]
  BY Zenon DEF Total, SumTo, IsSum, u, n
<1>. QED  BY <1>9, <1>10, <1>11 DEF u, n

(* A sum of naturals is one.                                               *)
LEMMA TotalIn ==
  ASSUME NEW s \in Seq(Nat)
  PROVE  Total(s) \in Nat
<1>1. Len(s) \in 0 .. Len(s)
  BY LenProperties
<1>. QED  BY <1>1, SumFact

(* The sum of nothing.                                                     *)
LEMMA TotalNone == Total(<<>>) = 0
  BY EmptySeq, SumFact

(* The sum with one more in front.                                         *)
LEMMA TotalPrepended ==
  ASSUME NEW s \in Seq(Nat), NEW e \in Nat
  PROVE  Total(<<e>> \o s) = e + Total(s)
<1>. DEFINE t == <<e>> \o s
            n == Len(s)
<1>1. /\ t \in Seq(Nat) /\ Len(t) = n + 1 /\ n \in Nat
      /\ t[1] = e /\ \A i \in 1 .. n : t[i + 1] = s[i]
  BY Prepended
<1>2. /\ SumTo(s)[0] = 0 /\ \A i \in 1 .. n : SumTo(s)[i] = SumTo(s)[i - 1] + s[i]
      /\ \A i \in 0 .. n : SumTo(s)[i] \in Nat
      /\ Total(s) = SumTo(s)[n]
  BY SumFact
<1>. HIDE DEF t, n
<1>3. /\ SumTo(t)[0] = 0 /\ \A i \in 1 .. n + 1 : SumTo(t)[i] = SumTo(t)[i - 1] + t[i]
      /\ Total(t) = SumTo(t)[n + 1]
  BY <1>1, SumFact
<1>. DEFINE P == {i \in 0 .. n : SumTo(t)[i + 1] = e + SumTo(s)[i]}
<1>4. \A i \in 0 .. n : i \in P
  <2>1. 0 \in P
    <3>1. SumTo(t)[1] = SumTo(t)[1 - 1] + t[1] /\ 1 - 1 = 0 /\ 0 + 1 = 1
      BY <1>1, <1>3
    <3>. QED  BY <1>1, <1>2, <1>3, <3>1
  <2>2. \A i \in 1 .. n : i - 1 \in P => i \in P
    <3>. SUFFICES ASSUME NEW i \in 1 .. n, i - 1 \in P PROVE i \in P
      OBVIOUS
    <3>1. SumTo(t)[(i - 1) + 1] = e + SumTo(s)[i - 1] /\ (i - 1) + 1 = i
      OBVIOUS
    <3>2. i + 1 \in 1 .. n + 1 /\ (i + 1) - 1 = i /\ i - 1 \in 0 .. n /\ i \in 0 .. n
      BY <1>1
    <3>3. SumTo(t)[i + 1] = SumTo(t)[i] + s[i] /\ SumTo(s)[i] = SumTo(s)[i - 1] + s[i]
      BY <1>1, <1>2, <1>3, <3>2
    <3>4. s[i] \in Nat
      BY <1>1, ElementOfSeq DEF n
    <3>. QED  BY <1>2, <3>1, <3>2, <3>3, <3>4
  <2>. HIDE DEF P
  <2>. QED  BY <1>1, <2>1, <2>2, StepInduction
<1>5. SumTo(t)[n + 1] = e + SumTo(s)[n]
  BY <1>1, <1>4
<1>. QED  BY <1>2, <1>3, <1>5 DEF t

(* Sequences, one behind the other.                                        *)
Grouped(X, s, t, u) == /\ s \o t \in Seq(X) /\ t \o u \in Seq(X)
                       /\ (s \o t) \o u = s \o (t \o u)

(* Joining is associative.                                                 *)
LEMMA GroupedFact ==
  ASSUME NEW X, NEW s \in Seq(X), NEW t \in Seq(X), NEW u \in Seq(X)
  PROVE  Grouped(X, s, t, u)
  BY ConcatAssociative, ConcatProperties, SMTT(30) DEF Grouped

IsFlat(f, w) == f = [i \in 1 .. Len(w) |-> IF i = 1 THEN w[i] ELSE f[i - 1] \o w[i]]
Flat(w) == CHOOSE f : IsFlat(f, w)

(* The sequences that FlattenSeq joins, one after the other.               *)
LEMMA FlatFact ==
  ASSUME NEW X, NEW w \in Seq(Seq(X)), w # <<>>
  PROVE  /\ Flat(w)[1] = w[1] /\ \A i \in 1 .. Len(w) : Flat(w)[i] \in Seq(X)
         /\ \A i \in 1 .. Len(w) : i # 1 => Flat(w)[i] = Flat(w)[i - 1] \o w[i]
         /\ FlattenSeq(w) = Flat(w)[Len(w)]
<1>. DEFINE n == Len(w)
            G == [p \in Nat \X Seq(X) |-> p[2] \o w[p[1] + 1]]
<1>0. n \in Nat \ {0} /\ \A i \in 1 .. n : w[i] \in Seq(X)
  BY LenProperties, ElementOfSeq, EmptySeq
<1>01. n # 0 /\ n - 1 \in Nat /\ 1 \in 1 .. n
  BY <1>0
<1>. HIDE DEF n
<1>1. PICK f : Steps(f, n - 1, w[1], G)
  BY <1>01, StepsExist
<1>2. \A i \in 1 .. n - 1 : \A x \in Seq(X) : G[<<i, x>>] = x \o w[i + 1] /\ G[<<i, x>>] \in Seq(X)
  <2>. TAKE i \in 1 .. n - 1
  <2>. TAKE x \in Seq(X)
  <2>1. i + 1 \in 1 .. n /\ i \in Nat
    BY <1>0
  <2>2. G[<<i, x>>] = x \o w[i + 1]
    BY <2>1
  <2>3. x \o w[i + 1] \in Seq(X)
    BY <1>0, <2>1, ConcatProperties
  <2>. QED  BY <2>2, <2>3
<1>. HIDE DEF G
<1>3. \A i \in 0 .. n - 1 : f[i] \in Seq(X)
  <2>1. \A i \in 1 .. n - 1 : \A x \in Seq(X) : G[<<i, x>>] \in Seq(X)
    BY <1>2
  <2>2. w[1] \in Seq(X)
    BY <1>0, <1>01
  <2>. QED  BY <1>01, <1>1, <2>1, <2>2, StepsIn, Zenon
<1>. DEFINE g == [i \in 1 .. n |-> f[i - 1]]
<1>4. g[1] = w[1]
  BY <1>1, <1>01 DEF Steps
<1>5. \A i \in 1 .. n : i # 1 => g[i] = g[i - 1] \o w[i]
  <2>. SUFFICES ASSUME NEW i \in 1 .. n, i # 1 PROVE g[i] = g[i - 1] \o w[i]
    OBVIOUS
  <2>1. i - 1 \in 1 .. n - 1 /\ i - 1 \in 1 .. n /\ (i - 1) + 1 = i /\ (i - 1) - 1 \in 0 .. n - 1
    BY <1>0
  <2>2. f[i - 1] = G[<<i - 1, f[(i - 1) - 1]>>]
    BY <1>1, <2>1 DEF Steps
  <2>3. f[i - 1] = f[(i - 1) - 1] \o w[i]
    BY <1>2, <1>3, <2>1, <2>2
  <2>. QED  BY <2>1, <2>3
<1>6. g = [i \in 1 .. n |-> g[i]]
  OBVIOUS
<1>. HIDE DEF g
<1>7. IsFlat(g, w)
  <2>1. \A i \in 1 .. n : g[i] = IF i = 1 THEN w[i] ELSE g[i - 1] \o w[i]
    BY <1>4, <1>5
  <2>. QED  BY <1>6, <2>1, Zenon DEF IsFlat, n
<1>. DEFINE u == Flat(w)
<1>8. IsFlat(u, w)
  BY <1>7 DEF Flat
<1>. HIDE DEF u
<1>9. \A i \in 1 .. n : u[i] = IF i = 1 THEN w[i] ELSE u[i - 1] \o w[i]
  BY <1>8, Zenon DEF IsFlat, n
<1>10. u[1] = w[1] /\ \A i \in 1 .. n : i # 1 => u[i] = u[i - 1] \o w[i]
  BY <1>01, <1>9
<1>. DEFINE P == {i \in 0 .. n : i # 0 => u[i] \in Seq(X)}
<1>11. \A i \in 0 .. n : i \in P
  <2>1. 0 \in P
    BY <1>0
  <2>2. \A i \in 1 .. n : i - 1 \in P => i \in P
    <3>. SUFFICES ASSUME NEW i \in 1 .. n, i - 1 \in P PROVE u[i] \in Seq(X)
      BY <1>0
    <3>1. CASE i = 1
      BY <1>0, <1>10, <3>1
    <3>2. CASE i # 1
      <4>1. u[i - 1] \in Seq(X) /\ w[i] \in Seq(X)
        BY <1>0, <3>2
      <4>. QED  BY <1>10, <3>2, <4>1, ConcatProperties
    <3>. QED  BY <3>1, <3>2
  <2>. HIDE DEF P
  <2>3. n \in Nat
    BY <1>0
  <2>. QED  BY <2>1, <2>2, <2>3, StepInduction
<1>12. FlattenSeq(w) = u[n]
  BY <1>01, Zenon DEF FlattenSeq, Flat, IsFlat, u, n
<1>13. \A i \in 1 .. n : u[i] \in Seq(X)
  <2>1. \A i \in 1 .. n : i \in 0 .. n /\ i # 0
    OBVIOUS
  <2>. QED  BY <1>11, <2>1
<1>. QED  BY <1>10, <1>12, <1>13 DEF u, n

(* Nothing joined is nothing.                                              *)
LEMMA FlattenNone == FlattenSeq(<<>>) = <<>>
  BY DEF FlattenSeq

(* Joined sequences are of the same elements.                              *)
LEMMA FlattenIn ==
  ASSUME NEW X, NEW w \in Seq(Seq(X))
  PROVE  FlattenSeq(w) \in Seq(X)
<1>1. CASE w = <<>>
  BY <1>1, FlattenNone, EmptySeq
<1>2. CASE w # <<>>
  <2>1. Len(w) \in 1 .. Len(w)
    BY <1>2, EmptySeq
  <2>. QED  BY <1>2, <2>1, FlatFact
<1>. QED  BY <1>1, <1>2

(* Joining with one more in front puts it in front.                        *)
LEMMA FlattenPrepended ==
  ASSUME NEW X, NEW w \in Seq(Seq(X)), NEW e \in Seq(X)
  PROVE  FlattenSeq(<<e>> \o w) = e \o FlattenSeq(w)
<1>. DEFINE t == <<e>> \o w
            n == Len(w)
<1>1. /\ t \in Seq(Seq(X)) /\ Len(t) = n + 1 /\ n \in Nat
      /\ t[1] = e /\ \A i \in 1 .. n : t[i + 1] = w[i]
  BY Prepended
<1>. HIDE DEF t
<1>2. t # <<>>
  BY <1>1, EmptySeq
<1>3. /\ Flat(t)[1] = e
      /\ \A i \in 1 .. n + 1 : i # 1 => Flat(t)[i] = Flat(t)[i - 1] \o t[i]
      /\ FlattenSeq(t) = Flat(t)[n + 1]
  BY <1>1, <1>2, FlatFact
<1>4. CASE w = <<>>
  <2>1. n = 0 /\ FlattenSeq(w) = <<>>
    BY <1>4, FlattenNone, EmptySeq
  <2>. QED  BY <1>3, <2>1, ConcatEmptySeq DEF t
<1>5. CASE w # <<>>
  <2>1. n # 0
    BY <1>5, EmptySeq
  <2>2. /\ Flat(w)[1] = w[1] /\ \A i \in 1 .. n : Flat(w)[i] \in Seq(X)
        /\ \A i \in 1 .. n : i # 1 => Flat(w)[i] = Flat(w)[i - 1] \o w[i]
        /\ FlattenSeq(w) = Flat(w)[n]
    BY <1>5, FlatFact
  <2>3. \A i \in 1 .. n : w[i] \in Seq(X)
    BY ElementOfSeq
  <2>. HIDE DEF n
  <2>. DEFINE P == {i \in 0 .. n : i # 0 => Flat(t)[i + 1] = e \o Flat(w)[i]}
  <2>4. \A i \in 0 .. n : i \in P
    <3>1. 0 \in P
      BY <1>1
    <3>2. \A i \in 1 .. n : i - 1 \in P => i \in P
      <4>. SUFFICES ASSUME NEW i \in 1 .. n, i - 1 \in P PROVE i \in P
        OBVIOUS
      <4>0. /\ i \in 0 .. n /\ i \in Int
            /\ i - 1 # 0 => Flat(t)[(i - 1) + 1] = e \o Flat(w)[i - 1]
        BY <1>1, SMTT(30)
      <4>. HIDE DEF P
      <4>1. i + 1 \in 1 .. n + 1 /\ i + 1 # 1 /\ (i + 1) - 1 = i
        BY <1>1
      <4>2. Flat(t)[i + 1] = Flat(t)[i] \o w[i]
        BY <1>1, <1>3, <4>1
      <4>3. ASSUME i = 1 PROVE Flat(t)[i + 1] = e \o Flat(w)[i]
        BY <1>3, <2>2, <4>2, <4>3
      <4>4. ASSUME i # 1 PROVE Flat(t)[i + 1] = e \o Flat(w)[i]
        <5>0. i - 1 # 0 /\ (i - 1) + 1 = i /\ i - 1 \in 1 .. n
          BY <1>1, <4>0, <4>4
        <5>1. /\ Flat(t)[(i - 1) + 1] = e \o Flat(w)[i - 1] /\ (i - 1) + 1 = i
              /\ i - 1 \in 1 .. n
          BY <4>0, <5>0, Zenon
        <5>2. Flat(t)[i + 1] = (e \o Flat(w)[i - 1]) \o w[i]
          BY <4>2, <5>1
        <5>3. Flat(w)[i - 1] \in Seq(X) /\ w[i] \in Seq(X)
          BY <2>2, <2>3, <5>1
        <5>4. (e \o Flat(w)[i - 1]) \o w[i] = e \o (Flat(w)[i - 1] \o w[i])
          <6>. DEFINE u == Flat(w)[i - 1]
                      v == w[i]
          <6>1. e \in Seq(X) /\ u \in Seq(X) /\ v \in Seq(X)
            BY <5>3
          <6>. HIDE DEF u, v
          <6>2. Grouped(X, e, u, v)
            BY <6>1, GroupedFact, Zenon
          <6>. QED  BY <6>2 DEF u, v, Grouped
        <5>5. Flat(w)[i] = Flat(w)[i - 1] \o w[i]
          BY <2>2, <4>4
        <5>. QED  BY <5>2, <5>4, <5>5
      <4>5. Flat(t)[i + 1] = e \o Flat(w)[i]
        BY <4>3, <4>4
      <4>. QED  BY <4>0, <4>5 DEF P
    <3>. HIDE DEF P
    <3>. QED  BY <1>1, <3>1, <3>2, StepInduction
  <2>5. n \in 0 .. n
    BY <1>1
  <2>6. Flat(t)[n + 1] = e \o Flat(w)[n]
    BY <2>1, <2>4, <2>5
  <2>. QED  BY <1>3, <2>2, <2>6 DEF t
<1>. QED  BY <1>4, <1>5

(* A name as far as strlen goes, which is all of it the second time.       *)
LEMMA MinFact ==
  ASSUME NEW I \in SUBSET Nat, I # {}
  PROVE  Min(I) \in I /\ \A y \in I : Min(I) <= y
<1>. DEFINE R == OpToRel(<, Nat)
<1>1. IsWellFoundedOn(R, Nat)
  BY NatLessThanWellFounded, Zenon
<1>2. \E x \in I : \A y \in I : ~(<<y, x>> \in R)
  <2>1. I \subseteq Nat
    OBVIOUS
  <2>. HIDE DEF R
  <2>. QED  BY <1>1, <2>1, WFMin
<1>3. PICK x \in I : \A y \in I : ~(<<y, x>> \in R)
  BY <1>2
<1>4. \A y \in I : ~(y < x)
  BY <1>3, Zenon DEF OpToRel
<1>5. \A y \in I : x <= y
  BY <1>4
<1>. QED  BY <1>5 DEF Min

(* CString ends before the first NUL, or with the name.                    *)
LEMMA CStringIs ==
  ASSUME NEW t \in Seq(Byte)
  PROVE  \E n \in 0 .. Len(t) : /\ CString(t) = SubSeq(t, 1, n)
                                /\ \A i \in 1 .. n : t[i] # NUL
                                /\ n # Len(t) => t[n + 1] = NUL
<1>. DEFINE I == {i \in 1 .. Len(t) : t[i] = NUL}
<1>1. Len(t) \in Nat /\ DOMAIN t = 1 .. Len(t)
  BY LenProperties
<1>2. NUL \in ToSet(t) <=> I # {}
  <2>1. NUL \in ToSet(t) <=> \E i \in 1 .. Len(t) : t[i] = NUL
    BY <1>1, ZenonT(40) DEF ToSet
  <2>. QED  BY <2>1
<1>3. CASE I = {}
  <2>1. CString(t) = SubSeq(t, 1, (Len(t) + 1) - 1)
    BY <1>2, <1>3 DEF CString
  <2>2. (Len(t) + 1) - 1 = Len(t) /\ Len(t) \in 0 .. Len(t)
    BY <1>1
  <2>3. CString(t) = SubSeq(t, 1, Len(t)) /\ \A i \in 1 .. Len(t) : t[i] # NUL
    BY <1>3, <2>1, <2>2
  <2>. HIDE DEF I
  <2>. QED  BY <2>2, <2>3, Zenon
<1>4. CASE I # {}
  <2>1. CString(t) = SubSeq(t, 1, Min(I) - 1)
    BY <1>2, <1>4, Zenon DEF CString, SelectInSeq
  <2>2. Min(I) \in I /\ \A y \in I : Min(I) <= y
    <3>1. I \in SUBSET Nat
      BY <1>1
    <3>. HIDE DEF I
    <3>. QED  BY <1>4, <3>1, MinFact
  <2>3. PICK m \in 1 .. Len(t) : m = Min(I) /\ t[m] = NUL
    BY <2>2
  <2>4. m - 1 \in 0 .. Len(t) /\ (m - 1) + 1 = m
    BY <1>1
  <2>5. \A i \in 1 .. m - 1 : t[i] # NUL
    <3>. SUFFICES ASSUME NEW i \in 1 .. m - 1, t[i] = NUL PROVE FALSE
      OBVIOUS
    <3>1. i \in I
      BY <1>1
    <3>. QED  BY <2>2, <2>3, <3>1
  <2>6. CString(t) = SubSeq(t, 1, m - 1)
    BY <2>1, <2>3
  <2>7. t[(m - 1) + 1] = NUL
    BY <2>3, <2>4
  <2>. HIDE DEF I
  <2>. QED  BY <2>4, <2>5, <2>6, <2>7
<1>. QED  BY <1>3, <1>4

(* What strlen counts has no NUL: it is all counted the second time.       *)
LEMMA CStringFact ==
  ASSUME NEW t \in Seq(Byte)
  PROVE  /\ CString(t) \in Seq(Byte) /\ Len(CString(t)) \in Nat /\ Len(CString(t)) <= Len(t)
         /\ CString(CString(t)) = CString(t)
<1>1. PICK n \in 0 .. Len(t) : CString(t) = SubSeq(t, 1, n) /\ \A i \in 1 .. n : t[i] # NUL
  BY CStringIs
<1>. DEFINE c == CString(t)
<1>2. Len(t) \in Nat /\ \A i \in 1 .. Len(t) : t[i] \in Byte
  BY LenProperties, ElementOfSeq
<1>3. \A i \in 1 .. n : t[i] \in Byte
  BY <1>2
<1>4. /\ SubSeq(t, 1, n) \in Seq(Byte) /\ Len(SubSeq(t, 1, n)) = IF 1 <= n THEN n - 1 + 1 ELSE 0
      /\ \A i \in 1 .. n - 1 + 1 : SubSeq(t, 1, n)[i] = t[1 + i - 1]
  BY <1>3, SubSeqProperties
<1>5. c \in Seq(Byte) /\ Len(c) = n /\ \A i \in 1 .. n : c[i] = t[i]
  BY <1>1, <1>2, <1>4
<1>. HIDE DEF c
<1>6. PICK m \in 0 .. Len(c) : CString(c) = SubSeq(c, 1, m) /\ (m # Len(c) => c[m + 1] = NUL)
  BY <1>5, CStringIs
<1>7. m = n
  <2>. SUFFICES ASSUME m # n PROVE FALSE
    OBVIOUS
  <2>1. m + 1 \in 1 .. n /\ c[m + 1] = NUL
    BY <1>2, <1>5, <1>6
  <2>. QED  BY <1>1, <1>5, <2>1
<1>8. CString(c) = c
  BY <1>5, <1>6, <1>7, SubSeqFull
<1>. QED  BY <1>2, <1>5, <1>8 DEF c

(* The bytes of sequences, one behind the other.                           *)
Lens(w) == Mapped([s \in Seq(Byte) |-> Len(s)], w)

(* Joined sequences are as long as they are together.                      *)
LEMMA FlattenLength ==
  \A w \in Seq(Seq(Byte)) : Lens(w) \in Seq(Nat) /\ Len(FlattenSeq(w)) = Total(Lens(w))
<1>. DEFINE F == [s \in Seq(Byte) |-> Len(s)]
            P == {w \in Seq(Seq(Byte)) : Len(FlattenSeq(w)) = Total(Mapped(F, w))}
<1>1. Maps(F, Seq(Byte), Nat) /\ \A s \in Seq(Byte) : F[s] = Len(s)
  BY LenProperties DEF Maps
<1>. HIDE DEF F
<1>2. <<>> \in P
  <2>1. Mapped(F, <<>>) = <<>>
    BY MappedNone
  <2>. QED  BY <2>1, FlattenNone, TotalNone, EmptySeq
<1>3. ASSUME NEW w \in Seq(Seq(Byte)), NEW e \in Seq(Byte), w \in P PROVE <<e>> \o w \in P
  <2>1. <<e>> \o w \in Seq(Seq(Byte))
    BY Prepended
  <2>2. FlattenSeq(<<e>> \o w) = e \o FlattenSeq(w)
    BY FlattenPrepended
  <2>3. Len(e \o FlattenSeq(w)) = Len(e) + Len(FlattenSeq(w))
    BY FlattenIn, ConcatProperties
  <2>4. Mapped(F, <<e>> \o w) = <<Len(e)>> \o Mapped(F, w)
    BY <1>1, MappedPrepended, SMTT(30)
  <2>5. Mapped(F, w) \in Seq(Nat) /\ Len(e) \in Nat
    BY <1>1, MappedIn, LenProperties
  <2>6. Total(<<Len(e)>> \o Mapped(F, w)) = Len(e) + Total(Mapped(F, w))
    BY <2>5, TotalPrepended
  <2>. QED  BY <1>3, <2>1, <2>2, <2>3, <2>4, <2>6
<1>. HIDE DEF P
<1>4. \A w \in Seq(Seq(Byte)) : w \in P
  BY <1>2, <1>3, PrependInduction
<1>5. \A w \in Seq(Seq(Byte)) : Mapped(F, w) \in Seq(Nat)
  BY <1>1, MappedIn
<1>. QED  BY <1>4, <1>5 DEF P, F, Lens

----------------------------------------------------------------------------
(* The size of a value and its bytes, from those of its items.             *)
Item == [name : Seq(Byte), data : Values]

(* What the items of a value are.                                          *)
LEMMA ItemsOf ==
  ASSUME NEW v \in Values
  PROVE  /\ v.items \in Seq(Item) /\ v.text \in Seq(Byte)
         /\ Len(v.items) \in Nat /\ DOMAIN v.items = 1 .. Len(v.items)
         /\ \A i \in 1 .. Len(v.items) : /\ v.items[i] \in Item
                                         /\ v.items[i].name \in Seq(Byte)
                                         /\ v.items[i].data \in Values
         /\ v.type \in PlainTypes \union WithNames \union {"string", "array"}
<1>1. v \in ValuesOver(Values)
  BY ValueItems
<1>2. v.items \in Seq(Item) /\ v.text \in Seq(Byte)
      /\ v.type \in PlainTypes \union WithNames \union {"string", "array"}
  BY <1>1, ValueParts, Zenon DEF Item
<1>3. Len(v.items) \in Nat /\ DOMAIN v.items = 1 .. Len(v.items)
      /\ \A i \in 1 .. Len(v.items) : v.items[i] \in Item
  BY <1>2, LenProperties, ElementOfSeq
<1>4. \A x \in Item : x.name \in Seq(Byte) /\ x.data \in Values
  BY DEF Item
<1>. QED  BY <1>2, <1>3, <1>4

(* Every type has a byte, and so many plain bytes.                         *)
LEMMA BytesOfTypes ==
  /\ \A t \in PlainTypes \union WithNames \union {"string", "array"} :
       /\ TypeOf[t] \in Byte /\ PlainBytes(t) \in Nat
       /\ t \notin PlainTypes => PlainBytes(t) = 0
  /\ EndType \in Byte
  /\ LengthBytes \in Nat /\ CountBytes \in Nat
<1>1. LengthBytes \in Nat /\ CountBytes \in Nat /\ NumberBytes \in Nat /\ ZoneBytes \in Nat
      /\ Base \in Nat /\ Base > 16
  BY WidthsAssumption
<1>2. EndType \in Byte
  BY <1>1 DEF EndType, Byte
<1>3. \A t \in PlainTypes \union WithNames \union {"string", "array"} : TypeOf[t] \in Byte
  BY <1>1 DEF PlainTypes, WithNames, TypeOf, Byte
<1>4. \A t \in PlainTypes \union WithNames \union {"string", "array"} :
        PlainBytes(t) \in Nat /\ (t \notin PlainTypes => PlainBytes(t) = 0)
  BY <1>1 DEF PlainTypes, WithNames, PlainBytes
<1>. QED  BY <1>1, <1>2, <1>3, <1>4

(* Sizes.                                                                  *)
NameSize(v, i) == IF v.type \in WithNames THEN LengthBytes + Len(v.items[i].name) ELSE 0
SizesWith(v, sizes) == [i \in DOMAIN v.items |-> sizes[i] + NameSize(v, i)]
SizeAround(v, items) ==
  1 + (IF v.type \in PlainTypes THEN CountedBytes(v.type) ELSE 0)
    + (IF v.type = "string" THEN LengthBytes + Len(v.text) ELSE 0)
    + (IF v.type \in {"assoc", "array"} THEN CountBytes ELSE 0)
    + items
    + (IF v.type \in WithNames THEN LengthBytes + 1 ELSE 0)

(* SizeWith in the terms used here.                                        *)
LEMMA SizeWithIs ==
  \A v, s : SizeWith(v, s) = SizeAround(v, Total(SizesWith(v, s)))
  BY DEF SizeWith, SizeAround, SizesWith, NameSize

(* A size is a natural.                                                    *)
LEMMA SizeAroundIn ==
  ASSUME NEW v \in Values, NEW n \in Nat
  PROVE  SizeAround(v, n) \in Nat
<1>1. v.text \in Seq(Byte) /\ v.type \in PlainTypes \union WithNames \union {"string", "array"}
  BY ItemsOf
<1>2. Len(v.text) \in Nat
  BY <1>1, LenProperties
<1>3. CountedBytes(v.type) \in Nat /\ LengthBytes \in Nat /\ CountBytes \in Nat
  BY <1>1, BytesOfTypes DEF CountedBytes
<1>. DEFINE a == IF v.type \in PlainTypes THEN CountedBytes(v.type) ELSE 0
            b == IF v.type = "string" THEN LengthBytes + Len(v.text) ELSE 0
            c == IF v.type \in {"assoc", "array"} THEN CountBytes ELSE 0
            d == IF v.type \in WithNames THEN LengthBytes + 1 ELSE 0
<1>4. a \in Nat /\ b \in Nat /\ c \in Nat /\ d \in Nat
  BY <1>2, <1>3
<1>5. SizeAround(v, n) = 1 + a + b + c + n + d
  BY DEF SizeAround
<1>. HIDE DEF a, b, c, d
<1>. QED  BY <1>4, <1>5

(* So are those of the items with their names.                             *)
LEMMA SizesWithIn ==
  ASSUME NEW v \in Values, NEW s \in Seq(Nat), Len(s) = Len(v.items)
  PROVE  SizesWith(v, s) \in Seq(Nat)
<1>. DEFINE n == Len(v.items)
            q == [i \in 1 .. n |-> s[i] + NameSize(v, i)]
<1>1. n \in Nat /\ DOMAIN v.items = 1 .. n /\ \A i \in 1 .. n : v.items[i].name \in Seq(Byte)
  BY ItemsOf
<1>2. SizesWith(v, s) = q
  BY <1>1 DEF SizesWith
<1>3. \A i \in 1 .. n : s[i] \in Nat /\ Len(v.items[i].name) \in Nat
  BY <1>1, ElementOfSeq, LenProperties
<1>. HIDE DEF n
<1>4. q \in [1 .. n -> Nat]
  BY <1>3, BytesOfTypes DEF NameSize
<1>. HIDE DEF q
<1>. QED  BY <1>1, <1>2, <1>4, SeqDef, SMTT(30)

(* amf_data_size of a value, by those of its items.                        *)
LEMMA SizeFact ==
  /\ \A v \in Values : Size[v] \in Nat
  /\ \A v \in Values : Size[v] = SizeWith(v, Kids(Size, v))
<1>. DEFINE G == [p \in Values \X Seq(Nat) |->
                    IF Len(p[2]) = Len(p[1].items) THEN SizeWith(p[1], p[2]) ELSE 0]
            Is(f) == f = [v \in Values |-> SizeWith(v, Kids(f, v))]
<1>1. ASSUME NEW v \in Values, NEW s \in Seq(Nat), Len(s) = Len(v.items)
      PROVE  G[<<v, s>>] = SizeWith(v, s) /\ SizeWith(v, s) \in Nat
  <2>1. SizesWith(v, s) \in Seq(Nat)
    BY <1>1, SizesWithIn
  <2>2. Total(SizesWith(v, s)) \in Nat
    BY <2>1, TotalIn
  <2>3. SizeAround(v, Total(SizesWith(v, s))) \in Nat
    BY <2>2, SizeAroundIn
  <2>4. SizeWith(v, s) \in Nat
    BY <2>3, SizeWithIs
  <2>. QED  BY <1>1, <2>4
<1>2. \A v \in Values, s \in Seq(Nat) : G[<<v, s>>] \in Nat
  <2>. TAKE v \in Values
  <2>. TAKE s \in Seq(Nat)
  <2>1. CASE Len(s) = Len(v.items)
    BY <1>1, <2>1
  <2>2. CASE Len(s) # Len(v.items)
    <3>1. G[<<v, s>>] = 0
      BY <2>2
    <3>. QED  BY <3>1
  <2>. QED  BY <2>1, <2>2
<1>. HIDE DEF G
<1>3. PICK f : Follows(f, Values, Nat, G)
  BY <1>2, ValueRecursion, Zenon
<1>4. f \in [Values -> Nat] /\ \A v \in Values : f[v] = G[<<v, Kids(f, v)>>]
  BY <1>3 DEF Follows
<1>5. ASSUME NEW g, Maps(g, Values, Nat), NEW v \in Values
      PROVE  Kids(g, v) \in Seq(Nat) /\ Len(Kids(g, v)) = Len(v.items)
  <2>1. v \in ValuesOver(Values)
    BY ValueItems
  <2>2. KidsAre(g, v, Nat)
    BY <1>5, <2>1, KidsIn, Zenon
  <2>. QED  BY <2>2 DEF KidsAre
<1>6. \A v \in Values : f[v] = SizeWith(v, Kids(f, v))
  <2>. TAKE v \in Values
  <2>1. Kids(f, v) \in Seq(Nat) /\ Len(Kids(f, v)) = Len(v.items)
    BY <1>4, <1>5 DEF Maps
  <2>. QED  BY <1>1, <1>4, <2>1
<1>7. Is(f)
  BY <1>4, <1>6
<1>8. Is(Size)
  <2>1. Size = CHOOSE g : Is(g)
    BY DEF Size, Kids
  <2>. HIDE DEF Is
  <2>. QED  BY <1>7, <2>1
<1>. HIDE DEF Is
<1>9. \A v \in Values : Size[v] = SizeWith(v, Kids(Size, v))
  BY <1>8, Zenon DEF Is
<1>. DEFINE P == {v \in Values : Size[v] \in Nat}
<1>10. ASSUME NEW v \in Values, \A i \in DOMAIN v.items : v.items[i].data \in P
       PROVE  v \in P
  <2>1. DOMAIN v.items = 1 .. Len(v.items) /\ Len(v.items) \in Nat
    BY ItemsOf
  <2>2. \A i \in 1 .. Len(v.items) : Size[v.items[i].data] \in Nat
    BY <1>10, <2>1
  <2>3. Kids(Size, v) \in [1 .. Len(v.items) -> Nat]
    BY <2>1, <2>2 DEF Kids
  <2>4. Kids(Size, v) \in Seq(Nat) /\ Len(Kids(Size, v)) = Len(v.items)
    BY <2>1, <2>3, SeqDef
  <2>. QED  BY <1>1, <1>9, <2>4
<1>. HIDE DEF P
<1>11. \A v \in Values : v \in P
  BY <1>10, ValueInduction
<1>. QED  BY <1>9, <1>11 DEF P

(* What is written.                                                        *)
WrittenWith(v, written) ==
  [i \in DOMAIN v.items |->
     (IF v.type \in WithNames THEN WriteString(v.items[i].name) ELSE <<>>) \o written[i]]
Plainly(v) == [i \in 1 .. PlainBytes(v.type) |-> 0]
Texted(v) == IF v.type = "string" THEN WriteString(v.text) ELSE <<>>
Counted(v) ==
  CASE v.type = "assoc" -> WritePairCount(v.items)
    [] v.type = "array" -> WriteCount(v.items)
    [] OTHER -> <<>>
Closing(v) == IF v.type \in WithNames THEN Digits(0, LengthBytes) \o <<EndType>> ELSE <<>>
WrittenAround(v, items) ==
  <<TypeOf[v.type]>> \o Plainly(v) \o Texted(v) \o Counted(v) \o items \o Closing(v)

(* WriteWith in the terms used here.                                       *)
LEMMA WriteWithIs ==
  \A v, s : WriteWith(v, s) = WrittenAround(v, FlattenSeq(WrittenWith(v, s)))
  BY DEF WriteWith, WrittenAround, WrittenWith, Plainly, Texted, Counted, Closing

(* A written string is as long as its length and its bytes.                *)
LEMMA StringWritten ==
  ASSUME NEW text \in Seq(Byte)
  PROVE  /\ WriteString(text) \in Seq(Byte)
         /\ Len(WriteString(text)) = LengthBytes + Len(text)
<1>1. Len(text) \in Nat
  BY LenProperties
<1>2. Digits(Len(text), LengthBytes) \in Seq(Byte) /\ Len(Digits(Len(text), LengthBytes)) = LengthBytes
  BY <1>1, DigitsAre, BytesOfTypes
<1>. QED  BY <1>2, ConcatProperties DEF WriteString

(* Either count is written with so many bytes.                             *)
LEMMA CountWritten ==
  ASSUME NEW items, Len(items) \in Nat
  PROVE  /\ WriteCount(items) \in Seq(Byte) /\ Len(WriteCount(items)) = CountBytes
         /\ WritePairCount(items) \in Seq(Byte) /\ Len(WritePairCount(items)) = CountBytes
<1>1. WriteCount(items) \in Seq(Byte) /\ Len(WriteCount(items)) = CountBytes
  BY DigitsAre, BytesOfTypes DEF WriteCount
<1>. DEFINE d == Digits(2 * Len(items), CountBytes)
            n == NumberOf(Reverse(d)) \div 2
            e == Digits(n, CountBytes)
<1>2. 2 * Len(items) \in Nat
  OBVIOUS
<1>3. d \in Seq(Byte) /\ Len(d) = CountBytes
  BY <1>2, DigitsAre, BytesOfTypes
<1>. HIDE DEF d
<1>4. Reverse(d) \in Seq(Byte)
  BY <1>3, ReverseFact
<1>5. NumberOf(Reverse(d)) \in Nat
  BY <1>4, NumberStep
<1>6. n \in Nat
  BY <1>5
<1>. HIDE DEF n
<1>7. e \in Seq(Byte) /\ Len(e) = CountBytes
  BY <1>6, DigitsAre, BytesOfTypes
<1>. HIDE DEF e
<1>8. Reverse(e) \in Seq(Byte) /\ Len(Reverse(e)) = CountBytes
  BY <1>7, ReverseFact
<1>9. WritePairCount(items) = Reverse(e)
  BY DEF WritePairCount, d, n, e
<1>. QED  BY <1>1, <1>8, <1>9

(* The parts of what is written around the items, and their lengths.       *)
LEMMA AroundWritten ==
  ASSUME NEW v \in Values
  PROVE  /\ <<TypeOf[v.type]>> \in Seq(Byte) /\ Len(<<TypeOf[v.type]>>) = 1
         /\ Plainly(v) \in Seq(Byte)
         /\ Len(Plainly(v)) = IF v.type \in PlainTypes THEN CountedBytes(v.type) ELSE 0
         /\ Texted(v) \in Seq(Byte)
         /\ Len(Texted(v)) = IF v.type = "string" THEN LengthBytes + Len(v.text) ELSE 0
         /\ Counted(v) \in Seq(Byte)
         /\ Len(Counted(v)) = IF v.type \in {"assoc", "array"} THEN CountBytes ELSE 0
         /\ Closing(v) \in Seq(Byte)
         /\ Len(Closing(v)) = IF v.type \in WithNames THEN LengthBytes + 1 ELSE 0
<1>0. /\ v.type \in PlainTypes \union WithNames \union {"string", "array"}
      /\ v.text \in Seq(Byte) /\ Len(v.items) \in Nat
      /\ <<>> \in Seq(Byte) /\ Len(<<>>) = 0 /\ 0 \in Byte
  BY ItemsOf, EmptySeq, WidthsAssumption DEF Byte
<1>1. <<TypeOf[v.type]>> \in Seq(Byte) /\ Len(<<TypeOf[v.type]>>) = 1
  BY <1>0, BytesOfTypes
<1>2. /\ Plainly(v) \in Seq(Byte)
      /\ Len(Plainly(v)) = IF v.type \in PlainTypes THEN CountedBytes(v.type) ELSE 0
  <2>1. PlainBytes(v.type) \in Nat /\ (v.type \notin PlainTypes => PlainBytes(v.type) = 0)
    BY <1>0, BytesOfTypes
  <2>2. Plainly(v) \in [1 .. PlainBytes(v.type) -> Byte]
    BY <1>0 DEF Plainly
  <2>3. Plainly(v) \in Seq(Byte) /\ Len(Plainly(v)) = PlainBytes(v.type)
    BY <2>1, <2>2, SeqDef
  <2>. QED  BY <2>1, <2>3 DEF CountedBytes
<1>3. /\ Texted(v) \in Seq(Byte)
      /\ Len(Texted(v)) = IF v.type = "string" THEN LengthBytes + Len(v.text) ELSE 0
  BY <1>0, StringWritten DEF Texted
<1>4. /\ Counted(v) \in Seq(Byte)
      /\ Len(Counted(v)) = IF v.type \in {"assoc", "array"} THEN CountBytes ELSE 0
  BY <1>0, CountWritten DEF Counted
<1>5. /\ Closing(v) \in Seq(Byte)
      /\ Len(Closing(v)) = IF v.type \in WithNames THEN LengthBytes + 1 ELSE 0
  <2>1. Digits(0, LengthBytes) \in Seq(Byte) /\ Len(Digits(0, LengthBytes)) = LengthBytes
    BY DigitsAre, BytesOfTypes
  <2>2. <<EndType>> \in Seq(Byte) /\ Len(<<EndType>>) = 1
    BY BytesOfTypes
  <2>3. /\ Digits(0, LengthBytes) \o <<EndType>> \in Seq(Byte)
        /\ Len(Digits(0, LengthBytes) \o <<EndType>>) = LengthBytes + 1
    BY <2>1, <2>2, ConcatProperties
  <2>. QED  BY <1>0, <2>3 DEF Closing
<1>. QED  BY <1>1, <1>2, <1>3, <1>4, <1>5

(* What is written is as long as what is counted, when the items are.      *)
LEMMA WrittenAroundIn ==
  ASSUME NEW v \in Values, NEW items \in Seq(Byte)
  PROVE  /\ WrittenAround(v, items) \in Seq(Byte)
         /\ Len(WrittenAround(v, items)) = SizeAround(v, Len(items))
<1>. DEFINE a == <<TypeOf[v.type]>>
            b == Plainly(v)
            c == Texted(v)
            d == Counted(v)
            e == Closing(v)
<1>1. a \in Seq(Byte) /\ b \in Seq(Byte) /\ c \in Seq(Byte) /\ d \in Seq(Byte) /\ e \in Seq(Byte)
  BY AroundWritten
<1>2. /\ Len(a) = 1
      /\ Len(b) = IF v.type \in PlainTypes THEN CountedBytes(v.type) ELSE 0
      /\ Len(c) = IF v.type = "string" THEN LengthBytes + Len(v.text) ELSE 0
      /\ Len(d) = IF v.type \in {"assoc", "array"} THEN CountBytes ELSE 0
      /\ Len(e) = IF v.type \in WithNames THEN LengthBytes + 1 ELSE 0
  BY AroundWritten
<1>3. WrittenAround(v, items) = a \o b \o c \o d \o items \o e
  BY DEF WrittenAround
<1>4. SizeAround(v, Len(items)) = Len(a) + Len(b) + Len(c) + Len(d) + Len(items) + Len(e)
  BY <1>2 DEF SizeAround
<1>. HIDE DEF a, b, c, d, e
<1>5. a \o b \in Seq(Byte) /\ Len(a \o b) = Len(a) + Len(b)
  BY <1>1, ConcatProperties
<1>6. a \o b \o c \in Seq(Byte) /\ Len(a \o b \o c) = Len(a \o b) + Len(c)
  BY <1>1, <1>5, ConcatProperties
<1>7. a \o b \o c \o d \in Seq(Byte) /\ Len(a \o b \o c \o d) = Len(a \o b \o c) + Len(d)
  BY <1>1, <1>6, ConcatProperties
<1>8. /\ a \o b \o c \o d \o items \in Seq(Byte)
      /\ Len(a \o b \o c \o d \o items) = Len(a \o b \o c \o d) + Len(items)
  BY <1>1, <1>7, ConcatProperties
<1>9. /\ a \o b \o c \o d \o items \o e \in Seq(Byte)
      /\ Len(a \o b \o c \o d \o items \o e) = Len(a \o b \o c \o d \o items) + Len(e)
  BY <1>1, <1>8, ConcatProperties
<1>. QED  BY <1>3, <1>4, <1>5, <1>6, <1>7, <1>8, <1>9

(* What is written of the items with their names.                          *)
LEMMA WrittenWithIn ==
  ASSUME NEW v \in Values, NEW s \in Seq(Seq(Byte)), Len(s) = Len(v.items)
  PROVE  /\ WrittenWith(v, s) \in Seq(Seq(Byte)) /\ Len(WrittenWith(v, s)) = Len(v.items)
         /\ \A i \in 1 .. Len(v.items) : /\ s[i] \in Seq(Byte)
                                         /\ Len(WrittenWith(v, s)[i]) = Len(s[i]) + NameSize(v, i)
<1>. DEFINE n == Len(v.items)
            Name(i) == IF v.type \in WithNames THEN WriteString(v.items[i].name) ELSE <<>>
            q == [i \in 1 .. n |-> Name(i) \o s[i]]
<1>1. n \in Nat /\ DOMAIN v.items = 1 .. n /\ \A i \in 1 .. n : v.items[i].name \in Seq(Byte)
  BY ItemsOf
<1>2. WrittenWith(v, s) = q
  BY <1>1 DEF WrittenWith
<1>3. \A i \in 1 .. n : s[i] \in Seq(Byte)
  BY ElementOfSeq
<1>4. \A i \in 1 .. n :
        /\ Name(i) \in Seq(Byte)
        /\ Len(Name(i)) = NameSize(v, i)
  BY <1>1, StringWritten, EmptySeq DEF NameSize
<1>. HIDE DEF n, Name
<1>5. \A i \in 1 .. n : /\ Name(i) \o s[i] \in Seq(Byte)
                        /\ Len(Name(i) \o s[i]) = Len(Name(i)) + Len(s[i])
                        /\ Len(s[i]) \in Nat /\ Len(Name(i)) \in Nat
  BY <1>3, <1>4, ConcatProperties, LenProperties
<1>6. q \in [1 .. n -> Seq(Byte)]
  BY <1>5
<1>7. \A i \in 1 .. n : q[i] = Name(i) \o s[i]
  OBVIOUS
<1>. HIDE DEF q
<1>8. q \in Seq(Seq(Byte)) /\ Len(q) = n
  BY <1>1, <1>6, SeqDef
<1>9. \A i \in 1 .. n : /\ s[i] \in Seq(Byte)
                        /\ Len(q[i]) = Len(s[i]) + NameSize(v, i)
  <2>. TAKE i \in 1 .. n
  <2>1. Len(q[i]) = Len(Name(i)) + Len(s[i]) /\ Len(s[i]) \in Nat /\ Len(Name(i)) \in Nat
    BY <1>5, <1>7
  <2>2. Len(Name(i)) = NameSize(v, i) /\ s[i] \in Seq(Byte)
    BY <1>3, <1>4
  <2>. QED  BY <2>1, <2>2
<1>. QED  BY <1>2, <1>8, <1>9 DEF n

(* amf_data_write of a value, by those of its items.                       *)
LEMMA WriteFact ==
  /\ \A v \in Values : Write[v] \in Seq(Byte)
  /\ \A v \in Values : Write[v] = WriteWith(v, Kids(Write, v))
<1>. DEFINE G == [p \in Values \X Seq(Seq(Byte)) |->
                    IF Len(p[2]) = Len(p[1].items) THEN WriteWith(p[1], p[2]) ELSE <<>>]
            Is(f) == f = [v \in Values |-> WriteWith(v, Kids(f, v))]
<1>1. ASSUME NEW v \in Values, NEW s \in Seq(Seq(Byte)), Len(s) = Len(v.items)
      PROVE  G[<<v, s>>] = WriteWith(v, s) /\ WriteWith(v, s) \in Seq(Byte)
  <2>1. WrittenWith(v, s) \in Seq(Seq(Byte))
    BY <1>1, WrittenWithIn
  <2>2. FlattenSeq(WrittenWith(v, s)) \in Seq(Byte)
    BY <2>1, FlattenIn
  <2>3. WrittenAround(v, FlattenSeq(WrittenWith(v, s))) \in Seq(Byte)
    BY <2>2, WrittenAroundIn
  <2>4. WriteWith(v, s) \in Seq(Byte)
    BY <2>3, WriteWithIs
  <2>. QED  BY <1>1, <2>4
<1>2. \A v \in Values, s \in Seq(Seq(Byte)) : G[<<v, s>>] \in Seq(Byte)
  <2>. TAKE v \in Values
  <2>. TAKE s \in Seq(Seq(Byte))
  <2>1. CASE Len(s) = Len(v.items)
    BY <1>1, <2>1
  <2>2. CASE Len(s) # Len(v.items)
    <3>1. G[<<v, s>>] = <<>>
      BY <2>2
    <3>. HIDE DEF G
    <3>. QED  BY <3>1, EmptySeq
  <2>. QED  BY <2>1, <2>2
<1>. HIDE DEF G
<1>3. PICK f : Follows(f, Values, Seq(Byte), G)
  BY <1>2, ValueRecursion, Zenon
<1>4. f \in [Values -> Seq(Byte)] /\ \A v \in Values : f[v] = G[<<v, Kids(f, v)>>]
  BY <1>3 DEF Follows
<1>5. ASSUME NEW g, Maps(g, Values, Seq(Byte)), NEW v \in Values
      PROVE  Kids(g, v) \in Seq(Seq(Byte)) /\ Len(Kids(g, v)) = Len(v.items)
  <2>1. v \in ValuesOver(Values)
    BY ValueItems
  <2>2. KidsAre(g, v, Seq(Byte))
    BY <1>5, <2>1, KidsIn, Zenon
  <2>. QED  BY <2>2 DEF KidsAre
<1>6. \A v \in Values : f[v] = WriteWith(v, Kids(f, v))
  <2>. TAKE v \in Values
  <2>1. Kids(f, v) \in Seq(Seq(Byte)) /\ Len(Kids(f, v)) = Len(v.items)
    BY <1>4, <1>5 DEF Maps
  <2>. QED  BY <1>1, <1>4, <2>1
<1>7. Is(f)
  BY <1>4, <1>6
<1>8. Is(Write)
  <2>1. Write = CHOOSE g : Is(g)
    BY DEF Write, Kids
  <2>. HIDE DEF Is
  <2>. QED  BY <1>7, <2>1
<1>. HIDE DEF Is
<1>9. \A v \in Values : Write[v] = WriteWith(v, Kids(Write, v))
  BY <1>8, Zenon DEF Is
<1>. DEFINE P == {v \in Values : Write[v] \in Seq(Byte)}
<1>10. ASSUME NEW v \in Values, \A i \in DOMAIN v.items : v.items[i].data \in P
       PROVE  v \in P
  <2>1. DOMAIN v.items = 1 .. Len(v.items) /\ Len(v.items) \in Nat
    BY ItemsOf
  <2>2. \A i \in 1 .. Len(v.items) : Write[v.items[i].data] \in Seq(Byte)
    BY <1>10, <2>1
  <2>3. Kids(Write, v) \in [1 .. Len(v.items) -> Seq(Byte)]
    BY <2>1, <2>2 DEF Kids
  <2>4. Kids(Write, v) \in Seq(Seq(Byte)) /\ Len(Kids(Write, v)) = Len(v.items)
    BY <2>1, <2>3, SeqDef
  <2>. QED  BY <1>1, <1>9, <2>4
<1>. HIDE DEF P
<1>11. \A v \in Values : v \in P
  BY <1>10, ValueInduction
<1>. QED  BY <1>9, <1>11 DEF P

(* amf_data_size counts what is written.                                   *)
LEMMA WriteLength ==
  \A v \in Values : Len(Write[v]) = Size[v]
<1>. DEFINE P == {v \in Values : Len(Write[v]) = Size[v]}
<1>1. ASSUME NEW v \in Values, \A i \in DOMAIN v.items : v.items[i].data \in P
      PROVE  Len(Write[v]) = Size[v]
  <2>. DEFINE n == Len(v.items)
              s == Kids(Write, v)
              z == Kids(Size, v)
              w == WrittenWith(v, s)
  <2>1. n \in Nat /\ DOMAIN v.items = 1 .. n /\ v \in ValuesOver(Values)
    BY ItemsOf, ValueItems
  <2>2. \A i \in 1 .. n : Len(Write[v.items[i].data]) = Size[v.items[i].data]
    BY <1>1, <2>1
  <2>3. s \in Seq(Seq(Byte)) /\ Len(s) = n /\ \A i \in 1 .. n : s[i] = Write[v.items[i].data]
    <3>1. Maps(Write, Values, Seq(Byte))
      BY WriteFact DEF Maps
    <3>2. KidsAre(Write, v, Seq(Byte))
      BY <2>1, <3>1, KidsIn, Zenon
    <3>. QED  BY <2>1, <3>2 DEF KidsAre
  <2>4. z \in Seq(Nat) /\ Len(z) = n /\ \A i \in 1 .. n : z[i] = Size[v.items[i].data]
    <3>1. Maps(Size, Values, Nat)
      BY SizeFact DEF Maps
    <3>2. KidsAre(Size, v, Nat)
      BY <2>1, <3>1, KidsIn, Zenon
    <3>. QED  BY <2>1, <3>2 DEF KidsAre
  <2>. HIDE DEF s, z
  <2>5. /\ w \in Seq(Seq(Byte)) /\ Len(w) = n
        /\ \A i \in 1 .. n : Len(w[i]) = Len(s[i]) + NameSize(v, i)
    BY <2>3, WrittenWithIn
  <2>. HIDE DEF w
  <2>6. Lens(w) \in Seq(Nat) /\ Len(Lens(w)) = n /\ \A i \in 1 .. n : Lens(w)[i] = Len(w[i])
    <3>. DEFINE F == [x \in Seq(Byte) |-> Len(x)]
    <3>1. Maps(F, Seq(Byte), Nat)
      BY LenProperties DEF Maps
    <3>2. \A i \in 1 .. n : w[i] \in Seq(Byte)
      BY <2>5, ElementOfSeq
    <3>3. \A i \in 1 .. n : F[w[i]] = Len(w[i])
      BY <3>2
    <3>. HIDE DEF F
    <3>4. Mapped(F, w) \in Seq(Nat) /\ Len(Mapped(F, w)) = n
          /\ \A i \in 1 .. n : Mapped(F, w)[i] = F[w[i]]
      BY <2>5, <3>1, MappedIn
    <3>. QED  BY <3>3, <3>4 DEF Lens, F
  <2>7. /\ SizesWith(v, z) \in Seq(Nat) /\ Len(SizesWith(v, z)) = n
        /\ \A i \in 1 .. n : SizesWith(v, z)[i] = z[i] + NameSize(v, i)
    <3>1. SizesWith(v, z) \in Seq(Nat)
      BY <2>4, SizesWithIn
    <3>2. DOMAIN SizesWith(v, z) = 1 .. n
      BY <2>1 DEF SizesWith
    <3>3. Len(SizesWith(v, z)) = n
      BY <2>1, <3>1, <3>2, LenProperties
    <3>. QED  BY <2>1, <3>1, <3>3 DEF SizesWith
  <2>8. \A i \in 1 .. n : Lens(w)[i] = SizesWith(v, z)[i]
    <3>. TAKE i \in 1 .. n
    <3>1. Lens(w)[i] = Len(s[i]) + NameSize(v, i)
      BY <2>5, <2>6
    <3>2. SizesWith(v, z)[i] = z[i] + NameSize(v, i)
      BY <2>7
    <3>3. Len(s[i]) = z[i]
      BY <2>2, <2>3, <2>4
    <3>. QED  BY <3>1, <3>2, <3>3
  <2>9. Lens(w) = SizesWith(v, z)
    BY <2>6, <2>7, <2>8, SeqEqual
  <2>10. FlattenSeq(w) \in Seq(Byte) /\ Len(FlattenSeq(w)) = Total(SizesWith(v, z))
    BY <2>5, <2>9, FlattenIn, FlattenLength
  <2>11. Len(WrittenAround(v, FlattenSeq(w))) = SizeAround(v, Total(SizesWith(v, z)))
    BY <2>10, WrittenAroundIn
  <2>12. Write[v] = WrittenAround(v, FlattenSeq(w)) /\ Size[v] = SizeAround(v, Total(SizesWith(v, z)))
    BY WriteFact, SizeFact, WriteWithIs, SizeWithIs DEF w, s, z
  <2>. QED  BY <2>11, <2>12
<1>2. \A v \in Values : (\A i \in DOMAIN v.items : v.items[i].data \in P) => v \in P
  BY <1>1
<1>. HIDE DEF P
<1>3. \A v \in Values : v \in P
  BY <1>2, ValueInduction
<1>. QED  BY <1>3 DEF P

(* Items, one behind the other.                                            *)
ItemSize(t) ==
  [x \in Item |-> Size[x.data] + (IF t \in WithNames THEN LengthBytes + Len(x.name) ELSE 0)]
ItemsSize(t, items) == Total(Mapped(ItemSize(t), items))
ItemBytes(t) ==
  [x \in Item |-> (IF t \in WithNames THEN WriteString(x.name) ELSE <<>>) \o Write[x.data]]
ItemsBytes(t, items) == FlattenSeq(Mapped(ItemBytes(t), items))

(* An item is its name and its value.                                      *)
LEMMA ItemIs ==
  /\ \A x \in Item : x.name \in Seq(Byte) /\ x.data \in Values /\ x = Named(x.name, x.data)
  /\ \A n \in Seq(Byte), v \in Values : Named(n, v) \in Item
  BY DEF Item, Named

(* The size of an item.                                                    *)
LEMMA ItemSizeIn ==
  ASSUME NEW t
  PROVE  /\ Maps(ItemSize(t), Item, Nat)
         /\ \A x \in Item : ItemSize(t)[x] =
               Size[x.data] + (IF t \in WithNames THEN LengthBytes + Len(x.name) ELSE 0)
<1>1. \A x \in Item : ItemSize(t)[x] =
        Size[x.data] + (IF t \in WithNames THEN LengthBytes + Len(x.name) ELSE 0)
  BY DEF ItemSize
<1>2. \A x \in Item : Size[x.data] \in Nat /\ Len(x.name) \in Nat
  BY ItemIs, SizeFact, LenProperties
<1>3. \A x \in Item : ItemSize(t)[x] \in Nat
  BY <1>1, <1>2, BytesOfTypes
<1>. QED  BY <1>1, <1>3 DEF Maps

(* The size of items, by the first and the others.                         *)
LEMMA ItemsSizeIs ==
  ASSUME NEW t
  PROVE  /\ ItemsSize(t, <<>>) = 0
         /\ \A s \in Seq(Item) : ItemsSize(t, s) \in Nat
         /\ \A s \in Seq(Item), x \in Item :
              ItemsSize(t, <<x>> \o s) = ItemSize(t)[x] + ItemsSize(t, s)
<1>0. Maps(ItemSize(t), Item, Nat)
  BY ItemSizeIn
<1>1. ItemsSize(t, <<>>) = 0
  BY MappedNone, TotalNone DEF ItemsSize
<1>2. \A s \in Seq(Item) : Mapped(ItemSize(t), s) \in Seq(Nat)
  BY <1>0, MappedIn
<1>3. \A s \in Seq(Item) : ItemsSize(t, s) \in Nat
  BY <1>2, TotalIn DEF ItemsSize
<1>4. ASSUME NEW s \in Seq(Item), NEW x \in Item
      PROVE  ItemsSize(t, <<x>> \o s) = ItemSize(t)[x] + ItemsSize(t, s)
  <2>1. Mapped(ItemSize(t), <<x>> \o s) = <<ItemSize(t)[x]>> \o Mapped(ItemSize(t), s)
    BY <1>0, MappedPrepended
  <2>2. ItemSize(t)[x] \in Nat
    BY <1>0 DEF Maps
  <2>. QED  BY <1>2, <2>1, <2>2, TotalPrepended DEF ItemsSize
<1>. QED  BY <1>1, <1>3, <1>4

(* The size of a value, by that of its items together.                     *)
LEMMA SizeIs ==
  ASSUME NEW v \in Values
  PROVE  Size[v] = SizeAround(v, ItemsSize(v.type, v.items))
<1>. DEFINE n == Len(v.items)
            z == Kids(Size, v)
<1>1. /\ n \in Nat /\ DOMAIN v.items = 1 .. n
      /\ \A i \in 1 .. n : v.items[i] \in Item
  BY ItemsOf
<1>2. SizesWith(v, z) = [i \in 1 .. n |-> Size[v.items[i].data] + NameSize(v, i)]
  BY <1>1 DEF SizesWith, Kids
<1>3. Mapped(ItemSize(v.type), v.items) = [i \in 1 .. n |-> ItemSize(v.type)[v.items[i]]]
  BY <1>1 DEF Mapped
<1>4. \A i \in 1 .. n : ItemSize(v.type)[v.items[i]] = Size[v.items[i].data] + NameSize(v, i)
  BY <1>1, ItemSizeIn DEF NameSize
<1>5. SizesWith(v, z) = Mapped(ItemSize(v.type), v.items)
  BY <1>2, <1>3, <1>4
<1>. QED  BY <1>5, SizeFact, SizeWithIs DEF ItemsSize

(* The bytes of an item.                                                   *)
LEMMA ItemBytesIn ==
  ASSUME NEW t
  PROVE  /\ Maps(ItemBytes(t), Item, Seq(Byte))
         /\ \A x \in Item :
              /\ ItemBytes(t)[x] = (IF t \in WithNames THEN WriteString(x.name) ELSE <<>>) \o Write[x.data]
              /\ ItemBytes(t)[x] \in Seq(Byte)
<1>1. \A x \in Item :
        ItemBytes(t)[x] = (IF t \in WithNames THEN WriteString(x.name) ELSE <<>>) \o Write[x.data]
  BY DEF ItemBytes
<1>2. \A x \in Item : /\ Write[x.data] \in Seq(Byte)
                      /\ (IF t \in WithNames THEN WriteString(x.name) ELSE <<>>) \in Seq(Byte)
  BY ItemIs, WriteFact, StringWritten, EmptySeq
<1>3. \A x \in Item : ItemBytes(t)[x] \in Seq(Byte)
  BY <1>1, <1>2, ConcatProperties
<1>. QED  BY <1>1, <1>3 DEF Maps

(* The bytes of items, by those of the first and the others.               *)
LEMMA ItemsBytesIs ==
  ASSUME NEW t
  PROVE  /\ ItemsBytes(t, <<>>) = <<>>
         /\ \A s \in Seq(Item) : ItemsBytes(t, s) \in Seq(Byte)
         /\ \A s \in Seq(Item), x \in Item :
              ItemsBytes(t, <<x>> \o s) = ItemBytes(t)[x] \o ItemsBytes(t, s)
<1>0. Maps(ItemBytes(t), Item, Seq(Byte))
  BY ItemBytesIn
<1>1. ItemsBytes(t, <<>>) = <<>>
  BY MappedNone, FlattenNone DEF ItemsBytes
<1>2. \A s \in Seq(Item) : Mapped(ItemBytes(t), s) \in Seq(Seq(Byte))
  BY <1>0, MappedIn
<1>3. \A s \in Seq(Item) : ItemsBytes(t, s) \in Seq(Byte)
  BY <1>2, FlattenIn DEF ItemsBytes
<1>4. ASSUME NEW s \in Seq(Item), NEW x \in Item
      PROVE  ItemsBytes(t, <<x>> \o s) = ItemBytes(t)[x] \o ItemsBytes(t, s)
  <2>1. Mapped(ItemBytes(t), <<x>> \o s) = <<ItemBytes(t)[x]>> \o Mapped(ItemBytes(t), s)
    BY <1>0, MappedPrepended
  <2>2. ItemBytes(t)[x] \in Seq(Byte)
    BY <1>0 DEF Maps
  <2>. QED  BY <1>2, <2>1, <2>2, FlattenPrepended DEF ItemsBytes
<1>. QED  BY <1>1, <1>3, <1>4

(* The bytes of a value, by those of its items together.                   *)
LEMMA WriteIs ==
  ASSUME NEW v \in Values
  PROVE  Write[v] = WrittenAround(v, ItemsBytes(v.type, v.items))
<1>. DEFINE n == Len(v.items)
            z == Kids(Write, v)
            Name(x) == IF v.type \in WithNames THEN WriteString(x.name) ELSE <<>>
<1>1. /\ n \in Nat /\ DOMAIN v.items = 1 .. n
      /\ \A i \in 1 .. n : v.items[i] \in Item
  BY ItemsOf
<1>2. WrittenWith(v, z) = [i \in 1 .. n |-> Name(v.items[i]) \o Write[v.items[i].data]]
  BY <1>1 DEF WrittenWith, Kids
<1>3. Mapped(ItemBytes(v.type), v.items) = [i \in 1 .. n |-> ItemBytes(v.type)[v.items[i]]]
  BY <1>1 DEF Mapped
<1>4. \A i \in 1 .. n : ItemBytes(v.type)[v.items[i]] = Name(v.items[i]) \o Write[v.items[i].data]
  BY <1>1, ItemBytesIn
<1>. HIDE DEF Name
<1>5. WrittenWith(v, z) = Mapped(ItemBytes(v.type), v.items)
  BY <1>2, <1>3, <1>4
<1>. QED  BY <1>5, WriteFact, WriteWithIs DEF ItemsBytes

(* The bytes of each type.                                                 *)
End == Digits(0, LengthBytes) \o <<EndType>>

(* The end of an object, an empty name and the end mark, as bytes.         *)
LEMMA EndIn == End \in Seq(Byte) /\ Len(End) = LengthBytes + 1
<1>1. Digits(0, LengthBytes) \in Seq(Byte) /\ Len(Digits(0, LengthBytes)) = LengthBytes
  BY DigitsAre, BytesOfTypes
<1>2. <<EndType>> \in Seq(Byte) /\ Len(<<EndType>>) = 1
  BY BytesOfTypes
<1>. QED  BY <1>1, <1>2, ConcatProperties DEF End

(* What is written of each type.                                           *)
LEMMA WriteCases ==
  ASSUME NEW v \in Values
  PROVE  LET items == ItemsBytes(v.type, v.items)
             type == <<TypeOf[v.type]>>
         IN /\ v.type \in PlainTypes => Write[v] = type \o [i \in 1 .. PlainBytes(v.type) |-> 0]
            /\ v.type = "string" => Write[v] = type \o WriteString(v.text)
            /\ v.type = "object" => Write[v] = type \o (items \o End)
            /\ v.type = "assoc" => Write[v] = type \o (WritePairCount(v.items) \o (items \o End))
            /\ v.type = "array" => Write[v] = type \o (WriteCount(v.items) \o items)
<1>. DEFINE a == <<TypeOf[v.type]>>
            b == Plainly(v)
            c == Texted(v)
            d == Counted(v)
            m == ItemsBytes(v.type, v.items)
            e == Closing(v)
<1>1. /\ a \in Seq(Byte) /\ b \in Seq(Byte) /\ c \in Seq(Byte) /\ d \in Seq(Byte) /\ e \in Seq(Byte)
      /\ m \in Seq(Byte)
  BY AroundWritten, ItemsOf, ItemsBytesIs
<1>2. Write[v] = a \o b \o c \o d \o m \o e
  BY WriteIs DEF WrittenAround
<1>3. v.type \notin PlainTypes => b = <<>>
  <2>1. v.type \notin PlainTypes => PlainBytes(v.type) = 0
    BY ItemsOf, BytesOfTypes
  <2>2. Len(b) = IF v.type \in PlainTypes THEN CountedBytes(v.type) ELSE 0
    BY AroundWritten
  <2>. QED  BY <1>1, <2>2, EmptySeq
<1>4. v.type \in PlainTypes => b = [i \in 1 .. PlainBytes(v.type) |-> 0]
  BY DEF Plainly
<1>5. /\ v.type # "string" => c = <<>>
      /\ v.type = "string" => c = WriteString(v.text)
  BY DEF Texted
<1>6. /\ v.type = "assoc" => d = WritePairCount(v.items)
      /\ v.type = "array" => d = WriteCount(v.items)
      /\ v.type \notin {"assoc", "array"} => d = <<>>
  BY DEF Counted
<1>7. /\ v.type \in WithNames => e = End
      /\ v.type \notin WithNames => e = <<>>
  BY DEF Closing, End
<1>8. v.type \in PlainTypes \union {"string"} => m = <<>>
  <2>1. v \in ValuesOver(Values)
    BY ValueItems
  <2>2. v.type \notin WithNames \union {"array"} => v.items = <<>>
    BY <2>1, ValueParts
  <2>3. v.type \in PlainTypes \union {"string"} => v.type \notin WithNames \union {"array"}
    BY DEF PlainTypes, WithNames
  <2>. QED  BY <2>2, <2>3, ItemsBytesIs
<1>. HIDE DEF a, b, c, d, m, e
<1>9. \A s \in Seq(Byte) : s \o <<>> = s
  BY ConcatEmptySeq
<1>10. CASE v.type \in PlainTypes
  <2>1. c = <<>> /\ d = <<>> /\ e = <<>> /\ m = <<>>
    BY <1>5, <1>6, <1>7, <1>8, <1>10 DEF PlainTypes, WithNames
  <2>2. a \o b \in Seq(Byte)
    BY <1>1, ConcatProperties
  <2>3. Write[v] = a \o b
    BY <1>2, <1>9, <2>1, <2>2
  <2>. QED  BY <1>4, <1>10, <2>3 DEF PlainTypes, a
<1>11. CASE v.type = "string"
  <2>1. b = <<>> /\ d = <<>> /\ e = <<>> /\ m = <<>>
    BY <1>3, <1>6, <1>7, <1>8, <1>11 DEF PlainTypes, WithNames
  <2>2. a \o c \in Seq(Byte)
    BY <1>1, ConcatProperties
  <2>3. Write[v] = a \o c
    BY <1>1, <1>2, <1>9, <2>1, <2>2
  <2>. QED  BY <1>5, <1>11, <2>3 DEF PlainTypes, a
<1>12. CASE v.type = "object"
  <2>1. b = <<>> /\ c = <<>> /\ d = <<>> /\ e = End
    BY <1>3, <1>5, <1>6, <1>7, <1>12 DEF PlainTypes, WithNames
  <2>2. Write[v] = (a \o m) \o e
    BY <1>1, <1>2, <1>9, <2>1
  <2>3. (a \o m) \o e = a \o (m \o e)
    <3>1. Grouped(Byte, a, m, e)
      BY <1>1, GroupedFact, Zenon
    <3>. QED  BY <3>1 DEF Grouped
  <2>. QED  BY <1>12, <2>1, <2>2, <2>3 DEF PlainTypes, a, m
<1>13. CASE v.type = "assoc"
  <2>1. b = <<>> /\ c = <<>> /\ e = End /\ d = WritePairCount(v.items)
    BY <1>3, <1>5, <1>6, <1>7, <1>13 DEF PlainTypes, WithNames
  <2>2. Write[v] = ((a \o d) \o m) \o e
    BY <1>1, <1>2, <1>9, <2>1
  <2>0. Grouped(Byte, a, d, m) /\ Grouped(Byte, d, m, e)
    BY <1>1, GroupedFact, Zenon
  <2>3. (a \o d) \o m = a \o (d \o m) /\ d \o m \in Seq(Byte) /\ m \o e \in Seq(Byte)
    BY <2>0 DEF Grouped
  <2>4. (a \o (d \o m)) \o e = a \o ((d \o m) \o e)
    <3>. DEFINE u == d \o m
    <3>1. a \in Seq(Byte) /\ u \in Seq(Byte) /\ e \in Seq(Byte)
      BY <1>1, <2>3
    <3>. HIDE DEF u
    <3>2. Grouped(Byte, a, u, e)
      BY <3>1, GroupedFact, Zenon
    <3>. QED  BY <3>2 DEF u, Grouped
  <2>5. (d \o m) \o e = d \o (m \o e)
    BY <2>0 DEF Grouped
  <2>6. Write[v] = a \o (d \o (m \o e))
    BY <2>2, <2>3, <2>4, <2>5
  <2>. QED  BY <1>13, <2>1, <2>6 DEF PlainTypes, a, m
<1>14. CASE v.type = "array"
  <2>1. b = <<>> /\ c = <<>> /\ e = <<>> /\ d = WriteCount(v.items)
    BY <1>3, <1>5, <1>6, <1>7, <1>14 DEF PlainTypes, WithNames
  <2>2. a \o d \in Seq(Byte) /\ (a \o d) \o m = a \o (d \o m)
    <3>1. Grouped(Byte, a, d, m)
      BY <1>1, GroupedFact, Zenon
    <3>. QED  BY <3>1 DEF Grouped
  <2>3. (a \o d) \o m \in Seq(Byte)
    BY <1>1, <2>2, ConcatProperties
  <2>4. Write[v] = (a \o d) \o m
    BY <1>1, <1>2, <1>9, <2>1, <2>3
  <2>. QED  BY <1>14, <2>1, <2>2, <2>4 DEF PlainTypes, a, m
<1>15. v.type \in PlainTypes \union WithNames \union {"string", "array"}
  BY ItemsOf
<1>. QED  BY <1>10, <1>11, <1>12, <1>13, <1>14, <1>15 DEF WithNames

(* Names that reading keeps.                                               *)
KeptItems(t, items) ==
  \A i \in DOMAIN items : /\ t = "assoc" => items[i].name # <<>>
                          /\ NamesKept[items[i].data]

(* NamesKept of a value, by those of its items.                            *)
LEMMA NamesKeptIs ==
  \A v \in Values : NamesKept[v] = KeptItems(v.type, v.items)
<1>. DEFINE G == [p \in Values \X Seq(BOOLEAN) |->
                    \A i \in DOMAIN p[1].items : /\ p[1].type = "assoc" => p[1].items[i].name # <<>>
                                                 /\ p[2][i]]
            Is(f) == f = [v \in Values |->
                    \A i \in DOMAIN v.items : /\ v.type = "assoc" => v.items[i].name # <<>>
                                              /\ f[v.items[i].data]]
<1>1. \A v \in Values, s \in Seq(BOOLEAN) : G[<<v, s>>] \in BOOLEAN
  OBVIOUS
<1>2. \A v \in Values, s \in Seq(BOOLEAN) :
        G[<<v, s>>] = \A i \in DOMAIN v.items : /\ v.type = "assoc" => v.items[i].name # <<>>
                                                /\ s[i]
  OBVIOUS
<1>. HIDE DEF G
<1>3. PICK f : Follows(f, Values, BOOLEAN, G)
  BY <1>1, ValueRecursion, Zenon
<1>4. f \in [Values -> BOOLEAN] /\ \A v \in Values : f[v] = G[<<v, Kids(f, v)>>]
  BY <1>3 DEF Follows
<1>5. \A v \in Values : f[v] = \A i \in DOMAIN v.items : /\ v.type = "assoc" => v.items[i].name # <<>>
                                                         /\ f[v.items[i].data]
  <2>. TAKE v \in Values
  <2>1. v \in ValuesOver(Values)
    BY ValueItems
  <2>2. Maps(f, Values, BOOLEAN)
    BY <1>4 DEF Maps
  <2>5. KidsAre(f, v, BOOLEAN)
    BY <2>1, <2>2, KidsIn, Zenon
  <2>3. Kids(f, v) \in Seq(BOOLEAN)
    BY <2>5 DEF KidsAre
  <2>4. \A i \in DOMAIN v.items : Kids(f, v)[i] = f[v.items[i].data]
    BY DEF Kids
  <2>. QED  BY <1>2, <1>4, <2>3, <2>4
<1>6. Is(f)
  BY <1>4, <1>5
<1>7. Is(NamesKept)
  <2>1. NamesKept = CHOOSE g : Is(g)
    BY DEF NamesKept
  <2>. HIDE DEF Is
  <2>. QED  BY <1>6, <2>1
<1>. HIDE DEF Is
<1>. QED  BY <1>7, Zenon DEF Is, KeptItems

(* When the names of items are kept, so are those of the first and of the  *)
(* others.                                                                 *)
LEMMA KeptPrepended ==
  ASSUME NEW t, NEW s \in Seq(Item), NEW x \in Item, KeptItems(t, <<x>> \o s)
  PROVE  KeptItems(t, s) /\ (t = "assoc" => x.name # <<>>) /\ NamesKept[x.data]
<1>. DEFINE u == <<x>> \o s
<1>1. /\ u \in Seq(Item) /\ Len(u) = Len(s) + 1 /\ Len(s) \in Nat
      /\ u[1] = x /\ \A i \in 1 .. Len(s) : u[i + 1] = s[i]
  BY Prepended
<1>. HIDE DEF u
<1>2. DOMAIN u = 1 .. Len(s) + 1 /\ DOMAIN s = 1 .. Len(s)
  BY <1>1, LenProperties
<1>3. \A i \in 1 .. Len(s) + 1 : (t = "assoc" => u[i].name # <<>>) /\ NamesKept[u[i].data]
  BY <1>2 DEF KeptItems, u
<1>4. 1 \in 1 .. Len(s) + 1 /\ \A i \in 1 .. Len(s) : i + 1 \in 1 .. Len(s) + 1
  BY <1>1
<1>. QED  BY <1>1, <1>2, <1>3, <1>4 DEF KeptItems

----------------------------------------------------------------------------
(* Reading.                                                                *)
LEMMA TakenIn ==
  ASSUME NEW b \in Seq(Byte), NEW pos \in Nat, NEW n \in Nat, CanTake(b, pos, n)
  PROVE  /\ Taken(b, pos, n) \in Seq(Byte) /\ Len(Taken(b, pos, n)) = n
         /\ \A i \in 1 .. n : Taken(b, pos, n)[i] = b[pos + i]
<1>1. Len(b) \in Nat /\ pos + n <= Len(b) /\ \A i \in 1 .. Len(b) : b[i] \in Byte
  BY LenProperties, ElementOfSeq DEF CanTake
<1>2. \A i \in pos + 1 .. pos + n : b[i] \in Byte
  BY <1>1
<1>. DEFINE s == SubSeq(b, pos + 1, pos + n)
<1>3. /\ s \in Seq(Byte) /\ Len(s) = (IF pos + 1 <= pos + n THEN (pos + n) - (pos + 1) + 1 ELSE 0)
      /\ \A i \in 1 .. (pos + n) - (pos + 1) + 1 : s[i] = b[(pos + 1) + i - 1]
  BY <1>2, SubSeqProperties
<1>. HIDE DEF s
<1>4. (pos + n) - (pos + 1) + 1 = n /\ \A i \in 1 .. n : (pos + 1) + i - 1 = pos + i
  OBVIOUS
<1>5. Len(s) = n
  BY <1>3
<1>6. \A i \in 1 .. n : s[i] = b[pos + i]
  BY <1>3, <1>4
<1>. QED  BY <1>3, <1>5, <1>6 DEF Taken, s

(* A string is read, or the file ends.                                     *)
LEMMA ReadStringIs ==
  ASSUME NEW b \in Seq(Byte), NEW pos \in 0 .. Len(b)
  PROVE  \/ ReadString(b, pos) = Eof(b)
         \/ \E s, text \in Seq(Byte) :
              /\ Len(s) = LengthBytes /\ Len(text) = NumberOf(s) /\ Len(text) \in Nat
              /\ ReadString(b, pos) =
                   Got(Value("string", text, <<>>), pos + LengthBytes + Len(text), FALSE)
              /\ pos + LengthBytes + Len(text) <= Len(b)
<1>. DEFINE s == Taken(b, pos, LengthBytes)
            start == pos + LengthBytes
            text == Taken(b, start, NumberOf(s))
<1>0. LengthBytes \in Nat /\ Len(b) \in Nat /\ pos \in Nat
  BY BytesOfTypes, LenProperties
<1>1. CASE ~CanTake(b, pos, LengthBytes)
  BY <1>1 DEF ReadString
<1>2. CASE CanTake(b, pos, LengthBytes) /\ ~CanTake(b, start, NumberOf(s))
  BY <1>2 DEF ReadString
<1>3. CASE CanTake(b, pos, LengthBytes) /\ CanTake(b, start, NumberOf(s))
  <2>1. s \in Seq(Byte) /\ Len(s) = LengthBytes
    BY <1>0, <1>3, TakenIn
  <2>2. NumberOf(s) \in Nat /\ start \in Nat
    BY <1>0, <2>1, NumberStep
  <2>3. text \in Seq(Byte) /\ Len(text) = NumberOf(s)
    BY <1>3, <2>2, TakenIn
  <2>4. ReadString(b, pos) = Got(Value("string", text, <<>>), start + NumberOf(s), FALSE)
    BY <1>3 DEF ReadString
  <2>5. start + NumberOf(s) <= Len(b)
    BY <1>3 DEF CanTake
  <2>. HIDE DEF s, text
  <2>. QED  BY <2>1, <2>2, <2>3, <2>4, <2>5
<1>. QED  BY <1>1, <1>2, <1>3

(* The byte of a type is that of no other, nor an end or an error.         *)
LEMMA TypesDiffer ==
  ASSUME NEW t \in PlainTypes \union WithNames \union {"string", "array"}
  PROVE  /\ Typed(TypeOf[t]) = {t} /\ (CHOOSE u \in Typed(TypeOf[t]) : TRUE) = t
         /\ TypeOf[t] # EndType /\ TypeOf[t] \notin Unsupported
<1>1. PlainTypes \union WithNames \union {"string", "array"} = DOMAIN TypeOf
  BY DEF PlainTypes, WithNames, TypeOf
<1>2. \A u \in DOMAIN TypeOf : TypeOf[u] = TypeOf[t] => u = t
  BY <1>1 DEF TypeOf
<1>3. Typed(TypeOf[t]) = {t}
  BY <1>1, <1>2 DEF Typed
<1>4. TypeOf[t] # EndType /\ TypeOf[t] \notin Unsupported
  BY <1>1 DEF TypeOf, EndType, Unsupported
<1>. QED  BY <1>3, <1>4

(* A byte that has a type is the byte of one.                              *)
LEMMA TypedIs ==
  ASSUME NEW byte, Typed(byte) # {}
  PROVE  \E t \in PlainTypes \union WithNames \union {"string", "array"} : TypeOf[t] = byte
<1>1. PlainTypes \union WithNames \union {"string", "array"} = DOMAIN TypeOf
  BY DEF PlainTypes, WithNames, TypeOf
<1>. QED  BY <1>1 DEF Typed

Typing(b, start, t, read) ==
  IF t = "string" THEN ReadString(b, start)
  ELSE IF t = "object" THEN read[Place(t, start, 0)]
  ELSE IF t \in {"assoc", "array"} THEN ReadCounted(b, start, t, read)
  ELSE IF CanTake(b, start, PlainBytes(t))
  THEN Got(Plain(t), start + PlainBytes(t), FALSE)
  ELSE Eof(b)

(* What is read behind the byte of a type.                                 *)
LEMMA ReadValueIs ==
  ASSUME NEW b, NEW pos, NEW t \in PlainTypes \union WithNames \union {"string", "array"},
         CanTake(b, pos, 1), b[pos + 1] = TypeOf[t], NEW read
  PROVE  ReadValue(b, pos, read) = Typing(b, pos + 1, t, read)
<1>1. /\ Typed(b[pos + 1]) = {t} /\ (CHOOSE u \in Typed(b[pos + 1]) : TRUE) = t
      /\ b[pos + 1] # EndType /\ b[pos + 1] \notin Unsupported
  BY TypesDiffer
<1>. QED  BY <1>1 DEF ReadValue, Typing

(* What amf_data_read may come to.                                         *)
LEMMA ReadValueCases ==
  ASSUME NEW b, NEW pos, NEW read
  PROVE  \/ ReadValue(b, pos, read) = Eof(b)
         \/ /\ CanTake(b, pos, 1)
            /\ \E e \in {"END_TAG", "UNSUPPORTED_TYPE", "UNKNOWN_TYPE"} :
                 ReadValue(b, pos, read) = Error(e, pos + 1, FALSE)
         \/ /\ CanTake(b, pos, 1)
            /\ \E t \in PlainTypes \union WithNames \union {"string", "array"} :
                 /\ b[pos + 1] = TypeOf[t]
                 /\ ReadValue(b, pos, read) = Typing(b, pos + 1, t, read)
<1>1. CASE ~CanTake(b, pos, 1)
  BY <1>1 DEF ReadValue
<1>2. CASE CanTake(b, pos, 1) /\ Typed(b[pos + 1]) = {}
  BY <1>2 DEF ReadValue
<1>3. CASE CanTake(b, pos, 1) /\ Typed(b[pos + 1]) # {}
  <2>1. PICK t \in PlainTypes \union WithNames \union {"string", "array"} : TypeOf[t] = b[pos + 1]
    BY <1>3, TypedIs
  <2>2. ReadValue(b, pos, read) = Typing(b, pos + 1, t, read)
    BY <1>3, <2>1, ReadValueIs
  <2>. QED  BY <1>3, <2>1, <2>2
<1>. QED  BY <1>1, <1>2, <1>3

(* What is read at a place depends on what is read at places behind it.    *)
Body(b, p, read) ==
  CASE p.what = "data" -> ReadValue(b, p.pos, read)
    [] p.what = "array" -> ReadItems(b, p.pos, p.count, read)
    [] OTHER -> ReadPairs(b, p.pos, p.what, read)
Agree(b, n, f, g) == \A q \in Places(b) : q.pos > n => f[q] = g[q]
Placed(b, n, f) == \A q \in Places(b) : q.pos > n => f[q].pos \in q.pos .. Len(b)

(* A place and its fields.                                                 *)
LEMMA PlaceIn ==
  ASSUME NEW b, NEW what \in {"data", "object", "assoc", "array"}, NEW pos \in 0 .. Len(b),
         NEW count \in Nat
  PROVE  /\ Place(what, pos, count) \in Places(b)
         /\ Place(what, pos, count).what = what /\ Place(what, pos, count).pos = pos
         /\ Place(what, pos, count).count = count
  BY DEF Place, Places

(* The fields of what is read.                                             *)
LEMMA ResultFields ==
  /\ \A v, pos, h : /\ Got(v, pos, h).error = "OK" /\ Got(v, pos, h).value = v
                    /\ Got(v, pos, h).pos = pos /\ Got(v, pos, h).hitsEnd = h
  /\ \A e, pos, h : /\ Error(e, pos, h).error = e
                    /\ Error(e, pos, h).pos = pos /\ Error(e, pos, h).hitsEnd = h
  /\ \A b : Eof(b).error = "EOF" /\ Eof(b).pos = Len(b) /\ Eof(b).hitsEnd = TRUE
  /\ \A name, e, r : /\ Behind(name, e, r).error = r.error /\ Behind(name, e, r).pos = r.pos
                     /\ Behind(name, e, r).hitsEnd = (r.hitsEnd \/ e.hitsEnd)
                     /\ r.error = "OK" => Behind(name, e, r).value =
                          Value(r.value.type, <<>>, <<Named(name, e.value)>> \o r.value.items)
  BY DEF Got, Error, Eof, Behind

(* The bytes of a count are in the file, and a number.                     *)
LEMMA CountTaken ==
  ASSUME NEW b \in Seq(Byte), NEW start \in Nat, CanTake(b, start, CountBytes)
  PROVE  /\ start + CountBytes \in 0 .. Len(b) /\ start + CountBytes > start
         /\ Taken(b, start, CountBytes) \in Seq(Byte)
         /\ Len(Taken(b, start, CountBytes)) = CountBytes
         /\ NumberOf(Taken(b, start, CountBytes)) \in Nat
<1>1. CountBytes \in Nat \ {0} /\ Len(b) \in Nat
  BY WidthsAssumption, LenProperties
<1>2. start + CountBytes \in 0 .. Len(b) /\ start + CountBytes > start
  BY <1>1 DEF CanTake
<1>. QED  BY <1>1, <1>2, TakenIn, NumberStep

(* A value is read from places behind its own only.                        *)
LEMMA ReadValueLocal ==
  ASSUME NEW b \in Seq(Byte), NEW n \in 0 .. Len(b), NEW f, NEW g, Agree(b, n, f, g)
  PROVE  ReadValue(b, n, f) = ReadValue(b, n, g)
<1>1. CASE ~CanTake(b, n, 1)
  BY <1>1 DEF ReadValue
<1>2. CASE CanTake(b, n, 1) /\ Typed(b[n + 1]) = {}
  BY <1>2 DEF ReadValue
<1>3. CASE CanTake(b, n, 1) /\ Typed(b[n + 1]) # {}
  <2>1. PICK t \in PlainTypes \union WithNames \union {"string", "array"} : TypeOf[t] = b[n + 1]
    BY <1>3, TypedIs
  <2>2. /\ ReadValue(b, n, f) = Typing(b, n + 1, t, f)
        /\ ReadValue(b, n, g) = Typing(b, n + 1, t, g)
    BY <1>3, <2>1, ReadValueIs
  <2>3. n + 1 \in 0 .. Len(b) /\ n + 1 > n /\ n + 1 \in Nat
    BY <1>3, LenProperties DEF CanTake
  <2>4. CASE t = "object"
    <3>1. Place(t, n + 1, 0) \in Places(b) /\ Place(t, n + 1, 0).pos = n + 1
      BY <2>3, <2>4, PlaceIn
    <3>2. f[Place(t, n + 1, 0)] = g[Place(t, n + 1, 0)]
      BY <2>3, <3>1 DEF Agree
    <3>. QED  BY <2>2, <2>4, <3>2 DEF Typing
  <2>5. CASE t \in {"assoc", "array"}
    <3>1. CASE ~CanTake(b, n + 1, CountBytes)
      BY <2>2, <2>5, <3>1 DEF Typing, ReadCounted
    <3>2. CASE CanTake(b, n + 1, CountBytes)
      <4>. DEFINE count == IF t = "assoc" THEN 0 ELSE NumberOf(Taken(b, n + 1, CountBytes))
                  start == (n + 1) + CountBytes
      <4>1. start \in 0 .. Len(b) /\ start > n + 1 /\ count \in Nat
        BY <2>3, <3>2, CountTaken
      <4>. HIDE DEF start
      <4>2. Place(t, start, count) \in Places(b) /\ Place(t, start, count).pos = start
        BY <2>5, <4>1, PlaceIn
      <4>3. f[Place(t, start, count)] = g[Place(t, start, count)]
        BY <2>3, <4>1, <4>2 DEF Agree
      <4>. QED  BY <2>2, <2>5, <3>2, <4>3 DEF Typing, ReadCounted, start
    <3>. QED  BY <3>1, <3>2
  <2>6. CASE t \notin {"object", "assoc", "array"}
    <3>1. Typing(b, n + 1, t, f) = Typing(b, n + 1, t, g)
      BY <2>6, Zenon DEF Typing
    <3>. QED  BY <2>2, <3>1
  <2>. QED  BY <2>4, <2>5, <2>6
<1>. QED  BY <1>1, <1>2, <1>3

(* A read ends in the file, and a value takes at least its type.           *)
LEMMA ReadValuePlaced ==
  ASSUME NEW b \in Seq(Byte), NEW n \in 0 .. Len(b), NEW f, Placed(b, n, f)
  PROVE  /\ ReadValue(b, n, f).pos \in n .. Len(b)
         /\ ReadValue(b, n, f).error = "OK" => ReadValue(b, n, f).pos > n
<1>0. Len(b) \in Nat /\ n \in Nat /\ LengthBytes \in Nat
  BY LenProperties, BytesOfTypes
<1>. DEFINE r == ReadValue(b, n, f)
<1>1. CASE r = Eof(b)
  <2>1. r.pos = Len(b) /\ r.error = "EOF"
    BY <1>1, ResultFields
  <2>. HIDE DEF r
  <2>. QED  BY <1>0, <2>1 DEF r
<1>2. ASSUME CanTake(b, n, 1), NEW e \in {"END_TAG", "UNSUPPORTED_TYPE", "UNKNOWN_TYPE"},
             r = Error(e, n + 1, FALSE)
      PROVE  r.pos \in n .. Len(b) /\ (r.error = "OK" => r.pos > n)
  <2>. HIDE DEF r
  <2>1. r.pos = n + 1
    BY <1>2 DEF Error
  <2>2. n + 1 <= Len(b)
    BY <1>2 DEF CanTake
  <2>. QED  BY <1>0, <2>1, <2>2
<1>3. ASSUME CanTake(b, n, 1), NEW t \in PlainTypes \union WithNames \union {"string", "array"},
             r = Typing(b, n + 1, t, f)
      PROVE  r.pos \in n .. Len(b) /\ (r.error = "OK" => r.pos > n)
  <2>. HIDE DEF r
  <2>3. n + 1 \in 0 .. Len(b) /\ n + 1 > n /\ n + 1 \in Nat
    BY <1>0, <1>3 DEF CanTake
  <2>1. CASE r = Eof(b)
    <3>1. r.pos = Len(b)
      BY <2>1, ResultFields
    <3>. QED  BY <1>0, <2>3, <3>1
  <2>2. CASE t = "string" /\ r # Eof(b)
    <3>1. r = ReadString(b, n + 1)
      BY <1>3, <2>2 DEF Typing
    <3>2. PICK text \in Seq(Byte) :
            /\ Len(text) \in Nat
            /\ r = Got(Value("string", text, <<>>), (n + 1) + LengthBytes + Len(text), FALSE)
            /\ (n + 1) + LengthBytes + Len(text) <= Len(b)
      BY <2>2, <2>3, <3>1, ReadStringIs
    <3>3. r.pos = (n + 1) + LengthBytes + Len(text)
      BY <3>2 DEF Got
    <3>4. Len(text) \in Nat /\ (n + 1) + LengthBytes + Len(text) <= Len(b)
      BY <3>2
    <3>. QED  BY <1>0, <3>3, <3>4
  <2>4. CASE t = "object"
    <3>1. Place(t, n + 1, 0) \in Places(b) /\ Place(t, n + 1, 0).pos = n + 1
      BY <2>3, <2>4, PlaceIn
    <3>2. f[Place(t, n + 1, 0)].pos \in n + 1 .. Len(b)
      BY <2>3, <3>1 DEF Placed
    <3>3. r = f[Place(t, n + 1, 0)]
      BY <1>3, <2>4 DEF Typing
    <3>. QED  BY <1>0, <3>2, <3>3
  <2>5. CASE t \in {"assoc", "array"} /\ r # Eof(b)
    <3>2. CanTake(b, n + 1, CountBytes)
      BY <1>3, <2>5 DEF Typing, ReadCounted
    <3>. DEFINE count == IF t = "assoc" THEN 0 ELSE NumberOf(Taken(b, n + 1, CountBytes))
                start == (n + 1) + CountBytes
    <3>3. start \in 0 .. Len(b) /\ start > n + 1 /\ count \in Nat
      BY <2>3, <3>2, CountTaken
    <3>4. r = f[Place(t, start, count)]
      BY <1>3, <2>5, <3>2 DEF Typing, ReadCounted
    <3>. HIDE DEF start, count
    <3>5. Place(t, start, count) \in Places(b) /\ Place(t, start, count).pos = start
      BY <2>5, <3>3, PlaceIn
    <3>6. f[Place(t, start, count)].pos \in start .. Len(b)
      BY <1>0, <2>3, <3>3, <3>5 DEF Placed
    <3>. QED  BY <1>0, <3>3, <3>4, <3>6
  <2>6. CASE t \in PlainTypes /\ r # Eof(b)
    <3>1. t \notin {"string", "object", "assoc", "array"}
      BY <2>6 DEF PlainTypes
    <3>2. CanTake(b, n + 1, PlainBytes(t)) /\ r = Got(Plain(t), (n + 1) + PlainBytes(t), FALSE)
      BY <1>3, <2>6, <3>1 DEF Typing
    <3>3. r.pos = (n + 1) + PlainBytes(t)
      BY <3>2 DEF Got
    <3>4. PlainBytes(t) \in Nat /\ (n + 1) + PlainBytes(t) <= Len(b)
      BY <2>6, <3>2, BytesOfTypes DEF CanTake
    <3>. QED  BY <1>0, <3>3, <3>4
  <2>. QED  BY <2>1, <2>2, <2>4, <2>5, <2>6 DEF WithNames
<1>4. \/ r = Eof(b)
      \/ /\ CanTake(b, n, 1)
         /\ \E e \in {"END_TAG", "UNSUPPORTED_TYPE", "UNKNOWN_TYPE"} : r = Error(e, n + 1, FALSE)
      \/ /\ CanTake(b, n, 1)
         /\ \E t \in PlainTypes \union WithNames \union {"string", "array"} :
              r = Typing(b, n + 1, t, f)
  BY ReadValueCases
<1>. HIDE DEF r
<1>. QED  BY <1>1, <1>2, <1>3, <1>4 DEF r

(* A name is read, or the file ends.                                       *)
LEMMA NameIs ==
  ASSUME NEW b \in Seq(Byte), NEW pos \in 0 .. Len(b)
  PROVE  \/ ReadString(b, pos) = Eof(b) /\ ReadString(b, pos).error # "OK"
         \/ /\ ReadString(b, pos).error = "OK" /\ ReadString(b, pos).value.text \in Seq(Byte)
            /\ ReadString(b, pos).pos =
                 pos + LengthBytes + Len(ReadString(b, pos).value.text)
            /\ ReadString(b, pos).pos \in pos + 1 .. Len(b)
<1>. DEFINE r == ReadString(b, pos)
<1>0. LengthBytes \in Nat \ {0} /\ Len(b) \in Nat /\ pos \in Nat
  BY WidthsAssumption, LenProperties
<1>1. CASE r = Eof(b)
  <2>1. r.error = "EOF"
    BY <1>1, ResultFields
  <2>. QED  BY <1>1, <2>1
<1>2. CASE r # Eof(b)
  <2>1. PICK s, text \in Seq(Byte) :
          /\ Len(text) \in Nat
          /\ r = Got(Value("string", text, <<>>), pos + LengthBytes + Len(text), FALSE)
          /\ pos + LengthBytes + Len(text) <= Len(b)
    BY <1>2, ReadStringIs
  <2>. HIDE DEF r
  <2>2. r.error = "OK" /\ r.value.text = text /\ r.pos = pos + LengthBytes + Len(text)
    BY <2>1 DEF Got, Value
  <2>3. pos + LengthBytes + Len(text) \in pos + 1 .. Len(b)
    BY <1>0, <2>1
  <2>. QED  BY <2>1, <2>2, <2>3 DEF r
<1>. QED  BY <1>1, <1>2

(* The element read behind a name, and the rest behind it.                 *)
PairsEnd(type, name, element) ==
  IF type = "object" THEN ObjectEnds(name, element) ELSE AssocEnds(name, element)
PairsBehind(b, type, name, read) ==
  LET text == name.value.text
      element == read[Place("data", name.pos, 0)]
  IN IF PairsEnd(type, text, element) THEN Got(Value(type, <<>>, <<>>), element.pos, element.hitsEnd)
     ELSE IF element.error # "OK" THEN element
     ELSE Behind(CString(text), element, read[Place(type, element.pos, 0)])

(* A pair: its name, and what is behind it.                                *)
LEMMA ReadPairsIs ==
  ASSUME NEW b, NEW pos, NEW type, NEW read
  PROVE  ReadPairs(b, pos, type, read) =
           IF ReadString(b, pos).error # "OK" THEN ReadString(b, pos)
           ELSE PairsBehind(b, type, ReadString(b, pos), read)
  BY DEF ReadPairs, PairsBehind, PairsEnd

(* Pairs are read from places behind their own only.                       *)
LEMMA ReadPairsLocal ==
  ASSUME NEW b \in Seq(Byte), NEW n \in 0 .. Len(b), NEW type \in WithNames,
         NEW f, NEW g, Agree(b, n, f, g), Placed(b, n, f)
  PROVE  /\ ReadPairs(b, n, type, f) = ReadPairs(b, n, type, g)
         /\ ReadPairs(b, n, type, f).pos \in n .. Len(b)
<1>0. Len(b) \in Nat /\ n \in Nat /\ type \in {"data", "object", "assoc", "array"}
  BY LenProperties DEF WithNames
<1>. DEFINE name == ReadString(b, n)
<1>1. /\ ReadPairs(b, n, type, f) = IF name.error # "OK" THEN name ELSE PairsBehind(b, type, name, f)
      /\ ReadPairs(b, n, type, g) = IF name.error # "OK" THEN name ELSE PairsBehind(b, type, name, g)
  BY ReadPairsIs
<1>2. \/ name = Eof(b) /\ name.error # "OK"
      \/ name.error = "OK" /\ name.pos \in n + 1 .. Len(b)
  BY NameIs
<1>. HIDE DEF name
<1>3. CASE name.error # "OK"
  <2>1. name.pos = Len(b)
    BY <1>2, <1>3, ResultFields
  <2>. QED  BY <1>0, <1>1, <1>3, <2>1
<1>4. CASE name.error = "OK"
  <2>. DEFINE p == Place("data", name.pos, 0)
              e == f[p]
              q == Place(type, e.pos, 0)
  <2>1. name.pos \in n + 1 .. Len(b)
    BY <1>2, <1>4
  <2>2. p \in Places(b) /\ p.pos = name.pos
    BY <1>0, <2>1, PlaceIn
  <2>3. f[p] = g[p] /\ e.pos \in name.pos .. Len(b)
    BY <1>0, <2>1, <2>2 DEF Agree, Placed
  <2>. HIDE DEF e, p
  <2>4. q \in Places(b) /\ q.pos = e.pos
    BY <1>0, <2>1, <2>3, PlaceIn
  <2>5. f[q] = g[q] /\ f[q].pos \in e.pos .. Len(b)
    BY <1>0, <2>1, <2>3, <2>4 DEF Agree, Placed
  <2>. HIDE DEF q
  <2>. DEFINE text == name.value.text
              R(rest) ==
                IF PairsEnd(type, text, e) THEN Got(Value(type, <<>>, <<>>), e.pos, e.hitsEnd)
                ELSE IF e.error # "OK" THEN e
                ELSE Behind(CString(text), e, rest)
  <2>6. PairsBehind(b, type, name, f) = R(f[q])
    BY DEF PairsBehind, e, p, q
  <2>7. PairsBehind(b, type, name, g) = R(g[q])
    BY <2>3 DEF PairsBehind, e, p, q
  <2>8. R(f[q]).pos \in e.pos .. Len(b)
    <3>1. Got(Value(type, <<>>, <<>>), e.pos, e.hitsEnd).pos = e.pos
      BY DEF Got
    <3>2. Behind(CString(text), e, f[q]).pos = f[q].pos
      BY DEF Behind
    <3>3. e.pos \in e.pos .. Len(b)
      BY <1>0, <2>1, <2>3
    <3>. HIDE DEF text
    <3>. QED  BY <2>5, <3>1, <3>2, <3>3
  <2>9. \A m \in e.pos .. Len(b) : m \in n .. Len(b)
    BY <1>0, <2>1, <2>3
  <2>. HIDE DEF R
  <2>. QED  BY <1>1, <1>4, <2>5, <2>6, <2>7, <2>8, <2>9
<1>. QED  BY <1>3, <1>4

ItemsBehind(count, element, pos, read) ==
  IF count = 0 THEN Got(Value("array", <<>>, <<>>), pos, FALSE)
  ELSE IF element.error # "OK" THEN element
  ELSE Behind(<<>>, element, read[Place("array", element.pos, count - 1)])

(* An element of an array, and what is behind it.                          *)
LEMMA ReadItemsIs ==
  ASSUME NEW b, NEW pos, NEW count, NEW read
  PROVE  ReadItems(b, pos, count, read) = ItemsBehind(count, ReadValue(b, pos, read), pos, read)
  BY DEF ReadItems, ItemsBehind

(* The elements of an array are read from places behind their own only.    *)
LEMMA ReadItemsLocal ==
  ASSUME NEW b \in Seq(Byte), NEW n \in 0 .. Len(b), NEW count \in Nat,
         NEW f, NEW g, Agree(b, n, f, g), Placed(b, n, f)
  PROVE  /\ ReadItems(b, n, count, f) = ReadItems(b, n, count, g)
         /\ ReadItems(b, n, count, f).pos \in n .. Len(b)
<1>0. Len(b) \in Nat /\ n \in Nat /\ n \in n .. Len(b)
  BY LenProperties
<1>. DEFINE e == ReadValue(b, n, f)
            q == Place("array", e.pos, count - 1)
<1>1. e = ReadValue(b, n, g)
  BY ReadValueLocal
<1>2. e.pos \in n .. Len(b) /\ (e.error = "OK" => e.pos > n)
  BY ReadValuePlaced
<1>3. /\ ReadItems(b, n, count, f) = ItemsBehind(count, e, n, f)
      /\ ReadItems(b, n, count, g) = ItemsBehind(count, e, n, g)
  BY <1>1, ReadItemsIs
<1>. HIDE DEF e
<1>4. CASE count = 0
  <2>1. /\ ItemsBehind(count, e, n, f) = Got(Value("array", <<>>, <<>>), n, FALSE)
        /\ ItemsBehind(count, e, n, g) = Got(Value("array", <<>>, <<>>), n, FALSE)
    BY <1>4 DEF ItemsBehind
  <2>2. Got(Value("array", <<>>, <<>>), n, FALSE).pos = n
    BY DEF Got
  <2>. QED  BY <1>0, <1>3, <2>1, <2>2
<1>5. CASE count # 0 /\ e.error # "OK"
  <2>1. ItemsBehind(count, e, n, f) = e /\ ItemsBehind(count, e, n, g) = e
    BY <1>5 DEF ItemsBehind
  <2>. QED  BY <1>2, <1>3, <2>1
<1>6. CASE count # 0 /\ e.error = "OK"
  <2>1. /\ ItemsBehind(count, e, n, f) = Behind(<<>>, e, f[q])
        /\ ItemsBehind(count, e, n, g) = Behind(<<>>, e, g[q])
    BY <1>6 DEF ItemsBehind
  <2>2. e.pos \in 0 .. Len(b) /\ e.pos > n /\ count - 1 \in Nat
    BY <1>0, <1>2, <1>6
  <2>3. q \in Places(b) /\ q.pos = e.pos
    BY <2>2, PlaceIn
  <2>4. f[q] = g[q] /\ f[q].pos \in e.pos .. Len(b)
    BY <1>0, <2>2, <2>3 DEF Agree, Placed
  <2>. HIDE DEF q
  <2>5. Behind(<<>>, e, f[q]).pos = f[q].pos
    BY DEF Behind
  <2>6. f[q].pos \in n .. Len(b)
    BY <1>0, <2>2, <2>4
  <2>. QED  BY <1>3, <2>1, <2>4, <2>5, <2>6
<1>. QED  BY <1>4, <1>5, <1>6

(* Everything is read from places behind its own only, and ends in the     *)
(* file.                                                                   *)
LEMMA BodyLocal ==
  ASSUME NEW b \in Seq(Byte), NEW p \in Places(b),
         NEW f, NEW g, Agree(b, p.pos, f, g), Placed(b, p.pos, f)
  PROVE  Body(b, p, f) = Body(b, p, g) /\ Body(b, p, f).pos \in p.pos .. Len(b)
<1>1. /\ p.what \in {"data", "object", "assoc", "array"} /\ p.pos \in 0 .. Len(b)
      /\ p.count \in Nat
  BY DEF Places
<1>2. CASE p.what = "data"
  <2>1. /\ Body(b, p, f) = ReadValue(b, p.pos, f)
        /\ Body(b, p, g) = ReadValue(b, p.pos, g)
    BY <1>2 DEF Body
  <2>. QED  BY <1>1, <2>1, ReadValueLocal, ReadValuePlaced
<1>3. CASE p.what = "array"
  <2>1. /\ Body(b, p, f) = ReadItems(b, p.pos, p.count, f)
        /\ Body(b, p, g) = ReadItems(b, p.pos, p.count, g)
    BY <1>3 DEF Body
  <2>. QED  BY <1>1, <2>1, ReadItemsLocal
<1>4. CASE p.what \in {"object", "assoc"}
  <2>1. /\ Body(b, p, f) = ReadPairs(b, p.pos, p.what, f)
        /\ Body(b, p, g) = ReadPairs(b, p.pos, p.what, g)
    BY <1>4 DEF Body
  <2>2. p.what \in WithNames
    BY <1>4 DEF WithNames
  <2>. QED  BY <1>1, <2>1, <2>2, ReadPairsLocal
<1>. QED  BY <1>1, <1>2, <1>3, <1>4

(* There is a reading of any bytes: from the end of them to the beginning. *)
LEMMA ReadingExists ==
  ASSUME NEW b \in Seq(Byte)
  PROVE  \E f : f = [p \in Places(b) |-> Body(b, p, f)] /\ Placed(b, 0 - 1, f)
<1>. DEFINE From(n) == {p \in Places(b) : Len(b) - p.pos < n}
            Reads(f, n) == /\ f = [p \in From(n) |-> Body(b, p, f)]
                           /\ \A p \in From(n) : f[p].pos \in p.pos .. Len(b)
            Has(n) == \E f : Reads(f, n)
            S == {n \in Nat : Has(n)}
<1>0. Len(b) \in Nat /\ \A p \in Places(b) : p.pos \in 0 .. Len(b)
  BY LenProperties DEF Places
<1>1. 0 \in S
  <2>1. From(0) = {}
    BY <1>0
  <2>2. Reads([p \in {} |-> 0], 0)
    BY <2>1
  <2>. HIDE DEF Reads, From
  <2>. QED  BY <2>2
<1>2. ASSUME NEW n \in Nat, Has(n) PROVE Has(n + 1)
  <2>1. PICK f : Reads(f, n)
    BY <1>2
  <2>. DEFINE g == [p \in From(n + 1) |-> Body(b, p, f)]
  <2>2. From(n) \subseteq From(n + 1)
    BY <1>0
  <2>3. \A p \in From(n) : g[p] = f[p]
    BY <2>1, <2>2
  <2>4. ASSUME NEW p \in From(n + 1)
        PROVE  /\ Body(b, p, f) = Body(b, p, g) /\ Body(b, p, f).pos \in p.pos .. Len(b)
    <3>1. p \in Places(b)
      OBVIOUS
    <3>2. \A q \in Places(b) : q.pos > p.pos => q \in From(n)
      BY <1>0
    <3>3. Agree(b, p.pos, f, g)
      BY <2>3, <3>2 DEF Agree
    <3>4. Placed(b, p.pos, f)
      BY <2>1, <3>2 DEF Placed
    <3>. QED  BY <3>1, <3>3, <3>4, BodyLocal
  <2>. HIDE DEF From
  <2>5. g = [p \in From(n + 1) |-> Body(b, p, g)]
    BY <2>4
  <2>6. \A p \in From(n + 1) : g[p].pos \in p.pos .. Len(b)
    BY <2>4
  <2>. HIDE DEF g
  <2>7. Reads(g, n + 1)
    BY <2>5, <2>6
  <2>. HIDE DEF Reads
  <2>. QED  BY <2>7
<1>3. S = Nat
  <2>. HIDE DEF Has
  <2>1. S \in SUBSET Nat /\ \A n \in S : n + 1 \in S
    BY <1>2
  <2>. HIDE DEF S
  <2>. QED  BY <1>1, <2>1, SetInduction
<1>4. Has(Len(b) + 1)
  <2>. HIDE DEF Has
  <2>1. Len(b) + 1 \in Nat
    BY <1>0
  <2>. QED  BY <1>3, <2>1
<1>5. From(Len(b) + 1) = Places(b)
  BY <1>0
<1>6. PICK f : Reads(f, Len(b) + 1)
  BY <1>4
<1>7. f = [p \in Places(b) |-> Body(b, p, f)]
  BY <1>5, <1>6
<1>8. \A p \in Places(b) : f[p].pos \in p.pos .. Len(b)
  BY <1>5, <1>6
<1>. QED  BY <1>7, <1>8 DEF Placed

(* The reading at every place is what its definition says.                 *)
LEMMA ReadingIs ==
  ASSUME NEW b \in Seq(Byte)
  PROVE  \A p \in Places(b) : Reading(b)[p] = Body(b, p, Reading(b))
<1>. DEFINE Is(f) == f = [p \in Places(b) |-> Body(b, p, f)]
<1>1. \E f : Is(f)
  BY ReadingExists
<1>2. Reading(b) = CHOOSE f : Is(f)
  BY DEF Reading, Body
<1>3. Is(Reading(b))
  <2>. HIDE DEF Is
  <2>. QED  BY <1>1, <1>2
<1>. HIDE DEF Is
<1>. QED  BY <1>3, Zenon DEF Is

----------------------------------------------------------------------------
(* What is read is a value that counts no more than was taken.             *)
Up(b, n) == ValuesUpTo[Len(b) - n]
Ready(b) == b \in Seq(Byte) /\ Len(b) \in Nat /\ Len(b) <= MaxDepth

(* What is nested between a position and the end of the bytes: the values  *)
(* of as many levels as there are bytes left.                              *)
LEMMA UpIs ==
  ASSUME NEW b, Ready(b), NEW n \in 0 .. Len(b)
  PROVE  /\ Up(b, n) \subseteq Values
         /\ \A m \in n .. Len(b) : Up(b, m) \subseteq Up(b, n)
         /\ n + 1 \in 0 .. Len(b) => ValuesOver(Up(b, n + 1)) = Up(b, n)
         /\ \A t \in PlainTypes : Plain(t) \in Up(b, n)
         /\ \A text \in Seq(Byte) : Value("string", text, <<>>) \in Up(b, n)
<1>0. Len(b) \in Nat /\ n \in Nat /\ Len(b) <= MaxDepth /\ MaxDepth \in Nat
  BY WidthsAssumption DEF Ready
<1>1. Up(b, n) \subseteq Values
  <2>1. Len(b) - n \in Nat /\ Len(b) - n <= MaxDepth
    BY <1>0
  <2>. QED  BY <1>0, <2>1, ValuesGrow DEF Up, Values
<1>2. ASSUME NEW m \in n .. Len(b) PROVE Up(b, m) \subseteq Up(b, n)
  <2>1. Len(b) - m \in Nat /\ Len(b) - n \in Nat /\ Len(b) - m <= Len(b) - n /\ Len(b) - n <= MaxDepth
    BY <1>0
  <2>. QED  BY <2>1, ValuesGrow DEF Up
<1>3. ASSUME n + 1 \in 0 .. Len(b) PROVE ValuesOver(Up(b, n + 1)) = Up(b, n)
  <2>1. /\ Len(b) - n \in 0 .. MaxDepth /\ Len(b) - (n + 1) \in 0 .. MaxDepth
        /\ (Len(b) - (n + 1)) + 1 = Len(b) - n
    BY <1>0, <1>3
  <2>. DEFINE d == Len(b) - (n + 1)
  <2>2. d \in 0 .. MaxDepth /\ d + 1 \in 0 .. MaxDepth /\ d + 1 = Len(b) - n
    BY <2>1
  <2>. HIDE DEF d
  <2>3. Inside(d + 1) = ValuesUpTo[d] /\ ValuesUpTo[d + 1] = ValuesOver(Inside(d + 1))
    BY <2>2, InsideFact
  <2>. QED  BY <2>2, <2>3 DEF Up, d
<1>4. Up(b, n) = ValuesOver(Inside(Len(b) - n))
  <2>1. Len(b) - n \in 0 .. MaxDepth
    BY <1>0
  <2>. QED  BY <2>1, InsideFact DEF Up
<1>. QED  BY <1>1, <1>2, <1>3, <1>4, ValueMade

Measure(what, v) ==
  IF what = "data" THEN Size[v]
  ELSE IF what = "array" THEN ItemsSize(what, v.items)
  ELSE ItemsSize(what, v.items) + LengthBytes + 1
More(r) == IF r.hitsEnd THEN 1 ELSE 0
SoundAt(b, what, pos, count, r) ==
  /\ r.pos \in pos .. Len(b) /\ r.hitsEnd \in BOOLEAN
  /\ r.hitsEnd => r.pos = Len(b)
  /\ what = "data" => r.pos > pos \/ r.hitsEnd
  /\ r.error = "OK" =>
       /\ pos = Len(b) => ~r.hitsEnd
       /\ IF what = "data" THEN r.value \in Up(b, pos)
          ELSE r.value \in ValuesOver(Up(b, pos)) /\ r.value.type = what
       /\ what = "array" => Len(r.value.items) = count
       /\ Measure(what, r.value) \in Nat
       /\ Measure(what, r.value) <= (r.pos - pos) + More(r)
SoundBehind(b, n, read) ==
  \A q \in Places(b) : q.pos > n => SoundAt(b, q.what, q.pos, q.count, read[q])

(* The end of the file is sound.                                           *)
LEMMA SoundEof ==
  ASSUME NEW b, Ready(b), NEW pos \in 0 .. Len(b), NEW what, NEW count
  PROVE  SoundAt(b, what, pos, count, Eof(b))
<1>1. Eof(b).pos = Len(b) /\ Eof(b).hitsEnd = TRUE /\ Eof(b).error = "EOF"
  BY DEF Eof, Error
<1>2. Len(b) \in pos .. Len(b)
  BY DEF Ready
<1>. QED  BY <1>1, <1>2 DEF SoundAt

(* The size of each type.                                                  *)
LEMMA SizeCases ==
  ASSUME NEW v \in Values
  PROVE  /\ v.type \in PlainTypes => Size[v] = 1 + PlainBytes(v.type)
         /\ v.type = "string" => Size[v] = 1 + (LengthBytes + Len(v.text))
         /\ v.type = "object" => Size[v] = 1 + Measure(v.type, v)
         /\ v.type \in {"assoc", "array"} => Size[v] = 1 + (CountBytes + Measure(v.type, v))
<1>1. /\ v.items \in Seq(Item) /\ v.text \in Seq(Byte)
      /\ v.type \in PlainTypes \union WithNames \union {"string", "array"}
  BY ItemsOf
<1>. DEFINE n == ItemsSize(v.type, v.items)
<1>2. n \in Nat /\ LengthBytes \in Nat /\ CountBytes \in Nat /\ Len(v.text) \in Nat
  BY <1>1, ItemsSizeIs, BytesOfTypes, LenProperties
<1>3. Size[v] = SizeAround(v, n)
  BY SizeIs
<1>4. v.type \notin WithNames \union {"array"} => n = 0
  BY ValueItems, ValueParts, ItemsSizeIs
<1>5. PlainBytes(v.type) \in Nat
  BY <1>1, BytesOfTypes
<1>6. Measure(v.type, v) = IF v.type = "data" THEN Size[v] ELSE IF v.type = "array" THEN n ELSE (n + LengthBytes) + 1
  BY DEF Measure
<1>. HIDE DEF n
<1>7. CASE v.type \in PlainTypes
  <2>1. v.type \notin {"string", "object", "assoc", "array"}
    BY <1>7 DEF PlainTypes
  <2>. QED  BY <1>2, <1>3, <1>4, <1>5, <1>7, <2>1 DEF SizeAround, WithNames, CountedBytes
<1>8. CASE v.type \notin PlainTypes
  <2>1. v.type \in {"string", "object", "assoc", "array"}
    BY <1>1, <1>8 DEF WithNames
  <2>2. CASE v.type = "string"
    BY <1>2, <1>3, <1>4, <1>8, <2>2 DEF SizeAround, WithNames
  <2>3. CASE v.type = "object"
    BY <1>2, <1>3, <1>6, <1>8, <2>3 DEF SizeAround, WithNames
  <2>4. CASE v.type = "assoc"
    BY <1>2, <1>3, <1>6, <1>8, <2>4 DEF SizeAround, WithNames
  <2>5. CASE v.type = "array"
    BY <1>2, <1>3, <1>6, <1>8, <2>5 DEF SizeAround, WithNames
  <2>. QED  BY <1>8, <2>1, <2>2, <2>3, <2>4, <2>5
<1>. QED  BY <1>7, <1>8

(* A byte that is no value is sound.                                       *)
LEMMA SoundError ==
  ASSUME NEW b, Ready(b), NEW pos \in 0 .. Len(b), CanTake(b, pos, 1),
         NEW e \in {"END_TAG", "UNSUPPORTED_TYPE", "UNKNOWN_TYPE"}, NEW count
  PROVE  SoundAt(b, "data", pos, count, Error(e, pos + 1, FALSE))
<1>1. /\ Error(e, pos + 1, FALSE).pos = pos + 1 /\ Error(e, pos + 1, FALSE).hitsEnd = FALSE
      /\ Error(e, pos + 1, FALSE).error # "OK"
  BY DEF Error
<1>2. pos + 1 \in pos .. Len(b) /\ pos + 1 > pos
  BY DEF CanTake, Ready
<1>. QED  BY <1>1, <1>2 DEF SoundAt

(* A value that is read without reading another.                           *)
LEMMA SoundPlain ==
  ASSUME NEW b, Ready(b), NEW pos \in 0 .. Len(b), NEW v \in Up(b, pos), NEW n \in Nat,
         Size[v] = 1 + n, (pos + 1) + n <= Len(b), NEW count
  PROVE  SoundAt(b, "data", pos, count, Got(v, (pos + 1) + n, FALSE))
<1>. DEFINE r == Got(v, (pos + 1) + n, FALSE)
<1>1. r.pos = (pos + 1) + n /\ r.hitsEnd = FALSE /\ r.error = "OK" /\ r.value = v
  BY DEF Got
<1>2. (pos + 1) + n \in pos .. Len(b) /\ (pos + 1) + n > pos /\ ((pos + 1) + n) - pos = 1 + n
  BY DEF Ready
<1>3. Measure("data", v) = 1 + n /\ More(r) = 0
  BY <1>1 DEF Measure, More
<1>. HIDE DEF r
<1>4. /\ Measure("data", r.value) \in Nat
      /\ Measure("data", r.value) <= (r.pos - pos) + More(r)
  BY <1>1, <1>2, <1>3
<1>5. r.pos \in pos .. Len(b) /\ r.pos > pos /\ r.value \in Up(b, pos)
  BY <1>1, <1>2
<1>6. SoundAt(b, "data", pos, count, r)
  BY <1>1, <1>4, <1>5 DEF SoundAt
<1>. QED  BY <1>6 DEF r

(* A value behind its type, and its count.                                 *)
LEMMA SoundNested ==
  ASSUME NEW b, Ready(b), NEW pos \in 0 .. Len(b), NEW n \in Nat, pos + 1 + n <= Len(b),
         NEW t \in {"object", "assoc", "array"}, t = "object" => n = 0, t # "object" => n = CountBytes,
         NEW c, NEW r, SoundAt(b, t, pos + 1 + n, c, r), NEW count
  PROVE  SoundAt(b, "data", pos, count, r)
<1>0. Len(b) \in Nat /\ pos \in Nat
  BY DEF Ready
<1>1. /\ r.pos \in pos .. Len(b) /\ r.pos > pos /\ r.hitsEnd \in BOOLEAN
      /\ r.hitsEnd => r.pos = Len(b)
  BY <1>0 DEF SoundAt
<1>2. CASE r.error # "OK"
  BY <1>1, <1>2 DEF SoundAt
<1>3. CASE r.error = "OK"
  <2>. DEFINE v == r.value
              m == Measure(t, v)
  <2>1. /\ v \in ValuesOver(Up(b, pos + 1 + n)) /\ v.type = t
        /\ m \in Nat /\ m <= (r.pos - (pos + 1 + n)) + More(r)
    BY <1>3 DEF SoundAt
  <2>2. v \in Up(b, pos)
    <3>1. pos + 1 \in 0 .. Len(b) /\ pos + 1 + n \in pos + 1 .. Len(b)
      BY <1>0
    <3>2. Up(b, pos + 1 + n) \subseteq Up(b, pos + 1) /\ ValuesOver(Up(b, pos + 1)) = Up(b, pos)
      BY <3>1, UpIs
    <3>. QED  BY <2>1, <3>2, ValuesOverGrow
  <2>3. Size[v] = 1 + (n + m)
    <3>1. v \in Values
      BY <2>2, UpIs
    <3>. HIDE DEF v
    <3>2. /\ t = "object" => Size[v] = 1 + m
          /\ t \in {"assoc", "array"} => Size[v] = 1 + (CountBytes + m)
      BY <2>1, <3>1, SizeCases
    <3>. HIDE DEF m
    <3>3. CASE t = "object"
      BY <2>1, <3>2, <3>3
    <3>4. CASE t # "object"
      BY <2>1, <3>2, <3>4
    <3>. QED  BY <3>3, <3>4
  <2>4. Measure("data", v) = 1 + (n + m)
    BY <2>3 DEF Measure
  <2>5. More(r) \in Nat
    BY DEF More
  <2>. HIDE DEF v, m
  <2>6. Measure("data", v) \in Nat /\ Measure("data", v) <= (r.pos - pos) + More(r)
    BY <1>0, <1>1, <2>1, <2>4, <2>5
  <2>7. pos # Len(b)
    BY <1>0
  <2>. QED  BY <1>1, <2>2, <2>6, <2>7 DEF SoundAt, v
<1>. QED  BY <1>2, <1>3

(* What is read behind a type is sound when all behind it is.              *)
LEMMA SoundTyped ==
  ASSUME NEW b, Ready(b), NEW pos \in 0 .. Len(b), CanTake(b, pos, 1),
         NEW read, SoundBehind(b, pos, read),
         NEW t \in PlainTypes \union WithNames \union {"string", "array"}, NEW count
  PROVE  SoundAt(b, "data", pos, count, Typing(b, pos + 1, t, read))
<1>. DEFINE r == Typing(b, pos + 1, t, read)
<1>0. b \in Seq(Byte) /\ Len(b) \in Nat /\ pos \in Nat /\ pos + 1 \in 0 .. Len(b) /\ pos + 1 \in Nat
  BY DEF Ready, CanTake
<1>1. CASE r = Eof(b)
  <2>. HIDE DEF r
  <2>. QED  BY <1>1, SoundEof DEF r
<1>2. CASE t = "string" /\ r # Eof(b)
  <2>1. r = ReadString(b, pos + 1)
    BY <1>2 DEF Typing
  <2>2. PICK s, text \in Seq(Byte) :
          /\ Len(text) \in Nat
          /\ r = Got(Value("string", text, <<>>), pos + 1 + LengthBytes + Len(text), FALSE)
          /\ pos + 1 + LengthBytes + Len(text) <= Len(b)
    BY <1>0, <1>2, <2>1, ReadStringIs
  <2>. DEFINE v == Value("string", text, <<>>)
              n == LengthBytes + Len(text)
  <2>3. v \in Up(b, pos) /\ v.type = "string" /\ v.text = text
    BY <2>2, UpIs DEF Value
  <2>4. v \in Values
    BY <2>3, UpIs
  <2>. HIDE DEF v
  <2>5. Size[v] = 1 + n
    BY <2>3, <2>4, SizeCases
  <2>6. n \in Nat /\ (pos + 1) + n = pos + 1 + LengthBytes + Len(text)
    BY <1>0, <2>2, BytesOfTypes
  <2>. HIDE DEF n, r
  <2>7. r = Got(v, (pos + 1) + n, FALSE) /\ (pos + 1) + n <= Len(b)
    BY <2>2, <2>6 DEF v
  <2>8. SoundAt(b, "data", pos, count, r)
    BY <2>3, <2>5, <2>6, <2>7, SoundPlain
  <2>. QED  BY <2>8 DEF r
<1>3. CASE t = "object"
  <2>1. Place(t, pos + 1, 0) \in Places(b) /\ Place(t, pos + 1, 0).pos = pos + 1
        /\ Place(t, pos + 1, 0).what = t /\ Place(t, pos + 1, 0).count = 0
    BY <1>0, <1>3, PlaceIn
  <2>2. r = read[Place(t, pos + 1, 0)]
    BY <1>3 DEF Typing
  <2>3. SoundAt(b, t, pos + 1, 0, r)
    BY <1>0, <2>1, <2>2 DEF SoundBehind
  <2>. HIDE DEF r
  <2>4. pos + 1 + 0 = pos + 1
    BY <1>0
  <2>5. SoundAt(b, t, pos + 1 + 0, 0, r) /\ pos + 1 + 0 <= Len(b)
    BY <1>0, <2>3, <2>4
  <2>6. SoundAt(b, "data", pos, count, r)
    BY <1>3, <2>5, SoundNested
  <2>. QED  BY <2>6 DEF r
<1>4. CASE t \in {"assoc", "array"} /\ r # Eof(b)
  <2>1. CanTake(b, pos + 1, CountBytes)
    BY <1>4 DEF Typing, ReadCounted
  <2>. DEFINE c == IF t = "assoc" THEN 0 ELSE NumberOf(Taken(b, pos + 1, CountBytes))
              start == (pos + 1) + CountBytes
  <2>2. start \in 0 .. Len(b) /\ start > pos + 1 /\ c \in Nat
    BY <1>0, <2>1, CountTaken
  <2>3. r = read[Place(t, start, c)]
    BY <1>4, <2>1 DEF Typing, ReadCounted
  <2>. HIDE DEF start, c, r
  <2>4. Place(t, start, c) \in Places(b) /\ Place(t, start, c).pos = start
        /\ Place(t, start, c).what = t /\ Place(t, start, c).count = c
    BY <1>4, <2>2, PlaceIn
  <2>5. SoundAt(b, t, start, c, r)
    BY <1>0, <2>2, <2>3, <2>4 DEF SoundBehind
  <2>6. start = pos + 1 + CountBytes /\ CountBytes \in Nat /\ start <= Len(b)
    BY <1>0, <2>2, BytesOfTypes DEF start
  <2>7. SoundAt(b, t, pos + 1 + CountBytes, c, r) /\ pos + 1 + CountBytes <= Len(b)
    BY <2>5, <2>6
  <2>8. SoundAt(b, "data", pos, count, r)
    BY <1>4, <2>6, <2>7, SoundNested
  <2>. QED  BY <2>8 DEF r
<1>5. CASE t \in PlainTypes /\ r # Eof(b)
  <2>1. t \notin {"string", "object", "assoc", "array"}
    BY <1>5 DEF PlainTypes
  <2>2. CanTake(b, pos + 1, PlainBytes(t)) /\ r = Got(Plain(t), (pos + 1) + PlainBytes(t), FALSE)
    BY <1>5, <2>1 DEF Typing
  <2>3. Plain(t) \in Up(b, pos) /\ Plain(t) \in Values /\ Plain(t).type = t
    BY <1>5, UpIs DEF Plain, Value
  <2>4. Size[Plain(t)] = 1 + PlainBytes(t)
    BY <1>5, <2>3, SizeCases
  <2>5. PlainBytes(t) \in Nat /\ (pos + 1) + PlainBytes(t) <= Len(b)
    BY <2>2, BytesOfTypes DEF CanTake
  <2>. HIDE DEF r
  <2>6. SoundAt(b, "data", pos, count, r)
    BY <2>2, <2>3, <2>4, <2>5, SoundPlain
  <2>. QED  BY <2>6 DEF r
<1>. QED  BY <1>1, <1>2, <1>3, <1>4, <1>5 DEF WithNames

(* So is a value.                                                          *)
LEMMA SoundValue ==
  ASSUME NEW b, Ready(b), NEW pos \in 0 .. Len(b), NEW read, SoundBehind(b, pos, read), NEW count
  PROVE  SoundAt(b, "data", pos, count, ReadValue(b, pos, read))
<1>1. CASE ReadValue(b, pos, read) = Eof(b)
  BY <1>1, SoundEof
<1>2. ASSUME CanTake(b, pos, 1), NEW e \in {"END_TAG", "UNSUPPORTED_TYPE", "UNKNOWN_TYPE"},
             ReadValue(b, pos, read) = Error(e, pos + 1, FALSE)
      PROVE  SoundAt(b, "data", pos, count, ReadValue(b, pos, read))
  BY <1>2, SoundError
<1>3. ASSUME CanTake(b, pos, 1), NEW t \in PlainTypes \union WithNames \union {"string", "array"},
             ReadValue(b, pos, read) = Typing(b, pos + 1, t, read)
      PROVE  SoundAt(b, "data", pos, count, ReadValue(b, pos, read))
  BY <1>3, SoundTyped
<1>. QED  BY <1>1, <1>2, <1>3, ReadValueCases

(* A sequence of elements that are in another set, too.                    *)
LEMMA SeqAlso ==
  ASSUME NEW X, NEW Y, NEW s \in Seq(X), \A i \in 1 .. Len(s) : s[i] \in Y
  PROVE  s \in Seq(Y)
<1>1. Len(s) \in Nat /\ DOMAIN s = 1 .. Len(s) /\ s = [i \in 1 .. Len(s) |-> s[i]]
  BY LenProperties
<1>2. [i \in 1 .. Len(s) |-> s[i]] \in [1 .. Len(s) -> Y]
  OBVIOUS
<1>3. s \in [1 .. Len(s) -> Y]
  BY <1>1, <1>2
<1>. QED  BY <1>1, <1>3, SeqDef

(* Of more values there are more items.                                    *)
LEMMA ItemsGrow ==
  ASSUME NEW X, NEW Y, X \subseteq Y
  PROVE  Seq([name : Seq(Byte), data : X]) \subseteq Seq([name : Seq(Byte), data : Y])
<1>1. [name : Seq(Byte), data : X] \subseteq [name : Seq(Byte), data : Y]
  OBVIOUS
<1>. QED  BY <1>1, SeqMonotonic, Zenon

(* Two bounds added: the first from p to e, the second from e to r.        *)
LEMMA Together ==
  ASSUME NEW p \in Int, NEW e \in Int, NEW r \in Int, NEW me \in Int, NEW mr \in Int,
         NEW m \in Int, me + mr <= m, NEW x \in Nat, NEW y \in Nat,
         x <= (e - p) + me, y <= (r - e) + mr
  PROVE  x + y \in Nat /\ x + y <= (r - p) + m
  OBVIOUS

(* What has items and is no array has names.                               *)
LEMMA NotArray ==
  ASSUME NEW t \in {"object", "assoc", "array"}
  PROVE  t # "array" <=> t \in WithNames
  BY DEF WithNames

(* The first item and the rest: what is counted twice is not at the end.   *)
LEMMA SoundPrepended ==
  ASSUME NEW b, Ready(b), NEW pos \in 0 .. Len(b), NEW start \in pos .. Len(b),
         NEW t \in {"object", "assoc", "array"}, NEW c, NEW n, NEW count,
         NEW e, SoundAt(b, "data", start, c, e), e.error = "OK",
         NEW rest, SoundAt(b, t, e.pos, n, rest),
         NEW name \in Seq(Byte), t = "array" => name = <<>>,
         t \in WithNames => pos + LengthBytes + Len(name) <= start,
         t = "array" => n \in Nat /\ count = n + 1
  PROVE  SoundAt(b, t, pos, count, Behind(name, e, rest))
<1>. DEFINE r == Behind(name, e, rest)
<1>0. /\ b \in Seq(Byte) /\ Len(b) \in Nat /\ pos \in Nat /\ start \in Nat /\ Len(name) \in Nat
      /\ LengthBytes \in Nat
  BY BytesOfTypes, LenProperties DEF Ready
<1>1. /\ r.error = rest.error /\ r.pos = rest.pos /\ r.hitsEnd = (rest.hitsEnd \/ e.hitsEnd)
      /\ r.error = "OK" =>
           r.value = Value(rest.value.type, <<>>, <<Named(name, e.value)>> \o rest.value.items)
  BY DEF Behind
<1>2. /\ e.pos \in start .. Len(b) /\ e.pos > start /\ e.hitsEnd \in BOOLEAN
      /\ e.hitsEnd => e.pos = Len(b)
      /\ e.value \in Up(b, start) /\ Size[e.value] \in Nat
      /\ Size[e.value] <= (e.pos - start) + More(e)
  <2>1. Measure("data", e.value) = Size[e.value]
    BY DEF Measure
  <2>. QED  BY <1>0, <2>1 DEF SoundAt
<1>3. /\ rest.pos \in e.pos .. Len(b) /\ rest.hitsEnd \in BOOLEAN
      /\ rest.hitsEnd => rest.pos = Len(b)
  BY DEF SoundAt
<1>. HIDE DEF r
<1>4. /\ r.pos \in pos .. Len(b) /\ r.hitsEnd \in BOOLEAN
      /\ r.hitsEnd => r.pos = Len(b)
  BY <1>0, <1>1, <1>2, <1>3
<1>5. pos # Len(b)
  BY <1>0, <1>2
<1>6. CASE r.error # "OK"
  <2>1. SoundAt(b, t, pos, count, r)
    BY <1>4, <1>6 DEF SoundAt
  <2>. QED  BY <2>1 DEF r
<1>7. CASE r.error = "OK"
  <2>. DEFINE v == rest.value
              x == Named(name, e.value)
  <2>1. rest.error = "OK"
    BY <1>1, <1>7
  <2>2. /\ e.pos = Len(b) => ~rest.hitsEnd
        /\ v \in ValuesOver(Up(b, e.pos)) /\ v.type = t
        /\ t = "array" => Len(v.items) = n
        /\ Measure(t, v) \in Nat /\ Measure(t, v) <= (rest.pos - e.pos) + More(rest)
    BY <2>1 DEF SoundAt
  <2>. HIDE DEF v
  <2>3. /\ Up(b, start) \subseteq Up(b, pos) /\ Up(b, e.pos) \subseteq Up(b, pos)
        /\ Up(b, pos) \subseteq Values
    <3>1. start \in pos .. Len(b) /\ e.pos \in pos .. Len(b)
      BY <1>0, <1>2
    <3>. QED  BY <3>1, UpIs
  <2>4. v \in ValuesOver(Up(b, pos))
    BY <2>2, <2>3, ValuesOverGrow
  <2>5. /\ v.items \in Seq([name : Seq(Byte), data : Up(b, pos)])
        /\ t = "array" => \A i \in DOMAIN v.items : v.items[i].name = <<>>
    BY <2>2, <2>4, ValueParts
  <2>6. x \in [name : Seq(Byte), data : Up(b, pos)] /\ x.name = name /\ x.data = e.value
    BY <1>2, <2>3 DEF Named
  <2>. HIDE DEF x
  <2>7. /\ <<x>> \o v.items \in Seq([name : Seq(Byte), data : Up(b, pos)])
        /\ Len(<<x>> \o v.items) = Len(v.items) + 1 /\ Len(v.items) \in Nat
        /\ (<<x>> \o v.items)[1] = x
        /\ \A i \in 1 .. Len(v.items) : (<<x>> \o v.items)[i + 1] = v.items[i]
    BY <2>5, <2>6, Prepended
  <2>8. v.items \in Seq(Item) /\ x \in Item
    <3>1. [name : Seq(Byte), data : Up(b, pos)] \subseteq Item
      BY <2>3 DEF Item
    <3>. QED  BY <2>3, <2>5, <2>6, <3>1, ItemsGrow DEF Item
  <2>9. r.value = Value(t, <<>>, <<x>> \o v.items)
    BY <1>1, <1>7, <2>2 DEF v, x
  <2>. DEFINE w == <<x>> \o v.items
  <2>10. w \in Seq([name : Seq(Byte), data : Up(b, pos)]) /\ Len(w) = Len(v.items) + 1
    BY <2>7
  <2>11. r.value.type = t /\ r.value.items = w
    BY <2>9 DEF Value
  <2>12. r.value \in ValuesOver(Up(b, pos))
    <3>1. CASE t # "array"
      <4>. HIDE DEF w
      <4>. QED  BY <2>9, <2>10, <3>1, NotArray, ValueMade DEF w
    <3>2. CASE t = "array"
      <4>1. \A i \in DOMAIN v.items : v.items[i].name = <<>>
        BY <2>5, <3>2
      <4>2. DOMAIN v.items = 1 .. Len(v.items)
        BY <2>5, LenProperties
      <4>3. \A i \in 1 .. Len(v.items) : /\ v.items[i] \in [name : Seq(Byte), data : Up(b, pos)]
                                         /\ v.items[i].name = <<>>
        BY <2>5, <4>1, <4>2, ElementOfSeq
      <4>4. \A i \in 1 .. Len(v.items) : v.items[i] \in [name : {<<>>}, data : Up(b, pos)]
        BY <4>3
      <4>5. v.items \in Seq([name : {<<>>}, data : Up(b, pos)])
        BY <2>5, <4>4, SeqAlso
      <4>6. x \in [name : {<<>>}, data : Up(b, pos)]
        BY <2>6, <3>2
      <4>7. w \in Seq([name : {<<>>}, data : Up(b, pos)])
        BY <4>5, <4>6, Prepended
      <4>. HIDE DEF w
      <4>. QED  BY <2>9, <3>2, <4>7, ValueMade DEF w
    <3>. QED  BY <3>1, <3>2
  <2>13. /\ ItemsSize(t, w) = ItemSize(t)[x] + ItemsSize(t, v.items)
         /\ ItemsSize(t, v.items) \in Nat
    BY <2>8, ItemsSizeIs
  <2>14. ItemSize(t)[x] = Size[e.value] + (IF t \in WithNames THEN LengthBytes + Len(name) ELSE 0)
    BY <2>6, <2>8, ItemSizeIn
  <2>. HIDE DEF w
  <2>15. /\ Measure(t, r.value) = IF t = "array" THEN ItemsSize(t, w) ELSE ItemsSize(t, w) + LengthBytes + 1
         /\ Measure(t, v) = IF t = "array" THEN ItemsSize(t, v.items) ELSE ItemsSize(t, v.items) + LengthBytes + 1
    BY <2>11 DEF Measure
  <2>16. /\ More(e) \in {0, 1} /\ More(rest) \in {0, 1} /\ More(r) \in {0, 1}
         /\ More(e) + More(rest) <= More(r)
    <3>1. e.hitsEnd => ~rest.hitsEnd
      BY <1>2, <2>2
    <3>2. r.hitsEnd = (rest.hitsEnd \/ e.hitsEnd)
      BY <1>1
    <3>3. More(e) \in {0, 1} /\ More(rest) \in {0, 1} /\ More(r) \in {0, 1}
      BY DEF More
    <3>4. CASE e.hitsEnd
      <4>1. ~rest.hitsEnd /\ r.hitsEnd
        BY <3>1, <3>2, <3>4
      <4>. QED  BY <3>4, <4>1 DEF More
    <3>5. CASE ~e.hitsEnd /\ rest.hitsEnd
      <4>1. r.hitsEnd
        BY <3>2, <3>5
      <4>. QED  BY <3>5, <4>1 DEF More
    <3>6. CASE ~e.hitsEnd /\ ~rest.hitsEnd
      BY <3>3, <3>6 DEF More
    <3>. QED  BY <3>3, <3>4, <3>5, <3>6
  <2>17. Measure(t, r.value) = ItemSize(t)[x] + Measure(t, v)
    <3>1. ItemSize(t)[x] \in Nat
      BY <1>0, <1>2, <2>14
    <3>. QED  BY <1>0, <2>13, <2>15, <3>1
  <2>18. ItemSize(t)[x] \in Nat /\ ItemSize(t)[x] <= (e.pos - pos) + More(e)
    <3>1. CASE t = "array"
      <4>1. t \notin WithNames
        BY <3>1 DEF WithNames
      <4>2. ItemSize(t)[x] = Size[e.value]
        BY <1>2, <2>14, <4>1
      <4>. QED  BY <1>0, <1>2, <2>16, <4>2
    <3>2. CASE t # "array"
      <4>1. t \in WithNames
        BY <3>2, NotArray
      <4>2. ItemSize(t)[x] = Size[e.value] + (LengthBytes + Len(name)) /\ pos + LengthBytes + Len(name) <= start
        BY <2>14, <4>1
      <4>. QED  BY <1>0, <1>2, <2>16, <4>2
    <3>. QED  BY <3>1, <3>2
  <2>19. Measure(t, r.value) \in Nat /\ Measure(t, r.value) <= (r.pos - pos) + More(r)
    <3>1. /\ e.pos \in Int /\ rest.pos \in Int /\ r.pos = rest.pos /\ pos \in Int
          /\ More(e) \in Int /\ More(rest) \in Int /\ More(r) \in Int
      BY <1>0, <1>1, <1>2, <1>3, <2>16
    <3>2. Measure(t, v) \in Nat /\ Measure(t, v) <= (rest.pos - e.pos) + More(rest)
      BY <2>2
    <3>. DEFINE y == ItemSize(t)[x]
                z == Measure(t, v)
    <3>3. y \in Nat /\ y <= (e.pos - pos) + More(e) /\ Measure(t, r.value) = y + z
      BY <2>17, <2>18
    <3>. HIDE DEF y, z
    <3>4. y + z \in Nat /\ y + z <= (rest.pos - pos) + More(r)
      BY <2>16, <3>1, <3>2, <3>3, Together DEF z
    <3>. QED  BY <3>1, <3>3, <3>4
  <2>20. t = "array" => Len(r.value.items) = count
    BY <2>2, <2>10, <2>11
  <2>21. SoundAt(b, t, pos, count, r)
    BY <1>4, <1>5, <2>11, <2>12, <2>19, <2>20 DEF SoundAt
  <2>. QED  BY <2>21 DEF r
<1>. QED  BY <1>6, <1>7

(* An error of an element is one of all.                                   *)
LEMMA SoundFailed ==
  ASSUME NEW b, Ready(b), NEW pos \in 0 .. Len(b), NEW start \in pos .. Len(b), NEW c, NEW e,
         SoundAt(b, "data", start, c, e), e.error # "OK", NEW what, what # "data", NEW count
  PROVE  SoundAt(b, what, pos, count, e)
<1>1. e.pos \in start .. Len(b) /\ e.hitsEnd \in BOOLEAN /\ (e.hitsEnd => e.pos = Len(b))
  BY DEF SoundAt
<1>2. e.pos \in pos .. Len(b)
  BY <1>1 DEF Ready
<1>. QED  BY <1>1, <1>2 DEF SoundAt

(* No more items is sound.                                                 *)
LEMMA SoundNone ==
  ASSUME NEW b, Ready(b), NEW pos \in 0 .. Len(b),
         NEW t \in {"object", "assoc", "array"}, NEW stop \in pos .. Len(b), NEW h \in BOOLEAN,
         h => stop = Len(b), pos = Len(b) => ~h,
         t \in WithNames => LengthBytes + 1 <= (stop - pos) + (IF h THEN 1 ELSE 0),
         NEW count, t = "array" => count = 0
  PROVE  SoundAt(b, t, pos, count, Got(Value(t, <<>>, <<>>), stop, h))
<1>. DEFINE r == Got(Value(t, <<>>, <<>>), stop, h)
            v == Value(t, <<>>, <<>>)
<1>0. Len(b) \in Nat /\ pos \in Nat /\ stop \in Nat /\ LengthBytes \in Nat
  BY BytesOfTypes DEF Ready
<1>1. r.pos = stop /\ r.hitsEnd = h /\ r.error = "OK" /\ r.value = v
  BY DEF Got
<1>2. v.type = t /\ v.items = <<>>
  BY DEF Value
<1>3. v \in ValuesOver(Up(b, pos))
  <2>1. <<>> \in Seq([name : Seq(Byte), data : Up(b, pos)]) /\ <<>> \in Seq([name : {<<>>}, data : Up(b, pos)])
    OBVIOUS
  <2>. QED  BY <2>1, NotArray, ValueMade
<1>4. ItemsSize(t, <<>>) = 0
  BY ItemsSizeIs
<1>. HIDE DEF r, v
<1>5. Measure(t, v) = IF t = "array" THEN 0 ELSE 0 + LengthBytes + 1
  BY <1>2, <1>4 DEF Measure
<1>6. More(r) = IF h THEN 1 ELSE 0
  BY <1>1 DEF More
<1>7. Measure(t, v) \in Nat /\ Measure(t, v) <= (stop - pos) + (IF h THEN 1 ELSE 0)
  <2>1. CASE t = "array"
    BY <1>0, <1>5, <2>1
  <2>2. CASE t # "array"
    BY <1>0, <1>5, <2>2, NotArray
  <2>. QED  BY <2>1, <2>2
<1>8. Len(<<>>) = 0
  OBVIOUS
<1>9. SoundAt(b, t, pos, count, r)
  BY <1>1, <1>2, <1>3, <1>6, <1>7, <1>8 DEF SoundAt
<1>. QED  BY <1>9 DEF r, v

(* Pairs are sound when all behind them is.                                *)
LEMMA SoundPairs ==
  ASSUME NEW b, Ready(b), NEW pos \in 0 .. Len(b), NEW read, SoundBehind(b, pos, read),
         NEW t \in WithNames, NEW count
  PROVE  SoundAt(b, t, pos, count, ReadPairs(b, pos, t, read))
<1>0. /\ b \in Seq(Byte) /\ Len(b) \in Nat /\ pos \in Nat /\ t \in {"object", "assoc"}
      /\ t \in {"object", "assoc", "array"} /\ t \in {"data", "object", "assoc", "array"}
      /\ t # "array" /\ t # "data" /\ LengthBytes \in Nat \ {0}
  BY WidthsAssumption DEF Ready, WithNames
<1>. DEFINE name == ReadString(b, pos)
            text == name.value.text
            p == Place("data", name.pos, 0)
            e == read[p]
            q == Place(t, e.pos, 0)
            rest == read[q]
<1>1. ReadPairs(b, pos, t, read) = IF name.error # "OK" THEN name ELSE PairsBehind(b, t, name, read)
  BY ReadPairsIs
<1>2. \/ name = Eof(b) /\ name.error # "OK"
      \/ /\ name.error = "OK" /\ text \in Seq(Byte) /\ name.pos = pos + LengthBytes + Len(text)
         /\ name.pos \in pos + 1 .. Len(b)
  BY <1>0, NameIs
<1>3. CASE name.error # "OK"
  BY <1>1, <1>2, <1>3, SoundEof
<1>4. CASE name.error = "OK"
  <2>. HIDE DEF name
  <2>1. text \in Seq(Byte) /\ name.pos = pos + LengthBytes + Len(text) /\ name.pos \in pos + 1 .. Len(b)
    BY <1>2, <1>4
  <2>a. name.pos \in pos + 1 .. Len(b) /\ pos \in Nat /\ Len(b) \in Nat
    BY <1>0, <2>1
  <2>2. p \in Places(b) /\ p.pos = name.pos /\ p.what = "data" /\ p.count = 0
    <3>1. name.pos \in 0 .. Len(b)
      BY <2>a
    <3>. QED  BY <3>1, PlaceIn
  <2>. HIDE DEF p
  <2>3. SoundAt(b, "data", name.pos, 0, e)
    BY <1>0, <2>1, <2>2 DEF SoundBehind
  <2>. HIDE DEF e
  <2>4. /\ e.pos \in name.pos .. Len(b) /\ e.hitsEnd \in BOOLEAN
        /\ e.hitsEnd => e.pos = Len(b)
        /\ e.pos > name.pos \/ e.hitsEnd
    BY <2>3 DEF SoundAt
  <2>5. q \in Places(b) /\ q.pos = e.pos /\ q.what = t /\ q.count = 0 /\ e.pos > pos
    <3>1. e.pos \in 0 .. Len(b) /\ e.pos > pos
      BY <2>a, <2>4
    <3>. QED  BY <1>0, <3>1, PlaceIn
  <2>. HIDE DEF q
  <2>6. SoundAt(b, t, e.pos, 0, rest)
    <3>1. q \in Places(b) /\ q.pos > pos
      BY <2>5
    <3>2. SoundAt(b, q.what, q.pos, q.count, rest)
      BY <3>1 DEF SoundBehind
    <3>. QED  BY <2>5, <3>2
  <2>. HIDE DEF rest
  <2>7. PairsBehind(b, t, name, read) =
          IF PairsEnd(t, text, e) THEN Got(Value(t, <<>>, <<>>), e.pos, e.hitsEnd)
          ELSE IF e.error # "OK" THEN e
          ELSE Behind(CString(text), e, rest)
    BY DEF PairsBehind, p, e, q, rest
  <2>8. ReadPairs(b, pos, t, read) = PairsBehind(b, t, name, read)
    BY <1>1, <1>4
  <2>. HIDE DEF text
  <2>9. CASE PairsEnd(t, text, e)
    <3>1. Len(text) \in Nat
      BY <2>1, LenProperties
    <3>2. /\ e.pos \in pos .. Len(b) /\ pos # Len(b)
          /\ LengthBytes + 1 <= (e.pos - pos) + (IF e.hitsEnd THEN 1 ELSE 0)
      BY <1>0, <2>1, <2>4, <3>1
    <3>3. SoundAt(b, t, pos, count, Got(Value(t, <<>>, <<>>), e.pos, e.hitsEnd))
      BY <1>0, <2>4, <3>2, SoundNone
    <3>. QED  BY <2>7, <2>8, <2>9, <3>3
  <2>10. CASE ~PairsEnd(t, text, e) /\ e.error # "OK"
    <3>1. name.pos \in pos .. Len(b)
      BY <1>0, <2>1
    <3>2. SoundAt(b, t, pos, count, e)
      BY <1>0, <2>3, <2>10, <3>1, SoundFailed
    <3>. QED  BY <2>7, <2>8, <2>10, <3>2
  <2>11. CASE ~PairsEnd(t, text, e) /\ e.error = "OK"
    <3>. DEFINE c == CString(text)
    <3>1. c \in Seq(Byte) /\ Len(c) \in Nat /\ Len(c) <= Len(text) /\ Len(text) \in Nat
      BY <2>1, CStringFact, LenProperties
    <3>. HIDE DEF c
    <3>2. name.pos \in pos .. Len(b) /\ pos + LengthBytes + Len(c) <= name.pos
      BY <1>0, <2>1, <3>1
    <3>3. SoundAt(b, t, pos, count, Behind(c, e, rest))
      BY <1>0, <2>3, <2>6, <2>11, <3>1, <3>2, SoundPrepended
    <3>. QED  BY <2>7, <2>8, <2>11, <3>3 DEF c
  <2>. QED  BY <2>9, <2>10, <2>11
<1>. QED  BY <1>3, <1>4

(* Elements of an array are sound when all behind them is.                 *)
LEMMA SoundItems ==
  ASSUME NEW b, Ready(b), NEW pos \in 0 .. Len(b), NEW read, SoundBehind(b, pos, read),
         NEW count \in Nat
  PROVE  SoundAt(b, "array", pos, count, ReadItems(b, pos, count, read))
<1>0. /\ b \in Seq(Byte) /\ Len(b) \in Nat /\ pos \in Nat /\ pos \in pos .. Len(b)
      /\ "array" \in {"object", "assoc", "array"} /\ "array" \notin WithNames
  BY DEF Ready, WithNames
<1>. DEFINE e == ReadValue(b, pos, read)
            q == Place("array", e.pos, count - 1)
            rest == read[q]
<1>1. ReadItems(b, pos, count, read) = ItemsBehind(count, e, pos, read)
  BY ReadItemsIs
<1>2. SoundAt(b, "data", pos, 0, e)
  BY SoundValue
<1>. HIDE DEF e
<1>3. CASE count = 0
  <2>1. ReadItems(b, pos, count, read) = Got(Value("array", <<>>, <<>>), pos, FALSE)
    BY <1>1, <1>3 DEF ItemsBehind
  <2>. QED  BY <1>0, <1>3, <2>1, SoundNone
<1>4. CASE count # 0 /\ e.error # "OK"
  <2>1. ReadItems(b, pos, count, read) = e
    BY <1>1, <1>4 DEF ItemsBehind
  <2>. QED  BY <1>0, <1>2, <1>4, <2>1, SoundFailed
<1>5. CASE count # 0 /\ e.error = "OK"
  <2>1. e.pos \in 0 .. Len(b) /\ e.pos > pos /\ count - 1 \in Nat
    BY <1>0, <1>2, <1>5 DEF SoundAt
  <2>2. q \in Places(b) /\ q.pos = e.pos /\ q.what = "array" /\ q.count = count - 1
    BY <2>1, PlaceIn
  <2>3. ReadItems(b, pos, count, read) = Behind(<<>>, e, rest)
    BY <1>1, <1>5 DEF ItemsBehind
  <2>. HIDE DEF q
  <2>4. SoundAt(b, "array", e.pos, count - 1, rest)
    BY <2>1, <2>2 DEF SoundBehind
  <2>. HIDE DEF rest
  <2>5. <<>> \in Seq(Byte) /\ count = (count - 1) + 1
    OBVIOUS
  <2>6. SoundAt(b, "array", pos, count, Behind(<<>>, e, rest))
    BY <1>0, <1>2, <1>5, <2>1, <2>4, <2>5, SoundPrepended
  <2>. QED  BY <2>3, <2>6
<1>. QED  BY <1>3, <1>4, <1>5

(* What is read at any place is sound when all behind it is.               *)
LEMMA SoundBody ==
  ASSUME NEW b, Ready(b), NEW read, NEW p \in Places(b), SoundBehind(b, p.pos, read)
  PROVE  SoundAt(b, p.what, p.pos, p.count, Body(b, p, read))
<1>1. /\ p.what \in {"data", "object", "assoc", "array"} /\ p.pos \in 0 .. Len(b)
      /\ p.count \in Nat
  BY DEF Places
<1>2. CASE p.what = "data"
  <2>1. Body(b, p, read) = ReadValue(b, p.pos, read)
    BY <1>2 DEF Body
  <2>. QED  BY <1>1, <1>2, <2>1, SoundValue
<1>3. CASE p.what = "array"
  <2>1. Body(b, p, read) = ReadItems(b, p.pos, p.count, read)
    BY <1>3 DEF Body
  <2>. QED  BY <1>1, <1>3, <2>1, SoundItems
<1>4. CASE p.what \in {"object", "assoc"}
  <2>1. Body(b, p, read) = ReadPairs(b, p.pos, p.what, read)
    BY <1>4 DEF Body
  <2>2. p.what \in WithNames
    BY <1>4 DEF WithNames
  <2>. QED  BY <1>1, <2>1, <2>2, SoundPairs
<1>. QED  BY <1>1, <1>2, <1>3, <1>4

(* From the end of the bytes to their beginning.                           *)
LEMMA BackwardInduction ==
  ASSUME NEW b, Ready(b), NEW P,
         \A p \in Places(b) : (\A q \in Places(b) : q.pos > p.pos => q \in P) => p \in P
  PROVE  \A p \in Places(b) : p \in P
<1>. DEFINE From(n) == {p \in Places(b) : Len(b) - p.pos < n}
            S == {n \in Nat : From(n) \subseteq P}
<1>0. Len(b) \in Nat /\ \A p \in Places(b) : p.pos \in 0 .. Len(b)
  BY DEF Places, Ready
<1>1. 0 \in S
  <2>1. From(0) = {}
    BY <1>0
  <2>. HIDE DEF From
  <2>. QED  BY <2>1
<1>2. \A n \in S : n + 1 \in S
  <2>. SUFFICES ASSUME NEW n \in S, NEW p \in From(n + 1) PROVE p \in P
    OBVIOUS
  <2>1. p \in Places(b) /\ From(n) \subseteq P
    OBVIOUS
  <2>2. \A q \in Places(b) : q.pos > p.pos => q \in From(n)
    BY <1>0
  <2>. HIDE DEF From
  <2>. QED  BY <2>1, <2>2
<1>3. S = Nat
  <2>1. S \in SUBSET Nat
    OBVIOUS
  <2>. HIDE DEF S
  <2>. QED  BY <1>1, <1>2, <2>1, SetInduction
<1>4. From(Len(b) + 1) \subseteq P
  <2>1. Len(b) + 1 \in Nat
    BY <1>0
  <2>. HIDE DEF From
  <2>. QED  BY <1>3, <2>1
<1>5. From(Len(b) + 1) = Places(b)
  BY <1>0
<1>. HIDE DEF From
<1>. QED  BY <1>4, <1>5

(* What is read of any bytes at any place is sound: a value of the levels  *)
(* that are left, which counts no more than was taken, or one more at the  *)
(* end of the file.                                                        *)
LEMMA Sound ==
  ASSUME NEW b, Ready(b)
  PROVE  \A p \in Places(b) : SoundAt(b, p.what, p.pos, p.count, Reading(b)[p])
<1>. DEFINE P == {p \in Places(b) : SoundAt(b, p.what, p.pos, p.count, Reading(b)[p])}
<1>1. ASSUME NEW p \in Places(b), \A q \in Places(b) : q.pos > p.pos => q \in P
      PROVE  p \in P
  <2>1. SoundBehind(b, p.pos, Reading(b))
    BY <1>1 DEF SoundBehind
  <2>2. Reading(b)[p] = Body(b, p, Reading(b))
    BY ReadingIs DEF Ready
  <2>. QED  BY <2>1, <2>2, SoundBody
<1>2. \A p \in Places(b) : p \in P
  <2>. HIDE DEF P
  <2>. QED  BY <1>1, BackwardInduction
<1>. QED  BY <1>2

----------------------------------------------------------------------------
(* Reading what has been written.                                          *)
Holds(b, q, s) == q + Len(s) <= Len(b) /\ \A i \in 1 .. Len(s) : b[q + i] = s[i]

Joins(w, s, t) == w = s \o t

(* Where joined bytes are, there are both, one behind the other.           *)
LEMMA HoldsBoth ==
  ASSUME NEW b \in Seq(Byte), NEW q \in Nat, NEW s \in Seq(Byte), NEW t \in Seq(Byte),
         NEW w, Joins(w, s, t), Holds(b, q, w)
  PROVE  /\ Holds(b, q, s) /\ Holds(b, q + Len(s), t)
         /\ q + Len(s) \in 0 .. Len(b) /\ Len(s) \in Nat
         /\ Len(w) = Len(s) + Len(t) /\ Len(t) \in Nat
<1>1. Len(s) \in Nat /\ Len(t) \in Nat /\ Len(b) \in Nat
  BY LenProperties
<1>2. /\ Len(s \o t) = Len(s) + Len(t)
      /\ \A i \in 1 .. Len(s) + Len(t) : (s \o t)[i] = IF i <= Len(s) THEN s[i] ELSE t[i - Len(s)]
  BY ConcatProperties
<1>w. w = s \o t
  BY DEF Joins
<1>3. /\ q + Len(w) <= Len(b) /\ \A i \in 1 .. Len(w) : b[q + i] = w[i]
  BY DEF Holds
<1>4. /\ Len(w) = Len(s) + Len(t)
      /\ \A i \in 1 .. Len(s) + Len(t) : w[i] = IF i <= Len(s) THEN s[i] ELSE t[i - Len(s)]
  BY <1>2, <1>w
<1>5. Holds(b, q, s)
  <2>1. \A i \in 1 .. Len(s) : i \in 1 .. Len(s) + Len(t) /\ i <= Len(s)
    BY <1>1
  <2>2. \A i \in 1 .. Len(s) : b[q + i] = s[i]
    BY <1>3, <1>4, <2>1
  <2>. QED  BY <1>1, <1>3, <1>4, <2>2 DEF Holds
<1>6. Holds(b, q + Len(s), t)
  <2>1. ASSUME NEW i \in 1 .. Len(t) PROVE b[(q + Len(s)) + i] = t[i]
    <3>1. /\ Len(s) + i \in 1 .. Len(s) + Len(t) /\ ~(Len(s) + i <= Len(s))
          /\ (Len(s) + i) - Len(s) = i /\ q + (Len(s) + i) = (q + Len(s)) + i
      BY <1>1
    <3>2. w[Len(s) + i] = t[i]
      BY <1>4, <3>1
    <3>3. b[q + (Len(s) + i)] = w[Len(s) + i]
      BY <1>3, <1>4, <3>1
    <3>. QED  BY <3>1, <3>2, <3>3
  <2>. QED  BY <1>1, <1>3, <1>4, <2>1 DEF Holds
<1>7. q + Len(s) \in 0 .. Len(b)
  BY <1>1, <1>3, <1>4
<1>. QED  BY <1>1, <1>4, <1>5, <1>6, <1>7

(* What is there is what is taken.                                         *)
LEMMA HoldsTaken ==
  ASSUME NEW b \in Seq(Byte), NEW q \in Nat, NEW s \in Seq(Byte), Holds(b, q, s)
  PROVE  CanTake(b, q, Len(s)) /\ Taken(b, q, Len(s)) = s
<1>. DEFINE n == Len(s)
            u == Taken(b, q, n)
<1>1. n \in Nat /\ CanTake(b, q, n) /\ \A i \in 1 .. n : b[q + i] = s[i]
  BY LenProperties DEF Holds, CanTake
<1>2. u \in Seq(Byte) /\ Len(u) = n /\ \A i \in 1 .. n : u[i] = b[q + i]
  BY <1>1, TakenIn
<1>. HIDE DEF u
<1>3. u = s
  <2>1. Len(u) = Len(s) /\ \A i \in 1 .. Len(u) : u[i] = s[i]
    BY <1>1, <1>2
  <2>. QED  BY <1>2, <2>1, SeqEqual
<1>. QED  BY <1>1, <1>3 DEF u

(* A written string is read back when its length fits.                     *)
LEMMA StringBack ==
  ASSUME NEW b \in Seq(Byte), NEW q \in Nat, NEW text \in Seq(Byte),
         Fits(Len(text), LengthBytes), Holds(b, q, WriteString(text))
  PROVE  ReadString(b, q) =
           Got(Value("string", text, <<>>), q + Len(WriteString(text)), FALSE)
<1>0. LengthBytes \in Nat /\ Len(text) \in Nat
  BY BytesOfTypes, LenProperties
<1>. DEFINE s == Digits(Len(text), LengthBytes)
<1>1. s \in Seq(Byte) /\ Len(s) = LengthBytes /\ NumberOf(s) = Len(text)
  BY <1>0, DigitsAre DEF Fits
<1>2. Joins(WriteString(text), s, text)
  BY DEF WriteString, Joins
<1>. HIDE DEF s
<1>3. /\ Holds(b, q, s) /\ Holds(b, q + LengthBytes, text)
      /\ Len(WriteString(text)) = LengthBytes + Len(text)
  <2>1. /\ Holds(b, q, s) /\ Holds(b, q + Len(s), text)
        /\ Len(WriteString(text)) = Len(s) + Len(text)
    <3>1. s \in Seq(Byte)
      BY <1>1
    <3>. QED  BY <1>2, <3>1, HoldsBoth
  <2>. QED  BY <1>1, <2>1
<1>4. CanTake(b, q, LengthBytes) /\ Taken(b, q, LengthBytes) = s
  BY <1>1, <1>3, HoldsTaken
<1>5. q + LengthBytes \in Nat
  BY <1>0
<1>6. CanTake(b, q + LengthBytes, Len(text)) /\ Taken(b, q + LengthBytes, Len(text)) = text
  BY <1>3, <1>5, HoldsTaken
<1>7. ReadString(b, q) = Got(Value("string", text, <<>>), (q + LengthBytes) + Len(text), FALSE)
  BY <1>1, <1>4, <1>6 DEF ReadString
<1>8. (q + LengthBytes) + Len(text) = q + Len(WriteString(text))
  BY <1>0, <1>3
<1>. QED  BY <1>7, <1>8

(* A count that is no more than was read fits.                             *)
LEMMA TakenFits ==
  ASSUME NEW s \in Seq(Byte), NEW n \in Nat, n <= NumberOf(s)
  PROVE  Fits(n, Len(s))
  BY NumberFits DEF Fits

Bytes(what, v) ==
  IF what = "data" THEN Write[v]
  ELSE IF what = "array" THEN ItemsBytes(what, v.items)
  ELSE ItemsBytes(what, v.items) \o End
Kept(what, v) == IF what = "data" THEN NamesKept[v] ELSE KeptItems(what, v.items)
Back(what, v) ==
  \A b \in Seq(Byte) : \A q \in 0 .. Len(b) :
    Holds(b, q, Bytes(what, v)) =>
      Reading(b)[Place(what, q, IF what = "array" THEN Len(v.items) ELSE 0)] =
        Got(v, q + Len(Bytes(what, v)), FALSE)
BackAt(what, r) == (r.error = "OK" /\ Kept(what, r.value)) => Back(what, r.value)
BackBehind(b, n) == \A q \in Places(b) : q.pos > n => BackAt(q.what, Reading(b)[q])

(* The reading at a place is the body of it.                               *)
LEMMA DataRead ==
  ASSUME NEW b \in Seq(Byte), NEW q \in 0 .. Len(b)
  PROVE  Reading(b)[Place("data", q, 0)] = ReadValue(b, q, Reading(b))
<1>1. Place("data", q, 0) \in Places(b) /\ Place("data", q, 0).what = "data" /\ Place("data", q, 0).pos = q
  BY PlaceIn
<1>2. Reading(b)[Place("data", q, 0)] = Body(b, Place("data", q, 0), Reading(b))
  BY <1>1, ReadingIs
<1>. QED  BY <1>1, <1>2 DEF Body

(* The reading of pairs.                                                   *)
LEMMA PairsRead ==
  ASSUME NEW b \in Seq(Byte), NEW q \in 0 .. Len(b), NEW t \in WithNames
  PROVE  Reading(b)[Place(t, q, 0)] = ReadPairs(b, q, t, Reading(b))
<1>0. t \in {"data", "object", "assoc", "array"} /\ t # "data" /\ t # "array"
  BY DEF WithNames
<1>1. Place(t, q, 0) \in Places(b) /\ Place(t, q, 0).what = t /\ Place(t, q, 0).pos = q
  BY <1>0, PlaceIn
<1>2. Reading(b)[Place(t, q, 0)] = Body(b, Place(t, q, 0), Reading(b))
  BY <1>1, ReadingIs
<1>. QED  BY <1>0, <1>1, <1>2 DEF Body

(* The reading of elements.                                                *)
LEMMA ItemsRead ==
  ASSUME NEW b \in Seq(Byte), NEW q \in 0 .. Len(b), NEW n \in Nat
  PROVE  Reading(b)[Place("array", q, n)] = ReadItems(b, q, n, Reading(b))
<1>1. /\ Place("array", q, n) \in Places(b) /\ Place("array", q, n).what = "array"
      /\ Place("array", q, n).pos = q /\ Place("array", q, n).count = n
  BY PlaceIn
<1>2. Reading(b)[Place("array", q, n)] = Body(b, Place("array", q, n), Reading(b))
  BY <1>1, ReadingIs
<1>. QED  BY <1>1, <1>2 DEF Body

(* An end is read as one.                                                  *)
LEMMA EndBack ==
  ASSUME NEW t \in WithNames
  PROVE  Back(t, Value(t, <<>>, <<>>))
<1>0. t # "array" /\ t # "data"
  BY DEF WithNames
<1>. DEFINE v == Value(t, <<>>, <<>>)
<1>1. Bytes(t, v) = End
  <2>1. ItemsBytes(t, v.items) = <<>>
    BY ItemsBytesIs DEF Value
  <2>. HIDE DEF v
  <2>2. Bytes(t, v) = <<>> \o End
    BY <1>0, <2>1 DEF Bytes
  <2>. QED  BY <2>2, EndIn, ConcatEmptySeq
<1>. SUFFICES ASSUME NEW b \in Seq(Byte), NEW q \in 0 .. Len(b), Holds(b, q, End)
              PROVE  Reading(b)[Place(t, q, 0)] = Got(v, q + Len(End), FALSE)
  BY <1>0, <1>1 DEF Back
<1>2. WriteString(<<>>) = Digits(0, LengthBytes) /\ Digits(0, LengthBytes) \in Seq(Byte)
      /\ Len(Digits(0, LengthBytes)) = LengthBytes /\ LengthBytes \in Nat /\ Len(b) \in Nat
  <2>1. LengthBytes \in Nat /\ Len(b) \in Nat
    BY BytesOfTypes, LenProperties
  <2>2. Digits(0, LengthBytes) \in Seq(Byte) /\ Len(Digits(0, LengthBytes)) = LengthBytes
    BY <2>1, DigitsAre
  <2>3. WriteString(<<>>) = Digits(0, LengthBytes) \o <<>>
    BY DEF WriteString
  <2>. QED  BY <2>1, <2>2, <2>3, ConcatEmptySeq
<1>3. Fits(0, LengthBytes)
  <2>1. Fits(0, LengthBytes)
    <3>. DEFINE s == Digits(0, LengthBytes)
    <3>1. NumberOf(s) \in Nat /\ 0 <= NumberOf(s)
      BY <1>2, NumberStep
    <3>. HIDE DEF s
    <3>2. Fits(0, Len(s))
      BY <1>2, <3>1, TakenFits DEF s
    <3>. QED  BY <1>2, <3>2 DEF s
  <2>. QED  BY <2>1
<1>4. <<EndType>> \in Seq(Byte) /\ Len(<<EndType>>) = 1
  BY BytesOfTypes
<1>5. /\ Holds(b, q, Digits(0, LengthBytes)) /\ Holds(b, q + LengthBytes, <<EndType>>)
      /\ q + LengthBytes \in 0 .. Len(b) /\ Len(End) = LengthBytes + 1
  <2>. DEFINE s == Digits(0, LengthBytes)
              u == <<EndType>>
  <2>1. s \in Seq(Byte) /\ u \in Seq(Byte) /\ Len(s) = LengthBytes /\ Len(u) = 1 /\ q \in Nat
    BY <1>2, <1>4
  <2>2. Holds(b, q, End) /\ Joins(End, s, u)
    BY DEF End, Joins
  <2>. HIDE DEF s, u
  <2>3. /\ Holds(b, q, s) /\ Holds(b, q + Len(s), u) /\ q + Len(s) \in 0 .. Len(b)
        /\ Len(End) = Len(s) + Len(u)
    <3>1. s \in Seq(Byte) /\ u \in Seq(Byte) /\ q \in Nat
      BY <2>1
    <3>. QED  BY <2>2, <3>1, HoldsBoth
  <2>4. /\ Holds(b, q, s) /\ Holds(b, q + LengthBytes, u) /\ q + LengthBytes \in 0 .. Len(b)
        /\ Len(End) = LengthBytes + 1
    BY <2>1, <2>2, <2>3
  <2>. QED  BY <2>4 DEF s, u
<1>. DEFINE name == ReadString(b, q)
            p == q + LengthBytes
            e == Reading(b)[Place("data", p, 0)]
<1>6. name = Got(Value("string", <<>>, <<>>), p, FALSE)
  <2>1. Len(<<>>) = 0 /\ <<>> \in Seq(Byte)
    OBVIOUS
  <2>2. /\ Fits(Len(<<>>), LengthBytes) /\ Holds(b, q, WriteString(<<>>)) /\ q \in Nat
        /\ q + Len(WriteString(<<>>)) = p
    BY <1>2, <1>3, <1>5, <2>1, SMTT(30)
  <2>3. ReadString(b, q) = Got(Value("string", <<>>, <<>>), q + Len(WriteString(<<>>)), FALSE)
    BY <2>1, <2>2, StringBack
  <2>. QED  BY <2>2, <2>3
<1>7. e = Error("END_TAG", p + 1, FALSE)
  <2>1. e = ReadValue(b, p, Reading(b))
    BY <1>5, DataRead
  <2>2. CanTake(b, p, 1) /\ b[p + 1] = EndType
    BY <1>4, <1>5 DEF Holds, CanTake
  <2>. HIDE DEF p, e
  <2>. QED  BY <2>1, <2>2 DEF ReadValue
<1>8. name.error = "OK" /\ name.value.text = <<>> /\ name.pos = p
  BY <1>6 DEF Got, Value
<1>9. e.error = "END_TAG" /\ e.pos = p + 1 /\ e.hitsEnd = FALSE
  BY <1>7 DEF Error
<1>. HIDE DEF name
<1>10. Reading(b)[Place(t, q, 0)] = PairsBehind(b, t, name, Reading(b))
  BY <1>8, PairsRead, ReadPairsIs DEF name
<1>11. PairsEnd(t, name.value.text, e)
  BY <1>9 DEF PairsEnd, ObjectEnds, AssocEnds, Ends
<1>12. PairsBehind(b, t, name, Reading(b)) = Got(v, p + 1, FALSE)
  BY <1>8, <1>9, <1>11 DEF PairsBehind
<1>13. p + 1 = q + Len(End)
  BY <1>2, <1>5
<1>. QED  BY <1>10, <1>12, <1>13

Begins(w, t, s) ==
  /\ t \in PlainTypes \union WithNames \union {"string", "array"}
  /\ w = <<TypeOf[t]>> \o s

EntersType(b, q, t, s, w) ==
  /\ Reading(b)[Place("data", q, 0)] = Typing(b, q + 1, t, Reading(b))
  /\ Holds(b, q + 1, s) /\ q + 1 \in 0 .. Len(b) /\ q + 1 \in Nat
  /\ q + Len(w) = (q + 1) + Len(s)

(* Behind the byte of its type a value is read.                            *)
LEMMA TypedBack ==
  ASSUME NEW b \in Seq(Byte), NEW q \in 0 .. Len(b),
         NEW t, NEW s \in Seq(Byte), NEW w, Begins(w, t, s), Holds(b, q, w)
  PROVE  EntersType(b, q, t, s, w)
<1>. DEFINE u == <<TypeOf[t]>>
<1>0. t \in PlainTypes \union WithNames \union {"string", "array"}
  BY DEF Begins
<1>1. u \in Seq(Byte) /\ Len(u) = 1 /\ u[1] = TypeOf[t]
  BY <1>0, BytesOfTypes
<1>2. Joins(w, u, s) /\ Holds(b, q, w) /\ q \in Nat
  BY DEF Begins, Joins
<1>. HIDE DEF u
<1>3. /\ Holds(b, q, u) /\ Holds(b, q + Len(u), s) /\ q + Len(u) \in 0 .. Len(b)
      /\ Len(w) = Len(u) + Len(s) /\ Len(s) \in Nat
  <2>1. u \in Seq(Byte)
    BY <1>1
  <2>. QED  BY <1>2, <2>1, HoldsBoth
<1>4. CanTake(b, q, 1) /\ b[q + 1] = TypeOf[t]
  BY <1>1, <1>3 DEF Holds, CanTake
<1>5. Reading(b)[Place("data", q, 0)] = Typing(b, q + 1, t, Reading(b))
  BY <1>0, <1>4, DataRead, ReadValueIs
<1>6. q + Len(w) = (q + 1) + Len(s) /\ Holds(b, q + 1, s) /\ q + 1 \in 0 .. Len(b) /\ q + 1 \in Nat
  BY <1>1, <1>2, <1>3
<1>. QED  BY <1>5, <1>6 DEF EntersType

(* A plain value is read back.                                             *)
LEMMA BackPlain ==
  ASSUME NEW t \in PlainTypes
  PROVE  Back("data", Plain(t))
<1>0. t \notin {"string", "object", "assoc", "array"}
  BY DEF PlainTypes
<1>. DEFINE v == Plain(t)
            s == [i \in 1 .. PlainBytes(t) |-> 0]
<1>1. v \in Values /\ v.type = t
  <2>1. \A w \in Values : w \in ValuesOver(Inside(MaxDepth))
    BY WidthsAssumption, InsideFact DEF Values
  <2>2. ValuesOver(Inside(MaxDepth)) = Values
    BY WidthsAssumption, InsideFact DEF Values
  <2>. QED  BY <2>2, ValueMade DEF Plain, Value
<1>2. PlainBytes(t) \in Nat /\ 0 \in Byte
  BY BytesOfTypes, WidthsAssumption DEF Byte
<1>3. s \in Seq(Byte) /\ Len(s) = PlainBytes(t)
  BY <1>2
<1>. HIDE DEF v
<1>4. Begins(Write[v], t, s)
  BY <1>1, WriteCases DEF Begins
<1>. SUFFICES ASSUME NEW b \in Seq(Byte), NEW q \in 0 .. Len(b), Holds(b, q, Write[v])
              PROVE  Reading(b)[Place("data", q, 0)] = Got(v, q + Len(Write[v]), FALSE)
  BY DEF Back, Bytes, v
<1>. HIDE DEF s
<1>5. /\ Reading(b)[Place("data", q, 0)] = Typing(b, q + 1, t, Reading(b))
      /\ Holds(b, q + 1, s) /\ q + 1 \in Nat
      /\ q + Len(Write[v]) = (q + 1) + Len(s)
  <2>1. s \in Seq(Byte)
    BY <1>3
  <2>2. EntersType(b, q, t, s, Write[v])
    BY <1>4, <2>1, TypedBack, Zenon
  <2>. QED  BY <2>2 DEF EntersType
<1>6. CanTake(b, q + 1, PlainBytes(t))
  BY <1>3, <1>5 DEF Holds, CanTake
<1>7. Typing(b, q + 1, t, Reading(b)) = Got(v, (q + 1) + PlainBytes(t), FALSE)
  BY <1>0, <1>6 DEF Typing, v
<1>. QED  BY <1>3, <1>5, <1>7

(* So is a string whose length fits.                                       *)
LEMMA BackString ==
  ASSUME NEW text \in Seq(Byte), Fits(Len(text), LengthBytes), Value("string", text, <<>>) \in Values
  PROVE  Back("data", Value("string", text, <<>>))
<1>. DEFINE v == Value("string", text, <<>>)
            s == WriteString(text)
<1>1. v \in Values /\ v.type = "string" /\ v.text = text
  BY DEF Value
<1>. HIDE DEF v
<1>2. Begins(Write[v], "string", s)
  BY <1>1, WriteCases DEF Begins
<1>3. s \in Seq(Byte)
  BY StringWritten
<1>. SUFFICES ASSUME NEW b \in Seq(Byte), NEW q \in 0 .. Len(b), Holds(b, q, Write[v])
              PROVE  Reading(b)[Place("data", q, 0)] = Got(v, q + Len(Write[v]), FALSE)
  BY DEF Back, Bytes, v
<1>5. /\ Reading(b)[Place("data", q, 0)] = Typing(b, q + 1, "string", Reading(b))
      /\ Holds(b, q + 1, s) /\ q + 1 \in Nat
      /\ q + Len(Write[v]) = (q + 1) + Len(s)
  <2>. HIDE DEF s
  <2>1. EntersType(b, q, "string", s, Write[v])
    BY <1>2, <1>3, TypedBack, Zenon
  <2>. QED  BY <2>1 DEF EntersType
<1>6. ReadString(b, q + 1) = Got(v, (q + 1) + Len(s), FALSE)
  BY <1>5, StringBack DEF v
<1>7. Typing(b, q + 1, "string", Reading(b)) = ReadString(b, q + 1)
  BY DEF Typing
<1>. QED  BY <1>2, <1>5, <1>6, <1>7

(* The bytes of pairs and of elements.                                     *)
LEMMA BytesIn ==
  ASSUME NEW v \in Values
  PROVE  /\ v.type \in WithNames => Bytes(v.type, v) \in Seq(Byte) /\ Bytes(v.type, v) = ItemsBytes(v.type, v.items) \o End
         /\ v.type = "array" => Bytes(v.type, v) \in Seq(Byte) /\ Bytes(v.type, v) = ItemsBytes(v.type, v.items)
<1>1. ItemsBytes(v.type, v.items) \in Seq(Byte)
  BY ItemsOf, ItemsBytesIs
<1>2. ItemsBytes(v.type, v.items) \o End \in Seq(Byte)
  BY <1>1, EndIn, ConcatProperties
<1>3. v.type \in WithNames => v.type # "array" /\ v.type # "data"
  BY DEF WithNames
<1>. QED  BY <1>1, <1>2, <1>3 DEF Bytes

(* An object is read back when its pairs are.                              *)
LEMMA BackObject ==
  ASSUME NEW v \in Values, v.type = "object", Back("object", v)
  PROVE  Back("data", v)
<1>. DEFINE s == Bytes("object", v)
<1>1. s \in Seq(Byte) /\ Begins(Write[v], "object", s)
  BY BytesIn, WriteCases DEF WithNames, Begins
<1>. SUFFICES ASSUME NEW b \in Seq(Byte), NEW q \in 0 .. Len(b), Holds(b, q, Write[v])
              PROVE  Reading(b)[Place("data", q, 0)] = Got(v, q + Len(Write[v]), FALSE)
  BY DEF Back, Bytes
<1>. HIDE DEF s
<1>3. /\ Reading(b)[Place("data", q, 0)] = Typing(b, q + 1, "object", Reading(b))
      /\ Holds(b, q + 1, s) /\ q + 1 \in 0 .. Len(b)
      /\ q + Len(Write[v]) = (q + 1) + Len(s)
  <2>1. EntersType(b, q, "object", s, Write[v])
    BY <1>1, TypedBack, Zenon
  <2>. QED  BY <2>1 DEF EntersType
<1>4. Reading(b)[Place("object", q + 1, 0)] = Got(v, (q + 1) + Len(s), FALSE)
  BY <1>3 DEF Back, s
<1>5. Typing(b, q + 1, "object", Reading(b)) = Reading(b)[Place("object", q + 1, 0)]
  BY DEF Typing
<1>. QED  BY <1>1, <1>3, <1>4, <1>5

(* A value with a count in front.                                          *)
Counts(w, t, c, s) ==
  t \in {"assoc", "array"} /\ Len(c) = CountBytes /\ w = <<TypeOf[t]>> \o (c \o s)

EntersCount(b, q, t, c, s, w) ==
  /\ Reading(b)[Place("data", q, 0)] =
       Reading(b)[Place(t, (q + 1) + CountBytes, IF t = "assoc" THEN 0 ELSE NumberOf(c))]
  /\ Holds(b, (q + 1) + CountBytes, s) /\ (q + 1) + CountBytes \in 0 .. Len(b)
  /\ q + Len(w) = ((q + 1) + CountBytes) + Len(s)

(* Behind a type and a count of so many bytes the items are read.          *)
LEMMA CountedBack ==
  ASSUME NEW b \in Seq(Byte), NEW q \in 0 .. Len(b), NEW t,
         NEW c \in Seq(Byte), NEW s \in Seq(Byte),
         NEW w, Counts(w, t, c, s), Holds(b, q, w)
  PROVE  EntersCount(b, q, t, c, s, w)
<1>. DEFINE u == c \o s
            p == q + 1
<1>0. u \in Seq(Byte) /\ t \in PlainTypes \union WithNames \union {"string", "array"} /\ CountBytes \in Nat
  BY ConcatProperties, BytesOfTypes DEF WithNames, Counts
<1>1. Begins(w, t, u)
  BY <1>0 DEF Counts, Begins
<1>u. Joins(u, c, s)
  BY DEF Joins
<1>. HIDE DEF u
<1>2. /\ Reading(b)[Place("data", q, 0)] = Typing(b, p, t, Reading(b))
      /\ Holds(b, p, u) /\ p \in Nat
      /\ q + Len(w) = p + Len(u)
  <2>1. EntersType(b, q, t, u, w)
    BY <1>0, <1>1, TypedBack, Zenon
  <2>. QED  BY <2>1 DEF EntersType
<1>. HIDE DEF p
<1>3. /\ Holds(b, p, c) /\ Holds(b, p + Len(c), s) /\ p + Len(c) \in 0 .. Len(b)
      /\ Len(u) = Len(c) + Len(s) /\ Len(s) \in Nat
  <2>1. p \in Nat /\ Holds(b, p, u)
    BY <1>2
  <2>. QED  BY <1>u, <2>1, HoldsBoth
<1>4. CanTake(b, p, CountBytes) /\ Taken(b, p, CountBytes) = c
  <2>1. CanTake(b, p, Len(c)) /\ Taken(b, p, Len(c)) = c
    BY <1>2, <1>3, HoldsTaken
  <2>. QED  BY <2>1 DEF Counts
<1>5. Typing(b, p, t, Reading(b)) =
        Reading(b)[Place(t, p + CountBytes, IF t = "assoc" THEN 0 ELSE NumberOf(c))]
  BY <1>4 DEF Typing, ReadCounted, Counts
<1>6. Holds(b, p + CountBytes, s) /\ p + CountBytes \in 0 .. Len(b)
  BY <1>3 DEF Counts
<1>7. q + Len(w) = (p + CountBytes) + Len(s)
  BY <1>0, <1>2, <1>3 DEF Counts
<1>. QED  BY <1>2, <1>5, <1>6, <1>7 DEF p, EntersCount

(* So is an associative array: what it counts is of no matter.             *)
LEMMA BackAssoc ==
  ASSUME NEW v \in Values, v.type = "assoc", Back("assoc", v)
  PROVE  Back("data", v)
<1>. DEFINE s == Bytes("assoc", v)
            c == WritePairCount(v.items)
<1>0. c \in Seq(Byte) /\ Len(c) = CountBytes
  BY ItemsOf, CountWritten
<1>1. s \in Seq(Byte) /\ Counts(Write[v], "assoc", c, s)
  BY <1>0, BytesIn, WriteCases DEF WithNames, Counts
<1>2. c \in Seq(Byte)
  BY <1>0
<1>. SUFFICES ASSUME NEW b \in Seq(Byte), NEW q \in 0 .. Len(b), Holds(b, q, Write[v])
              PROVE  Reading(b)[Place("data", q, 0)] = Got(v, q + Len(Write[v]), FALSE)
  BY DEF Back, Bytes
<1>. HIDE DEF s, c
<1>. DEFINE p == (q + 1) + CountBytes
<1>4. /\ Reading(b)[Place("data", q, 0)] = Reading(b)[Place("assoc", p, 0)]
      /\ Holds(b, p, s) /\ p \in 0 .. Len(b)
      /\ q + Len(Write[v]) = p + Len(s)
  <2>1. EntersCount(b, q, "assoc", c, s, Write[v])
    BY <1>1, <1>2, CountedBack, Zenon
  <2>. QED  BY <2>1 DEF EntersCount
<1>. HIDE DEF p
<1>5. Reading(b)[Place("assoc", p, 0)] = Got(v, p + Len(s), FALSE)
  BY <1>4 DEF Back, s
<1>. QED  BY <1>1, <1>4, <1>5

(* So is an array, whose count must fit.                                   *)
LEMMA BackArray ==
  ASSUME NEW v \in Values, v.type = "array", Back("array", v), Fits(Len(v.items), CountBytes)
  PROVE  Back("data", v)
<1>. DEFINE s == Bytes("array", v)
            c == WriteCount(v.items)
<1>0. c \in Seq(Byte) /\ Len(c) = CountBytes /\ NumberOf(c) = Len(v.items)
  BY ItemsOf, CountWritten DEF Fits, WriteCount
<1>1. s \in Seq(Byte) /\ Counts(Write[v], "array", c, s)
  BY <1>0, BytesIn, WriteCases DEF Counts
<1>2. c \in Seq(Byte) /\ NumberOf(c) = Len(v.items)
  BY <1>0
<1>. SUFFICES ASSUME NEW b \in Seq(Byte), NEW q \in 0 .. Len(b), Holds(b, q, Write[v])
              PROVE  Reading(b)[Place("data", q, 0)] = Got(v, q + Len(Write[v]), FALSE)
  BY DEF Back, Bytes
<1>. HIDE DEF s, c
<1>. DEFINE p == (q + 1) + CountBytes
<1>4. /\ Reading(b)[Place("data", q, 0)] = Reading(b)[Place("array", p, Len(v.items))]
      /\ Holds(b, p, s) /\ p \in 0 .. Len(b)
      /\ q + Len(Write[v]) = p + Len(s)
  <2>1. /\ Reading(b)[Place("data", q, 0)] = Reading(b)[Place("array", p, NumberOf(c))]
        /\ Holds(b, p, s) /\ p \in 0 .. Len(b)
        /\ q + Len(Write[v]) = p + Len(s)
    <3>1. c \in Seq(Byte)
      BY <1>2
    <3>2. EntersCount(b, q, "array", c, s, Write[v])
      BY <1>1, <3>1, CountedBack, Zenon
    <3>. QED  BY <3>2 DEF EntersCount
  <2>. QED  BY <1>2, <2>1
<1>. HIDE DEF p
<1>5. Reading(b)[Place("array", p, Len(v.items))] = Got(v, p + Len(s), FALSE)
  BY <1>4 DEF Back, s
<1>. QED  BY <1>1, <1>4, <1>5

(* What was read of a type.                                                *)
LEMMA BackTyped ==
  ASSUME NEW b, Ready(b), NEW pos \in 0 .. Len(b), CanTake(b, pos, 1), BackBehind(b, pos),
         NEW t \in PlainTypes \union WithNames \union {"string", "array"},
         NEW r, r = Typing(b, pos + 1, t, Reading(b)), r.error = "OK", NamesKept[r.value],
         r.value \in Values
  PROVE  Back("data", r.value)
<1>0. /\ b \in Seq(Byte) /\ Len(b) \in Nat /\ pos \in Nat /\ pos + 1 \in 0 .. Len(b) /\ pos + 1 > pos
      /\ LengthBytes \in Nat
  BY BytesOfTypes DEF Ready, CanTake
<1>1. r # Eof(b)
  BY DEF Eof, Error
<1>. DEFINE v == r.value
<1>2. CASE t \in PlainTypes
  <2>1. t \notin {"string", "object", "assoc", "array"}
    BY <1>2 DEF PlainTypes
  <2>2. v = Plain(t)
    BY <1>1, <2>1 DEF Typing, Got
  <2>. QED  BY <1>2, <2>2, BackPlain
<1>3. CASE t = "string"
  <2>1. r = ReadString(b, pos + 1)
    BY <1>3 DEF Typing
  <2>2. PICK s, text \in Seq(Byte) :
          /\ Len(s) = LengthBytes /\ Len(text) = NumberOf(s) /\ Len(text) \in Nat
          /\ r = Got(Value("string", text, <<>>), pos + 1 + LengthBytes + Len(text), FALSE)
    BY <1>0, <1>1, <2>1, ReadStringIs
  <2>3. Fits(Len(text), LengthBytes)
    <3>. DEFINE n == Len(text)
    <3>1. n \in Nat /\ n <= NumberOf(s) /\ Len(s) = LengthBytes
      BY <2>2
    <3>. HIDE DEF n
    <3>2. Fits(n, Len(s))
      BY <3>1, TakenFits
    <3>. QED  BY <3>1, <3>2 DEF n
  <2>4. v = Value("string", text, <<>>)
    BY <2>2 DEF Got
  <2>. QED  BY <2>3, <2>4, BackString
<1>4. CASE t \in WithNames \union {"array"}
  <2>1. PICK n \in Nat, c \in Nat :
          /\ (pos + 1) + n \in 0 .. Len(b) /\ r = Reading(b)[Place(t, (pos + 1) + n, c)]
          /\ t = "array" => \E s \in Seq(Byte) : Len(s) = CountBytes /\ c = NumberOf(s)
    <3>1. CASE t = "object"
      <4>1. (pos + 1) + 0 = pos + 1
        BY <1>0
      <4>2. r = Reading(b)[Place(t, (pos + 1) + 0, 0)]
        BY <3>1, <4>1 DEF Typing
      <4>. QED  BY <1>0, <3>1, <4>1, <4>2
    <3>2. CASE t \in {"assoc", "array"}
      <4>. DEFINE s == Taken(b, pos + 1, CountBytes)
                  c == IF t = "assoc" THEN 0 ELSE NumberOf(s)
      <4>1. CanTake(b, pos + 1, CountBytes)
        BY <1>1, <3>2 DEF Typing, ReadCounted
      <4>2. /\ (pos + 1) + CountBytes \in 0 .. Len(b)
            /\ s \in Seq(Byte) /\ Len(s) = CountBytes /\ NumberOf(s) \in Nat
        BY <1>0, <4>1, CountTaken
      <4>3. r = Reading(b)[Place(t, (pos + 1) + CountBytes, c)]
        BY <3>2, <4>1 DEF Typing, ReadCounted
      <4>. HIDE DEF s
      <4>4. c \in Nat /\ CountBytes \in Nat /\ (t = "array" => c = NumberOf(s))
        BY <4>2, BytesOfTypes
      <4>. HIDE DEF c
      <4>. QED  BY <4>2, <4>3, <4>4
    <3>. QED  BY <1>4, <3>1, <3>2 DEF WithNames
  <2>. DEFINE p == Place(t, (pos + 1) + n, c)
  <2>2. /\ p \in Places(b) /\ p.what = t /\ p.pos = (pos + 1) + n /\ p.count = c /\ t # "data"
        /\ (pos + 1) + n > pos
    BY <1>0, <1>4, <2>1, PlaceIn DEF WithNames
  <2>3. r = Reading(b)[p]
    BY <2>1
  <2>. HIDE DEF p
  <2>4. SoundAt(b, t, (pos + 1) + n, c, r)
    BY <2>2, <2>3, Sound
  <2>5. v.type = t /\ (t = "array" => Len(v.items) = c)
    BY <2>2, <2>4 DEF SoundAt
  <2>6. KeptItems(t, v.items)
    BY <2>5, NamesKeptIs
  <2>7. Back(t, v)
    <3>1. BackAt(p.what, Reading(b)[p])
      BY <2>2 DEF BackBehind
    <3>. QED  BY <2>2, <2>3, <2>6, <3>1 DEF BackAt, Kept
  <2>8. CASE t = "object"
    BY <2>5, <2>7, <2>8, BackObject
  <2>9. CASE t = "assoc"
    BY <2>5, <2>7, <2>9, BackAssoc
  <2>10. CASE t = "array"
    <3>1. PICK s \in Seq(Byte) : Len(s) = CountBytes /\ c = NumberOf(s)
      BY <2>1, <2>10
    <3>2. Fits(c, Len(s))
      BY <3>1, TakenFits
    <3>3. Fits(Len(v.items), CountBytes)
      BY <2>5, <2>10, <3>1, <3>2
    <3>. QED  BY <2>5, <2>7, <2>10, <3>3, BackArray
  <2>. QED  BY <1>4, <2>8, <2>9, <2>10 DEF WithNames
<1>. QED  BY <1>2, <1>3, <1>4

(* A value that has been read is read back when what is behind it is.      *)
LEMMA BackValue ==
  ASSUME NEW b, Ready(b), NEW pos \in 0 .. Len(b), BackBehind(b, pos)
  PROVE  BackAt("data", ReadValue(b, pos, Reading(b)))
<1>. DEFINE r == ReadValue(b, pos, Reading(b))
<1>0. b \in Seq(Byte)
  BY DEF Ready
<1>. SUFFICES ASSUME r.error = "OK", NamesKept[r.value] PROVE Back("data", r.value)
  BY DEF BackAt, Kept
<1>1. r.value \in Values
  <2>1. Place("data", pos, 0) \in Places(b) /\ Place("data", pos, 0).what = "data" /\ Place("data", pos, 0).pos = pos
    BY PlaceIn
  <2>2. SoundAt(b, "data", pos, Place("data", pos, 0).count, Reading(b)[Place("data", pos, 0)])
    BY <2>1, Sound
  <2>3. Reading(b)[Place("data", pos, 0)] = r
    BY <1>0, DataRead
  <2>. HIDE DEF r
  <2>4. r.value \in Up(b, pos)
    BY <2>2, <2>3 DEF SoundAt
  <2>. QED  BY <2>4, UpIs
<1>2. r # Eof(b) /\ \A e \in {"END_TAG", "UNSUPPORTED_TYPE", "UNKNOWN_TYPE"} : r # Error(e, pos + 1, FALSE)
  BY DEF Eof, Error
<1>3. PICK t \in PlainTypes \union WithNames \union {"string", "array"} :
        CanTake(b, pos, 1) /\ r = Typing(b, pos + 1, t, Reading(b))
  BY <1>2, ReadValueCases
<1>. HIDE DEF r
<1>. QED  BY <1>1, <1>3, BackTyped

Joined(w, m, d, s) == w = m \o (d \o s)

SplitBy(b, q, w, m, d, s) ==
  /\ Holds(b, q, m) /\ q + Len(m) \in 0 .. Len(b)
  /\ Holds(b, q + Len(m), d) /\ (q + Len(m)) + Len(d) \in 0 .. Len(b)
  /\ Holds(b, (q + Len(m)) + Len(d), s)
  /\ q + Len(w) = ((q + Len(m)) + Len(d)) + Len(s)

(* Where three are joined, there is each behind the other.                 *)
LEMMA JoinedTwice ==
  ASSUME NEW b \in Seq(Byte), NEW q \in Nat, NEW m \in Seq(Byte), NEW d \in Seq(Byte),
         NEW s \in Seq(Byte), NEW w, Joined(w, m, d, s), Holds(b, q, w)
  PROVE  SplitBy(b, q, w, m, d, s)
<1>. DEFINE u == d \o s
            p == q + Len(m)
<1>1. u \in Seq(Byte) /\ Joins(w, m, u) /\ Joins(u, d, s)
  BY ConcatProperties DEF Joins, Joined
<1>. HIDE DEF u
<1>2. /\ Holds(b, q, m) /\ Holds(b, q + Len(m), u) /\ q + Len(m) \in 0 .. Len(b) /\ Len(m) \in Nat
      /\ Len(w) = Len(m) + Len(u)
  BY <1>1, HoldsBoth
<1>3. Holds(b, q, m) /\ Holds(b, p, u) /\ p \in 0 .. Len(b) /\ p \in Nat
  BY <1>2
<1>. HIDE DEF p
<1>4. /\ Holds(b, p, d) /\ Holds(b, p + Len(d), s) /\ p + Len(d) \in 0 .. Len(b)
      /\ Len(d) \in Nat /\ Len(s) \in Nat /\ Len(u) = Len(d) + Len(s)
  BY <1>1, <1>3, HoldsBoth
<1>5. q + Len(w) = (p + Len(d)) + Len(s)
  BY <1>2, <1>4 DEF p
<1>. QED  BY <1>2, <1>3, <1>4, <1>5 DEF p, SplitBy

Regrouped(m, d, i, z) ==
  ((m \o d) \o i) \o z = m \o (d \o (i \o z)) /\ i \o z \in Seq(Byte)

(* Four joined, grouped by their ends or their beginnings.                 *)
LEMMA FourJoined ==
  ASSUME NEW m \in Seq(Byte), NEW d \in Seq(Byte), NEW i \in Seq(Byte), NEW z \in Seq(Byte)
  PROVE  Regrouped(m, d, i, z)
<1>. DEFINE md == m \o d
            iz == i \o z
<1>1. md \in Seq(Byte) /\ iz \in Seq(Byte)
  BY ConcatProperties
<1>. HIDE DEF md, iz
<1>2. Grouped(Byte, md, i, z) /\ Grouped(Byte, m, d, iz)
  BY <1>1, GroupedFact, Zenon
<1>. QED  BY <1>1, <1>2 DEF md, iz, Regrouped, Grouped

(* A value that is read back, wherever its bytes are.                      *)
LEMMA DataBack ==
  ASSUME NEW u \in Values, Back("data", u), NEW b \in Seq(Byte), NEW q \in 0 .. Len(b),
         Holds(b, q, Write[u])
  PROVE  Reading(b)[Place("data", q, 0)] = Got(u, q + Len(Write[u]), FALSE)
  BY DEF Back, Bytes

(* One more pair in front is read back.                                    *)
LEMMA BackMorePairs ==
  ASSUME NEW t \in WithNames, NEW name \in Seq(Byte), CString(name) = name,
         Fits(Len(name), LengthBytes), t = "assoc" => name # <<>>,
         NEW u \in Values, Back("data", u),
         NEW w, w.type = t, w.items \in Seq(Item), Back(t, w)
  PROVE  Back(t, Value(t, <<>>, <<Named(name, u)>> \o w.items))
<1>0. t # "array" /\ t # "data" /\ t \in {"object", "assoc"}
  BY DEF WithNames
<1>. DEFINE x == Named(name, u)
            items == <<x>> \o w.items
            v == Value(t, <<>>, items)
            m == WriteString(name)
            d == Write[u]
            i == ItemsBytes(t, w.items)
            s == Bytes(t, w)
<1>1. x \in Item /\ x.name = name /\ x.data = u
  BY ItemIs DEF Named
<1>2. v.type = t /\ v.items = items
  BY DEF Value
<1>3. m \in Seq(Byte) /\ d \in Seq(Byte) /\ i \in Seq(Byte) /\ End \in Seq(Byte)
  BY StringWritten, WriteFact, ItemsBytesIs, EndIn
<1>4. Bytes(t, v) = ((m \o d) \o i) \o End
  <2>1. ItemsBytes(t, items) = ItemBytes(t)[x] \o i
    <3>. HIDE DEF x
    <3>. QED  BY <1>1, ItemsBytesIs
  <2>2. ItemBytes(t)[x] = m \o d
    <3>. HIDE DEF x
    <3>. QED  BY <1>1, ItemBytesIn
  <2>. HIDE DEF v, items, x, m, d, i
  <2>. QED  BY <1>0, <1>2, <2>1, <2>2 DEF Bytes
<1>5. s = i \o End
  BY <1>0 DEF Bytes
<1>. HIDE DEF v, m, d, i, x, items
<1>6. Joined(Bytes(t, v), m, d, s) /\ s \in Seq(Byte)
  <2>1. Regrouped(m, d, i, End)
    BY <1>3, FourJoined, Zenon
  <2>. QED  BY <1>4, <1>5, <2>1 DEF Joined, Regrouped
<1>. SUFFICES ASSUME NEW b \in Seq(Byte), NEW q \in 0 .. Len(b), Holds(b, q, Bytes(t, v))
              PROVE  Reading(b)[Place(t, q, 0)] = Got(v, q + Len(Bytes(t, v)), FALSE)
  BY <1>0 DEF Back, v, items, x
<1>. HIDE DEF s
<1>7. /\ Holds(b, q, m) /\ q + Len(m) \in 0 .. Len(b)
      /\ Holds(b, q + Len(m), d) /\ (q + Len(m)) + Len(d) \in 0 .. Len(b)
      /\ Holds(b, (q + Len(m)) + Len(d), s)
      /\ q + Len(Bytes(t, v)) = ((q + Len(m)) + Len(d)) + Len(s)
  <2>1. q \in Nat
    OBVIOUS
  <2>2. SplitBy(b, q, Bytes(t, v), m, d, s)
    BY <1>3, <1>6, <2>1, JoinedTwice, Zenon
  <2>. QED  BY <2>2 DEF SplitBy
<1>. DEFINE q1 == q + Len(m)
            q2 == q1 + Len(d)
            text == ReadString(b, q)
            e == Reading(b)[Place("data", q1, 0)]
            rest == Reading(b)[Place(t, q2, 0)]
<1>8. text = Got(Value("string", name, <<>>), q1, FALSE)
  <2>1. Holds(b, q, WriteString(name)) /\ q \in Nat
    BY <1>7 DEF m
  <2>2. text = Got(Value("string", name, <<>>), q + Len(WriteString(name)), FALSE)
    BY <2>1, StringBack, Zenon
  <2>. QED  BY <2>2 DEF m
<1>9. e = Got(u, q2, FALSE)
  <2>. HIDE DEF q1
  <2>1. q1 \in 0 .. Len(b) /\ Holds(b, q1, Write[u])
    BY <1>7 DEF q1, d
  <2>. QED  BY <2>1, DataBack DEF d
<1>10. rest = Got(w, q2 + Len(s), FALSE)
  <2>1. q2 \in 0 .. Len(b) /\ Holds(b, q2, s)
    BY <1>7
  <2>. HIDE DEF q2
  <2>. QED  BY <1>0, <2>1 DEF Back, s
<1>11. text.error = "OK" /\ text.value.text = name /\ text.pos = q1
  BY <1>8 DEF Got, Value
<1>12. e.error = "OK" /\ e.value = u /\ e.pos = q2 /\ e.hitsEnd = FALSE
  BY <1>9 DEF Got
<1>13. rest.error = "OK" /\ rest.value = w /\ rest.pos = q2 + Len(s) /\ rest.hitsEnd = FALSE
  BY <1>10 DEF Got
<1>. HIDE DEF text
<1>14. Reading(b)[Place(t, q, 0)] = PairsBehind(b, t, text, Reading(b))
  BY <1>11, PairsRead, ReadPairsIs DEF text
<1>. HIDE DEF q1
<1>15. ~PairsEnd(t, name, e)
  <2>. HIDE DEF e
  <2>. QED  BY <1>0, <1>12 DEF PairsEnd, ObjectEnds, AssocEnds, Ends
<1>16. PairsBehind(b, t, text, Reading(b)) = Behind(name, e, rest)
  BY <1>11, <1>12, <1>15 DEF PairsBehind
<1>. HIDE DEF e, rest
<1>17. Behind(name, e, rest) = Got(v, q2 + Len(s), FALSE)
  BY <1>12, <1>13 DEF Behind, Got, v, items, x
<1>18. q + Len(Bytes(t, v)) = q2 + Len(s)
  BY <1>7 DEF q1
<1>. QED  BY <1>14, <1>16, <1>17, <1>18

(* No elements are read back.                                              *)
LEMMA BackNoItems == Back("array", Value("array", <<>>, <<>>))
<1>. DEFINE v == Value("array", <<>>, <<>>)
<1>1. v.items = <<>> /\ Len(v.items) = 0
  BY DEF Value
<1>2. Bytes("array", v) = <<>>
  BY <1>1, ItemsBytesIs DEF Bytes
<1>. HIDE DEF v
<1>. SUFFICES ASSUME NEW b \in Seq(Byte), NEW q \in 0 .. Len(b)
              PROVE  Reading(b)[Place("array", q, 0)] = Got(v, q + 0, FALSE)
  BY <1>1, <1>2 DEF Back, v
<1>3. Reading(b)[Place("array", q, 0)] = Got(v, q, FALSE)
  BY ItemsRead, ReadItemsIs DEF ItemsBehind, v
<1>. QED  BY <1>3

(* One more element in front is read back.                                 *)
LEMMA BackMoreItems ==
  ASSUME NEW u \in Values, Back("data", u),
         NEW w, w.type = "array", w.items \in Seq(Item), Back("array", w)
  PROVE  Back("array", Value("array", <<>>, <<Named(<<>>, u)>> \o w.items))
<1>. DEFINE x == Named(<<>>, u)
            items == <<x>> \o w.items
            v == Value("array", <<>>, items)
            d == Write[u]
            s == Bytes("array", w)
            n == Len(w.items)
<1>0. "array" \notin WithNames
  BY DEF WithNames
<1>1. x \in Item /\ x.name = <<>> /\ x.data = u
  <2>1. <<>> \in Seq(Byte)
    OBVIOUS
  <2>. QED  BY <2>1, ItemIs DEF Named
<1>2. v.type = "array" /\ v.items = items
  BY DEF Value
<1>a. Len(items) = n + 1 /\ n \in Nat
  <2>. HIDE DEF x
  <2>. QED  BY <1>1, Prepended
<1>3. d \in Seq(Byte) /\ s \in Seq(Byte) /\ s = ItemsBytes("array", w.items)
  BY WriteFact, ItemsBytesIs DEF Bytes
<1>4. Bytes("array", v) = d \o s
  <2>1. ItemsBytes("array", items) = ItemBytes("array")[x] \o s
    <3>. HIDE DEF x
    <3>. QED  BY <1>1, <1>3, ItemsBytesIs
  <2>2. ItemBytes("array")[x] = <<>> \o d
    <3>. HIDE DEF x, d
    <3>. QED  BY <1>0, <1>1, ItemBytesIn DEF d
  <2>3. <<>> \o d = d
    BY <1>3, ConcatEmptySeq
  <2>. HIDE DEF v, items, x, d, s
  <2>. QED  BY <1>2, <2>1, <2>2, <2>3 DEF Bytes
<1>. HIDE DEF v, d, x, items, s, n
<1>. SUFFICES ASSUME NEW b \in Seq(Byte), NEW q \in 0 .. Len(b), Holds(b, q, Bytes("array", v))
              PROVE  Reading(b)[Place("array", q, n + 1)] = Got(v, q + Len(Bytes("array", v)), FALSE)
  BY <1>2, <1>a DEF Back, v, items, x
<1>. DEFINE q2 == q + Len(d)
<1>7. /\ Holds(b, q, d) /\ q2 \in 0 .. Len(b) /\ Holds(b, q2, s)
      /\ q + Len(Bytes("array", v)) = q2 + Len(s)
  <2>1. Joins(Bytes("array", v), d, s) /\ q \in Nat
    BY <1>4 DEF Joins
  <2>2. /\ Holds(b, q, d) /\ Holds(b, q + Len(d), s) /\ q + Len(d) \in 0 .. Len(b)
        /\ Len(Bytes("array", v)) = Len(d) + Len(s) /\ Len(d) \in Nat /\ Len(s) \in Nat
    BY <1>3, <2>1, HoldsBoth
  <2>. QED  BY <2>1, <2>2
<1>. HIDE DEF q2
<1>. DEFINE e == ReadValue(b, q, Reading(b))
            rest == Reading(b)[Place("array", q2, n)]
<1>8. e = Got(u, q2, FALSE)
  <2>1. Reading(b)[Place("data", q, 0)] = Got(u, q + Len(d), FALSE)
    BY <1>7, DataBack DEF d
  <2>. QED  BY <2>1, DataRead DEF q2
<1>9. rest = Got(w, q2 + Len(s), FALSE)
  BY <1>7 DEF Back, s, n
<1>10. e.error = "OK" /\ e.value = u /\ e.pos = q2 /\ e.hitsEnd = FALSE
  BY <1>8 DEF Got
<1>11. rest.error = "OK" /\ rest.value = w /\ rest.pos = q2 + Len(s) /\ rest.hitsEnd = FALSE
  BY <1>9 DEF Got
<1>12. Reading(b)[Place("array", q, n + 1)] = ItemsBehind(n + 1, e, q, Reading(b))
  <2>1. n + 1 \in Nat
    BY <1>a
  <2>. QED  BY <2>1, ItemsRead, ReadItemsIs
<1>. HIDE DEF e
<1>13. ItemsBehind(n + 1, e, q, Reading(b)) = Behind(<<>>, e, rest)
  <2>1. n + 1 # 0 /\ (n + 1) - 1 = n
    BY <1>a
  <2>. QED  BY <1>10, <2>1 DEF ItemsBehind
<1>. HIDE DEF rest
<1>14. Behind(<<>>, e, rest) = Got(v, q2 + Len(s), FALSE)
  BY <1>10, <1>11 DEF Behind, Got, v, items, x
<1>. QED  BY <1>7, <1>12, <1>13, <1>14

(* A name that has been read, as far as strlen goes, fits and stays as it  *)
(* is.                                                                     *)
LEMMA NameFits ==
  ASSUME NEW b \in Seq(Byte), NEW pos \in 0 .. Len(b), ReadString(b, pos).error = "OK"
  PROVE  LET name == CString(ReadString(b, pos).value.text)
         IN name \in Seq(Byte) /\ CString(name) = name /\ Fits(Len(name), LengthBytes)
<1>. DEFINE r == ReadString(b, pos)
<1>1. r # Eof(b)
  BY DEF Eof, Error
<1>2. PICK s, text \in Seq(Byte) :
        /\ Len(s) = LengthBytes /\ Len(text) = NumberOf(s) /\ Len(text) \in Nat
        /\ r = Got(Value("string", text, <<>>), pos + LengthBytes + Len(text), FALSE)
  BY <1>1, ReadStringIs
<1>3. r.value.text = text
  <2>. HIDE DEF r
  <2>. QED  BY <1>2 DEF Got, Value
<1>. DEFINE name == CString(text)
            n == Len(name)
<1>4. name \in Seq(Byte) /\ n \in Nat /\ n <= Len(text) /\ CString(name) = name
  BY CStringFact
<1>5. Fits(n, LengthBytes)
  <2>. HIDE DEF n
  <2>1. n \in Nat /\ n <= NumberOf(s)
    BY <1>2, <1>4
  <2>2. Fits(n, Len(s))
    BY <2>1, TakenFits
  <2>. QED  BY <1>2, <2>2
<1>. QED  BY <1>3, <1>4, <1>5

(* Pairs that have been read are read back when what is behind them is.    *)
LEMMA BackPairs ==
  ASSUME NEW b, Ready(b), NEW pos \in 0 .. Len(b), BackBehind(b, pos), NEW t \in WithNames
  PROVE  BackAt(t, ReadPairs(b, pos, t, Reading(b)))
<1>0. /\ b \in Seq(Byte) /\ Len(b) \in Nat /\ pos \in Nat /\ t \in {"object", "assoc"}
      /\ t \in {"data", "object", "assoc", "array"} /\ t # "array" /\ t # "data"
  BY DEF Ready, WithNames
<1>. DEFINE r == ReadPairs(b, pos, t, Reading(b))
            text == ReadString(b, pos)
            p == Place("data", text.pos, 0)
            e == Reading(b)[p]
            q == Place(t, e.pos, 0)
            rest == Reading(b)[q]
            c == CString(text.value.text)
<1>. SUFFICES ASSUME r.error = "OK", KeptItems(t, r.value.items) PROVE Back(t, r.value)
  BY <1>0 DEF BackAt, Kept
<1>1. r = IF text.error # "OK" THEN text ELSE PairsBehind(b, t, text, Reading(b))
  BY ReadPairsIs
<1>. HIDE DEF r
<1>2. text.error = "OK" /\ r = PairsBehind(b, t, text, Reading(b))
  BY <1>1
<1>3. text.pos \in pos + 1 .. Len(b)
  BY <1>0, <1>2, NameIs
<1>4. c \in Seq(Byte) /\ CString(c) = c /\ Fits(Len(c), LengthBytes)
  BY <1>0, <1>2, NameFits
<1>. HIDE DEF text
<1>5. p \in Places(b) /\ p.pos = text.pos /\ p.what = "data" /\ p.pos > pos
  <2>1. text.pos \in 0 .. Len(b) /\ text.pos > pos
    BY <1>0, <1>3
  <2>. QED  BY <2>1, PlaceIn
<1>. HIDE DEF p
<1>6. BackAt("data", e) /\ SoundAt(b, "data", text.pos, p.count, e)
  <2>1. BackAt(p.what, e)
    BY <1>5 DEF BackBehind
  <2>2. SoundAt(b, p.what, p.pos, p.count, e)
    BY <1>5, Sound
  <2>. QED  BY <1>5, <2>1, <2>2
<1>. HIDE DEF e
<1>7. e.pos \in 0 .. Len(b) /\ e.pos > pos
  <2>1. e.pos \in text.pos .. Len(b)
    BY <1>6 DEF SoundAt
  <2>. QED  BY <1>0, <1>3, <2>1
<1>8. q \in Places(b) /\ q.pos = e.pos /\ q.what = t /\ q.pos > pos
  BY <1>0, <1>7, PlaceIn
<1>. HIDE DEF q
<1>9. BackAt(t, rest) /\ SoundAt(b, t, e.pos, q.count, rest)
  <2>1. BackAt(q.what, rest)
    BY <1>8 DEF BackBehind
  <2>2. SoundAt(b, q.what, q.pos, q.count, rest)
    BY <1>8, Sound
  <2>. QED  BY <1>8, <2>1, <2>2
<1>. HIDE DEF rest
<1>10. r = IF PairsEnd(t, text.value.text, e) THEN Got(Value(t, <<>>, <<>>), e.pos, e.hitsEnd)
           ELSE IF e.error # "OK" THEN e ELSE Behind(c, e, rest)
  BY <1>2 DEF PairsBehind, e, p, q, rest
<1>11. CASE PairsEnd(t, text.value.text, e)
  <2>1. r.value = Value(t, <<>>, <<>>)
    BY <1>10, <1>11 DEF Got
  <2>. QED  BY <2>1, EndBack
<1>12. CASE ~PairsEnd(t, text.value.text, e)
  <2>. HIDE DEF c
  <2>1. e.error = "OK" /\ r = Behind(c, e, rest)
    BY <1>10, <1>12
  <2>. DEFINE w == rest.value
              u == e.value
              x == Named(c, u)
  <2>2. rest.error = "OK" /\ r.value = Value(w.type, <<>>, <<x>> \o w.items)
    BY <2>1 DEF Behind
  <2>3. u \in Values
    <3>1. u \in Up(b, text.pos) /\ text.pos \in 0 .. Len(b)
      BY <1>0, <1>3, <1>6, <2>1 DEF SoundAt
    <3>. QED  BY <3>1, UpIs
  <2>4. w.type = t /\ w.items \in Seq(Item)
    <3>1. w \in ValuesOver(Up(b, e.pos)) /\ w.type = t
      BY <1>0, <1>9, <2>2 DEF SoundAt
    <3>2. Up(b, e.pos) \subseteq Values
      BY <1>7, UpIs
    <3>3. w \in ValuesOver(Values)
      BY <3>1, <3>2, ValuesOverGrow
    <3>. HIDE DEF w
    <3>. QED  BY <3>1, <3>3, ValueParts DEF Item
  <2>5. x \in Item /\ x.name = c /\ x.data = u
    BY <1>4, <2>3, ItemIs DEF Named
  <2>. HIDE DEF x, w, u
  <2>6. r.value = Value(t, <<>>, <<x>> \o w.items) /\ r.value.items = <<x>> \o w.items
    BY <2>2, <2>4 DEF Value
  <2>7. KeptItems(t, w.items) /\ (t = "assoc" => c # <<>>) /\ NamesKept[u]
    <3>. DEFINE s == w.items
    <3>1. s \in Seq(Item) /\ x \in Item /\ KeptItems(t, <<x>> \o s)
      BY <2>4, <2>5, <2>6
    <3>. HIDE DEF s
    <3>2. KeptItems(t, s) /\ (t = "assoc" => x.name # <<>>) /\ NamesKept[x.data]
      BY <3>1, KeptPrepended, Zenon
    <3>. QED  BY <2>5, <3>2 DEF s
  <2>8. Back("data", u)
    BY <1>6, <2>1, <2>7 DEF BackAt, Kept, u
  <2>9. Back(t, w)
    BY <1>0, <1>9, <2>2, <2>7 DEF BackAt, Kept, w
  <2>10. Back(t, Value(t, <<>>, <<Named(c, u)>> \o w.items))
    BY <1>4, <2>3, <2>4, <2>7, <2>8, <2>9, BackMorePairs
  <2>. QED  BY <2>6, <2>10 DEF x
<1>. QED  BY <1>11, <1>12

(* So are elements of an array.                                            *)
LEMMA BackItems ==
  ASSUME NEW b, Ready(b), NEW pos \in 0 .. Len(b), BackBehind(b, pos), NEW count \in Nat
  PROVE  BackAt("array", ReadItems(b, pos, count, Reading(b)))
<1>0. b \in Seq(Byte) /\ Len(b) \in Nat /\ pos \in Nat
  BY DEF Ready
<1>. DEFINE r == ReadItems(b, pos, count, Reading(b))
            e == ReadValue(b, pos, Reading(b))
            q == Place("array", e.pos, count - 1)
            rest == Reading(b)[q]
<1>. SUFFICES ASSUME r.error = "OK", KeptItems("array", r.value.items) PROVE Back("array", r.value)
  BY DEF BackAt, Kept
<1>1. r = ItemsBehind(count, e, pos, Reading(b))
  BY ReadItemsIs
<1>2. BackAt("data", e)
  BY BackValue
<1>3. SoundAt(b, "data", pos, 0, e)
  <2>1. Place("data", pos, 0) \in Places(b) /\ Place("data", pos, 0).what = "data"
        /\ Place("data", pos, 0).pos = pos /\ Place("data", pos, 0).count = 0
    BY PlaceIn
  <2>2. SoundAt(b, "data", pos, 0, Reading(b)[Place("data", pos, 0)])
    BY <2>1, Sound
  <2>. QED  BY <1>0, <2>2, DataRead
<1>. HIDE DEF r, e
<1>4. CASE count = 0
  <2>1. r.value = Value("array", <<>>, <<>>)
    BY <1>1, <1>4 DEF ItemsBehind, Got
  <2>. QED  BY <2>1, BackNoItems
<1>5. CASE count # 0
  <2>1. e.error = "OK" /\ r = Behind(<<>>, e, rest)
    BY <1>1, <1>5 DEF ItemsBehind
  <2>2. e.pos \in 0 .. Len(b) /\ e.pos > pos /\ count - 1 \in Nat
    BY <1>0, <1>3, <1>5, <2>1 DEF SoundAt
  <2>3. q \in Places(b) /\ q.pos = e.pos /\ q.what = "array" /\ q.pos > pos
    BY <2>2, PlaceIn
  <2>. HIDE DEF q
  <2>4. BackAt("array", rest) /\ SoundAt(b, "array", e.pos, q.count, rest)
    <3>1. BackAt(q.what, rest)
      BY <2>3 DEF BackBehind
    <3>2. SoundAt(b, q.what, q.pos, q.count, rest)
      BY <2>3, Sound
    <3>. QED  BY <2>3, <3>1, <3>2
  <2>. HIDE DEF rest
  <2>. DEFINE w == rest.value
              u == e.value
              x == Named(<<>>, u)
  <2>5. rest.error = "OK" /\ r.value = Value(w.type, <<>>, <<x>> \o w.items)
    BY <2>1 DEF Behind
  <2>6. u \in Values
    <3>1. u \in Up(b, pos)
      BY <1>3, <2>1 DEF SoundAt
    <3>. QED  BY <3>1, UpIs
  <2>7. w.type = "array" /\ w.items \in Seq(Item)
    <3>1. w \in ValuesOver(Up(b, e.pos)) /\ w.type = "array"
      BY <2>4, <2>5 DEF SoundAt
    <3>2. Up(b, e.pos) \subseteq Values
      BY <2>2, UpIs
    <3>3. w \in ValuesOver(Values)
      BY <3>1, <3>2, ValuesOverGrow
    <3>. HIDE DEF w
    <3>. QED  BY <3>1, <3>3, ValueParts DEF Item
  <2>8. x \in Item /\ x.data = u
    <3>1. <<>> \in Seq(Byte)
      OBVIOUS
    <3>. QED  BY <2>6, <3>1, ItemIs DEF Named
  <2>. HIDE DEF x, w, u
  <2>9. r.value = Value("array", <<>>, <<x>> \o w.items) /\ r.value.items = <<x>> \o w.items
    BY <2>5, <2>7 DEF Value
  <2>10. KeptItems("array", w.items) /\ NamesKept[u]
    <3>. DEFINE s == w.items
    <3>1. s \in Seq(Item) /\ x \in Item /\ KeptItems("array", <<x>> \o s)
      BY <2>7, <2>8, <2>9
    <3>. HIDE DEF s
    <3>2. KeptItems("array", s) /\ NamesKept[x.data]
      BY <3>1, KeptPrepended, Zenon
    <3>. QED  BY <2>8, <3>2 DEF s
  <2>11. Back("data", u)
    BY <1>2, <2>1, <2>10 DEF BackAt, Kept, u
  <2>12. Back("array", w)
    BY <2>4, <2>5, <2>10 DEF BackAt, Kept, w
  <2>13. Back("array", Value("array", <<>>, <<Named(<<>>, u)>> \o w.items))
    BY <2>6, <2>7, <2>11, <2>12, BackMoreItems
  <2>. QED  BY <2>9, <2>13 DEF x
<1>. QED  BY <1>4, <1>5

(* Everything that has been read of any bytes, written, is read back: by   *)
(* induction from the end of the bytes.                                    *)
LEMMA ReadBack ==
  ASSUME NEW b, Ready(b)
  PROVE  \A p \in Places(b) : BackAt(p.what, Reading(b)[p])
<1>. DEFINE P == {p \in Places(b) : BackAt(p.what, Reading(b)[p])}
<1>1. ASSUME NEW p \in Places(b), \A q \in Places(b) : q.pos > p.pos => q \in P
      PROVE  p \in P
  <2>1. BackBehind(b, p.pos)
    BY <1>1 DEF BackBehind
  <2>2. Reading(b)[p] = Body(b, p, Reading(b))
    BY ReadingIs DEF Ready
  <2>3. /\ p.what \in {"data", "object", "assoc", "array"} /\ p.pos \in 0 .. Len(b)
        /\ p.count \in Nat
    BY DEF Places
  <2>4. BackAt(p.what, Body(b, p, Reading(b)))
    <3>1. CASE p.what = "data"
      <4>1. Body(b, p, Reading(b)) = ReadValue(b, p.pos, Reading(b))
        BY <3>1 DEF Body
      <4>. QED  BY <2>1, <2>3, <3>1, <4>1, BackValue
    <3>2. CASE p.what = "array"
      <4>1. Body(b, p, Reading(b)) = ReadItems(b, p.pos, p.count, Reading(b))
        BY <3>2 DEF Body
      <4>. QED  BY <2>1, <2>3, <3>2, <4>1, BackItems
    <3>3. CASE p.what \in WithNames
      <4>1. Body(b, p, Reading(b)) = ReadPairs(b, p.pos, p.what, Reading(b))
        BY <3>3 DEF Body, WithNames
      <4>. QED  BY <2>1, <2>3, <3>3, <4>1, BackPairs
    <3>. QED  BY <2>3, <3>1, <3>2, <3>3 DEF WithNames
  <2>. QED  BY <2>2, <2>4
<1>2. \A p \in Places(b) : p \in P
  <2>. HIDE DEF P
  <2>. QED  BY <1>1, BackwardInduction
<1>. QED  BY <1>2

----------------------------------------------------------------------------
(* Where the data and the bytes of every stage come from.                  *)
BodyInv ==
  /\ stage \in {"amf", "read"} => bytes \in Inputs
  /\ stage = "read" => data = Read(bytes, 0)
  /\ stage \in {"written", "read again"} =>
       \E b \in Inputs : /\ data = Read(b, 0) /\ data.error = "OK"
                         /\ bytes = Write[data.value]
  /\ stage = "read again" => again = Read(bytes, 0)

(* What is in memory and in the file, at every stage, is what reading the  *)
(* input gave and what writing it made (flv_read_metadata, update.c, the   *)
(* next reader).                                                           *)
THEOREM BodyInvariant == BodySpec => []BodyInv
<1>1. BodyInit => BodyInv
  BY DEF BodyInit, BodyInv
<1>2. ASSUME BodyInv, [BodyNext]_bodyVars PROVE BodyInv'
  <2>1. CASE ReadData
    BY <1>2, <2>1 DEF ReadData, BodyInv
  <2>2. CASE WriteData
    BY <1>2, <2>2 DEF WriteData, BodyInv
  <2>3. CASE ReadAgain
    BY <1>2, <2>3 DEF ReadAgain, BodyInv
  <2>4. CASE ReadPicture
    BY <1>2, <2>4 DEF ReadPicture, BodyInv
  <2>5. CASE BodyDone \/ UNCHANGED bodyVars
    BY <1>2, <2>5 DEF BodyDone, bodyVars, BodyInv
  <2>. QED  BY <1>2, <2>1, <2>2, <2>3, <2>4, <2>5 DEF BodyNext
<1>. QED  BY <1>1, <1>2, PTL DEF BodySpec

(* What is known of the reading of an input.                               *)
LEMMA InputRead ==
  ASSUME NEW b \in Inputs
  PROVE  /\ SoundAt(b, "data", 0, 0, Read(b, 0)) /\ BackAt("data", Read(b, 0)) /\ Ready(b)
         /\ Read(b, 0).error = "OK" => Read(b, 0).value \in Values
<1>1. Ready(b) /\ 0 \in 0 .. Len(b)
  BY InputsAssumption, LenProperties DEF Ready
<1>2. /\ Place("data", 0, 0) \in Places(b) /\ Place("data", 0, 0).what = "data"
      /\ Place("data", 0, 0).pos = 0 /\ Place("data", 0, 0).count = 0
  BY <1>1, PlaceIn
<1>3. SoundAt(b, "data", 0, 0, Read(b, 0)) /\ BackAt("data", Read(b, 0))
  BY <1>1, <1>2, Sound, ReadBack DEF Read
<1>4. Read(b, 0).error = "OK" => Read(b, 0).value \in Values
  <2>1. Up(b, 0) \subseteq Values
    BY <1>1, UpIs
  <2>. QED  BY <1>3, <2>1 DEF SoundAt
<1>. QED  BY <1>1, <1>3, <1>4

(* For every input, what amf_data_size counts of the data that has been    *)
(* read is no more than was taken, or one more at the end of the file:     *)
(* SizeBounded of the runs.                                                *)
THEOREM SizesAreBounded == BodySpec => []SizeBounded
<1>1. ASSUME BodyInv PROVE SizeBounded
  <2>. SUFFICES ASSUME stage = "read", data.error = "OK"
                PROVE  /\ Size[data.value] <= data.pos + (IF data.hitsEnd THEN 1 ELSE 0)
                       /\ data.hitsEnd => data.pos = Len(bytes)
    BY DEF SizeBounded
  <2>1. bytes \in Inputs /\ data = Read(bytes, 0)
    BY <1>1 DEF BodyInv
  <2>2. SoundAt(bytes, "data", 0, 0, data)
    BY <2>1, InputRead
  <2>3. /\ Size[data.value] <= (data.pos - 0) + More(data)
        /\ data.pos \in 0 .. Len(bytes) /\ data.hitsEnd => data.pos = Len(bytes)
    BY <2>2 DEF SoundAt, Measure
  <2>4. data.pos - 0 = data.pos
    BY <2>2 DEF SoundAt
  <2>. QED  BY <2>2, <2>3, <2>4 DEF More, SoundAt
<1>. QED  BY <1>1, BodyInvariant, PTL

(* A value alone in a file is read back, and the file ends with it.        *)
LEMMA WrittenRead ==
  ASSUME NEW v \in Values, Back("data", v)
  PROVE  Read(Write[v], 0) = Got(v, Size[v], FALSE)
<1>. DEFINE w == Write[v]
            n == Len(w)
<1>1. w \in Seq(Byte) /\ n = Size[v]
  BY WriteFact, WriteLength
<1>2. n \in Nat
  BY <1>1, LenProperties
<1>. HIDE DEF n
<1>3. 0 \in 0 .. n /\ 0 + n = n /\ \A i \in 1 .. n : 0 + i = i
  BY <1>2
<1>4. Holds(w, 0, w) /\ 0 \in 0 .. Len(w)
  BY <1>3 DEF Holds, n
<1>. HIDE DEF w
<1>5. Reading(w)[Place("data", 0, 0)] = Got(v, 0 + Len(w), FALSE)
  BY <1>1, <1>4, DataBack DEF w
<1>. QED  BY <1>1, <1>3, <1>5 DEF Read, n, w

(* The written count of pairs is right as long as it has one byte.         *)
LEMMA CountRight ==
  ASSUME NEW v \in Values
  PROVE  CountKept(v, Write[v])
<1>. SUFFICES ASSUME v.type = "assoc", 2 * Len(v.items) < Base
              PROVE  SubSeq(Write[v], 2, 1 + CountBytes) = WriteCount(v.items)
  BY DEF CountKept
<1>. DEFINE w == Write[v]
            c == WritePairCount(v.items)
            s == Bytes("assoc", v)
            k == <<TypeOf["assoc"]>>
            u == c \o s
<1>1. c \in Seq(Byte) /\ Len(c) = CountBytes /\ c = WriteCount(v.items)
  BY ItemsOf, CountWritten, PairCountRight
<1>2. s \in Seq(Byte) /\ w = k \o (c \o s)
  BY BytesIn, WriteCases DEF WithNames
<1>3. k \in Seq(Byte) /\ Len(k) = 1
  BY BytesOfTypes DEF WithNames
<1>4. w \in Seq(Byte) /\ Holds(w, 0, w)
  <2>1. w \in Seq(Byte)
    BY WriteFact
  <2>. HIDE DEF w
  <2>2. Len(w) \in Nat
    BY <2>1, LenProperties
  <2>3. \A i \in 1 .. Len(w) : 0 + i = i
    BY <2>2
  <2>. QED  BY <2>1, <2>2, <2>3 DEF Holds
<1>5. u \in Seq(Byte)
  BY <1>1, <1>2, ConcatProperties
<1>6. Joins(w, k, u) /\ Joins(u, c, s)
  BY <1>2 DEF Joins
<1>. HIDE DEF w, c, s, k, u
<1>7. Holds(w, 0 + Len(k), u)
  <2>1. k \in Seq(Byte) /\ 0 \in Nat
    BY <1>3
  <2>. QED  BY <1>4, <1>5, <1>6, <2>1, HoldsBoth
<1>8. Holds(w, 1, u)
  <2>1. 0 + Len(k) = 1
    BY <1>3
  <2>. QED  BY <1>7, <2>1
<1>9. Holds(w, 1, c)
  <2>1. c \in Seq(Byte) /\ 1 \in Nat
    BY <1>1
  <2>. QED  BY <1>2, <1>4, <1>6, <1>8, <2>1, HoldsBoth
<1>10. Taken(w, 1, Len(c)) = c
  <2>1. c \in Seq(Byte) /\ 1 \in Nat
    BY <1>1
  <2>. QED  BY <1>4, <1>9, <2>1, HoldsTaken
<1>11. Taken(w, 1, CountBytes) = SubSeq(w, 2, 1 + CountBytes)
  BY DEF Taken
<1>. QED  BY <1>1, <1>10, <1>11 DEF w

(* For every input, what is written of it is as long as amf_data_size says *)
(* and reads back the same, when no name has become empty: RoundTrip of    *)
(* the runs.                                                               *)
THEOREM ValuesReadBack == BodySpec => []RoundTrip
<1>1. ASSUME BodyInv PROVE RoundTrip
  <2>. DEFINE v == data.value
  <2>. SUFFICES ASSUME stage \in {"written", "read again"}
                PROVE  /\ Len(bytes) = Size[v] /\ CountKept(v, bytes)
                       /\ (stage = "read again" /\ NamesKept[v]) => again = Got(v, Size[v], FALSE)
    BY DEF RoundTrip
  <2>1. PICK b \in Inputs : data = Read(b, 0) /\ data.error = "OK" /\ bytes = Write[v]
    BY <1>1 DEF BodyInv
  <2>2. v \in Values /\ BackAt("data", data)
    BY <2>1, InputRead
  <2>3. Len(bytes) = Size[v] /\ bytes \in Seq(Byte) /\ CountKept(v, bytes) /\ Size[v] \in Nat
    BY <2>1, <2>2, WriteLength, WriteFact, CountRight, SizeFact
  <2>4. ASSUME stage = "read again", NamesKept[v]
        PROVE  again = Got(v, Size[v], FALSE)
    <3>1. Back("data", v)
      BY <2>1, <2>2, <2>4 DEF BackAt, Kept
    <3>2. again = Read(bytes, 0)
      BY <1>1, <2>4 DEF BodyInv
    <3>. QED  BY <2>1, <2>2, <3>1, <3>2, WrittenRead
  <2>. QED  BY <2>3, <2>4
<1>. QED  BY <1>1, BodyInvariant, PTL
=============================================================================
