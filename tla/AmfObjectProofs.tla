-------------------------- MODULE AmfObjectProofs --------------------------
(***************************************************************************)
(* Theorems about AmfObject: whatever is pushed, popped, inserted inside,  *)
(* deleted, added or merged, and whichever allocation fails, the links of  *)
(* a list form one chain through all its nodes.  When every value can be   *)
(* cloned, the lists implement the arrays and objects of AmfSequence; and  *)
(* the merge that --preserve asks for keeps what was computed and what the *)
(* original had.                                                           *)
(***************************************************************************)
EXTENDS AmfObject, FiniteSetTheorems, SequenceTheorems, WellFoundedInduction, TLAPS

Datas == Names \union Values \union {NULL}
Links == [data : Datas, next : Nodes \union {NULL}, prev : Nodes \union {NULL}]
Heaps == UNION {[A -> Links] : A \in SUBSET Nodes}

(* The nodes of the list are those of s, in the order of s.                *)
Chain(l, s) ==
  /\ l.size \in Nat /\ l.nodes \in Heaps
  /\ s \in [1 .. l.size -> Nodes]
  /\ \A i, j \in 1 .. l.size : s[i] = s[j] => i = j
  /\ \A i \in 1 .. l.size : s[i] \in DOMAIN l.nodes
  /\ \A n \in DOMAIN l.nodes : \E i \in 1 .. l.size : s[i] = n
  /\ l.first = IF l.size = 0 THEN NULL ELSE s[1]
  /\ l.last = IF l.size = 0 THEN NULL ELSE s[l.size]
  /\ \A i \in 1 .. l.size :
       /\ l.nodes[s[i]].next = IF i = l.size THEN NULL ELSE s[i + 1]
       /\ l.nodes[s[i]].prev = IF i = 1 THEN NULL ELSE s[i - 1]

Lists == [size : Nat, first : Nodes \union {NULL}, last : Nodes \union {NULL}, nodes : Heaps]
Filled(l) == \A n \in DOMAIN l.nodes : l.nodes[n].data # NULL

(* What is left of a sequence of m nodes without its element k, and with   *)
(* the node n as its element k.                                            *)
Without(s, m, k) == [i \in 1 .. m - 1 |-> IF i < k THEN s[i] ELSE s[i + 1]]
With(s, m, k, n) ==
  [i \in 1 .. m + 1 |-> IF i < k THEN s[i] ELSE IF i = k THEN n ELSE s[i - 1]]

(* The list l with the node n, which holds d, in the chain t.              *)
Grown(l, into, t, n, d) ==
  /\ Chain(into, t) /\ into \in Lists /\ into.size = l.size + 1
  /\ DOMAIN into.nodes = DOMAIN l.nodes \union {n}
  /\ into.nodes[n].data = d
  /\ \A x \in DOMAIN l.nodes : into.nodes[x].data = l.nodes[x].data

(* The nodes of l, whose nodes k - 1 and k have been linked to n.          *)
Spliced(l, s, k, n, linked) ==
  /\ linked \in Heaps /\ DOMAIN linked = DOMAIN l.nodes
  /\ \A x \in DOMAIN l.nodes :
       /\ linked[x].data = l.nodes[x].data
       /\ linked[x].next = IF x = s[k - 1] THEN n ELSE l.nodes[x].next
       /\ linked[x].prev = IF x = s[k] THEN n ELSE l.nodes[x].prev
Inserted(l, s, k, n, d, linked) ==
  [size |-> l.size + 1, first |-> l.first, last |-> l.last,
   nodes |-> WithNode(linked, n, [data |-> d, next |-> s[k], prev |-> s[k - 1]])]

-----------------------------------------------------------------------------
(* Setting one link of one node.                                           *)

LEMMA SetNextFact ==
  ASSUME NEW h \in Heaps, NEW n \in DOMAIN h \union {NULL}, NEW v \in Nodes \union {NULL}
  PROVE  /\ SetNext(h, n, v) \in Heaps
         /\ DOMAIN SetNext(h, n, v) = DOMAIN h
         /\ \A m \in DOMAIN h :
              /\ SetNext(h, n, v)[m].data = h[m].data
              /\ SetNext(h, n, v)[m].prev = h[m].prev
              /\ SetNext(h, n, v)[m].next = IF m = n THEN v ELSE h[m].next
<1>1. PICK A \in SUBSET Nodes : h \in [A -> Links]
  BY DEF Heaps
<1>2. A = DOMAIN h /\ NULL \notin A
  BY <1>1, AmfConstants
<1>3. CASE n = NULL
  BY <1>2, <1>3 DEF SetNext
<1>4. CASE n # NULL
  <2>1. SetNext(h, n, v) = [h EXCEPT ![n].next = v]
    BY <1>4 DEF SetNext
  <2>2. n \in A
    BY <1>2, <1>4
  <2>3. SetNext(h, n, v) \in [A -> Links]
    BY <1>1, <2>1, <2>2 DEF Links
  <2>. QED  BY <1>1, <1>2, <2>1, <2>2, <2>3 DEF Heaps, Links
<1>. QED  BY <1>3, <1>4

LEMMA SetPrevFact ==
  ASSUME NEW h \in Heaps, NEW n \in DOMAIN h \union {NULL}, NEW v \in Nodes \union {NULL}
  PROVE  /\ SetPrev(h, n, v) \in Heaps
         /\ DOMAIN SetPrev(h, n, v) = DOMAIN h
         /\ \A m \in DOMAIN h :
              /\ SetPrev(h, n, v)[m].data = h[m].data
              /\ SetPrev(h, n, v)[m].next = h[m].next
              /\ SetPrev(h, n, v)[m].prev = IF m = n THEN v ELSE h[m].prev
<1>1. PICK A \in SUBSET Nodes : h \in [A -> Links]
  BY DEF Heaps
<1>2. A = DOMAIN h /\ NULL \notin A
  BY <1>1, AmfConstants
<1>3. CASE n = NULL
  BY <1>2, <1>3 DEF SetPrev
<1>4. CASE n # NULL
  <2>1. SetPrev(h, n, v) = [h EXCEPT ![n].prev = v]
    BY <1>4 DEF SetPrev
  <2>2. n \in A
    BY <1>2, <1>4
  <2>3. SetPrev(h, n, v) \in [A -> Links]
    BY <1>1, <2>1, <2>2 DEF Links
  <2>. QED  BY <1>1, <1>2, <2>1, <2>2, <2>3 DEF Heaps, Links
<1>. QED  BY <1>3, <1>4

(* A node is added.                                                        *)
LEMMA WithNodeFact ==
  ASSUME NEW h \in Heaps, NEW n \in Nodes, n \notin DOMAIN h, NEW node \in Links
  PROVE  /\ WithNode(h, n, node) \in Heaps
         /\ DOMAIN WithNode(h, n, node) = DOMAIN h \union {n}
         /\ WithNode(h, n, node)[n] = node
         /\ \A m \in DOMAIN h : WithNode(h, n, node)[m] = h[m]
<1>1. PICK A \in SUBSET Nodes : h \in [A -> Links]
  BY DEF Heaps
<1>2. WithNode(h, n, node) \in [A \union {n} -> Links]
  BY <1>1 DEF WithNode
<1>3. A = DOMAIN h /\ A \union {n} \in SUBSET Nodes
  BY <1>1
<1>4. WithNode(h, n, node) \in Heaps
  BY <1>2, <1>3 DEF Heaps
<1>. QED  BY <1>3, <1>4 DEF WithNode

(* malloc returns a free node, if any.                                     *)
LEMMA MallocFact ==
  ASSUME NEW l, NEW n \in Malloc(l), n # NULL
  PROVE  n \in Nodes /\ n \notin DOMAIN l.nodes
BY DEF Malloc

(* amf_list_push makes the new node the last one.                          *)
LEMMA PushChain ==
  ASSUME NEW l, NEW s, Chain(l, s), NEW n \in Nodes, n \notin DOMAIN l.nodes,
         NEW d \in Datas
  PROVE  Grown(l, ListPush(l, n, d), With(s, l.size, l.size + 1, n), n, d)
<1>. DEFINE m == l.size
            t == With(s, m, m + 1, n)
            node == [data |-> d, next |-> NULL, prev |-> IF m = 0 THEN NULL ELSE l.last]
            before == IF m = 0 THEN l.nodes ELSE SetNext(l.nodes, l.last, n)
            after == WithNode(before, n, node)
<1>1. m \in Nat /\ l.nodes \in Heaps /\ s \in [1 .. m -> Nodes] /\ n # NULL
  BY AmfConstants DEF Chain
<1>2. m # 0 => l.last = s[m] /\ l.last \in DOMAIN l.nodes /\ l.last \in Nodes
  BY <1>1 DEF Chain
<1>3. node \in Links
  BY <1>2 DEF Links
<1>6. ListPush(l, n, d) = [size |-> m + 1, last |-> n, nodes |-> after,
                           first |-> IF m = 0 THEN n ELSE l.first]
  BY <1>1 DEF ListPush
<1>node. node.data = d /\ node.next = NULL /\ node.prev = IF m = 0 THEN NULL ELSE l.last
  OBVIOUS
<1>. HIDE DEF node
<1>4. /\ before \in Heaps /\ DOMAIN before = DOMAIN l.nodes
      /\ \A x \in DOMAIN l.nodes :
           /\ before[x].data = l.nodes[x].data /\ before[x].prev = l.nodes[x].prev
           /\ before[x].next = IF m # 0 /\ x = l.last THEN n ELSE l.nodes[x].next
  <2>1. CASE m = 0
    BY <1>1, <2>1
  <2>2. CASE m # 0
    BY <1>1, <1>2, <2>2, SetNextFact
  <2>. QED  BY <2>1, <2>2
<1>. HIDE DEF before
<1>5. /\ after \in Heaps /\ DOMAIN after = DOMAIN l.nodes \union {n} /\ after[n] = node
      /\ \A x \in DOMAIN l.nodes : after[x] = before[x]
  BY <1>3, <1>4, WithNodeFact
<1>. HIDE DEF after
<1>7. /\ t \in [1 .. m + 1 -> Nodes] /\ t[m + 1] = n
      /\ \A i \in 1 .. m : t[i] = s[i]
  BY <1>1 DEF With
<1>. HIDE DEF t
<1>8. \A i \in 1 .. m : s[i] \in DOMAIN l.nodes /\ s[i] # n
  BY DEF Chain
<1>9. /\ \A i \in 1 .. m + 1 : t[i] \in DOMAIN after
      /\ \A x \in DOMAIN after : \E i \in 1 .. m + 1 : t[i] = x
  BY <1>1, <1>5, <1>7 DEF Chain
<1>10. \A i, j \in 1 .. m + 1 : t[i] = t[j] => i = j
  BY <1>1, <1>7, <1>8 DEF Chain
<1>11. ASSUME NEW i \in 1 .. m + 1
       PROVE  /\ after[t[i]].next = IF i = m + 1 THEN NULL ELSE t[i + 1]
              /\ after[t[i]].prev = IF i = 1 THEN NULL ELSE t[i - 1]
  <2>1. CASE i = m + 1
    BY <1>1, <1>2, <1>5, <1>7, <1>node, <2>1 DEF Chain
  <2>2. CASE i # m + 1
    <3>1. i \in 1 .. m /\ t[i] = s[i] /\ s[i] \in DOMAIN l.nodes
      BY <1>1, <1>7, <1>8, <2>2
    <3>2. i = m <=> s[i] = l.last
      BY <1>1, <1>2, <3>1 DEF Chain
    <3>3. /\ l.nodes[s[i]].next = IF i = m THEN NULL ELSE s[i + 1]
          /\ l.nodes[s[i]].prev = IF i = 1 THEN NULL ELSE s[i - 1]
      BY <3>1 DEF Chain
    <3>4. after[t[i]].next = t[i + 1]
      BY <1>1, <1>4, <1>5, <1>7, <3>1, <3>2, <3>3
    <3>5. after[t[i]].prev = IF i = 1 THEN NULL ELSE t[i - 1]
      BY <1>1, <1>4, <1>5, <1>7, <3>1, <3>3
    <3>. QED  BY <2>2, <3>4, <3>5
  <2>. QED  BY <2>1, <2>2
<1>12. (IF m = 0 THEN n ELSE l.first) = t[1]
  BY <1>1, <1>7 DEF Chain
<1>13. Chain(ListPush(l, n, d), t)
  BY <1>1, <1>5, <1>6, <1>7, <1>9, <1>10, <1>11, <1>12 DEF Chain
<1>14. ListPush(l, n, d) \in Lists
  BY <1>1, <1>5, <1>6, <1>7, <1>12 DEF Lists
<1>. QED  BY <1>node, <1>4, <1>5, <1>6, <1>13, <1>14 DEF t, Grown

(* amf_list_delete takes one node out of the chain.                        *)
LEMMA DeleteChain ==
  ASSUME NEW l, NEW s, Chain(l, s), NEW k \in 1 .. l.size, NEW n, n = s[k]
  PROVE  /\ Chain(ListDelete(l, n), Without(s, l.size, k))
         /\ ListDelete(l, n) \in Lists
         /\ DOMAIN ListDelete(l, n).nodes = DOMAIN l.nodes \ {n}
         /\ \A x \in DOMAIN l.nodes \ {n} :
              ListDelete(l, n).nodes[x].data = l.nodes[x].data
<1>. DEFINE m == l.size
            h == l.nodes
            q == h[n].next
            r == h[n].prev
            t == Without(s, m, k)
            half == SetPrev(h, q, r)
            linked == SetNext(half, r, q)
            after == [x \in DOMAIN linked \ {n} |-> linked[x]]
<1>1. /\ m \in Nat /\ h \in Heaps /\ s \in [1 .. m -> Nodes] /\ n # NULL
      /\ n \in DOMAIN h /\ n \in Nodes
  BY AmfConstants DEF Chain
<1>2. /\ q = IF k = m THEN NULL ELSE s[k + 1]
      /\ r = IF k = 1 THEN NULL ELSE s[k - 1]
  BY DEF Chain
<1>3. /\ q \in DOMAIN h \union {NULL} /\ q \in Nodes \union {NULL}
      /\ r \in DOMAIN h \union {NULL} /\ r \in Nodes \union {NULL}
  <2>1. \A i \in 1 .. m : s[i] \in DOMAIN h /\ s[i] \in Nodes
    BY <1>1 DEF Chain
  <2>2. k # m => k + 1 \in 1 .. m
    BY <1>1
  <2>3. k # 1 => k - 1 \in 1 .. m
    BY <1>1
  <2>. HIDE DEF h, q, r
  <2>. QED  BY <1>2, <2>1, <2>2, <2>3
<1>4. ListDelete(l, n) = [size |-> m - 1,
                          first |-> IF n = l.first THEN q ELSE l.first,
                          last |-> IF n = l.last THEN r ELSE l.last,
                          nodes |-> after]
  BY <1>1 DEF ListDelete
<1>5. /\ t \in [1 .. m - 1 -> Nodes]
      /\ \A i \in 1 .. m - 1 : t[i] = IF i < k THEN s[i] ELSE s[i + 1]
  BY <1>1 DEF Without
<1>. HIDE DEF t, q, r
<1>6. /\ half \in Heaps /\ DOMAIN half = DOMAIN h
      /\ \A x \in DOMAIN h :
           /\ half[x].data = h[x].data /\ half[x].next = h[x].next
           /\ half[x].prev = IF x = q THEN r ELSE h[x].prev
  <2>. HIDE DEF h
  <2>1. h \in Heaps /\ q \in DOMAIN h \union {NULL} /\ r \in Nodes \union {NULL}
    BY <1>1, <1>3
  <2>. QED  BY <2>1, SetPrevFact
<1>. HIDE DEF half
<1>7. /\ linked \in Heaps /\ DOMAIN linked = DOMAIN h
      /\ \A x \in DOMAIN h :
           /\ linked[x].data = h[x].data
           /\ linked[x].prev = IF x = q THEN r ELSE h[x].prev
           /\ linked[x].next = IF x = r THEN q ELSE h[x].next
  <2>1. r \in DOMAIN half \union {NULL}
    BY <1>3, <1>6
  <2>. HIDE DEF h
  <2>2. /\ linked \in Heaps /\ DOMAIN linked = DOMAIN half
        /\ \A x \in DOMAIN half :
             /\ linked[x].data = half[x].data /\ linked[x].prev = half[x].prev
             /\ linked[x].next = IF x = r THEN q ELSE half[x].next
    BY <1>3, <1>6, <2>1, SetNextFact
  <2>. QED  BY <1>6, <2>2
<1>. HIDE DEF linked
<1>8. /\ DOMAIN after = DOMAIN h \ {n}
      /\ \A x \in DOMAIN after : after[x] = linked[x]
  BY <1>7
<1>9. after \in Heaps
  <2>1. PICK A \in SUBSET Nodes : linked \in [A -> Links]
    BY <1>7 DEF Heaps
  <2>2. after \in [A \ {n} -> Links]
    BY <2>1
  <2>. QED  BY <2>2 DEF Heaps
<1>. HIDE DEF after
<1>10. \A i, j \in 1 .. m : s[i] = s[j] => i = j
  BY DEF Chain
<1>11. \A i \in 1 .. m : s[i] \in DOMAIN h /\ (s[i] = n <=> i = k)
  BY <1>10 DEF Chain
<1>12. \A i, j \in 1 .. m - 1 : t[i] = t[j] => i = j
  BY <1>1, <1>5, <1>10
<1>13. \A i \in 1 .. m - 1 : t[i] \in DOMAIN after
  BY <1>1, <1>5, <1>8, <1>11
<1>14. \A x \in DOMAIN after : \E i \in 1 .. m - 1 : t[i] = x
  <2>. TAKE x \in DOMAIN after
  <2>1. PICK j \in 1 .. m : s[j] = x
    BY <1>8 DEF Chain
  <2>2. j # k
    BY <1>8, <2>1
  <2>3. CASE j < k
    BY <1>1, <1>5, <2>1, <2>3
  <2>4. CASE j > k
    <3>1. j - 1 \in 1 .. m - 1 /\ t[j - 1] = x
      BY <1>1, <1>5, <2>1, <2>4
    <3>. QED  BY <3>1
  <2>. QED  BY <1>1, <2>2, <2>3, <2>4
<1>15. ASSUME NEW i \in 1 .. m - 1
       PROVE  /\ after[t[i]].next = IF i = m - 1 THEN NULL ELSE t[i + 1]
              /\ after[t[i]].prev = IF i = 1 THEN NULL ELSE t[i - 1]
  <2>. DEFINE j == IF i < k THEN i ELSE i + 1
  <2>1. j \in 1 .. m /\ t[i] = s[j] /\ j # k
    BY <1>1, <1>5
  <2>2. /\ h[s[j]].next = IF j = m THEN NULL ELSE s[j + 1]
        /\ h[s[j]].prev = IF j = 1 THEN NULL ELSE s[j - 1]
    BY <2>1 DEF Chain
  <2>3. after[t[i]] = linked[s[j]]
    BY <1>8, <1>11, <2>1
  <2>4. s[j] = q <=> j = k + 1
    BY <1>1, <1>2, <1>10, <1>11, <2>1, AmfConstants
  <2>5. s[j] = r <=> j = k - 1
    BY <1>1, <1>2, <1>10, <1>11, <2>1, AmfConstants
  <2>6. /\ linked[s[j]].prev = IF j = k + 1 THEN r ELSE h[s[j]].prev
        /\ linked[s[j]].next = IF j = k - 1 THEN q ELSE h[s[j]].next
    BY <1>7, <1>11, <2>1, <2>4, <2>5
  <2>7. after[t[i]].next = IF i = m - 1 THEN NULL ELSE t[i + 1]
    <3>1. CASE j = k - 1
      BY <1>1, <1>2, <1>5, <2>1, <2>3, <2>6, <3>1
    <3>2. CASE j # k - 1
      <4>1. after[t[i]].next = IF j = m THEN NULL ELSE s[j + 1]
        BY <2>2, <2>3, <2>6, <3>2
      <4>2. CASE i < k
        BY <1>1, <1>5, <3>2, <4>1, <4>2
      <4>3. CASE i >= k
        BY <1>1, <1>5, <4>1, <4>3
      <4>. QED  BY <1>1, <4>2, <4>3
    <3>. QED  BY <3>1, <3>2
  <2>8. after[t[i]].prev = IF i = 1 THEN NULL ELSE t[i - 1]
    <3>1. CASE j = k + 1
      BY <1>1, <1>2, <1>5, <2>1, <2>3, <2>6, <3>1
    <3>2. CASE j # k + 1
      <4>1. after[t[i]].prev = IF j = 1 THEN NULL ELSE s[j - 1]
        BY <2>2, <2>3, <2>6, <3>2
      <4>2. CASE i < k
        BY <1>1, <1>5, <4>1, <4>2
      <4>3. CASE i >= k
        BY <1>1, <1>5, <3>2, <4>1, <4>3
      <4>. QED  BY <1>1, <4>2, <4>3
    <3>. QED  BY <3>1, <3>2
  <2>. QED  BY <2>7, <2>8
<1>16. (IF n = l.first THEN q ELSE l.first) = IF m - 1 = 0 THEN NULL ELSE t[1]
  BY <1>1, <1>2, <1>5, <1>11 DEF Chain
<1>17. (IF n = l.last THEN r ELSE l.last) = IF m - 1 = 0 THEN NULL ELSE t[m - 1]
  BY <1>1, <1>2, <1>5, <1>11 DEF Chain
<1>18. m - 1 \in Nat
  BY <1>1
<1>19. Chain(ListDelete(l, n), t)
  BY <1>4, <1>5, <1>9, <1>12, <1>13, <1>14, <1>15, <1>16, <1>17, <1>18 DEF Chain
<1>20. ListDelete(l, n) \in Lists
  BY <1>4, <1>5, <1>9, <1>16, <1>17, <1>18, <1>1 DEF Lists
<1>. QED  BY <1>4, <1>7, <1>8, <1>19, <1>20 DEF t

(* A node n that is linked between the nodes k - 1 and k of the chain.     *)
LEMMA InsertChain ==
  ASSUME NEW l, NEW s, Chain(l, s), NEW k \in 2 .. l.size,
         NEW n \in Nodes, n \notin DOMAIN l.nodes, NEW d \in Datas,
         NEW linked, Spliced(l, s, k, n, linked)
  PROVE  Grown(l, Inserted(l, s, k, n, d, linked), With(s, l.size, k, n), n, d)
<1>. DEFINE m == l.size
            h == l.nodes
            t == With(s, m, k, n)
            into == Inserted(l, s, k, n, d, linked)
            node == [data |-> d, next |-> s[k], prev |-> s[k - 1]]
            after == WithNode(linked, n, node)
<1>1. /\ m \in Nat /\ s \in [1 .. m -> Nodes] /\ k - 1 \in 1 .. m /\ k \in 1 .. m
      /\ k # 1 /\ n # NULL
  BY AmfConstants DEF Chain
<1>0. /\ linked \in Heaps /\ DOMAIN linked = DOMAIN h
      /\ \A x \in DOMAIN h :
           /\ linked[x].data = h[x].data
           /\ linked[x].next = IF x = s[k - 1] THEN n ELSE h[x].next
           /\ linked[x].prev = IF x = s[k] THEN n ELSE h[x].prev
  BY DEF Spliced
<1>2. node \in Links /\ node.data = d /\ node.next = s[k] /\ node.prev = s[k - 1]
  BY <1>1 DEF Links
<1>. HIDE DEF node
<1>3. /\ after \in Heaps /\ DOMAIN after = DOMAIN h \union {n} /\ after[n] = node
      /\ \A x \in DOMAIN h : after[x] = linked[x]
  <2>1. linked \in Heaps /\ n \in Nodes /\ n \notin DOMAIN linked /\ node \in Links
    BY <1>0, <1>2
  <2>2. /\ WithNode(linked, n, node) \in Heaps
        /\ DOMAIN WithNode(linked, n, node) = DOMAIN linked \union {n}
        /\ WithNode(linked, n, node)[n] = node
        /\ \A x \in DOMAIN linked : WithNode(linked, n, node)[x] = linked[x]
    <3>. HIDE DEF m, h, t
    <3>. QED  BY ONLY <2>1, WithNodeFact
  <2>. QED  BY <1>0, <2>2
<1>4. /\ into.size = m + 1 /\ into.first = l.first /\ into.last = l.last
      /\ into.nodes = after
  BY DEF node, Inserted
<1>5. into = [size |-> m + 1, first |-> l.first, last |-> l.last, nodes |-> after]
  BY DEF node, Inserted
<1>. HIDE DEF after, into
<1>6. /\ t \in [1 .. m + 1 -> Nodes]
      /\ \A i \in 1 .. m + 1 :
           t[i] = IF i < k THEN s[i] ELSE IF i = k THEN n ELSE s[i - 1]
  BY <1>1 DEF With
<1>. HIDE DEF t
<1>7. \A i, j \in 1 .. m : s[i] = s[j] => i = j
  BY DEF Chain
<1>8. \A i \in 1 .. m : s[i] \in DOMAIN h /\ s[i] # n
  BY DEF Chain
<1>9. \A i, j \in 1 .. m + 1 : t[i] = t[j] => i = j
  <2>. SUFFICES ASSUME NEW i \in 1 .. m + 1, NEW j \in 1 .. m + 1, i < j
                PROVE  t[i] # t[j]
    BY <1>1
  <2>1. CASE j < k
    BY <1>1, <1>6, <1>7, <2>1
  <2>2. CASE j = k
    BY <1>1, <1>6, <1>8, <2>2
  <2>3. CASE j > k
    <3>1. t[j] = s[j - 1] /\ j - 1 \in 1 .. m
      BY <1>1, <1>6, <2>3
    <3>2. CASE i < k
      BY <1>1, <1>6, <1>7, <2>3, <3>1, <3>2
    <3>3. CASE i = k
      BY <1>1, <1>6, <1>8, <3>1, <3>3
    <3>4. CASE i > k
      <4>1. t[i] = s[i - 1] /\ i - 1 \in 1 .. m
        BY <1>1, <1>6, <3>4
      <4>. QED  BY <1>1, <1>7, <3>1, <4>1
    <3>. QED  BY <1>1, <3>2, <3>3, <3>4
  <2>. QED  BY <1>1, <2>1, <2>2, <2>3
<1>10. \A i \in 1 .. m + 1 : t[i] \in DOMAIN after
  BY <1>1, <1>3, <1>6, <1>8
<1>11. \A x \in DOMAIN after : \E i \in 1 .. m + 1 : t[i] = x
  <2>. TAKE x \in DOMAIN after
  <2>1. CASE x = n
    BY <1>1, <1>6, <2>1
  <2>2. CASE x # n
    <3>1. PICK j \in 1 .. m : s[j] = x
      BY <1>3, <2>2 DEF Chain
    <3>2. CASE j < k
      BY <1>1, <1>6, <3>1, <3>2
    <3>3. CASE j >= k
      <4>1. j + 1 \in 1 .. m + 1 /\ t[j + 1] = x
        BY <1>1, <1>6, <3>1, <3>3
      <4>. QED  BY <4>1
    <3>. QED  BY <1>1, <3>2, <3>3
  <2>. QED  BY <2>1, <2>2
<1>12. ASSUME NEW i \in 1 .. m + 1
       PROVE  /\ after[t[i]].next = IF i = m + 1 THEN NULL ELSE t[i + 1]
              /\ after[t[i]].prev = IF i = 1 THEN NULL ELSE t[i - 1]
  <2>1. CASE i = k
    BY <1>1, <1>2, <1>3, <1>6, <2>1
  <2>2. CASE i # k
    <3>. DEFINE j == IF i < k THEN i ELSE i - 1
    <3>1. j \in 1 .. m /\ t[i] = s[j]
      BY <1>1, <1>6, <2>2
    <3>2. /\ h[s[j]].next = IF j = m THEN NULL ELSE s[j + 1]
          /\ h[s[j]].prev = IF j = 1 THEN NULL ELSE s[j - 1]
      BY <3>1 DEF Chain
    <3>3. after[t[i]] = linked[s[j]]
      BY <1>3, <1>8, <3>1
    <3>4. (s[j] = s[k - 1] <=> j = k - 1) /\ (s[j] = s[k] <=> j = k)
      BY <1>1, <1>7, <3>1
    <3>5. /\ linked[s[j]].next = IF j = k - 1 THEN n ELSE h[s[j]].next
          /\ linked[s[j]].prev = IF j = k THEN n ELSE h[s[j]].prev
      BY <1>0, <1>8, <3>1, <3>4
    <3>6. CASE i < k
      <4>1. after[t[i]].next = t[i + 1]
        BY <1>1, <1>6, <3>2, <3>3, <3>5, <3>6
      <4>2. after[t[i]].prev = IF i = 1 THEN NULL ELSE t[i - 1]
        BY <1>1, <1>6, <3>2, <3>3, <3>5, <3>6
      <4>. QED  BY <1>1, <3>6, <4>1, <4>2
    <3>7. CASE i > k
      <4>1. after[t[i]].next = IF i = m + 1 THEN NULL ELSE t[i + 1]
        <5>1. after[t[i]].next = IF i = m + 1 THEN NULL ELSE s[i]
          BY <1>1, <3>1, <3>2, <3>3, <3>5, <3>7
        <5>2. i # m + 1 => i + 1 \in 1 .. m + 1 /\ t[i + 1] = s[i]
          BY <1>1, <1>6, <3>7
        <5>. QED  BY <5>1, <5>2
      <4>2. after[t[i]].prev = t[i - 1]
        BY <1>1, <1>6, <3>1, <3>2, <3>3, <3>5, <3>7
      <4>. QED  BY <1>1, <3>7, <4>1, <4>2
    <3>. QED  BY <1>1, <2>2, <3>6, <3>7
  <2>. QED  BY <2>1, <2>2
<1>13. l.first = t[1] /\ l.last = t[m + 1] /\ m + 1 # 0 /\ m + 1 \in Nat
  <2>1. l.first = s[1] /\ l.last = s[m]
    BY <1>1 DEF Chain
  <2>2. t[1] = s[1] /\ t[m + 1] = s[m]
    BY <1>1, <1>6
  <2>. QED  BY <1>1, <2>1, <2>2
<1>14. Chain(into, t)
  BY <1>3, <1>4, <1>6, <1>9, <1>10, <1>11, <1>12, <1>13 DEF Chain
<1>15. into \in Lists
  <2>1. l.first \in Nodes /\ l.last \in Nodes
    BY <1>1, <1>6, <1>13
  <2>. QED  BY <1>3, <1>5, <1>13, <2>1 DEF Lists
<1>. QED  BY <1>0, <1>2, <1>3, <1>4, <1>14, <1>15 DEF t, into, Grown

(* amf_list_insert_before, before a node that is not the first one.        *)
LEMMA InsertBeforeChain ==
  ASSUME NEW l, NEW s, Chain(l, s), NEW k \in 2 .. l.size, NEW at, at = s[k],
         NEW n \in Nodes, n \notin DOMAIN l.nodes, NEW d \in Datas
  PROVE  Grown(l, ListInsertBefore(l, at, n, d), With(s, l.size, k, n), n, d)
<1>. DEFINE h == l.nodes
            p == s[k - 1]
            half == SetNext(h, p, n)
            linked == SetPrev(half, at, n)
            into == ListInsertBefore(l, at, n, d)
<1>0. l.size \in Nat /\ k \in 1 .. l.size /\ k - 1 \in 1 .. l.size /\ k # 1 /\ k - 1 # l.size
  BY DEF Chain
<1>1. /\ h \in Heaps /\ at \in DOMAIN h /\ p \in DOMAIN h /\ n # NULL /\ p # NULL
      /\ n \in Nodes \union {NULL} /\ h[at].prev = p
  BY <1>0, AmfConstants DEF Chain
<1>2. into = [size |-> l.size + 1, last |-> l.last, first |-> l.first,
              nodes |-> WithNode(linked, n, [data |-> d, next |-> at, prev |-> p])]
  BY <1>1 DEF ListInsertBefore
<1>. HIDE DEF h, p, into
<1>3. /\ half \in Heaps /\ DOMAIN half = DOMAIN h
      /\ \A x \in DOMAIN h :
           /\ half[x].data = h[x].data /\ half[x].prev = h[x].prev
           /\ half[x].next = IF x = p THEN n ELSE h[x].next
  BY ONLY <1>1, SetNextFact
<1>. HIDE DEF half
<1>4. /\ linked \in Heaps /\ DOMAIN linked = DOMAIN half
      /\ \A x \in DOMAIN half :
           /\ linked[x].data = half[x].data /\ linked[x].next = half[x].next
           /\ linked[x].prev = IF x = at THEN n ELSE half[x].prev
  BY <1>1, <1>3, SetPrevFact
<1>. HIDE DEF linked
<1>5. Spliced(l, s, k, n, linked)
  BY <1>3, <1>4 DEF h, p, Spliced
<1>6. into = Inserted(l, s, k, n, d, linked)
  BY <1>2 DEF p, Inserted
<1>. QED  BY <1>5, <1>6, InsertChain DEF into

(* amf_list_insert_after, after a node that is not the last one.           *)
LEMMA InsertAfterChain ==
  ASSUME NEW l, NEW s, Chain(l, s), NEW k \in 2 .. l.size, NEW at, at = s[k - 1],
         NEW n \in Nodes, n \notin DOMAIN l.nodes, NEW d \in Datas
  PROVE  Grown(l, ListInsertAfter(l, at, n, d), With(s, l.size, k, n), n, d)
<1>. DEFINE h == l.nodes
            q == s[k]
            half == SetPrev(h, q, n)
            linked == SetNext(half, at, n)
            into == ListInsertAfter(l, at, n, d)
<1>0. /\ l.size \in Nat /\ k \in 1 .. l.size /\ k - 1 \in 1 .. l.size
      /\ k - 1 # l.size /\ (k - 1) + 1 = k
  BY DEF Chain
<1>1. /\ h \in Heaps /\ at \in DOMAIN h /\ q \in DOMAIN h /\ n # NULL /\ q # NULL
      /\ n \in Nodes \union {NULL} /\ h[at].next = q
  BY <1>0, AmfConstants DEF Chain
<1>2. into = [size |-> l.size + 1, first |-> l.first, last |-> l.last,
              nodes |-> WithNode(linked, n, [data |-> d, next |-> q, prev |-> at])]
  BY <1>1 DEF ListInsertAfter
<1>. HIDE DEF h, q, into
<1>3. /\ half \in Heaps /\ DOMAIN half = DOMAIN h
      /\ \A x \in DOMAIN h :
           /\ half[x].data = h[x].data /\ half[x].next = h[x].next
           /\ half[x].prev = IF x = q THEN n ELSE h[x].prev
  BY ONLY <1>1, SetPrevFact
<1>. HIDE DEF half
<1>4. /\ linked \in Heaps /\ DOMAIN linked = DOMAIN half
      /\ \A x \in DOMAIN half :
           /\ linked[x].data = half[x].data /\ linked[x].prev = half[x].prev
           /\ linked[x].next = IF x = at THEN n ELSE half[x].next
  BY <1>1, <1>3, SetNextFact
<1>. HIDE DEF linked
<1>5. Spliced(l, s, k, n, linked)
  BY <1>3, <1>4 DEF h, q, Spliced
<1>6. into = Inserted(l, s, k, n, d, linked)
  BY <1>2 DEF q, Inserted
<1>. QED  BY <1>5, <1>6, InsertChain DEF into

-----------------------------------------------------------------------------
(* Every list that the actions make is one chain, filled.                  *)

Good(l) ==
  /\ l \in Lists
  /\ \A n \in DOMAIN l.nodes : l.nodes[n].data \in Names \union Values
  /\ \E s \in [1 .. l.size -> Nodes] : Chain(l, s)

LEMMA EmptyGood == Good(EmptyList)
<1>. DEFINE h == [n \in {} |-> NULL]
            s == [i \in {} |-> NULL]
<1>1. h \in [{} -> Links]
  OBVIOUS
<1>2. h \in Heaps /\ DOMAIN h = {}
  BY <1>1 DEF Heaps
<1>3. EmptyList = [size |-> 0, first |-> NULL, last |-> NULL, nodes |-> h]
  BY DEF EmptyList
<1>. HIDE DEF h
<1>4. s \in [1 .. 0 -> Nodes] /\ 1 .. 0 = {}
  OBVIOUS
<1>. HIDE DEF s
<1>5. Chain(EmptyList, s)
  BY <1>2, <1>3, <1>4 DEF Chain
<1>. QED  BY <1>2, <1>3, <1>4, <1>5 DEF Good, Lists

LEMMA GrownGood ==
  ASSUME NEW l, Good(l), NEW into, NEW t, NEW n, NEW d \in Names \union Values,
         Grown(l, into, t, n, d)
  PROVE  Good(into)
<1>1. t \in [1 .. into.size -> Nodes]
  BY DEF Grown, Chain
<1>. QED  BY <1>1 DEF Good, Grown

LEMMA PushGood ==
  ASSUME NEW l, Good(l), NEW n \in Malloc(l), NEW d \in Names \union Values
  PROVE  Good(ListPush(l, n, d))
<1>1. CASE n = NULL
  BY <1>1 DEF ListPush
<1>2. CASE n # NULL
  <2>1. PICK s : Chain(l, s)
    BY DEF Good
  <2>2. n \in Nodes /\ n \notin DOMAIN l.nodes
    BY <1>2, MallocFact
  <2>3. Grown(l, ListPush(l, n, d), With(s, l.size, l.size + 1, n), n, d)
    BY <2>1, <2>2, PushChain DEF Datas
  <2>. QED  BY <2>3, GrownGood
<1>. QED  BY <1>1, <1>2

(* Deleting a node leaves a chain; it is filled if the others are.         *)
LEMMA DeleteGood ==
  ASSUME NEW l, NEW s, Chain(l, s), NEW n \in DOMAIN l.nodes,
         \A x \in DOMAIN l.nodes \ {n} : l.nodes[x].data \in Names \union Values
  PROVE  Good(ListDelete(l, n))
<1>1. PICK k \in 1 .. l.size : n = s[k]
  BY DEF Chain
<1>2. /\ Chain(ListDelete(l, n), Without(s, l.size, k))
      /\ ListDelete(l, n) \in Lists
      /\ DOMAIN ListDelete(l, n).nodes = DOMAIN l.nodes \ {n}
      /\ \A x \in DOMAIN l.nodes \ {n} :
           ListDelete(l, n).nodes[x].data = l.nodes[x].data
  BY <1>1, DeleteChain
<1>3. Without(s, l.size, k) \in [1 .. ListDelete(l, n).size -> Nodes]
  BY <1>2 DEF Chain
<1>. QED  BY <1>2, <1>3 DEF Good

LEMMA PopGood ==
  ASSUME NEW l, Good(l)
  PROVE  Good(ListPop(l))
<1>1. PICK s : Chain(l, s)
  BY DEF Good
<1>2. CASE l.size = 0
  <2>1. l.last = NULL
    BY <1>1, <1>2 DEF Chain
  <2>. QED  BY <2>1 DEF ListPop, ListDelete
<1>3. CASE l.size # 0
  <2>1. l.last \in DOMAIN l.nodes
    BY <1>1, <1>3 DEF Chain
  <2>2. \A x \in DOMAIN l.nodes \ {l.last} : l.nodes[x].data \in Names \union Values
    BY DEF Good
  <2>. QED  BY <1>1, <2>1, <2>2, DeleteGood DEF ListPop
<1>. QED  BY <1>2, <1>3

LEMMA InsertBeforeGood ==
  ASSUME NEW l, Good(l), NEW at \in DOMAIN l.nodes, at # l.first,
         NEW n \in Malloc(l), NEW d \in Names \union Values
  PROVE  Good(ListInsertBefore(l, at, n, d))
<1>1. CASE n = NULL
  BY <1>1 DEF ListInsertBefore
<1>2. CASE n # NULL
  <2>1. PICK s : Chain(l, s)
    BY DEF Good
  <2>2. n \in Nodes /\ n \notin DOMAIN l.nodes
    BY <1>2, MallocFact
  <2>3. PICK k \in 1 .. l.size : at = s[k]
    BY <2>1 DEF Chain
  <2>4. k \in 2 .. l.size
    BY <2>1, <2>3 DEF Chain
  <2>5. Grown(l, ListInsertBefore(l, at, n, d), With(s, l.size, k, n), n, d)
    BY <2>1, <2>2, <2>3, <2>4, InsertBeforeChain DEF Datas
  <2>. QED  BY <2>5, GrownGood
<1>. QED  BY <1>1, <1>2

LEMMA InsertAfterGood ==
  ASSUME NEW l, Good(l), NEW at \in DOMAIN l.nodes, at # l.last,
         NEW n \in Malloc(l), NEW d \in Names \union Values
  PROVE  Good(ListInsertAfter(l, at, n, d))
<1>1. CASE n = NULL
  BY <1>1 DEF ListInsertAfter
<1>2. CASE n # NULL
  <2>1. PICK s : Chain(l, s)
    BY DEF Good
  <2>2. n \in Nodes /\ n \notin DOMAIN l.nodes
    BY <1>2, MallocFact
  <2>3. PICK k \in 1 .. l.size : at = s[k]
    BY <2>1 DEF Chain
  <2>4. k + 1 \in 2 .. l.size /\ at = s[(k + 1) - 1]
    BY <2>1, <2>3 DEF Chain
  <2>5. Grown(l, ListInsertAfter(l, at, n, d), With(s, l.size, k + 1, n), n, d)
    BY <2>1, <2>2, <2>4, InsertAfterChain DEF Datas
  <2>. QED  BY <2>5, GrownGood
<1>. QED  BY <1>1, <1>2

(* amf_object_add: what comes of either allocation, and of a value that    *)
(* could not be cloned, is a filled chain.                                 *)
LEMMA AddGood ==
  ASSUME NEW l, Good(l), NEW name \in Names, NEW element \in Values \union {NULL},
         NEW n1 \in Malloc(l), NEW n2 \in Malloc(ListPush(l, n1, name))
  PROVE  Good(ObjectAdd(l, n1, n2, name, element))
<1>. DEFINE named == ListPush(l, n1, name)
            both == ListPush(named, n2, element)
<1>1. Good(named)
  BY PushGood
<1>2. ObjectAdd(l, n1, n2, name, element)
        = IF ~Pushed(n1, name) THEN named
          ELSE IF Pushed(n2, element) THEN both ELSE ListPop(both)
  BY DEF ObjectAdd
<1>. HIDE DEF named
<1>3. n2 \in Malloc(named)
  BY DEF named
<1>4. CASE n2 = NULL
  <2>1. both = named
    BY <1>4 DEF ListPush
  <2>. QED  BY <1>1, <1>2, <1>4, <2>1, PopGood DEF Pushed
<1>5. CASE n2 # NULL /\ element # NULL
  <2>1. Good(both)
    BY <1>1, <1>3, <1>5, PushGood
  <2>. QED  BY <1>1, <1>2, <1>5, <2>1 DEF Pushed
<1>6. CASE n2 # NULL /\ element = NULL
  <2>1. PICK s : Chain(named, s)
    BY <1>1 DEF Good
  <2>2. n2 \in Nodes /\ n2 \notin DOMAIN named.nodes
    BY <1>3, <1>6, MallocFact
  <2>3. element \in Datas
    BY <1>6 DEF Datas
  <2>4. Grown(named, both, With(s, named.size, named.size + 1, n2), n2, element)
    BY <2>1, <2>2, <2>3, PushChain
  <2>5. both.last = n2
    BY <1>6 DEF ListPush
  <2>. HIDE DEF both
  <2>6. \A x \in DOMAIN both.nodes \ {n2} : both.nodes[x].data \in Names \union Values
    BY <1>1, <2>4 DEF Good, Grown
  <2>7. Good(ListDelete(both, n2))
    BY <2>4, <2>6, DeleteGood DEF Grown
  <2>. QED  BY <1>1, <1>2, <1>6, <2>5, <2>7 DEF Pushed, ListPop
<1>. QED  BY <1>4, <1>5, <1>6

(* amf_object_set gives a node other data and touches no link.             *)
LEMMA SetGood ==
  ASSUME NEW l, Good(l), NEW name \in Names, NEW element \in Values
  PROVE  Good(ObjectSet(l, name, element))
<1>. DEFINE i == FirstMatch(Items(l), name)
            x == Walk(l)[i + 1]
            into == [l EXCEPT !.nodes[x].data = element]
<1>1. CASE i = 0
  BY <1>1 DEF ObjectSet
<1>2. CASE i # 0
  <2>1. ObjectSet(l, name, element) = into
    BY <1>2 DEF ObjectSet
  <2>. HIDE DEF x
  <2>2. PICK A \in SUBSET Nodes : l.nodes \in [A -> Links]
    BY DEF Good, Lists, Heaps
  <2>3. /\ into.size = l.size /\ into.first = l.first /\ into.last = l.last
        /\ into.nodes = [l.nodes EXCEPT ![x].data = element]
        /\ into = [size |-> l.size, first |-> l.first, last |-> l.last,
                   nodes |-> [l.nodes EXCEPT ![x].data = element]]
    BY DEF Good, Lists
  <2>. HIDE DEF into
  <2>4. /\ into.nodes \in [A -> Links] /\ DOMAIN l.nodes = A /\ DOMAIN into.nodes = A
        /\ \A n \in A :
             /\ into.nodes[n].next = l.nodes[n].next
             /\ into.nodes[n].prev = l.nodes[n].prev
             /\ into.nodes[n].data \in {l.nodes[n].data, element}
    <3>. DEFINE h == l.nodes
                g == [h EXCEPT ![x].data = element]
    <3>1. h \in [A -> Links] /\ into.nodes = g /\ element \in Datas
      BY <2>2, <2>3 DEF Datas
    <3>. HIDE DEF h
    <3>2. \A n \in A : g[n] = IF n = x THEN [h[n] EXCEPT !.data = element] ELSE h[n]
      BY <3>1
    <3>3. \A n \in A : h[n] \in Links
      BY <3>1
    <3>4. DOMAIN g = A /\ DOMAIN h = A /\ g = [n \in A |-> g[n]]
      BY <3>1
    <3>. HIDE DEF g
    <3>5. ASSUME NEW n \in A
          PROVE  /\ g[n] \in Links /\ g[n].next = h[n].next /\ g[n].prev = h[n].prev
                 /\ g[n].data \in {h[n].data, element}
      <4>1. CASE n = x
        BY <3>1, <3>2, <3>3, <4>1 DEF Links
      <4>2. CASE n # x
        BY <3>2, <3>3, <4>2
      <4>. QED  BY <4>1, <4>2
    <3>6. g \in [A -> Links]
      BY <3>4, <3>5
    <3>. QED  BY <3>1, <3>4, <3>5, <3>6 DEF h
  <2>5. PICK s \in [1 .. l.size -> Nodes] : Chain(l, s)
    BY DEF Good
  <2>6. into.nodes \in Heaps
    BY <2>4 DEF Heaps
  <2>7. Chain(into, s)
    BY <2>3, <2>4, <2>5, <2>6 DEF Chain
  <2>8. into \in Lists
    BY <2>3, <2>6 DEF Good, Lists
  <2>. QED  BY <2>1, <2>3, <2>4, <2>5, <2>7, <2>8 DEF Good
<1>. QED  BY <1>1, <1>2

-----------------------------------------------------------------------------
(* Walking a list.                                                         *)

(* Induction over the naturals, for a set.                                 *)
LEMMA SetInduction ==
  ASSUME NEW S \in SUBSET Nat, 0 \in S, \A n \in S : n + 1 \in S
  PROVE  S = Nat
<1>. DEFINE R == OpToRel(<, Nat)
            T == Nat \ S
<1>1. IsWellFoundedOn(R, Nat)
  BY NatLessThanWellFounded, Zenon
<1>2. ASSUME T # {} PROVE FALSE
  <2>1. \E x \in T : \A y \in T : ~(<<y, x>> \in R)
    <3>1. T \subseteq Nat
      OBVIOUS
    <3>. HIDE DEF R, T
    <3>. QED  BY <1>1, <1>2, <3>1, WFMin
  <2>2. PICK x \in T : \A y \in T : ~(<<y, x>> \in R)
    BY <2>1
  <2>3. \A y \in T : ~(y < x)
    BY <2>2, Zenon DEF OpToRel
  <2>4. x # 0 /\ x - 1 \in Nat
    OBVIOUS
  <2>5. x - 1 \in T
    BY <2>4
  <2>. QED  BY <2>3, <2>4, <2>5
<1>. QED  BY <1>2

(* The size of a list is the number of its nodes.                         *)
LEMMA SizeFact ==
  ASSUME NEW l, NEW s, Chain(l, s)
  PROVE  IsFiniteSet(DOMAIN l.nodes) /\ Cardinality(DOMAIN l.nodes) = l.size
<1>. DEFINE A == DOMAIN l.nodes
            I == 1 .. l.size
<1>1. l.size \in Nat
  BY DEF Chain
<1>2. s \in [I -> A]
  BY DEF Chain
<1>3. IsFiniteSet(I) /\ Cardinality(I) = l.size
  <2>1. 1 \in Int /\ l.size \in Int
    BY <1>1
  <2>2. /\ IsFiniteSet(1 .. l.size)
        /\ Cardinality(1 .. l.size) = IF 1 > l.size THEN 0 ELSE l.size - 1 + 1
    BY ONLY <2>1, FS_Interval
  <2>. QED  BY <1>1, <2>2
<1>4. s \in Bijection(I, A)
  BY <1>2 DEF Chain, Bijection, Injection, Surjection, IsInjective
<1>. HIDE DEF I, A
<1>5. IsFiniteSet(A) /\ Cardinality(A) = Cardinality(I)
  BY <1>3, <1>4, FS_Bijection DEF ExistsBijection
<1>. QED  BY <1>3, <1>5 DEF A

(* Following the next links visits the chain.                              *)
LEMMA WalkFact ==
  ASSUME NEW l, NEW s, Chain(l, s)
  PROVE  Walk(l) = s
<1>. DEFINE N == Cardinality(DOMAIN l.nodes)
            at[i \in 1 .. N] == IF i = 1 THEN l.first ELSE NextOf(l, at[i - 1])
<1>1. Walk(l) = [i \in {j \in DOMAIN at : at[j] # NULL} |-> at[i]]
  BY DEF Walk
<1>2. N = l.size /\ N \in Nat /\ s \in [1 .. N -> Nodes]
  BY SizeFact DEF Chain
<1>. HIDE DEF N
<1>3. \A i \in 1 .. N : s[i] = IF i = 1 THEN l.first ELSE NextOf(l, s[i - 1])
  BY <1>2, AmfConstants DEF Chain, NextOf
<1>4. s = [i \in 1 .. N |-> IF i = 1 THEN l.first ELSE NextOf(l, s[i - 1])]
  BY <1>2, <1>3
<1>5. at = [i \in 1 .. N |-> IF i = 1 THEN l.first ELSE NextOf(l, at[i - 1])]
  BY <1>4
<1>. HIDE DEF at
<1>. DEFINE S == {i \in Nat : i \in 1 .. N => at[i] = s[i]}
<1>6. 0 \in S
  OBVIOUS
<1>7. \A i \in S : i + 1 \in S
  <2>. SUFFICES ASSUME NEW i \in Nat, i \in 1 .. N => at[i] = s[i], i + 1 \in 1 .. N
                PROVE  at[i + 1] = s[i + 1]
    OBVIOUS
  <2>1. at[i + 1] = IF i + 1 = 1 THEN l.first ELSE NextOf(l, at[(i + 1) - 1])
    BY <1>5
  <2>2. CASE i = 0
    BY <1>3, <2>1, <2>2
  <2>3. CASE i # 0
    <3>1. i \in 1 .. N /\ (i + 1) - 1 = i /\ i + 1 # 1
      BY <1>2, <2>3
    <3>. QED  BY <1>3, <2>1, <3>1
  <2>. QED  BY <2>2, <2>3
<1>8. S = Nat
  <2>1. S \in SUBSET Nat
    OBVIOUS
  <2>. HIDE DEF S
  <2>. QED  BY <1>6, <1>7, <2>1, SetInduction
<1>9. \A i \in 1 .. N : at[i] = s[i]
  BY <1>2, <1>8
<1>10. DOMAIN at = 1 .. N
  BY <1>5
<1>11. \A i \in 1 .. N : s[i] # NULL
  BY <1>2, AmfConstants
<1>. QED  BY <1>1, <1>2, <1>9, <1>10, <1>11

(* A filled chain has the right type, and is linked both ways.             *)
LEMMA GoodLinked ==
  ASSUME Good(list)
  PROVE  Linked
<1>1. PICK s : Chain(list, s)
  BY DEF Good
<1>. DEFINE m == list.size
<1>2. Walk(list) = s /\ Cardinality(DOMAIN list.nodes) = m
  BY <1>1, WalkFact, SizeFact
<1>3. m \in Nat /\ s \in [1 .. m -> Nodes]
  BY <1>1 DEF Chain
<1>4. s \in Seq(Nodes) /\ Len(s) = m
  <2>1. s \in Seq(Nodes)
    BY <1>3, IsASeq
  <2>. QED  BY <1>3, <2>1, LenProperties
<1>5. ToSet(s) = DOMAIN list.nodes
  BY <1>1, <1>3 DEF Chain, ToSet
<1>6. list.last = IF s = <<>> THEN NULL ELSE Last(s)
  <2>1. s = <<>> <=> m = 0
    BY <1>3, <1>4
  <2>. QED  BY <1>1, <1>4, <2>1 DEF Chain, Last
<1>7. \A i \in 1 .. m : list.nodes[s[i]].prev = IF i = 1 THEN NULL ELSE s[i - 1]
  BY <1>1 DEF Chain
<1>. QED  BY <1>2, <1>4, <1>5, <1>6, <1>7 DEF Linked

LEMMA GoodNodes ==
  ASSUME Good(list)
  PROVE  LET allocated == DOMAIN list.nodes IN
         /\ allocated \subseteq Nodes
         /\ list.nodes \in [allocated -> [data : Names \union Values,
                                          next : allocated \union {NULL},
                                          prev : allocated \union {NULL}]]
         /\ {list.first, list.last} \subseteq allocated \union {NULL}
         /\ list.size = Cardinality(allocated)
<1>1. PICK s : Chain(list, s)
  BY DEF Good
<1>. DEFINE m == list.size
            h == list.nodes
            A == DOMAIN h
<1>2. m \in Nat /\ s \in [1 .. m -> Nodes] /\ m = Cardinality(A)
  BY <1>1, SizeFact DEF Chain
<1>3. \A i \in 1 .. m : s[i] \in A
  BY <1>1 DEF Chain
<1>4. PICK B \in SUBSET Nodes : h \in [B -> Links]
  BY DEF Good, Lists, Heaps
<1>5. A = B
  BY <1>4
<1>6. ASSUME NEW n \in A
      PROVE  h[n] \in [data : Names \union Values, next : A \union {NULL}, prev : A \union {NULL}]
  <2>1. PICK i \in 1 .. m : s[i] = n
    BY <1>1 DEF Chain
  <2>2. /\ h[n].next = IF i = m THEN NULL ELSE s[i + 1]
        /\ h[n].prev = IF i = 1 THEN NULL ELSE s[i - 1]
    BY <1>1, <2>1 DEF Chain
  <2>3. h[n].next \in A \union {NULL} /\ h[n].prev \in A \union {NULL}
    BY <1>2, <1>3, <2>2
  <2>4. h[n].data \in Names \union Values
    BY DEF Good
  <2>5. h[n] \in Links
    BY <1>4, <1>5
  <2>. QED  BY <2>3, <2>4, <2>5 DEF Links
<1>7. {list.first, list.last} \subseteq A \union {NULL}
  BY <1>1, <1>2, <1>3 DEF Chain
<1>. QED  BY <1>2, <1>4, <1>5, <1>6, <1>7

-----------------------------------------------------------------------------
(* The inductive invariant: types, and a filled chain.                     *)

IInv ==
  /\ Good(list)
  /\ type \in {"ARRAY", "OBJECT"} /\ original \in Originals
  /\ phase \in {"COMPUTING", "MERGING"} /\ merged \in 0 .. Len(original)
  /\ failed \in BOOLEAN

LEMMA OriginalFact ==
  ASSUME original \in Originals
  PROVE  Len(original) \in Nat /\ \A i \in 1 .. Len(original) : original[i] \in Pair
<1>1. PICK n \in 0 .. MaxOriginal : original \in [1 .. n -> Pair]
  BY DEF Originals
<1>2. n \in Nat
  BY AmfConstants
<1>3. original \in Seq(Pair)
  BY <1>1, <1>2, IsASeq
<1>. QED  BY <1>3, LenProperties, ElementOfSeq

LEMMA EmptyOriginal == <<>> \in Originals
<1>1. 0 \in 0 .. MaxOriginal /\ <<>> \in [1 .. 0 -> Pair]
  BY AmfConstants
<1>. QED  BY <1>1 DEF Originals

LEMMA InitInv == Init => IInv
<1>. SUFFICES ASSUME Init PROVE IInv
  OBVIOUS
<1>1. original \in Originals
  BY EmptyOriginal DEF Init
<1>2. merged \in 0 .. Len(original)
  BY <1>1, OriginalFact DEF Init
<1>. QED  BY <1>1, <1>2, EmptyGood DEF Init, IInv

(* An addition keeps the list a filled chain.                              *)
LEMMA AddingGood ==
  ASSUME Good(list), NEW name \in Names, NEW element \in Values \union {NULL},
         Adding(name, element), failed \in BOOLEAN
  PROVE  Good(list)' /\ failed' \in BOOLEAN
<1>1. PICK n1 \in Malloc(list) : \E n2 \in Malloc(ListPush(list, n1, name)) :
        /\ list' = ObjectAdd(list, n1, n2, name, element)
        /\ failed' = (failed \/ n1 = NULL \/ n2 = NULL)
  BY DEF Adding
<1>2. PICK n2 \in Malloc(ListPush(list, n1, name)) :
        /\ list' = ObjectAdd(list, n1, n2, name, element)
        /\ failed' = (failed \/ n1 = NULL \/ n2 = NULL)
  BY <1>1
<1>3. Good(ObjectAdd(list, n1, n2, name, element))
  BY AddGood
<1>4. failed' \in BOOLEAN
  BY <1>2
<1>. QED  BY <1>2, <1>3, <1>4

LEMMA StepInv ==
  ASSUME ~InsertAtEnds, IInv, [Next]_vars
  PROVE  IInv'
<1>. USE DEF IInv
<1>1. CASE ArrayPush
  <2>1. PICK v \in Values, n \in Malloc(list) : list' = ListPush(list, n, v) /\ Failing(n)
    BY <1>1 DEF ArrayPush
  <2>2. Good(ListPush(list, n, v))
    BY PushGood
  <2>3. failed' \in BOOLEAN
    BY <2>1 DEF Failing
  <2>. QED  BY <1>1, <2>1, <2>2, <2>3 DEF ArrayPush, callerVars
<1>2. CASE ArrayPop
  BY <1>2, PopGood DEF ArrayPop, callerVars
<1>3. CASE ArrayDelete
  <2>1. PICK n \in DOMAIN list.nodes : list' = ListDelete(list, n)
    BY <1>3 DEF ArrayDelete
  <2>2. PICK s : Chain(list, s)
    BY DEF Good
  <2>3. Good(ListDelete(list, n))
    BY <2>2, DeleteGood DEF Good
  <2>. QED  BY <1>3, <2>1, <2>3 DEF ArrayDelete, callerVars
<1>4. CASE ArrayInsertBefore
  <2>1. PICK v \in Values, n \in Malloc(list), at \in DOMAIN list.nodes :
          /\ at # list.first
          /\ list' = ListInsertBefore(list, at, n, v) /\ Failing(n)
    BY <1>4 DEF ArrayInsertBefore
  <2>2. Good(ListInsertBefore(list, at, n, v))
    BY <2>1, InsertBeforeGood
  <2>3. failed' \in BOOLEAN
    BY <2>1 DEF Failing
  <2>. QED  BY <1>4, <2>1, <2>2, <2>3 DEF ArrayInsertBefore, callerVars
<1>5. CASE ArrayInsertAfter
  <2>1. PICK v \in Values, n \in Malloc(list), at \in DOMAIN list.nodes :
          /\ at # list.last
          /\ list' = ListInsertAfter(list, at, n, v) /\ Failing(n)
    BY <1>5 DEF ArrayInsertAfter
  <2>2. Good(ListInsertAfter(list, at, n, v))
    BY <2>1, InsertAfterGood
  <2>3. failed' \in BOOLEAN
    BY <2>1 DEF Failing
  <2>. QED  BY <1>5, <2>1, <2>2, <2>3 DEF ArrayInsertAfter, callerVars
<1>6. CASE Add
  <2>1. PICK name \in Names, v \in Values : Adding(name, v)
    BY <1>6 DEF Add
  <2>2. Good(list)' /\ failed' \in BOOLEAN
    BY <2>1, AddingGood
  <2>. QED  BY <1>6, <2>2 DEF Add, callerVars
<1>7. CASE Set
  <2>1. PICK name \in Names, v \in Values : list' = ObjectSet(list, name, v)
    BY <1>7 DEF Set
  <2>2. Good(ObjectSet(list, name, v))
    BY SetGood
  <2>. QED  BY <1>7, <2>1, <2>2 DEF Set, callerVars
<1>8. CASE StartMerge
  BY <1>8 DEF StartMerge
<1>9. CASE Merge
  <2>. DEFINE pair == original[merged + 1]
  <2>1. pair \in Pair /\ Len(original) \in Nat
    BY <1>9, OriginalFact DEF Merge
  <2>2. pair.name \in Names /\ Clone(pair.value) \in Values \union {NULL}
    BY <2>1 DEF Pair, Clone
  <2>3. Good(list)' /\ failed' \in BOOLEAN
    <3>1. CASE ObjectGet(list, pair.name) = NULL
      <4>1. Adding(pair.name, Clone(pair.value))
        BY <1>9, <3>1 DEF Merge
      <4>. QED  BY <2>2, <4>1, AddingGood
    <3>2. CASE ObjectGet(list, pair.name) # NULL
      BY <1>9, <3>2 DEF Merge
    <3>. QED  BY <3>1, <3>2
  <2>4. merged' \in 0 .. Len(original)
    BY <1>9, <2>1 DEF Merge
  <2>. QED  BY <1>9, <2>3, <2>4 DEF Merge
<1>10. CASE UNCHANGED vars
  BY <1>10 DEF vars
<1>. QED  BY <1>1, <1>2, <1>3, <1>4, <1>5, <1>6, <1>7, <1>8, <1>9, <1>10 DEF Next

(* The nodes of a list refer to allocated nodes only, and hold what was    *)
(* put there, also after an addition that failed half way.                 *)
THEOREM AmfTypes ==
  ASSUME ~InsertAtEnds
  PROVE  Spec => []TypeOK
<1>1. IInv => TypeOK
  BY GoodNodes DEF IInv, TypeOK
<1>. QED  BY <1>1, InitInv, StepInv, PTL DEF Spec

(* A list can be walked from its first node to its last through every      *)
(* allocated node, and back the same way: nothing leaks out of it.         *)
THEOREM AmfLinked ==
  ASSUME ~InsertAtEnds
  PROVE  Spec => []Linked
<1>1. IInv => Linked
  BY GoodLinked DEF IInv
<1>. QED  BY <1>1, InitInv, StepInv, PTL DEF Spec

-----------------------------------------------------------------------------
(* The lists implement the arrays and objects of AmfSequence.              *)
Item == Names \union Values

-----------------------------------------------------------------------------
(* Sequences, element by element.                                          *)

(* t is s with the element e put before the element i, or without it.      *)
IsInsertion(S, t, s, i, e) ==
  /\ t \in Seq(S) /\ Len(t) = Len(s) + 1
  /\ \A j \in 1 .. Len(s) + 1 :
       t[j] = IF j < i THEN s[j] ELSE IF j = i THEN e ELSE s[j - 1]
IsRemoval(S, t, s, i) ==
  /\ t \in Seq(S) /\ Len(t) = Len(s) - 1
  /\ \A j \in 1 .. Len(s) - 1 : t[j] = IF j < i THEN s[j] ELSE s[j + 1]

LEMMA SubSeqFact ==
  ASSUME NEW S, NEW s \in Seq(S), NEW m \in 1 .. Len(s) + 1, NEW n \in 0 .. Len(s),
         m <= n + 1
  PROVE  /\ SubSeq(s, m, n) \in Seq(S)
         /\ Len(SubSeq(s, m, n)) = n - m + 1
         /\ \A i \in 1 .. n - m + 1 : SubSeq(s, m, n)[i] = s[m + i - 1]
<1>1. Len(s) \in Nat /\ s \in [1 .. Len(s) -> S]
  BY LenProperties
<1>2. m \in Int /\ n \in Int /\ \A i \in m .. n : s[i] \in S
  BY <1>1
<1>3. /\ SubSeq(s, m, n) \in Seq(S)
      /\ Len(SubSeq(s, m, n)) = IF m <= n THEN n - m + 1 ELSE 0
      /\ \A i \in 1 .. n - m + 1 : SubSeq(s, m, n)[i] = s[m + i - 1]
  BY ONLY <1>2, SubSeqProperties
<1>. QED  BY <1>1, <1>3

LEMMA InsertAtFact ==
  ASSUME NEW S, NEW s \in Seq(S), NEW i \in 1 .. Len(s) + 1, NEW e \in S
  PROVE  IsInsertion(S, InsertAt(s, i, e), s, i, e)
<1>. DEFINE a == SubSeq(s, 1, i - 1)
            b == <<e>>
            c == SubSeq(s, i, Len(s))
            ab == a \o b
            abc == ab \o c
<1>0. Len(s) \in Nat
  OBVIOUS
<1>1. a \in Seq(S) /\ Len(a) = i - 1 /\ \A j \in 1 .. i - 1 : a[j] = s[j]
  <2>1. 1 \in 1 .. Len(s) + 1 /\ i - 1 \in 0 .. Len(s) /\ 1 <= (i - 1) + 1
    BY <1>0
  <2>2. /\ SubSeq(s, 1, i - 1) \in Seq(S)
        /\ Len(SubSeq(s, 1, i - 1)) = (i - 1) - 1 + 1
        /\ \A j \in 1 .. (i - 1) - 1 + 1 : SubSeq(s, 1, i - 1)[j] = s[1 + j - 1]
    BY <2>1, SubSeqFact
  <2>. HIDE DEF a
  <2>. QED  BY <1>0, <2>2 DEF a
<1>2. /\ c \in Seq(S) /\ Len(c) = Len(s) - i + 1
      /\ \A j \in 1 .. Len(s) - i + 1 : c[j] = s[i + j - 1]
  <2>1. Len(s) \in 0 .. Len(s) /\ i <= Len(s) + 1
    BY <1>0
  <2>. QED  BY <2>1, SubSeqFact
<1>3. b \in Seq(S) /\ Len(b) = 1 /\ b[1] = e
  OBVIOUS
<1>4. InsertAt(s, i, e) = abc
  BY DEF InsertAt
<1>. HIDE DEF a, b, c
<1>5. /\ ab \in Seq(S) /\ Len(ab) = i
      /\ \A j \in 1 .. i : ab[j] = IF j < i THEN s[j] ELSE e
  <2>1. /\ ab \in Seq(S) /\ Len(ab) = Len(a) + Len(b)
        /\ \A j \in 1 .. Len(a) + Len(b) :
             ab[j] = IF j <= Len(a) THEN a[j] ELSE b[j - Len(a)]
    BY <1>1, <1>3, ConcatProperties
  <2>. HIDE DEF ab
  <2>. QED  BY <1>0, <1>1, <1>3, <2>1
<1>. HIDE DEF ab
<1>6. /\ abc \in Seq(S) /\ Len(abc) = Len(ab) + Len(c)
      /\ \A j \in 1 .. Len(ab) + Len(c) :
           abc[j] = IF j <= Len(ab) THEN ab[j] ELSE c[j - Len(ab)]
  BY <1>2, <1>5, ConcatProperties
<1>. HIDE DEF abc
<1>7. ASSUME NEW j \in 1 .. Len(s) + 1
      PROVE  abc[j] = IF j < i THEN s[j] ELSE IF j = i THEN e ELSE s[j - 1]
  <2>1. CASE j <= i
    BY <1>0, <1>2, <1>5, <1>6, <2>1
  <2>2. CASE j > i
    <3>1. abc[j] = c[j - i] /\ j - i \in 1 .. Len(s) - i + 1
      BY SMTT(30), <1>0, <1>2, <1>5, <1>6, <2>2
    <3>2. c[j - i] = s[i + (j - i) - 1]
      BY <1>2, <3>1
    <3>3. i + (j - i) - 1 = j - 1
      BY <1>0
    <3>. QED  BY <2>2, <3>1, <3>2, <3>3
  <2>. QED  BY <1>0, <2>1, <2>2
<1>8. Len(abc) = Len(s) + 1
  BY <1>0, <1>2, <1>5, <1>6
<1>. QED  BY <1>4, <1>6, <1>7, <1>8 DEF IsInsertion

LEMMA RemoveAtFact ==
  ASSUME NEW S, NEW s \in Seq(S), NEW i \in 1 .. Len(s)
  PROVE  IsRemoval(S, RemoveAt(s, i), s, i)
<1>. DEFINE a == SubSeq(s, 1, i - 1)
            c == SubSeq(s, i + 1, Len(s))
            ac == a \o c
<1>0. Len(s) \in Nat
  OBVIOUS
<1>1. a \in Seq(S) /\ Len(a) = i - 1 /\ \A j \in 1 .. i - 1 : a[j] = s[j]
  <2>1. 1 \in 1 .. Len(s) + 1 /\ i - 1 \in 0 .. Len(s) /\ 1 <= (i - 1) + 1
    BY <1>0
  <2>2. /\ SubSeq(s, 1, i - 1) \in Seq(S)
        /\ Len(SubSeq(s, 1, i - 1)) = (i - 1) - 1 + 1
        /\ \A j \in 1 .. (i - 1) - 1 + 1 : SubSeq(s, 1, i - 1)[j] = s[1 + j - 1]
    BY <2>1, SubSeqFact
  <2>. HIDE DEF a
  <2>. QED  BY <1>0, <2>2 DEF a
<1>2. /\ c \in Seq(S) /\ Len(c) = Len(s) - i
      /\ \A j \in 1 .. Len(s) - i : c[j] = s[i + j]
  <2>1. i + 1 \in 1 .. Len(s) + 1 /\ Len(s) \in 0 .. Len(s) /\ i + 1 <= Len(s) + 1
    BY <1>0
  <2>2. /\ SubSeq(s, i + 1, Len(s)) \in Seq(S)
        /\ Len(SubSeq(s, i + 1, Len(s))) = Len(s) - (i + 1) + 1
        /\ \A j \in 1 .. Len(s) - (i + 1) + 1 :
             SubSeq(s, i + 1, Len(s))[j] = s[(i + 1) + j - 1]
    BY <2>1, SubSeqFact
  <2>. HIDE DEF c
  <2>3. \A j \in 1 .. Len(s) - i : (i + 1) + j - 1 = i + j
    BY <1>0
  <2>. QED  BY <1>0, <2>2, <2>3 DEF c
<1>3. RemoveAt(s, i) = ac
  BY DEF RemoveAt
<1>. HIDE DEF a, c
<1>4. /\ ac \in Seq(S) /\ Len(ac) = Len(s) - 1
      /\ \A j \in 1 .. Len(s) - 1 :
           ac[j] = IF j <= i - 1 THEN a[j] ELSE c[j - (i - 1)]
  <2>1. /\ ac \in Seq(S) /\ Len(ac) = Len(a) + Len(c)
        /\ \A j \in 1 .. Len(a) + Len(c) :
             ac[j] = IF j <= Len(a) THEN a[j] ELSE c[j - Len(a)]
    BY <1>1, <1>2, ConcatProperties
  <2>2. Len(a) + Len(c) = Len(s) - 1
    BY <1>0, <1>1, <1>2
  <2>. HIDE DEF ac
  <2>. QED  BY <1>1, <2>1, <2>2
<1>. HIDE DEF ac
<1>5. ASSUME NEW j \in 1 .. Len(s) - 1
      PROVE  ac[j] = IF j < i THEN s[j] ELSE s[j + 1]
  <2>1. CASE j < i
    BY <1>0, <1>1, <1>2, <1>4, <2>1
  <2>2. CASE j >= i
    <3>1. ac[j] = c[j - (i - 1)] /\ j - (i - 1) \in 1 .. Len(s) - i
      BY <1>0, <1>1, <1>2, <1>4, <2>2
    <3>2. c[j - (i - 1)] = s[i + (j - (i - 1))]
      BY <1>2, <3>1
    <3>3. i + (j - (i - 1)) = j + 1
      BY <1>0
    <3>. QED  BY <2>2, <3>1, <3>2, <3>3
  <2>. QED  BY <1>0, <2>1, <2>2
<1>. QED  BY <1>3, <1>4, <1>5 DEF IsRemoval

(* Two elements are added one after the other; one is added and taken back. *)
LEMMA InsertTwo ==
  ASSUME NEW S, NEW s \in Seq(S), NEW d \in S, NEW e \in S
  PROVE  InsertAt(InsertAt(s, Len(s) + 1, d), Len(s) + 2, e) = s \o <<d, e>>
<1>. DEFINE n == Len(s)
            one == InsertAt(s, n + 1, d)
            two == InsertAt(one, n + 2, e)
            de == <<d, e>>
            all == s \o de
<1>0. n \in Nat
  OBVIOUS
<1>1. /\ one \in Seq(S) /\ Len(one) = n + 1
      /\ \A j \in 1 .. n + 1 : one[j] = IF j < n + 1 THEN s[j] ELSE d
  <2>1. n + 1 \in 1 .. Len(s) + 1
    BY <1>0
  <2>2. IsInsertion(S, one, s, n + 1, d)
    BY <2>1, InsertAtFact
  <2>. HIDE DEF one
  <2>. QED  BY <1>0, <2>2 DEF IsInsertion
<1>. HIDE DEF one
<1>2. /\ two \in Seq(S) /\ Len(two) = n + 2
      /\ \A j \in 1 .. n + 2 : two[j] = IF j < n + 2 THEN one[j] ELSE e
  <2>1. n + 2 \in 1 .. Len(one) + 1
    BY <1>0, <1>1
  <2>2. IsInsertion(S, two, one, n + 2, e)
    BY <1>1, <2>1, InsertAtFact
  <2>. HIDE DEF two
  <2>. QED  BY <1>0, <1>1, <2>2 DEF IsInsertion
<1>. HIDE DEF two
<1>3. de \in Seq(S) /\ Len(de) = 2 /\ de[1] = d /\ de[2] = e
  OBVIOUS
<1>. HIDE DEF de
<1>4. /\ all \in Seq(S) /\ Len(all) = n + 2
      /\ \A j \in 1 .. n + 2 : all[j] = IF j <= n THEN s[j] ELSE de[j - n]
  <2>1. /\ all \in Seq(S) /\ Len(all) = Len(s) + Len(de)
        /\ \A j \in 1 .. Len(s) + Len(de) :
             all[j] = IF j <= Len(s) THEN s[j] ELSE de[j - Len(s)]
    BY <1>3, ConcatProperties
  <2>. HIDE DEF all
  <2>. QED  BY <1>0, <1>3, <2>1
<1>. HIDE DEF all
<1>5. ASSUME NEW j \in 1 .. n + 2 PROVE two[j] = all[j]
  <2>1. CASE j <= n
    BY <1>0, <1>1, <1>2, <1>4, <2>1
  <2>2. CASE j = n + 1
    BY <1>0, <1>1, <1>2, <1>3, <1>4, <2>2
  <2>3. CASE j = n + 2
    BY <1>0, <1>2, <1>3, <1>4, <2>3
  <2>. QED  BY <1>0, <2>1, <2>2, <2>3
<1>6. two = all
  BY <1>2, <1>4, <1>5, SeqEqual
<1>. QED  BY <1>6 DEF one, two, de, all

LEMMA InsertAndRemove ==
  ASSUME NEW S, NEW s \in Seq(S), NEW d \in S
  PROVE  RemoveAt(InsertAt(s, Len(s) + 1, d), Len(s) + 1) = s
<1>. DEFINE n == Len(s)
            one == InsertAt(s, n + 1, d)
            none == RemoveAt(one, n + 1)
<1>0. n \in Nat
  OBVIOUS
<1>1. /\ one \in Seq(S) /\ Len(one) = n + 1
      /\ \A j \in 1 .. n : one[j] = s[j]
  <2>1. n + 1 \in 1 .. Len(s) + 1
    BY <1>0
  <2>2. IsInsertion(S, one, s, n + 1, d)
    BY <2>1, InsertAtFact
  <2>. HIDE DEF one
  <2>. QED  BY <1>0, <2>2 DEF IsInsertion
<1>. HIDE DEF one
<1>2. /\ none \in Seq(S) /\ Len(none) = n
      /\ \A j \in 1 .. n : none[j] = one[j]
  <2>1. n + 1 \in 1 .. Len(one)
    BY <1>0, <1>1
  <2>2. IsRemoval(S, none, one, n + 1)
    BY <1>1, <2>1, RemoveAtFact
  <2>. HIDE DEF none
  <2>. QED  BY <1>0, <1>1, <2>2 DEF IsRemoval
<1>. HIDE DEF none
<1>3. none = s
  <2>1. Len(none) = Len(s) /\ \A j \in 1 .. Len(none) : none[j] = s[j]
    BY <1>1, <1>2
  <2>. QED  BY <1>2, <2>1, SeqEqual
<1>. QED  BY <1>3 DEF one, none

-----------------------------------------------------------------------------
(* The items of a list are the data along its chain.                       *)

LEMMA ItemsFact ==
  ASSUME NEW l, NEW s, Good(l), Chain(l, s)
  PROVE  /\ Items(l) \in Seq(Item) /\ Len(Items(l)) = l.size /\ l.size \in Nat
         /\ \A i \in 1 .. l.size : Items(l)[i] = l.nodes[s[i]].data
<1>. DEFINE m == l.size
            items == [i \in 1 .. m |-> l.nodes[s[i]].data]
<1>1. m \in Nat /\ s \in [1 .. m -> Nodes] /\ \A i \in 1 .. m : s[i] \in DOMAIN l.nodes
  BY DEF Chain
<1>2. s \in Seq(Nodes) /\ Len(s) = m
  <2>1. s \in Seq(Nodes)
    BY <1>1, IsASeq
  <2>. QED  BY <1>1, <2>1, LenProperties
<1>3. Items(l) = items
  BY <1>2, WalkFact DEF Items
<1>4. \A i \in 1 .. m : l.nodes[s[i]].data \in Item
  BY <1>1 DEF Good, Item
<1>5. items \in [1 .. m -> Item]
  BY <1>4
<1>6. items \in Seq(Item)
  BY <1>1, <1>5
<1>7. Len(items) = m
  BY <1>1, <1>5, <1>6, LenProperties
<1>. QED  BY <1>1, <1>3, <1>6, <1>7

(* Growing the chain at k inserts an item at k.                            *)
LEMMA GrownItems ==
  ASSUME NEW l, NEW s, Good(l), Chain(l, s), NEW k \in 1 .. l.size + 1,
         NEW n, n \notin DOMAIN l.nodes, NEW d \in Item,
         NEW into, Grown(l, into, With(s, l.size, k, n), n, d)
  PROVE  Items(into) = InsertAt(Items(l), k, d)
<1>. DEFINE m == l.size
            t == With(s, m, k, n)
            a == Items(l)
            b == Items(into)
            c == InsertAt(a, k, d)
<1>1. /\ a \in Seq(Item) /\ Len(a) = m /\ m \in Nat
      /\ \A i \in 1 .. m : a[i] = l.nodes[s[i]].data
  BY ItemsFact
<1>2. Good(into)
  BY GrownGood DEF Item
<1>3. Chain(into, t) /\ into.size = m + 1
  BY DEF Grown
<1>4. /\ b \in Seq(Item) /\ Len(b) = m + 1
      /\ \A i \in 1 .. m + 1 : b[i] = into.nodes[t[i]].data
  <2>. HIDE DEF t
  <2>1. /\ b \in Seq(Item) /\ Len(b) = into.size
        /\ \A i \in 1 .. into.size : b[i] = into.nodes[t[i]].data
    BY <1>2, <1>3, ItemsFact
  <2>. HIDE DEF b
  <2>. QED  BY <1>3, <2>1
<1>5. IsInsertion(Item, c, a, k, d)
  <2>. HIDE DEF a
  <2>. QED  BY <1>1, InsertAtFact
<1>. HIDE DEF a, b, c
<1>6. ASSUME NEW i \in 1 .. m + 1 PROVE b[i] = c[i]
  <2>1. t[i] = IF i < k THEN s[i] ELSE IF i = k THEN n ELSE s[i - 1]
    BY <1>1 DEF With
  <2>2. /\ into.nodes[n].data = d
        /\ \A x \in DOMAIN l.nodes : into.nodes[x].data = l.nodes[x].data
    BY DEF Grown
  <2>3. \A j \in 1 .. m : s[j] \in DOMAIN l.nodes
    BY DEF Chain
  <2>. HIDE DEF t
  <2>4. c[i] = IF i < k THEN a[i] ELSE IF i = k THEN d ELSE a[i - 1]
    BY <1>1, <1>5 DEF IsInsertion
  <2>5. CASE i < k
    <3>1. i \in 1 .. m
      BY <1>1, <2>5
    <3>2. b[i] = into.nodes[s[i]].data
      BY <1>4, <2>1, <2>5
    <3>3. into.nodes[s[i]].data = l.nodes[s[i]].data
      BY <2>2, <2>3, <3>1
    <3>4. a[i] = l.nodes[s[i]].data
      BY <1>1, <3>1
    <3>. QED  BY <2>4, <2>5, <3>2, <3>3, <3>4
  <2>6. CASE i = k
    BY <1>1, <1>4, <2>1, <2>2, <2>4, <2>6
  <2>7. CASE i > k
    <3>1. i - 1 \in 1 .. m
      BY <1>1, <2>7
    <3>2. b[i] = into.nodes[s[i - 1]].data
      BY SMTT(30), <1>1, <1>4, <2>1, <2>7
    <3>3. into.nodes[s[i - 1]].data = l.nodes[s[i - 1]].data
      BY <2>2, <2>3, <3>1
    <3>4. a[i - 1] = l.nodes[s[i - 1]].data
      BY <1>1, <3>1
    <3>. QED  BY <1>1, <2>4, <2>7, <3>2, <3>3, <3>4
  <2>. QED  BY <1>1, <2>5, <2>6, <2>7
<1>7. c \in Seq(Item) /\ Len(c) = m + 1
  BY <1>1, <1>5 DEF IsInsertion
<1>8. b = c
  BY <1>4, <1>6, <1>7, SeqEqual
<1>. QED  BY <1>8 DEF a, b, c

(* Deleting the node k of the chain removes the item k.                    *)
LEMMA DeleteItems ==
  ASSUME NEW l, NEW s, Good(l), Chain(l, s), NEW k \in 1 .. l.size
  PROVE  Items(ListDelete(l, s[k])) = RemoveAt(Items(l), k)
<1>. DEFINE m == l.size
            t == Without(s, m, k)
            n == s[k]
            rest == ListDelete(l, n)
            a == Items(l)
            b == Items(rest)
            c == RemoveAt(a, k)
<1>1. /\ a \in Seq(Item) /\ Len(a) = m /\ m \in Nat
      /\ \A i \in 1 .. m : a[i] = l.nodes[s[i]].data
  BY ItemsFact
<1>2. /\ Chain(rest, t) /\ DOMAIN rest.nodes = DOMAIN l.nodes \ {n}
      /\ \A x \in DOMAIN l.nodes \ {n} : rest.nodes[x].data = l.nodes[x].data
  BY DeleteChain
<1>3. n \in DOMAIN l.nodes /\ n # NULL
  BY AmfConstants DEF Chain
<1>4. Good(rest)
  <2>. HIDE DEF n, rest
  <2>1. \A x \in DOMAIN l.nodes \ {n} : l.nodes[x].data \in Names \union Values
    BY DEF Good
  <2>. QED  BY <1>3, <2>1, DeleteGood DEF rest
<1>5. rest.size = m - 1
  BY <1>3 DEF ListDelete
<1>. HIDE DEF rest
<1>6. /\ b \in Seq(Item) /\ Len(b) = m - 1
      /\ \A i \in 1 .. m - 1 : b[i] = rest.nodes[t[i]].data
  <2>. HIDE DEF t
  <2>1. /\ b \in Seq(Item) /\ Len(b) = rest.size
        /\ \A i \in 1 .. rest.size : b[i] = rest.nodes[t[i]].data
    BY <1>2, <1>4, ItemsFact
  <2>. HIDE DEF b
  <2>. QED  BY <1>5, <2>1
<1>7. IsRemoval(Item, c, a, k)
  <2>. HIDE DEF a
  <2>. QED  BY <1>1, RemoveAtFact
<1>. HIDE DEF a, b, c
<1>8. ASSUME NEW i \in 1 .. m - 1 PROVE b[i] = c[i]
  <2>1. t[i] = IF i < k THEN s[i] ELSE s[i + 1]
    BY <1>1 DEF Without
  <2>2. \A j \in 1 .. m : s[j] \in DOMAIN l.nodes /\ (s[j] = n <=> j = k)
    BY DEF Chain
  <2>. HIDE DEF t, n
  <2>3. c[i] = IF i < k THEN a[i] ELSE a[i + 1]
    BY <1>1, <1>7 DEF IsRemoval
  <2>4. CASE i < k
    <3>1. i \in 1 .. m /\ i # k
      BY <1>1, <2>4
    <3>2. b[i] = rest.nodes[s[i]].data
      BY <1>6, <2>1, <2>4
    <3>3. rest.nodes[s[i]].data = l.nodes[s[i]].data
      BY <1>2, <2>2, <3>1
    <3>4. a[i] = l.nodes[s[i]].data
      BY <1>1, <3>1
    <3>. QED  BY <2>3, <2>4, <3>2, <3>3, <3>4
  <2>5. CASE i >= k
    <3>1. i + 1 \in 1 .. m /\ i + 1 # k
      BY <1>1, <2>5
    <3>2. b[i] = rest.nodes[s[i + 1]].data
      BY SMTT(30), <1>1, <1>6, <2>1, <2>5
    <3>3. rest.nodes[s[i + 1]].data = l.nodes[s[i + 1]].data
      BY <1>2, <2>2, <3>1
    <3>4. a[i + 1] = l.nodes[s[i + 1]].data
      BY <1>1, <3>1
    <3>. QED  BY <1>1, <2>3, <2>5, <3>2, <3>3, <3>4
  <2>. QED  BY <1>1, <2>4, <2>5
<1>9. c \in Seq(Item) /\ Len(c) = m - 1
  BY <1>1, <1>7 DEF IsRemoval
<1>10. b = c
  BY <1>6, <1>8, <1>9, SeqEqual
<1>. QED  BY <1>10 DEF a, b, c, rest

LEMMA PushItems ==
  ASSUME NEW l, Good(l), NEW n \in Malloc(l), n # NULL, NEW d \in Item
  PROVE  Items(ListPush(l, n, d)) = InsertAt(Items(l), Len(Items(l)) + 1, d)
<1>1. PICK s : Chain(l, s)
  BY DEF Good
<1>2. n \in Nodes /\ n \notin DOMAIN l.nodes
  BY MallocFact
<1>3. Grown(l, ListPush(l, n, d), With(s, l.size, l.size + 1, n), n, d)
  BY <1>1, <1>2, PushChain DEF Datas, Item
<1>4. Len(Items(l)) = l.size /\ l.size + 1 \in 1 .. l.size + 1
  BY <1>1, ItemsFact
<1>. QED  BY <1>1, <1>2, <1>3, <1>4, GrownItems

(* Popping takes the last item away, if any.                               *)
LEMMA PopItems ==
  ASSUME NEW l, Good(l)
  PROVE  IF Len(Items(l)) = 0 THEN ListPop(l) = l
         ELSE Items(ListPop(l)) = RemoveAt(Items(l), Len(Items(l)))
<1>1. PICK s : Chain(l, s)
  BY DEF Good
<1>2. Len(Items(l)) = l.size /\ l.size \in Nat
  BY <1>1, ItemsFact
<1>3. CASE l.size = 0
  <2>1. l.last = NULL
    BY <1>1, <1>3 DEF Chain
  <2>. QED  BY <1>2, <1>3, <2>1 DEF ListPop, ListDelete
<1>4. CASE l.size # 0
  <2>1. l.last = s[l.size] /\ l.size \in 1 .. l.size
    BY <1>1, <1>2, <1>4 DEF Chain
  <2>2. Items(ListDelete(l, s[l.size])) = RemoveAt(Items(l), l.size)
    BY <1>1, <2>1, DeleteItems
  <2>. QED  BY <1>2, <1>4, <2>1, <2>2 DEF ListPop
<1>. QED  BY <1>3, <1>4

(* An addition is whole or does not take place.                            *)
LEMMA AddItems ==
  ASSUME NEW l, Good(l), NEW name \in Names, NEW v \in Values,
         NEW n1 \in Malloc(l), NEW n2 \in Malloc(ListPush(l, n1, name))
  PROVE  Items(ObjectAdd(l, n1, n2, name, v))
           = IF n1 = NULL \/ n2 = NULL THEN Items(l) ELSE Items(l) \o <<name, v>>
<1>. DEFINE named == ListPush(l, n1, name)
            both == ListPush(named, n2, v)
            a == Items(l)
<1>1. Good(named)
  BY PushGood
<1>2. ObjectAdd(l, n1, n2, name, v)
        = IF ~Pushed(n1, name) THEN named
          ELSE IF Pushed(n2, v) THEN both ELSE ListPop(both)
  BY DEF ObjectAdd
<1>3. name # NULL /\ v # NULL /\ name \in Item /\ v \in Item
  BY AmfConstants DEF Item
<1>4. CASE n1 = NULL
  BY <1>2, <1>4 DEF Pushed, ListPush
<1>5. CASE n1 # NULL
  <2>1. Items(named) = InsertAt(a, Len(a) + 1, name)
    BY <1>3, <1>5, PushItems
  <2>2. PICK s : Chain(l, s)
    BY DEF Good
  <2>3. a \in Seq(Item) /\ Len(a) \in Nat
    BY <2>2, ItemsFact
  <2>4. n2 \in Malloc(named)
    OBVIOUS
  <2>. HIDE DEF named, a
  <2>5. IsInsertion(Item, Items(named), a, Len(a) + 1, name)
    <3>1. Len(a) + 1 \in 1 .. Len(a) + 1
      BY <2>3
    <3>. QED  BY <1>3, <2>1, <2>3, <3>1, InsertAtFact
  <2>6. Len(Items(named)) = Len(a) + 1
    BY <2>5 DEF IsInsertion
  <2>7. CASE n2 = NULL
    <3>1. both = named
      BY <2>7 DEF ListPush
    <3>2. ObjectAdd(l, n1, n2, name, v) = ListPop(named)
      BY <1>2, <1>3, <1>5, <2>7, <3>1 DEF Pushed
    <3>3. Items(ListPop(named)) = RemoveAt(Items(named), Len(a) + 1)
      BY <1>1, <2>3, <2>6, PopItems
    <3>4. RemoveAt(InsertAt(a, Len(a) + 1, name), Len(a) + 1) = a
      BY <1>3, <2>3, InsertAndRemove
    <3>. QED  BY <2>1, <2>7, <3>2, <3>3, <3>4 DEF a
  <2>8. CASE n2 # NULL
    <3>1. Items(both) = InsertAt(Items(named), Len(Items(named)) + 1, v)
      BY <1>1, <1>3, <2>4, <2>8, PushItems
    <3>2. Len(Items(named)) + 1 = Len(a) + 2
      BY <2>3, <2>6
    <3>3. InsertAt(InsertAt(a, Len(a) + 1, name), Len(a) + 2, v) = a \o <<name, v>>
      BY <1>3, <2>3, InsertTwo
    <3>4. ObjectAdd(l, n1, n2, name, v) = both
      BY <1>2, <1>3, <1>5, <2>8 DEF Pushed
    <3>. QED  BY <1>5, <2>1, <2>8, <3>1, <3>2, <3>3, <3>4 DEF a
  <2>. QED  BY <2>7, <2>8
<1>. QED  BY <1>4, <1>5

(* Setting replaces one item.                                              *)
LEMMA SetItems ==
  ASSUME NEW l, Good(l), NEW name \in Names, NEW v \in Values,
         NEW i, i = FirstMatch(Items(l), name), i # 0, i + 1 \in 1 .. Len(Items(l))
  PROVE  Items(ObjectSet(l, name, v)) = ReplaceAt(Items(l), i + 1, v)
<1>1. PICK s \in [1 .. l.size -> Nodes] : Chain(l, s)
  BY DEF Good
<1>. DEFINE m == l.size
            k == i + 1
            x == s[k]
            h == l.nodes
            into == [l EXCEPT !.nodes[x].data = v]
            a == Items(l)
            b == Items(into)
            c == ReplaceAt(a, k, v)
<1>2. /\ a \in Seq(Item) /\ Len(a) = m /\ m \in Nat
      /\ \A j \in 1 .. m : a[j] = h[s[j]].data
  BY <1>1, ItemsFact
<1>3. k \in 1 .. m /\ x \in DOMAIN h
  BY <1>1, <1>2 DEF Chain
<1>4. ObjectSet(l, name, v) = into
  <2>1. Walk(l) = s
    BY <1>1, WalkFact
  <2>. QED  BY <2>1 DEF ObjectSet
<1>5. Good(into)
  BY <1>4, SetGood
<1>6. PICK A \in SUBSET Nodes : h \in [A -> Links]
  BY DEF Good, Lists, Heaps
<1>7. /\ into.size = m
      /\ into.nodes = [h EXCEPT ![x].data = v]
      /\ into.first = l.first /\ into.last = l.last
  BY DEF Good, Lists
<1>. HIDE DEF into, x, h
<1>8. /\ DOMAIN into.nodes = DOMAIN h
      /\ \A n \in DOMAIN h : into.nodes[n] = IF n = x THEN [h[n] EXCEPT !.data = v] ELSE h[n]
  BY <1>6, <1>7
<1>9. \A n \in DOMAIN h : h[n] \in Links
  BY <1>6
<1>10. \A n \in DOMAIN h :
         /\ into.nodes[n].data = IF n = x THEN v ELSE h[n].data
         /\ into.nodes[n].next = h[n].next /\ into.nodes[n].prev = h[n].prev
  <2>. TAKE n \in DOMAIN h
  <2>1. CASE n = x
    BY <1>8, <1>9, <2>1 DEF Links
  <2>2. CASE n # x
    BY <1>8, <2>2
  <2>. QED  BY <2>1, <2>2
<1>11. Chain(into, s)
  <2>1. into.nodes \in Heaps
    BY <1>5 DEF Good, Lists
  <2>. QED  BY SMTT(30), <1>1, <1>7, <1>8, <1>10, <2>1 DEF Chain, h
<1>12. /\ b \in Seq(Item) /\ Len(b) = m
       /\ \A j \in 1 .. m : b[j] = into.nodes[s[j]].data
  <2>1. /\ b \in Seq(Item) /\ Len(b) = into.size
        /\ \A j \in 1 .. into.size : b[j] = into.nodes[s[j]].data
    BY <1>5, <1>11, ItemsFact
  <2>. HIDE DEF b
  <2>. QED  BY <1>7, <2>1
<1>13. /\ c \in Seq(Item) /\ Len(c) = m
       /\ \A j \in 1 .. m : c[j] = IF j = k THEN v ELSE a[j]
  <2>1. v \in Item /\ k \in 1 .. Len(a)
    BY <1>2, <1>3 DEF Item
  <2>2. c = [a EXCEPT ![k] = v]
    BY DEF ReplaceAt
  <2>. HIDE DEF a, c, k
  <2>. QED  BY <1>2, <2>1, <2>2, ExceptSeq
<1>. HIDE DEF a, b, c
<1>14. ASSUME NEW j \in 1 .. m PROVE b[j] = c[j]
  <2>1. s[j] \in DOMAIN h /\ (s[j] = x <=> j = k)
    BY <1>1, <1>3 DEF Chain, h, x
  <2>. HIDE DEF k
  <2>. QED  BY <1>2, <1>10, <1>12, <1>13, <2>1
<1>15. b = c
  BY <1>12, <1>13, <1>14, SeqEqual
<1>. QED  BY <1>4, <1>15 DEF a, b, c

-----------------------------------------------------------------------------
(* Objects hold names, each followed by its value.                         *)

Pairs(a) ==
  /\ Len(a) % 2 = 0
  /\ \A i \in 1 .. Len(a) : a[i] \in IF i % 2 = 1 THEN Names ELSE Values

LEMMA MinFact ==
  ASSUME NEW S \in SUBSET Nat, S # {}
  PROVE  Min(S) \in S /\ \A y \in S : Min(S) <= y
<1>. DEFINE R == OpToRel(<, Nat)
<1>1. IsWellFoundedOn(R, Nat)
  BY NatLessThanWellFounded, Zenon
<1>2. \E x \in S : \A y \in S : ~(<<y, x>> \in R)
  <2>. HIDE DEF R
  <2>. QED  BY <1>1, WFMin
<1>3. PICK x \in S : \A y \in S : ~(y < x)
  <2>1. PICK x \in S : \A y \in S : ~(<<y, x>> \in R)
    BY <1>2
  <2>2. \A y \in S : ~(y < x)
    BY <2>1, Zenon DEF OpToRel
  <2>. QED  BY <2>2
<1>4. \A y \in S : x <= y
  BY <1>3
<1>. QED  BY <1>4 DEF Min

(* The first name that matches is followed by a value, and is the one that *)
(* AmfSequence speaks of.                                                  *)
LEMMA FirstMatchFact ==
  ASSUME NEW a \in Seq(Item), Pairs(a), NEW name \in Names
  PROVE  LET i == FirstMatch(a, name) IN
         /\ i = Promise!FirstMatch(a, name)
         /\ i # 0 => i \in Nat /\ i % 2 = 1 /\ i + 1 \in 1 .. Len(a)
<1>. DEFINE hits == {i \in NamePositions(a) : Matches(a[i], name)}
            all == {i \in 1 .. Len(a) : Promise!Matches(a[i], name)}
<1>1. FirstMatch(a, name) = IF hits = {} THEN 0 ELSE Min(hits)
  BY DEF FirstMatch
<1>2. Promise!FirstMatch(a, name) = IF all # {} THEN Min(all) ELSE 0
  BY DEF Promise!FirstMatch, Promise!SelectInSeq, Promise!Min, Min
<1>3. hits = all
  <2>1. \A i \in 1 .. Len(a) : a[i] \in Names => i % 2 = 1
    BY AmfConstants DEF Pairs
  <2>2. \A i \in 1 .. Len(a) : Matches(a[i], name) <=> Promise!Matches(a[i], name)
    BY DEF Matches, Promise!Matches, IsPrefix, Promise!IsPrefix
  <2>3. \A i \in 1 .. Len(a) : Matches(a[i], name) => a[i] \in Names
    BY DEF Matches
  <2>. QED  BY <2>1, <2>2, <2>3 DEF NamePositions
<1>4. hits # {} => Min(hits) \in hits
  <2>1. hits \in SUBSET Nat
    BY DEF NamePositions
  <2>. HIDE DEF hits
  <2>. QED  BY <2>1, MinFact
<1>5. \A i \in hits : i \in 1 .. Len(a) /\ i % 2 = 1
  BY DEF NamePositions
<1>6. \A i \in hits : i \in Nat /\ i % 2 = 1 /\ i + 1 \in 1 .. Len(a)
  BY <1>5 DEF Pairs
<1>7. FirstMatch(a, name) # 0 => FirstMatch(a, name) \in hits
  BY <1>1, <1>4
<1>. HIDE DEF hits, all
<1>. QED  BY <1>1, <1>2, <1>3, <1>6, <1>7

(* The steps of an object keep its pairs.                                  *)
LEMMA AddedItems ==
  ASSUME NEW a \in Seq(Item), NEW name \in Names, NEW v \in Values
  PROVE  LET c == a \o <<name, v>>  n == Len(a) IN
         /\ n \in Nat /\ c \in Seq(Item) /\ Len(c) = n + 2
         /\ c[n + 1] = name /\ c[n + 2] = v /\ \A j \in 1 .. n : c[j] = a[j]
<1>. DEFINE n == Len(a)
            b == <<name, v>>
            c == a \o b
<1>1. b \in Seq(Item) /\ Len(b) = 2 /\ b[1] = name /\ b[2] = v /\ n \in Nat
  BY DEF Item
<1>. HIDE DEF b
<1>2. /\ c \in Seq(Item) /\ Len(c) = n + 2
      /\ \A j \in 1 .. n + 2 : c[j] = IF j <= n THEN a[j] ELSE b[j - n]
  <2>1. /\ c \in Seq(Item) /\ Len(c) = Len(a) + Len(b)
        /\ \A j \in 1 .. Len(a) + Len(b) :
             c[j] = IF j <= Len(a) THEN a[j] ELSE b[j - Len(a)]
    BY <1>1, ConcatProperties
  <2>. HIDE DEF c
  <2>. QED  BY <1>1, <2>1
<1>. HIDE DEF c, n
<1>3. c[n + 1] = name
  BY <1>1, <1>2
<1>4. c[n + 2] = v
  BY <1>1, <1>2
<1>5. \A j \in 1 .. n : c[j] = a[j]
  BY <1>1, <1>2
<1>. QED  BY <1>1, <1>2, <1>3, <1>4, <1>5 DEF c, b, n

LEMMA AddedPairs ==
  ASSUME NEW a \in Seq(Item), Pairs(a), NEW name \in Names, NEW v \in Values
  PROVE  Pairs(a \o <<name, v>>)
<1>. DEFINE n == Len(a)
            c == a \o <<name, v>>
<1>1. /\ n \in Nat /\ Len(c) = n + 2
      /\ c[n + 1] = name /\ c[n + 2] = v /\ \A j \in 1 .. n : c[j] = a[j]
  BY AddedItems
<1>. HIDE DEF c
<1>2. n % 2 = 0 /\ \A i \in 1 .. n : a[i] \in IF i % 2 = 1 THEN Names ELSE Values
  BY DEF Pairs
<1>. HIDE DEF n
<1>3. (n + 2) % 2 = 0 /\ (n + 1) % 2 = 1
  BY <1>1, <1>2
<1>4. ASSUME NEW j \in 1 .. n + 2
      PROVE  c[j] \in IF j % 2 = 1 THEN Names ELSE Values
  <2>1. CASE j <= n
    BY <1>1, <1>2, <2>1
  <2>2. CASE j = n + 1
    BY <1>1, <1>3, <2>2
  <2>3. CASE j = n + 2
    BY <1>1, <1>3, <2>3
  <2>. QED  BY <1>1, <2>1, <2>2, <2>3
<1>5. Pairs(c)
  BY <1>1, <1>3, <1>4 DEF Pairs
<1>. QED  BY <1>5 DEF c

LEMMA ReplacedPairs ==
  ASSUME NEW a \in Seq(Item), Pairs(a), NEW i \in Nat, i % 2 = 1, i + 1 \in 1 .. Len(a),
         NEW v \in Values
  PROVE  Pairs(ReplaceAt(a, i + 1, v))
<1>. DEFINE c == ReplaceAt(a, i + 1, v)
<1>1. v \in Item /\ c = [a EXCEPT ![i + 1] = v]
  BY DEF ReplaceAt, Item
<1>. HIDE DEF c
<1>2. Len(c) = Len(a) /\ \A j \in 1 .. Len(a) : c[j] = IF j = i + 1 THEN v ELSE a[j]
  BY <1>1, ExceptSeq
<1>3. (i + 1) % 2 # 1
  OBVIOUS
<1>. QED  BY <1>2, <1>3 DEF Pairs, c

-----------------------------------------------------------------------------
(* Every step of the lists is a step of AmfSequence or leaves the items.   *)

PairsInv ==
  /\ IInv
  /\ phase = "MERGING" => type = "OBJECT"
  /\ type = "OBJECT" => Pairs(Items(list))

Simulated ==
  \/ Items(list)' = Items(list)
  \/ type = "ARRAY" /\ Items(list)' \in Promise!Inserted(Items(list))
  \/ type = "ARRAY" /\ Items(list)' \in Promise!Deleted(Items(list))
  \/ type = "OBJECT" /\ Items(list)' \in Promise!Added(Items(list))
  \/ type = "OBJECT" /\ Items(list)' \in Promise!Replaced(Items(list))

LEMMA GoodItems ==
  ASSUME NEW l, Good(l)
  PROVE  Items(l) \in Seq(Item) /\ Len(Items(l)) \in Nat
<1>1. PICK s : Chain(l, s)
  BY DEF Good
<1>. QED  BY <1>1, ItemsFact

LEMMA InsertedStep ==
  ASSUME NEW a \in Seq(Item), NEW k \in 1 .. Len(a) + 1, NEW v \in Values
  PROVE  InsertAt(a, k, v) \in Promise!Inserted(a)
<1>1. InsertAt(a, k, v) = Promise!InsertAt(a, k, v)
  BY DEF Promise!InsertAt, InsertAt
<1>. QED  BY <1>1 DEF Promise!Inserted

LEMMA DeletedStep ==
  ASSUME NEW a \in Seq(Item), NEW k \in 1 .. Len(a)
  PROVE  RemoveAt(a, k) \in Promise!Deleted(a)
<1>1. RemoveAt(a, k) = Promise!RemoveAt(a, k)
  BY DEF Promise!RemoveAt, RemoveAt
<1>. QED  BY <1>1 DEF Promise!Deleted

LEMMA ArrayPushStep ==
  ASSUME Good(list), ArrayPush
  PROVE  Simulated
<1>1. PICK v \in Values, n \in Malloc(list) : list' = ListPush(list, n, v)
  BY DEF ArrayPush
<1>2. CASE n = NULL
  BY <1>1, <1>2 DEF ListPush, Simulated
<1>3. CASE n # NULL
  <2>1. v \in Item
    BY DEF Item
  <2>2. Items(ListPush(list, n, v)) = InsertAt(Items(list), Len(Items(list)) + 1, v)
    BY <1>3, <2>1, PushItems
  <2>3. Items(list) \in Seq(Item) /\ Len(Items(list)) + 1 \in 1 .. Len(Items(list)) + 1
    BY GoodItems
  <2>4. Items(ListPush(list, n, v)) \in Promise!Inserted(Items(list))
    BY <2>2, <2>3, InsertedStep
  <2>. QED  BY <1>1, <2>4 DEF Simulated, ArrayPush
<1>. QED  BY <1>2, <1>3

LEMMA ArrayPopStep ==
  ASSUME Good(list), ArrayPop
  PROVE  Simulated
<1>1. list' = ListPop(list) /\ type = "ARRAY"
  BY DEF ArrayPop
<1>2. Items(list) \in Seq(Item) /\ Len(Items(list)) \in Nat
  BY GoodItems
<1>3. CASE Len(Items(list)) = 0
  <2>1. ListPop(list) = list
    BY <1>3, PopItems
  <2>. QED  BY <1>1, <2>1 DEF Simulated
<1>4. CASE Len(Items(list)) # 0
  <2>1. Items(ListPop(list)) = RemoveAt(Items(list), Len(Items(list)))
    BY <1>4, PopItems
  <2>2. Len(Items(list)) \in 1 .. Len(Items(list))
    BY <1>2, <1>4
  <2>3. Items(ListPop(list)) \in Promise!Deleted(Items(list))
    BY <1>2, <2>1, <2>2, DeletedStep
  <2>. QED  BY <1>1, <2>3 DEF Simulated
<1>. QED  BY <1>3, <1>4

LEMMA ArrayDeleteStep ==
  ASSUME Good(list), ArrayDelete
  PROVE  Simulated
<1>1. PICK n \in DOMAIN list.nodes : list' = ListDelete(list, n)
  BY DEF ArrayDelete
<1>2. PICK s : Chain(list, s)
  BY DEF Good
<1>3. PICK k \in 1 .. list.size : s[k] = n
  BY <1>2 DEF Chain
<1>4. Items(ListDelete(list, n)) = RemoveAt(Items(list), k)
  BY <1>2, <1>3, DeleteItems
<1>5. Items(list) \in Seq(Item) /\ k \in 1 .. Len(Items(list))
  BY <1>2, ItemsFact
<1>6. Items(ListDelete(list, n)) \in Promise!Deleted(Items(list))
  BY <1>4, <1>5, DeletedStep
<1>. QED  BY <1>1, <1>6 DEF Simulated, ArrayDelete

LEMMA InsertBeforeStep ==
  ASSUME ~InsertAtEnds, Good(list), ArrayInsertBefore
  PROVE  Simulated
<1>1. PICK v \in Values, n \in Malloc(list), at \in DOMAIN list.nodes :
        at # list.first /\ list' = ListInsertBefore(list, at, n, v)
  BY DEF ArrayInsertBefore
<1>2. CASE n = NULL
  BY <1>1, <1>2 DEF ListInsertBefore, Simulated
<1>3. CASE n # NULL
  <2>1. PICK s : Chain(list, s)
    BY DEF Good
  <2>2. PICK k \in 1 .. list.size : at = s[k]
    BY <2>1 DEF Chain
  <2>3. k \in 2 .. list.size /\ k \in 1 .. list.size + 1
    BY <1>1, <2>1, <2>2 DEF Chain
  <2>4. n \in Nodes /\ n \notin DOMAIN list.nodes
    BY <1>3, MallocFact
  <2>5. v \in Item /\ v \in Datas
    BY DEF Item, Datas
  <2>6. Grown(list, ListInsertBefore(list, at, n, v), With(s, list.size, k, n), n, v)
    BY <2>1, <2>2, <2>3, <2>4, <2>5, InsertBeforeChain
  <2>7. Items(ListInsertBefore(list, at, n, v)) = InsertAt(Items(list), k, v)
    BY <2>1, <2>3, <2>4, <2>5, <2>6, GrownItems
  <2>8. Items(list) \in Seq(Item) /\ k \in 1 .. Len(Items(list)) + 1
    BY <2>1, <2>3, ItemsFact
  <2>9. Items(ListInsertBefore(list, at, n, v)) \in Promise!Inserted(Items(list))
    BY <2>7, <2>8, InsertedStep
  <2>. QED  BY <1>1, <2>9 DEF Simulated, ArrayInsertBefore
<1>. QED  BY <1>2, <1>3

LEMMA InsertAfterStep ==
  ASSUME ~InsertAtEnds, Good(list), ArrayInsertAfter
  PROVE  Simulated
<1>1. PICK v \in Values, n \in Malloc(list), at \in DOMAIN list.nodes :
        at # list.last /\ list' = ListInsertAfter(list, at, n, v)
  BY DEF ArrayInsertAfter
<1>2. CASE n = NULL
  BY <1>1, <1>2 DEF ListInsertAfter, Simulated
<1>3. CASE n # NULL
  <2>1. PICK s : Chain(list, s)
    BY DEF Good
  <2>2. PICK j \in 1 .. list.size : at = s[j]
    BY <2>1 DEF Chain
  <2>. DEFINE k == j + 1
  <2>3. k \in 2 .. list.size /\ k \in 1 .. list.size + 1 /\ at = s[k - 1]
    BY <1>1, <2>1, <2>2 DEF Chain
  <2>. HIDE DEF k
  <2>4. n \in Nodes /\ n \notin DOMAIN list.nodes
    BY <1>3, MallocFact
  <2>5. v \in Item /\ v \in Datas
    BY DEF Item, Datas
  <2>6. Grown(list, ListInsertAfter(list, at, n, v), With(s, list.size, k, n), n, v)
    BY <2>1, <2>3, <2>4, <2>5, InsertAfterChain
  <2>7. Items(ListInsertAfter(list, at, n, v)) = InsertAt(Items(list), k, v)
    BY <2>1, <2>3, <2>4, <2>5, <2>6, GrownItems
  <2>8. Items(list) \in Seq(Item) /\ k \in 1 .. Len(Items(list)) + 1
    BY <2>1, <2>3, ItemsFact
  <2>9. Items(ListInsertAfter(list, at, n, v)) \in Promise!Inserted(Items(list))
    BY <2>7, <2>8, InsertedStep
  <2>. QED  BY <1>1, <2>9 DEF Simulated, ArrayInsertAfter
<1>. QED  BY <1>2, <1>3

(* What an addition to an object, by Add or by Merge, leads to.            *)
LEMMA AddingStep ==
  ASSUME Good(list), type = "OBJECT", Pairs(Items(list)),
         NEW name \in Names, NEW v \in Values, Adding(name, v)
  PROVE  Simulated /\ Pairs(Items(list)')
<1>1. PICK n1 \in Malloc(list) : \E n2 \in Malloc(ListPush(list, n1, name)) :
        list' = ObjectAdd(list, n1, n2, name, v)
  BY DEF Adding
<1>2. PICK n2 \in Malloc(ListPush(list, n1, name)) :
        list' = ObjectAdd(list, n1, n2, name, v)
  BY <1>1
<1>3. Items(ObjectAdd(list, n1, n2, name, v)) \in {Items(list), Items(list) \o <<name, v>>}
  BY AddItems
<1>4. Items(list)' \in {Items(list), Items(list) \o <<name, v>>}
  BY <1>2, <1>3
<1>5. Items(list) \o <<name, v>> \in Promise!Added(Items(list))
  BY DEF Promise!Added
<1>6. Pairs(Items(list) \o <<name, v>>)
  BY GoodItems, AddedPairs
<1>. HIDE DEF Simulated
<1>. QED  BY <1>4, <1>5, <1>6 DEF Simulated

LEMMA SetStep ==
  ASSUME Good(list), Pairs(Items(list)), Set
  PROVE  Simulated /\ Pairs(Items(list)')
<1>1. PICK name \in Names, v \in Values : list' = ObjectSet(list, name, v)
  BY DEF Set
<1>. DEFINE a == Items(list)
            i == FirstMatch(a, name)
<1>2. a \in Seq(Item)
  BY GoodItems
<1>3. CASE i = 0
  <2>1. list' = list
    BY <1>1, <1>3 DEF ObjectSet
  <2>. QED  BY <2>1 DEF Simulated
<1>4. CASE i # 0
  <2>1. i = Promise!FirstMatch(a, name) /\ i \in Nat /\ i % 2 = 1 /\ i + 1 \in 1 .. Len(a)
    <3>. HIDE DEF a
    <3>1. Pairs(a)
      BY DEF a
    <3>. QED  BY <1>2, <1>4, <3>1, FirstMatchFact
  <2>2. Items(ObjectSet(list, name, v)) = ReplaceAt(a, i + 1, v)
    BY <1>4, <2>1, SetItems
  <2>3. Items(list)' = ReplaceAt(a, i + 1, v)
    BY <1>1, <2>2
  <2>4. Pairs(ReplaceAt(a, i + 1, v))
    <3>. HIDE DEF a, i
    <3>1. Pairs(a)
      BY DEF a
    <3>. QED  BY <1>2, <2>1, <3>1, ReplacedPairs
  <2>5. ReplaceAt(a, i + 1, v) \in Promise!Replaced(a)
    <3>1. i \in {Promise!FirstMatch(a, nm) : nm \in Names} \ {0}
      BY <1>4, <2>1
    <3>. HIDE DEF a, i
    <3>. QED  BY <3>1 DEF Promise!Replaced, Promise!ReplaceAt, ReplaceAt
  <2>. QED  BY <2>3, <2>4, <2>5 DEF Simulated, Set
<1>. QED  BY <1>3, <1>4

LEMMA MergeStep ==
  ASSUME Unclonable = {}, IInv, type = "OBJECT", Pairs(Items(list)), Merge
  PROVE  Simulated /\ Pairs(Items(list)')
<1>. DEFINE pair == original[merged + 1]
<1>1. pair \in Pair
  BY OriginalFact DEF IInv, Merge
<1>2. pair.name \in Names /\ pair.value \in Values /\ Clone(pair.value) = pair.value
  BY <1>1 DEF Pair, Clone
<1>3. CASE ObjectGet(list, pair.name) = NULL
  <2>1. Adding(pair.name, pair.value)
    BY <1>2, <1>3 DEF Merge
  <2>2. Good(list)
    BY DEF IInv
  <2>. HIDE DEF pair
  <2>. QED  BY <1>2, <2>1, <2>2, AddingStep
<1>4. CASE ObjectGet(list, pair.name) # NULL
  <2>1. list' = list
    BY <1>4 DEF Merge
  <2>. QED  BY <2>1 DEF Simulated
<1>. QED  BY <1>3, <1>4

LEMMA InitPairs == Init => PairsInv /\ Promise!Init
<1>. SUFFICES ASSUME Init PROVE PairsInv /\ Promise!Init
  OBVIOUS
<1>1. IInv
  BY InitInv
<1>2. PICK s : Chain(list, s)
  BY <1>1 DEF IInv, Good
<1>3. list.size = 0
  BY DEF Init, EmptyList
<1>4. Items(list) \in Seq(Item) /\ Len(Items(list)) = 0
  BY <1>1, <1>2, <1>3, ItemsFact DEF IInv
<1>5. Items(list) = <<>>
  BY <1>4
<1>6. Pairs(Items(list))
  BY <1>4 DEF Pairs
<1>7. type \in {"ARRAY", "OBJECT"} /\ phase # "MERGING"
  BY DEF Init
<1>. QED  BY <1>1, <1>5, <1>6, <1>7 DEF PairsInv, Promise!Init

LEMMA StepSimulated ==
  ASSUME ~InsertAtEnds, Unclonable = {}, PairsInv, [Next]_vars
  PROVE  PairsInv' /\ [Promise!Next]_<<type, Items(list)>>
<1>1. IInv /\ Good(list) /\ type \in {"ARRAY", "OBJECT"}
  BY DEF PairsInv, IInv
<1>2. IInv'
  BY <1>1, StepInv
<1>3. type' = type
  BY DEF Next, ArrayPush, ArrayPop, ArrayDelete, ArrayInsertBefore, ArrayInsertAfter,
         Add, Set, StartMerge, Merge, callerVars, vars
<1>4. phase' = "MERGING" => type = "OBJECT"
  BY DEF Next, ArrayPush, ArrayPop, ArrayDelete, ArrayInsertBefore, ArrayInsertAfter,
         Add, Set, StartMerge, Merge, callerVars, vars, PairsInv
<1>5. Simulated /\ (type = "OBJECT" => Pairs(Items(list)'))
  <2>1. CASE ArrayPush
    BY <1>1, <2>1, ArrayPushStep DEF ArrayPush
  <2>2. CASE ArrayPop
    BY <1>1, <2>2, ArrayPopStep DEF ArrayPop
  <2>3. CASE ArrayDelete
    BY <1>1, <2>3, ArrayDeleteStep DEF ArrayDelete
  <2>4. CASE ArrayInsertBefore
    BY <1>1, <2>4, InsertBeforeStep DEF ArrayInsertBefore
  <2>5. CASE ArrayInsertAfter
    BY <1>1, <2>5, InsertAfterStep DEF ArrayInsertAfter
  <2>6. CASE Add
    <3>1. PICK name \in Names, v \in Values : Adding(name, v)
      BY <2>6 DEF Add
    <3>2. type = "OBJECT" /\ Pairs(Items(list))
      BY <2>6 DEF Add, PairsInv
    <3>. QED  BY <1>1, <3>1, <3>2, AddingStep
  <2>7. CASE Set
    BY <1>1, <2>7, SetStep DEF Set, PairsInv
  <2>8. CASE Merge
    BY <1>1, <2>8, MergeStep DEF Merge, PairsInv
  <2>9. CASE StartMerge \/ UNCHANGED vars
    <3>1. list' = list
      BY <2>9 DEF StartMerge, vars
    <3>. QED  BY <3>1 DEF Simulated, PairsInv
  <2>. QED  BY <2>1, <2>2, <2>3, <2>4, <2>5, <2>6, <2>7, <2>8, <2>9 DEF Next
<1>6. PairsInv'
  BY <1>2, <1>3, <1>4, <1>5 DEF PairsInv
<1>7. [Promise!Next]_<<type, Items(list)>>
  BY <1>1, <1>3, <1>5 DEF Simulated, Promise!Next
<1>. QED  BY <1>6, <1>7

(* An object holds names, each followed by its value: no step, also of an  *)
(* addition that failed half way, leaves a name without one.               *)
THEOREM ObjectsHoldPairs ==
  ASSUME ~InsertAtEnds, Unclonable = {}
  PROVE  Spec => [](type = "OBJECT" => Pairs(Items(list)))
<1>1. PairsInv => (type = "OBJECT" => Pairs(Items(list)))
  BY DEF PairsInv
<1>. QED  BY <1>1, InitPairs, StepSimulated, PTL DEF Spec

(* The lists of amf.c, whichever allocation fails, implement the arrays    *)
(* and objects of AmfSequence.                                             *)
THEOREM AmfImplements ==
  ASSUME ~InsertAtEnds, Unclonable = {}
  PROVE  Spec => ArraysAndObjects
BY InitPairs, StepSimulated, PTL DEF Spec, ArraysAndObjects, Promise!Spec
-----------------------------------------------------------------------------
(* The first name that matches, in an object that grows.                   *)

LEMMA PrefixFact ==
  ASSUME NEW S, NEW s \in Seq(S), NEW t \in Seq(S)
  PROVE  IsPrefix(s, t) <=> Len(s) <= Len(t) /\ \A i \in 1 .. Len(s) : s[i] = t[i]
<1>. DEFINE a == SubSeq(s, 1, Len(s))
            b == SubSeq(t, 1, Len(s))
<1>1. Len(s) \in Nat /\ Len(t) \in Nat
  OBVIOUS
<1>2. CASE ~(Len(s) <= Len(t))
  BY <1>2 DEF IsPrefix
<1>3. CASE Len(s) <= Len(t)
  <2>1. a \in Seq(S) /\ Len(a) = Len(s) /\ \A i \in 1 .. Len(s) : a[i] = s[i]
    <3>1. 1 \in 1 .. Len(s) + 1 /\ Len(s) \in 0 .. Len(s) /\ 1 <= Len(s) + 1
      BY <1>1
    <3>2. /\ a \in Seq(S) /\ Len(a) = Len(s) - 1 + 1
          /\ \A i \in 1 .. Len(s) - 1 + 1 : a[i] = s[1 + i - 1]
      BY <3>1, SubSeqFact
    <3>. HIDE DEF a
    <3>. QED  BY <1>1, <3>2
  <2>2. b \in Seq(S) /\ Len(b) = Len(s) /\ \A i \in 1 .. Len(s) : b[i] = t[i]
    <3>1. 1 \in 1 .. Len(t) + 1 /\ Len(s) \in 0 .. Len(t) /\ 1 <= Len(s) + 1
      BY <1>1, <1>3
    <3>2. /\ b \in Seq(S) /\ Len(b) = Len(s) - 1 + 1
          /\ \A i \in 1 .. Len(s) - 1 + 1 : b[i] = t[1 + i - 1]
      BY <3>1, SubSeqFact
    <3>. HIDE DEF b
    <3>. QED  BY <1>1, <3>2
  <2>3. IsPrefix(s, t) <=> a = b
    BY <1>3 DEF IsPrefix
  <2>. HIDE DEF a, b
  <2>4. (\A i \in 1 .. Len(s) : s[i] = t[i]) => a = b
    <3>. SUFFICES ASSUME \A i \in 1 .. Len(s) : s[i] = t[i] PROVE a = b
      OBVIOUS
    <3>1. Len(a) = Len(b) /\ \A i \in 1 .. Len(a) : a[i] = b[i]
      BY <2>1, <2>2
    <3>. QED  BY <2>1, <2>2, <3>1, SeqEqual
  <2>5. a = b => \A i \in 1 .. Len(s) : s[i] = t[i]
    BY <2>1, <2>2
  <2>. QED  BY <1>3, <2>3, <2>4, <2>5
<1>. QED  BY <1>2, <1>3

(* A name is matched by what it begins with, itself and what that begins   *)
(* with.                                                                   *)
LEMMA MatchesFact ==
  /\ \A x \in Names : Matches(x, x)
  /\ \A x, y, z \in Names : Matches(x, y) /\ Matches(y, z) => Matches(x, z)
<1>. DEFINE S == UNION {ToSet(name) : name \in Names}
<1>1. \A x \in Names : x \in Seq(S)
  BY AmfConstants
<1>. HIDE DEF S
<1>2. \A x \in Names : Matches(x, x)
  BY <1>1, PrefixFact DEF Matches
<1>3. ASSUME NEW x \in Names, NEW y \in Names, NEW z \in Names, Matches(x, y), Matches(y, z)
      PROVE  Matches(x, z)
  <2>1. x \in Seq(S) /\ y \in Seq(S) /\ z \in Seq(S)
    BY <1>1
  <2>2. /\ Len(x) <= Len(y) /\ \A i \in 1 .. Len(x) : x[i] = y[i]
        /\ Len(y) <= Len(z) /\ \A i \in 1 .. Len(y) : y[i] = z[i]
    BY <1>3, <2>1, PrefixFact DEF Matches
  <2>3. Len(x) \in Nat /\ Len(y) \in Nat /\ Len(z) \in Nat
    BY <2>1
  <2>4. Len(x) <= Len(z) /\ \A i \in 1 .. Len(x) : x[i] = z[i]
    BY <2>2, <2>3
  <2>. QED  BY <2>1, <2>4, PrefixFact DEF Matches
<1>. QED  BY <1>2, <1>3

(* i is the position of the first name of a that matches, or 0.            *)
FirstAt(a, name, i) ==
  \/ i = 0 /\ \A j \in NamePositions(a) : ~Matches(a[j], name)
  \/ /\ i \in NamePositions(a) /\ Matches(a[i], name)
     /\ \A j \in NamePositions(a) : Matches(a[j], name) => i <= j

LEMMA FirstMatchIs ==
  ASSUME NEW a \in Seq(Item), NEW name \in Names, NEW i
  PROVE  FirstAt(a, name, i) <=> i = FirstMatch(a, name)
<1>. DEFINE hits == {j \in NamePositions(a) : Matches(a[j], name)}
            first == FirstMatch(a, name)
<1>1. \A j \in NamePositions(a) : j \in Nat /\ j # 0
  BY DEF NamePositions
<1>2. FirstAt(a, name, first)
  <2>1. first = IF hits = {} THEN 0 ELSE Min(hits)
    BY DEF FirstMatch
  <2>2. hits \in SUBSET Nat
    BY <1>1
  <2>3. CASE hits = {}
    <3>. HIDE DEF first
    <3>. QED  BY <2>1, <2>3 DEF FirstAt
  <2>4. CASE hits # {}
    <3>. HIDE DEF hits
    <3>1. Min(hits) \in hits /\ \A j \in hits : Min(hits) <= j
      BY <2>2, <2>4, MinFact
    <3>. HIDE DEF first
    <3>2. first \in hits /\ \A j \in hits : first <= j
      BY <2>1, <2>4, <3>1
    <3>. QED  BY <3>2 DEF FirstAt, hits
  <2>. QED  BY <2>3, <2>4
<1>. HIDE DEF first
<1>3. ASSUME FirstAt(a, name, i) PROVE i = first
  <2>1. CASE i = 0 \/ first = 0
    BY <1>1, <1>2, <1>3, <2>1 DEF FirstAt
  <2>2. CASE i # 0 /\ first # 0
    BY <1>1, <1>2, <1>3, <2>2 DEF FirstAt
  <2>. QED  BY <2>1, <2>2
<1>. QED  BY <1>2, <1>3 DEF first

(* A name is found when it is matched, and then with a value.              *)
LEMMA LookupFact ==
  ASSUME NEW a \in Seq(Item), Pairs(a), NEW name \in Names
  PROVE  LET i == FirstMatch(a, name) IN
         /\ i = 0 => Lookup(a, name) = NULL
         /\ i # 0 => /\ i \in NamePositions(a) /\ i + 1 \in 1 .. Len(a) /\ a[i] \in Names
                     /\ Lookup(a, name) = a[i + 1] /\ a[i + 1] \in Values
                     /\ Lookup(a, name) # NULL
<1>. DEFINE i == FirstMatch(a, name)
<1>1. i # 0 => i \in Nat /\ i % 2 = 1 /\ i + 1 \in 1 .. Len(a)
  BY FirstMatchFact
<1>2. Lookup(a, name) = IF i = 0 \/ i = Len(a) THEN NULL ELSE a[i + 1]
  BY DEF Lookup
<1>3. Len(a) \in Nat
  OBVIOUS
<1>. HIDE DEF i
<1>4. ASSUME i # 0
      PROVE  /\ i \in NamePositions(a) /\ i + 1 \in 1 .. Len(a) /\ a[i] \in Names
             /\ Lookup(a, name) = a[i + 1] /\ a[i + 1] \in Values
             /\ Lookup(a, name) # NULL
  <2>1. i \in 1 .. Len(a) /\ i # Len(a) /\ i % 2 = 1 /\ (i + 1) % 2 # 1 /\ i + 1 \in 1 .. Len(a)
    BY <1>1, <1>3, <1>4
  <2>2. a[i] \in Names /\ a[i + 1] \in Values
    BY <2>1 DEF Pairs
  <2>3. Lookup(a, name) = a[i + 1]
    BY <1>2, <1>4, <2>1
  <2>. QED  BY <2>1, <2>2, <2>3, AmfConstants DEF NamePositions
<1>. QED  BY <1>2, <1>4 DEF i

LEMMA AddedMatch ==
  ASSUME NEW a \in Seq(Item), Pairs(a), NEW n \in Names, NEW v \in Values,
         NEW name \in Names
  PROVE  LET b == a \o <<n, v>>  old == FirstMatch(a, name) IN
         FirstMatch(b, name) = IF old # 0 THEN old
                               ELSE IF Matches(n, name) THEN Len(a) + 1 ELSE 0
<1>. DEFINE m == Len(a)
            b == a \o <<n, v>>
            old == FirstMatch(a, name)
            new == IF old # 0 THEN old ELSE IF Matches(n, name) THEN m + 1 ELSE 0
<1>1. /\ b \in Seq(Item) /\ m \in Nat
      /\ Len(b) = m + 2 /\ b[m + 1] = n /\ \A j \in 1 .. m : b[j] = a[j]
  BY AddedItems
<1>2. m % 2 = 0 /\ (m + 1) % 2 = 1 /\ (m + 2) % 2 = 0
  <2>1. m % 2 = 0
    BY DEF Pairs
  <2>. HIDE DEF m
  <2>. QED  BY <1>1, <2>1
<1>3. FirstAt(a, name, old)
  BY FirstMatchIs
<1>. HIDE DEF b
<1>4. NamePositions(b) = NamePositions(a) \union {m + 1}
  <2>1. NamePositions(a) = {j \in 1 .. m : j % 2 = 1}
    BY DEF NamePositions
  <2>2. NamePositions(b) = {j \in 1 .. m + 2 : j % 2 = 1}
    BY <1>1 DEF NamePositions
  <2>. HIDE DEF m
  <2>. QED  BY SMTT(30), <1>1, <1>2, <2>1, <2>2
<1>5. \A j \in NamePositions(a) : j \in 1 .. m
  BY DEF NamePositions
<1>6. \A j \in NamePositions(a) : b[j] = a[j] /\ j <= m /\ j \in Nat
  BY <1>1, <1>5
<1>. HIDE DEF old, m
<1>7. FirstAt(b, name, new)
  <2>1. CASE old # 0
    BY <1>1, <1>3, <1>4, <1>6, <2>1 DEF FirstAt
  <2>2. CASE old = 0
    <3>1. \A j \in NamePositions(a) : ~Matches(b[j], name)
      BY <1>3, <1>6, <2>2 DEF FirstAt, NamePositions
    <3>2. \A j \in NamePositions(b) : Matches(b[j], name) => j = m + 1
      BY <1>4, <3>1
    <3>. QED  BY <1>1, <1>4, <2>2, <3>2 DEF FirstAt
  <2>. QED  BY <2>1, <2>2
<1>8. new = FirstMatch(b, name)
  BY <1>1, <1>7, FirstMatchIs
<1>. QED  BY <1>8 DEF b, old, m

LEMMA AddedLookup ==
  ASSUME NEW a \in Seq(Item), Pairs(a), NEW n \in Names, NEW v \in Values,
         NEW name \in Names
  PROVE  Lookup(a \o <<n, v>>, name) = IF Lookup(a, name) # NULL THEN Lookup(a, name)
                                       ELSE IF Matches(n, name) THEN v ELSE NULL
<1>. DEFINE m == Len(a)
            b == a \o <<n, v>>
            old == FirstMatch(a, name)
            new == FirstMatch(b, name)
<1>1. /\ b \in Seq(Item) /\ m \in Nat
      /\ b[m + 2] = v /\ \A j \in 1 .. m : b[j] = a[j]
  BY AddedItems
<1>2. Pairs(b)
  BY AddedPairs
<1>3. new = IF old # 0 THEN old ELSE IF Matches(n, name) THEN m + 1 ELSE 0
  BY AddedMatch
<1>4. /\ old = 0 => Lookup(a, name) = NULL
      /\ old # 0 => /\ old + 1 \in 1 .. m
                    /\ Lookup(a, name) = a[old + 1] /\ Lookup(a, name) # NULL
  BY LookupFact
<1>. HIDE DEF b
<1>5. /\ new = 0 => Lookup(b, name) = NULL
      /\ new # 0 => Lookup(b, name) = b[new + 1]
  BY <1>1, <1>2, LookupFact
<1>. HIDE DEF old, new, m
<1>6. CASE old # 0
  <2>1. b[old + 1] = a[old + 1]
    BY <1>1, <1>4, <1>6
  <2>. QED  BY <1>3, <1>4, <1>5, <1>6, <2>1 DEF b
<1>7. CASE old = 0 /\ Matches(n, name)
  <2>1. new = m + 1 /\ new # 0 /\ new + 1 = m + 2
    BY <1>1, <1>3, <1>7
  <2>. QED  BY <1>1, <1>4, <1>5, <1>7, <2>1 DEF b
<1>8. CASE old = 0 /\ ~Matches(n, name)
  BY <1>3, <1>4, <1>5, <1>8 DEF b
<1>. QED  BY <1>6, <1>7, <1>8

-----------------------------------------------------------------------------
(* The merge (info.c:659-674): the names that are found, and with what,    *)
(* are those of the object as it was computed, followed by the pairs of    *)
(* the original visited so far.                                            *)

Both(n) == computed \o OriginalItems(n)
SameFound(a, b) == \A name \in Names : Lookup(a, name) = Lookup(b, name)
NothingHidden(a, from) ==
  \A i \in NamePositions(a) : i > from => FirstMatch(a, a[i]) = i
VisitedFound(a, n) == \A i \in 1 .. n : FirstMatch(a, original[i].name) # 0

MergeInv ==
  /\ PairsInv
  /\ phase = "COMPUTING" => merged = 0
  /\ phase = "MERGING" => computed \in Seq(Item) /\ Pairs(computed)
  /\ phase = "MERGING" /\ ~failed =>
       /\ Pairs(Both(merged)) /\ SameFound(Items(list), Both(merged))
       /\ NothingHidden(Items(list), Len(computed))
       /\ VisitedFound(Items(list), merged)

LEMMA OriginalItemsFact ==
  ASSUME original \in Originals, NEW n \in 0 .. Len(original)
  PROVE  /\ OriginalItems(n) \in Seq(Item) /\ Len(OriginalItems(n)) = 2 * n
         /\ \A i \in 1 .. 2 * n :
              OriginalItems(n)[i] = IF i % 2 = 1 THEN original[(i + 1) \div 2].name
                                    ELSE original[(i + 1) \div 2].value
<1>. DEFINE m == 2 * n
            s == OriginalItems(n)
            item(i) == IF i % 2 = 1 THEN original[(i + 1) \div 2].name
                       ELSE original[(i + 1) \div 2].value
<1>1. Len(original) \in Nat /\ \A i \in 1 .. Len(original) : original[i] \in Pair
  BY OriginalFact
<1>2. m \in Nat
  BY <1>1
<1>3. s = [i \in 1 .. m |-> item(i)]
  BY DEF OriginalItems
<1>4. ASSUME NEW i \in 1 .. m PROVE item(i) \in Item
  <2>1. (i + 1) \div 2 \in 1 .. Len(original)
    BY <1>1
  <2>2. original[(i + 1) \div 2].name \in Names /\ original[(i + 1) \div 2].value \in Values
    BY <1>1, <2>1 DEF Pair
  <2>. QED  BY <2>2 DEF Item
<1>. HIDE DEF s, m, item
<1>5. s \in [1 .. m -> Item]
  BY <1>3, <1>4
<1>6. s \in Seq(Item) /\ Len(s) = m
  BY <1>2, <1>5, IsASeq, LenProperties
<1>. QED  BY <1>3, <1>6 DEF s, m, item

LEMMA NoOriginalItems ==
  ASSUME original \in Originals
  PROVE  OriginalItems(0) = <<>>
<1>1. 0 \in 0 .. Len(original)
  BY OriginalFact
<1>2. OriginalItems(0) \in Seq(Item) /\ Len(OriginalItems(0)) = 0
  BY <1>1, OriginalItemsFact
<1>. QED  BY <1>2

LEMMA BothFact ==
  ASSUME original \in Originals, computed \in Seq(Item), NEW n \in 0 .. Len(original),
         NEW m, m = Len(computed)
  PROVE  /\ Both(n) \in Seq(Item) /\ Len(Both(n)) = m + 2 * n
         /\ \A i \in 1 .. m + 2 * n :
              Both(n)[i] = IF i <= m THEN computed[i] ELSE OriginalItems(n)[i - m]
<1>. DEFINE s == OriginalItems(n)
            b == computed \o s
<1>1. s \in Seq(Item) /\ Len(s) = 2 * n
  BY OriginalItemsFact
<1>2. Both(n) = b
  BY DEF Both
<1>. HIDE DEF s
<1>3. /\ b \in Seq(Item) /\ Len(b) = Len(computed) + Len(s)
      /\ \A i \in 1 .. Len(computed) + Len(s) :
           b[i] = IF i <= Len(computed) THEN computed[i] ELSE s[i - Len(computed)]
  BY <1>1, ConcatProperties
<1>. HIDE DEF b
<1>. QED  BY <1>1, <1>2, <1>3 DEF s

LEMMA BothNext ==
  ASSUME original \in Originals, computed \in Seq(Item),
         NEW n \in Nat, n < Len(original)
  PROVE  /\ Both(n) \in Seq(Item)
         /\ Both(n + 1) = Both(n) \o <<original[n + 1].name, original[n + 1].value>>
<1>. DEFINE k == Len(computed)
            s == OriginalItems(n)
            t == OriginalItems(n + 1)
            name == original[n + 1].name
            value == original[n + 1].value
            b == Both(n)
            c == Both(n + 1)
            d == b \o <<name, value>>
<1>1. Len(original) \in Nat /\ original[n + 1] \in Pair /\ k \in Nat
  BY OriginalFact
<1>2. name \in Names /\ value \in Values
  BY <1>1 DEF Pair
<1>3. /\ s \in Seq(Item) /\ Len(s) = 2 * n
      /\ \A i \in 1 .. 2 * n : s[i] = IF i % 2 = 1 THEN original[(i + 1) \div 2].name
                                      ELSE original[(i + 1) \div 2].value
  <2>1. n \in 0 .. Len(original)
    BY <1>1
  <2>. QED  BY <2>1, OriginalItemsFact
<1>4. /\ t \in Seq(Item) /\ Len(t) = 2 * n + 2
      /\ \A i \in 1 .. 2 * n + 2 : t[i] = IF i % 2 = 1 THEN original[(i + 1) \div 2].name
                                          ELSE original[(i + 1) \div 2].value
  <2>1. n + 1 \in 0 .. Len(original) /\ 2 * (n + 1) = 2 * n + 2
    BY <1>1
  <2>2. /\ t \in Seq(Item) /\ Len(t) = 2 * (n + 1)
        /\ \A i \in 1 .. 2 * (n + 1) : t[i] = IF i % 2 = 1 THEN original[(i + 1) \div 2].name
                                              ELSE original[(i + 1) \div 2].value
    BY <2>1, OriginalItemsFact
  <2>. HIDE DEF t
  <2>. QED  BY <2>1, <2>2
<1>5. t[2 * n + 1] = name /\ t[2 * n + 2] = value
  <2>1. /\ 2 * n + 1 \in 1 .. 2 * n + 2 /\ 2 * n + 2 \in 1 .. 2 * n + 2
        /\ (2 * n + 1) % 2 = 1 /\ (2 * n + 2) % 2 # 1
        /\ ((2 * n + 1) + 1) \div 2 = n + 1 /\ ((2 * n + 2) + 1) \div 2 = n + 1
    OBVIOUS
  <2>. HIDE DEF t
  <2>. QED  BY <1>4, <2>1
<1>6. ASSUME NEW i \in 1 .. 2 * n PROVE t[i] = s[i]
  <2>1. i \in 1 .. 2 * n + 2
    OBVIOUS
  <2>. HIDE DEF s, t
  <2>. QED  BY <1>3, <1>4, <2>1
<1>7. /\ b \in Seq(Item) /\ Len(b) = k + 2 * n
      /\ \A i \in 1 .. k + 2 * n : b[i] = IF i <= k THEN computed[i] ELSE s[i - k]
  <2>1. n \in 0 .. Len(original)
    BY <1>1
  <2>. QED  BY <2>1, BothFact
<1>8. /\ c \in Seq(Item) /\ Len(c) = k + 2 * (n + 1)
      /\ \A i \in 1 .. k + 2 * (n + 1) : c[i] = IF i <= k THEN computed[i] ELSE t[i - k]
  <2>1. n + 1 \in 0 .. Len(original)
    BY <1>1
  <2>. QED  BY <2>1, BothFact
<1>. HIDE DEF s, t, k
<1>. HIDE DEF b, c, name, value
<1>9. /\ d \in Seq(Item) /\ Len(d) = Len(b) + 2
      /\ d[Len(b) + 1] = name /\ d[Len(b) + 2] = value
      /\ \A i \in 1 .. Len(b) : d[i] = b[i]
  BY <1>2, <1>7, AddedItems
<1>. HIDE DEF d
<1>10. Len(c) = Len(d) /\ Len(c) \in Nat
  BY <1>1, <1>7, <1>8, <1>9
<1>11. ASSUME NEW i \in 1 .. Len(c) PROVE c[i] = d[i]
  <2>1. CASE i <= k
    <3>1. i \in 1 .. k + 2 * n /\ i \in 1 .. k + 2 * (n + 1)
      BY <1>1, <1>8, <2>1
    <3>2. c[i] = computed[i] /\ b[i] = computed[i]
      BY <1>7, <1>8, <2>1, <3>1
    <3>3. d[i] = b[i]
      BY <1>7, <1>9, <3>1
    <3>. QED  BY <3>2, <3>3
  <2>2. CASE i > k /\ i <= k + 2 * n
    <3>1. c[i] = t[i - k] /\ i - k \in 1 .. 2 * n
      BY <1>1, <1>8, <2>2
    <3>2. d[i] = b[i] /\ b[i] = s[i - k]
      BY <1>1, <1>7, <1>9, <2>2
    <3>. QED  BY <1>6, <3>1, <3>2
  <2>3. CASE i = k + 2 * n + 1
    <3>1. c[i] = t[i - k] /\ i - k = 2 * n + 1
      BY <1>1, <1>8, <2>3
    <3>. QED  BY <1>5, <1>7, <1>9, <2>3, <3>1
  <2>4. CASE i = k + 2 * n + 2
    <3>1. c[i] = t[i - k] /\ i - k = 2 * n + 2
      BY <1>1, <1>8, <2>4
    <3>. QED  BY <1>5, <1>7, <1>9, <2>4, <3>1
  <2>. QED  BY <1>1, <1>8, <2>1, <2>2, <2>3, <2>4
<1>12. c = d
  BY <1>8, <1>9, <1>10, <1>11, SeqEqual
<1>. QED  BY <1>7, <1>12 DEF b, c, d, name, value

(* A pair that is added, because its name is not found, is found in both.  *)
LEMMA MergeAdds ==
  ASSUME NEW a \in Seq(Item), Pairs(a), NEW b \in Seq(Item), Pairs(b), SameFound(a, b),
         NEW n \in Names, NEW v \in Values
  PROVE  SameFound(a \o <<n, v>>, b \o <<n, v>>)
<1>. SUFFICES ASSUME NEW name \in Names
              PROVE  Lookup(a \o <<n, v>>, name) = Lookup(b \o <<n, v>>, name)
  BY DEF SameFound
<1>1. Lookup(a, name) = Lookup(b, name)
  BY DEF SameFound
<1>. QED  BY <1>1, AddedLookup

(* A pair that is passed over would have been found by nobody: the name    *)
(* that stands for its own stands for all that it matches.                 *)
LEMMA MergePasses ==
  ASSUME NEW a \in Seq(Item), Pairs(a), NEW b \in Seq(Item), Pairs(b), SameFound(a, b),
         NEW n \in Names, NEW v \in Values, Lookup(a, n) # NULL
  PROVE  SameFound(a, b \o <<n, v>>)
<1>. SUFFICES ASSUME NEW name \in Names
              PROVE  Lookup(a, name) = Lookup(b \o <<n, v>>, name)
  BY DEF SameFound
<1>1. Lookup(a, name) = Lookup(b, name)
  BY DEF SameFound
<1>2. Lookup(b \o <<n, v>>, name) = IF Lookup(b, name) # NULL THEN Lookup(b, name)
                                    ELSE IF Matches(n, name) THEN v ELSE NULL
  BY AddedLookup
<1>3. ASSUME Matches(n, name) PROVE Lookup(a, name) # NULL
  <2>. DEFINE i == FirstMatch(a, n)
              j == FirstMatch(a, name)
  <2>1. i \in NamePositions(a) /\ a[i] \in Names
    BY LookupFact
  <2>2. FirstAt(a, n, i) /\ FirstAt(a, name, j)
    BY FirstMatchIs
  <2>3. j # 0 => Lookup(a, name) # NULL
    BY LookupFact
  <2>. HIDE DEF i, j
  <2>4. i # 0 /\ Matches(a[i], n)
    BY <2>1, <2>2 DEF FirstAt, NamePositions
  <2>5. Matches(a[i], name)
    BY <1>3, <2>1, <2>4, MatchesFact
  <2>6. j # 0
    BY <2>1, <2>2, <2>5 DEF FirstAt, NamePositions
  <2>. QED  BY <2>3, <2>6
<1>. QED  BY <1>1, <1>2, <1>3

(* The name added hides behind no other, and hides none.                   *)
LEMMA MergeShows ==
  ASSUME NEW a \in Seq(Item), Pairs(a), NEW from \in Nat, NothingHidden(a, from),
         NEW n \in Names, NEW v \in Values, Lookup(a, n) = NULL
  PROVE  NothingHidden(a \o <<n, v>>, from)
<1>. DEFINE m == Len(a)
            b == a \o <<n, v>>
<1>1. /\ b \in Seq(Item) /\ m \in Nat
      /\ Len(b) = m + 2 /\ b[m + 1] = n /\ \A j \in 1 .. m : b[j] = a[j]
  BY AddedItems
<1>2. FirstMatch(a, n) = 0
  BY LookupFact
<1>3. \A name \in Names :
        FirstMatch(b, name) = IF FirstMatch(a, name) # 0 THEN FirstMatch(a, name)
                              ELSE IF Matches(n, name) THEN m + 1 ELSE 0
  BY AddedMatch
<1>4. m % 2 = 0
  BY DEF Pairs
<1>5. \A i \in 1 .. m : i % 2 = 1 => a[i] \in Names
  BY DEF Pairs
<1>. HIDE DEF b
<1>6. ASSUME NEW i \in NamePositions(b), i > from PROVE FirstMatch(b, b[i]) = i
  <2>1. i \in 1 .. m + 2 /\ i % 2 = 1
    BY <1>1 DEF NamePositions
  <2>2. i \in 1 .. m \/ i = m + 1
    <3>. HIDE DEF m
    <3>. QED  BY <1>1, <1>4, <2>1
  <2>3. CASE i \in 1 .. m
    <3>1. i \in NamePositions(a)
      BY <2>1, <2>3 DEF NamePositions
    <3>2. FirstMatch(a, a[i]) = i /\ i # 0 /\ a[i] \in Names /\ b[i] = a[i]
      BY <1>1, <1>5, <1>6, <2>1, <2>3, <3>1 DEF NothingHidden
    <3>. QED  BY <1>3, <3>2
  <2>4. CASE i = m + 1
    BY <1>1, <1>2, <1>3, <2>4, MatchesFact
  <2>. QED  BY <2>2, <2>3, <2>4
<1>. QED  BY <1>6 DEF NothingHidden, b
LEMMA AddedVisited ==
  ASSUME NEW a \in Seq(Item), Pairs(a), NEW n \in Names, NEW v \in Values,
         NEW name \in Names, FirstMatch(a, name) # 0 \/ name = n
  PROVE  FirstMatch(a \o <<n, v>>, name) # 0
<1>1. FirstMatch(a \o <<n, v>>, name) = IF FirstMatch(a, name) # 0 THEN FirstMatch(a, name)
                                        ELSE IF Matches(n, name) THEN Len(a) + 1 ELSE 0
  BY AddedMatch
<1>2. Len(a) + 1 # 0
  BY LenProperties
<1>3. Matches(n, n)
  BY MatchesFact
<1>. QED  BY <1>1, <1>2, <1>3

LEMMA InitMerge == Init => MergeInv
BY InitPairs DEF Init, MergeInv

LEMMA StartMergeStep ==
  ASSUME MergeInv, PairsInv', StartMerge
  PROVE  MergeInv'
<1>. DEFINE a == Items(list)
<1>1. /\ list' = list /\ original' = original /\ computed' = a
      /\ phase = "COMPUTING" /\ phase' = "MERGING" /\ merged' = 0
  BY DEF StartMerge, MergeInv
<1>2. Good(list) /\ type = "OBJECT" /\ original \in Originals
  BY DEF MergeInv, PairsInv, IInv, StartMerge
<1>3. a \in Seq(Item) /\ Len(a) \in Nat /\ Pairs(a)
  BY <1>2, GoodItems DEF MergeInv, PairsInv
<1>4. OriginalItems(0)' = <<>>
  <2>1. OriginalItems(0)' = OriginalItems(0)
    BY <1>1 DEF OriginalItems
  <2>. QED  BY <1>2, <2>1, NoOriginalItems
<1>5. a \o <<>> = a
  BY <1>3, ConcatEmptySeq
<1>6. Both(merged)' = a
  <2>1. Both(0)' = computed' \o OriginalItems(0)'
    BY DEF Both
  <2>2. Both(merged)' = Both(0)'
    BY <1>1 DEF Both, OriginalItems
  <2>. QED  BY <1>1, <1>4, <1>5, <2>1, <2>2
<1>7. SameFound(a, a)
  BY DEF SameFound
<1>8. NothingHidden(a, Len(a))
  BY <1>3 DEF NothingHidden, NamePositions
<1>9. \A i \in 1 .. merged' : FALSE
  BY <1>1
<1>. HIDE DEF a
<1>10. Pairs(Both(merged))' /\ SameFound(Items(list), Both(merged))'
  BY <1>1, <1>3, <1>6, <1>7 DEF a
<1>11. NothingHidden(Items(list), Len(computed))'
  BY <1>1, <1>8 DEF a
<1>12. VisitedFound(Items(list), merged)'
  BY <1>9 DEF VisitedFound
<1>13. (computed \in Seq(Item) /\ Pairs(computed))'
  BY <1>1, <1>3 DEF a
<1>. QED  BY <1>1, <1>10, <1>11, <1>12, <1>13 DEF MergeInv

(* What Merge does to the items, unless an allocation fails.               *)
LEMMA MergeItems ==
  ASSUME Unclonable = {}, MergeInv, Merge, ~failed'
  PROVE  LET a == Items(list)  n == original[merged + 1].name
             v == original[merged + 1].value
         IN /\ ~failed /\ n \in Names /\ v \in Values
            /\ Items(list') = IF Lookup(a, n) = NULL THEN a \o <<n, v>> ELSE a
<1>. DEFINE pair == original[merged + 1]
            a == Items(list)
<1>1. pair \in Pair /\ failed \in BOOLEAN /\ Good(list)
  BY OriginalFact DEF MergeInv, PairsInv, IInv, Merge
<1>2. pair.name \in Names /\ pair.value \in Values /\ Clone(pair.value) = pair.value
  BY <1>1 DEF Pair, Clone
<1>3. CASE Lookup(a, pair.name) = NULL
  <2>1. Adding(pair.name, pair.value)
    BY <1>2, <1>3 DEF Merge, ObjectGet
  <2>. HIDE DEF pair
  <2>2. PICK n1 \in Malloc(list) : \E n2 \in Malloc(ListPush(list, n1, pair.name)) :
          /\ list' = ObjectAdd(list, n1, n2, pair.name, pair.value)
          /\ failed' = (failed \/ n1 = NULL \/ n2 = NULL)
    BY <2>1 DEF Adding
  <2>3. PICK n2 \in Malloc(ListPush(list, n1, pair.name)) :
          /\ list' = ObjectAdd(list, n1, n2, pair.name, pair.value)
          /\ failed' = (failed \/ n1 = NULL \/ n2 = NULL)
    BY <2>2
  <2>4. n1 # NULL /\ n2 # NULL /\ ~failed
    BY <1>1, <2>3
  <2>5. Items(ObjectAdd(list, n1, n2, pair.name, pair.value))
          = a \o <<pair.name, pair.value>>
    BY <1>1, <1>2, <2>4, AddItems
  <2>. QED  BY <1>2, <1>3, <2>3, <2>4, <2>5 DEF pair
<1>4. CASE Lookup(a, pair.name) # NULL
  <2>1. list' = list /\ failed' = failed
    BY <1>4 DEF Merge, ObjectGet
  <2>. QED  BY <1>2, <1>4, <2>1
<1>. QED  BY <1>3, <1>4

LEMMA MergeMerges ==
  ASSUME Unclonable = {}, MergeInv, PairsInv', Merge
  PROVE  MergeInv'
<1>. DEFINE m == merged
            a == Items(list)
            b == Both(m)
            n == original[m + 1].name
            v == original[m + 1].value
            c == Items(list')
            d == b \o <<n, v>>
<1>1. /\ phase = "MERGING" /\ phase' = phase /\ original' = original
      /\ computed' = computed /\ merged' = m + 1
      /\ computed \in Seq(Item) /\ Pairs(computed)
  BY DEF Merge, MergeInv
<1>2. /\ m \in Nat /\ m < Len(original) /\ original \in Originals /\ Good(list)
      /\ type = "OBJECT" /\ Pairs(a)
  BY OriginalFact DEF Merge, MergeInv, PairsInv, IInv
<1>3. a \in Seq(Item) /\ Len(computed) \in Nat
  BY <1>1, <1>2, GoodItems, LenProperties
<1>4. ASSUME ~failed'
      PROVE  /\ Pairs(d) /\ SameFound(c, d) /\ NothingHidden(c, Len(computed))
             /\ VisitedFound(c, m + 1)
  <2>1. /\ ~failed /\ n \in Names /\ v \in Values
        /\ c = IF Lookup(a, n) = NULL THEN a \o <<n, v>> ELSE a
    BY <1>4, MergeItems
  <2>2. /\ Pairs(b) /\ SameFound(a, b) /\ NothingHidden(a, Len(computed))
        /\ VisitedFound(a, m)
    BY <1>1, <2>1 DEF MergeInv
  <2>3. b \in Seq(Item)
    BY <1>1, <1>2, BothNext
  <2>4. ASSUME NEW i \in 1 .. m + 1
        PROVE  original[i].name \in Names /\ (i \in 1 .. m \/ original[i].name = n)
    <3>1. i \in 1 .. Len(original) /\ (i \in 1 .. m \/ i = m + 1)
      BY <1>2, OriginalFact
    <3>2. original[i] \in Pair
      BY <1>2, <3>1, OriginalFact
    <3>. QED  BY <3>1, <3>2 DEF Pair
  <2>. HIDE DEF a, b, c, n, v, m
  <2>5. Pairs(d)
    BY <2>1, <2>2, <2>3, AddedPairs
  <2>6. CASE Lookup(a, n) = NULL
    <3>1. c = a \o <<n, v>>
      BY <2>1, <2>6
    <3>2. SameFound(a \o <<n, v>>, d)
      BY <1>2, <1>3, <2>1, <2>2, <2>3, MergeAdds
    <3>3. NothingHidden(a \o <<n, v>>, Len(computed))
      BY <1>2, <1>3, <2>1, <2>2, <2>6, MergeShows
    <3>4. VisitedFound(a \o <<n, v>>, m + 1)
      <4>. SUFFICES ASSUME NEW i \in 1 .. m + 1
                    PROVE  FirstMatch(a \o <<n, v>>, original[i].name) # 0
        BY DEF VisitedFound
      <4>1. FirstMatch(a, original[i].name) # 0 \/ original[i].name = n
        BY <2>2, <2>4 DEF VisitedFound
      <4>. QED  BY <1>2, <1>3, <2>1, <2>4, <4>1, AddedVisited
    <3>. QED  BY <2>5, <3>1, <3>2, <3>3, <3>4
  <2>7. CASE Lookup(a, n) # NULL
    <3>1. c = a
      BY <2>1, <2>7
    <3>2. SameFound(a, d)
      BY <1>2, <1>3, <2>1, <2>2, <2>3, <2>7, MergePasses
    <3>3. FirstMatch(a, n) # 0
      BY <1>2, <1>3, <2>1, <2>7, LookupFact
    <3>4. VisitedFound(a, m + 1)
      BY <2>2, <2>4, <3>3 DEF VisitedFound
    <3>. QED  BY <2>2, <2>5, <3>1, <3>2, <3>4
  <2>. QED  BY <2>6, <2>7
<1>5. Both(m + 1) = d
  BY <1>1, <1>2, BothNext
<1>6. Both(merged)' = d
  BY <1>1, <1>5 DEF Both, OriginalItems
<1>. HIDE DEF a, b, c, d, n, v, m
<1>7. ASSUME ~failed'
      PROVE  /\ Pairs(Both(merged))' /\ SameFound(Items(list), Both(merged))'
             /\ NothingHidden(Items(list), Len(computed))'
             /\ VisitedFound(Items(list), merged)'
  <2>1. Items(list)' = c
    BY DEF c
  <2>2. Pairs(Both(merged))'
    BY <1>4, <1>6, <1>7
  <2>3. SameFound(Items(list), Both(merged))'
    BY <1>4, <1>6, <1>7, <2>1
  <2>4. NothingHidden(Items(list), Len(computed))'
    BY <1>1, <1>4, <1>7, <2>1
  <2>5. VisitedFound(Items(list), merged)'
    BY <1>1, <1>4, <1>7, <2>1 DEF VisitedFound, m
  <2>. QED  BY <2>2, <2>3, <2>4, <2>5
<1>8. (computed \in Seq(Item) /\ Pairs(computed))'
  BY <1>1
<1>. QED  BY <1>1, <1>7, <1>8 DEF MergeInv

LEMMA StepMerge ==
  ASSUME ~InsertAtEnds, Unclonable = {}, MergeInv, [Next]_vars
  PROVE  MergeInv'
<1>1. PairsInv'
  BY StepSimulated DEF MergeInv
<1>2. CASE StartMerge
  BY <1>1, <1>2, StartMergeStep
<1>3. CASE Merge
  BY <1>1, <1>3, MergeMerges
<1>4. CASE UNCHANGED vars
  <2>1. /\ list' = list /\ phase' = phase /\ merged' = merged /\ computed' = computed
        /\ failed' = failed /\ original' = original
    BY <1>4 DEF vars
  <2>2. Both(merged)' = Both(merged)
    BY <2>1 DEF Both, OriginalItems
  <2>3. VisitedFound(Items(list), merged)' = VisitedFound(Items(list), merged)
    BY <2>1 DEF VisitedFound
  <2>. QED  BY <1>1, <2>1, <2>2, <2>3 DEF MergeInv
<1>5. CASE ArrayPush \/ ArrayPop \/ ArrayDelete \/ ArrayInsertBefore \/ ArrayInsertAfter
             \/ Add \/ Set
  <2>1. phase # "MERGING" /\ phase' = phase /\ merged' = merged
    BY <1>5 DEF ArrayPush, ArrayPop, ArrayDelete, ArrayInsertBefore, ArrayInsertAfter,
       Add, Set, callerVars, MergeInv, PairsInv
  <2>. QED  BY <1>1, <2>1 DEF MergeInv
<1>. QED  BY <1>2, <1>3, <1>4, <1>5 DEF Next

LEMMA MergeInvRight ==
  ASSUME MergeInv
  PROVE  MergeRight /\ PreservedAll
<1>. SUFFICES ASSUME MergeDone PROVE MergeRight /\ PreservedAll
  BY DEF MergeRight, PreservedAll
<1>. DEFINE a == Items(list)
            names == {a[i] : i \in NamePositions(a)}
                     \union {original[i].name : i \in 1 .. Len(original)}
<1>1. /\ SameFound(a, Both(Len(original))) /\ NothingHidden(a, Len(computed))
      /\ VisitedFound(a, Len(original))
  BY DEF MergeInv, MergeDone
<1>2. MergeRight
  BY <1>1 DEF MergeRight, SameFound, NothingHidden, Both
<1>3. Good(list) /\ original \in Originals /\ Pairs(a)
  BY DEF MergeInv, PairsInv, IInv, MergeDone
<1>4. a \in Seq(Item)
  BY <1>3, GoodItems
<1>5. ASSUME NEW i \in 1 .. Len(original),
             \A other \in names : ~(other # original[i].name /\ Matches(other, original[i].name))
      PROVE  \E j \in NamePositions(a) :
               a[j] = original[i].name /\ j < Len(a) /\ a[j + 1] \in Values
  <2>. DEFINE name == original[i].name
              j == FirstMatch(a, name)
  <2>1. name \in Names
    BY <1>3, OriginalFact DEF Pair
  <2>2. j # 0
    BY <1>1 DEF VisitedFound
  <2>. HIDE DEF name, a
  <2>3. FirstAt(a, name, j)
    BY <1>4, <2>1, FirstMatchIs
  <2>4. j \in NamePositions(a) /\ j + 1 \in 1 .. Len(a) /\ a[j + 1] \in Values
    BY <1>3, <1>4, <2>1, <2>2, LookupFact DEF a
  <2>. HIDE DEF j
  <2>5. Matches(a[j], name)
    BY <2>2, <2>3 DEF FirstAt
  <2>6. a[j] \in names
    BY <2>4
  <2>7. a[j] = name
    BY <1>5, <2>5, <2>6 DEF name
  <2>8. j < Len(a)
    BY <1>4, <2>4, LenProperties DEF NamePositions
  <2>. QED  BY <2>4, <2>7, <2>8 DEF name
<1>6. PreservedAll
  BY <1>5 DEF PreservedAll
<1>. QED  BY <1>2, <1>6

(* What --preserve makes of the metadata, for any names, whichever are     *)
(* the beginnings of others: a name finds what was computed before it      *)
(* finds what the original had, and nothing added is hidden.               *)
THEOREM MergesRight ==
  ASSUME ~InsertAtEnds, Unclonable = {}
  PROVE  Spec => []MergeRight
BY InitMerge, StepMerge, MergeInvRight, PTL DEF Spec

(* --preserve keeps every value of the original whose name stands once and *)
(* begins with no other (flvmeta.1.md:219-220), if it can be cloned.       *)
THEOREM OriginalPreserved ==
  ASSUME ~InsertAtEnds, Unclonable = {}
  PROVE  Spec => []PreservedAll
BY InitMerge, StepMerge, MergeInvRight, PTL DEF Spec
=============================================================================
