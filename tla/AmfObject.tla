----------------------------- MODULE AmfObject -----------------------------
(***************************************************************************)
(* The doubly linked list behind the AMF arrays and objects, the objects   *)
(* built on it, and the merge of the original onMetaData into the new one  *)
(* that --preserve asks for.                                               *)
(*                                                                         *)
(* A list is a record of its size, its end nodes and its nodes, a function *)
(* from the allocated nodes: a node that is not in its domain is free, and *)
(* reading it is an error of the model too.  A node allocation may fail at *)
(* any time; the strings and values are taken as allocated.  Values are    *)
(* told apart by identity only.                                            *)
(***************************************************************************)
EXTENDS Naturals, FiniteSets, SequencesExt

CONSTANTS
  Nodes,       \* the nodes malloc can return
  NULL,        \* no node, or no value
  Names,       \* the names of values, as sequences of letters
  Values,      \* the AMF values
  Unclonable,  \* those amf_data_clone answers NULL for: null, undefined...
  MaxOriginal, \* the largest number of pairs of the original onMetaData
  InsertAtEnds \* whether callers insert before the first or after the last node

ASSUME AmfConstants ==
  /\ NULL \notin Nodes \union Names \union Values
  /\ Names \intersect Values = {}
  /\ Names \subseteq Seq(UNION {ToSet(name) : name \in Names})
  /\ Unclonable \subseteq Values
  /\ MaxOriginal \in Nat /\ InsertAtEnds \in BOOLEAN

VARIABLES
  type,     \* "ARRAY" or "OBJECT", what the list belongs to
  list,     \* the list
  original, \* the pairs of the onMetaData of the input, in their order
  phase,    \* "COMPUTING" the new metadata or "MERGING" the original into it
  merged,   \* how many pairs of the original have been visited
  computed, \* history: what the object held when the merge began
  failed    \* history: an allocation has failed

vars == <<type, list, original, phase, merged, computed, failed>>
callerVars == <<type, original, phase, merged, computed>>

Pair == [name : Names, value : Values]
Originals == UNION {[1 .. n -> Pair] : n \in 0 .. MaxOriginal}
Node == [data : Names \union Values, next : Nodes \union {NULL}, prev : Nodes \union {NULL}]

-----------------------------------------------------------------------------
(* The list (amf.c).                                                       *)

EmptyList == [size |-> 0, first |-> NULL, last |-> NULL, nodes |-> [n \in {} |-> NULL]]

(* malloc returns a free node or fails.  Which free node is immaterial:    *)
(* nodes are only compared with each other.                                *)
Malloc(l) ==
  LET free == Nodes \ DOMAIN l.nodes IN
  {NULL} \union (IF free = {} THEN {} ELSE {CHOOSE n \in free : TRUE})

WithNode(nodes, n, node) ==
  [m \in DOMAIN nodes \union {n} |-> IF m = n THEN node ELSE nodes[m]]

SetNext(nodes, n, next) ==
  IF n = NULL THEN nodes ELSE [nodes EXCEPT ![n].next = next]
SetPrev(nodes, n, prev) ==
  IF n = NULL THEN nodes ELSE [nodes EXCEPT ![n].prev = prev]

(* amf_list_push with the node n that malloc returned.  It answers the     *)
(* data, so that NULL data looks like a failure to its callers.            *)
ListPush(l, n, data) ==
  IF n = NULL THEN l
  ELSE LET node == [data |-> data, next |-> NULL,
                    prev |-> IF l.size = 0 THEN NULL ELSE l.last]
           before == IF l.size = 0 THEN l.nodes ELSE SetNext(l.nodes, l.last, n)
       IN [size |-> l.size + 1, last |-> n, nodes |-> WithNode(before, n, node),
           first |-> IF l.size = 0 THEN n ELSE l.first]
Pushed(n, data) == n # NULL /\ data # NULL

(* amf_list_delete.                                                        *)
ListDelete(l, n) ==
  IF n = NULL THEN l
  ELSE LET node == l.nodes[n]
           linked == SetNext(SetPrev(l.nodes, node.next, node.prev), node.prev, node.next)
       IN [size |-> l.size - 1,
           first |-> IF n = l.first THEN node.next ELSE l.first,
           last |-> IF n = l.last THEN node.prev ELSE l.last,
           nodes |-> [m \in DOMAIN linked \ {n} |-> linked[m]]]

ListPop(l) == ListDelete(l, l.last)

(* Mutated: the next node keeps its previous one.                          *)
ListInsertOneWay(l, at, n, data) ==
  IF n = NULL THEN l
  ELSE LET next == l.nodes[at].next IN
       [size |-> l.size + 1, first |-> l.first,
        last |-> IF next = NULL THEN n ELSE l.last,
        nodes |-> WithNode(IF next = NULL THEN l.nodes ELSE SetNext(l.nodes, at, n),
                           n, [data |-> data, next |-> next, prev |-> at])]

(* amf_list_insert_before and amf_list_insert_after.  At an end of the     *)
(* list only the end of the list is updated, not the link of the node.     *)
ListInsertBefore(l, at, n, data) ==
  IF n = NULL THEN l
  ELSE LET prev == l.nodes[at].prev
           linked == IF prev = NULL THEN l.nodes
                     ELSE SetPrev(SetNext(l.nodes, prev, n), at, n)
       IN [size |-> l.size + 1, last |-> l.last,
           first |-> IF prev = NULL THEN n ELSE l.first,
           nodes |-> WithNode(linked, n, [data |-> data, next |-> at, prev |-> prev])]

ListInsertAfter(l, at, n, data) ==
  IF n = NULL THEN l
  ELSE LET next == l.nodes[at].next
           linked == IF next = NULL THEN l.nodes
                     ELSE SetNext(SetPrev(l.nodes, next, n), at, n)
       IN [size |-> l.size + 1, first |-> l.first,
           last |-> IF next = NULL THEN n ELSE l.last,
           nodes |-> WithNode(linked, n, [data |-> data, next |-> next, prev |-> at])]

(* The nodes from the first one on, as every walk of the code visits them. *)
NextOf(l, n) == IF n = NULL THEN NULL ELSE l.nodes[n].next
Walk(l) ==
  LET at[i \in 1 .. Cardinality(DOMAIN l.nodes)] ==
        IF i = 1 THEN l.first ELSE NextOf(l, at[i - 1])
  IN [i \in {j \in DOMAIN at : at[j] # NULL} |-> at[i]]
Items(l) == LET walk == Walk(l) IN [i \in 1 .. Len(walk) |-> l.nodes[walk[i]].data]

-----------------------------------------------------------------------------
(* Objects: a list of names, each followed by its value.                   *)

(* strncmp over the size of the stored name.  A value read as a name,      *)
(* which only a broken object leads to, is taken not to match.             *)
Matches(stored, name) == stored \in Names /\ IsPrefix(stored, name)

NamePositions(s) == {i \in 1 .. Len(s) : i % 2 = 1}
FirstMatch(s, name) ==
  LET hits == {i \in NamePositions(s) : Matches(s[i], name)} IN
  IF hits = {} THEN 0 ELSE Min(hits)

(* amf_object_get.                                                         *)
Lookup(s, name) ==
  LET i == FirstMatch(s, name) IN
  IF i = 0 \/ i = Len(s) THEN NULL ELSE s[i + 1]
ObjectGet(l, name) == Lookup(Items(l), name)

(* Mutated: the name stays.                                                *)
ObjectAddNoPop(l, n1, n2, name, element) ==
  LET named == ListPush(l, n1, name) IN
  IF ~Pushed(n1, name) THEN named ELSE ListPush(named, n2, element)

(* amf_object_add, with what malloc returned for both nodes: a name whose  *)
(* value could not be pushed is taken back.                                *)
ObjectAdd(l, n1, n2, name, element) ==
  LET named == ListPush(l, n1, name)
      both == ListPush(named, n2, element)
  IN IF ~Pushed(n1, name) THEN named
     ELSE IF Pushed(n2, element) THEN both
     ELSE ListPop(both)

(* amf_object_set: the value after the first name that matches.            *)
ObjectSet(l, name, element) ==
  LET i == FirstMatch(Items(l), name) IN
  IF i = 0 THEN l
  ELSE [l EXCEPT !.nodes[Walk(l)[i + 1]].data = element]

(* amf_data_clone.                                                         *)
Clone(value) == IF value \in Unclonable THEN NULL ELSE value

-----------------------------------------------------------------------------
Init ==
  /\ type \in {"ARRAY", "OBJECT"}
  /\ original \in IF type = "OBJECT" THEN Originals ELSE {<<>>}
  /\ list = EmptyList /\ phase = "COMPUTING" /\ merged = 0
  /\ computed = <<>> /\ failed = FALSE

Failing(n) == failed' = (failed \/ n = NULL)

ArrayPush ==
  /\ type = "ARRAY"
  /\ \E v \in Values, n \in Malloc(list) :
       list' = ListPush(list, n, v) /\ Failing(n)
  /\ UNCHANGED callerVars

ArrayPop ==
  /\ type = "ARRAY" /\ list' = ListPop(list)
  /\ UNCHANGED <<callerVars, failed>>

ArrayDelete ==
  /\ type = "ARRAY"
  /\ \E n \in DOMAIN list.nodes : list' = ListDelete(list, n)
  /\ UNCHANGED <<callerVars, failed>>

ArrayInsertBefore ==
  /\ type = "ARRAY"
  /\ \E v \in Values, n \in Malloc(list), at \in DOMAIN list.nodes :
       /\ at # list.first \/ InsertAtEnds
       /\ list' = ListInsertBefore(list, at, n, v) /\ Failing(n)
  /\ UNCHANGED callerVars

ArrayInsertAfter ==
  /\ type = "ARRAY"
  /\ \E v \in Values, n \in Malloc(list), at \in DOMAIN list.nodes :
       /\ at # list.last \/ InsertAtEnds
       /\ list' = ListInsertAfter(list, at, n, v) /\ Failing(n)
  /\ UNCHANGED callerVars

(* An addition, with every outcome of the two allocations.                 *)
Adding(name, element) ==
  \E n1 \in Malloc(list) : \E n2 \in Malloc(ListPush(list, n1, name)) :
    /\ list' = ObjectAdd(list, n1, n2, name, element)
    /\ failed' = (failed \/ n1 = NULL \/ n2 = NULL)

(* compute_metadata and the --add options fill the new object.             *)
Add ==
  /\ type = "OBJECT" /\ phase = "COMPUTING"
  /\ \E name \in Names, v \in Values : Adding(name, v)
  /\ UNCHANGED callerVars

Set ==
  /\ type = "OBJECT" /\ phase = "COMPUTING"
  /\ \E name \in Names, v \in Values : list' = ObjectSet(list, name, v)
  /\ UNCHANGED <<callerVars, failed>>

(* --preserve: the original is walked once the new object is complete.     *)
StartMerge ==
  /\ type = "OBJECT" /\ phase = "COMPUTING"
  /\ phase' = "MERGING" /\ computed' = Items(list)
  /\ UNCHANGED <<type, list, original, merged, failed>>

(* Mutated: the original is walked by nodes of two pairs at a time.        *)
MergeEveryOther ==
  /\ phase = "MERGING" /\ merged < Len(original)
  /\ LET pair == original[merged + 1] IN
       IF ObjectGet(list, pair.name) = NULL
       THEN Adding(pair.name, Clone(pair.value))
       ELSE UNCHANGED <<list, failed>>
  /\ merged' = Min({merged + 2, Len(original)})
  /\ UNCHANGED <<type, original, phase, computed>>

(* Mutated: pairs are added without being looked for.                      *)
MergeBlindly ==
  /\ phase = "MERGING" /\ merged < Len(original)
  /\ LET pair == original[merged + 1] IN Adding(pair.name, Clone(pair.value))
  /\ merged' = merged + 1
  /\ UNCHANGED <<type, original, phase, computed>>

(* One pair: it is added unless its name is found, whatever comes of it.   *)
Merge ==
  /\ phase = "MERGING" /\ merged < Len(original)
  /\ LET pair == original[merged + 1] IN
       IF ObjectGet(list, pair.name) = NULL
       THEN Adding(pair.name, Clone(pair.value))
       ELSE UNCHANGED <<list, failed>>
  /\ merged' = merged + 1
  /\ UNCHANGED <<type, original, phase, computed>>

Next ==
  \/ ArrayPush \/ ArrayPop \/ ArrayDelete \/ ArrayInsertBefore \/ ArrayInsertAfter
  \/ Add \/ Set \/ StartMerge \/ Merge

Spec == Init /\ [][Next]_vars

-----------------------------------------------------------------------------
(* The nodes refer to allocated nodes only, and hold what was put there.   *)
TypeOK ==
  LET allocated == DOMAIN list.nodes IN
  /\ type \in {"ARRAY", "OBJECT"} /\ original \in Originals
  /\ allocated \subseteq Nodes
  /\ list.nodes \in [allocated -> [data : Names \union Values,
                                   next : allocated \union {NULL},
                                   prev : allocated \union {NULL}]]
  /\ {list.first, list.last} \subseteq allocated \union {NULL}
  /\ list.size = Cardinality(allocated)
  /\ phase \in {"COMPUTING", "MERGING"} /\ merged \in 0 .. Len(original)
  /\ failed \in BOOLEAN

(* Whatever is pushed, popped, inserted inside, deleted or fails to be     *)
(* allocated (the lists of amf.c), the list can be walked from its first   *)
(* node to its last through every allocated node, and back the same way:   *)
(* nothing leaks out of it, and amf_list_clear frees each node once.       *)
Linked ==
  LET walk == Walk(list) IN
  /\ Len(walk) = Cardinality(DOMAIN list.nodes)
  /\ ToSet(walk) = DOMAIN list.nodes
  /\ list.last = IF walk = <<>> THEN NULL ELSE Last(walk)
  /\ \A i \in 1 .. Len(walk) :
       list.nodes[walk[i]].prev = IF i = 1 THEN NULL ELSE walk[i - 1]

Promise == INSTANCE AmfSequence WITH items <- Items(list)

(* The lists implement arrays and objects: also when an allocation fails   *)
(* half way, an object holds names each followed by its value, and only    *)
(* whole pairs come in.  info.c relies on it when it ignores what          *)
(* amf_associative_array_add returns.                                      *)
ArraysAndObjects == Promise!Spec

(* The items that the first n pairs of the original would make.            *)
OriginalItems(n) ==
  [i \in 1 .. 2 * n |-> LET pair == original[(i + 1) \div 2] IN
                        IF i % 2 = 1 THEN pair.name ELSE pair.value]

MergeDone == phase = "MERGING" /\ merged = Len(original) /\ ~failed

(* What --preserve makes of the metadata (info.c:659-674), whatever names  *)
(* are prefixes of others: a name finds what was computed before it finds  *)
(* what the original had, and the merge adds nothing that is not found.    *)
MergeRight ==
  MergeDone /\ Unclonable = {} =>
    LET items == Items(list)
        both == computed \o OriginalItems(Len(original))
    IN /\ \A name \in Names : Lookup(items, name) = Lookup(both, name)
       /\ \A i \in NamePositions(items) : i > Len(computed) => FirstMatch(items, items[i]) = i

(* The man page says that --preserve preserves the existing onMetaData     *)
(* values (flvmeta.1.md:219-220): those whose names stand once and begin   *)
(* with no other name are in the new object, under their names or as       *)
(* computed.  The values that cannot be cloned are not asked for.          *)
PreservedAll ==
  MergeDone =>
    LET items == Items(list)
        names == {items[i] : i \in NamePositions(items)}
                 \union {original[i].name : i \in 1 .. Len(original)}
    IN \A i \in 1 .. Len(original) :
         /\ original[i].value \notin Unclonable
         /\ \A j \in 1 .. Len(original) : original[j].name = original[i].name => j = i
         /\ \A other \in names : ~(other # original[i].name /\ Matches(other, original[i].name))
         => \E j \in NamePositions(items) :
              /\ items[j] = original[i].name
              /\ j < Len(items) /\ items[j + 1] \in Values
=============================================================================
