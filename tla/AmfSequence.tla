---------------------------- MODULE AmfSequence ----------------------------
(***************************************************************************)
(* What the arrays and objects of amf.h promise, whatever they are made    *)
(* of.  An array is a sequence of values.  An object is a sequence of      *)
(* names, each followed by its value: an addition takes place as a whole   *)
(* or not at all, and a value is replaced under the first name that        *)
(* matches.                                                                *)
(***************************************************************************)
EXTENDS Naturals, SequencesExt

CONSTANTS
  Names,   \* the names of the values of an object, as sequences of letters
  Values   \* what an array or an object can hold

VARIABLES
  type,    \* "ARRAY" or "OBJECT"
  items    \* the values of the array; the names and values of the object

(* The names sit at the odd positions of an object.                        *)
NamePositions(s) == {i \in 1 .. Len(s) : i % 2 = 1}

(* strncmp(stored, name, the size of stored) = 0: a name that begins with  *)
(* the stored one matches it.                                              *)
Matches(stored, name) == stored \in Names /\ IsPrefix(stored, name)

(* The position of the first name that matches, 0 if there is none.        *)
FirstMatch(s, name) ==
  SelectInSeq(s, LAMBDA stored : Matches(stored, name))

Init == type \in {"ARRAY", "OBJECT"} /\ items = <<>>

Inserted(s) == {InsertAt(s, i, v) : i \in 1 .. Len(s) + 1, v \in Values}
Deleted(s) == {RemoveAt(s, i) : i \in 1 .. Len(s)}
Added(s) == {s \o <<name, v>> : name \in Names, v \in Values}
Replaced(s) ==
  {ReplaceAt(s, i + 1, v) : v \in Values,
                            i \in {FirstMatch(s, name) : name \in Names} \ {0}}

Next ==
  /\ LET s == items IN
       items' \in IF type = "ARRAY" THEN Inserted(s) \union Deleted(s)
                  ELSE Added(s) \union Replaced(s)
  /\ UNCHANGED type

Spec == Init /\ [][Next]_<<type, items>>
=============================================================================
