---------------------------- MODULE YamlReader -----------------------------
(***************************************************************************)
(* How a reader of YAML 1.1 takes what the emitter prints: the reference   *)
(* the emitter is checked against.  It knows nothing of the emitter, only  *)
(* the rules of the format for scalars on several lines, for block         *)
(* collections by their columns and for empty flow collections.            *)
(*                                                                         *)
(* A document is a sequence of items, in the order of the text: an         *)
(* indicator or a scalar, the line and column it starts at, the line it    *)
(* ends at and the text of a scalar between its quotes.                    *)
(***************************************************************************)
EXTENDS TokenFold

Scalars == {"plain", "single", "double"}

(* What pending spaces and line breaks stand for once text follows: one    *)
(* break is folded to a space, of several all but one are kept.            *)
Flushed(r) ==
  IF r.breaks = 0 THEN r.read \o r.blanks
  ELSE IF r.breaks = 1 THEN Append(r.read, " ")
  ELSE r.read \o [i \in 1 .. r.breaks - 1 |-> "\n"]

ReadChar(r, style, c) ==
  CASE r.escaped ->
         [r EXCEPT !.read = Append(Flushed(r), c), !.blanks = <<>>,
                   !.breaks = 0, !.escaped = FALSE]
    [] ~r.escaped /\ ((style = "double" /\ c = "\\") \/ (style = "single" /\ c = "'")) ->
         [r EXCEPT !.escaped = TRUE]
    [] ~r.escaped /\ c = "\n" -> [r EXCEPT !.blanks = <<>>, !.breaks = @ + 1]
    [] ~r.escaped /\ c = " " ->
         IF r.breaks = 0 THEN [r EXCEPT !.blanks = Append(@, " ")] ELSE r
    [] OTHER ->
         [r EXCEPT !.read = Append(Flushed(r), c), !.blanks = <<>>, !.breaks = 0]

ReadScalar(style, text) ==
  Flushed(Fold(LAMBDA r, c : ReadChar(r, style, c),
               [read |-> <<>>, blanks |-> <<>>, breaks |-> 0, escaped |-> FALSE], text))

(* What a reader takes for one plain scalar, outside a flow collection.    *)
Blanks == {" ", "\n"}
NotPlain == {",", "[", "]", "{", "}", "#", "&", "*", "!", "|", ">", "'", "\"", "%", "@"}
Followed(s, i) == i < Len(s) /\ s[i + 1] \notin Blanks
IsPlain(s) ==
  \/ s = <<>>
  \/ /\ s[1] \notin NotPlain \cup Blanks
     /\ s[1] \in {"-", "?", ":"} => Followed(s, 1)
     /\ s[Len(s)] \notin Blanks
     /\ \A i \in DOMAIN s : /\ s[i] = ":" => Followed(s, i)
                            /\ s[i] = "#" => s[i - 1] \notin Blanks
                            /\ s[i] # "ctl"

----------------------------------------------------------------------------
(***************************************************************************)
(* The structure.  The reader keeps the open collections with the columns  *)
(* they are at, and whether it expects a node: one that does not come is   *)
(* an empty scalar.                                                        *)
(***************************************************************************)
Event(kind, name, text) == [kind |-> kind, name |-> name, text |-> text]
ScalarEvent(text) == Event("scalar", "", text)

Top(r) == r.open[Len(r.open)]
IsTop(r, kind, column) ==
  r.open # <<>> /\ Top(r) = [kind |-> kind, column |-> column]

Missing(r) ==
  IF r.want THEN [r EXCEPT !.events = Append(@, ScalarEvent(<<>>)), !.want = FALSE]
  ELSE r
CloseTop(r) ==
  LET m == Missing(r)
  IN  [m EXCEPT !.events = Append(@, Event("close", Top(r).kind, <<>>)),
                !.open = SubSeq(@, 1, Len(@) - 1)]

(* The collections an item at the start of a line is no longer part of.    *)
Leaves(r, x) ==
  /\ r.open # <<>>
  /\ \/ Top(r).column > x.column
     \/ Top(r).column = x.column /\ Top(r).kind = "list" /\ x.what # "-"
Left(r, x) == IF Leaves(r, x) THEN CloseTop(r) ELSE r
Unrolled(r, x) == Repeat(LAMBDA q, i : Left(q, x), r, Len(r.open))

Opened(r, kind, column) ==
  IF IsTop(r, kind, column) THEN Missing(r)
  ELSE [r EXCEPT !.events = Append(@, Event("open", kind, <<>>)),
                 !.open = Append(@, [kind |-> kind, column |-> column]),
                 !.ok = @ /\ r.want /\ (r.open # <<>> => Top(r).column <= column),
                 !.want = FALSE]

Node(r, event) ==
  [r EXCEPT !.events = Append(@, event), !.ok = @ /\ r.want, !.want = FALSE]

(* An item at its level: a scalar before a colon is a key.                 *)
ReadAt(r, x, isKey, isLast) ==
  CASE x.what = "---" -> [r EXCEPT !.want = TRUE]
    [] x.what = "..." -> r
    [] x.what = "-" -> [Opened(r, "list", x.column) EXCEPT !.want = TRUE]
    [] x.what = "?" -> [Opened(r, "map", x.column) EXCEPT !.want = TRUE]
    [] x.what = ":" -> [Missing(r) EXCEPT !.want = TRUE]
    [] x.what \in {"[", "{"} ->
         [Node(r, Event("open", IF x.what = "[" THEN "list" ELSE "map", <<>>))
            EXCEPT !.want = FALSE]
    [] x.what \in {"]", "}"} ->
         [r EXCEPT !.events = Append(@,
            Event("close", IF x.what = "]" THEN "list" ELSE "map", <<>>))]
    [] x.what \in Scalars /\ isKey ->
         LET m == Opened(r, "map", x.column)
         IN  [m EXCEPT !.events = Append(@, ScalarEvent(ReadScalar(x.what, x.text)))]
    [] OTHER ->
         \* the last item may be a key whose colon is not printed yet
         IF isLast /\ ~r.want THEN r
         ELSE Node(r, ScalarEvent(ReadScalar(x.what, x.text)))

ReadItem(r, items, i) ==
  LET x == items[i]
      readable == [r EXCEPT !.ok = @ /\ (x.what = "plain" => IsPlain(x.text))]
      starts == i > 1 => items[i - 1].last < x.line
      isKey == i < Len(items) /\ items[i + 1].what = ":" /\ items[i + 1].line = x.last
  IN  ReadAt(IF starts THEN Unrolled(readable, x) ELSE readable, x, isKey, i = Len(items))

(* A plain scalar without text is not in the text.                         *)
Visible(items) == SelectSeq(items, LAMBDA x : x.what # "plain" \/ x.text # <<>>)

ReadItems(shown) ==
  Repeat(LAMBDA r, i : ReadItem(r, shown, i),
         [open |-> <<>>, events |-> <<>>, want |-> FALSE, ok |-> TRUE], Len(shown))

(* At the end of a complete document all that is open ends.                *)
AtEnd(r) == Missing(Repeat(LAMBDA q, i : CloseTop(q), r, Len(r.open)))
ReadYaml(items, whole) ==
  LET r == ReadItems(Visible(items)) IN IF whole THEN AtEnd(r) ELSE r
=============================================================================
