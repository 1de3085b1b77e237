---------------------------- MODULE YamlScalars ----------------------------
(***************************************************************************)
(* The scalars of libyaml's emitter (emitter.c): what the analysis of a    *)
(* string allows, the style that is selected, and the text the writers of  *)
(* the plain, single and double quoted styles print.  The dumper never     *)
(* asks for a tag, an anchor or a block style.                             *)
(*                                                                         *)
(* A string is a sequence of characters.  Those the emitter treats alike   *)
(* are one character of the model: "a" stands for every letter, "ctl" for  *)
(* all that is printed as an escape of six columns.                        *)
(***************************************************************************)
EXTENDS TokenFold

CONSTANT BestWidth   \* best_width: where a line is folded at a space

ASSUME WidthAssumption == BestWidth \in Nat

Break == "\n"
Space == " "
Blank == {Space, Break}

(* What starts a token anywhere, inside a flow collection, or only at the  *)
(* start of a string. (The grave accent of emitter.c is left out: it is    *)
(* not a character of a TLA+ string.)                                      *)
FirstIndicators == {"#", ",", "[", "]", "{", "}", "&", "*", "!", "|", ">",
                    "'", "\"", "%", "@"}
FlowIndicators == {",", "?", "[", "]", "{", "}"}

----------------------------------------------------------------------------
(***************************************************************************)
(* yaml_emitter_analyze_scalar.                                            *)
(***************************************************************************)
BlankAt(s, i) == i \notin DOMAIN s \/ s[i] \in Blank
Prefixed(s, c) == Len(s) >= 3 /\ s[1] = c /\ s[2] = c /\ s[3] = c

(* Mutated: a colon is looked at on its own, without what follows it.      *)
ColonIgnored(s, i) == FALSE
ColonEnds(s, i) == s[i] = ":" /\ BlankAt(s, i + 1)

BlockIndicators(s) ==
  \/ Prefixed(s, "-") \/ Prefixed(s, ".")
  \/ s[1] \in FirstIndicators
  \/ s[1] \in {"?", "-"} /\ BlankAt(s, 2)
  \/ \E i \in DOMAIN s : ColonEnds(s, i)
  \/ \E i \in 2 .. Len(s) : s[i] = "#" /\ s[i - 1] \in Blank
FlowIndicated(s) ==
  \/ BlockIndicators(s)
  \/ s[1] = "?"
  \/ \E i \in DOMAIN s : s[i] = ":"
  \/ \E i \in 2 .. Len(s) : s[i] \in FlowIndicators

Special(s) == \E i \in DOMAIN s : s[i] = "ctl"
Multiline(s) == \E i \in DOMAIN s : s[i] = Break
Follows(s, a, b) == \E i \in 2 .. Len(s) : s[i - 1] = a /\ s[i] = b

SingleQuotedAllowed(s) ==
  ~(Follows(s, Break, Space) \/ Follows(s, Space, Break) \/ Special(s))
PlainAllowed(s) ==
  /\ SingleQuotedAllowed(s) /\ ~Multiline(s)
  /\ s[1] # Space /\ s[Len(s)] # Space
BlockPlainAllowed(s) == s = <<>> \/ (PlainAllowed(s) /\ ~BlockIndicators(s))
FlowPlainAllowed(s) == s # <<>> /\ PlainAllowed(s) /\ ~FlowIndicated(s)

(* yaml_emitter_select_scalar_style, for a style left to the emitter.      *)
QuotedStyle(s) == IF SingleQuotedAllowed(s) THEN "single" ELSE "double"
Style(s, flow, simpleKey) ==
  IF simpleKey /\ Multiline(s) THEN "double"
  ELSE IF /\ IF flow THEN FlowPlainAllowed(s) ELSE BlockPlainAllowed(s)
          /\ s = <<>> => ~flow /\ ~simpleKey
       THEN "plain"
       ELSE QuotedStyle(s)

----------------------------------------------------------------------------
(***************************************************************************)
(* The writers.  A cursor is where they are and what they have printed:    *)
(* the text, its line and column, and whether the line is still blank.     *)
(***************************************************************************)
Put(w, c, columns) ==
  [w EXCEPT !.text = Append(@, c), !.column = @ + columns]
PutBreak(w) ==
  [w EXCEPT !.text = Append(@, Break), !.column = 0, !.line = @ + 1]

Spaces(n) == [i \in 1 .. n |-> Space]

(* yaml_emitter_write_indent.                                              *)
WriteIndent(w, indent) ==
  LET starts == \/ ~w.indention \/ w.column > indent
                \/ (w.column = indent /\ ~w.whitespace)
      at == IF starts THEN PutBreak(w) ELSE w
  IN  [at EXCEPT !.text = IF at.column < indent
                          THEN @ \o Spaces(indent - at.column) ELSE @,
                 !.column = IF @ < indent THEN indent ELSE @,
                 !.whitespace = TRUE, !.indention = TRUE]

(* A space becomes a line break where the line is too long.  The quoted    *)
(* styles keep a space at either end.                                      *)
Folds(w, breaksAllowed) ==
  breaksAllowed /\ ~w.spaces /\ w.column > BestWidth
Inner(s, i) == i > 1 /\ i < Len(s)
SpaceAt(s, i) == i \in DOMAIN s /\ s[i] = Space

(* One character of a plain or of a single quoted scalar.  A run of line   *)
(* breaks is printed with one more, which the reader takes for a fold.     *)
FirstBreak(w) == IF w.breaks THEN w ELSE PutBreak(w)

WritePlainChar(s, i, w, indent, breaksAllowed) ==
  IF s[i] = Space
  THEN IF Folds(w, breaksAllowed) /\ ~SpaceAt(s, i + 1)
       THEN [WriteIndent(w, indent) EXCEPT !.spaces = TRUE]
       ELSE [Put(w, Space, 1) EXCEPT !.spaces = TRUE]
  ELSE [Put(w, s[i], 1) EXCEPT !.indention = FALSE, !.spaces = FALSE]

WriteSingleChar(s, i, w, indent, breaksAllowed) ==
  CASE s[i] = Space ->
         IF Folds(w, breaksAllowed) /\ Inner(s, i) /\ ~SpaceAt(s, i + 1)
         THEN [WriteIndent(w, indent) EXCEPT !.spaces = TRUE]
         ELSE [Put(w, Space, 1) EXCEPT !.spaces = TRUE]
    [] s[i] = Break ->
         [PutBreak(FirstBreak(w)) EXCEPT !.indention = TRUE, !.breaks = TRUE]
    [] OTHER ->
         LET at == IF w.breaks THEN WriteIndent(w, indent) ELSE w
             quoted == IF s[i] = "'" THEN Put(at, "'", 1) ELSE at
         IN  [Put(quoted, s[i], 1) EXCEPT
                !.indention = FALSE, !.spaces = FALSE, !.breaks = FALSE]

EscapeColumns(c) == IF c = "ctl" THEN 5 ELSE 1

WriteDoubleChar(s, i, w, indent, breaksAllowed) ==
  CASE s[i] \in {Break, "\"", "\\", "ctl"} ->
         [Put(Put(w, "\\", 1), s[i], EscapeColumns(s[i])) EXCEPT !.spaces = FALSE]
    [] s[i] = Space ->
         IF Folds(w, breaksAllowed) /\ Inner(s, i)
         THEN LET at == WriteIndent(w, indent)
              IN  [IF SpaceAt(s, i + 1) THEN Put(at, "\\", 1) ELSE at
                     EXCEPT !.spaces = TRUE]
         ELSE [Put(w, Space, 1) EXCEPT !.spaces = TRUE]
    [] OTHER -> [Put(w, s[i], 1) EXCEPT !.spaces = FALSE]

(* yaml_emitter_process_scalar: the cursor after s has been printed in the *)
(* given style, without its quotes.                                        *)
WriteChars(s, style, from, indent, breaksAllowed) ==
  Repeat(LAMBDA w, i :
           CASE style = "plain" -> WritePlainChar(s, i, w, indent, breaksAllowed)
             [] style = "single" -> WriteSingleChar(s, i, w, indent, breaksAllowed)
             [] style = "double" -> WriteDoubleChar(s, i, w, indent, breaksAllowed),
         [from EXCEPT !.text = <<>>, !.spaces = FALSE, !.breaks = FALSE], Len(s))
=============================================================================
