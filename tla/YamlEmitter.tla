---------------------------- MODULE YamlEmitter ----------------------------
(***************************************************************************)
(* The state machine of libyaml's emitter (emitter.c), as the YAML dumper  *)
(* drives it: one stream of one document, no anchors, tags or directives,  *)
(* every style left to the emitter.  An event is a token of the dumper; an *)
(* emitter is a record, and an operator here maps it to the one after the  *)
(* call.  What the emitter prints is a sequence of items, see YamlReader.  *)
(*                                                                         *)
(* Only empty collections are printed in the flow style then, so the       *)
(* states for the items of flow collections are never entered.             *)
(***************************************************************************)
EXTENDS YamlScalars, Integers

LOCAL INSTANCE SequencesExt

CONSTANTS
  BestIndent,       \* best_indent: columns of one level
  SimpleKeyLength   \* the longest key printed before its colon: 128

ASSUME IndentAssumption == BestIndent \in Nat \ {0} /\ SimpleKeyLength \in Nat

YamlEvent(kind, name, text) == [kind |-> kind, name |-> name, text |-> text]
StreamStart == YamlEvent("open", "stream", <<>>)
StreamEnd == YamlEvent("close", "stream", <<>>)
DocumentStart == YamlEvent("open", "document", <<>>)
DocumentEnd == YamlEvent("close", "document", <<>>)

(* yaml_emitter_initialize, and what stream_start sets.  An indent of -1   *)
(* is a level of none.                                                     *)
NoIndent == <<>>
NewEmitter ==
  [state |-> "STREAM_START", states |-> <<>>, events |-> <<>>, error |-> FALSE,
   indents |-> <<>>, indent |-> NoIndent, flow |-> 0,
   line |-> 0, column |-> 0, whitespace |-> TRUE, indention |-> TRUE,
   openEnded |-> FALSE, root |-> FALSE, mapping |-> FALSE, simpleKey |-> FALSE,
   items |-> <<>>]

Columns(indent) == IF indent = NoIndent THEN 0 ELSE indent[1]

----------------------------------------------------------------------------
(***************************************************************************)
(* Printing.                                                               *)
(***************************************************************************)
Cursor(e) ==
  [text |-> <<>>, line |-> e.line, column |-> e.column, whitespace |-> e.whitespace,
   indention |-> e.indention, spaces |-> FALSE, breaks |-> FALSE]
MoveTo(e, w) ==
  [e EXCEPT !.line = w.line, !.column = w.column,
            !.whitespace = w.whitespace, !.indention = w.indention]

Indent(e) == MoveTo(e, WriteIndent(Cursor(e), Columns(e.indent)))

Length(indicator) == IF indicator \in {"---", "..."} THEN 3 ELSE 1

(* yaml_emitter_write_indicator: the spaces of the item that is printed.   *)
Item(what, line, column, last, text) ==
  [what |-> what, line |-> line, column |-> column, last |-> last, text |-> text]
Indicator(e, what, needWhitespace, isWhitespace, isIndention) ==
  LET column == IF needWhitespace /\ ~e.whitespace THEN e.column + 1 ELSE e.column
  IN  [e EXCEPT !.items = Append(@, Item(what, e.line, column, e.line, <<>>)),
                !.column = column + Length(what),
                !.whitespace = isWhitespace,
                !.indention = @ /\ isIndention,
                !.openEnded = FALSE]

(* yaml_emitter_increase_indent.                                           *)
IncreaseIndent(e, flow, indentless) ==
  [e EXCEPT !.indents = Append(@, e.indent),
            !.indent = IF @ = NoIndent THEN <<IF flow THEN BestIndent ELSE 0>>
                       ELSE IF indentless THEN @ ELSE <<@[1] + BestIndent>>]
PopIndent(e) == [e EXCEPT !.indent = Last(e.indents), !.indents = Front(@)]
Push(e, state) == [e EXCEPT !.states = Append(@, state)]
PopState(e) == [e EXCEPT !.state = Last(e.states), !.states = Front(@)]
Failed(e) == [e EXCEPT !.error = TRUE]

(* yaml_emitter_emit_scalar: quotes count for a column each, and the       *)
(* opening one ends the indentation of its line.                           *)
Written(e, style, column, w) ==
  [e EXCEPT !.items = Append(@, Item(style, e.line, column, w.line, w.text)),
            !.line = w.line,
            !.column = IF style = "plain" THEN w.column ELSE w.column + 1,
            !.whitespace = FALSE, !.indention = FALSE,
            !.openEnded = (style = "plain" /\ (e.root \/ @))]
WriteScalar(e, text, style, column) ==
  LET inner == IncreaseIndent(e, TRUE, FALSE)
      from == IF style = "plain" THEN [Cursor(e) EXCEPT !.column = column]
              ELSE [Cursor(e) EXCEPT !.column = column + 1,
                                     !.whitespace = FALSE, !.indention = FALSE]
  IN  Written(e, style, column,
              WriteChars(text, style, from, Columns(inner.indent), ~e.simpleKey))
EmitScalar(e, event) ==
  PopState(WriteScalar(e, event.text, Style(event.text, e.flow > 0, e.simpleKey),
                       IF e.whitespace THEN e.column ELSE e.column + 1))

(* yaml_emitter_check_empty_sequence and _mapping, on the queued events.   *)
EmptyNext(e, name) ==
  /\ Len(e.events) >= 2
  /\ e.events[2].kind = "close" /\ e.events[2].name = name

(* yaml_emitter_emit_node.  Anything but a node is an error.               *)
EmitNode(e, event, root, mapping, simpleKey) ==
  LET in == [e EXCEPT !.root = root, !.mapping = mapping, !.simpleKey = simpleKey] IN
  CASE event.kind \in {"key", "scalar"} -> EmitScalar(in, event)
    [] event.kind = "open" /\ event.name = "list" ->
         [in EXCEPT !.state = IF e.flow > 0 \/ EmptyNext(e, "list")
                              THEN "FLOW_SEQUENCE_FIRST_ITEM"
                              ELSE "BLOCK_SEQUENCE_FIRST_ITEM"]
    [] event.kind = "open" /\ event.name = "map" ->
         [in EXCEPT !.state = IF e.flow > 0 \/ EmptyNext(e, "map")
                              THEN "FLOW_MAPPING_FIRST_KEY"
                              ELSE "BLOCK_MAPPING_FIRST_KEY"]
    [] OTHER -> Failed(in)

----------------------------------------------------------------------------
(***************************************************************************)
(* The states.                                                             *)
(***************************************************************************)
(* yaml_emitter_emit_document_start, of a document that is not implicit,   *)
(* or the end of the stream.                                               *)
EmitDocumentStart(e, event) ==
  CASE event = DocumentStart ->
         [Indicator(Indent(e), "---", TRUE, FALSE, FALSE)
            EXCEPT !.state = "DOCUMENT_CONTENT"]
    [] event = StreamEnd ->
         [IF e.openEnded THEN Indent(Indicator(e, "...", TRUE, FALSE, FALSE)) ELSE e
            EXCEPT !.state = "END"]
    [] OTHER -> Failed(e)

EmitDocumentEnd(e, event) ==
  IF event = DocumentEnd THEN [Indent(e) EXCEPT !.state = "DOCUMENT_START"]
  ELSE Failed(e)

(* The end of an empty collection; the level counted in between is back.   *)
EmitFlow(e, first, last) ==
  LET open == IncreaseIndent(Indicator(e, first, TRUE, TRUE, FALSE), TRUE, FALSE)
  IN  PopState(Indicator(PopIndent(open), last, FALSE, FALSE, FALSE))

IsEnd(event, name) == event.kind = "close" /\ event.name = name

EmitBlockSequenceItem(e, event, first) ==
  LET in == IF first THEN IncreaseIndent(e, FALSE, e.mapping /\ ~e.indention) ELSE e
      item == Indicator(Indent(in), "-", TRUE, FALSE, TRUE)
  IN  IF IsEnd(event, "list") THEN PopState(PopIndent(in))
      ELSE EmitNode(Push(item, "BLOCK_SEQUENCE_ITEM"), event, FALSE, FALSE, FALSE)

(* yaml_emitter_check_simple_key: the keys of the dumper are scalars.      *)
SimpleKey(event) ==
  /\ event.kind \in {"key", "scalar"}
  /\ ~Multiline(event.text) /\ Len(event.text) <= SimpleKeyLength

EmitBlockMappingKey(e, event, first) ==
  LET in == IF first THEN IncreaseIndent(e, FALSE, FALSE) ELSE e
      key == IF SimpleKey(event) THEN Push(Indent(in), "BLOCK_MAPPING_SIMPLE_VALUE")
             ELSE Push(Indicator(Indent(in), "?", TRUE, FALSE, TRUE), "BLOCK_MAPPING_VALUE")
  IN  IF IsEnd(event, "map") THEN PopState(PopIndent(in))
      ELSE EmitNode(key, event, FALSE, TRUE, SimpleKey(event))

EmitBlockMappingValue(e, event, simple) ==
  LET colon == IF simple THEN Indicator(e, ":", FALSE, FALSE, FALSE)
               ELSE Indicator(Indent(e), ":", TRUE, FALSE, TRUE)
  IN  EmitNode(Push(colon, "BLOCK_MAPPING_KEY"), event, FALSE, TRUE, FALSE)

(* yaml_emitter_state_machine.                                             *)
Step(e, event) ==
  CASE e.state = "STREAM_START" ->
         IF event = StreamStart THEN [e EXCEPT !.state = "FIRST_DOCUMENT_START"]
         ELSE Failed(e)
    [] e.state \in {"FIRST_DOCUMENT_START", "DOCUMENT_START"} ->
         EmitDocumentStart(e, event)
    [] e.state = "DOCUMENT_CONTENT" ->
         EmitNode(Push(e, "DOCUMENT_END"), event, TRUE, FALSE, FALSE)
    [] e.state = "DOCUMENT_END" -> EmitDocumentEnd(e, event)
    [] e.state = "FLOW_SEQUENCE_FIRST_ITEM" -> EmitFlow(e, "[", "]")
    [] e.state = "FLOW_MAPPING_FIRST_KEY" -> EmitFlow(e, "{", "}")
    [] e.state \in {"BLOCK_SEQUENCE_FIRST_ITEM", "BLOCK_SEQUENCE_ITEM"} ->
         EmitBlockSequenceItem(e, event, e.state = "BLOCK_SEQUENCE_FIRST_ITEM")
    [] e.state \in {"BLOCK_MAPPING_FIRST_KEY", "BLOCK_MAPPING_KEY"} ->
         EmitBlockMappingKey(e, event, e.state = "BLOCK_MAPPING_FIRST_KEY")
    [] e.state \in {"BLOCK_MAPPING_SIMPLE_VALUE", "BLOCK_MAPPING_VALUE"} ->
         EmitBlockMappingValue(e, event, e.state = "BLOCK_MAPPING_SIMPLE_VALUE")
    [] e.state = "END" -> Failed(e)

----------------------------------------------------------------------------
(***************************************************************************)
(* yaml_emitter_emit.  A start waits for some of the events after it, so   *)
(* that an empty collection is known; a failed event stays in the queue,   *)
(* and the next call tries it again.                                       *)
(***************************************************************************)
Accumulated(event) ==
  CASE event.kind = "open" /\ event.name = "document" -> 1
    [] event.kind = "open" /\ event.name = "list" -> 2
    [] event.kind = "open" /\ event.name = "map" -> 3
    [] OTHER -> 0

Level(event) ==
  CASE event.kind = "open" -> 1 [] event.kind = "close" -> -1 [] OTHER -> 0
Balanced(events) ==
  LET level[i \in 0 .. Len(events)] ==
        IF i = 0 THEN 0 ELSE level[i - 1] + Level(events[i])
  IN  \E i \in 1 .. Len(events) : level[i] = 0

NeedMoreEvents(e) ==
  \/ e.events = <<>>
  \/ /\ Accumulated(Head(e.events)) > 0
     /\ Len(e.events) <= Accumulated(Head(e.events))
     /\ ~Balanced(e.events)

Dequeued(e) == IF e.error THEN e ELSE [e EXCEPT !.events = Tail(@)]

Advance(e) ==
  IF e.error \/ NeedMoreEvents(e) THEN e ELSE Dequeued(Step(e, Head(e.events)))
EmitEvent(e, event) ==
  LET queued == [e EXCEPT !.events = Append(@, event), !.error = FALSE]
  IN  Repeat(LAMBDA run, i : Advance(run), queued, Len(queued.events))

EmitEvents(e, events) == Fold(EmitEvent, e, events)
=============================================================================
