---------------------------- MODULE DumpPrinters ----------------------------
(***************************************************************************)
(* From the tokens of the dumpers to the text on standard output, and how  *)
(* a reader of JSON, XML or YAML takes that text, which is the reference   *)
(* the printers are checked against.                                       *)
(***************************************************************************)
EXTENDS DumpTokens, YamlEmitter, YamlReader

----------------------------------------------------------------------------
(***************************************************************************)
(* json.c: the emitter remembers only whether the next token needs a       *)
(* comma before it.  Its text is a sequence of JSON tokens.                *)
(***************************************************************************)
NewJson == [comma |-> FALSE, text |-> <<>>]

JsonText(token) ==
  CASE token.kind = "key" -> <<"value", ":">>
    [] token.kind = "scalar" -> <<"value">>
    [] token.kind = "open" -> IF token.name = "map" THEN <<"{">> ELSE <<"[">>
    [] token.kind = "close" -> IF token.name = "map" THEN <<"}">> ELSE <<"]">>

(* json_print_comma and the json_emit_* functions: the end of a collection *)
(* and a scalar ask for a comma before what comes next, unless it is an    *)
(* end.  Mutated: only a scalar does.                                      *)
CommaAfterScalar(token) == token.kind = "scalar"
CommaAfter(token) == token.kind \in {"scalar", "close"}

EmitJson(je, token) ==
  [comma |-> CommaAfter(token),
   text |-> je.text
              \o (IF je.comma /\ token.kind # "close" THEN <<",">> ELSE <<>>)
              \o JsonText(token)]

(* A reader of JSON: what may follow the last token, inside of what.       *)
JsonEvent(r, what) == [r EXCEPT !.events = Append(@, what)]
Inside(r) == IF r.open = <<>> THEN "" ELSE r.open[Len(r.open)]
Complete(last) == last \in {"value", "}", "]"}

ReadJson(r, x) ==
  LET isKey == x = "value" /\ Inside(r) = "{" /\ r.last \in {"{", ","}
      valueAllowed == \/ r.open = <<>> /\ r.last = ""
                      \/ Inside(r) = "{" /\ r.last = ":"
                      \/ Inside(r) = "[" /\ r.last \in {"[", ","}
      allowed == CASE x \in {"value", "{", "["} -> isKey \/ valueAllowed
                   [] x = ":" -> r.last = "key"
                   [] x = "," -> r.open # <<>> /\ Complete(r.last)
                   [] x = "}" -> Inside(r) = "{" /\ (r.last = "{" \/ Complete(r.last))
                   [] x = "]" -> Inside(r) = "[" /\ (r.last = "[" \/ Complete(r.last))
  IN  [ok |-> r.ok /\ allowed,
       last |-> IF isKey THEN "key" ELSE x,
       open |-> CASE x \in {"{", "["} -> Append(r.open, x)
                  [] x \in {"}", "]"} /\ r.open # <<>> -> SubSeq(r.open, 1, Len(r.open) - 1)
                  [] OTHER -> r.open,
       events |-> IF x \in {",", ":"} THEN r.events
                  ELSE Append(r.events, IF isKey THEN "key" ELSE x)]

JsonRead(text) ==
  Fold(ReadJson, [ok |-> TRUE, last |-> "", open |-> <<>>, events |-> <<>>], text)

(* What a reader should make of the tokens.                                *)
JsonMeaning(tokens) ==
  [i \in DOMAIN tokens |->
     IF tokens[i].kind = "key" THEN "key" ELSE JsonText(tokens[i])[1]]

----------------------------------------------------------------------------
(* A reader of XML: the elements that are open, the start tag that is not  *)
(* finished, and whether the one root of the document was there.           *)
ReadXml(r, x) ==
  LET content == r.prolog /\ r.tag = "" /\ (r.open = <<>> => ~r.root)
      allowed == CASE x.kind = "prolog" -> ~r.prolog
                   [] x.kind \in {"open", "empty", "begin"} -> content
                   [] x.kind = "finish" -> r.tag = x.name
                   [] x.kind = "close" -> /\ r.tag = ""
                                          /\ r.open # <<>> /\ r.open[Len(r.open)] = x.name
  IN  [ok |-> r.ok /\ allowed,
       prolog |-> TRUE,
       root |-> r.root \/ x.kind \in {"open", "empty"},
       tag |-> CASE x.kind = "begin" -> x.name
                 [] x.kind = "finish" -> ""
                 [] OTHER -> r.tag,
       open |-> CASE x.kind = "open" -> Append(r.open, x.name)
                  [] x.kind = "close" /\ r.open # <<>> -> SubSeq(r.open, 1, Len(r.open) - 1)
                  [] OTHER -> r.open]

XmlRead(tokens) ==
  Fold(ReadXml, [ok |-> TRUE, prolog |-> FALSE, root |-> FALSE, tag |-> "",
                 open |-> <<>>], tokens)

----------------------------------------------------------------------------
(* yaml_emitter_open and the start of the document, the end of the         *)
(* document and yaml_emitter_close (dump_yaml.c).                          *)
OpenYaml == <<StreamStart, DocumentStart>>
CloseYaml == <<DocumentEnd, StreamEnd>>

(* The events a reader of YAML should find: a key is a scalar to it.       *)
YamlMeaning(tokens) ==
  [i \in DOMAIN tokens |->
     IF tokens[i].kind = "key" THEN ScalarEvent(tokens[i].text) ELSE tokens[i]]
=============================================================================
