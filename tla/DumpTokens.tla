---------------------------- MODULE DumpTokens -----------------------------
(***************************************************************************)
(* What the dumpers print, token by token: the calls dump_json.c makes on  *)
(* the JSON emitter, the tags dump_xml.c prints, the events dump_yaml.c    *)
(* hands to libyaml.  A token tells what it opens, closes or is; the text  *)
(* of a name or a string is a sequence of characters, see YamlScalars, and *)
(* every word of the dumpers' own is the same short text.                  *)
(***************************************************************************)
EXTENDS TokenFold

CONSTANT MaxDepth   \* how deep AMF values are nested

ASSUME DepthAssumption == MaxDepth \in Nat

(***************************************************************************)
(* A value has a type, a text if it is a string, and items: the elements   *)
(* of an array, or the named values of an object or associative array.     *)
(***************************************************************************)
Composites == {"object", "assoc", "array"}
Texts == Seq(STRING)
Simple ==
  [type : {"number", "boolean", "string", "null", "undefined", "date"}, text : Texts,
   items : {<<>>}]
ValuesOver(inner) ==
  Simple \cup [type : Composites, text : {<<>>}, items : Seq([name : Texts, data : inner])]
ValuesUpTo[depth \in 0 .. MaxDepth] ==
  ValuesOver(IF depth = 0 THEN {} ELSE ValuesUpTo[depth - 1])
Values == ValuesUpTo[MaxDepth]

Formats == {"json", "xml", "yaml", "raw"}

Tok(kind, name, text) == [kind |-> kind, name |-> name, text |-> text]
Word == <<"a">>

(* Sequences, one behind the other.                                        *)
Joined(parts) == Fold(LAMBDA before, part : before \o part, <<>>, parts)

----------------------------------------------------------------------------
(***************************************************************************)
(* JSON and YAML have the same structure: keys, scalars, mappings and      *)
(* sequences.                                                              *)
(***************************************************************************)
Key(text) == <<Tok("key", "", text)>>
Scalar(text) == <<Tok("scalar", "", text)>>
MapStart == <<Tok("open", "map", <<>>)>>
MapEnd == <<Tok("close", "map", <<>>)>>
ListStart == <<Tok("open", "list", <<>>)>>
ListEnd == <<Tok("close", "list", <<>>)>>
Pairs(n) == Joined([i \in 1 .. n |-> Key(Word) \o Scalar(Word)])
KeyedMap == Key(Word) \o MapStart

(* json_amf_data_dump, amf_data_yaml_dump.                                 *)
DataAround(v, items) ==
  CASE v.type \in {"object", "assoc"} ->
         MapStart \o Joined([i \in DOMAIN v.items |-> Key(v.items[i].name) \o items[i]]) \o MapEnd
    [] v.type = "array" -> ListStart \o Joined(items) \o ListEnd
    [] v.type = "string" -> Scalar(v.text)
    [] OTHER -> Scalar(Word)
DataTokens[v \in Values] ==
  DataAround(v, [i \in DOMAIN v.items |-> DataTokens[v.items[i].data]])

(***************************************************************************)
(* XML: a name opened, closed, or both at once.  The start of an element   *)
(* is printed before its last attribute is read: "begin" ... "finish".     *)
(***************************************************************************)
Start(name) == <<Tok("open", name, <<>>)>>
End(name) == <<Tok("close", name, <<>>)>>
Empty(name) == <<Tok("empty", name, <<>>)>>
Prolog == <<Tok("prolog", "xml", <<>>)>>

(* xml_amf_data_dump.                                                      *)
HasContent(v) == v.items # <<>> \/ (v.type = "string" /\ v.text # <<>>)
XmlAround(v, items) ==
  LET entries == [i \in DOMAIN v.items |-> Start("entry") \o items[i] \o End("entry")]
  IN IF ~HasContent(v) THEN Empty(v.type)
     ELSE Start(v.type) \o Joined(IF v.type = "array" THEN items ELSE entries) \o End(v.type)
XmlTokens[v \in Values] ==
  XmlAround(v, [i \in DOMAIN v.items |-> XmlTokens[v.items[i].data]])

(* The raw dump is lines of text without a structure.                      *)
Line == <<Tok("line", "", <<>>)>>

----------------------------------------------------------------------------
(***************************************************************************)
(* The callbacks of a full dump, by format.  A callback that reads the     *)
(* stream between two prints has a part for each print.                    *)
(***************************************************************************)
All(text, xml, raw) == [json |-> text, yaml |-> text, xml |-> xml, raw |-> raw]

OnHeader == All(MapStart \o Pairs(4) \o Key(Word) \o ListStart, Prolog \o Start("flv"), Line)

OnTag == All(MapStart \o Pairs(4), Start("tag"), Line)

(* on_video_tag without an AVC packet, or up to where it reads one, and    *)
(* from there to where it reads a composition time, or to its end.         *)
(* Mutated: the composition time ends the start tag.                       *)
VideoText(extended) == KeyedMap \o Pairs(IF extended THEN 3 ELSE 2)
VideoWhole(extended) == All(VideoText(extended) \o MapEnd, Empty("videoData"), Line)
VideoStart == All(VideoText(FALSE), Start("videoData"), Line)
AvcStart == All(KeyedMap \o Pairs(1), <<Tok("begin", "AVCData", <<>>)>>, Line)
AvcEndUnfinished == All(MapEnd \o MapEnd, End("videoData"), <<>>)
AvcEnd ==
  All(MapEnd \o MapEnd, <<Tok("finish", "AVCData", <<>>)>> \o End("videoData"), <<>>)
AvcTime == All(Pairs(1), <<>>, Line)

(* on_audio_tag without an AAC packet, or up to where it reads one, and    *)
(* from there on.                                                          *)
AudioText == KeyedMap \o Pairs(4)
AudioWhole == All(AudioText \o MapEnd, Empty("audioData"), Line)
AudioStart == All(AudioText, Start("audioData"), Line)
AudioPacket ==
  All(KeyedMap \o Pairs(1) \o MapEnd \o MapEnd, Empty("AACData") \o End("audioData"), Line)

(* The YAML dump leaves the name of the event out.                         *)
OnMetaData(v) ==
  [json |-> KeyedMap \o Pairs(1) \o Key(Word) \o DataTokens[v] \o MapEnd,
   yaml |-> Key(Word) \o DataTokens[v],
   xml  |-> Start("scriptDataObject") \o XmlTokens[v] \o End("scriptDataObject"),
   raw  |-> Line]

OnPrevTagSize == All(MapEnd, End("tag"), Line)

OnStreamEnd == All(ListEnd \o MapEnd, End("flv"), <<>>)

(* dump_*_amf_data, without what YAML puts around it.                      *)
OnDataOnly(v) == All(DataTokens[v], Prolog \o XmlTokens[v], Line)
=============================================================================
