------------------------------ MODULE FlvDump ------------------------------
(***************************************************************************)
(* The commands --dump and --full-dump: flv_parse (flv.c) drives the       *)
(* stream of FlvStream and calls back the dumper of the format, which      *)
(* prints, and for AVC and AAC reads the stream further itself.  Every     *)
(* action is a call on the stream with what is printed before the next     *)
(* one, so a call in an order the stream does not expect is a deadlock.    *)
(***************************************************************************)
EXTENDS FlvStream, DumpPrinters

CONSTANT Requests   \* what may be asked of each file: format, mode and event

(***************************************************************************)
(* A request dumps a whole file or its metadata: the first "onMetaData",   *)
(* or, when an event is named, all the metadata of this name.              *)
(***************************************************************************)
NoEvent == "none"   \* --event is not given
Unnamed == "not a string"

IsRequest(r) ==
  /\ r.format \in Formats
  /\ r.whole \in BOOLEAN
  /\ r.event # Unnamed

(* What the files hold for a dumper, at the offset of each tag: its type,  *)
(* how many packet fields follow the codec byte (an AAC or AVC packet type *)
(* and, for NAL units, a composition time), the name of the event and the  *)
(* values it may come with.                                                *)
TagTypes == {"audio", "video", "meta", "unknown"}
IsDumpFile(f) ==
  \A o \in 0 .. f.size :
    /\ f.tag[o].type \in TagTypes
    /\ f.tag[o].packets \in 0 .. 2
    /\ f.tag[o].type = "audio" => f.tag[o].packets < 2
    /\ f.tag[o].values # {}
    /\ \A v \in f.tag[o].values : v \in Values

ASSUME RequestsAssumption == \A f \in Files : \A r \in Requests[f] : IsRequest(r)
ASSUME DumpFilesAssumption == \A f \in Files : IsDumpFile(Contents[f])
\* the packet type and the composition time are read with flv_read_tag_body
ASSUME PacketFieldsAssumption == {1, 3} \subseteq BufferSizes

VARIABLES
  request,   \* the options of the command
  pc,        \* what flv_parse or a callback does next
  status,    \* retval
  given,     \* what the callbacks hand to the printer, in order
  visited,   \* the offsets of the tags handed to on_tag, in order
  events     \* the values dumped by name, in order

dumpVars == <<request, pc, status, given, visited, events>>
allVars == <<vars, dumpVars>>

Format == request.format
Tag == Contents[file].tag[tagOffset]

DumpInit ==
  /\ Init
  /\ request \in Requests[file]
  /\ pc = "open" /\ status = "OK"
  /\ given = <<>> /\ visited = <<>> /\ events = <<>>

----------------------------------------------------------------------------
(* What a callback hands to the printer, by its name in Parts or with a    *)
(* value.  The callbacks of a metadata dump are unset.                     *)
Parts ==
  [header |-> OnHeader, tag |-> OnTag, prev |-> OnPrevTagSize, end |-> OnStreamEnd,
   audio |-> AudioWhole, audioStart |-> AudioStart, audioPacket |-> AudioPacket,
   video |-> VideoWhole(FALSE), extended |-> VideoWhole(TRUE), videoStart |-> VideoStart,
   avcStart |-> AvcStart, avcTime |-> AvcTime, avcEnd |-> AvcEnd]
NamedPart(part) == [part |-> part, value |-> <<>>]
SayAll(parts) == given' = IF request.whole THEN given \o parts ELSE given
Say(part) == SayAll(<<NamedPart(part)>>)
Silent == UNCHANGED given

Go(next) == pc' = next /\ UNCHANGED <<status, request>>
Stop(with) == pc' = "close" /\ status' = with /\ UNCHANGED request

OpenFile ==
  /\ pc = "open"
  /\ UNCHANGED <<vars, visited, events>> /\ Silent
  /\ \/ Go("header")
     \/ pc' = "finish" /\ status' = "OPEN_READ" /\ UNCHANGED request

(* raw_on_header allocates a counter.                                      *)
Header ==
  /\ pc = "header"
  /\ ReadHeader
  /\ UNCHANGED <<visited, events>>
  /\ \/ result' # "OK" /\ Stop(result') /\ Silent
     \/ result' = "OK" /\ Go("tag") /\ Say("header")
     \/ /\ result' = "OK" /\ request.whole /\ Format = "raw"
        /\ Stop("MEMORY") /\ Silent

(* Mutated: a tag that cannot be read is tried again.                      *)
RetryTag == "tag"
NoMoreTags == "end"

NextTagOrEnd ==
  /\ pc = "tag"
  /\ ReadTag
  /\ UNCHANGED events
  /\ \/ /\ result' = "OK" /\ Go("decode") /\ Say("tag")
        /\ visited' = Append(visited, tagOffset')
     \/ result' # "OK" /\ Go(NoMoreTags) /\ Silent /\ UNCHANGED visited

(* A body of no byte has no callback.                                      *)
Audio ==
  /\ pc = "decode" /\ Tag.type = "audio"
  /\ ReadAudioTag
  /\ UNCHANGED <<visited, events>>
  /\ \/ result' = "EOF" /\ Stop("EOF") /\ Silent
     \/ result' = "EMPTY_TAG" /\ Go("prev") /\ Silent
     \/ /\ result' = "OK" /\ request.whole /\ Tag.packets > 0
        /\ Go("packet") /\ Say("audioStart")
     \/ /\ result' = "OK" /\ (~request.whole \/ Tag.packets = 0)
        /\ Go("prev") /\ Say("audio")

(* The code asks for an extended header first.                             *)
Video ==
  LET extended == ExtendedAt(pos)
      more == request.whole /\ Tag.packets > 0 /\ ~extended
  IN
  /\ pc = "decode" /\ Tag.type = "video"
  /\ ReadVideoTag
  /\ UNCHANGED <<visited, events>>
  /\ \/ result' = "EOF" /\ Stop("EOF") /\ Silent
     \/ result' = "EMPTY_TAG" /\ Go("prev") /\ Silent
     \/ result' = "OK" /\ more /\ Go("packet") /\ Say("videoStart")
     \/ result' = "OK" /\ ~more /\ Go("prev") /\ Say(IF extended THEN "extended" ELSE "video")

(* The packet type of AAC or AVC, of one byte.                             *)
PacketType ==
  /\ pc = "packet"
  /\ ReadTagBody(1)
  /\ UNCHANGED <<visited, events>>
  /\ \/ result' = "SHORT" /\ Stop("INVALID_TAG") /\ Silent
     \/ result' = "OK" /\ Tag.type = "audio" /\ Go("prev") /\ Say("audioPacket")
     \/ result' = "OK" /\ Tag.type = "video" /\ Tag.packets = 1 /\ Go("prev")
        /\ SayAll(<<NamedPart("avcStart"), NamedPart("avcEnd")>>)
     \/ result' = "OK" /\ Tag.packets = 2 /\ Go("composition") /\ Say("avcStart")

Composition ==
  /\ pc = "composition"
  /\ ReadTagBody(3)
  /\ UNCHANGED <<visited, events>>
  /\ \/ result' = "SHORT" /\ Stop("INVALID_TAG") /\ Silent
     \/ result' = "OK" /\ Go("prev")
        /\ SayAll(<<NamedPart("avcTime"), NamedPart("avcEnd")>>)

----------------------------------------------------------------------------
(* dump_*_amf_data: a document of its own.                                 *)
DumpValue(v) ==
  /\ given' = <<[part |-> "document", value |-> v]>>
  /\ events' = Append(events, [offset |-> tagOffset, value |-> v])

(* on_metadata_tag_only: without an event the first onMetaData ends it.    *)
(* Mutated: so does the first event of the name that is asked for.         *)
Asked == IF request.event = NoEvent THEN "onMetaData" ELSE request.event
FirstIsLast == TRUE
LastAsked == request.event = NoEvent

MetaData ==
  /\ pc = "decode" /\ Tag.type = "meta"
  /\ ReadMetadata
  /\ UNCHANGED visited
  /\ \/ /\ result' = "EOF" /\ Stop("EOF") /\ Silent /\ UNCHANGED events
     \/ /\ result' # "EOF"
        /\ \/ result' # "OK" \/ Tag.event = Unnamed
           \/ ~request.whole /\ Tag.event # Asked
        /\ Go("prev") /\ Silent /\ UNCHANGED events
     \/ /\ result' = "OK" /\ Tag.event # Unnamed /\ request.whole
        /\ \E v \in Tag.values : SayAll(<<[part |-> "metadata", value |-> v]>>)
        /\ Go("prev") /\ UNCHANGED events
     \/ /\ result' = "OK" /\ Tag.event # Unnamed /\ ~request.whole
        /\ Tag.event = Asked
        /\ \E v \in Tag.values : DumpValue(v)
        /\ IF LastAsked THEN Stop("STOP_OK") ELSE Go("prev")

(* on_unknown_tag is never set.                                            *)
Unknown ==
  /\ pc = "decode" /\ Tag.type = "unknown"
  /\ UNCHANGED <<vars, visited, events>> /\ Silent /\ Go("prev")

PrevTagSizeField ==
  /\ pc = "prev"
  /\ ReadPrevTagSize
  /\ UNCHANGED <<visited, events>>
  /\ \/ result' # "OK" /\ Stop(result') /\ Silent
     \/ result' = "OK" /\ Go("tag") /\ Say("prev")

EndOfStream ==
  /\ pc = "end"
  /\ Say("end")
  /\ pc' = "close" /\ UNCHANGED <<vars, request, status, visited, events>>

CloseFile ==
  /\ pc = "close"
  /\ Close
  /\ Silent /\ Go("finish") /\ UNCHANGED <<visited, events>>

(* dump_metadata, dump_flv_file and the end of dump_yaml_file             *)
Finish ==
  /\ pc = "finish"
  /\ pc' = "done"
  /\ status' = IF status = "STOP_OK" THEN "OK" ELSE status
  /\ UNCHANGED <<vars, request, given, visited, events>>

Done == pc = "done" /\ UNCHANGED allVars

DumpNext ==
  \/ OpenFile
  \/ Header
  \/ NextTagOrEnd
  \/ Audio
  \/ Video
  \/ PacketType
  \/ Composition
  \/ MetaData
  \/ Unknown
  \/ PrevTagSizeField
  \/ EndOfStream
  \/ CloseFile
  \/ Finish
  \/ Done

(* The program is one thread: it runs as long as it has something to do.   *)
DumpSpec == DumpInit /\ [][DumpNext]_allVars /\ WF_allVars(DumpNext)

----------------------------------------------------------------------------
(***************************************************************************)
(* What has been printed: the printer depends only on what it was given.   *)
(* dump_yaml_file ends the document whatever came of the parse, and        *)
(* dump_yaml_amf_data after the value.                                     *)
(***************************************************************************)
YamlEnded == pc = "done" \/ (~request.whole /\ given # <<>>)
TokensOf(format, g) ==
  CASE g.part = "metadata" -> OnMetaData(g.value)[format]
    [] g.part = "document" -> OnDataOnly(g.value)[format]
    [] OTHER -> Parts[g.part][format]
Tokens == Joined([i \in DOMAIN given |-> TokensOf(Format, given[i])])
JsonPrinted == Fold(EmitJson, NewJson, Tokens)
YamlPrinted ==
  EmitEvents(NewEmitter, OpenYaml \o Tokens \o (IF YamlEnded THEN CloseYaml ELSE <<>>))

(***************************************************************************)
(* Properties.                                                             *)
(***************************************************************************)
(* A reader of YAML that found no error has read all of what is meant, or  *)
(* a beginning of it.                                                      *)
ReadsAs(r, meaning, whole) ==
  /\ r.ok
  /\ Len(r.events) <= Len(meaning)
  /\ r.events = SubSeq(meaning, 1, Len(r.events))
  /\ whole => Len(r.events) = Len(meaning)

(* The document that has to be complete: of a metadata dump at any time,   *)
(* of a full dump once it ends without an error.                           *)
Finished == given # <<>> /\ (request.whole => pc = "done" /\ status = "OK")
(* A full YAML dump that failed ends inside whatever is open.              *)
Broken == request.whole /\ pc = "done" /\ status # "OK"

(* What JSON and XML dumps print is, at any time, the start of a document  *)
(* a reader accepts, and the whole of one when the dump ends without an    *)
(* error; JSON reads back with the structure it was printed for            *)
(* (dump_json.c, dump_xml.c and the comma of json.c:54-58).                *)
JsonReadsBack ==
  Format = "json" =>
    LET r == JsonRead(JsonPrinted.text) IN
    /\ r.ok /\ r.events = JsonMeaning(Tokens)
    /\ Finished => r.open = <<>>
XmlWellFormed ==
  Format = "xml" =>
    LET r == XmlRead(Tokens) IN
    /\ r.ok
    /\ Finished => r.root /\ r.open = <<>> /\ r.tag = ""

(* A reader of the YAML dump finds the strings, names and nesting of the   *)
(* values that were dumped: whatever a string holds, its style is one that *)
(* keeps it, at any depth, as a key or a value, folded or not; and at any  *)
(* time before the end what is printed is the start of that document       *)
(* (dump_yaml.c and libyaml/emitter.c).                                    *)
YamlReadsBack ==
  (Format = "yaml" /\ ~Broken) =>
    ReadsAs(ReadYaml(YamlPrinted.items, Finished), YamlMeaning(Tokens), Finished)

(* A dump that ends without an error has shown every tag of the file, once *)
(* and in order, provided the metadata of the file is sound.               *)
AllTagsDumped ==
  (request.whole /\ pc = "done" /\ status = "OK" /\ MetadataFits(Contents[file])) =>
    {visited[i] : i \in DOMAIN visited} = {o \in Tags : o + TagSize <= Size}

(* Whatever the file holds, no tag is shown twice or out of order.         *)
InOrder == \A i, j \in DOMAIN visited : i < j => visited[i] < visited[j]

(* A metadata dump that ends without an error has shown all that was asked *)
(* for: the first onMetaData, or every event of the given name, provided   *)
(* the metadata of the file is sound (on_metadata_tag_only in dump_*.c).   *)
IsAsked(o) ==
  LET f == Contents[file]
      at == o + TagSize
  IN  /\ o + TagSize <= Size /\ f.tag[o].type = "meta" /\ f.tag[o].event = Asked
      /\ f.length[o] > 0 /\ AmfAvailable(at) /\ f.amf[at].ok
      /\ f.amf[at + f.amf[at].used].ok
AskedDumped ==
  (~request.whole /\ pc = "done" /\ status = "OK" /\ MetadataFits(Contents[file])) =>
    LET asked == {o \in Tags : IsAsked(o)}
        shown == {events[i].offset : i \in DOMAIN events}
    IN  IF request.event # NoEvent THEN shown = asked
        ELSE shown = {o \in asked : \A p \in asked : o <= p}

(* A dump ends, whatever the file holds.                                   *)
Terminates == <>(pc = "done")
=============================================================================
