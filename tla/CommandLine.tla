---------------------------- MODULE CommandLine ----------------------------
(***************************************************************************)
(* flvmeta.c: the command line is turned into options, one getopt_long at  *)
(* a time, and the command they ask for is run.  Of update_metadata        *)
(* (update.c) what becomes of the metadata and of the memory they are kept *)
(* in is here: --add builds a tree that the options own, until main frees  *)
(* it or compute_metadata makes it the metadata to be written.             *)
(***************************************************************************)
EXTENDS Getopt

CONSTANT CommandLines   \* the command lines, each a sequence of elements

ASSUME CommandLineAssumption ==
  CommandLines \subseteq Seq([dashes : 0 .. 2, text : Seq(STRING)])

VARIABLES
  given,      \* the command line, as it was given
  ordering,   \* what POSIXLY_CORRECT makes of it
  scan,       \* the state of getopt
  option,     \* what it has returned last
  taken,      \* the options it has returned
  options,    \* the flvmeta_opts
  pc,         \* what is done next
  errcode,    \* the exit status
  result,     \* res of update_metadata
  heap,       \* what has become of each tree of AMF data
  info        \* the trees that the flv_info of the update points to

cmdVars == <<given, ordering, scan, option, taken, options, pc, errcode, result, heap, info>>
parsing == <<scan, option, taken, options>>
memory == <<heap, info>>

(* The short and the long options of flvmeta.                              *)
ShortOptions == {"D", "F", "C", "U", "d", "j", "r", "x", "y", "e", "l", "q", "m",
                 "a", "s", "p", "f", "i", "t", "k", "v", "V", "h"}
ValueOptions == {"d", "e", "l", "a"}

(* The names are split where two of them go separate ways.                 *)
Long(name, letter) == [name |-> name, letter |-> letter]
LongOptionTable ==
  << Long(<<"d", "ump">>, "D"), Long(<<"f", "ull-dump">>, "F"),
     Long(<<"c", "heck">>, "C"), Long(<<"u", "pdate">>, "U"),
     Long(<<"d", "ump", "-format">>, "d"), Long(<<"j", "son">>, "j"),
     Long(<<"r", "aw">>, "r"), Long(<<"x", "ml">>, "x"), Long(<<"y", "aml">>, "y"),
     Long(<<"e", "vent">>, "e"), Long(<<"l", "evel">>, "l"),
     Long(<<"q", "uiet">>, "q"), Long(<<"p", "r", "int-metadata">>, "m"),
     Long(<<"a", "dd">>, "a"), Long(<<"n", "o-lastsecond">>, "s"),
     Long(<<"p", "r", "eserve">>, "p"), Long(<<"f", "ix">>, "f"),
     Long(<<"i", "gnore">>, "i"), Long(<<"r", "eset-timestamps">>, "t"),
     Long(<<"a", "ll-keyframes">>, "k"), Long(<<"v", "er", "bose">>, "v"),
     Long(<<"v", "er", "sion">>, "V"), Long(<<"h", "elp">>, "h") >>

Commands == [D |-> "DUMP", F |-> "FULL_DUMP", C |-> "CHECK", U |-> "UPDATE"]
Immediate == [V |-> "VERSION", h |-> "HELP"]
Flags == {"q", "m", "s", "p", "t", "k", "v"}
Levels == {"info", "warning", "error", "fatal"}
Word(w) == Element(0, <<w>>)

NoFile == {}   \* a file or event that is not given; a given one is a singleton
Defaults ==
  [command |-> "DEFAULT", input |-> NoFile, output |-> NoFile, metadata |-> <<>>,
   level |-> "warning", report |-> "raw", format |-> "xml", errors |-> "EXIT",
   event |-> NoFile, flags |-> {}]

(* metadata: those of --add, which compute_metadata goes on to fill;       *)
(* keyframes: built by get_flv_info; original: read by it for --preserve.  *)
Trees == {"metadata", "keyframes", "original"}
Free(h, trees) ==
  [t \in Trees |-> IF t \notin trees THEN h[t]
                   ELSE IF h[t] = "live" THEN "freed" ELSE "misused"]
Use(h, trees) ==
  [t \in Trees |-> IF t \in trees /\ h[t] # "live" THEN "misused" ELSE h[t]]
Allocate(h, trees) == [t \in Trees |-> IF t \in trees THEN "live" ELSE h[t]]

CmdInit ==
  /\ given \in CommandLines
  /\ ordering \in Orderings
  /\ scan = Started(given) /\ option = "none" /\ taken = <<>> /\ options = Defaults
  /\ pc = "scan" /\ errcode = "OK" /\ result = "OK"
  /\ heap = [t \in Trees |-> "none"] /\ info = {}

----------------------------------------------------------------------------
(* The loop of parse_command_line: a call, and the case of what it         *)
(* returned, which makes something of the options and goes on or leaves.   *)
CallGetopt ==
  LET r == GetoptLong(scan, ordering) IN
  /\ pc = "scan"
  /\ pc' = "case"
  /\ scan' = r.state
  /\ option' = r.option
  /\ taken' = IF r.option \in Letters
              THEN Append(taken, [option |-> r.option, value |-> r.state.optarg])
              ELSE taken
  /\ UNCHANGED <<given, ordering, options, errcode, result, memory>>

Case(letters) ==
  /\ pc = "case"
  /\ option \in letters
  /\ UNCHANGED <<given, ordering, scan, option, taken, result, info>>

Value == scan.optarg

GoOn == pc' = "scan" /\ UNCHANGED errcode
Leave(e) == pc' = "parsed" /\ errcode' = e

CommandOption ==
  /\ Case(DOMAIN Commands)
  /\ IF options.command = "DEFAULT"
     THEN options' = [options EXCEPT !.command = Commands[option]] /\ GoOn
     ELSE UNCHANGED options /\ Leave("FAILURE")
  /\ UNCHANGED heap

LevelOption ==
  /\ Case({"l"})
  /\ IF \E w \in Levels : Value = Word(w)
     THEN options' = [options EXCEPT !.level = CHOOSE w \in Levels : Value = Word(w)] /\ GoOn
     ELSE UNCHANGED options /\ Leave("FAILURE")
  /\ UNCHANGED heap

(* "xml" is set, and then compared with the other formats and refused.     *)
FormatOption ==
  /\ Case({"d"})
  /\ \/ /\ \E w \in {"raw", "json", "yaml"} :
             Value = Word(w) /\ options' = [options EXCEPT !.format = w]
        /\ GoOn
     \/ /\ \A w \in {"raw", "json", "yaml"} : Value # Word(w)
        /\ options' = IF Value = Word("xml") THEN [options EXCEPT !.format = "xml"] ELSE options
        /\ Leave("FAILURE")
  /\ UNCHANGED heap

FormatLetters == [j |-> "json", r |-> "raw", x |-> "xml", y |-> "yaml"]
FormatLetter ==
  /\ Case(DOMAIN FormatLetters)
  /\ LET f == FormatLetters[option] IN
       options' = [options EXCEPT !.format = f,
                                  !.report = IF option \in {"j", "x"} THEN f ELSE @]
  /\ GoOn
  /\ UNCHANGED heap

FlagOption ==
  /\ Case(Flags)
  /\ options' = [options EXCEPT !.flags = @ \cup {option}]
  /\ GoOn
  /\ UNCHANGED heap

Handlings == [f |-> "FIX", i |-> "IGNORE"]
ErrorsOption ==
  /\ Case(DOMAIN Handlings)
  /\ options' = [options EXCEPT !.errors = Handlings[option]]
  /\ GoOn
  /\ UNCHANGED heap

EventOption ==
  /\ Case({"e"})
  /\ options' = [options EXCEPT !.event = {Value}]
  /\ GoOn
  /\ UNCHANGED heap

(* NAME=VALUE is cut at the first "=" and added to the metadata, which the *)
(* first one allocates.                                                    *)
IsPair(v) == NameEnd(v.text) # 0
PairOf(v) == [name |-> Element(v.dashes, NameOf(v.text)), value |-> ValueOf(v.text)]
AddOption ==
  /\ Case({"a"})
  /\ IF IsPair(Value)
     THEN /\ options' = [options EXCEPT !.metadata = Append(@, PairOf(Value))]
          /\ heap' = IF options.metadata = <<>> THEN Allocate(heap, {"metadata"})
                     ELSE Use(heap, {"metadata"})
          /\ GoOn
     ELSE UNCHANGED <<options, heap>> /\ Leave("FAILURE")

(* --version and --help end the parsing, whatever has been given before.   *)
ImmediateOption ==
  /\ Case(DOMAIN Immediate)
  /\ options' = [options EXCEPT !.command = Immediate[option]]
  /\ Leave("OK")
  /\ UNCHANGED heap

BadOption == Case({"?"}) /\ Leave("FAILURE") /\ UNCHANGED <<options, heap>>

(* After the options, the files.  The default command depends on them.     *)
AlwaysDump(output) == "DUMP"   \* the output does not count
DefaultCommand(output) == IF output # NoFile THEN "UPDATE" ELSE "DUMP"
WithFiles(o, g) ==
  LET input == {g.args[g.optind]}
      output == {g.args[i] : i \in {g.optind + 1} \cap DOMAIN g.args}
  IN [o EXCEPT !.input = input,
               !.output = IF output = NoFile THEN input ELSE output,
               !.command = IF @ = "DEFAULT" THEN DefaultCommand(output) ELSE @]

LastOption ==
  /\ Case({"EOF"})
  /\ IF scan.optind < Argc(scan)
     THEN options' = WithFiles(options, scan) /\ Leave("OK")
     ELSE UNCHANGED options /\ Leave("FAILURE")
  /\ UNCHANGED heap

----------------------------------------------------------------------------
(* main: the tree of --add is of no use to any command but update.         *)
UnusedAnyway == options.metadata # <<>>   \* the update is forgotten
Unused == (errcode # "OK" \/ options.command # "UPDATE") /\ options.metadata # <<>>
FreeMetadata ==
  /\ pc = "parsed"
  /\ heap' = IF Unused THEN Free(heap, {"metadata"}) ELSE heap
  /\ pc' = IF errcode = "OK" THEN options.command ELSE "exit"
  /\ UNCHANGED <<given, ordering, parsing, errcode, result, info>>

Ends(e) == errcode' = e /\ pc' = "exit"
KeepCommand == UNCHANGED <<given, ordering, parsing>>

(* The commands that leave the metadata of the options alone.              *)
OtherCommand ==
  /\ pc \in {"DUMP", "FULL_DUMP", "CHECK", "VERSION", "HELP"}
  /\ \E e \in {"OK", "OPEN_READ", "ERROR"} :
       (pc \in {"VERSION", "HELP"} => e = "OK") /\ Ends(e)
  /\ KeepCommand /\ UNCHANGED <<result, memory>>

(* update_metadata: the input cannot be opened, or get_flv_info reads it.  *)
(* keyframes is allocated after the header and freed on an error.          *)
CantOpenInput ==
  /\ pc = "UPDATE"
  /\ Ends("OPEN_READ")
  /\ KeepCommand /\ UNCHANGED <<result, memory>>

NoHeader ==
  /\ pc = "UPDATE"
  /\ Ends("NO_FLV")
  /\ KeepCommand /\ UNCHANGED <<result, memory>>

GetInfo ==
  /\ pc = "UPDATE"
  /\ \E found \in SUBSET {"original"}, ok \in BOOLEAN :
       LET read == {"keyframes"} \cup (IF "p" \in options.flags THEN found ELSE {})
       IN /\ info' = read
          /\ IF ok
             THEN heap' = Allocate(heap, read) /\ pc' = "compute" /\ UNCHANGED errcode
             ELSE heap' = Free(Allocate(heap, read), {"keyframes"}) /\ Ends("ERROR")
  /\ KeepCommand /\ UNCHANGED result

(* compute_metadata: the tree of the options, or a new one, is filled and  *)
(* gets the keyframes; the original is merged into it and freed.           *)
Merged == IF "p" \in options.flags THEN info \cap {"original"} ELSE {}
Compute ==
  LET h == IF options.metadata # <<>> THEN heap ELSE Allocate(heap, {"metadata"}) IN
  /\ pc = "compute"
  /\ heap' = Free(Use(h, {"metadata", "keyframes"} \cup Merged), Merged)
  /\ info' = info \ Merged
  /\ pc' = "open output"
  /\ KeepCommand /\ UNCHANGED <<errcode, result>>

Written == {"metadata", "keyframes"}   \* freed with meta.on_metadata
Original == info \cap {"original"}

CantOpenOutput ==
  /\ pc = "open output"
  /\ heap' = Free(heap, Written \cup Original)
  /\ Ends("OPEN_WRITE")
  /\ KeepCommand /\ UNCHANGED <<result, info>>

(* The output is the input under this name, or perhaps under another.      *)
WriteOutput ==
  /\ pc = "open output"
  /\ heap' = Free(Use(heap, Written), Original)
  /\ result' \in {"OK", "WRITE"}
  /\ \E same \in BOOLEAN :
       /\ options.input = options.output => same
       /\ pc' = IF same THEN "copy" ELSE "print"
  /\ KeepCommand /\ UNCHANGED <<errcode, info>>

Copied == pc = "copy" /\ pc' = "print" /\ KeepCommand /\ UNCHANGED <<errcode, result, memory>>
CantCopy ==
  /\ pc = "copy"
  /\ heap' = Free(heap, Written)
  /\ \E e \in {"OPEN_WRITE", "WRITE"} : Ends(e)
  /\ KeepCommand /\ UNCHANGED <<result, info>>

PrintMetadata ==
  /\ pc = "print"
  /\ heap' = Free(IF "m" \in options.flags THEN Use(heap, Written) ELSE heap, Written)
  /\ Ends(result)
  /\ KeepCommand /\ UNCHANGED <<result, info>>

Exited == pc = "exit" /\ UNCHANGED cmdVars

CmdNext ==
  \/ CallGetopt \/ CommandOption \/ LevelOption \/ FormatOption \/ FormatLetter \/ FlagOption
  \/ ErrorsOption \/ EventOption \/ AddOption \/ ImmediateOption \/ BadOption
  \/ LastOption \/ FreeMetadata \/ OtherCommand
  \/ CantOpenInput \/ NoHeader \/ GetInfo \/ Compute \/ CantOpenOutput
  \/ WriteOutput \/ Copied \/ CantCopy \/ PrintMetadata \/ Exited

CmdSpec == CmdInit /\ [][CmdNext]_cmdVars

----------------------------------------------------------------------------
(* The options come in the order and with the values they were given, and  *)
(* when there are no more, optind is at the rest of the command line: the  *)
(* permutation that getopt makes of argv while it scans it loses nothing   *)
(* and keeps the order of the files (compat/getopt.c).                     *)
Left == SubSeq(scan.args, scan.optind, Len(scan.args))
OptionsInOrder ==
  LET m == Meaning(given, ordering) IN
  /\ IsPrefix(taken, m.options)
  /\ option \in {"EOF", "?"} => taken = m.options
  /\ option = "EOF" => ~m.failed /\ Left = m.operands
  /\ option = "?" => m.failed

(* What the options s mean: each setting is what the last of the options   *)
(* it depends on says, whatever the others are, and --add adds, in order.  *)
Said(s, letters) == {i \in DOMAIN s : s[i].option \in letters}
LastOf(s, letters) ==   \* none, or one
  {s[i] : i \in {j \in Said(s, letters) : \A k \in Said(s, letters) : k <= j}}
Otherwise(S, default) == IF S = {} THEN {default} ELSE S
SaidFormat(t) == IF t.option = "d" THEN t.value.text[1] ELSE FormatLetters[t.option]
AllAdded(metadata, s) ==   \* by each --add the pair it gives, in order
  LET added == Said(s, {"a"}) IN
  /\ Len(metadata) = Cardinality(added)
  /\ \A i \in added : metadata[Cardinality({j \in added : j <= i})] = PairOf(s[i].value)
Means(o, s) ==
  /\ {o.format} = Otherwise({SaidFormat(t) : t \in LastOf(s, {"d"} \cup DOMAIN FormatLetters)}, "xml")
  /\ {o.report} = Otherwise({SaidFormat(t) : t \in LastOf(s, {"j", "x"})}, "raw")
  /\ {o.level} = Otherwise({t.value.text[1] : t \in LastOf(s, {"l"})}, "warning")
  /\ {o.errors} = Otherwise({Handlings[t.option] : t \in LastOf(s, DOMAIN Handlings)}, "EXIT")
  /\ o.event = {t.value : t \in LastOf(s, {"e"})}
  /\ o.flags = {s[i].option : i \in Said(s, Flags)}
  /\ AllAdded(o.metadata, s)

(* What the command line that main goes on to run means: the options, the  *)
(* first two of what is not an option, and the one command that is given,  *)
(* which the files decide only when there is none (parse_command_line).    *)
GivenCommands(s) == {Commands[s[i].option] : i \in Said(s, DOMAIN Commands)}
CommandMeant ==
  LET operands == Meaning(given, ordering).operands
      file(i) == {operands[i]}
  IN (pc = "parsed" /\ errcode = "OK" /\ option = "EOF") =>
     /\ Means(options, taken)
     /\ options.input = file(1)
     /\ options.output = IF Len(operands) > 1 THEN file(2) ELSE file(1)
     /\ {options.command} = Otherwise(GivenCommands(taken), IF Len(operands) > 1 THEN "UPDATE" ELSE "DUMP")

(* No tree of AMF data is freed twice or used when it has been freed,      *)
(* whatever fails, and none is left when the program ends well or has      *)
(* refused its command line (flvmeta.c:378, update.c, info.c:560-674).     *)
MemorySound ==
  /\ \A t \in Trees : heap[t] # "misused"
  /\ (pc = "exit" /\ errcode \in {"OK", "FAILURE"}) => \A t \in Trees : heap[t] # "live"

(* --help and the manual: the type of --dump-format may be "xml".          *)
XmlFormatAccepted ==
  (pc = "parsed" /\ option = "d" /\ scan.optarg = Word("xml")) => errcode = "OK"
=============================================================================
