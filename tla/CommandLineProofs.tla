------------------------- MODULE CommandLineProofs -------------------------
(***************************************************************************)
(* Theorems about CommandLine, for every command line and every table of   *)
(* options: what becomes of the memory (MemoryIsSound), that getopt_long,  *)
(* which permutes argv while it scans it, returns what the command line    *)
(* means when it is read from left to right (OptionsComeInOrder), and that *)
(* the command that is run is the one so meant (CommandIsMeant).           *)
(***************************************************************************)
EXTENDS CommandLine, FiniteSetTheorems, SequenceTheorems, WellFoundedInduction, TLAPS

Settled == {"DUMP", "FULL_DUMP", "CHECK", "UPDATE", "VERSION", "HELP"}
CommandTypes ==
  /\ DOMAIN options = DOMAIN Defaults
  /\ \E S : options.metadata \in Seq(S)
  /\ options.command \in Settled \union {"DEFAULT"}
  /\ pc \in {"scan", "case", "parsed", "compute", "open output", "copy", "print", "exit"}
            \union Settled
  /\ pc = "parsed" /\ errcode = "OK" => options.command \in Settled
  /\ result \in {"OK", "WRITE"}

----------------------------------------------------------------------------
(* What each option makes of the options.                                  *)

Fields == {"command", "input", "output", "metadata", "level", "report", "format", "errors",
           "event", "flags"}
Keeps(fields) ==
  DOMAIN options' = Fields /\ \A f \in Fields \ fields : options'[f] = options[f]

LEMMA FieldsFact == DOMAIN Defaults = Fields
BY DEF Defaults, Fields

LEMMA SameOptions ==
  ASSUME DOMAIN options = Fields, options' = options, NEW fields
  PROVE  Keeps(fields)
BY DEF Keeps

LEMMA OneOption ==
  ASSUME DOMAIN options = Fields, NEW field \in Fields, NEW value,
         options' = [options EXCEPT ![field] = value]
  PROVE  Keeps({field}) /\ options'[field] = value
BY DEF Keeps

LEMMA CommandOptionFact ==
  ASSUME DOMAIN options = Fields, CommandOption
  PROVE  /\ Keeps({"command"})
         /\ IF options.command = "DEFAULT" THEN options'.command = Commands[option] /\ GoOn
            ELSE options' = options /\ Leave("FAILURE")
<1>1. CASE options.command = "DEFAULT"
  <2>1. options' = [options EXCEPT !["command"] = Commands[option]] /\ GoOn
    BY <1>1 DEF CommandOption
  <2>2. "command" \in Fields
    BY DEF Fields
  <2>. QED  BY <1>1, <2>1, <2>2, OneOption
<1>2. CASE options.command # "DEFAULT"
  BY <1>2, SameOptions DEF CommandOption
<1>. QED  BY <1>1, <1>2

LEMMA LevelOptionFact ==
  ASSUME DOMAIN options = Fields, LevelOption
  PROVE  Keeps({"level"}) /\ (GoOn \/ Leave("FAILURE"))
<1>1. CASE \E w \in Levels : Value = Word(w)
  <2>1. /\ options' = [options EXCEPT !["level"] = CHOOSE w \in Levels : Value = Word(w)]
        /\ GoOn
    BY <1>1 DEF LevelOption
  <2>2. "level" \in Fields
    BY DEF Fields
  <2>. QED  BY <2>1, <2>2, OneOption
<1>2. CASE ~\E w \in Levels : Value = Word(w)
  BY <1>2, SameOptions DEF LevelOption
<1>. QED  BY <1>1, <1>2

LEMMA FormatOptionFact ==
  ASSUME DOMAIN options = Fields, FormatOption
  PROVE  /\ Keeps({"format"})
         /\ \/ GoOn /\ \E w \in {"raw", "json", "yaml"} : Value = Word(w) /\ options'.format = w
            \/ Leave("FAILURE")
<1>0. "format" \in Fields
  BY DEF Fields
<1>1. ASSUME NEW w \in {"raw", "json", "yaml"}, Value = Word(w),
             options' = [options EXCEPT !.format = w], GoOn
      PROVE  Keeps({"format"}) /\ options'.format = w
  BY <1>0, <1>1, OneOption
<1>2. ASSUME options' = IF Value = Word("xml") THEN [options EXCEPT !.format = "xml"]
                        ELSE options
      PROVE  Keeps({"format"})
  <2>1. CASE Value = Word("xml")
    BY <1>0, <1>2, <2>1, OneOption
  <2>2. CASE Value # Word("xml")
    BY <1>2, <2>2, SameOptions
  <2>. QED  BY <2>1, <2>2
<1>. QED  BY <1>1, <1>2, Zenon DEF FormatOption

LEMMA FormatLetterFact ==
  ASSUME DOMAIN options = Fields, FormatLetter
  PROVE  /\ Keeps({"format", "report"}) /\ GoOn
         /\ options'.format = FormatLetters[option]
         /\ options'.report = IF option \in {"j", "x"} THEN FormatLetters[option]
                              ELSE options.report
BY DEF FormatLetter, Keeps, Fields

LEMMA FlagOptionFact ==
  ASSUME DOMAIN options = Fields, FlagOption
  PROVE  Keeps({"flags"}) /\ GoOn /\ options'.flags = options.flags \union {option}
BY DEF FlagOption, Keeps, Fields

LEMMA ErrorsOptionFact ==
  ASSUME DOMAIN options = Fields, ErrorsOption
  PROVE  Keeps({"errors"}) /\ GoOn /\ options'.errors = Handlings[option]
BY DEF ErrorsOption, Keeps, Fields

LEMMA EventOptionFact ==
  ASSUME DOMAIN options = Fields, EventOption
  PROVE  Keeps({"event"}) /\ GoOn /\ options'.event = {Value}
BY DEF EventOption, Keeps, Fields

LEMMA AddOptionFact ==
  ASSUME DOMAIN options = Fields, AddOption
  PROVE  /\ Keeps({"metadata"})
         /\ IF IsPair(Value)
            THEN /\ options'.metadata = Append(options.metadata, PairOf(Value)) /\ GoOn
                 /\ heap' = IF options.metadata = <<>> THEN Allocate(heap, {"metadata"})
                            ELSE Use(heap, {"metadata"})
            ELSE options' = options /\ heap' = heap /\ Leave("FAILURE")
<1>1. CASE IsPair(Value)
  <2>1. options' = [options EXCEPT !["metadata"] = Append(options.metadata, PairOf(Value))]
    BY <1>1 DEF AddOption
  <2>2. "metadata" \in Fields
    BY DEF Fields
  <2>3. /\ GoOn
        /\ heap' = IF options.metadata = <<>> THEN Allocate(heap, {"metadata"})
                   ELSE Use(heap, {"metadata"})
    BY <1>1 DEF AddOption
  <2>. QED  BY <1>1, <2>1, <2>2, <2>3, OneOption
<1>2. CASE ~IsPair(Value)
  BY <1>2, SameOptions DEF AddOption
<1>. QED  BY <1>1, <1>2

LEMMA ImmediateOptionFact ==
  ASSUME DOMAIN options = Fields, ImmediateOption
  PROVE  Keeps({"command"}) /\ Leave("OK") /\ options'.command = Immediate[option]
BY DEF ImmediateOption, Keeps, Fields

LEMMA BadOptionFact ==
  ASSUME DOMAIN options = Fields, BadOption
  PROVE  Keeps({}) /\ Leave("FAILURE")
BY SameOptions DEF BadOption

LEMMA LastOptionFact ==
  ASSUME DOMAIN options = Fields, LastOption
  PROVE  /\ Keeps({"command", "input", "output"})
         /\ IF scan.optind < Argc(scan)
            THEN LET output == {scan.args[i] : i \in {scan.optind + 1} \cap DOMAIN scan.args} IN
                 /\ Leave("OK")
                 /\ options'.input = {scan.args[scan.optind]}
                 /\ options'.output = IF output = NoFile THEN {scan.args[scan.optind]} ELSE output
                 /\ options'.command = IF options.command = "DEFAULT" THEN DefaultCommand(output)
                                       ELSE options.command
            ELSE options' = options /\ Leave("FAILURE")
<1>1. CASE scan.optind < Argc(scan)
  <2>1. options' = WithFiles(options, scan) /\ Leave("OK")
    BY <1>1 DEF LastOption
  <2>. QED  BY <1>1, <2>1 DEF WithFiles, Keeps, Fields
<1>2. CASE ~(scan.optind < Argc(scan))
  BY <1>2, SameOptions DEF LastOption
<1>. QED  BY <1>1, <1>2

----------------------------------------------------------------------------
(* The memory: what each tree is at each point of the program.             *)

Gone(t) == heap[t] \in {"none", "freed"}
OfOptions == heap["metadata"] = IF options.metadata # <<>> THEN "live" ELSE "none"
MemoryInv ==
  /\ CommandTypes
  /\ heap \in [Trees -> {"none", "live", "freed", "misused"}]
  /\ info \subseteq {"keyframes", "original"}
  /\ \A t \in Trees : heap[t] # "misused"
  /\ pc \in {"scan", "case", "parsed", "UPDATE"} =>
       OfOptions /\ heap["keyframes"] = "none" /\ heap["original"] = "none"
  /\ pc \in Settled \ {"UPDATE"} => \A t \in Trees : Gone(t)
  /\ pc = "compute" => OfOptions /\ heap["keyframes"] = "live"
  /\ pc \in {"compute", "open output"} =>
       IF "original" \in info THEN heap["original"] = "live" ELSE Gone("original")
  /\ pc \in {"open output", "copy", "print"} =>
       heap["metadata"] = "live" /\ heap["keyframes"] = "live"
  /\ pc \in {"copy", "print"} => Gone("original")
  /\ pc = "exit" /\ errcode \in {"OK", "FAILURE"} => \A t \in Trees : Gone(t)

LEMMA InitMemory == CmdInit => MemoryInv
BY DEF CmdInit, MemoryInv, CommandTypes, OfOptions, Defaults, Trees, Settled

LEMMA ParseMemory ==
  ASSUME MemoryInv,
         \/ CallGetopt \/ CommandOption \/ LevelOption \/ FormatOption \/ FormatLetter
         \/ FlagOption \/ ErrorsOption \/ EventOption \/ ImmediateOption \/ BadOption
         \/ LastOption
  PROVE  MemoryInv'
<1>1. /\ heap' = heap /\ info' = info /\ result' = result /\ pc \in {"scan", "case"}
      /\ pc' \in {"scan", "case", "parsed"}
  BY DEF CallGetopt, CommandOption, LevelOption, FormatOption, FormatLetter,
     FlagOption, ErrorsOption, EventOption, ImmediateOption, BadOption, LastOption,
     Case, GoOn, Leave, memory
<1>2. DOMAIN options = Fields
  BY FieldsFact DEF MemoryInv, CommandTypes
<1>3. /\ DOMAIN options' = Fields /\ options'.metadata = options.metadata
      /\ options'.command \in Settled \union {"DEFAULT"}
      /\ pc' = "parsed" /\ errcode' = "OK" => options'.command \in Settled
  <2>0. options.command \in Settled \union {"DEFAULT"}
    BY DEF MemoryInv, CommandTypes
  <2>1. CASE CallGetopt
    BY <1>2, <2>0, <2>1 DEF CallGetopt
  <2>2. CASE CommandOption
    <3>1. Commands[option] \in Settled
      BY <2>2 DEF CommandOption, Case, Commands, Settled
    <3>. QED  BY <1>2, <2>0, <2>2, <3>1, CommandOptionFact DEF Keeps, Fields, GoOn, Leave, Settled
  <2>3. CASE LevelOption
    BY <1>2, <2>0, <2>3, LevelOptionFact DEF Keeps, Fields, GoOn, Leave
  <2>4. CASE FormatOption
    BY <1>2, <2>0, <2>4, FormatOptionFact DEF Keeps, Fields, GoOn, Leave
  <2>5. CASE FormatLetter
    BY <1>2, <2>0, <2>5, FormatLetterFact DEF Keeps, Fields, GoOn, Leave
  <2>6. CASE FlagOption
    BY <1>2, <2>0, <2>6, FlagOptionFact DEF Keeps, Fields, GoOn, Leave
  <2>7. CASE ErrorsOption
    BY <1>2, <2>0, <2>7, ErrorsOptionFact DEF Keeps, Fields, GoOn, Leave
  <2>8. CASE EventOption
    BY <1>2, <2>0, <2>8, EventOptionFact DEF Keeps, Fields, GoOn, Leave
  <2>9. CASE ImmediateOption
    <3>1. Immediate[option] \in Settled
      BY <2>9 DEF ImmediateOption, Case, Immediate, Settled
    <3>. QED  BY <1>2, <2>0, <2>9, <3>1, ImmediateOptionFact DEF Keeps, Fields, Leave
  <2>10. CASE BadOption
    BY <1>2, <2>0, <2>10, BadOptionFact DEF Keeps, Fields, Leave
  <2>11. CASE LastOption
    <3>1. \A output : DefaultCommand(output) \in Settled
      BY DEF DefaultCommand, Settled
    <3>. QED  BY <1>2, <2>0, <2>11, <3>1, LastOptionFact DEF Keeps, Fields, Leave
  <2>. QED  BY <2>1, <2>2, <2>3, <2>4, <2>5, <2>6, <2>7, <2>8, <2>9, <2>10, <2>11
<1>4. DOMAIN options' = DOMAIN Defaults
  BY <1>3, FieldsFact
<1>. QED  BY <1>1, <1>3, <1>4 DEF MemoryInv, CommandTypes, OfOptions, Gone, Settled

LEMMA AddMemory ==
  ASSUME MemoryInv, AddOption
  PROVE  MemoryInv'
<1>1. /\ info' = info /\ result' = result /\ pc = "case"
      /\ DOMAIN options = Fields /\ options.command \in Settled \union {"DEFAULT"}
  BY FieldsFact DEF AddOption, Case, MemoryInv, CommandTypes
<1>2. DOMAIN options' = DOMAIN Defaults /\ options'.command = options.command
  BY <1>1, AddOptionFact, FieldsFact DEF Keeps, Fields
<1>3. CASE IsPair(Value)
  <2>1. /\ options'.metadata = Append(options.metadata, PairOf(Value)) /\ GoOn
        /\ heap' = IF options.metadata = <<>> THEN Allocate(heap, {"metadata"})
                   ELSE Use(heap, {"metadata"})
    BY <1>1, <1>3, AddOptionFact
  <2>2. /\ Append(options.metadata, PairOf(Value)) # <<>>
        /\ \E S : Append(options.metadata, PairOf(Value)) \in Seq(S)
    <3>1. PICK S : options.metadata \in Seq(S)
      BY DEF MemoryInv, CommandTypes
    <3>2. options.metadata \in Seq(S \union {PairOf(Value)})
      BY <3>1
    <3>. QED  BY <3>2
  <2>3. /\ heap'["metadata"] = "live" /\ heap'["keyframes"] = "none"
        /\ heap'["original"] = "none"
        /\ heap' \in [Trees -> {"none", "live", "freed", "misused"}]
    BY <1>1, <2>1 DEF MemoryInv, OfOptions, Allocate, Use, Trees
  <2>4. pc' = "scan"
    BY <2>1 DEF GoOn
  <2>. HIDE DEF Settled
  <2>. QED  BY <1>1, <1>2, <2>1, <2>2, <2>3, <2>4
            DEF MemoryInv, CommandTypes, OfOptions, Trees, Settled
<1>4. CASE ~IsPair(Value)
  <2>1. options' = options /\ heap' = heap /\ Leave("FAILURE")
    BY <1>1, <1>4, AddOptionFact
  <2>. QED  BY <1>1, <1>2, <2>1 DEF MemoryInv, CommandTypes, OfOptions, Gone, Leave, Settled
<1>. QED  BY <1>3, <1>4

LEMMA MainMemory ==
  ASSUME MemoryInv, FreeMetadata \/ OtherCommand \/ CantOpenInput \/ NoHeader
  PROVE  MemoryInv'
<1>1. CASE FreeMetadata
  BY <1>1 DEF FreeMetadata, MemoryInv, CommandTypes, OfOptions, Gone, Settled, Trees, Unused,
     Free, parsing
<1>2. CASE OtherCommand
  BY <1>2 DEF OtherCommand, MemoryInv, CommandTypes, OfOptions, Gone, Settled, Trees,
     Ends, KeepCommand, parsing, memory
<1>3. CASE CantOpenInput \/ NoHeader
  BY <1>3 DEF CantOpenInput, NoHeader, MemoryInv, CommandTypes, OfOptions, Gone, Settled, Trees,
     Ends, KeepCommand, parsing, memory
<1>. QED  BY <1>1, <1>2, <1>3

LEMMA UpdateMemory ==
  ASSUME MemoryInv,
         \/ GetInfo \/ Compute \/ CantOpenOutput \/ WriteOutput \/ Copied \/ CantCopy
         \/ PrintMetadata
  PROVE  MemoryInv'
<1>1. CASE GetInfo
  <2>1. PICK found \in SUBSET {"original"}, ok \in BOOLEAN :
          LET read == {"keyframes"} \cup (IF "p" \in options.flags THEN found ELSE {})
          IN /\ info' = read
             /\ IF ok
                THEN heap' = Allocate(heap, read) /\ pc' = "compute" /\ UNCHANGED errcode
                ELSE heap' = Free(Allocate(heap, read), {"keyframes"}) /\ Ends("ERROR")
    BY <1>1 DEF GetInfo
  <2>. DEFINE read == {"keyframes"} \cup (IF "p" \in options.flags THEN found ELSE {})
  <2>2. read \subseteq {"keyframes", "original"} /\ "keyframes" \in read
    OBVIOUS
  <2>3. pc = "UPDATE" /\ options' = options /\ result' = result
    BY <1>1 DEF GetInfo, KeepCommand, parsing
  <2>. HIDE DEF read
  <2>4. CASE ok
    <3>1. info' = read /\ heap' = Allocate(heap, read) /\ pc' = "compute"
      BY <2>1, <2>4 DEF read
    <3>. QED  BY <2>2, <2>3, <3>1
              DEF MemoryInv, CommandTypes, OfOptions, Gone, Settled, Trees, Allocate
  <2>5. CASE ~ok
    <3>1. /\ info' = read /\ heap' = Free(Allocate(heap, read), {"keyframes"})
          /\ pc' = "exit" /\ errcode' = "ERROR"
      BY <2>1, <2>5 DEF read, Ends
    <3>2. heap' = [t \in Trees |-> IF t = "keyframes" THEN "freed"
                                   ELSE IF t \in read THEN "live" ELSE heap[t]]
      BY <2>2, <3>1 DEF Free, Allocate, Trees
    <3>. QED  BY <2>2, <2>3, <3>1, <3>2
              DEF MemoryInv, CommandTypes, OfOptions, Gone, Settled, Trees
  <2>. QED  BY <2>4, <2>5
<1>2. CASE Compute
  BY <1>2 DEF Compute, MemoryInv, CommandTypes, OfOptions, Gone, Settled, Trees,
     Ends, KeepCommand, parsing, Free, Allocate, Use, Merged
<1>3. CASE CantOpenOutput
  BY <1>3 DEF CantOpenOutput, MemoryInv, CommandTypes, OfOptions, Gone, Settled, Trees,
     Ends, KeepCommand, parsing, Free, Written, Original
<1>4. CASE WriteOutput
  BY <1>4 DEF WriteOutput, MemoryInv, CommandTypes, OfOptions, Gone, Settled, Trees,
     Ends, KeepCommand, parsing, Free, Use, Written, Original
<1>5. CASE Copied
  BY <1>5 DEF Copied, MemoryInv, CommandTypes, OfOptions, Gone, Settled, Trees,
     KeepCommand, parsing, memory
<1>7. CASE CantCopy
  BY <1>7 DEF CantCopy, MemoryInv, CommandTypes, OfOptions, Gone, Settled, Trees,
     Ends, KeepCommand, parsing, Free, Written
<1>6. CASE PrintMetadata
  BY <1>6 DEF PrintMetadata, MemoryInv, CommandTypes, OfOptions, Gone, Settled, Trees,
     Ends, KeepCommand, parsing, Free, Use, Written
<1>. QED  BY <1>1, <1>2, <1>3, <1>4, <1>5, <1>6, <1>7

LEMMA StepMemory ==
  ASSUME MemoryInv, [CmdNext]_cmdVars
  PROVE  MemoryInv'
<1>1. CASE Exited \/ UNCHANGED cmdVars
  BY <1>1 DEF Exited, cmdVars, parsing, memory, MemoryInv, CommandTypes, OfOptions, Gone
<1>. QED  BY <1>1, ParseMemory, AddMemory, MainMemory, UpdateMemory DEF CmdNext

(* No tree of AMF data is freed twice or used when it has been freed, on   *)
(* no path and whatever fails, and none is left when the program ends well *)
(* (flvmeta.c:378, update.c, info.c:560-674).                              *)
THEOREM MemoryIsSound == CmdSpec => []MemorySound
<1>1. MemoryInv => MemorySound
  BY DEF MemoryInv, MemorySound, Gone
<1>. QED  BY <1>1, InitMemory, StepMemory, PTL DEF CmdSpec

----------------------------------------------------------------------------
(* Sequences, least elements and recursion.                                *)

LEMMA SubSeqFact ==
  ASSUME NEW S, NEW s \in Seq(S), NEW m \in 1 .. Len(s) + 1, NEW n \in 0 .. Len(s),
         m <= n + 1
  PROVE  /\ SubSeq(s, m, n) \in Seq(S)
         /\ Len(SubSeq(s, m, n)) = n - m + 1
         /\ \A i \in 1 .. n - m + 1 : SubSeq(s, m, n)[i] = s[m + i - 1]
<1>1. Len(s) \in Nat /\ s \in [1 .. Len(s) -> S]
  BY LenProperties
<1>2. m \in Int /\ n \in Int /\ \A i \in m .. n : s[i] \in S
  BY <1>1
<1>3. /\ SubSeq(s, m, n) \in Seq(S)
      /\ Len(SubSeq(s, m, n)) = IF m <= n THEN n - m + 1 ELSE 0
      /\ \A i \in 1 .. n - m + 1 : SubSeq(s, m, n)[i] = s[m + i - 1]
  BY ONLY <1>2, SubSeqProperties
<1>. QED  BY <1>1, <1>3

(* SubSeq by another name, which the provers do not take apart.            *)
Part(s, m, n) == SubSeq(s, m, n)

Unrolled(s, m, n) == Part(s, m, n) = <<s[m]>> \o Part(s, m + 1, n)

LEMMA Unrolling ==
  ASSUME NEW S, NEW s \in Seq(S), NEW m \in 1 .. Len(s), NEW n \in m .. Len(s)
  PROVE  Unrolled(s, m, n)
BY SubSeqRecursiveFirst DEF Unrolled, Part

Regrouped(s, t, u) == (s \o t) \o u = s \o (t \o u)

LEMMA Regrouping ==
  ASSUME NEW S, NEW s \in Seq(S), NEW t \in Seq(S), NEW u \in Seq(S)
  PROVE  Regrouped(s, t, u)
BY ConcatAssociative DEF Regrouped

LEMMA FirstFact ==
  ASSUME NEW S \in SUBSET Nat, S # {}
  PROVE  First(S) \in S /\ \A y \in S : First(S) <= y
<1>. DEFINE R == OpToRel(<, Nat)
<1>1. IsWellFoundedOn(R, Nat)
  BY NatLessThanWellFounded, Zenon
<1>2. \E x \in S : \A y \in S : ~(<<y, x>> \in R)
  <2>. HIDE DEF R
  <2>. QED  BY <1>1, WFMin
<1>3. PICK x \in S : \A y \in S : ~(<<y, x>> \in R)
  BY <1>2
<1>4. \A y \in S : ~(y < x)
  BY <1>3, Zenon DEF OpToRel
<1>5. \A y \in S : x <= y
  BY <1>4
<1>. QED  BY <1>5 DEF First

(* Induction over the naturals, for a set.                                 *)
LEMMA SetInduction ==
  ASSUME NEW S \in SUBSET Nat, 0 \in S, \A n \in S : n + 1 \in S
  PROVE  S = Nat
<1>. DEFINE T == Nat \ S
<1>1. ASSUME T # {} PROVE FALSE
  <2>1. First(T) \in T /\ \A y \in T : First(T) <= y
    <3>1. T \in SUBSET Nat
      OBVIOUS
    <3>. HIDE DEF T
    <3>. QED  BY <1>1, <3>1, FirstFact
  <2>2. First(T) # 0 /\ First(T) - 1 \in Nat
    BY <2>1
  <2>3. First(T) - 1 \in T
    BY <2>1, <2>2
  <2>. QED  BY <2>1, <2>2, <2>3
<1>. QED  BY <1>1

(* Induction downwards from n + 1.                                         *)
LEMMA DownInduction ==
  ASSUME NEW n \in Nat, NEW K, n + 1 \in K, \A i \in 1 .. n : i + 1 \in K => i \in K
  PROVE  \A i \in 1 .. n + 1 : i \in K
<1>. DEFINE T == {m \in Nat : m <= n => n + 1 - m \in K}
<1>1. 0 \in T
  OBVIOUS
<1>2. ASSUME NEW m \in Nat, m \in T PROVE m + 1 \in T
  <2>. SUFFICES ASSUME m + 1 <= n PROVE n + 1 - (m + 1) \in K
    OBVIOUS
  <2>1. n + 1 - m \in K
    BY <1>2
  <2>2. n - m \in 1 .. n /\ (n - m) + 1 = n + 1 - m /\ n + 1 - (m + 1) = n - m
    OBVIOUS
  <2>. QED  BY <2>1, <2>2
<1>3. T = Nat
  <2>1. T \in SUBSET Nat
    OBVIOUS
  <2>. HIDE DEF T
  <2>. QED  BY <1>1, <1>2, <2>1, SetInduction
<1>4. ASSUME NEW i \in 1 .. n + 1 PROVE i \in K
  <2>1. n + 1 - i \in Nat /\ n + 1 - i <= n /\ n + 1 - (n + 1 - i) = i
    OBVIOUS
  <2>2. n + 1 - i \in T
    BY <1>3, <2>1
  <2>. QED  BY <2>1, <2>2
<1>. QED  BY <1>4

(* A recursion that goes down from n, where the two before are known.      *)
From(f, n, S, x, G, m) ==
  /\ f \in [1 .. n + 2 -> S]
  /\ \A i \in 1 .. n + 2 : i > n - m => f[i] = IF i > n THEN x ELSE G[i, f[i + 1], f[i + 2]]
Downwards(f, n, S, x, G) ==
  /\ f \in [1 .. n + 2 -> S]
  /\ \A i \in 1 .. n + 2 : f[i] = IF i > n THEN x ELSE G[i, f[i + 1], f[i + 2]]

LEMMA OneMore ==
  ASSUME NEW n \in Nat, NEW S, NEW x \in S, NEW G \in [(1 .. n) \X S \X S -> S],
         NEW m \in Nat, m + 1 <= n, NEW f, From(f, n, S, x, G, m)
  PROVE  \E g : From(g, n, S, x, G, m + 1)
<1>. DEFINE k == n - m
            v == G[k, f[k + 1], f[k + 2]]
            g == [i \in 1 .. n + 2 |-> IF i = k THEN v ELSE f[i]]
<1>1. k \in 1 .. n /\ k + 1 \in 1 .. n + 2 /\ k + 2 \in 1 .. n + 2
  OBVIOUS
<1>2. f \in [1 .. n + 2 -> S]
  BY DEF From
<1>3. v \in S
  <2>1. f[k + 1] \in S /\ f[k + 2] \in S
    BY <1>1, <1>2
  <2>2. <<k, f[k + 1], f[k + 2]>> \in (1 .. n) \X S \X S
    BY <1>1, <2>1
  <2>. QED  BY <2>2
<1>4. g \in [1 .. n + 2 -> S]
  <2>. HIDE DEF v
  <2>. QED  BY <1>2, <1>3
<1>5. ASSUME NEW i \in 1 .. n + 2, i > n - (m + 1)
      PROVE  g[i] = IF i > n THEN x ELSE G[i, g[i + 1], g[i + 2]]
  <2>. HIDE DEF v
  <2>1. CASE i = k
    <3>1. g[i] = v /\ g[i + 1] = f[k + 1] /\ g[i + 2] = f[k + 2] /\ ~(i > n)
      BY <1>1, <2>1
    <3>. QED  BY <2>1, <3>1, Zenon DEF v
  <2>2. CASE i # k
    <3>1. i > n - m /\ g[i] = f[i]
      BY <1>1, <1>5, <2>2
    <3>2. i <= n => g[i + 1] = f[i + 1] /\ g[i + 2] = f[i + 2]
      BY <1>1, <3>1
    <3>3. f[i] = IF i > n THEN x ELSE G[i, f[i + 1], f[i + 2]]
      BY <3>1, Zenon DEF From
    <3>4. i > n \/ i <= n
      OBVIOUS
    <3>. HIDE DEF g
    <3>. QED  BY <3>1, <3>2, <3>3, <3>4, Zenon
  <2>. QED  BY <2>1, <2>2
<1>. HIDE DEF g
<1>. QED  BY <1>4, <1>5, Zenon DEF From

LEMMA Recursion ==
  ASSUME NEW n \in Nat, NEW S, NEW x \in S, NEW G \in [(1 .. n) \X S \X S -> S]
  PROVE  \E f : Downwards(f, n, S, x, G)
<1>. DEFINE T == {m \in Nat : m <= n => \E f : From(f, n, S, x, G, m)}
<1>1. 0 \in T
  <2>. DEFINE f == [i \in 1 .. n + 2 |-> x]
  <2>1. /\ f \in [1 .. n + 2 -> S] /\ \A i \in 1 .. n + 2 : f[i] = x
        /\ \A i \in 1 .. n + 2 : i > n - 0 => i > n
    OBVIOUS
  <2>2. From(f, n, S, x, G, 0)
    <3>. HIDE DEF f
    <3>. QED  BY <2>1, Zenon DEF From
  <2>. HIDE DEF f
  <2>. QED  BY <2>2
<1>2. ASSUME NEW m \in T PROVE m + 1 \in T
  <2>. SUFFICES ASSUME m + 1 <= n PROVE \E f : From(f, n, S, x, G, m + 1)
    OBVIOUS
  <2>1. m \in Nat /\ \E f : From(f, n, S, x, G, m)
    OBVIOUS
  <2>2. PICK f : From(f, n, S, x, G, m)
    BY <2>1
  <2>. QED  BY <2>1, <2>2, OneMore
<1>3. T = Nat
  <2>1. T \in SUBSET Nat
    OBVIOUS
  <2>. HIDE DEF T
  <2>. QED  BY <1>1, <1>2, <2>1, SetInduction
<1>4. n \in T /\ n <= n
  BY <1>3
<1>5. PICK f : From(f, n, S, x, G, n)
  BY <1>4
<1>6. \A i \in 1 .. n + 2 : i > n - n
  OBVIOUS
<1>. QED  BY <1>5, <1>6, Zenon DEF From, Downwards

----------------------------------------------------------------------------
(* What a command line means, from each of its elements on.                *)

Elements == [dashes : 0 .. 2, text : Seq(STRING)]
TakenOptions == [option : Letters, value : Elements]
Readings == [options : Seq(TakenOptions), operands : Seq(Elements), failed : BOOLEAN]

LEMMA ElementType ==
  ASSUME NEW d \in 0 .. 2, NEW text \in Seq(STRING)
  PROVE  Element(d, text) \in Elements
BY DEF Element, Elements

LEMMA NoValueType == NoValue \in Elements
<1>1. <<>> \in Seq(STRING) /\ 0 \in 0 .. 2
  OBVIOUS
<1>. QED  BY <1>1, ElementType, Zenon DEF NoValue

LEMMA AlsoFact ==
  ASSUME NEW o \in Letters, NEW v \in Elements, NEW r \in Readings
  PROVE  /\ Also(o, v, r) \in Readings
         /\ Also(o, v, r).options = <<[option |-> o, value |-> v]>> \o r.options
         /\ Also(o, v, r).operands = r.operands
         /\ Also(o, v, r).failed = r.failed
<1>1. <<[option |-> o, value |-> v]>> \in Seq(TakenOptions)
  BY DEF TakenOptions
<1>2. r.options \in Seq(TakenOptions)
  BY DEF Readings
<1>. DEFINE s == <<[option |-> o, value |-> v]>> \o r.options
<1>3. s \in Seq(TakenOptions)
  BY <1>1, <1>2, ConcatProperties
<1>4. Also(o, v, r) = [r EXCEPT !.options = s]
  BY DEF Also
<1>. HIDE DEF s
<1>5. /\ Also(o, v, r) \in Readings
      /\ Also(o, v, r).options = s
      /\ Also(o, v, r).operands = r.operands
      /\ Also(o, v, r).failed = r.failed
  BY <1>3, <1>4 DEF Readings
<1>. QED  BY <1>5 DEF s

LEMMA OperandFact ==
  ASSUME NEW e \in Elements, NEW r \in Readings
  PROVE  /\ Operand(e, r) \in Readings
         /\ Operand(e, r).options = r.options
         /\ Operand(e, r).operands = <<e>> \o r.operands
         /\ Operand(e, r).failed = r.failed
<1>1. <<e>> \in Seq(Elements) /\ r.operands \in Seq(Elements)
  BY DEF Readings
<1>. DEFINE s == <<e>> \o r.operands
<1>3. s \in Seq(Elements)
  BY <1>1, ConcatProperties
<1>4. Operand(e, r) = [r EXCEPT !.operands = s]
  BY DEF Operand
<1>. HIDE DEF s
<1>5. /\ Operand(e, r) \in Readings
      /\ Operand(e, r).options = r.options
      /\ Operand(e, r).operands = s
      /\ Operand(e, r).failed = r.failed
  BY <1>3, <1>4 DEF Readings
<1>. QED  BY <1>5 DEF s

LEMMA NothingFact ==
  /\ NothingRead \in Readings /\ Mistake \in Readings
  /\ NothingRead.options = <<>> /\ NothingRead.operands = <<>> /\ NothingRead.failed = FALSE
  /\ Mistake.options = <<>> /\ Mistake.failed = TRUE
<1>1. <<>> \in Seq(TakenOptions) /\ <<>> \in Seq(Elements)
  OBVIOUS
<1>. QED  BY <1>1 DEF NothingRead, Mistake, Readings

LEMMA OnlyOperandsFact ==
  ASSUME NEW s \in Seq(Elements)
  PROVE  LET r == [NothingRead EXCEPT !.operands = s] IN
         /\ r \in Readings
         /\ r.options = <<>> /\ r.operands = s /\ r.failed = FALSE
<1>1. <<>> \in Seq(TakenOptions)
  OBVIOUS
<1>. QED  BY <1>1 DEF NothingRead, Readings

LEMMA ValueBehindType ==
  ASSUME NEW o \in Letters, NEW args \in Seq(Elements), NEW i \in 1 .. Len(args),
         NEW after \in Readings
  PROVE  ValueBehind(o, args, i, after) \in Readings
<1>1. CASE i = Len(args)
  BY <1>1, NothingFact DEF ValueBehind
<1>2. CASE i # Len(args)
  <2>1. args[i + 1] \in Elements
    BY <1>2
  <2>. QED  BY <1>2, <2>1, AlsoFact DEF ValueBehind
<1>. QED  BY <1>1, <1>2

(* The name and the value of a long option.                                *)
LEMMA NameFact ==
  ASSUME NEW text \in Seq(STRING)
  PROVE  /\ NameEnd(text) \in 0 .. Len(text)
         /\ NameOf(text) \in Seq(STRING)
         /\ ValueOf(text) \in Elements
<1>. DEFINE I == {i \in 1 .. Len(text) : text[i] = "="}
<1>1. NameEnd(text) = IF I # {} THEN First(I) ELSE 0
  BY DEF NameEnd, SelectInSeq, Min, First
<1>2. NameEnd(text) \in 0 .. Len(text)
  <2>1. I \in SUBSET Nat /\ I \subseteq 1 .. Len(text) /\ Len(text) \in Nat
    OBVIOUS
  <2>. HIDE DEF I
  <2>2. CASE I # {}
    <3>1. First(I) \in I
      BY <2>1, <2>2, FirstFact
    <3>2. NameEnd(text) = First(I) /\ First(I) \in 1 .. Len(text)
      BY <1>1, <2>1, <2>2, <3>1
    <3>. QED  BY <2>1, <3>2
  <2>3. CASE I = {}
    BY <1>1, <2>1, <2>3
  <2>. QED  BY <2>2, <2>3
<1>. HIDE DEF I
<1>3. NameOf(text) \in Seq(STRING)
  <2>1. CASE NameEnd(text) = 0
    BY <2>1 DEF NameOf
  <2>2. CASE NameEnd(text) # 0
    <3>1. SubSeq(text, 1, NameEnd(text) - 1) \in Seq(STRING)
      BY <1>2, <2>2, SubSeqFact
    <3>. QED  BY <2>2, <3>1 DEF NameOf
  <2>. QED  BY <2>1, <2>2
<1>4. ValueOf(text) \in Elements
  <2>1. SubSeq(text, NameEnd(text) + 1, Len(text)) \in Seq(STRING)
    BY <1>2, SubSeqFact
  <2>2. 0 \in 0 .. 2
    OBVIOUS
  <2>. QED  BY <2>1, <2>2, ElementType, Zenon DEF ValueOf
<1>. QED  BY <1>2, <1>3, <1>4

(* A long option means what getopt_long takes it for.                      *)
Named(name) == IF Exact(name) # {} THEN Exact(name) ELSE Begun(name)
LettersNamed(name) == {LongOptions[j].letter : j \in Named(name)}
LetterNamed(name) == LongOptions[First(Named(name))].letter

LEMMA NamedFact ==
  ASSUME NEW name \in Seq(STRING)
  PROVE  /\ Begun(name) # {} /\ ~Ambiguous(name) => /\ LettersNamed(name) = {LetterNamed(name)}
                                                    /\ LetterNamed(name) \in Letters
         /\ Begun(name) = {} \/ Ambiguous(name) =>
              ~(\E o \in LettersNamed(name) : LettersNamed(name) = {o})
<1>1. LongOptions \in Seq([name : Seq(STRING), letter : Letters])
  BY GetoptAssumption
<1>2. DOMAIN LongOptions \subseteq Nat /\ \A i \in DOMAIN LongOptions : LongOptions[i].letter \in Letters
  <2>1. Len(LongOptions) \in Nat /\ DOMAIN LongOptions = 1 .. Len(LongOptions)
    BY <1>1, LenProperties
  <2>2. \A i \in 1 .. Len(LongOptions) : LongOptions[i] \in [name : Seq(STRING), letter : Letters]
    BY <1>1, ElementOfSeq
  <2>. QED  BY <2>1, <2>2
<1>3. Begun(name) \subseteq DOMAIN LongOptions /\ Exact(name) \subseteq Begun(name)
  <2>1. ASSUME NEW i \in Exact(name) PROVE i \in Begun(name)
    BY <2>1 DEF Exact, Begun, IsPrefix
  <2>2. Begun(name) \subseteq DOMAIN LongOptions
    BY DEF Begun
  <2>. QED  BY <2>1, <2>2
<1>4. \A i, j \in Exact(name) : i = j
  BY GetoptAssumption DEF Exact
<1>5. Begun(name) # {} =>
        First(Named(name)) \in Named(name) /\ \A y \in Named(name) : First(Named(name)) <= y
  BY <1>2, <1>3, FirstFact DEF Named
<1>6. LettersNamed(name) = {LongOptions[j].letter : j \in Named(name)}
  BY DEF LettersNamed
<1>7. Named(name) \subseteq DOMAIN LongOptions
  BY <1>3 DEF Named
<1>8. CASE Begun(name) = {}
  BY <1>3, <1>6, <1>8 DEF Named
<1>9. CASE Begun(name) # {} /\ Exact(name) # {}
  <2>1. ~Ambiguous(name)
    BY <1>9 DEF Ambiguous
  <2>2. Named(name) = Exact(name)
    BY <1>9 DEF Named
  <2>3. LettersNamed(name) = {LetterNamed(name)}
    BY <1>4, <1>5, <1>6, <1>9, <2>2 DEF LetterNamed
  <2>. QED  BY <1>2, <1>5, <1>7, <1>9, <2>1, <2>3 DEF LetterNamed
<1>10. CASE Begun(name) # {} /\ Exact(name) = {}
  <2>1. Named(name) = Begun(name)
    BY <1>10 DEF Named
  <2>2. LetterNamed(name) = LongOptions[First(Begun(name))].letter
    BY <2>1 DEF LetterNamed
  <2>3. LetterNamed(name) \in LettersNamed(name) /\ LetterNamed(name) \in Letters
    BY <1>2, <1>5, <1>6, <1>7, <1>10 DEF LetterNamed
  <2>4. Ambiguous(name) <=>
          \E i \in Begun(name) : LongOptions[i].letter # LetterNamed(name)
    BY <1>10, <2>2 DEF Ambiguous
  <2>5. \A i \in Begun(name) : LongOptions[i].letter \in LettersNamed(name)
    BY <1>6, <2>1
  <2>6. \A o \in LettersNamed(name) : \E i \in Begun(name) : LongOptions[i].letter = o
    BY <1>6, <2>1
  <2>. QED  BY <1>10, <2>3, <2>4, <2>5, <2>6
<1>. QED  BY <1>8, <1>9, <1>10

(* LongMeaning in the terms of LongOption.                                 *)
LongMeans(r, args, i, rest, after) ==
  LET text == args[i].text
      name == NameOf(text)
      o == LetterNamed(name)
  IN r = IF Begun(name) = {} \/ Ambiguous(name) THEN Mistake
         ELSE IF NameEnd(text) # 0
         THEN IF o \in WithValue THEN Also(o, ValueOf(text), rest) ELSE Mistake
         ELSE IF o \in WithValue THEN ValueBehind(o, args, i, after)
         ELSE Also(o, NoValue, rest)

LEMMA LongFact ==
  ASSUME NEW args \in Seq(Elements), NEW i \in 1 .. Len(args), NEW rest \in Readings,
         NEW after \in Readings
  PROVE  LongMeans(LongMeaning(args, i, rest, after), args, i, rest, after)
<1>. DEFINE text == args[i].text
            name == NameOf(text)
            o == LetterNamed(name)
            meant == LettersNamed(name)
            chosen == CHOOSE c \in meant : TRUE
            valued == NameEnd(text) # 0
<1>1. text \in Seq(STRING)
  <2>1. args[i] \in Elements
    OBVIOUS
  <2>. QED  BY <2>1 DEF Elements
<1>2. name \in Seq(STRING)
  BY <1>1, NameFact
<1>3. LongMeaning(args, i, rest, after) =
        IF ~(\E c \in meant : meant = {c}) \/ (valued /\ chosen \notin WithValue) THEN Mistake
        ELSE IF valued THEN Also(chosen, ValueOf(text), rest)
        ELSE IF chosen \in WithValue THEN ValueBehind(chosen, args, i, after)
        ELSE Also(chosen, NoValue, rest)
  BY DEF LongMeaning, LettersNamed, Named
<1>4. /\ Begun(name) # {} /\ ~Ambiguous(name) => meant = {o}
      /\ Begun(name) = {} \/ Ambiguous(name) => ~(\E c \in meant : meant = {c})
  BY <1>2, NamedFact
<1>5. meant = {o} => chosen = o /\ \E c \in meant : meant = {c}
  <2>. HIDE DEF meant, o
  <2>. QED  OBVIOUS
<1>. HIDE DEF meant, o, chosen, name, text, valued
<1>6. LongMeaning(args, i, rest, after) =
              IF Begun(name) = {} \/ Ambiguous(name) THEN Mistake
              ELSE IF valued
              THEN IF o \in WithValue THEN Also(o, ValueOf(text), rest) ELSE Mistake
              ELSE IF o \in WithValue THEN ValueBehind(o, args, i, after)
              ELSE Also(o, NoValue, rest)
  <2>1. CASE Begun(name) = {} \/ Ambiguous(name)
    BY <1>3, <1>4, <2>1
  <2>2. CASE ~(Begun(name) = {} \/ Ambiguous(name))
    BY <1>3, <1>4, <1>5, <2>2
  <2>. QED  BY <2>1, <2>2
<1>. QED  BY <1>6 DEF LongMeans, o, name, text, valued

LEMMA LongType ==
  ASSUME NEW args \in Seq(Elements), NEW i \in 1 .. Len(args), NEW rest \in Readings,
         NEW after \in Readings
  PROVE  LongMeaning(args, i, rest, after) \in Readings
<1>. DEFINE text == args[i].text
            name == NameOf(text)
            o == LetterNamed(name)
<1>0. LongMeans(LongMeaning(args, i, rest, after), args, i, rest, after)
  BY LongFact
<1>1. text \in Seq(STRING)
  <2>1. args[i] \in Elements
    OBVIOUS
  <2>. QED  BY <2>1 DEF Elements
<1>2. name \in Seq(STRING) /\ ValueOf(text) \in Elements
  BY <1>1, NameFact
<1>3. CASE Begun(name) = {} \/ Ambiguous(name)
  BY <1>0, <1>3, NothingFact DEF LongMeans
<1>4. CASE ~(Begun(name) = {} \/ Ambiguous(name))
  <2>1. o \in Letters
    BY <1>2, <1>4, NamedFact
  <2>. HIDE DEF o
  <2>2. /\ Also(o, ValueOf(text), rest) \in Readings /\ Also(o, NoValue, rest) \in Readings
        /\ ValueBehind(o, args, i, after) \in Readings
    BY <1>2, <2>1, AlsoFact, NoValueType, ValueBehindType
  <2>. QED  BY <1>0, <1>4, <2>2, NothingFact DEF LongMeans, o
<1>. QED  BY <1>3, <1>4

(* A cluster of short options, letter by letter.                           *)
LetterMeaning(args, i, k, rest, after, next) ==
  LET text == args[i].text IN
  IF text[k] \notin Letters THEN Mistake
  ELSE IF text[k] \notin WithValue THEN Also(text[k], NoValue, next)
  ELSE IF k = Len(text) THEN ValueBehind(text[k], args, i, after)
  ELSE Also(text[k], Element(0, SubSeq(text, k + 1, Len(text))), rest)

LEMMA LetterType ==
  ASSUME NEW args \in Seq(Elements), NEW i \in 1 .. Len(args), NEW rest \in Readings,
         NEW after \in Readings, NEW next \in Readings, NEW k \in 1 .. Len(args[i].text)
  PROVE  LetterMeaning(args, i, k, rest, after, next) \in Readings
<1>. DEFINE text == args[i].text
            value == Element(0, SubSeq(text, k + 1, Len(text)))
            o == text[k]
<1>1. text \in Seq(STRING)
  <2>1. args[i] \in Elements
    OBVIOUS
  <2>. QED  BY <2>1 DEF Elements
<1>2. value \in Elements
  <2>1. SubSeq(text, k + 1, Len(text)) \in Seq(STRING) /\ 0 \in 0 .. 2
    BY <1>1, SubSeqFact
  <2>. QED  BY <2>1, ElementType, Zenon
<1>3. LetterMeaning(args, i, k, rest, after, next) =
        IF o \notin Letters THEN Mistake
        ELSE IF o \notin WithValue THEN Also(o, NoValue, next)
        ELSE IF k = Len(text) THEN ValueBehind(o, args, i, after)
        ELSE Also(o, value, rest)
  BY DEF LetterMeaning
<1>. HIDE DEF o, value
<1>4. CASE o \in Letters
  <2>1. /\ Also(o, NoValue, next) \in Readings /\ Also(o, value, rest) \in Readings
        /\ ValueBehind(o, args, i, after) \in Readings
    BY <1>2, <1>4, AlsoFact, NoValueType, ValueBehindType
  <2>. QED  BY <1>3, <1>4, <2>1
<1>5. CASE o \notin Letters
  BY <1>3, <1>5, NothingFact
<1>. QED  BY <1>4, <1>5

Spelled(c, args, i, rest, after) ==
  LET len == Len(args[i].text) IN
  \A k \in 1 .. len + 1 :
    /\ c[k] \in Readings
    /\ c[k] = IF k = len + 1 THEN rest
              ELSE LetterMeaning(args, i, k, rest, after, c[k + 1])

LEMMA ClusterFact ==
  ASSUME NEW args \in Seq(Elements), NEW i \in 1 .. Len(args), NEW rest \in Readings,
         NEW after \in Readings
  PROVE  Spelled(ClusterMeaning(args, i, rest, after), args, i, rest, after)
<1>. DEFINE text == args[i].text
            n == Len(text)
            G == [t \in (1 .. n) \X Readings \X Readings |->
                    LetterMeaning(args, i, t[1], rest, after, t[2])]
            from[k \in 1 .. n + 1] ==
              IF k = n + 1 THEN rest
              ELSE IF text[k] \notin Letters THEN Mistake
              ELSE IF text[k] \notin WithValue THEN Also(text[k], NoValue, from[k + 1])
              ELSE IF k = n THEN ValueBehind(text[k], args, i, after)
              ELSE Also(text[k], Element(0, SubSeq(text, k + 1, n)), rest)
<1>1. n \in Nat
  <2>1. args[i] \in Elements
    OBVIOUS
  <2>. QED  BY <2>1 DEF Elements
<1>2. G \in [(1 .. n) \X Readings \X Readings -> Readings]
  BY LetterType
<1>3. PICK f : Downwards(f, n, Readings, rest, G)
  <2>. HIDE DEF n, G
  <2>. QED  BY <1>1, <1>2, Recursion
<1>. DEFINE g == [k \in 1 .. n + 1 |-> f[k]]
<1>4. ASSUME NEW k \in 1 .. n + 1
      PROVE  /\ g[k] \in Readings
             /\ g[k] = IF k = n + 1 THEN rest
                       ELSE LetterMeaning(args, i, k, rest, after, g[k + 1])
  <2>1. k \in 1 .. n + 2 /\ g[k] = f[k]
    BY <1>1
  <2>2. f[k] \in Readings /\ f[k] = IF k > n THEN rest ELSE G[k, f[k + 1], f[k + 2]]
    BY <1>3, <2>1 DEF Downwards
  <2>3. CASE k = n + 1
    <3>1. k > n
      BY <1>1, <2>3
    <3>. HIDE DEF g, G, n
    <3>. QED  BY <2>1, <2>2, <2>3, <3>1
  <2>4. CASE k # n + 1
    <3>1. k \in 1 .. n /\ k + 1 \in 1 .. n + 1 /\ k + 1 \in 1 .. n + 2 /\ k + 2 \in 1 .. n + 2 /\ ~(k > n)
      BY <1>1, <2>4
    <3>2. f[k + 1] \in Readings /\ f[k + 2] \in Readings /\ g[k + 1] = f[k + 1]
      BY <1>3, <3>1 DEF Downwards
    <3>3. <<k, f[k + 1], f[k + 2]>> \in (1 .. n) \X Readings \X Readings
      BY <3>1, <3>2
    <3>4. G[k, f[k + 1], f[k + 2]] = LetterMeaning(args, i, k, rest, after, f[k + 1])
      BY <3>3
    <3>. HIDE DEF g, G, n
    <3>. QED  BY <2>1, <2>2, <2>4, <3>1, <3>2, <3>4
  <2>. QED  BY <2>3, <2>4
<1>5. g = [k \in 1 .. n + 1 |->
             IF k = n + 1 THEN rest
             ELSE IF text[k] \notin Letters THEN Mistake
             ELSE IF text[k] \notin WithValue THEN Also(text[k], NoValue, g[k + 1])
             ELSE IF k = n THEN ValueBehind(text[k], args, i, after)
             ELSE Also(text[k], Element(0, SubSeq(text, k + 1, n)), rest)]
  <2>1. DOMAIN g = 1 .. n + 1 /\ g = [k \in 1 .. n + 1 |-> g[k]]
    OBVIOUS
  <2>. HIDE DEF g
  <2>. QED  BY <1>4, <2>1 DEF LetterMeaning
<1>6. from = [k \in 1 .. n + 1 |->
             IF k = n + 1 THEN rest
             ELSE IF text[k] \notin Letters THEN Mistake
             ELSE IF text[k] \notin WithValue THEN Also(text[k], NoValue, from[k + 1])
             ELSE IF k = n THEN ValueBehind(text[k], args, i, after)
             ELSE Also(text[k], Element(0, SubSeq(text, k + 1, n)), rest)]
  <2>. HIDE DEF g
  <2>. QED  BY <1>5
<1>7. ClusterMeaning(args, i, rest, after) = from
  BY DEF ClusterMeaning
<1>8. \A k \in 1 .. n + 1 :
        from[k] = IF k = n + 1 THEN rest
                  ELSE LetterMeaning(args, i, k, rest, after, from[k + 1])
  <2>. HIDE DEF from, g, G
  <2>. QED  BY <1>6 DEF LetterMeaning
<1>. HIDE DEF from, g, G
<1>. DEFINE K == {k \in 1 .. n + 1 : from[k] \in Readings}
<1>9. n + 1 \in K
  BY <1>1, <1>8
<1>10. ASSUME NEW k \in 1 .. n, k + 1 \in K PROVE k \in K
  <2>1. k \in 1 .. n + 1 /\ k # n + 1 /\ from[k + 1] \in Readings
    BY <1>1, <1>10
  <2>2. from[k] = LetterMeaning(args, i, k, rest, after, from[k + 1])
    BY <1>8, <2>1
  <2>. DEFINE next == from[k + 1]
  <2>3. next \in Readings
    BY <2>1
  <2>. HIDE DEF next
  <2>4. LetterMeaning(args, i, k, rest, after, next) \in Readings
    BY <2>3, LetterType
  <2>. QED  BY <2>1, <2>2, <2>4 DEF next
<1>11. \A k \in 1 .. n + 1 : k \in K
  <2>. HIDE DEF K, n
  <2>. QED  BY <1>1, <1>9, <1>10, DownInduction
<1>12. \A k \in 1 .. n + 1 : from[k] \in Readings
  BY <1>11
<1>. QED  BY <1>7, <1>8, <1>12 DEF Spelled

LEMMA ElementMeaningType ==
  ASSUME NEW args \in Seq(Elements), NEW i \in 1 .. Len(args), NEW rest \in Readings,
         NEW after \in Readings, NEW order
  PROVE  ElementMeaning(args, i, rest, after, order) \in Readings
<1>. DEFINE from == IF IsOption(args[i]) THEN i + 1 ELSE i
            s == SubSeq(args, from, Len(args))
            text == args[i].text
            c == ClusterMeaning(args, i, rest, after)[1]
<1>0. args[i] \in Elements /\ Len(args) \in Nat
  OBVIOUS
<1>1. s \in Seq(Elements)
  <2>1. from \in 1 .. Len(args) + 1 /\ from <= Len(args) + 1 /\ Len(args) \in 0 .. Len(args)
    BY <1>0
  <2>. HIDE DEF from
  <2>. QED  BY <2>1, SubSeqFact
<1>2. [NothingRead EXCEPT !.operands = s] \in Readings
  <2>. HIDE DEF s
  <2>. QED  BY <1>1, OnlyOperandsFact
<1>3. c \in Readings
  <2>1. Len(text) \in Nat
    BY <1>0 DEF Elements
  <2>2. 1 \in 1 .. Len(text) + 1
    BY <2>1
  <2>. QED  BY <2>2, ClusterFact DEF Spelled
<1>4. LongMeaning(args, i, rest, after) \in Readings /\ Operand(args[i], rest) \in Readings
  BY <1>0, LongType, OperandFact
<1>5. ElementMeaning(args, i, rest, after, order) \in
        {[NothingRead EXCEPT !.operands = s], Operand(args[i], rest),
         LongMeaning(args, i, rest, after), c}
  <2>. HIDE DEF c, s
  <2>. QED  BY DEF ElementMeaning, c, s
<1>. HIDE DEF c, s
<1>. QED  BY <1>2, <1>3, <1>4, <1>5

LEMMA MeaningFact ==
  ASSUME NEW args \in Seq(Elements), NEW order
  PROVE  LET M == MeaningFrom(args, order)
             n == Len(args)
         IN /\ \A i \in 1 .. n + 2 : M[i] \in Readings
            /\ M[n + 1] = NothingRead
            /\ \A i \in 1 .. n : M[i] = ElementMeaning(args, i, M[i + 1], M[i + 2], order)
<1>. DEFINE n == Len(args)
            G == [t \in (1 .. n) \X Readings \X Readings |->
                    ElementMeaning(args, t[1], t[2], t[3], order)]
            from[i \in 1 .. n + 2] ==
              IF i > n THEN NothingRead
              ELSE ElementMeaning(args, i, from[i + 1], from[i + 2], order)
<1>1. n \in Nat
  OBVIOUS
<1>2. G \in [(1 .. n) \X Readings \X Readings -> Readings]
  BY ElementMeaningType
<1>3. PICK f : Downwards(f, n, Readings, NothingRead, G)
  <2>. HIDE DEF n, G
  <2>. QED  BY <1>1, <1>2, Recursion, NothingFact
<1>4. ASSUME NEW i \in 1 .. n + 2
      PROVE  /\ f[i] \in Readings
             /\ f[i] = IF i > n THEN NothingRead
                       ELSE ElementMeaning(args, i, f[i + 1], f[i + 2], order)
  <2>1. f[i] \in Readings /\ f[i] = IF i > n THEN NothingRead ELSE G[i, f[i + 1], f[i + 2]]
    BY <1>3 DEF Downwards
  <2>2. CASE i > n
    <3>. HIDE DEF G, n
    <3>. QED  BY <2>1, <2>2
  <2>3. CASE ~(i > n)
    <3>1. i \in 1 .. n /\ i + 1 \in 1 .. n + 2 /\ i + 2 \in 1 .. n + 2
      BY <1>1, <2>3
    <3>2. f[i + 1] \in Readings /\ f[i + 2] \in Readings
      BY <1>3, <3>1 DEF Downwards
    <3>3. <<i, f[i + 1], f[i + 2]>> \in (1 .. n) \X Readings \X Readings
      BY <3>1, <3>2
    <3>4. G[i, f[i + 1], f[i + 2]] = ElementMeaning(args, i, f[i + 1], f[i + 2], order)
      BY <3>3
    <3>. HIDE DEF G, n
    <3>. QED  BY <2>1, <2>3, <3>4
  <2>. QED  BY <2>2, <2>3
<1>5. f = [i \in 1 .. n + 2 |-> IF i > n THEN NothingRead
                                ELSE ElementMeaning(args, i, f[i + 1], f[i + 2], order)]
  <2>1. f = [i \in 1 .. n + 2 |-> f[i]]
    BY <1>3 DEF Downwards
  <2>. HIDE DEF G, n
  <2>. QED  BY <1>4, <2>1
<1>6. from = [i \in 1 .. n + 2 |-> IF i > n THEN NothingRead
                                   ELSE ElementMeaning(args, i, from[i + 1], from[i + 2], order)]
  BY <1>5
<1>7. MeaningFrom(args, order) = from
  BY DEF MeaningFrom
<1>8. \A i \in 1 .. n + 2 :
        from[i] = IF i > n THEN NothingRead
                  ELSE ElementMeaning(args, i, from[i + 1], from[i + 2], order)
  <2>. HIDE DEF from, G
  <2>. QED  BY <1>6
<1>. HIDE DEF from, G
<1>9. from[n + 1] = NothingRead /\ from[n + 2] = NothingRead
  <2>1. n + 1 \in 1 .. n + 2 /\ n + 2 \in 1 .. n + 2 /\ n + 1 > n /\ n + 2 > n
    BY <1>1
  <2>. HIDE DEF n
  <2>. QED  BY <1>8, <2>1, Zenon
<1>10. \A i \in 1 .. n : from[i] = ElementMeaning(args, i, from[i + 1], from[i + 2], order)
  <2>1. \A i \in 1 .. n : i \in 1 .. n + 2 /\ ~(i > n)
    BY <1>1
  <2>. HIDE DEF n
  <2>. QED  BY <1>8, <2>1, Zenon
<1>. DEFINE K == {k \in 1 .. n + 1 : from[k] \in Readings /\ from[k + 1] \in Readings}
<1>11. n + 1 \in K
  <2>1. n + 1 \in 1 .. n + 1 /\ (n + 1) + 1 = n + 2
    BY <1>1
  <2>. HIDE DEF n
  <2>. QED  BY <1>9, <2>1, NothingFact
<1>12. ASSUME NEW k \in 1 .. n, k + 1 \in K PROVE k \in K
  <2>. DEFINE rest == from[k + 1]
              after == from[k + 2]
  <2>1. k \in 1 .. n + 1 /\ (k + 1) + 1 = k + 2
    BY <1>1
  <2>2. rest \in Readings /\ after \in Readings
    BY <1>12, <2>1
  <2>3. from[k] = ElementMeaning(args, k, rest, after, order)
    BY <1>10
  <2>. HIDE DEF rest, after
  <2>4. ElementMeaning(args, k, rest, after, order) \in Readings
    BY <2>2, ElementMeaningType
  <2>. QED  BY <2>1, <2>2, <2>3, <2>4 DEF rest
<1>13. \A k \in 1 .. n + 1 : k \in K
  <2>. HIDE DEF K, n
  <2>. QED  BY <1>1, <1>11, <1>12, DownInduction
<1>14. ASSUME NEW i \in 1 .. n + 2 PROVE from[i] \in Readings
  <2>1. CASE i \in 1 .. n + 1
    BY <1>13, <2>1
  <2>2. CASE i = n + 2
    BY <1>9, <2>2, NothingFact
  <2>. QED  BY <1>1, <2>1, <2>2
<1>. QED  BY <1>7, <1>9, <1>10, <1>14

----------------------------------------------------------------------------
(* The exchange of two segments puts the second before the first.          *)

RotatedAt(args, bottom, middle, top, k) ==
  IF k < bottom \/ k >= top THEN args[k]
  ELSE IF k < bottom + (top - middle) THEN args[k - bottom + middle]
  ELSE args[k - (top - middle)]

Placed(S, n, middle) ==
  {s \in [args : Seq(S), bottom : Nat, top : Nat] :
     /\ Len(s.args) = n
     /\ 1 <= s.bottom /\ s.bottom <= middle /\ middle <= s.top /\ s.top <= n + 1}

LEMMA PlacedFact ==
  ASSUME NEW S, NEW n \in Nat, NEW middle, NEW s
  PROVE  s \in Placed(S, n, middle) <=>
           /\ s \in [args : Seq(S), bottom : Nat, top : Nat]
           /\ Len(s.args) = n
           /\ 1 <= s.bottom /\ s.bottom <= middle /\ middle <= s.top /\ s.top <= n + 1
BY DEF Placed

IsSwapped(w, S, args, i, j, len) ==
  /\ w \in Seq(S) /\ Len(w) = Len(args)
  /\ \A k \in 1 .. Len(args) :
       w[k] = IF i <= k /\ k < i + len THEN args[k - i + j]
              ELSE IF j <= k /\ k < j + len THEN args[k - j + i]
              ELSE args[k]

LEMMA SwappedFact ==
  ASSUME NEW S, NEW args \in Seq(S), NEW i \in Nat, NEW j \in Nat, NEW len \in Nat,
         1 <= i, i + len <= j, j + len <= Len(args) + 1
  PROVE  IsSwapped(Swapped(args, i, j, len), S, args, i, j, len)
<1>. DEFINE n == Len(args)
            w == Swapped(args, i, j, len)
<1>1. n \in Nat /\ DOMAIN args = 1 .. n /\ \A k \in 1 .. n : args[k] \in S
  OBVIOUS
<1>2. w = [k \in 1 .. n |-> IF k \in i .. i + len - 1 THEN args[k - i + j]
                            ELSE IF k \in j .. j + len - 1 THEN args[k - j + i]
                            ELSE args[k]]
  BY <1>1 DEF Swapped
<1>. HIDE DEF n, w
<1>3. j + len <= n + 1
  BY DEF n
<1>4. DOMAIN w = 1 .. n /\ w = [k \in 1 .. n |-> w[k]]
  BY <1>2
<1>5. ASSUME NEW k \in 1 .. n
      PROVE  /\ w[k] \in S
             /\ w[k] = IF i <= k /\ k < i + len THEN args[k - i + j]
                       ELSE IF j <= k /\ k < j + len THEN args[k - j + i]
                       ELSE args[k]
  <2>1. w[k] = IF k \in i .. i + len - 1 THEN args[k - i + j]
               ELSE IF k \in j .. j + len - 1 THEN args[k - j + i]
               ELSE args[k]
    BY <1>2
  <2>2. (k \in i .. i + len - 1 <=> i <= k /\ k < i + len)
        /\ (k \in j .. j + len - 1 <=> j <= k /\ k < j + len)
    BY <1>1
  <2>3. /\ i <= k /\ k < i + len => k - i + j \in 1 .. n
        /\ j <= k /\ k < j + len => k - j + i \in 1 .. n
    BY <1>1, <1>3
  <2>. QED  BY <1>1, <2>1, <2>2, <2>3
<1>6. w \in Seq(S) /\ Len(w) = n
  <2>1. w \in [1 .. n -> S]
    BY <1>4, <1>5
  <2>. QED  BY <1>1, <2>1
<1>. QED  BY <1>5, <1>6 DEF IsSwapped, n, w

(* One swap: less is left to be put right, unless nothing is.              *)
Nearer(z, s, S, n, middle) ==
  /\ z \in Placed(S, n, middle)
  /\ \A k \in 1 .. n : RotatedAt(z.args, z.bottom, middle, z.top, k)
                         = RotatedAt(s.args, s.bottom, middle, s.top, k)
  /\ s.bottom < middle /\ middle < s.top => z.top - z.bottom < s.top - s.bottom
  /\ ~(s.bottom < middle /\ middle < s.top) => z = s

LEMMA SwapShorterFact ==
  ASSUME NEW S, NEW n \in Nat, NEW middle \in Nat, NEW s \in Placed(S, n, middle)
  PROVE  Nearer(SwapShorter(s, middle), s, S, n, middle)
<1>. DEFINE z == SwapShorter(s, middle)
            args == s.args
            b == s.bottom
            t == s.top
            low == middle - b
            high == t - middle
<1>1. /\ args \in Seq(S) /\ b \in Nat /\ t \in Nat /\ Len(args) = n
      /\ 1 <= b /\ b <= middle /\ middle <= t /\ t <= n + 1
  BY PlacedFact
<1>2. z = IF low <= 0 \/ high <= 0 THEN s
          ELSE IF high > low
          THEN Segments(Swapped(args, b, t - low, low), b, t - low)
          ELSE Segments(Swapped(args, b, middle, high), b + high, t)
  BY DEF SwapShorter
<1>. HIDE DEF z, args, b, t
<1>3. CASE ~(b < middle /\ middle < t)
  <2>1. z = s
    BY <1>1, <1>2, <1>3
  <2>. QED  BY <1>3, <2>1 DEF Nearer, z, b, t
<1>4. CASE b < middle /\ middle < t /\ high > low
  <2>. DEFINE w == Swapped(args, b, t - low, low)
  <2>1. z = Segments(w, b, t - low)
    BY <1>1, <1>2, <1>4
  <2>2. /\ t - low \in Nat /\ low \in Nat /\ b + low <= t - low /\ (t - low) + low <= n + 1
        /\ middle <= t - low /\ t - low <= n + 1 /\ low > 0
    BY <1>1, <1>4
  <2>3. /\ w \in Seq(S) /\ Len(w) = n
        /\ \A k \in 1 .. n : w[k] = IF b <= k /\ k < b + low THEN args[k - b + (t - low)]
                                    ELSE IF t - low <= k /\ k < (t - low) + low
                                    THEN args[k - (t - low) + b]
                                    ELSE args[k]
    <3>. DEFINE p == t - low
    <3>1. /\ b \in Nat /\ p \in Nat /\ low \in Nat /\ 1 <= b /\ b + low <= p
          /\ p + low <= Len(args) + 1
      BY <1>1, <2>2
    <3>. HIDE DEF low, p
    <3>2. IsSwapped(Swapped(args, b, p, low), S, args, b, p, low)
      BY <1>1, <3>1, SwappedFact
    <3>. QED  BY <1>1, <3>2 DEF IsSwapped, p
  <2>. HIDE DEF w
  <2>4. z.args = w /\ z.bottom = b /\ z.top = t - low
        /\ z \in [args : Seq(S), bottom : Nat, top : Nat]
    <3>. DEFINE p == t - low
    <3>1. z = Segments(w, b, p) /\ p \in Nat /\ b \in Nat /\ w \in Seq(S)
      BY <1>1, <2>1, <2>2, <2>3
    <3>. HIDE DEF p
    <3>2. /\ z.args = w /\ z.bottom = b /\ z.top = p
          /\ z \in [args : Seq(S), bottom : Nat, top : Nat]
      BY <3>1 DEF Segments
    <3>. QED  BY <3>2 DEF p
  <2>5. z \in Placed(S, n, middle)
    BY SMTT(30), <1>1, <2>2, <2>3, <2>4, PlacedFact
  <2>6. ASSUME NEW k \in 1 .. n
        PROVE  RotatedAt(w, b, middle, t - low, k) = RotatedAt(args, b, middle, t, k)
    <3>1. CASE k < b \/ k >= t
      <4>1. w[k] = args[k]
        <5>1. /\ ~(b <= k /\ k < b + low)
              /\ ~(t - low <= k /\ k < (t - low) + low)
          BY <1>1, <1>4, <2>2, <3>1
        <5>. HIDE DEF low
        <5>. QED  BY <2>3, <5>1
      <4>2. RotatedAt(w, b, middle, t - low, k) = w[k]
        BY <1>1, <1>4, <2>2, <3>1 DEF RotatedAt
      <4>3. RotatedAt(args, b, middle, t, k) = args[k]
        BY <3>1 DEF RotatedAt
      <4>. QED  BY <4>1, <4>2, <4>3
    <3>2. CASE t - low <= k /\ k < t
      BY <1>1, <1>4, <2>2, <2>3, <3>2 DEF RotatedAt
    <3>3. CASE b <= k /\ k < b + (t - low - middle)
      <4>1. k - b + middle \in 1 .. n /\ ~(k - b + middle < b + low) /\ k - b + middle < t - low
        BY <1>1, <1>4, <2>2, <3>3
      <4>2. w[k - b + middle] = args[k - b + middle]
        BY <2>3, <4>1, <1>1
      <4>3. RotatedAt(w, b, middle, t - low, k) = w[k - b + middle]
        BY <1>1, <1>4, <2>2, <3>3 DEF RotatedAt
      <4>4. ~(k < b \/ k >= t) /\ k < b + (t - middle)
        BY <1>1, <1>4, <2>2, <3>3
      <4>5. RotatedAt(args, b, middle, t, k) = args[k - b + middle]
        BY <4>4 DEF RotatedAt
      <4>. QED  BY <4>2, <4>3, <4>5
    <3>4. CASE b + (t - low - middle) <= k /\ k < t - low
      <4>. DEFINE m == k - ((t - low) - middle)
      <4>1. m \in 1 .. n /\ b <= m /\ m < middle
        BY <1>1, <1>4, <2>2, <3>4
      <4>2. w[m] = args[m - b + (t - low)]
        BY <2>3, <4>1, <1>1
      <4>3. RotatedAt(w, b, middle, t - low, k) = w[m]
        BY <1>1, <1>4, <2>2, <3>4 DEF RotatedAt
      <4>4. m - b + (t - low) = IF k < b + (t - middle) THEN k - b + middle ELSE k - (t - middle)
        BY <1>1, <1>4, <2>2, <3>4
      <4>5. k < b + (t - middle)
        BY <1>1, <1>4, <2>2, <3>4
      <4>. HIDE DEF m
      <4>6. RotatedAt(args, b, middle, t, k) = args[k - b + middle]
        BY <1>1, <1>4, <2>2, <3>4, <4>5 DEF RotatedAt
      <4>. QED  BY <4>2, <4>3, <4>4, <4>5, <4>6
    <3>. QED  BY <1>1, <2>2, <3>1, <3>2, <3>3, <3>4
  <2>7. z.top - z.bottom < t - b
    BY <1>1, <2>2, <2>4
  <2>8. Nearer(z, s, S, n, middle)
    BY <1>4, <2>4, <2>5, <2>6, <2>7 DEF Nearer, b, t, args
  <2>. QED  BY <2>8 DEF z
<1>5. CASE b < middle /\ middle < t /\ ~(high > low)
  <2>. DEFINE w == Swapped(args, b, middle, high)
  <2>1. z = Segments(w, b + high, t)
    BY <1>1, <1>2, <1>5
  <2>2. /\ high \in Nat /\ b + high <= middle /\ middle + high <= n + 1 /\ middle + high = t
        /\ b + high \in Nat /\ 1 <= b + high /\ high > 0
    BY <1>1, <1>5
  <2>3. /\ w \in Seq(S) /\ Len(w) = n
        /\ \A k \in 1 .. n : w[k] = IF b <= k /\ k < b + high THEN args[k - b + middle]
                                    ELSE IF middle <= k /\ k < middle + high
                                    THEN args[k - middle + b]
                                    ELSE args[k]
    <3>1. /\ b \in Nat /\ high \in Nat /\ 1 <= b /\ b + high <= middle
          /\ middle + high <= Len(args) + 1
      BY <1>1, <2>2
    <3>2. middle \in Nat
      OBVIOUS
    <3>. HIDE DEF high
    <3>3. IsSwapped(Swapped(args, b, middle, high), S, args, b, middle, high)
      BY <1>1, <3>1, <3>2, SwappedFact
    <3>. QED  BY <1>1, <3>3 DEF IsSwapped
  <2>. HIDE DEF w
  <2>4. z.args = w /\ z.bottom = b + high /\ z.top = t
        /\ z \in [args : Seq(S), bottom : Nat, top : Nat]
    BY <1>1, <2>1, <2>2, <2>3 DEF Segments
  <2>5. z \in Placed(S, n, middle)
    BY <1>1, <2>2, <2>3, <2>4, PlacedFact
  <2>6. ASSUME NEW k \in 1 .. n
        PROVE  RotatedAt(w, b + high, middle, t, k) = RotatedAt(args, b, middle, t, k)
    <3>1. CASE k < b \/ k >= t
      <4>1. w[k] = args[k]
        BY <1>1, <1>5, <2>2, <2>3, <3>1
      <4>2. RotatedAt(w, b + high, middle, t, k) = w[k]
        BY <1>1, <1>5, <2>2, <3>1 DEF RotatedAt
      <4>3. RotatedAt(args, b, middle, t, k) = args[k]
        BY <3>1 DEF RotatedAt
      <4>. QED  BY <4>1, <4>2, <4>3
    <3>2. CASE b <= k /\ k < b + high
      BY <1>1, <1>5, <2>2, <2>3, <3>2 DEF RotatedAt
    <3>3. CASE b + high <= k /\ k < b + high + high /\ k < t
      <4>. DEFINE m == k - (b + high) + middle
      <4>1. m \in 1 .. n /\ middle <= m /\ m < middle + high
        BY <1>1, <1>5, <2>2, <3>3
      <4>2. w[m] = args[m - middle + b]
        BY <2>3, <4>1, <1>1, <2>2, <1>5
      <4>3. RotatedAt(w, b + high, middle, t, k) = w[m]
        BY <1>1, <1>5, <2>2, <3>3 DEF RotatedAt
      <4>4. m - middle + b = k - (t - middle) /\ ~(k < b + (t - middle))
        BY <1>1, <1>5, <2>2, <3>3
      <4>. HIDE DEF m
      <4>6. RotatedAt(args, b, middle, t, k) = args[k - (t - middle)]
        BY <1>1, <1>5, <2>2, <3>3, <4>4 DEF RotatedAt
      <4>. QED  BY <4>2, <4>3, <4>4, <4>6
    <3>4. CASE b + high + high <= k /\ k < t
      <4>. DEFINE m == k - (t - middle)
      <4>1. m \in 1 .. n /\ b + high <= m /\ m < middle
        BY <1>1, <1>5, <2>2, <3>4
      <4>2. w[m] = args[m]
        BY <2>3, <4>1, <1>1, <2>2
      <4>3. RotatedAt(w, b + high, middle, t, k) = w[m]
        BY <1>1, <1>5, <2>2, <3>4 DEF RotatedAt
      <4>4. RotatedAt(args, b, middle, t, k) = args[m]
        BY <1>1, <1>5, <2>2, <3>4 DEF RotatedAt
      <4>. QED  BY <4>2, <4>3, <4>4
    <3>. QED  BY <1>1, <2>2, <3>1, <3>2, <3>3, <3>4
  <2>7. z.top - z.bottom < t - b
    BY <1>1, <2>2, <2>4
  <2>8. Nearer(z, s, S, n, middle)
    BY <1>5, <2>4, <2>5, <2>6, <2>7 DEF Nearer, b, t, args
  <2>. QED  BY <2>8 DEF z
<1>. QED  BY <1>3, <1>4, <1>5

(* After m swaps there is nothing left to be put right, or less than n - m. *)
Rotating(s, m, S, args, bottom, middle, top) ==
  /\ s \in Placed(S, Len(args), middle)
  /\ \A k \in 1 .. Len(args) : RotatedAt(s.args, s.bottom, middle, s.top, k)
                                 = RotatedAt(args, bottom, middle, top, k)
  /\ s.bottom = middle \/ s.top = middle \/ s.top - s.bottom <= Len(args) - m

LEMMA ExchangedFact ==
  ASSUME NEW S, NEW args \in Seq(S), NEW bottom \in Nat, NEW middle \in Nat, NEW top \in Nat,
         1 <= bottom, bottom <= middle, middle <= top, top <= Len(args) + 1
  PROVE  /\ Exchanged(args, bottom, middle, top) \in Seq(S)
         /\ Len(Exchanged(args, bottom, middle, top)) = Len(args)
         /\ \A k \in 1 .. Len(args) :
              Exchanged(args, bottom, middle, top)[k] = RotatedAt(args, bottom, middle, top, k)
<1>. DEFINE n == Len(args)
            P == Placed(S, n, middle)
            s0 == Segments(args, bottom, top)
            G == [t \in (1 .. n) \X P \X P |-> SwapShorter(t[2], middle)]
            after[m \in 0 .. n] == IF m = 0 THEN s0 ELSE SwapShorter(after[m - 1], middle)
<1>1. n \in Nat
  OBVIOUS
<1>2. s0 \in P /\ s0.args = args /\ s0.bottom = bottom /\ s0.top = top
  <2>1. /\ s0 \in [args : Seq(S), bottom : Nat, top : Nat]
        /\ s0.args = args /\ s0.bottom = bottom /\ s0.top = top
    BY DEF Segments
  <2>. HIDE DEF s0
  <2>. QED  BY <1>1, <2>1, PlacedFact
<1>3. \A s \in P : SwapShorter(s, middle) \in P
  <2>. HIDE DEF n
  <2>. QED  BY <1>1, SwapShorterFact DEF Nearer
<1>4. G \in [(1 .. n) \X P \X P -> P]
  <2>. HIDE DEF P
  <2>. QED  BY <1>3
<1>5. PICK f : Downwards(f, n, P, s0, G)
  <2>. HIDE DEF P, s0, n, G
  <2>. QED  BY <1>1, <1>2, <1>4, Recursion
<1>. DEFINE g == [m \in 0 .. n |-> f[n + 1 - m]]
<1>6. g = [m \in 0 .. n |-> IF m = 0 THEN s0 ELSE SwapShorter(g[m - 1], middle)]
  <2>1. ASSUME NEW m \in 0 .. n
        PROVE  g[m] = IF m = 0 THEN s0 ELSE SwapShorter(g[m - 1], middle)
    <3>1. n + 1 - m \in 1 .. n + 2 /\ g[m] = f[n + 1 - m]
      BY <1>1
    <3>. DEFINE i == n + 1 - m
    <3>2. f[i] = IF i > n THEN s0 ELSE G[i, f[i + 1], f[i + 2]]
      BY <1>5, <3>1 DEF Downwards
    <3>3. CASE m = 0
      <4>1. i > n
        BY <1>1, <3>3
      <4>. HIDE DEF g, i, G, s0
      <4>. QED  BY <3>1, <3>2, <3>3, <4>1 DEF i
    <3>4. CASE m # 0
      <4>1. /\ i \in 1 .. n /\ i + 1 \in 1 .. n + 2 /\ i + 2 \in 1 .. n + 2 /\ ~(i > n)
            /\ m - 1 \in 0 .. n /\ n + 1 - (m - 1) = i + 1
        BY <1>1, <3>4
      <4>2. f[i + 1] \in P /\ f[i + 2] \in P
        BY <1>5, <4>1 DEF Downwards
      <4>3. <<i, f[i + 1], f[i + 2]>> \in (1 .. n) \X P \X P
        <5>. HIDE DEF P, i, n
        <5>. QED  BY <4>1, <4>2
      <4>4. G[i, f[i + 1], f[i + 2]] = SwapShorter(f[i + 1], middle)
        <5>. HIDE DEF P, i, n
        <5>. QED  BY <4>3
      <4>5. g[m - 1] = f[i + 1]
        BY <4>1
      <4>. HIDE DEF g, i, G, s0
      <4>. QED  BY <3>1, <3>2, <3>4, <4>1, <4>4, <4>5 DEF i
    <3>. QED  BY <3>3, <3>4
  <2>2. g = [m \in 0 .. n |-> g[m]]
    OBVIOUS
  <2>. HIDE DEF g, s0, n
  <2>. QED  BY <2>1, <2>2
<1>7. after = [m \in 0 .. n |-> IF m = 0 THEN s0 ELSE SwapShorter(after[m - 1], middle)]
  <2>. HIDE DEF g, s0
  <2>. QED  BY <1>6
<1>8. Exchanged(args, bottom, middle, top) = after[n].args
  BY DEF Exchanged
<1>. HIDE DEF after, g, G
<1>9. after[0] = s0
  BY <1>1, <1>7
<1>10. \A m \in 1 .. n : after[m] = SwapShorter(after[m - 1], middle)
  <2>. HIDE DEF s0
  <2>1. \A m \in 1 .. n : m \in 0 .. n /\ m # 0
    BY <1>1
  <2>. QED  BY <1>7, <2>1
<1>. DEFINE Good(m) == Rotating(after[m], m, S, args, bottom, middle, top)
            T == {m \in Nat : m <= n => Good(m)}
<1>11. 0 \in T
  <2>1. top - bottom <= n - 0
    BY <1>1
  <2>. HIDE DEF s0
  <2>2. Good(0)
    BY <1>2, <1>9, <2>1 DEF Rotating
  <2>. QED  BY <2>2
<1>12. ASSUME NEW m \in Nat, m \in T PROVE m + 1 \in T
  <2>. SUFFICES ASSUME m + 1 <= n PROVE Good(m + 1)
    OBVIOUS
  <2>1. Good(m)
    BY <1>1, <1>12
  <2>. DEFINE s == after[m]
              z == SwapShorter(s, middle)
  <2>2. /\ s \in P
        /\ \A k \in 1 .. n : RotatedAt(s.args, s.bottom, middle, s.top, k)
                               = RotatedAt(args, bottom, middle, top, k)
        /\ s.bottom = middle \/ s.top = middle \/ s.top - s.bottom <= n - m
    BY <2>1 DEF Rotating
  <2>3. after[m + 1] = z
    <3>1. m + 1 \in 1 .. n /\ (m + 1) - 1 = m
      BY <1>1
    <3>. QED  BY <1>10, <3>1
  <2>. HIDE DEF s, n
  <2>4. /\ z \in Placed(S, n, middle)
        /\ \A k \in 1 .. n : RotatedAt(z.args, z.bottom, middle, z.top, k)
                               = RotatedAt(s.args, s.bottom, middle, s.top, k)
        /\ s.bottom < middle /\ middle < s.top => z.top - z.bottom < s.top - s.bottom
        /\ ~(s.bottom < middle /\ middle < s.top) => z = s
    <3>1. Nearer(z, s, S, n, middle)
      BY <1>1, <2>2, SwapShorterFact
    <3>. HIDE DEF z, P
    <3>. QED  BY <3>1 DEF Nearer
  <2>. HIDE DEF z, P
  <2>5. /\ s.bottom \in Nat /\ s.top \in Nat /\ s.bottom <= middle /\ middle <= s.top
        /\ z.bottom \in Nat /\ z.top \in Nat /\ z.bottom <= middle /\ middle <= z.top
    <3>1. s \in Placed(S, n, middle)
      BY <2>2 DEF P
    <3>. QED  BY <1>1, <2>4, <3>1, PlacedFact
  <2>6. z.bottom = middle \/ z.top = middle \/ z.top - z.bottom <= n - (m + 1)
    <3>1. CASE s.bottom < middle /\ middle < s.top
      BY SMTT(30), <1>1, <2>2, <2>4, <2>5, <3>1
    <3>2. CASE ~(s.bottom < middle /\ middle < s.top)
      BY <2>4, <2>5, <3>2
    <3>. QED  BY <3>1, <3>2
  <2>. QED  BY <2>2, <2>3, <2>4, <2>6 DEF Rotating, n
<1>13. Good(n)
  <2>1. T = Nat
    <3>1. T \in SUBSET Nat
      OBVIOUS
    <3>. HIDE DEF T
    <3>. QED  BY <1>11, <1>12, <3>1, SetInduction
  <2>2. n \in T /\ n <= n
    BY <1>1, <2>1
  <2>. QED  BY <2>2
<1>. DEFINE s == after[n]
<1>14. /\ s \in P
       /\ \A k \in 1 .. n : RotatedAt(s.args, s.bottom, middle, s.top, k)
                              = RotatedAt(args, bottom, middle, top, k)
       /\ s.bottom = middle \/ s.top = middle \/ s.top - s.bottom <= n - n
  BY <1>13 DEF Rotating
<1>. HIDE DEF s
<1>15. /\ s.args \in Seq(S) /\ Len(s.args) = n /\ s.bottom \in Nat /\ s.top \in Nat
       /\ s.bottom <= middle /\ middle <= s.top
  <2>. HIDE DEF n
  <2>. QED  BY <1>1, <1>14, PlacedFact
<1>16. \A k \in 1 .. n : s.args[k] = RotatedAt(s.args, s.bottom, middle, s.top, k)
  <2>1. s.bottom = middle \/ s.top = middle
    BY <1>1, <1>14, <1>15
  <2>. SUFFICES ASSUME NEW k \in 1 .. n
                PROVE  s.args[k] = RotatedAt(s.args, s.bottom, middle, s.top, k)
    OBVIOUS
  <2>2. k \in Nat
    BY <1>1
  <2>3. CASE s.bottom = middle
    BY <1>15, <2>2, <2>3 DEF RotatedAt
  <2>4. CASE s.top = middle
    BY <1>15, <2>2, <2>4 DEF RotatedAt
  <2>. QED  BY <2>1, <2>3, <2>4
<1>. QED  BY <1>8, <1>14, <1>15, <1>16 DEF s

----------------------------------------------------------------------------
(* The elements that are passed over.                                      *)

Scans == [args : Seq(Elements), optind : Nat, nextchar : Seq(STRING), first_nonopt : Nat,
          last_nonopt : Nat, optarg : Elements]
Framed(g) ==
  /\ g \in Scans
  /\ 1 <= g.first_nonopt /\ g.first_nonopt <= g.last_nonopt
  /\ g.last_nonopt <= g.optind /\ g.optind <= Len(g.args) + 1
Skipped(g) == SubSeq(g.args, g.first_nonopt, g.last_nonopt - 1)

(* The len elements of s from m to n are those of t from p to q.           *)
Agree(s, m, n, t, p, q, len) ==
  /\ m \in Nat /\ n \in Nat /\ p \in Nat /\ q \in Nat /\ len \in Nat
  /\ 1 <= m /\ n <= Len(s) /\ n = m + len - 1 /\ 1 <= p /\ q <= Len(t) /\ q = p + len - 1
  /\ \A i \in 1 .. len : s[m + i - 1] = t[p + i - 1]

LEMMA EqualSegments ==
  ASSUME NEW S, NEW s \in Seq(S), NEW t \in Seq(S), NEW m, NEW n, NEW p, NEW q, NEW len,
         Agree(s, m, n, t, p, q, len)
  PROVE  Part(s, m, n) = Part(t, p, q)
<1>. DEFINE a == SubSeq(s, m, n)
            b == SubSeq(t, p, q)
<1>0. /\ Len(s) \in Nat /\ Len(t) \in Nat
      /\ m \in Nat /\ n \in Nat /\ p \in Nat /\ q \in Nat /\ len \in Nat
      /\ 1 <= m /\ n <= Len(s) /\ n = m + len - 1 /\ 1 <= p /\ q <= Len(t)
      /\ q = p + len - 1
      /\ \A i \in 1 .. len : s[m + i - 1] = t[p + i - 1]
  BY DEF Agree
<1>1. a \in Seq(S) /\ Len(a) = len /\ \A i \in 1 .. len : a[i] = s[m + i - 1]
  <2>1. m \in 1 .. Len(s) + 1 /\ n \in 0 .. Len(s) /\ m <= n + 1 /\ n - m + 1 = len
    BY <1>0
  <2>2. a \in Seq(S) /\ Len(a) = n - m + 1 /\ \A i \in 1 .. n - m + 1 : a[i] = s[m + i - 1]
    BY <2>1, SubSeqFact
  <2>. HIDE DEF a
  <2>. QED  BY <2>1, <2>2
<1>2. b \in Seq(S) /\ Len(b) = len /\ \A i \in 1 .. len : b[i] = t[p + i - 1]
  <2>1. p \in 1 .. Len(t) + 1 /\ q \in 0 .. Len(t) /\ p <= q + 1 /\ q - p + 1 = len
    BY <1>0
  <2>2. b \in Seq(S) /\ Len(b) = q - p + 1 /\ \A i \in 1 .. q - p + 1 : b[i] = t[p + i - 1]
    BY <2>1, SubSeqFact
  <2>. HIDE DEF b
  <2>. QED  BY <2>1, <2>2
<1>. HIDE DEF a, b
<1>3. Len(a) = Len(b) /\ \A i \in 1 .. Len(a) : a[i] = b[i]
  BY <1>0, <1>1, <1>2
<1>4. a = b
  BY <1>1, <1>2, <1>3, SeqEqual
<1>. QED  BY <1>4 DEF a, b, Part

LEMMA FramedFact ==
  ASSUME NEW g, Framed(g)
  PROVE  /\ g.args \in Seq(Elements) /\ Len(g.args) \in Nat
         /\ g.optind \in Nat /\ g.first_nonopt \in Nat /\ g.last_nonopt \in Nat
         /\ 1 <= g.first_nonopt /\ g.first_nonopt <= g.last_nonopt
         /\ g.last_nonopt <= g.optind /\ g.optind <= Len(g.args) + 1
         /\ g = [args |-> g.args, optind |-> g.optind, nextchar |-> g.nextchar,
                 first_nonopt |-> g.first_nonopt, last_nonopt |-> g.last_nonopt,
                 optarg |-> g.optarg]
<1>1. g \in Scans
  BY DEF Framed
<1>2. g.args \in Seq(Elements)
  BY <1>1 DEF Scans
<1>3. Len(g.args) \in Nat
  BY <1>2
<1>. QED  BY <1>1, <1>2, <1>3 DEF Framed, Scans

(* h is g when the options behind the non-options have gone before them.   *)
Reordered(h, g) ==
  /\ h \in Scans /\ Len(h.args) = Len(g.args)
  /\ h.optind = g.optind /\ h.nextchar = g.nextchar /\ h.optarg = g.optarg
  /\ 1 <= h.first_nonopt /\ h.first_nonopt <= g.optind
  /\ \A k \in g.optind .. Len(g.args) : h.args[k] = g.args[k]
  /\ SubSeq(h.args, h.first_nonopt, g.optind - 1) = Skipped(g)

LEMMA OptionsFirstFact ==
  ASSUME NEW g, Framed(g)
  PROVE  Reordered(OptionsFirst(g), g)
<1>. DEFINE h == OptionsFirst(g)
            args == g.args
            n == Len(args)
            b == g.first_nonopt
            m == g.last_nonopt
            t == g.optind
<1>1. /\ g \in Scans /\ args \in Seq(Elements) /\ n \in Nat /\ b \in Nat /\ m \in Nat /\ t \in Nat
      /\ 1 <= b /\ b <= m /\ m <= t /\ t <= n + 1
  BY FramedFact DEF Framed
<1>2. CASE b # m /\ m # t
  <2>. DEFINE w == Exchanged(args, b, m, t)
              x == b + (t - m)
  <2>1. h = [g EXCEPT !.args = w, !.first_nonopt = x, !.last_nonopt = t]
    BY <1>2 DEF OptionsFirst, Exchange
  <2>2. /\ w \in Seq(Elements) /\ Len(w) = n
        /\ \A k \in 1 .. n : w[k] = RotatedAt(args, b, m, t, k)
    BY <1>1, ExchangedFact
  <2>3. x \in Nat /\ 1 <= x /\ x <= t
    BY <1>1
  <2>. HIDE DEF w, x, h
  <2>4. /\ h \in Scans /\ h.args = w /\ h.optind = t /\ h.nextchar = g.nextchar
        /\ h.optarg = g.optarg /\ h.first_nonopt = x
    BY <1>1, <2>1, <2>2, <2>3 DEF Scans
  <2>. HIDE DEF args, b, m, t
  <2>5. ASSUME NEW k \in t .. n PROVE w[k] = args[k]
    <3>1. k \in 1 .. n /\ k >= t
      BY <1>1
    <3>. QED  BY <2>2, <3>1 DEF RotatedAt
  <2>6. SubSeq(w, x, t - 1) = SubSeq(args, b, m - 1)
    <3>. DEFINE y == t - 1
                z == m - 1
                len == m - b
    <3>1. /\ x \in Nat /\ y \in Nat /\ b \in Nat /\ z \in Nat /\ len \in Nat
          /\ 1 <= x /\ y <= Len(w) /\ y = x + len - 1
          /\ 1 <= b /\ z <= Len(args) /\ z = b + len - 1
      BY <1>1, <2>2, <2>3 DEF x
    <3>2. ASSUME NEW i \in 1 .. len PROVE w[x + i - 1] = args[b + i - 1]
      <4>1. /\ x + i - 1 \in 1 .. n /\ ~(x + i - 1 < b \/ x + i - 1 >= t)
            /\ ~(x + i - 1 < b + (t - m)) /\ (x + i - 1) - (t - m) = b + i - 1
        BY <1>1, <2>3 DEF x
      <4>. HIDE DEF n
      <4>2. w[x + i - 1] = RotatedAt(args, b, m, t, x + i - 1)
        BY <2>2, <4>1
      <4>. QED  BY <4>1, <4>2 DEF RotatedAt
    <3>. HIDE DEF y, z, len
    <3>3. Agree(w, x, y, args, b, z, len)
      BY <3>1, <3>2 DEF Agree
    <3>4. args \in Seq(Elements) /\ w \in Seq(Elements)
      BY <1>1, <2>2
    <3>5. Part(w, x, y) = Part(args, b, z)
      BY <3>3, <3>4, EqualSegments
    <3>. QED  BY <3>5 DEF y, z, Part
  <2>. QED  BY <1>1, <2>2, <2>3, <2>4, <2>5, <2>6 DEF Reordered, Skipped, args, b, m, t, h
<1>3. CASE ~(b # m /\ m # t) /\ m # t
  <2>1. h = [g EXCEPT !.first_nonopt = t] /\ b = m
    BY <1>3 DEF OptionsFirst
  <2>. HIDE DEF h
  <2>2. /\ h \in Scans /\ h.args = args /\ h.optind = t /\ h.nextchar = g.nextchar
        /\ h.optarg = g.optarg /\ h.first_nonopt = t
    BY <1>1, <2>1 DEF Scans
  <2>3. SubSeq(args, t, t - 1) = <<>> /\ SubSeq(args, b, m - 1) = <<>>
    <3>1. t \in Int /\ t - 1 \in Int /\ t - 1 < t /\ b \in Int /\ m - 1 \in Int /\ m - 1 < b
      BY <1>1, <2>1
    <3>. QED  BY <3>1, SubSeqEmpty
  <2>4. 1 <= t /\ Skipped(g) = SubSeq(args, b, m - 1)
    BY <1>1 DEF Skipped
  <2>. HIDE DEF args, t, b, m, n
  <2>5. /\ h \in Scans /\ Len(h.args) = n
        /\ h.optind = t /\ h.nextchar = g.nextchar /\ h.optarg = g.optarg
        /\ 1 <= h.first_nonopt /\ h.first_nonopt <= t
        /\ \A k \in t .. n : h.args[k] = args[k]
        /\ SubSeq(h.args, h.first_nonopt, t - 1) = Skipped(g)
    BY <1>1, <2>2, <2>3, <2>4 DEF n
  <2>. QED  BY <2>5 DEF Reordered, h, args, t, n
<1>4. CASE m = t
  <2>1. h = g
    BY <1>4 DEF OptionsFirst
  <2>. HIDE DEF h
  <2>. QED  BY <1>1, <1>4, <2>1 DEF Reordered, Skipped, h
<1>. QED  BY <1>2, <1>3, <1>4

----------------------------------------------------------------------------
(* A call of getopt_long, and what is left to be read.                     *)

ToRead(a, order, g) ==
  LET M == MeaningFrom(a, order)
      i == g.optind
  IN IF g.nextchar = <<>> THEN M[i]
     ELSE ClusterMeaning(a, i, M[i + 1], M[i + 2])[Len(a[i].text) - Len(g.nextchar) + 1]

Completes(a, order, read, skipped, r) ==
  LET m == Meaning(a, order) IN
  /\ m.options = read \o r.options /\ m.operands = skipped \o r.operands /\ m.failed = r.failed

InCluster(a, g) ==
  g.nextchar # <<>> =>
    LET text == a[g.optind].text IN
    /\ g.optind <= Len(a)
    /\ Len(g.nextchar) <= Len(text)
    /\ g.nextchar = SubSeq(text, Len(text) - Len(g.nextchar) + 1, Len(text))

ScanInv(a, order, g, read) ==
  /\ Framed(g) /\ Len(g.args) = Len(a)
  /\ read \in Seq(TakenOptions)
  /\ \A k \in g.optind .. Len(a) : g.args[k] = a[k]
  /\ order = "REQUIRE_ORDER" =>
       \/ g.first_nonopt = g.last_nonopt
       \/ g.last_nonopt = g.optind /\ g.optind = Len(a) + 1
  /\ InCluster(a, g)
  /\ Completes(a, order, read, Skipped(g), ToRead(a, order, g))

(* What a call returns, when read has been returned before.                *)
Ended(a, order, g, read) ==
  LET m == Meaning(a, order) IN
  /\ g.args \in Seq(Elements) /\ g.optind \in 1 .. Len(g.args) + 1
  /\ m.options = read /\ ~m.failed /\ Part(g.args, g.optind, Len(g.args)) = m.operands
Wrong(a, order, read) == Meaning(a, order).options = read /\ Meaning(a, order).failed
Answers(a, order, r, read) ==
  \/ /\ r.option \in Letters
     /\ ScanInv(a, order, r.state, Append(read, [option |-> r.option, value |-> r.state.optarg]))
  \/ r.option = "EOF" /\ Ended(a, order, r.state, read)
  \/ r.option = "?" /\ Wrong(a, order, read)

LEMMA MeaningTypes ==
  ASSUME NEW a \in Seq(Elements), NEW order, NEW i \in 1 .. Len(a) + 2
  PROVE  /\ MeaningFrom(a, order)[i] \in Readings
         /\ MeaningFrom(a, order)[i].options \in Seq(TakenOptions)
         /\ MeaningFrom(a, order)[i].operands \in Seq(Elements)
<1>1. MeaningFrom(a, order)[i] \in Readings
  BY MeaningFact
<1>. QED  BY <1>1 DEF Readings

LEMMA TextType ==
  ASSUME NEW a \in Seq(Elements), NEW i \in 1 .. Len(a)
  PROVE  a[i] \in Elements /\ a[i].text \in Seq(STRING) /\ Len(a[i].text) \in Nat
<1>1. a[i] \in Elements
  OBVIOUS
<1>2. a[i].text \in Seq(STRING)
  BY <1>1 DEF Elements
<1>. QED  BY <1>1, <1>2

LEMMA MistakeFact ==
  ASSUME NEW a, NEW order, NEW g, NEW read, NEW h, ScanInv(a, order, g, read),
         ToRead(a, order, g) = Mistake
  PROVE  Answers(a, order, Failed(h), read)
<1>1. read \in Seq(TakenOptions) /\ Completes(a, order, read, Skipped(g), Mistake)
  BY DEF ScanInv
<1>2. /\ Meaning(a, order).options = read \o <<>> /\ Meaning(a, order).failed
  BY <1>1, NothingFact DEF Completes
<1>3. read \o <<>> = read
  BY <1>1, ConcatEmptySeq
<1>. QED  BY <1>2, <1>3 DEF Answers, Wrong, Failed, Returns

LEMMA TakeOne ==
  ASSUME NEW a \in Seq(Elements), NEW order, NEW g, NEW read, ScanInv(a, order, g, read),
         NEW h \in Scans, h.args = g.args, h.first_nonopt = g.first_nonopt,
         h.last_nonopt = g.last_nonopt, g.optind <= Len(a), g.optind <= h.optind,
         h.optind <= Len(a) + 1, NEW o \in Letters, NEW r \in Readings,
         ToRead(a, order, g) = Also(o, h.optarg, r), ToRead(a, order, h) = r, InCluster(a, h)
  PROVE  Answers(a, order, Returns(h, o), read)
<1>. DEFINE t == [option |-> o, value |-> h.optarg]
            next == Append(read, t)
<1>1. /\ g.optind \in Nat /\ h.optind \in Nat /\ g.first_nonopt \in Nat /\ g.last_nonopt \in Nat
      /\ Len(a) \in Nat /\ h.optarg \in Elements
  BY FramedFact DEF Scans, ScanInv
<1>2. Framed(h) /\ Len(h.args) = Len(a) /\ Skipped(h) = Skipped(g)
  BY <1>1, FramedFact DEF Framed, Skipped, ScanInv
<1>3. t \in TakenOptions /\ next \in Seq(TakenOptions) /\ read \in Seq(TakenOptions)
  BY <1>1, AppendProperties DEF TakenOptions, ScanInv
<1>4. \A k \in h.optind .. Len(a) : h.args[k] = a[k]
  <2>1. \A k \in h.optind .. Len(a) : k \in g.optind .. Len(a)
    BY <1>1
  <2>. QED  BY <2>1 DEF ScanInv
<1>5. order = "REQUIRE_ORDER" => h.first_nonopt = h.last_nonopt
  BY <1>1 DEF ScanInv
<1>6. Completes(a, order, next, Skipped(h), ToRead(a, order, h))
  <2>1. Completes(a, order, read, Skipped(g), Also(o, h.optarg, r))
    BY DEF ScanInv
  <2>2. /\ Also(o, h.optarg, r).options = <<t>> \o r.options
        /\ Also(o, h.optarg, r).operands = r.operands
        /\ Also(o, h.optarg, r).failed = r.failed
    BY <1>1, AlsoFact
  <2>3. read \o (<<t>> \o r.options) = next \o r.options
    <3>1. <<t>> \in Seq(TakenOptions) /\ r.options \in Seq(TakenOptions)
      BY <1>3 DEF Readings
    <3>2. next = read \o <<t>>
      BY <1>3, AppendIsConcat
    <3>. DEFINE one == <<t>>
                rest == r.options
    <3>3. /\ one \in Seq(TakenOptions) /\ rest \in Seq(TakenOptions) /\ next = read \o one
          /\ read \in Seq(TakenOptions)
      BY <1>3, <3>1, <3>2
    <3>. HIDE DEF next, one, rest
    <3>4. Regrouped(read, one, rest)
      BY <3>3, Regrouping
    <3>. QED  BY <3>3, <3>4 DEF Regrouped, one, rest
  <2>. HIDE DEF next, t
  <2>. QED  BY <1>2, <2>1, <2>2, <2>3 DEF Completes
<1>. HIDE DEF next
<1>7. ScanInv(a, order, h, next)
  BY <1>2, <1>3, <1>4, <1>5, <1>6 DEF ScanInv
<1>. QED  BY <1>7 DEF Answers, Returns, next

(* The value of an option is the element behind it, if there is one.       *)
LEMMA TakeElementFact ==
  ASSUME NEW a \in Seq(Elements), NEW order, NEW g, NEW read, ScanInv(a, order, g, read),
         g.optind <= Len(a), NEW h \in Scans, h.args = g.args, h.first_nonopt = g.first_nonopt,
         h.last_nonopt = g.last_nonopt, h.optind = g.optind + 1, h.nextchar = <<>>,
         NEW o \in Letters,
         ToRead(a, order, g) = ValueBehind(o, a, g.optind, MeaningFrom(a, order)[g.optind + 2])
  PROVE  Answers(a, order, TakeElement(h, o), read)
<1>. DEFINE n == Len(a)
            i == g.optind
            M == MeaningFrom(a, order)
<1>1. n \in Nat /\ i \in Nat /\ 1 <= i /\ Len(g.args) = n /\ g.args \in Seq(Elements)
  BY FramedFact DEF ScanInv
<1>2. Argc(h) = n + 1 /\ h.optind = i + 1
  BY <1>1 DEF Argc
<1>3. CASE i = n
  <2>1. ToRead(a, order, g) = Mistake
    BY <1>3 DEF ValueBehind
  <2>2. TakeElement(h, o) = Failed(h)
    BY <1>1, <1>2, <1>3 DEF TakeElement
  <2>. QED  BY <2>1, <2>2, MistakeFact
<1>4. CASE i < n
  <2>. DEFINE k == [h EXCEPT !.optarg = a[i + 1], !.optind = i + 2]
  <2>1. /\ i + 1 \in 1 .. n /\ i + 1 \in i .. n /\ i + 2 \in 1 .. n + 2 /\ i + 2 \in Nat
        /\ i <= i + 2 /\ i + 2 <= n + 1 /\ h.optind < n + 1 /\ (i + 1) + 1 = i + 2
    BY <1>1, <1>2, <1>4
  <2>2. a[i + 1] \in Elements /\ g.args[i + 1] = a[i + 1]
    BY <2>1, TextType DEF ScanInv
  <2>3. TakeElement(h, o) = Returns(k, o)
    BY <1>2, <2>1, <2>2 DEF TakeElement
  <2>4. /\ k \in Scans /\ k.args = g.args /\ k.first_nonopt = g.first_nonopt
        /\ k.last_nonopt = g.last_nonopt /\ k.optind = i + 2 /\ k.optarg = a[i + 1]
        /\ k.nextchar = <<>>
    BY <2>1, <2>2 DEF Scans
  <2>. HIDE DEF k
  <2>5. ToRead(a, order, g) = Also(o, k.optarg, M[i + 2])
    BY <1>4, <2>4, <1>1 DEF ValueBehind
  <2>6. ToRead(a, order, k) = M[i + 2] /\ InCluster(a, k)
    BY <2>4 DEF ToRead, InCluster
  <2>7. M[i + 2] \in Readings
    BY <2>1, MeaningTypes
  <2>. QED  BY <2>1, <2>3, <2>4, <2>5, <2>6, <2>7, TakeOne
<1>. QED  BY <1>1, <1>3, <1>4

LEMMA ShortOptionFact ==
  ASSUME NEW a \in Seq(Elements), NEW order, NEW g, NEW read, ScanInv(a, order, g, read),
         g.nextchar # <<>>, g.optarg = NoValue
  PROVE  Answers(a, order, ShortOption(g), read)
<1>. DEFINE n == Len(a)
            i == g.optind
            M == MeaningFrom(a, order)
            text == a[i].text
            len == Len(text)
            left == Len(g.nextchar)
            k == len - left + 1
            o == text[k]
            rest == Tail(g.nextchar)
            c == ClusterMeaning(a, i, M[i + 1], M[i + 2])
            value == Element(0, SubSeq(text, k + 1, len))
            passed == [g EXCEPT !.nextchar = rest, !.optind = IF rest = <<>> THEN i + 1 ELSE i]
            valued == [passed EXCEPT !.nextchar = <<>>, !.optind = i + 1,
                                     !.optarg = Element(0, rest)]
<1>1. /\ n \in Nat /\ i \in 1 .. n /\ g \in Scans /\ g.nextchar \in Seq(STRING)
      /\ left <= len /\ g.nextchar = SubSeq(text, k, len)
  <2>1. Framed(g) /\ InCluster(a, g)
    BY DEF ScanInv
  <2>2. g \in Scans /\ n \in Nat /\ i \in Nat /\ 1 <= i
    BY <2>1, FramedFact DEF Framed
  <2>3. i <= n /\ left <= len /\ g.nextchar = SubSeq(text, k, len)
    BY <2>1, Zenon DEF InCluster
  <2>4. g.nextchar \in Seq(STRING)
    BY <2>2 DEF Scans
  <2>. HIDE DEF n, i, text, len, left, k
  <2>. QED  BY <2>2, <2>3, <2>4
<1>2. /\ text \in Seq(STRING) /\ len \in Nat /\ left \in Nat /\ left # 0 /\ k \in 1 .. len
      /\ k <= len /\ k \in 1 .. len + 1 /\ k # len + 1 /\ len \in k .. len
      /\ k + 1 \in 1 .. len + 1 /\ len + 1 \in 1 .. len + 1
  <2>1. text \in Seq(STRING) /\ len \in Nat
    BY <1>1, TextType
  <2>2. left \in Nat /\ left # 0
    BY <1>1
  <2>. HIDE DEF left, len
  <2>. QED  BY <1>1, <2>1, <2>2
<1>3. /\ M[i + 1] \in Readings /\ M[i + 2] \in Readings
  <2>1. i + 1 \in 1 .. n + 2 /\ i + 2 \in 1 .. n + 2
    BY <1>1
  <2>. QED  BY <2>1, MeaningTypes
<1>17. Spelled(c, a, i, M[i + 1], M[i + 2])
  BY <1>1, <1>3, ClusterFact
<1>4. ToRead(a, order, g) = LetterMeaning(a, i, k, M[i + 1], M[i + 2], c[k + 1])
  <2>1. ToRead(a, order, g) = c[k]
    BY DEF ToRead
  <2>. HIDE DEF k
  <2>. QED  BY <1>2, <1>17, <2>1 DEF Spelled
<1>5. k + 1 \in 1 .. len + 1 /\ c[k + 1] \in Readings
  <2>. HIDE DEF k
  <2>. QED  BY <1>2, <1>17 DEF Spelled
<1>6. Head(g.nextchar) = o /\ rest = SubSeq(text, k + 1, len) /\ rest \in Seq(STRING)
  <2>. HIDE DEF k, len, text
  <2>2. Head(SubSeq(text, k, len)) = text[k] /\ Tail(SubSeq(text, k, len)) = SubSeq(text, k + 1, len)
    BY <1>2, HeadTailOfSubSeq DEF len
  <2>3. rest \in Seq(STRING)
    BY <1>1, HeadTailProperties
  <2>. QED  BY <1>1, <2>2, <2>3
<1>7. Len(rest) = left - 1 /\ (rest = <<>> <=> k = len)
  <2>1. Len(rest) = left - 1
    BY <1>1, HeadTailProperties
  <2>2. rest = <<>> <=> Len(rest) = 0
    <3>1. rest \in Seq(STRING)
      BY <1>6
    <3>. HIDE DEF rest
    <3>. QED  BY <3>1
  <2>. HIDE DEF rest, len, left, text
  <2>. QED  BY <1>2, <2>1, <2>2
<1>8. ShortOption(g) =
        IF o \notin Letters THEN Failed(passed)
        ELSE IF o \notin WithValue THEN Returns(passed, o)
        ELSE IF rest = <<>> THEN TakeElement(passed, o)
        ELSE Returns(valued, o)
  <2>1. passed.optind = (IF rest = <<>> THEN i + 1 ELSE i)
    BY <1>1 DEF Scans
  <2>. HIDE DEF o, rest, i
  <2>. QED  BY <1>6, <2>1 DEF ShortOption, i, rest
<1>9. i \in Nat /\ i + 1 \in Nat /\ i <= i + 1 /\ i + 1 <= n + 1 /\ i <= n + 1
  BY <1>1
<1>10. /\ passed \in Scans /\ passed.args = g.args /\ passed.first_nonopt = g.first_nonopt
       /\ passed.last_nonopt = g.last_nonopt /\ passed.optarg = NoValue
       /\ passed.nextchar = rest /\ passed.optind = IF rest = <<>> THEN i + 1 ELSE i
  <2>. HIDE DEF rest, i
  <2>. QED  BY <1>1, <1>6, <1>9 DEF Scans, i
<1>11. Element(0, rest) = value /\ value \in Elements
  <2>. HIDE DEF rest
  <2>1. 0 \in 0 .. 2
    OBVIOUS
  <2>. QED  BY <1>6, <2>1, ElementType
<1>12. /\ valued \in Scans /\ valued.args = g.args /\ valued.first_nonopt = g.first_nonopt
       /\ valued.last_nonopt = g.last_nonopt /\ valued.optarg = value
       /\ valued.nextchar = <<>> /\ valued.optind = i + 1
  <2>1. <<>> \in Seq(STRING)
    OBVIOUS
  <2>. HIDE DEF passed, rest, i, value
  <2>. QED  BY <1>9, <1>10, <1>11, <2>1 DEF Scans
<1>. HIDE DEF passed, valued, value
<1>13. CASE o \notin Letters
  <2>1. ToRead(a, order, g) = Mistake
    BY <1>4, <1>13 DEF LetterMeaning
  <2>. QED  BY <1>8, <1>13, <2>1, MistakeFact
<1>14. CASE o \in Letters /\ o \notin WithValue
  <2>1. ToRead(a, order, g) = Also(o, NoValue, c[k + 1])
    BY <1>4, <1>14 DEF LetterMeaning
  <2>2. ToRead(a, order, passed) = c[k + 1] /\ InCluster(a, passed)
    <3>1. CASE rest = <<>>
      <4>1. ToRead(a, order, passed) = M[i + 1] /\ InCluster(a, passed)
        BY <1>10, <3>1 DEF ToRead, InCluster
      <4>2. k + 1 = len + 1
        BY <1>7, <3>1
      <4>3. c[len + 1] = M[i + 1]
        <5>. DEFINE e == len + 1
        <5>1. e \in 1 .. len + 1 /\ e = len + 1
          BY <1>2
        <5>2. \A j \in 1 .. len + 1 : c[j] = IF j = len + 1 THEN M[i + 1]
                                            ELSE LetterMeaning(a, i, j, M[i + 1], M[i + 2], c[j + 1])
          <6>. DEFINE next == M[i + 1]
                      after == M[i + 2]
          <6>1. i \in 1 .. Len(a) /\ next \in Readings /\ after \in Readings
            BY <1>1, <1>3
          <6>. HIDE DEF next, after, i, k
          <6>2. \A j \in 1 .. Len(a[i].text) + 1 :
                  ClusterMeaning(a, i, next, after)[j] =
                    IF j = Len(a[i].text) + 1 THEN next
                    ELSE LetterMeaning(a, i, j, next, after, ClusterMeaning(a, i, next, after)[j + 1])
            BY <6>1, ClusterFact DEF Spelled
          <6>. QED  BY <6>2 DEF next, after, i
        <5>. HIDE DEF e, c, len
        <5>3. c[e] = M[i + 1]
          BY <5>1, <5>2
        <5>. QED  BY <5>3 DEF e
      <4>. HIDE DEF k, c
      <4>. QED  BY <4>1, <4>2, <4>3
    <3>2. CASE rest # <<>>
      <4>1. passed.optind = i /\ passed.nextchar = rest
        BY <1>10, <3>2
      <4>2. len - Len(rest) + 1 = k + 1 /\ Len(rest) <= len
        <5>. HIDE DEF rest, left, len, text
        <5>. QED  BY <1>1, <1>2, <1>7
      <4>3. ToRead(a, order, passed) = c[len - Len(rest) + 1]
        BY <3>2, <4>1 DEF ToRead
      <4>4. InCluster(a, passed)
        <5>1. rest = SubSeq(text, len - Len(rest) + 1, len)
          <6>. HIDE DEF rest, k, len
          <6>. QED  BY <1>6, <4>2
        <5>2. i <= n
          BY <1>1
        <5>. HIDE DEF rest
        <5>. QED  BY <4>1, <4>2, <5>1, <5>2 DEF InCluster
      <4>. HIDE DEF c, k, len, rest
      <4>. QED  BY <4>2, <4>3, <4>4
    <3>. QED  BY <3>1, <3>2
  <2>3. i <= passed.optind /\ passed.optind <= n + 1 /\ i <= n
    <3>1. passed.optind = i \/ passed.optind = i + 1
      BY <1>10
    <3>. HIDE DEF i, n
    <3>. QED  BY <1>1, <1>9, <3>1
  <2>4. ShortOption(g) = Returns(passed, o)
    BY <1>8, <1>14
  <2>. DEFINE r == c[k + 1]
  <2>5. /\ r \in Readings /\ ToRead(a, order, g) = Also(o, passed.optarg, r)
        /\ ToRead(a, order, passed) = r
    BY <1>5, <1>10, <2>1, <2>2
  <2>. HIDE DEF r, o
  <2>. QED  BY <1>10, <1>14, <2>2, <2>3, <2>4, <2>5, TakeOne
<1>15. CASE o \in Letters /\ o \in WithValue /\ rest = <<>>
  <2>1. ToRead(a, order, g) = ValueBehind(o, a, i, M[i + 2])
    BY <1>4, <1>7, <1>15 DEF LetterMeaning
  <2>2. passed.optind = i + 1 /\ passed.nextchar = <<>> /\ i <= n
    BY <1>1, <1>10, <1>15
  <2>3. ShortOption(g) = TakeElement(passed, o)
    BY <1>8, <1>15
  <2>. HIDE DEF o, rest
  <2>. QED  BY <1>10, <1>15, <2>1, <2>2, <2>3, TakeElementFact
<1>16. CASE o \in Letters /\ o \in WithValue /\ rest # <<>>
  <2>1. ToRead(a, order, g) = Also(o, value, M[i + 1])
    BY <1>4, <1>7, <1>16 DEF LetterMeaning, value
  <2>2. ToRead(a, order, valued) = M[i + 1] /\ InCluster(a, valued)
    BY <1>12 DEF ToRead, InCluster
  <2>3. ShortOption(g) = Returns(valued, o)
    BY <1>8, <1>16
  <2>4. i <= n
    BY <1>1
  <2>. HIDE DEF o, rest
  <2>. QED  BY <1>3, <1>9, <1>12, <1>16, <2>1, <2>2, <2>3, <2>4, TakeOne
<1>. QED  BY <1>13, <1>14, <1>15, <1>16

LEMMA LongOptionFact ==
  ASSUME NEW a \in Seq(Elements), NEW order, NEW g, NEW read, ScanInv(a, order, g, read),
         g.nextchar = <<>>, g.optarg = NoValue, g.optind <= Len(a),
         a[g.optind].dashes = 2, a[g.optind] # EndOfOptions
  PROVE  Answers(a, order, LongOption([g EXCEPT !.nextchar = a[g.optind].text]), read)
<1>. DEFINE n == Len(a)
            i == g.optind
            M == MeaningFrom(a, order)
            text == a[i].text
            name == NameOf(text)
            o == LetterNamed(name)
            scanned == [g EXCEPT !.nextchar = text]
            passed == [g EXCEPT !.nextchar = <<>>, !.optind = i + 1]
            valued == [passed EXCEPT !.optarg = ValueOf(text)]
<1>1. n \in Nat /\ i \in 1 .. n /\ g \in Scans /\ text \in Seq(STRING)
  <2>1. Framed(g)
    BY DEF ScanInv
  <2>2. g \in Scans /\ n \in Nat /\ i \in Nat /\ 1 <= i
    BY <2>1, FramedFact DEF Framed
  <2>3. i \in 1 .. n
    BY <2>2
  <2>. QED  BY <2>2, <2>3, TextType
<1>2. M[i + 1] \in Readings /\ M[i + 2] \in Readings
  <2>1. i + 1 \in 1 .. n + 2 /\ i + 2 \in 1 .. n + 2
    BY <1>1
  <2>. QED  BY <2>1, MeaningTypes
<1>3. name \in Seq(STRING) /\ ValueOf(text) \in Elements
  BY <1>1, NameFact
<1>4. i \in Nat /\ i + 1 \in Nat /\ i <= i + 1 /\ i + 1 <= n + 1 /\ i <= n
  BY <1>1
<1>5. scanned.nextchar = text /\ [scanned EXCEPT !.nextchar = <<>>, !.optind = i + 1] = passed
      /\ scanned.optind = i
  <2>. HIDE DEF text
  <2>. QED  BY <1>1 DEF Scans
<1>6. /\ passed \in Scans /\ passed.args = g.args /\ passed.first_nonopt = g.first_nonopt
      /\ passed.last_nonopt = g.last_nonopt /\ passed.optarg = NoValue
      /\ passed.nextchar = <<>> /\ passed.optind = i + 1
  <2>1. <<>> \in Seq(STRING)
    OBVIOUS
  <2>. HIDE DEF i
  <2>. QED  BY <1>1, <1>4, <2>1 DEF Scans
<1>7. /\ valued \in Scans /\ valued.args = g.args /\ valued.first_nonopt = g.first_nonopt
      /\ valued.last_nonopt = g.last_nonopt /\ valued.optarg = ValueOf(text)
      /\ valued.nextchar = <<>> /\ valued.optind = i + 1
  <2>. HIDE DEF i, passed, text
  <2>. QED  BY <1>3, <1>6 DEF Scans
<1>8. LongOption(scanned) =
        IF Begun(name) = {} \/ Ambiguous(name) THEN Failed(passed)
        ELSE IF NameEnd(text) # 0
        THEN IF o \in WithValue THEN Returns(valued, o) ELSE Failed(passed)
        ELSE IF o \in WithValue THEN TakeElement(passed, o)
        ELSE Returns(passed, o)
  <2>. HIDE DEF scanned, passed, text, i
  <2>1. [scanned EXCEPT !.nextchar = <<>>, !.optind = @ + 1] = passed
    BY <1>5
  <2>. QED  BY <1>5, <2>1 DEF LongOption, LetterNamed, Named
<1>9. ToRead(a, order, g) = LongMeaning(a, i, M[i + 1], M[i + 2])
  <2>1. ToRead(a, order, g) = M[i]
    BY DEF ToRead
  <2>2. M[i] = ElementMeaning(a, i, M[i + 1], M[i + 2], order)
    BY <1>1, MeaningFact
  <2>. HIDE DEF M
  <2>3. ElementMeaning(a, i, M[i + 1], M[i + 2], order) = LongMeaning(a, i, M[i + 1], M[i + 2])
    BY DEF ElementMeaning, IsOption
  <2>. QED  BY <2>1, <2>2, <2>3
<1>. DEFINE rest == M[i + 1]
            after == M[i + 2]
<1>10. ToRead(a, order, g) =
              IF Begun(name) = {} \/ Ambiguous(name) THEN Mistake
              ELSE IF NameEnd(text) # 0
              THEN IF o \in WithValue THEN Also(o, ValueOf(text), rest) ELSE Mistake
              ELSE IF o \in WithValue THEN ValueBehind(o, a, i, after)
              ELSE Also(o, NoValue, rest)
  <2>1. rest \in Readings /\ after \in Readings
    BY <1>2
  <2>. HIDE DEF rest, after, i
  <2>2. LongMeaning(a, i, rest, after) =
              IF Begun(name) = {} \/ Ambiguous(name) THEN Mistake
              ELSE IF NameEnd(text) # 0
              THEN IF o \in WithValue THEN Also(o, ValueOf(text), rest) ELSE Mistake
              ELSE IF o \in WithValue THEN ValueBehind(o, a, i, after)
              ELSE Also(o, NoValue, rest)
    BY <1>1, <2>1, LongFact DEF LongMeans
  <2>. QED  BY <1>9, <2>2 DEF rest, after
<1>11. ~(Begun(name) = {} \/ Ambiguous(name)) => o \in Letters
  BY <1>3, NamedFact
<1>12. ToRead(a, order, passed) = rest /\ InCluster(a, passed)
  BY <1>6 DEF ToRead, InCluster
<1>13. ToRead(a, order, valued) = rest /\ InCluster(a, valued)
  BY <1>7 DEF ToRead, InCluster
<1>14. ToRead(a, order, g) = Mistake => Answers(a, order, Failed(passed), read)
  BY MistakeFact
<1>. HIDE DEF passed, valued, scanned, name, o
<1>15. CASE Begun(name) = {} \/ Ambiguous(name) \/ (NameEnd(text) # 0 /\ o \notin WithValue)
  <2>1. ToRead(a, order, g) = Mistake
    BY <1>10, <1>15
  <2>2. LongOption(scanned) = Failed(passed)
    BY <1>8, <1>15
  <2>. QED  BY <1>14, <2>1, <2>2 DEF scanned
<1>16. CASE /\ ~(Begun(name) = {} \/ Ambiguous(name))
            /\ NameEnd(text) # 0 /\ o \in WithValue
  <2>1. ToRead(a, order, g) = Also(o, valued.optarg, rest)
    BY <1>7, <1>10, <1>16
  <2>2. LongOption(scanned) = Returns(valued, o)
    BY <1>8, <1>16
  <2>3. o \in Letters
    BY <1>11, <1>16
  <2>. QED  BY <1>2, <1>4, <1>7, <1>13, <2>1, <2>2, <2>3, TakeOne DEF scanned
<1>17. CASE /\ ~(Begun(name) = {} \/ Ambiguous(name))
            /\ NameEnd(text) = 0 /\ o \in WithValue
  <2>1. ToRead(a, order, g) = ValueBehind(o, a, i, M[i + 2])
    BY <1>10, <1>17
  <2>2. LongOption(scanned) = TakeElement(passed, o)
    BY <1>8, <1>17
  <2>3. o \in Letters
    BY <1>11, <1>17
  <2>. QED  BY <1>4, <1>6, <2>1, <2>2, <2>3, TakeElementFact DEF scanned
<1>18. CASE /\ ~(Begun(name) = {} \/ Ambiguous(name))
            /\ NameEnd(text) = 0 /\ o \notin WithValue
  <2>1. ToRead(a, order, g) = Also(o, passed.optarg, rest)
    BY <1>6, <1>10, <1>18
  <2>2. LongOption(scanned) = Returns(passed, o)
    BY <1>8, <1>18
  <2>3. o \in Letters
    BY <1>11, <1>18
  <2>. QED  BY <1>2, <1>4, <1>6, <1>12, <2>1, <2>2, <2>3, TakeOne DEF scanned
<1>. QED  BY <1>15, <1>16, <1>17, <1>18

(* What is not an option is left, in its place.                            *)
LEMMA NonOptionMeaning ==
  ASSUME NEW a \in Seq(Elements), NEW order, order # "REQUIRE_ORDER", NEW i \in 1 .. Len(a),
         ~IsOption(a[i])
  PROVE  LET M == MeaningFrom(a, order) IN
         /\ M[i].options = M[i + 1].options
         /\ M[i].operands = <<a[i]>> \o M[i + 1].operands
         /\ M[i].failed = M[i + 1].failed
<1>. DEFINE M == MeaningFrom(a, order)
            rest == M[i + 1]
<1>1. a[i] \in Elements /\ rest \in Readings
  <2>1. i + 1 \in 1 .. Len(a) + 2
    OBVIOUS
  <2>. QED  BY <2>1, MeaningTypes
<1>2. a[i] # EndOfOptions
  BY DEF IsOption, EndOfOptions, Element
<1>3. M[i] = ElementMeaning(a, i, M[i + 1], M[i + 2], order)
  BY MeaningFact
<1>. HIDE DEF M
<1>4. M[i] = Operand(a[i], rest)
  BY <1>2, <1>3 DEF ElementMeaning
<1>. HIDE DEF rest
<1>5. /\ M[i].options = rest.options
      /\ M[i].operands = <<a[i]>> \o rest.operands
      /\ M[i].failed = rest.failed
  BY <1>1, <1>4, OperandFact
<1>. QED  BY <1>5 DEF rest, M

Passes(a, order, i, j) ==
  LET M == MeaningFrom(a, order) IN
  /\ M[i].options = M[j].options
  /\ M[i].operands = Part(a, i, j - 1) \o M[j].operands
  /\ M[i].failed = M[j].failed

LEMMA NonOptionsMeaning ==
  ASSUME NEW a \in Seq(Elements), NEW order, order # "REQUIRE_ORDER",
         NEW j \in 1 .. Len(a) + 1, NEW i \in 1 .. j, \A k \in i .. j - 1 : ~IsOption(a[k])
  PROVE  Passes(a, order, i, j)
<1>. DEFINE n == j - 1
            M == MeaningFrom(a, order)
            K == {h \in 1 .. j : h >= i => Passes(a, order, h, j)}
<1>1. n \in Nat /\ n + 1 = j /\ Len(a) \in Nat
  OBVIOUS
<1>2. j \in K
  <2>1. Part(a, j, j - 1) = <<>>
    <3>1. j \in Int /\ j - 1 \in Int /\ j - 1 < j
      OBVIOUS
    <3>. QED  BY <3>1, SubSeqEmpty DEF Part
  <2>. DEFINE s == M[j].operands
  <2>2. s \in Seq(Elements)
    BY MeaningTypes
  <2>. HIDE DEF s
  <2>3. <<>> \o s = s
    BY <2>2, ConcatEmptySeq
  <2>4. Passes(a, order, j, j)
    BY <2>1, <2>3 DEF Passes, s
  <2>. QED  BY <2>4
<1>3. ASSUME NEW h \in 1 .. n, h + 1 \in K PROVE h \in K
  <2>. SUFFICES ASSUME h >= i PROVE Passes(a, order, h, j)
    BY <1>1
  <2>1. /\ h \in 1 .. Len(a) /\ h \in i .. j - 1 /\ h + 1 >= i /\ h + 1 \in 1 .. j
        /\ h <= n /\ n <= Len(a) /\ h \in Nat
    BY <1>1
  <2>2. Passes(a, order, h + 1, j)
    BY <1>3, <2>1
  <2>3. /\ M[h].options = M[h + 1].options
        /\ M[h].operands = <<a[h]>> \o M[h + 1].operands
        /\ M[h].failed = M[h + 1].failed
    BY <2>1, NonOptionMeaning
  <2>. DEFINE one == <<a[h]>>
              mid == Part(a, h + 1, n)
              s == M[j].operands
  <2>4. one \in Seq(Elements) /\ mid \in Seq(Elements) /\ s \in Seq(Elements)
    <3>1. a[h] \in Elements
      BY <2>1, TextType
    <3>2. h + 1 \in 1 .. Len(a) + 1 /\ n \in 0 .. Len(a) /\ h + 1 <= n + 1
      BY <1>1, <2>1
    <3>. HIDE DEF n
    <3>3. SubSeq(a, h + 1, n) \in Seq(Elements)
      BY <3>2, SubSeqFact
    <3>. QED  BY <3>1, <3>3, MeaningTypes DEF Part
  <2>5. Part(a, h, n) = one \o mid
    <3>1. h \in 1 .. Len(a) /\ n \in h .. Len(a)
      BY <1>1, <2>1
    <3>. HIDE DEF n
    <3>2. Unrolled(a, h, n)
      BY <3>1, Unrolling
    <3>. QED  BY <3>2 DEF Unrolled
  <2>. HIDE DEF one, mid, s
  <2>6. (one \o mid) \o s = one \o (mid \o s)
    BY SMTT(30), <2>4, Regrouping DEF Regrouped
  <2>7. M[h + 1].operands = mid \o s /\ M[h + 1].options = M[j].options
        /\ M[h + 1].failed = M[j].failed
    BY <2>2 DEF Passes, mid, s
  <2>8. M[h].operands = Part(a, h, n) \o s
    BY <2>3, <2>5, <2>6, <2>7 DEF one
  <2>. QED  BY <2>3, <2>7, <2>8 DEF Passes, s
<1>4. \A h \in 1 .. j : h \in K
  <2>1. \A h \in 1 .. n + 1 : h \in K
    <3>1. n + 1 \in K
      BY <1>1, <1>2
    <3>. HIDE DEF K, n
    <3>. QED  BY <1>1, <1>3, <3>1, DownInduction
  <2>. HIDE DEF K
  <2>. QED  BY <1>1, <2>1
<1>. QED  BY <1>4

(* Non-options are passed over where they were to be read.                 *)
PassedOn(w, b, i, j, a) == Part(w, b, j - 1) = Part(w, b, i - 1) \o Part(a, i, j - 1)

LEMMA PassingOn ==
  ASSUME NEW a \in Seq(Elements), NEW w \in Seq(Elements), Len(w) = Len(a),
         NEW b \in Nat, NEW i \in Nat, NEW j \in Nat,
         1 <= b, b <= i, i <= j, j <= Len(a) + 1, \A k \in i .. Len(a) : w[k] = a[k]
  PROVE  PassedOn(w, b, i, j, a)
<1>. DEFINE n == Len(a)
            x == i - 1
            y == j - 1
            len == j - i
<1>1. /\ n \in Nat /\ Len(w) = n /\ b \in 1 .. n + 1 /\ x \in b - 1 .. n /\ y \in x .. n
      /\ x + 1 = i /\ y \in Nat /\ len \in Nat /\ 1 <= i /\ y <= n /\ y = i + len - 1
  OBVIOUS
<1>. HIDE DEF x, y, len, n
<1>2. Part(w, i, y) = Part(a, i, y)
  <2>1. \A k \in 1 .. len : i + k - 1 \in i .. n
    BY <1>1
  <2>2. \A k \in 1 .. len : w[i + k - 1] = a[i + k - 1]
    BY <2>1 DEF n
  <2>3. Agree(w, i, y, a, i, y, len)
    BY <1>1, <2>2 DEF Agree, n
  <2>. QED  BY <2>3, EqualSegments
<1>3. SubSeq(w, b, x) \o SubSeq(w, x + 1, y) = SubSeq(w, b, y)
  BY <1>1, ConcatAdjacentSubSeq DEF n
<1>. QED  BY <1>1, <1>2, <1>3 DEF PassedOn, Part, x, y

(* A state in which an element is about to be scanned, and the elements    *)
(* behind the non-options are the one to be scanned and those behind it.   *)
Ready(a, order, g, read) ==
  /\ ScanInv(a, order, g, read) /\ g.nextchar = <<>> /\ g.optarg = NoValue
  /\ g.first_nonopt = g.last_nonopt \/ g.last_nonopt = g.optind

LEMMA PassNonOptionsFact ==
  ASSUME NEW a \in Seq(Elements), NEW order, order # "REQUIRE_ORDER", NEW g, NEW read,
         ScanInv(a, order, g, read), g.nextchar = <<>>, g.optarg = NoValue
  PROVE  LET h == PassNonOptions(g) IN
         Ready(a, order, h, read) /\ (h.optind <= Len(a) => IsOption(a[h.optind]))
<1>. DEFINE n == Len(a)
            i == g.optind
            f == OptionsFirst(g)
            stops == {k \in g.optind .. Len(g.args) : IsOption(f.args[k])} \cup {Argc(g)}
            j == First(stops)
            h == [f EXCEPT !.optind = j, !.last_nonopt = j]
            M == MeaningFrom(a, order)
<1>1. PassNonOptions(g) = h
  BY DEF PassNonOptions, First
<1>2. Framed(g) /\ Len(g.args) = n /\ n \in Nat /\ i \in Nat /\ 1 <= i /\ i <= n + 1
  BY FramedFact DEF ScanInv
<1>3. /\ f \in Scans /\ Len(f.args) = n
      /\ f.optind = i /\ f.nextchar = <<>> /\ f.optarg = NoValue
      /\ 1 <= f.first_nonopt /\ f.first_nonopt <= i
      /\ \A k \in i .. n : f.args[k] = g.args[k]
      /\ SubSeq(f.args, f.first_nonopt, i - 1) = Skipped(g)
  <2>. HIDE DEF f
  <2>. QED  BY <1>2, OptionsFirstFact DEF Reordered, f
<1>. HIDE DEF f
<1>4. \A k \in i .. n : f.args[k] = a[k]
  BY <1>3 DEF ScanInv
<1>5. /\ j \in i .. n + 1
      /\ \A k \in i .. j - 1 : ~IsOption(a[k])
      /\ j <= n => IsOption(a[j])
  <2>1. stops = {k \in i .. n : IsOption(a[k])} \cup {n + 1}
    BY <1>2, <1>4 DEF Argc
  <2>2. stops \in SUBSET Nat /\ stops # {}
    BY <1>2, <2>1
  <2>. HIDE DEF stops
  <2>3. j \in stops /\ \A k \in stops : j <= k
    BY <2>2, FirstFact
  <2>. HIDE DEF j
  <2>4. j \in i .. n + 1 /\ (j <= n => IsOption(a[j]))
    BY <1>2, <2>1, <2>3
  <2>5. ASSUME NEW k \in i .. j - 1 PROVE ~IsOption(a[k])
    <3>1. k \in i .. n /\ k < j
      BY <1>2, <2>4
    <3>2. k \notin stops
      BY <1>2, <2>3, <2>4, <3>1
    <3>. QED  BY <2>1, <3>1, <3>2
  <2>. QED  BY <2>4, <2>5
<1>. HIDE DEF stops, j
<1>6. j \in Nat /\ i <= j /\ j <= n + 1 /\ j \in 1 .. n + 1 /\ i \in 1 .. j
  BY <1>2, <1>5
<1>7. /\ h \in Scans /\ h.args = f.args /\ h.optind = j /\ h.last_nonopt = j
      /\ h.first_nonopt = f.first_nonopt /\ h.nextchar = <<>> /\ h.optarg = NoValue
  BY <1>3, <1>6 DEF Scans
<1>. HIDE DEF h
<1>8. f.first_nonopt \in Nat /\ f.args \in Seq(Elements)
  BY <1>3 DEF Scans
<1>9. Framed(h) /\ Len(h.args) = n
  BY <1>2, <1>3, <1>6, <1>7, <1>8 DEF Framed
<1>10. Passes(a, order, i, j)
  BY <1>5, <1>6, NonOptionsMeaning
<1>11. Skipped(h) = Skipped(g) \o Part(a, i, j - 1)
  <2>. DEFINE w == f.args
              b == f.first_nonopt
  <2>1. /\ w \in Seq(Elements) /\ Len(w) = Len(a) /\ b \in Nat
        /\ 1 <= b /\ b <= i /\ \A k \in i .. n : w[k] = a[k]
    BY <1>3, <1>4, <1>8
  <2>. HIDE DEF w, b
  <2>2. PassedOn(w, b, i, j, a)
    BY <1>2, <1>6, <2>1, PassingOn
  <2>3. Part(w, b, i - 1) = Skipped(g)
    BY <1>3 DEF Part, w, b
  <2>4. Skipped(h) = Part(w, b, j - 1)
    BY <1>7 DEF Part, Skipped, w, b
  <2>. QED  BY <2>2, <2>3, <2>4 DEF PassedOn
<1>12. ToRead(a, order, g) = M[i] /\ ToRead(a, order, h) = M[j] /\ InCluster(a, h)
  BY <1>7 DEF ToRead, InCluster
<1>13. Completes(a, order, read, Skipped(h), M[j])
  <2>1. Completes(a, order, read, Skipped(g), M[i])
    BY <1>12 DEF ScanInv
  <2>. DEFINE s == Skipped(g)
              p == Part(a, i, j - 1)
              t == M[j].operands
  <2>2. s \in Seq(Elements) /\ p \in Seq(Elements) /\ t \in Seq(Elements)
    <3>1. t \in Seq(Elements)
      BY <1>6, MeaningTypes
    <3>2. p \in Seq(Elements)
      <4>1. i \in 1 .. Len(a) + 1 /\ j - 1 \in 0 .. Len(a) /\ i <= (j - 1) + 1
        BY <1>2, <1>6
      <4>. DEFINE y == j - 1
      <4>2. y \in 0 .. Len(a) /\ i <= y + 1
        BY <4>1
      <4>. HIDE DEF y
      <4>3. SubSeq(a, i, y) \in Seq(Elements)
        BY <4>1, <4>2, SubSeqFact
      <4>. QED  BY <4>3 DEF Part, y
    <3>3. s \in Seq(Elements)
      <4>. DEFINE w == g.args
                  b == g.first_nonopt
                  y == g.last_nonopt - 1
      <4>1. w \in Seq(Elements) /\ b \in 1 .. Len(w) + 1 /\ y \in 0 .. Len(w) /\ b <= y + 1
        BY <1>2, FramedFact
      <4>. HIDE DEF w, b, y
      <4>2. SubSeq(w, b, y) \in Seq(Elements)
        BY <4>1, SubSeqFact
      <4>. QED  BY <4>2 DEF Skipped, w, b, y
    <3>. QED  BY <3>1, <3>2, <3>3
  <2>. HIDE DEF s, p, t
  <2>3. s \o (p \o t) = (s \o p) \o t
    BY <2>2, ConcatAssociative
  <2>4. M[i].operands = p \o t /\ M[i].options = M[j].options /\ M[i].failed = M[j].failed
    BY <1>10 DEF Passes, p, t
  <2>5. Skipped(h) = s \o p
    BY <1>11 DEF s, p
  <2>. HIDE DEF M
  <2>6. Meaning(a, order).operands = s \o M[i].operands
    BY <2>1 DEF Completes, s
  <2>7. Meaning(a, order).operands = Skipped(h) \o M[j].operands
    BY <2>3, <2>4, <2>5, <2>6 DEF t
  <2>. QED  BY <2>1, <2>4, <2>7 DEF Completes
<1>14. \A k \in h.optind .. n : h.args[k] = a[k]
  <2>1. \A k \in j .. n : k \in i .. n
    BY <1>2, <1>6
  <2>. QED  BY <1>4, <1>7, <2>1
<1>15. ScanInv(a, order, h, read)
  BY <1>7, <1>9, <1>12, <1>13, <1>14 DEF ScanInv
<1>. QED  BY <1>1, <1>5, <1>7, <1>15 DEF Ready

LEMMA SkippedType ==
  ASSUME NEW g, Framed(g)
  PROVE  Skipped(g) \in Seq(Elements) /\ (g.first_nonopt = g.last_nonopt => Skipped(g) = <<>>)
<1>. DEFINE w == g.args
            b == g.first_nonopt
            y == g.last_nonopt - 1
<1>1. /\ w \in Seq(Elements) /\ b \in 1 .. Len(w) + 1 /\ y \in 0 .. Len(w) /\ b <= y + 1
      /\ b \in Int /\ y \in Int /\ (g.first_nonopt = g.last_nonopt => y < b)
  BY FramedFact
<1>2. Skipped(g) = SubSeq(w, b, y)
  BY DEF Skipped
<1>. HIDE DEF w, b, y
<1>3. SubSeq(w, b, y) \in Seq(Elements) /\ (y < b => SubSeq(w, b, y) = <<>>)
  BY <1>1, SubSeqFact, SubSeqEmpty
<1>. QED  BY <1>1, <1>2, <1>3

LEMMA PassEndOfOptionsFact ==
  ASSUME NEW a \in Seq(Elements), NEW order, NEW g, NEW read, Ready(a, order, g, read)
  PROVE  LET h == PassEndOfOptions(g) IN
         /\ Ready(a, order, h, read)
         /\ h.optind <= Len(a) => h = g /\ a[h.optind] # EndOfOptions
<1>. DEFINE n == Len(a)
            i == g.optind
            M == MeaningFrom(a, order)
            ended == i # Argc(g) /\ g.args[i] = EndOfOptions
            hh == [g EXCEPT !.optind = i + 1]
            f == OptionsFirst(hh)
            h == [f EXCEPT !.last_nonopt = n + 1, !.optind = n + 1]
<1>1. /\ Framed(g) /\ Len(g.args) = n /\ n \in Nat /\ i \in Nat /\ 1 <= i /\ i <= n + 1
      /\ g.args \in Seq(Elements) /\ g \in Scans /\ Argc(g) = n + 1
      /\ g.first_nonopt \in Nat /\ g.last_nonopt \in Nat
      /\ 1 <= g.first_nonopt /\ g.first_nonopt <= g.last_nonopt /\ g.last_nonopt <= i
      /\ g.nextchar = <<>> /\ g.optarg = NoValue
      /\ \A k \in i .. n : g.args[k] = a[k]
  <2>1. Framed(g) /\ Len(g.args) = n
    BY DEF Ready, ScanInv
  <2>2. g \in Scans
    BY <2>1 DEF Framed
  <2>. QED  BY <2>1, <2>2, FramedFact DEF Ready, ScanInv, Argc
<1>2. CASE ~ended
  <2>1. PassEndOfOptions(g) = g
    BY <1>2 DEF PassEndOfOptions
  <2>2. i <= n => a[i] # EndOfOptions
    BY <1>1, <1>2
  <2>. QED  BY <2>1, <2>2
<1>3. CASE ended
  <2>1. i <= n /\ i \in 1 .. n /\ a[i] = EndOfOptions /\ i + 1 \in Nat /\ i + 1 <= n + 1
        /\ 1 <= i + 1
    BY <1>1, <1>3
  <2>2. /\ hh \in Scans /\ hh.args = g.args /\ hh.optind = i + 1 /\ hh.nextchar = <<>>
        /\ hh.optarg = NoValue /\ hh.first_nonopt = g.first_nonopt
        /\ hh.last_nonopt = g.last_nonopt
    BY <1>1, <2>1 DEF Scans
  <2>. HIDE DEF hh
  <2>3. Framed(hh)
    BY <1>1, <2>1, <2>2 DEF Framed
  <2>4. Skipped(hh) = Skipped(g)
    BY <2>2 DEF Skipped
  <2>5. /\ f \in Scans /\ Len(f.args) = n
        /\ f.optind = i + 1 /\ f.nextchar = <<>> /\ f.optarg = NoValue
        /\ 1 <= f.first_nonopt /\ f.first_nonopt <= i + 1
        /\ \A k \in i + 1 .. n : f.args[k] = g.args[k]
        /\ SubSeq(f.args, f.first_nonopt, (i + 1) - 1) = Skipped(g)
    <3>1. Reordered(f, hh)
      BY <2>3, OptionsFirstFact
    <3>. HIDE DEF f
    <3>. QED  BY <1>1, <2>2, <2>4, <3>1 DEF Reordered
  <2>6. PassEndOfOptions(g) = h
    <3>. DEFINE k == IF hh.first_nonopt # hh.last_nonopt /\ hh.last_nonopt # hh.optind
                     THEN Exchange(hh)
                     ELSE IF hh.first_nonopt = hh.last_nonopt
                     THEN [hh EXCEPT !.first_nonopt = hh.optind]
                     ELSE hh
    <3>1. hh.last_nonopt # hh.optind
      BY <1>1, <2>2
    <3>2. k = f
      BY <3>1 DEF OptionsFirst
    <3>3. PassEndOfOptions(g) = [k EXCEPT !.last_nonopt = Argc(g), !.optind = Argc(g)]
      BY <1>1, <1>3 DEF PassEndOfOptions, hh
    <3>. HIDE DEF k, f
    <3>. QED  BY <1>1, <3>2, <3>3
  <2>. HIDE DEF f
  <2>7. f.first_nonopt \in Nat /\ f.args \in Seq(Elements)
    BY <2>5 DEF Scans
  <2>8. /\ h \in Scans /\ h.args = f.args /\ h.optind = n + 1 /\ h.last_nonopt = n + 1
        /\ h.first_nonopt = f.first_nonopt /\ h.nextchar = <<>> /\ h.optarg = NoValue
    <3>. DEFINE e == n + 1
    <3>1. e \in Nat /\ h = [f EXCEPT !.last_nonopt = e, !.optind = e]
      BY <1>1
    <3>2. f \in Scans /\ f.nextchar = <<>> /\ f.optarg = NoValue
      BY <2>5
    <3>. HIDE DEF h, e
    <3>3. /\ h \in Scans /\ h.args = f.args /\ h.optind = e /\ h.last_nonopt = e
          /\ h.first_nonopt = f.first_nonopt /\ h.nextchar = f.nextchar /\ h.optarg = f.optarg
      BY <3>1, <3>2 DEF Scans
    <3>. QED  BY <3>2, <3>3 DEF e
  <2>. HIDE DEF h
  <2>9. Framed(h) /\ Len(h.args) = n
    BY <1>1, <2>1, <2>5, <2>7, <2>8 DEF Framed
  <2>10. Skipped(h) = Skipped(g) \o Part(a, i + 1, n)
    <3>. DEFINE w == f.args
                b == f.first_nonopt
                j == n + 1
                p == i + 1
    <3>1. /\ w \in Seq(Elements) /\ Len(w) = Len(a) /\ b \in Nat
          /\ 1 <= b /\ b <= p /\ \A k \in p .. n : w[k] = a[k]
          /\ p \in Nat /\ j \in Nat /\ p <= j /\ j <= Len(a) + 1 /\ j - 1 = n
      BY <1>1, <2>1, <2>5, <2>7
    <3>. HIDE DEF w, b, p, j
    <3>2. PassedOn(w, b, p, j, a)
      BY <3>1, PassingOn
    <3>3. Part(w, b, p - 1) = Skipped(g)
      BY <2>5 DEF Part, w, b, p
    <3>4. Skipped(h) = Part(w, b, j - 1)
      BY <2>8 DEF Part, Skipped, w, b, j
    <3>. QED  BY <3>1, <3>2, <3>3, <3>4 DEF PassedOn, p
  <2>11. /\ ToRead(a, order, g) = M[i] /\ ToRead(a, order, h) = M[n + 1] /\ InCluster(a, h)
    BY <1>1, <2>8 DEF ToRead, InCluster
  <2>12. M[n + 1] = NothingRead /\ M[i] = [NothingRead EXCEPT !.operands = Part(a, i + 1, n)]
    <3>1. M[n + 1] = NothingRead /\ M[i] = ElementMeaning(a, i, M[i + 1], M[i + 2], order)
      BY <2>1, MeaningFact
    <3>2. IsOption(a[i])
      BY <2>1 DEF IsOption, EndOfOptions, Element
    <3>. HIDE DEF M
    <3>. QED  BY <2>1, <3>1, <3>2 DEF ElementMeaning, Part
  <2>13. Completes(a, order, read, Skipped(h), M[n + 1])
    <3>1. Completes(a, order, read, Skipped(g), M[i])
      BY <2>11 DEF Ready, ScanInv
    <3>. DEFINE p == Part(a, i + 1, n)
                s == Skipped(h)
    <3>2. p \in Seq(Elements)
      <4>1. i + 1 \in 1 .. Len(a) + 1 /\ n \in 0 .. Len(a) /\ i + 1 <= n + 1
        BY <1>1, <2>1
      <4>. QED  BY <4>1, SubSeqFact DEF Part
    <3>3. s \in Seq(Elements)
      BY <2>9, SkippedType
    <3>4. s = Skipped(g) \o p
      BY <2>10
    <3>. HIDE DEF p, s
    <3>5. M[i].options = <<>> /\ M[i].operands = p /\ M[i].failed = FALSE
      BY <2>12, <3>2, OnlyOperandsFact DEF p
    <3>6. s \o <<>> = s
      BY <3>3, ConcatEmptySeq
    <3>. HIDE DEF M
    <3>7. Completes(a, order, read, s, M[n + 1])
      BY <2>12, <3>1, <3>4, <3>5, <3>6, NothingFact DEF Completes
    <3>. QED  BY <3>7 DEF s
  <2>14. \A k \in h.optind .. n : h.args[k] = a[k]
    <3>1. \A k \in n + 1 .. n : FALSE
      BY <1>1
    <3>. QED  BY <2>8, <3>1
  <2>15. read \in Seq(TakenOptions)
    BY DEF Ready, ScanInv
  <2>16. ScanInv(a, order, h, read)
    BY <2>8, <2>9, <2>11, <2>13, <2>14, <2>15 DEF ScanInv
  <2>17. ~(h.optind <= n)
    BY <1>1, <2>8
  <2>. QED  BY <2>6, <2>8, <2>16, <2>17 DEF Ready
<1>. QED  BY <1>2, <1>3

(* There are no more options, and optind is at what is left.               *)
LEMMA NoMoreFact ==
  ASSUME NEW a \in Seq(Elements), NEW order, NEW g, NEW read, Ready(a, order, g, read),
         \/ g.optind = Len(a) + 1
         \/ g.optind <= Len(a) /\ ~IsOption(a[g.optind]) /\ order = "REQUIRE_ORDER"
  PROVE  Answers(a, order, NoMore(g), read)
<1>. DEFINE n == Len(a)
            i == g.optind
            M == MeaningFrom(a, order)
            w == g.args
            s == Skipped(g)
<1>1. /\ Framed(g) /\ Len(w) = n /\ n \in Nat /\ i \in Nat /\ 1 <= i /\ i <= n + 1
      /\ w \in Seq(Elements) /\ g \in Scans /\ Argc(g) = n + 1
      /\ g.first_nonopt \in Nat /\ g.last_nonopt \in Nat
      /\ g.nextchar = <<>>
      /\ \A k \in i .. n : w[k] = a[k]
  <2>1. Framed(g) /\ Len(g.args) = n
    BY DEF Ready, ScanInv
  <2>2. g \in Scans
    BY <2>1 DEF Framed
  <2>. QED  BY <2>1, <2>2, FramedFact DEF Ready, ScanInv, Argc
<1>2. /\ s \in Seq(Elements) /\ (g.first_nonopt = g.last_nonopt => s = <<>>)
      /\ read \in Seq(TakenOptions)
  BY <1>1, SkippedType DEF Ready, ScanInv
<1>3. Completes(a, order, read, s, M[i])
  <2>1. ToRead(a, order, g) = M[i]
    BY <1>1 DEF ToRead
  <2>. QED  BY <2>1 DEF Ready, ScanInv
<1>4. s \o <<>> = s /\ read \o <<>> = read
  BY <1>2, ConcatEmptySeq
<1>. HIDE DEF w
<1>5. CASE i = n + 1
  <2>1. M[i] = NothingRead
    BY <1>5, MeaningFact
  <2>. DEFINE m == Meaning(a, order)
  <2>2. m.options = read /\ m.operands = s /\ ~m.failed
    <3>. HIDE DEF M, s
    <3>. QED  BY <1>3, <1>4, <2>1, NothingFact DEF Completes
  <2>3. CASE g.first_nonopt = g.last_nonopt
    <3>1. NoMore(g) = Returns(g, "EOF")
      BY <2>3 DEF NoMore
    <3>2. Part(w, i, n) = <<>>
      <4>1. i \in Int /\ n \in Int /\ n < i
        BY <1>1, <1>5
      <4>. QED  BY <4>1, SubSeqEmpty DEF Part
    <3>. HIDE DEF m, s
    <3>3. Ended(a, order, g, read)
      BY <1>1, <1>2, <2>2, <2>3, <3>2 DEF Ended, m, w
    <3>. QED  BY <3>1, <3>3 DEF Answers, Returns
  <2>4. CASE g.first_nonopt # g.last_nonopt
    <3>. DEFINE h == [g EXCEPT !.optind = g.first_nonopt]
    <3>1. NoMore(g) = Returns(h, "EOF")
      BY <1>1, <1>5, <2>4 DEF NoMore
    <3>2. h.args = w /\ h.optind = g.first_nonopt
      BY <1>1 DEF Scans, w
    <3>3. g.last_nonopt - 1 = n
      BY <1>1, <1>5, <2>4 DEF Ready
    <3>4. s = Part(w, g.first_nonopt, n)
      BY <3>3 DEF Skipped, Part, w
    <3>5. g.first_nonopt \in 1 .. n + 1
      BY <1>1, FramedFact
    <3>. HIDE DEF m, s, h
    <3>6. Ended(a, order, h, read)
      BY <1>1, <2>2, <3>2, <3>4, <3>5 DEF Ended, m
    <3>. QED  BY <3>1, <3>6 DEF Answers, Returns
  <2>. QED  BY <2>3, <2>4
<1>6. CASE i <= n /\ ~IsOption(a[i]) /\ order = "REQUIRE_ORDER"
  <2>1. i \in 1 .. n /\ i # n + 1
    BY <1>1, <1>6
  <2>2. NoMore(g) = Returns(g, "EOF")
    BY <1>1, <2>1 DEF NoMore
  <2>3. g.first_nonopt = g.last_nonopt
    BY <1>6, <2>1 DEF Ready, ScanInv
  <2>. DEFINE p == Part(a, i, n)
  <2>4. p \in Seq(Elements)
    <3>1. i \in 1 .. Len(a) + 1 /\ n \in 0 .. Len(a) /\ i <= n + 1
      BY <1>1, <2>1
    <3>. QED  BY <3>1, SubSeqFact DEF Part
  <2>5. M[i] = [NothingRead EXCEPT !.operands = p]
    <3>1. M[i] = ElementMeaning(a, i, M[i + 1], M[i + 2], order)
      BY <2>1, MeaningFact
    <3>. HIDE DEF M
    <3>. QED  BY <1>6, <3>1 DEF ElementMeaning, Part
  <2>6. Part(w, i, n) = p
    <3>. DEFINE len == n - i + 1
    <3>0. /\ len \in Nat /\ n = i + len - 1 /\ i \in Nat /\ n \in Nat /\ 1 <= i /\ n <= Len(a)
          /\ n <= Len(w) /\ \A k \in 1 .. len : i + k - 1 \in i .. n
      BY <1>1, <2>1
    <3>. HIDE DEF len
    <3>1. Agree(w, i, n, a, i, n, len)
      BY <1>1, <3>0 DEF Agree
    <3>. QED  BY <1>1, <3>1, EqualSegments
  <2>. HIDE DEF p
  <2>7. M[i].options = <<>> /\ M[i].operands = p /\ M[i].failed = FALSE
    BY <2>4, <2>5, OnlyOperandsFact
  <2>8. <<>> \o p = p
    BY <2>4, ConcatEmptySeq
  <2>. HIDE DEF M, s
  <2>. DEFINE m == Meaning(a, order)
  <2>9. m.options = read /\ m.operands = p /\ ~m.failed
    <3>1. s = <<>>
      BY <1>2, <2>3
    <3>. QED  BY <1>3, <1>4, <2>7, <2>8, <3>1 DEF Completes
  <2>10. i \in 1 .. n + 1 /\ w \in Seq(Elements)
    BY <1>1, <2>1
  <2>. HIDE DEF m
  <2>11. Ended(a, order, g, read)
    BY <1>1, <2>6, <2>9, <2>10 DEF Ended, m, w
  <2>. QED  BY <2>2, <2>11 DEF Answers, Returns
<1>. QED  BY <1>5, <1>6

LEMMA CalledFact ==
  ASSUME NEW a, NEW order, NEW g, NEW read, ScanInv(a, order, g, read)
  PROVE  LET called == [g EXCEPT !.optarg = NoValue] IN
         /\ ScanInv(a, order, called, read)
         /\ called.optarg = NoValue /\ called.nextchar = g.nextchar
<1>. DEFINE called == [g EXCEPT !.optarg = NoValue]
<1>1. Framed(g) /\ g \in Scans
  BY DEF ScanInv, Framed
<1>2. /\ called \in Scans /\ called.args = g.args /\ called.optind = g.optind
      /\ called.nextchar = g.nextchar /\ called.first_nonopt = g.first_nonopt
      /\ called.last_nonopt = g.last_nonopt /\ called.optarg = NoValue
  BY <1>1, NoValueType DEF Scans
<1>. HIDE DEF called
<1>3. Framed(called) /\ Skipped(called) = Skipped(g)
  BY <1>1, <1>2 DEF Framed, Skipped
<1>4. InCluster(a, called) /\ ToRead(a, order, called) = ToRead(a, order, g)
  BY <1>2 DEF ScanInv, InCluster, ToRead
<1>5. ScanInv(a, order, called, read)
  BY <1>2, <1>3, <1>4 DEF ScanInv
<1>. QED  BY <1>2, <1>5 DEF called

(* The element that is about to be scanned, or the end of the options.     *)
LEMMA NextElementFact ==
  ASSUME NEW a \in Seq(Elements), NEW order \in {"PERMUTE", "REQUIRE_ORDER"}, NEW g, NEW read,
         ScanInv(a, order, g, read), g.nextchar = <<>>, g.optarg = NoValue
  PROVE  LET h == NextElement(g, order) IN
         /\ Ready(a, order, h, read)
         /\ h.optind <= Len(a) =>
              /\ a[h.optind] # EndOfOptions
              /\ order = "PERMUTE" => IsOption(a[h.optind])
<1>1. CASE order = "PERMUTE"
  <2>. DEFINE p == PassNonOptions(g)
              h == PassEndOfOptions(p)
  <2>1. Ready(a, order, p, read) /\ (p.optind <= Len(a) => IsOption(a[p.optind]))
    BY <1>1, PassNonOptionsFact
  <2>2. NextElement(g, order) = h
    BY <1>1 DEF NextElement
  <2>. HIDE DEF p
  <2>3. Ready(a, order, h, read) /\ (h.optind <= Len(a) => h = p /\ a[h.optind] # EndOfOptions)
    BY <2>1, PassEndOfOptionsFact
  <2>. QED  BY <2>1, <2>2, <2>3
<1>2. CASE order = "REQUIRE_ORDER"
  <2>. DEFINE h == PassEndOfOptions(g)
  <2>1. Ready(a, order, g, read)
    BY <1>2 DEF Ready, ScanInv
  <2>2. NextElement(g, order) = h
    BY <1>2 DEF NextElement
  <2>3. Ready(a, order, h, read) /\ (h.optind <= Len(a) => h = g /\ a[h.optind] # EndOfOptions)
    BY <2>1, PassEndOfOptionsFact
  <2>. QED  BY <1>2, <2>2, <2>3
<1>. QED  BY <1>1, <1>2

(* A cluster is about to be scanned.                                       *)
LEMMA ScannedFact ==
  ASSUME NEW a \in Seq(Elements), NEW order, NEW g, NEW read, Ready(a, order, g, read),
         g.optind <= Len(a), IsOption(a[g.optind]), a[g.optind].dashes # 2
  PROVE  LET scanned == [g EXCEPT !.nextchar = a[g.optind].text] IN
         /\ ScanInv(a, order, scanned, read)
         /\ scanned.nextchar # <<>> /\ scanned.optarg = NoValue
<1>. DEFINE i == g.optind
            text == a[i].text
            scanned == [g EXCEPT !.nextchar = text]
            M == MeaningFrom(a, order)
            C == ClusterMeaning(a, i, M[i + 1], M[i + 2])
<1>1. /\ Framed(g) /\ g \in Scans /\ g.nextchar = <<>> /\ g.optarg = NoValue
      /\ ScanInv(a, order, g, read)
  BY DEF Ready, ScanInv, Framed
<1>2. i \in 1 .. Len(a) /\ i \in Nat
  BY <1>1, FramedFact
<1>3. text \in Seq(STRING) /\ Len(text) \in Nat /\ text # <<>>
  BY <1>2, TextType DEF IsOption
<1>4. /\ scanned \in Scans /\ scanned.args = g.args /\ scanned.optind = i
      /\ scanned.nextchar = text /\ scanned.first_nonopt = g.first_nonopt
      /\ scanned.last_nonopt = g.last_nonopt /\ scanned.optarg = NoValue
  <2>. HIDE DEF text
  <2>. QED  BY <1>1, <1>3 DEF Scans
<1>5. ToRead(a, order, g) = C[1]
  <2>1. ToRead(a, order, g) = M[i]
    BY <1>1 DEF ToRead
  <2>2. M[i] = ElementMeaning(a, i, M[i + 1], M[i + 2], order)
    BY <1>2, MeaningFact
  <2>3. a[i] # EndOfOptions
    BY DEF EndOfOptions, Element
  <2>. HIDE DEF M
  <2>. QED  BY <2>1, <2>2, <2>3 DEF ElementMeaning
<1>6. text = SubSeq(text, 1, Len(text))
  BY <1>3, SubSeqFull
<1>. HIDE DEF scanned, M, text
<1>7. Len(text) - Len(text) + 1 = 1
  BY <1>3
<1>8. ToRead(a, order, scanned) = C[1]
  BY <1>3, <1>4, <1>7 DEF ToRead, M, text
<1>9. InCluster(a, scanned)
  BY <1>2, <1>3, <1>4, <1>6, <1>7 DEF InCluster, text
<1>10. Framed(scanned) /\ Skipped(scanned) = Skipped(g)
  BY <1>1, <1>4 DEF Framed, Skipped
<1>. HIDE DEF C
<1>11. ScanInv(a, order, scanned, read)
  BY <1>1, <1>4, <1>5, <1>8, <1>9, <1>10 DEF ScanInv
<1>. QED  BY <1>3, <1>4, <1>11 DEF scanned, text

(* A call returns what the next thing to be read means.                    *)
LEMMA GetoptLongFact ==
  ASSUME NEW a \in Seq(Elements), NEW order \in {"PERMUTE", "REQUIRE_ORDER"}, NEW g, NEW read,
         ScanInv(a, order, g, read)
  PROVE  Answers(a, order, GetoptLong(g, order), read)
<1>. DEFINE called == [g EXCEPT !.optarg = NoValue]
            n == NextElement(called, order)
            e == n.args[n.optind]
            scanned == [n EXCEPT !.nextchar = e.text]
<1>1. ScanInv(a, order, called, read) /\ called.optarg = NoValue
  BY CalledFact
<1>2. GetoptLong(g, order) =
        IF called.nextchar # <<>> THEN ShortOption(called)
        ELSE IF n.optind = Argc(n) \/ ~IsOption(e) THEN NoMore(n)
        ELSE IF e.dashes = 2 THEN LongOption(scanned)
        ELSE ShortOption(scanned)
  BY DEF GetoptLong
<1>. HIDE DEF called
<1>3. CASE called.nextchar # <<>>
  BY <1>1, <1>2, <1>3, ShortOptionFact
<1>4. CASE called.nextchar = <<>>
  <2>1. /\ Ready(a, order, n, read)
        /\ n.optind <= Len(a) =>
              /\ a[n.optind] # EndOfOptions
              /\ order = "PERMUTE" => IsOption(a[n.optind])
    BY <1>1, <1>4, NextElementFact
  <2>. HIDE DEF n
  <2>2. /\ n.optind \in Nat /\ n.optind <= Len(a) + 1 /\ Argc(n) = Len(a) + 1
        /\ n.optind <= Len(a) => e = a[n.optind]
    BY <2>1, FramedFact DEF Ready, ScanInv, Argc
  <2>3. CASE n.optind = Argc(n) \/ ~IsOption(e)
    <3>1. \/ n.optind = Len(a) + 1
          \/ n.optind <= Len(a) /\ ~IsOption(a[n.optind]) /\ order = "REQUIRE_ORDER"
      BY <2>1, <2>2, <2>3
    <3>2. Answers(a, order, NoMore(n), read)
      BY <2>1, <3>1, NoMoreFact
    <3>. QED  BY <1>2, <1>4, <2>3, <3>2
  <2>4. CASE n.optind # Argc(n) /\ IsOption(e)
    <3>1. n.optind <= Len(a) /\ e = a[n.optind]
      BY <2>2, <2>4
    <3>. HIDE DEF e
    <3>2. CASE e.dashes = 2
      <4>1. ScanInv(a, order, n, read) /\ n.nextchar = <<>> /\ n.optarg = NoValue
        BY <2>1 DEF Ready
      <4>2. Answers(a, order, LongOption(scanned), read)
        BY <2>1, <3>1, <3>2, <4>1, LongOptionFact
      <4>. QED  BY <1>2, <1>4, <2>4, <3>2, <4>2
    <3>3. CASE e.dashes # 2
      <4>1. ScanInv(a, order, scanned, read) /\ scanned.nextchar # <<>> /\ scanned.optarg = NoValue
        BY <2>1, <2>4, <3>1, <3>3, ScannedFact
      <4>. HIDE DEF scanned
      <4>2. Answers(a, order, ShortOption(scanned), read)
        BY <4>1, ShortOptionFact
      <4>. QED  BY <1>2, <1>4, <2>4, <3>3, <4>2
    <3>. QED  BY <3>2, <3>3
  <2>. QED  BY <2>3, <2>4
<1>. QED  BY <1>3, <1>4

----------------------------------------------------------------------------
(* The options come in order.                                              *)

OrderInv ==
  /\ given \in Seq(Elements) /\ ordering \in {"PERMUTE", "REQUIRE_ORDER"}
  /\ option = "EOF" => Ended(given, ordering, scan, taken)
  /\ option = "?" => Wrong(given, ordering, taken)
  /\ option \notin {"EOF", "?"} => ScanInv(given, ordering, scan, taken)
  /\ pc = "scan" => option \notin {"EOF", "?"}

LEMMA InitOrder == CmdInit => OrderInv
<1>. SUFFICES ASSUME CmdInit PROVE OrderInv
  OBVIOUS
<1>. DEFINE a == given
            M == MeaningFrom(a, ordering)
            g == Started(a)
<1>1. /\ scan = g /\ option = "none" /\ taken = <<>>
      /\ a \in Seq(Elements) /\ ordering \in {"PERMUTE", "REQUIRE_ORDER"}
  BY CommandLineAssumption, GetoptAssumption DEF CmdInit, Elements
<1>. HIDE DEF a
<1>2. /\ g.args = a /\ g.optind = 1 /\ g.nextchar = <<>> /\ g.first_nonopt = 1
      /\ g.last_nonopt = 1 /\ g.optarg = NoValue /\ g \in Scans
  BY <1>1, NoValueType DEF Started, Scans
<1>. HIDE DEF g
<1>3. Len(a) \in Nat
  BY <1>1
<1>4. Framed(g)
  BY <1>2, <1>3 DEF Framed
<1>5. Skipped(g) = <<>>
  BY <1>2, <1>4, SkippedType
<1>6. ToRead(a, ordering, g) = M[1] /\ Meaning(a, ordering) = M[1] /\ InCluster(a, g)
  BY <1>2 DEF ToRead, Meaning, InCluster
<1>7. M[1].options \in Seq(TakenOptions) /\ M[1].operands \in Seq(Elements)
  <2>1. 1 \in 1 .. Len(a) + 2
    BY <1>3
  <2>. QED  BY <1>1, <2>1, MeaningTypes
<1>. HIDE DEF M
<1>8. <<>> \o M[1].options = M[1].options /\ <<>> \o M[1].operands = M[1].operands
  BY <1>7, ConcatEmptySeq
<1>9. Completes(a, ordering, <<>>, Skipped(g), ToRead(a, ordering, g))
  BY <1>5, <1>6, <1>8 DEF Completes
<1>10. ScanInv(a, ordering, g, <<>>)
  BY <1>2, <1>4, <1>6, <1>9 DEF ScanInv
<1>. QED  BY <1>1, <1>10 DEF OrderInv, a

LEMMA StepOrder ==
  ASSUME OrderInv, CommandTypes, [CmdNext]_cmdVars
  PROVE  OrderInv'
<1>1. CASE CallGetopt
  <2>. DEFINE r == GetoptLong(scan, ordering)
  <2>1. /\ ScanInv(given, ordering, scan, taken) /\ given \in Seq(Elements)
        /\ ordering \in {"PERMUTE", "REQUIRE_ORDER"}
    BY <1>1 DEF OrderInv, CallGetopt
  <2>2. Answers(given, ordering, r, taken)
    BY <2>1, GetoptLongFact
  <2>3. /\ scan' = r.state /\ option' = r.option /\ pc' = "case"
        /\ given' = given /\ ordering' = ordering
        /\ r.option \in Letters =>
             taken' = Append(taken, [option |-> r.option, value |-> r.state.optarg])
        /\ r.option \notin Letters => taken' = taken
    BY <1>1 DEF CallGetopt
  <2>. HIDE DEF r
  <2>4. "EOF" \notin Letters /\ "?" \notin Letters
    BY GetoptAssumption
  <2>. QED  BY <2>1, <2>2, <2>3, <2>4 DEF OrderInv, Answers
<1>2. CASE UNCHANGED <<given, ordering, scan, option, taken>> /\ pc' # "scan"
  BY <1>2 DEF OrderInv
<1>3. CASE UNCHANGED <<given, ordering, scan, option, taken>> /\ option \notin {"EOF", "?"}
  BY <1>3 DEF OrderInv
<1>4. ASSUME ~CallGetopt
      PROVE  /\ UNCHANGED <<given, ordering, scan, option, taken>>
             /\ pc' # "scan" \/ option \notin {"EOF", "?"}
  <2>1. CASE \/ CommandOption \/ LevelOption \/ FormatOption \/ FormatLetter \/ FlagOption
             \/ ErrorsOption \/ EventOption \/ AddOption
    BY <2>1 DEF CommandOption, LevelOption, FormatOption, FormatLetter, FlagOption,
       ErrorsOption, EventOption, AddOption, Case, Commands, FormatLetters, Flags, Handlings
  <2>2. CASE ImmediateOption \/ BadOption \/ LastOption
    BY <2>2 DEF ImmediateOption, BadOption, LastOption, Case, Leave
  <2>3. CASE FreeMetadata \/ OtherCommand \/ CantOpenInput \/ NoHeader
    BY <2>3 DEF FreeMetadata, OtherCommand, CantOpenInput, NoHeader, KeepCommand, parsing,
       Ends, CommandTypes, Settled
  <2>4. CASE \/ GetInfo \/ Compute \/ CantOpenOutput \/ WriteOutput \/ Copied \/ CantCopy
             \/ PrintMetadata
    BY <2>4 DEF GetInfo, Compute, CantOpenOutput, WriteOutput, Copied, CantCopy,
       PrintMetadata, KeepCommand, parsing, Ends
  <2>5. CASE Exited \/ UNCHANGED cmdVars
    BY <2>5 DEF Exited, cmdVars, OrderInv
  <2>. QED  BY <1>4, <2>1, <2>2, <2>3, <2>4, <2>5 DEF CmdNext
<1>. QED  BY <1>1, <1>2, <1>3, <1>4

(* OptionsInOrder, of a state in which what has been read is known.        *)
LEMMA OrderFact == OrderInv => OptionsInOrder
<1>. SUFFICES ASSUME OrderInv PROVE OptionsInOrder
  OBVIOUS
<1>. DEFINE m == Meaning(given, ordering)
            r == ToRead(given, ordering, scan)
<1>1. given \in Seq(Elements)
  BY DEF OrderInv
<1>2. m.options \in Seq(TakenOptions)
  <2>1. Len(given) \in Nat /\ 1 \in 1 .. Len(given) + 2
    BY <1>1
  <2>. QED  BY <1>1, <2>1, MeaningTypes DEF Meaning
<1>. HIDE DEF m
<1>3. CASE option \in {"EOF", "?"}
  <2>1. taken = m.options
    BY <1>3 DEF OrderInv, Ended, Wrong, m
  <2>2. IsPrefix(taken, m.options)
    BY <1>2, <2>1 DEF IsPrefix
  <2>. QED  BY <1>3, <2>1, <2>2 DEF OptionsInOrder, OrderInv, Ended, Wrong, Left, Part, m
<1>4. CASE option \notin {"EOF", "?"}
  <2>. DEFINE rest == r.options
  <2>1. ScanInv(given, ordering, scan, taken)
    BY <1>4 DEF OrderInv
  <2>2. taken \in Seq(TakenOptions) /\ m.options = taken \o rest
    BY <2>1 DEF ScanInv, Completes, m
  <2>3. IsPrefix(taken, m.options)
    BY <1>2, <2>2 DEF IsPrefix
  <2>. QED  BY <1>4, <2>3 DEF OptionsInOrder, m
<1>. QED  BY <1>3, <1>4

----------------------------------------------------------------------------
(* What the options mean, with one more.                                   *)

LEMMA SaidFact ==
  ASSUME NEW s \in Seq(TakenOptions), NEW letters
  PROVE  /\ Said(s, letters) \subseteq 1 .. Len(s) /\ Len(s) \in Nat
         /\ IsFiniteSet(Said(s, letters))
<1>1. Said(s, letters) \subseteq 1 .. Len(s) /\ Len(s) \in Nat
  BY DEF Said
<1>2. IsFiniteSet(1 .. Len(s))
  BY <1>1, FS_Interval
<1>. QED  BY <1>1, <1>2, FS_Subset

SaidAlso(m, s, t, letters) ==
  /\ Said(m, letters) = IF t.option \in letters THEN Said(s, letters) \union {Len(s) + 1}
                        ELSE Said(s, letters)
  /\ \A i \in Said(s, letters) : m[i] = s[i]
  /\ m[Len(s) + 1] = t

LEMMA SaidMore ==
  ASSUME NEW s \in Seq(TakenOptions), NEW t \in TakenOptions, NEW letters
  PROVE  SaidAlso(Append(s, t), s, t, letters)
<1>. DEFINE m == Append(s, t)
            n == Len(s)
<1>1. /\ n \in Nat /\ DOMAIN s = 1 .. n /\ DOMAIN m = 1 .. n + 1
      /\ m[n + 1] = t /\ \A i \in 1 .. n : m[i] = s[i]
  BY AppendProperties
<1>. HIDE DEF m, n
<1>. QED  BY <1>1 DEF Said, SaidAlso, m, n

LEMMA LastMore ==
  ASSUME NEW s \in Seq(TakenOptions), NEW t \in TakenOptions, NEW letters
  PROVE  LastOf(Append(s, t), letters) = IF t.option \in letters THEN {t} ELSE LastOf(s, letters)
<1>. DEFINE m == Append(s, t)
            n == Len(s)
            S == Said(s, letters)
            T == Said(m, letters)
<1>1. /\ S \subseteq 1 .. n /\ n \in Nat
      /\ T = IF t.option \in letters THEN S \union {n + 1} ELSE S
      /\ m[n + 1] = t /\ \A i \in S : m[i] = s[i]
  BY SaidFact, SaidMore DEF SaidAlso
<1>2. /\ LastOf(m, letters) = {m[i] : i \in {j \in T : \A k \in T : k <= j}}
      /\ LastOf(s, letters) = {s[i] : i \in {j \in S : \A k \in S : k <= j}}
  BY DEF LastOf
<1>. HIDE DEF m, n, S, T
<1>3. CASE t.option \in letters
  <2>1. T = S \union {n + 1} /\ \A k \in S : k \in Nat /\ k <= n
    BY <1>1, <1>3
  <2>2. \A j \in T : j \in Nat /\ j <= n + 1
    BY <1>1, <2>1
  <2>3. ASSUME NEW j \in T
        PROVE  (\A k \in T : k <= j) <=> j = n + 1
    <3>1. CASE j = n + 1
      BY <2>2, <3>1
    <3>2. CASE j # n + 1
      <4>1. j \in Nat /\ j <= n /\ n + 1 \in T /\ ~(n + 1 <= j)
        BY <1>1, <2>1, <3>2
      <4>. QED  BY <3>2, <4>1
    <3>. QED  BY <3>1, <3>2
  <2>4. {j \in T : \A k \in T : k <= j} = {n + 1}
    BY <2>1, <2>3
  <2>5. LastOf(m, letters) = {m[n + 1]}
    BY <1>2, <2>4
  <2>. QED  BY <1>1, <1>3, <2>5 DEF m
<1>4. CASE t.option \notin letters
  <2>1. T = S
    BY <1>1, <1>4
  <2>. QED  BY <1>1, <1>2, <1>4, <2>1 DEF m
<1>. QED  BY <1>3, <1>4

LEMMA AddedMore ==
  ASSUME NEW s \in Seq(TakenOptions), NEW t \in TakenOptions, NEW V, NEW v \in Seq(V),
         NEW d \in V, AllAdded(v, s), t.option = "a", d = PairOf(t.value)
  PROVE  AllAdded(Append(v, d), Append(s, t))
<1>. DEFINE m == Append(s, t)
            n == Len(s)
            S == Said(s, {"a"})
            T == Said(m, {"a"})
            w == Append(v, d)
            c == Cardinality(S)
            Upto(A, i) == {j \in A : j <= i}
<1>1. /\ S \subseteq 1 .. n /\ n \in Nat /\ IsFiniteSet(S) /\ T = S \union {n + 1}
      /\ m[n + 1] = t /\ \A i \in S : m[i] = s[i]
  BY SaidFact, SaidMore DEF SaidAlso
<1>2. n + 1 \notin S /\ c \in Nat /\ Cardinality(T) = c + 1
  <2>1. n + 1 \notin S
    BY <1>1
  <2>. QED  BY <1>1, <2>1, FS_AddElement, FS_CardinalityType
<1>3. /\ Len(v) = c /\ Len(w) = c + 1 /\ w[c + 1] = d /\ \A k \in 1 .. c : w[k] = v[k]
  <2>1. Len(v) = c
    BY DEF AllAdded
  <2>. HIDE DEF c
  <2>. QED  BY <2>1, AppendProperties
<1>4. ASSUME NEW i \in S
      PROVE  w[Cardinality(Upto(T, i))] = PairOf(m[i].value)
  <2>1. Upto(T, i) = Upto(S, i)
    <3>. HIDE DEF S, T, n
    <3>1. i <= n /\ i \in Nat
      BY <1>1
    <3>. QED  BY <1>1, <3>1
  <2>2. Cardinality(Upto(S, i)) \in 1 .. c
    <3>1. IsFiniteSet(Upto(S, i)) /\ Cardinality(Upto(S, i)) <= c
      BY <1>1, FS_Subset
    <3>2. i \in Upto(S, i)
      BY <1>1
    <3>3. Cardinality(Upto(S, i)) \in Nat /\ Cardinality(Upto(S, i)) # 0
      BY <3>1, <3>2, FS_CardinalityType, FS_EmptySet
    <3>. HIDE DEF c
    <3>. QED  BY <1>2, <3>1, <3>3
  <2>3. v[Cardinality(Upto(S, i))] = PairOf(s[i].value)
    BY DEF AllAdded
  <2>. HIDE DEF S, T, w, m, c, Upto
  <2>. QED  BY <1>1, <1>3, <2>1, <2>2, <2>3
<1>5. w[Cardinality(Upto(T, n + 1))] = PairOf(m[n + 1].value)
  <2>. HIDE DEF S, T, n
  <2>1. Upto(T, n + 1) = T
    <3>1. \A j \in T : j <= n + 1
      BY <1>1
    <3>. QED  BY <3>1
  <2>. HIDE DEF w, m, c
  <2>. QED  BY <1>1, <1>2, <1>3, <2>1
<1>6. \A i \in T : w[Cardinality(Upto(T, i))] = PairOf(m[i].value)
  <2>. HIDE DEF w, S, n
  <2>. QED  BY <1>1, <1>4, <1>5
<1>. QED  BY <1>2, <1>3, <1>6 DEF AllAdded

(* What p is, when o is what some options mean and t is one more.          *)
Follows(o, p, t) ==
  /\ p.format = IF t.option \in {"d"} \union DOMAIN FormatLetters THEN SaidFormat(t) ELSE o.format
  /\ p.report = IF t.option \in {"j", "x"} THEN SaidFormat(t) ELSE o.report
  /\ p.level = IF t.option = "l" THEN t.value.text[1] ELSE o.level
  /\ p.errors = IF t.option \in DOMAIN Handlings THEN Handlings[t.option] ELSE o.errors
  /\ p.event = IF t.option = "e" THEN {t.value} ELSE o.event
  /\ p.flags = IF t.option \in Flags THEN o.flags \union {t.option} ELSE o.flags
  /\ p.metadata = IF t.option = "a" THEN Append(o.metadata, PairOf(t.value)) ELSE o.metadata

LEMMA MeansMore ==
  ASSUME NEW o, NEW p, NEW s \in Seq(TakenOptions), NEW t \in TakenOptions,
         NEW V, o.metadata \in Seq(V), Means(o, s), Follows(o, p, t)
  PROVE  Means(p, Append(s, t))
<1>. DEFINE m == Append(s, t)
            F == {"d"} \union DOMAIN FormatLetters
            Handled == DOMAIN Handlings
<1>8. \A letters : SaidAlso(m, s, t, letters)
  BY SaidMore
<1>. HIDE DEF m, F, Handled
<1>0. \A letters : LastOf(m, letters) = IF t.option \in letters THEN {t} ELSE LastOf(s, letters)
  BY LastMore DEF m
<1>1. {p.format} = Otherwise({SaidFormat(x) : x \in LastOf(m, F)}, "xml")
  <2>1. {o.format} = Otherwise({SaidFormat(x) : x \in LastOf(s, F)}, "xml")
    BY DEF Means, F
  <2>2. p.format = IF t.option \in F THEN SaidFormat(t) ELSE o.format
    BY DEF Follows, F
  <2>3. CASE t.option \in F
    <3>1. LastOf(m, F) = {t}
      BY <1>0, <2>3
    <3>. QED  BY <2>2, <2>3, <3>1 DEF Otherwise
  <2>4. CASE t.option \notin F
    <3>1. LastOf(m, F) = LastOf(s, F)
      BY <1>0, <2>4
    <3>. QED  BY <2>1, <2>2, <2>4, <3>1
  <2>. QED  BY <2>3, <2>4
<1>2. {p.report} = Otherwise({SaidFormat(x) : x \in LastOf(m, {"j", "x"})}, "raw")
  <2>. DEFINE L == {"j", "x"}
  <2>1. {o.report} = Otherwise({SaidFormat(x) : x \in LastOf(s, L)}, "raw")
    BY DEF Means
  <2>2. p.report = IF t.option \in L THEN SaidFormat(t) ELSE o.report
    BY DEF Follows
  <2>. HIDE DEF L
  <2>3. CASE t.option \in L
    <3>1. LastOf(m, L) = {t}
      BY <1>0, <2>3
    <3>. QED  BY <2>2, <2>3, <3>1 DEF Otherwise, L
  <2>4. CASE t.option \notin L
    <3>1. LastOf(m, L) = LastOf(s, L)
      BY <1>0, <2>4
    <3>. QED  BY <2>1, <2>2, <2>4, <3>1 DEF L
  <2>. QED  BY <2>3, <2>4
<1>3. {p.level} = Otherwise({x.value.text[1] : x \in LastOf(m, {"l"})}, "warning")
  <2>. DEFINE L == {"l"}
  <2>1. {o.level} = Otherwise({x.value.text[1] : x \in LastOf(s, L)}, "warning")
    BY DEF Means
  <2>2. p.level = IF t.option \in L THEN t.value.text[1] ELSE o.level
    BY DEF Follows
  <2>. HIDE DEF L
  <2>3. CASE t.option \in L
    <3>1. LastOf(m, L) = {t}
      BY <1>0, <2>3
    <3>. QED  BY <2>2, <2>3, <3>1 DEF Otherwise, L
  <2>4. CASE t.option \notin L
    <3>1. LastOf(m, L) = LastOf(s, L)
      BY <1>0, <2>4
    <3>. QED  BY <2>1, <2>2, <2>4, <3>1 DEF L
  <2>. QED  BY <2>3, <2>4
<1>4. {p.errors} = Otherwise({Handlings[x.option] : x \in LastOf(m, Handled)}, "EXIT")
  <2>1. {o.errors} = Otherwise({Handlings[x.option] : x \in LastOf(s, Handled)}, "EXIT")
    BY DEF Means, Handled
  <2>2. p.errors = IF t.option \in Handled THEN Handlings[t.option] ELSE o.errors
    BY DEF Follows, Handled
  <2>3. CASE t.option \in Handled
    <3>1. LastOf(m, Handled) = {t}
      BY <1>0, <2>3
    <3>. QED  BY <2>2, <2>3, <3>1 DEF Otherwise
  <2>4. CASE t.option \notin Handled
    <3>1. LastOf(m, Handled) = LastOf(s, Handled)
      BY <1>0, <2>4
    <3>. QED  BY <2>1, <2>2, <2>4, <3>1
  <2>. QED  BY <2>3, <2>4
<1>5. p.event = {x.value : x \in LastOf(m, {"e"})}
  BY <1>0 DEF Means, Follows
<1>6. p.flags = {m[i].option : i \in Said(m, Flags)}
  <2>1. /\ o.flags = {s[i].option : i \in Said(s, Flags)}
        /\ p.flags = IF t.option \in Flags THEN o.flags \union {t.option} ELSE o.flags
    BY DEF Means, Follows
  <2>2. /\ Said(m, Flags) = IF t.option \in Flags THEN Said(s, Flags) \union {Len(s) + 1}
                            ELSE Said(s, Flags)
        /\ \A i \in Said(s, Flags) : m[i] = s[i]
        /\ m[Len(s) + 1] = t
    BY <1>8 DEF SaidAlso
  <2>. DEFINE n == Len(s) + 1
              S == Said(s, Flags)
  <2>. HIDE DEF n, S
  <2>3. CASE t.option \in Flags
    <3>1. Said(m, Flags) = S \union {n}
      BY <2>2, <2>3 DEF n, S
    <3>. QED  BY <2>1, <2>2, <2>3, <3>1 DEF n, S
  <2>4. CASE t.option \notin Flags
    BY <2>1, <2>2, <2>4
  <2>. QED  BY <2>3, <2>4
<1>7. AllAdded(p.metadata, m)
  <2>. DEFINE v == o.metadata
              d == PairOf(t.value)
              W == V \union {d}
  <2>1. AllAdded(v, s)
    BY DEF Means
  <2>2. p.metadata = IF t.option = "a" THEN Append(v, d) ELSE v
    BY DEF Follows
  <2>3. v \in Seq(W) /\ d \in W
    OBVIOUS
  <2>4. CASE t.option = "a"
    <3>. HIDE DEF v, d, W
    <3>1. p.metadata = Append(v, d)
      BY <2>2, <2>4
    <3>2. d = PairOf(t.value)
      BY DEF d
    <3>3. AllAdded(Append(v, d), Append(s, t))
      BY <2>1, <2>3, <2>4, <3>2, AddedMore
    <3>. QED  BY <3>1, <3>3 DEF m
  <2>5. CASE t.option # "a"
    <3>1. Said(m, {"a"}) = Said(s, {"a"}) /\ \A i \in Said(s, {"a"}) : m[i] = s[i]
      BY <2>5, <1>8 DEF SaidAlso
    <3>2. p.metadata = v
      BY <2>2, <2>5
    <3>. HIDE DEF v
    <3>. QED  BY <2>1, <3>1, <3>2 DEF AllAdded
  <2>. QED  BY <2>4, <2>5
<1>. QED  BY <1>1, <1>2, <1>3, <1>4, <1>5, <1>6, <1>7 DEF Means, F, Handled, m

----------------------------------------------------------------------------
(* The options are what the options of the command line mean, at any time. *)

Meant(o, s) ==
  /\ Means(o, s)
  /\ {o.command} = Otherwise(GivenCommands(s), "DEFAULT")
Latest == [option |-> option, value |-> scan.optarg]
MeantInv ==
  /\ pc = "scan" => Meant(options, taken)
  /\ pc = "case" =>
       /\ option \in Letters \union {"EOF", "?"}
       /\ option \in Letters =>
            \E s \in Seq(TakenOptions) : taken = Append(s, Latest) /\ Meant(options, s)
       /\ option = "EOF" => Meant(options, taken)
  /\ CommandMeant

LEMMA TakenFact ==
  ASSUME OrderInv
  PROVE  /\ taken \in Seq(TakenOptions)
         /\ option \in Letters => Latest \in TakenOptions
<1>1. taken \in Seq(TakenOptions)
  <2>1. CASE option \in {"EOF", "?"}
    <3>. DEFINE m == Meaning(given, ordering)
    <3>1. taken = m.options
      BY <2>1 DEF OrderInv, Ended, Wrong
    <3>2. given \in Seq(Elements)
      BY DEF OrderInv
    <3>3. 1 \in 1 .. Len(given) + 2
      BY <3>2
    <3>4. m.options \in Seq(TakenOptions)
      BY <3>2, <3>3, MeaningTypes DEF Meaning
    <3>. QED  BY <3>1, <3>4
  <2>2. CASE option \notin {"EOF", "?"}
    BY <2>2 DEF OrderInv, ScanInv
  <2>. QED  BY <2>1, <2>2
<1>2. ASSUME option \in Letters PROVE Latest \in TakenOptions
  <2>1. option \notin {"EOF", "?"}
    BY <1>2, GetoptAssumption
  <2>2. scan.optarg \in Elements
    BY <2>1 DEF OrderInv, ScanInv, Framed, Scans
  <2>. QED  BY <1>2, <2>2 DEF Latest, TakenOptions
<1>. QED  BY <1>1, <1>2

(* Every case but those of the end makes of the options what they are to   *)
(* be with the option that has been returned last, or parsing ends.        *)
LEMMA CaseFollows ==
  ASSUME DOMAIN options = Fields, pc' = "scan",
         \/ CommandOption \/ LevelOption \/ FormatOption \/ FormatLetter \/ FlagOption
         \/ ErrorsOption \/ EventOption \/ AddOption
  PROVE  /\ Follows(options, options', Latest)
         /\ IF option \in DOMAIN Commands
            THEN options.command = "DEFAULT" /\ options'.command = Commands[option]
            ELSE options'.command = options.command
<1>. DEFINE t == Latest
<1>0. /\ t.option = option /\ t.value = Value
      /\ \A e : ~Leave(e)
      /\ DOMAIN Commands = {"D", "F", "C", "U"} /\ DOMAIN Handlings = {"f", "i"}
      /\ DOMAIN FormatLetters = {"j", "r", "x", "y"}
  BY DEF Latest, Value, Leave, Commands, Handlings, FormatLetters
<1>. HIDE DEF t
<1>1. CASE CommandOption
  <2>1. /\ Keeps({"command"}) /\ option \in {"D", "F", "C", "U"}
        /\ options.command = "DEFAULT" /\ options'.command = Commands[option]
    BY <1>0, <1>1, CommandOptionFact DEF CommandOption, Case
  <2>. QED  BY <1>0, <2>1 DEF Follows, Keeps, Fields, Flags, t
<1>2. CASE LevelOption
  <2>1. /\ \E w \in Levels : Value = Word(w) /\ options'.level = w
        /\ Keeps({"level"}) /\ option = "l"
    <3>1. \E w \in Levels : Value = Word(w)
      BY <1>0, <1>2 DEF LevelOption
    <3>2. options' = [options EXCEPT !["level"] = CHOOSE w \in Levels : Value = Word(w)]
      BY <1>2, <3>1 DEF LevelOption
    <3>3. "level" \in Fields
      BY DEF Fields
    <3>4. /\ Keeps({"level"})
          /\ options'["level"] = CHOOSE w \in Levels : Value = Word(w)
      BY <3>2, <3>3, OneOption
    <3>. QED  BY <1>2, <3>1, <3>4 DEF LevelOption, Case
  <2>2. options'.level = t.value.text[1]
    BY <1>0, <2>1 DEF Word, Element
  <2>. QED  BY <1>0, <2>1, <2>2 DEF Follows, Keeps, Fields, Flags, Commands, t
<1>3. CASE FormatOption
  <2>1. /\ \E w \in {"raw", "json", "yaml"} : Value = Word(w) /\ options'.format = w
        /\ Keeps({"format"}) /\ option = "d"
    BY <1>0, <1>3, FormatOptionFact DEF FormatOption, Case
  <2>2. options'.format = SaidFormat(t)
    BY <1>0, <2>1 DEF Word, Element, SaidFormat
  <2>. QED  BY <1>0, <2>1, <2>2 DEF Follows, Keeps, Fields, Flags, Commands, t
<1>4. CASE FormatLetter
  <2>1. /\ option \in {"j", "r", "x", "y"} /\ Keeps({"format", "report"})
        /\ options'.format = SaidFormat(t)
        /\ options'.report = IF option \in {"j", "x"} THEN SaidFormat(t) ELSE options.report
    BY <1>0, <1>4, FormatLetterFact DEF FormatLetter, Case, SaidFormat
  <2>. QED  BY <1>0, <2>1 DEF Follows, Keeps, Fields, Flags, Commands, t
<1>5. CASE FlagOption
  <2>1. /\ option \in Flags /\ Keeps({"flags"}) /\ options'.flags = options.flags \union {option}
    BY <1>5, FlagOptionFact DEF FlagOption, Case
  <2>. QED  BY <1>0, <2>1 DEF Follows, Keeps, Fields, Flags, Commands, t
<1>6. CASE ErrorsOption
  <2>1. /\ option \in {"f", "i"} /\ Keeps({"errors"}) /\ options'.errors = Handlings[option]
    BY <1>0, <1>6, ErrorsOptionFact DEF ErrorsOption, Case
  <2>. QED  BY <1>0, <2>1 DEF Follows, Keeps, Fields, Flags, Commands, t
<1>7. CASE EventOption
  <2>1. /\ option = "e" /\ Keeps({"event"}) /\ options'.event = {Value}
    BY <1>7, EventOptionFact DEF EventOption, Case
  <2>. QED  BY <1>0, <2>1 DEF Follows, Keeps, Fields, Flags, Commands, t
<1>8. CASE AddOption
  <2>1. /\ option = "a" /\ Keeps({"metadata"})
        /\ options'.metadata = Append(options.metadata, PairOf(Value))
    BY <1>0, <1>8, AddOptionFact DEF AddOption, Case
  <2>. QED  BY <1>0, <2>1 DEF Follows, Keeps, Fields, Flags, Commands, t
<1>. QED  BY <1>1, <1>2, <1>3, <1>4, <1>5, <1>6, <1>7, <1>8

LEMMA CommandMore ==
  ASSUME NEW s \in Seq(TakenOptions), NEW t \in TakenOptions, NEW c, NEW d,
         {c} = Otherwise(GivenCommands(s), "DEFAULT"),
         IF t.option \in DOMAIN Commands THEN c = "DEFAULT" /\ d = Commands[t.option] ELSE d = c
  PROVE  {d} = Otherwise(GivenCommands(Append(s, t)), "DEFAULT")
<1>. DEFINE m == Append(s, t)
            L == DOMAIN Commands
            n == Len(s) + 1
            S == Said(s, L)
            C == {Commands[s[i].option] : i \in S}
<1>1. SaidAlso(m, s, t, L)
  BY SaidMore
<1>2. /\ GivenCommands(m) = {Commands[m[i].option] : i \in Said(m, L)}
      /\ GivenCommands(s) = C
  BY DEF GivenCommands
<1>3. CASE t.option \in L
  <2>1. Said(m, L) = S \union {n} /\ m[n] = t
    BY <1>1, <1>3 DEF SaidAlso
  <2>2. S = {}
    <3>1. ASSUME NEW i \in S PROVE FALSE
      <4>1. s[i].option \in L
        BY <3>1 DEF Said
      <4>2. Commands[s[i].option] # "DEFAULT"
        BY <4>1 DEF Commands
      <4>3. Commands[s[i].option] \in {c}
        BY <1>2, <3>1 DEF Otherwise
      <4>. QED  BY <1>3, <4>2, <4>3
    <3>. QED  BY <3>1
  <2>. HIDE DEF m, S, n
  <2>3. GivenCommands(m) = {d}
    BY <1>2, <1>3, <2>1, <2>2
  <2>. QED  BY <2>3 DEF Otherwise, m
<1>4. CASE t.option \notin L
  <2>1. Said(m, L) = S /\ \A i \in S : m[i] = s[i]
    BY <1>1, <1>4 DEF SaidAlso
  <2>. HIDE DEF m, S
  <2>2. GivenCommands(m) = C
    BY <1>2, <2>1
  <2>. QED  BY <1>2, <1>4, <2>2 DEF m
<1>. QED  BY <1>3, <1>4

LEMMA InitMeant == CmdInit => MeantInv
<1>. SUFFICES ASSUME CmdInit PROVE MeantInv
  OBVIOUS
<1>1. pc = "scan" /\ taken = <<>> /\ options = Defaults
  BY DEF CmdInit
<1>2. \A letters : Said(<<>>, letters) = {} /\ LastOf(<<>>, letters) = {}
  BY DEF Said, LastOf
<1>3. AllAdded(<<>>, <<>>)
  BY <1>2, FS_EmptySet DEF AllAdded
<1>4. Means(Defaults, <<>>)
  BY <1>2, <1>3 DEF Means, Defaults, Otherwise, NoFile
<1>5. {Defaults.command} = Otherwise(GivenCommands(<<>>), "DEFAULT")
  BY <1>2 DEF GivenCommands, Otherwise, Defaults
<1>6. Meant(options, taken)
  BY <1>1, <1>4, <1>5 DEF Meant
<1>. QED  BY <1>1, <1>6 DEF MeantInv, CommandMeant

LEMMA LetterMeant ==
  ASSUME MeantInv, OrderInv, CommandTypes, pc = "case",
         \/ CommandOption \/ LevelOption \/ FormatOption \/ FormatLetter \/ FlagOption
         \/ ErrorsOption \/ EventOption \/ AddOption
  PROVE  MeantInv'
<1>1. option \notin {"EOF", "?"} /\ UNCHANGED <<given, ordering, scan, option, taken>>
  BY DEF CommandOption, LevelOption, FormatOption, FormatLetter, FlagOption,
     ErrorsOption, EventOption, AddOption, Case, Commands, FormatLetters, Flags, Handlings
<1>2. pc' \in {"scan", "parsed"}
  BY DEF CommandOption, LevelOption, FormatOption, FormatLetter, FlagOption,
     ErrorsOption, EventOption, AddOption, GoOn, Leave
<1>3. CommandMeant'
  BY <1>1 DEF CommandMeant
<1>4. ASSUME pc' = "scan"
      PROVE  Meant(options, taken)'
  <2>1. option \in Letters
    BY <1>1 DEF MeantInv
  <2>2. PICK s \in Seq(TakenOptions) : taken = Append(s, Latest) /\ Meant(options, s)
    BY <2>1 DEF MeantInv
  <2>3. Latest \in TakenOptions
    BY <2>1, TakenFact
  <2>4. /\ Follows(options, options', Latest)
        /\ IF option \in DOMAIN Commands
           THEN options.command = "DEFAULT" /\ options'.command = Commands[option]
           ELSE options'.command = options.command
    BY <1>4, CaseFollows, FieldsFact DEF CommandTypes
  <2>5. PICK V : options.metadata \in Seq(V)
    BY DEF CommandTypes
  <2>6. Means(options', Append(s, Latest))
    BY <2>2, <2>3, <2>4, <2>5, MeansMore DEF Meant
  <2>7. {options'.command} = Otherwise(GivenCommands(Append(s, Latest)), "DEFAULT")
    <3>1. Latest.option = option
      BY DEF Latest
    <3>2. {options.command} = Otherwise(GivenCommands(s), "DEFAULT")
      BY <2>2 DEF Meant
    <3>. DEFINE c == options.command
                d == options'.command
    <3>3. IF Latest.option \in DOMAIN Commands THEN c = "DEFAULT" /\ d = Commands[Latest.option]
          ELSE d = c
      BY <2>4, <3>1
    <3>. HIDE DEF c, d
    <3>4. {d} = Otherwise(GivenCommands(Append(s, Latest)), "DEFAULT")
      BY <2>3, <3>2, <3>3, CommandMore DEF c
    <3>. QED  BY <3>4 DEF d
  <2>. QED  BY <1>1, <2>2, <2>6, <2>7 DEF Meant
<1>. QED  BY <1>2, <1>3, <1>4 DEF MeantInv

(* The files are the first two of what is not an option.                   *)
LEMMA LastMeant ==
  ASSUME MeantInv, OrderInv, CommandTypes, LastOption
  PROVE  MeantInv'
<1>0. /\ pc = "case" /\ option = "EOF" /\ UNCHANGED <<given, ordering, scan, option, taken>>
      /\ pc' = "parsed"
  BY DEF LastOption, Case, Leave
<1>1. SUFFICES ASSUME scan.optind < Argc(scan) PROVE CommandMeant'
  <2>1. scan.optind < Argc(scan) => CommandMeant'
    BY <1>1
  <2>2. ~(scan.optind < Argc(scan)) => CommandMeant'
    BY LastOptionFact, FieldsFact DEF CommandTypes, CommandMeant, Leave
  <2>. QED  BY <1>0, <2>1, <2>2 DEF MeantInv
<1>. DEFINE w == scan.args
            i == scan.optind
            n == Len(w)
            operands == Meaning(given, ordering).operands
            output == {w[k] : k \in {i + 1} \intersect DOMAIN w}
            decided == IF Len(operands) > 1 THEN "UPDATE" ELSE "DUMP"
<1>2. /\ Part(w, i, n) = operands /\ w \in Seq(Elements) /\ i \in 1 .. n + 1 /\ n \in Nat
      /\ i <= n
  BY <1>0, <1>1 DEF OrderInv, Ended, Argc
<1>3. /\ Len(operands) = n - i + 1
      /\ \A k \in 1 .. n - i + 1 : operands[k] = w[i + k - 1]
  <2>1. n \in 0 .. Len(w) /\ i \in 1 .. Len(w) + 1 /\ i <= n + 1
    BY <1>2
  <2>2. /\ Len(SubSeq(w, i, n)) = n - i + 1
        /\ \A k \in 1 .. n - i + 1 : SubSeq(w, i, n)[k] = w[i + k - 1]
    BY <1>2, <2>1, SubSeqFact
  <2>. QED  BY <1>2, <2>2 DEF Part
<1>4. DOMAIN w = 1 .. n
  BY <1>2
<1>5. /\ Keeps({"command", "input", "output"})
      /\ options'.input = {w[i]}
      /\ options'.output = IF output = NoFile THEN {w[i]} ELSE output
      /\ options'.command = IF options.command = "DEFAULT" THEN DefaultCommand(output)
                            ELSE options.command
  BY <1>1, LastOptionFact, FieldsFact DEF CommandTypes
<1>6. operands[1] = w[i] /\ (Len(operands) > 1 => operands[2] = w[i + 1])
  <2>. HIDE DEF operands, w, i, n
  <2>. QED  BY <1>2, <1>3
<1>7. output = IF Len(operands) > 1 THEN {operands[2]} ELSE NoFile
  <2>. HIDE DEF operands, w, i, n
  <2>1. CASE i + 1 <= n
    <3>1. {i + 1} \intersect DOMAIN w = {i + 1}
      BY <1>2, <1>4, <2>1
    <3>2. Len(operands) > 1
      BY <1>2, <1>3, <2>1
    <3>. QED  BY <1>6, <3>1, <3>2
  <2>2. CASE ~(i + 1 <= n)
    <3>1. {i + 1} \intersect DOMAIN w = {}
      BY <1>2, <1>4, <2>2
    <3>2. ~(Len(operands) > 1)
      BY <1>2, <1>3, <2>2
    <3>. QED  BY <3>1, <3>2 DEF NoFile
  <2>. QED  BY <2>1, <2>2
<1>8. Meant(options, taken)
  BY <1>0 DEF MeantInv
<1>. HIDE DEF output, operands, w, i, n
<1>9. Means(options', taken)
  <2>1. \A f \in {"format", "report", "level", "errors", "event", "flags", "metadata"} :
          options'[f] = options[f]
    BY <1>5 DEF Keeps, Fields
  <2>. QED  BY <1>8, <2>1 DEF Meant, Means
<1>10. options'.input = {operands[1]}
  BY <1>5, <1>6
<1>11. options'.output = IF Len(operands) > 1 THEN {operands[2]} ELSE {operands[1]}
  BY <1>5, <1>6, <1>7 DEF NoFile
<1>12. {options'.command} = Otherwise(GivenCommands(taken), decided)
  <2>1. DefaultCommand(output) = decided
    BY <1>7 DEF DefaultCommand, NoFile
  <2>. HIDE DEF decided
  <2>2. {options.command} = Otherwise(GivenCommands(taken), "DEFAULT")
    BY <1>8 DEF Meant
  <2>3. "DEFAULT" \notin GivenCommands(taken)
    <3>1. \A x \in DOMAIN Commands : Commands[x] # "DEFAULT"
      BY DEF Commands
    <3>2. \A k \in Said(taken, DOMAIN Commands) : taken[k].option \in DOMAIN Commands
      BY DEF Said
    <3>. QED  BY <3>1, <3>2 DEF GivenCommands
  <2>4. CASE GivenCommands(taken) = {}
    BY <1>5, <2>1, <2>2, <2>4 DEF Otherwise
  <2>5. CASE GivenCommands(taken) # {}
    BY <1>5, <2>2, <2>3, <2>5 DEF Otherwise
  <2>. QED  BY <2>4, <2>5
<1>. QED  BY <1>0, <1>9, <1>10, <1>11, <1>12 DEF CommandMeant, operands

LEMMA StepMeant ==
  ASSUME MeantInv, OrderInv, CommandTypes, [CmdNext]_cmdVars
  PROVE  MeantInv'
<1>1. CASE CallGetopt
  <2>. DEFINE r == GetoptLong(scan, ordering)
              t == [option |-> r.option, value |-> r.state.optarg]
  <2>1. /\ ScanInv(given, ordering, scan, taken) /\ given \in Seq(Elements)
        /\ ordering \in {"PERMUTE", "REQUIRE_ORDER"}
    BY <1>1 DEF OrderInv, CallGetopt
  <2>2. Answers(given, ordering, r, taken)
    BY <2>1, GetoptLongFact
  <2>3. /\ scan' = r.state /\ option' = r.option /\ pc' = "case" /\ pc = "scan"
        /\ options' = options
        /\ r.option \in Letters => taken' = Append(taken, t)
        /\ r.option \notin Letters => taken' = taken
    BY <1>1 DEF CallGetopt
  <2>4. t = Latest'
    BY <2>3 DEF Latest
  <2>5. "EOF" \notin Letters /\ "?" \notin Letters
    BY GetoptAssumption
  <2>6. taken \in Seq(TakenOptions) /\ Meant(options, taken)
    BY <2>3, TakenFact DEF MeantInv
  <2>7. option' \in Letters \union {"EOF", "?"}
    BY <2>2, <2>3 DEF Answers
  <2>. HIDE DEF r, t
  <2>8. option' \in Letters => taken' = Append(taken, Latest') /\ Meant(options', taken)
    BY <2>3, <2>4, <2>6
  <2>9. option' = "EOF" => Meant(options', taken')
    BY <2>3, <2>5, <2>6
  <2>. QED  BY <2>3, <2>6, <2>7, <2>8, <2>9 DEF MeantInv, CommandMeant
<1>2. CASE \/ CommandOption \/ LevelOption \/ FormatOption \/ FormatLetter \/ FlagOption
           \/ ErrorsOption \/ EventOption \/ AddOption
  <2>1. pc = "case"
    BY <1>2 DEF CommandOption, LevelOption, FormatOption, FormatLetter, FlagOption,
       ErrorsOption, EventOption, AddOption, Case
  <2>. QED  BY <1>2, <2>1, LetterMeant
<1>3. CASE ImmediateOption \/ BadOption
  BY <1>3 DEF ImmediateOption, BadOption, Case, Leave, Immediate, MeantInv, CommandMeant
<1>4. CASE LastOption
  BY <1>4, LastMeant
<1>5. CASE FreeMetadata \/ OtherCommand \/ CantOpenInput \/ NoHeader
  <2>1. pc' \notin {"scan", "case", "parsed"}
    BY <1>5 DEF FreeMetadata, OtherCommand, CantOpenInput, NoHeader, Ends, CommandTypes, Settled
  <2>. QED  BY <2>1 DEF MeantInv, CommandMeant
<1>6. CASE \/ GetInfo \/ Compute \/ CantOpenOutput \/ WriteOutput \/ Copied \/ CantCopy
           \/ PrintMetadata
  <2>1. pc' \notin {"scan", "case", "parsed"}
    BY <1>6 DEF GetInfo, Compute, CantOpenOutput, WriteOutput, Copied, CantCopy,
       PrintMetadata, Ends
  <2>. QED  BY <2>1 DEF MeantInv, CommandMeant
<1>7. CASE Exited \/ UNCHANGED cmdVars
  BY <1>7 DEF Exited, cmdVars, parsing, memory, MeantInv, CommandMeant, Latest
<1>. QED  BY <1>1, <1>2, <1>3, <1>4, <1>5, <1>6, <1>7 DEF CmdNext

(* Getopt returns the options in the order and with the values they were   *)
(* given, and leaves the rest of the command line in its order behind them *)
(* (compat/getopt.c).                                                      *)
THEOREM OptionsComeInOrder == CmdSpec => []OptionsInOrder
<1>1. MemoryInv => CommandTypes
  BY DEF MemoryInv
<1>. QED  BY <1>1, InitMemory, StepMemory, InitOrder, StepOrder, OrderFact, PTL DEF CmdSpec

(* The command that main goes on to run is the one that the command line   *)
(* means, with the settings it means (parse_command_line).                 *)
THEOREM CommandIsMeant == CmdSpec => []CommandMeant
<1>1. MemoryInv => CommandTypes
  BY DEF MemoryInv
<1>2. MeantInv => CommandMeant
  BY DEF MeantInv
<1>. QED  BY <1>1, <1>2, InitMemory, StepMemory, InitOrder, StepOrder, InitMeant, StepMeant, PTL
          DEF CmdSpec
=============================================================================
