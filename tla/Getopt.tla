------------------------------- MODULE Getopt -------------------------------
(***************************************************************************)
(* getopt_long (compat/getopt.c, getopt1.c): each call returns the next    *)
(* option of the command line, which the calls permute as they go so that  *)
(* what is not an option comes last.                                       *)
(*                                                                         *)
(* An element of argv is its number of leading dashes (2 at most) and the  *)
(* pieces of text behind them: the letters and values of a cluster of      *)
(* short options, the parts of a long name, "=" and a value, or a word.    *)
(* argv[0], the program's name, is left out: argv[i] is args[i].           *)
(***************************************************************************)
EXTENDS Naturals, SequencesExt

CONSTANTS
  Letters,      \* the short options
  WithValue,    \* those that take a value
  LongOptions,  \* the long options: a sequence of names and letters
  Orderings     \* "PERMUTE", and "REQUIRE_ORDER" when POSIXLY_CORRECT is set

ASSUME GetoptAssumption ==
  /\ WithValue \subseteq Letters
  /\ Letters \intersect {"?", "EOF", "none"} = {}
  /\ LongOptions \in Seq([name : Seq(STRING), letter : Letters])
  /\ \A i, j \in DOMAIN LongOptions : LongOptions[i].name = LongOptions[j].name => i = j
  /\ Orderings \subseteq {"PERMUTE", "REQUIRE_ORDER"}

Element(dashes, text) == [dashes |-> dashes, text |-> text]
NoValue == Element(0, <<>>)
IsOption(e) == e.dashes = 2 \/ (e.dashes = 1 /\ e.text # <<>>)
EndOfOptions == Element(2, <<>>)

(***************************************************************************)
(* What is kept between two calls: argv, the index of the element to be    *)
(* scanned, what is left of the one being scanned, the bounds of the       *)
(* non-options passed over so far, and the value of the option returned.   *)
(***************************************************************************)
Started(args) ==
  [args |-> args, optind |-> 1, nextchar |-> <<>>,
   first_nonopt |-> 1, last_nonopt |-> 1, optarg |-> NoValue]
Argc(g) == Len(g.args) + 1

(* The len elements from i on change places with those from j on.          *)
Swapped(args, i, j, len) ==
  [k \in DOMAIN args |->
     IF k \in i .. i + len - 1 THEN args[k - i + j]
     ELSE IF k \in j .. j + len - 1 THEN args[k - j + i]
     ELSE args[k]]

(* The shorter of two adjacent segments is put into its place, until both  *)
(* are in theirs: each swap leaves less of args to be put right.           *)
Segments(args, bottom, top) == [args |-> args, bottom |-> bottom, top |-> top]
SwapShorter(s, middle) ==
  LET low == middle - s.bottom
      high == s.top - middle
  IN IF low <= 0 \/ high <= 0 THEN s
     ELSE IF high > low
     THEN Segments(Swapped(s.args, s.bottom, s.top - low, low), s.bottom, s.top - low)
     ELSE Segments(Swapped(s.args, s.bottom, middle, high), s.bottom + high, s.top)
Exchanged(args, bottom, middle, top) ==
  LET after[n \in 0 .. Len(args)] ==
        IF n = 0 THEN Segments(args, bottom, top) ELSE SwapShorter(after[n - 1], middle)
  IN after[Len(args)].args

ExchangeForgotten(g) ==   \* the bounds of the non-options stay behind
  [g EXCEPT !.args = Exchanged(g.args, g.first_nonopt, g.last_nonopt, g.optind),
            !.last_nonopt = g.optind]
Exchange(g) ==
  [g EXCEPT !.args = Exchanged(g.args, g.first_nonopt, g.last_nonopt, g.optind),
            !.first_nonopt = @ + (g.optind - g.last_nonopt),
            !.last_nonopt = g.optind]

(* Options that follow non-options go before them.  If there are none      *)
(* between, the non-options begin at optind.                               *)
OptionsFirst(g) ==
  IF g.first_nonopt # g.last_nonopt /\ g.last_nonopt # g.optind THEN Exchange(g)
  ELSE IF g.last_nonopt # g.optind THEN [g EXCEPT !.first_nonopt = g.optind]
  ELSE g

(* Non-options are passed over, when their order does not matter.          *)
PassNonOptions(g) ==
  LET h == OptionsFirst(g)
      stops == {i \in g.optind .. Len(g.args) : IsOption(h.args[i])} \cup {Argc(g)}
      next == CHOOSE i \in stops : \A j \in stops : i <= j
  IN [h EXCEPT !.optind = next, !.last_nonopt = next]

(* "--" goes before the non-options too; the rest are non-options.         *)
PassEndOfOptions(g) ==
  LET h == [g EXCEPT !.optind = @ + 1]
      k == IF h.first_nonopt # h.last_nonopt /\ h.last_nonopt # h.optind THEN Exchange(h)
           ELSE IF h.first_nonopt = h.last_nonopt THEN [h EXCEPT !.first_nonopt = h.optind]
           ELSE h
  IN IF g.optind # Argc(g) /\ g.args[g.optind] = EndOfOptions
     THEN [k EXCEPT !.last_nonopt = Argc(g), !.optind = Argc(g)]
     ELSE g

NextElement(g, ordering) ==
  PassEndOfOptions(IF ordering = "PERMUTE" THEN PassNonOptions(g) ELSE g)

Returns(g, option) == [state |-> g, option |-> option]
Failed(g) == Returns(g, "?")

(* optind goes back over the non-options that were passed over.            *)
NoMore(g) ==
  Returns(IF g.optind = Argc(g) /\ g.first_nonopt # g.last_nonopt
          THEN [g EXCEPT !.optind = g.first_nonopt] ELSE g, "EOF")

----------------------------------------------------------------------------
(* A long option is named in full or by the beginning of its name, as long *)
(* as nothing else begins so.                                              *)
NameEnd(text) == SelectInSeq(text, LAMBDA piece : piece = "=")
NameOf(text) == IF NameEnd(text) = 0 THEN text ELSE SubSeq(text, 1, NameEnd(text) - 1)
ValueOf(text) == Element(0, SubSeq(text, NameEnd(text) + 1, Len(text)))

Begun(name) == {i \in DOMAIN LongOptions : IsPrefix(name, LongOptions[i].name)}
Exact(name) == {i \in DOMAIN LongOptions : LongOptions[i].name = name}
First(S) == CHOOSE i \in S : \A j \in S : i <= j
Ambiguous(name) ==
  /\ Exact(name) = {}
  /\ \E i \in Begun(name) : LongOptions[i].letter # LongOptions[First(Begun(name))].letter

(* The value of an option is the element behind it.                        *)
TakeElement(g, option) ==
  IF g.optind < Argc(g)
  THEN Returns([g EXCEPT !.optarg = g.args[g.optind], !.optind = @ + 1], option)
  ELSE Failed(g)

LongOption(g) ==
  LET name == NameOf(g.nextchar)
      passed == [g EXCEPT !.nextchar = <<>>, !.optind = @ + 1]
      option == LongOptions[First(IF Exact(name) # {} THEN Exact(name)
                                  ELSE Begun(name))].letter
  IN IF Begun(name) = {} \/ Ambiguous(name) THEN Failed(passed)
     ELSE IF NameEnd(g.nextchar) # 0
     THEN IF option \in WithValue
          THEN Returns([passed EXCEPT !.optarg = ValueOf(g.nextchar)], option)
          ELSE Failed(passed)
     ELSE IF option \in WithValue THEN TakeElement(passed, option)
     ELSE Returns(passed, option)

(* optind moves on with the last letter of an element, or with the value   *)
(* that ends it.                                                           *)
ShortOption(g) ==
  LET option == Head(g.nextchar)
      rest == Tail(g.nextchar)
      passed == [g EXCEPT !.nextchar = rest,
                          !.optind = IF rest = <<>> THEN @ + 1 ELSE @]
  IN IF option \notin Letters THEN Failed(passed)
     ELSE IF option \notin WithValue THEN Returns(passed, option)
     ELSE IF rest = <<>> THEN TakeElement(passed, option)
     ELSE Returns([passed EXCEPT !.nextchar = <<>>, !.optind = @ + 1,
                                 !.optarg = Element(0, rest)], option)

GetoptLong(g, ordering) ==
  LET called == [g EXCEPT !.optarg = NoValue]
      n == NextElement(called, ordering)
      e == n.args[n.optind]
      scanned == [n EXCEPT !.nextchar = e.text]
  IN IF called.nextchar # <<>> THEN ShortOption(called)
     ELSE IF n.optind = Argc(n) \/ ~IsOption(e) THEN NoMore(n)
     ELSE IF e.dashes = 2 THEN LongOption(scanned)
     ELSE ShortOption(scanned)

----------------------------------------------------------------------------
(* What compat/getopt.c promises (its comment to _getopt_internal): the    *)
(* command line read from left to right.  The options come with their      *)
(* values, in order, up to "--"; everything else is left, in order.  The   *)
(* reading ends at the first mistake.                                      *)
NothingRead == [options |-> <<>>, operands |-> <<>>, failed |-> FALSE]
Also(option, value, r) == [r EXCEPT !.options = <<[option |-> option, value |-> value]>> \o @]
Operand(e, r) == [r EXCEPT !.operands = <<e>> \o @]
Mistake == [NothingRead EXCEPT !.failed = TRUE]

(* Of the element i: rest is the meaning of what follows it, and after the *)
(* meaning of what follows that, if the element behind it is its value.    *)
ValueBehind(option, args, i, after) ==
  IF i = Len(args) THEN Mistake ELSE Also(option, args[i + 1], after)

(* A cluster, from each of its letters on.                                 *)
ClusterMeaning(args, i, rest, after) ==
  LET text == args[i].text
      from[k \in 1 .. Len(text) + 1] ==
        IF k = Len(text) + 1 THEN rest
        ELSE IF text[k] \notin Letters THEN Mistake
        ELSE IF text[k] \notin WithValue THEN Also(text[k], NoValue, from[k + 1])
        ELSE IF k = Len(text) THEN ValueBehind(text[k], args, i, after)
        ELSE Also(text[k], Element(0, SubSeq(text, k + 1, Len(text))), rest)
  IN from

LongMeaning(args, i, rest, after) ==
  LET text == args[i].text
      name == NameOf(text)
      meant == {LongOptions[j].letter : j \in IF Exact(name) # {} THEN Exact(name) ELSE Begun(name)}
      option == CHOOSE o \in meant : TRUE
      valued == NameEnd(text) # 0
  IN IF ~(\E o \in meant : meant = {o}) \/ (valued /\ option \notin WithValue) THEN Mistake
     ELSE IF valued THEN Also(option, ValueOf(text), rest)
     ELSE IF option \in WithValue THEN ValueBehind(option, args, i, after)
     ELSE Also(option, NoValue, rest)

ElementMeaning(args, i, rest, after, ordering) ==
  IF args[i] = EndOfOptions \/ (~IsOption(args[i]) /\ ordering = "REQUIRE_ORDER")
  THEN [NothingRead EXCEPT !.operands = SubSeq(args, IF IsOption(args[i]) THEN i + 1 ELSE i, Len(args))]
  ELSE IF ~IsOption(args[i]) THEN Operand(args[i], rest)
  ELSE IF args[i].dashes = 2 THEN LongMeaning(args, i, rest, after)
  ELSE ClusterMeaning(args, i, rest, after)[1]

(* From each element on, and from one more, where a value may end.         *)
MeaningFrom(args, ordering) ==
  LET from[i \in 1 .. Len(args) + 2] ==
        IF i > Len(args) THEN NothingRead
        ELSE ElementMeaning(args, i, from[i + 1], from[i + 2], ordering)
  IN from
Meaning(args, ordering) == MeaningFrom(args, ordering)[1]
=============================================================================
