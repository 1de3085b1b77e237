--------------------------- MODULE MCCommandLine ---------------------------
(***************************************************************************)
(* Command lines of up to six elements: files,  clusters, long options in  *)
(* full and abbreviated, values joined to their option and apart from it.  *)
(***************************************************************************)
EXTENDS CommandLine

Short(letters) == Element(1, letters)
DoubleDash(text) == Element(2, text)

(* Of each kind a few: the shape of the elements is what getopt goes by.   *)
Files == {Word("in"), Word("out")}
Shapes ==
  Files \cup
  { Element(1, <<>>), DoubleDash(<<>>),                      \* - and --
    Short(<<"U">>), Short(<<"p", "m">>), Short(<<"q", "?">>),
    Short(<<"a">>), Short(<<"k", "a", "n", "=", "v">>),
    DoubleDash(<<"a", "dd", "=", "n", "=", "v">>),           \* --add=n=v
    DoubleDash(<<"d", "ump">>), DoubleDash(<<"d">>),         \* exact, ambiguous
    DoubleDash(<<"v", "er">>), DoubleDash(<<"e">>) }
(* What only matters with few others.                                      *)
Settings ==
  { Word("in"), Word("json"), Word("xml"), Word("info"), Short(<<"d">>), Short(<<"j">>),
    Short(<<"r">>), Short(<<"x", "f">>), Short(<<"y", "i">>), Short(<<"l">>),
    Short(<<"F">>), Short(<<"C">>), Short(<<"V">>), Short(<<"h">>),
    DoubleDash(<<"d", "ump", "-format", "=", "raw">>),
    DoubleDash(<<"l", "=", "fatal">>), DoubleDash(<<"e", "=", "x">>),
    DoubleDash(<<"q", "uiet", "=", "x">>), DoubleDash(<<"z">>), DoubleDash(<<"=">>) }
Upto(n, S) == UNION {[1 .. k -> S] : k \in 0 .. n}
(* Options and files in turns, longer than the rest.                       *)
Mixed == Files \cup {Short(<<"p", "m">>), Short(<<"a">>), Short(<<"k", "a", "n", "=", "v">>),
                     Short(<<"U">>), DoubleDash(<<>>), DoubleDash(<<"e">>)}
Turns == [1 .. 6 -> Files \cup {Short(<<"p", "m">>), Short(<<"e">>)}]
MCCommandLines ==
  Upto(3, Shapes) \cup [1 .. 4 -> Mixed] \cup Turns \cup Upto(2, Settings)
    \cup {Append(s, Word("in")) : s \in Upto(2, Settings)}
MCOrderings == {"PERMUTE", "REQUIRE_ORDER"}
=============================================================================
