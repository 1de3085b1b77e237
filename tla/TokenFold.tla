----------------------------- MODULE TokenFold ------------------------------
(***************************************************************************)
(* A state carried over a sequence of tokens, characters or calls.         *)
(***************************************************************************)
EXTENDS Naturals, Sequences

(* op(...op(op(start, s[1]), s[2])..., s[n]).  Every step is a set of one  *)
(* state, so that a state is evaluated once, before the next one.          *)
Fold(op(_, _), start, s) ==
  LET after[i \in 0 .. Len(s)] ==
        IF i = 0 THEN {start} ELSE {op(state, s[i]) : state \in after[i - 1]}
  IN  CHOOSE state \in after[Len(s)] : TRUE

(* The same for n steps that depend on their number.                       *)
Repeat(op(_, _), start, n) == Fold(op, start, [i \in 1 .. n |-> i])
=============================================================================
