---------------------------- MODULE MCAmfObject ----------------------------
(* Names of one and two letters, one the beginning of another, and values  *)
(* of which the run of the merge makes one impossible to clone.            *)
EXTENDS AmfObject

CONSTANTS v1, v2

MCNames == {<<"a">>, <<"a", "b">>, <<"c">>}
TwoNames == {<<"a">>, <<"c">>}
MCValues == {v1, v2}
NoValues == {}
NullValues == {v2}
=============================================================================
