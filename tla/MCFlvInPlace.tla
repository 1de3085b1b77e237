---------------------------- MODULE MCFlvInPlace ----------------------------
(* Outputs of two to nine bytes and a copy buffer of four: shorter than    *)
(* the buffer, as long as it, multiples of it and in between; the writes   *)
(* of the last bytes looked at or not.                                     *)
EXTENDS FlvInPlace

MCSizes == StartSize .. 9
Output(size, checked, end) == [size |-> size, checked |-> checked, end |-> end]
MCOutputs ==
  {Output(n, n, "ERROR_EOF") : n \in MCSizes}
  \union {o \in [size : MCSizes, checked : MCSizes, end : {"OK"}] : o.checked <= o.size}
MultipleOutputs == {Output(8, 8, "OK")}
=============================================================================
