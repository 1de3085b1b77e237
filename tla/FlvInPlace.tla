----------------------------- MODULE FlvInPlace -----------------------------
(***************************************************************************)
(* update_metadata around the two passes: which file the second pass       *)
(* writes, and how its output replaces the original when both names are    *)
(* those of one file.  The process may be stopped between any two steps,   *)
(* any write may fail, and stdio may accept bytes that it later fails to   *)
(* store, which only fseek and fclose are told of.                         *)
(*                                                                         *)
(* What the second pass writes is modelled by FlvUpdate; here it is a      *)
(* number of bytes, written in order, and what is returned after them.     *)
(***************************************************************************)
EXTENDS Integers

CONSTANTS
  Outputs,    \* what the second pass may have to write, see IsOutput
  StartSize,  \* the header and the first previous tag size, always written
  BlockSize   \* COPY_BUFFER_SIZE

(***************************************************************************)
(* An output of the second pass: how many bytes it has; how many of them   *)
(* are written by calls whose results are looked at, which are all, but    *)
(* those of a last tag that is cut off when errors are ignored; and what   *)
(* is returned behind them, ERROR_EOF before a cut off tag when errors are *)
(* not to be ignored or fixed.                                             *)
(***************************************************************************)
IsOutput(o) ==
  /\ o.size \in Nat /\ o.checked \in StartSize .. o.size
  /\ o.end \in {"OK", "ERROR_EOF"}
  /\ o.end = "ERROR_EOF" => o.checked = o.size

ASSUME InPlaceSizes == StartSize \in Nat \ {0} /\ BlockSize \in Nat \ {0}
ASSUME InPlaceOutputs == \A o \in Outputs : IsOutput(o)

(* How the output name relates to the input: the same name, another name   *)
(* of the same file (a link), another file, or no file yet.                *)
Namings == {"SAME", "LINK", "OTHER", "ABSENT"}
ScanErrors == {"ERROR_NO_FLV", "ERROR_EOF", "ERROR_INVALID_TAG"}
Results == {"NONE", "OK", "ERROR_OPEN_READ", "ERROR_OPEN_WRITE", "ERROR_WRITE"}
           \union ScanErrors
Closed == [sent |-> 0, stored |-> 0]

VARIABLES
  naming,    \* how the two names relate
  output,    \* what the second pass has to write
  pc,        \* what update_metadata is doing
  temp,      \* the temporary file: bytes accepted, bytes stored
  real,      \* the output file: bytes accepted, bytes stored
  truncated, \* the file behind the output name has been opened for writing
  pos,       \* the cursor in the temporary file when it is copied back
  atEnd,     \* feof(flv_out)
  tried,     \* the bytes of the output that write_flv has handed to stdio
  second,    \* what write_flv returned
  failures,  \* history: "WRITE", a failure the program has looked at;
             \* "UNCHECKED", one it was told of and has not; "LATE", one that
             \* only fseek or fclose could have told
  result     \* what update_metadata returns

fileVars == <<temp, real, truncated>>
copyVars == <<pos, atEnd>>
passVars == <<tried, second>>
vars == <<naming, output, pc, temp, real, truncated, pos, atEnd, tried, second, failures,
          result>>

Lesser(a, b) == IF a < b THEN a ELSE b

Init ==
  /\ naming \in Namings /\ output \in Outputs
  /\ pc = "OPEN" /\ temp = Closed /\ real = Closed /\ truncated = FALSE
  /\ pos = 0 /\ atEnd = FALSE
  /\ tried = 0 /\ second = "NONE" /\ failures = {} /\ result = "NONE"

Same == naming \in {"SAME", "LINK"}

(* flvmeta_same_file compares what stat says of both names.                *)
(* Mutated: it compares the names.                                         *)
SameFileByName == naming = "SAME"
SameFile == Same

Return(error) == pc' = "DONE" /\ result' = error

OpenInput ==
  /\ pc = "OPEN"
  /\ \/ pc' = "SCAN" /\ UNCHANGED result
     \/ Return("ERROR_OPEN_READ")
  /\ UNCHANGED <<naming, output, fileVars, copyVars, passVars, failures>>

Scan ==
  /\ pc = "SCAN"
  /\ \/ pc' = "OPEN_OUT" /\ UNCHANGED result
     \/ \E e \in ScanErrors : Return(e)
  /\ UNCHANGED <<naming, output, fileVars, copyVars, passVars, failures>>

OpenOutput ==
  /\ pc = "OPEN_OUT"
  /\ \/ /\ pc' = "WRITE"
        /\ truncated' = ~SameFile
        /\ UNCHANGED result
     \/ Return("ERROR_OPEN_WRITE") /\ UNCHANGED truncated
  /\ UNCHANGED <<naming, output, temp, real, copyVars, passVars, failures>>

(* A stream that takes n bytes more stores what it sees fit of them.       *)
Accepting(stream, n) ==
  {[sent |-> stream.sent + n, stored |-> k] : k \in stream.stored .. stream.sent + n}

(* A stream stores what it holds, or fails to.                             *)
Flushed(stream) == {[stream EXCEPT !.stored = k] : k \in stream.stored .. stream.sent}
Failures(flushed) ==
  IF flushed.stored < flushed.sent THEN failures \union {"LATE"} ELSE failures

(* write_flv: bytes of the output, then what it returns.                   *)
Hand(n, accepted) ==
  /\ tried' = tried + n
  /\ IF SameFile THEN temp' \in Accepting(temp, accepted) /\ UNCHANGED real
                 ELSE real' \in Accepting(real, accepted) /\ UNCHANGED temp
EndPass(returned) ==
  /\ second' = returned
  /\ pc' = IF SameFile THEN "REOPEN" ELSE "CLOSE"

WriteSome ==
  /\ pc = "WRITE"
  /\ \E n \in 1 .. output.size - tried : Hand(n, n)
  /\ UNCHANGED <<naming, output, pc, truncated, copyVars, second, failures, result>>

WriteFails ==
  /\ pc = "WRITE"
  /\ \E n \in 1 .. output.checked - tried : \E accepted \in 0 .. n - 1 : Hand(n, accepted)
  /\ EndPass("ERROR_WRITE")
  /\ failures' = failures \union {"WRITE"}
  /\ UNCHANGED <<naming, output, truncated, copyVars, result>>

(* With --ignore, the tag that is cut off is written by flv_write_tag and  *)
(* fwrite without a look at what they return.                              *)
WriteFailsUnnoticed ==
  /\ pc = "WRITE" /\ tried >= output.checked
  /\ \E n \in 1 .. output.size - tried : \E accepted \in 0 .. n - 1 : Hand(n, accepted)
  /\ failures' = failures \union {"UNCHECKED"}
  /\ UNCHANGED <<naming, output, pc, truncated, copyVars, second, result>>

EndOfWrite ==
  /\ pc = "WRITE" /\ tried = output.size
  /\ EndPass(output.end)
  /\ UNCHANGED <<naming, output, fileVars, copyVars, tried, failures, result>>

(* The original is opened for writing whatever write_flv has returned.     *)
Reopen ==
  /\ pc = "REOPEN"
  /\ \/ pc' = "REWIND" /\ truncated' = TRUE /\ UNCHANGED result
     \/ Return("ERROR_OPEN_WRITE") /\ UNCHANGED truncated
  /\ UNCHANGED <<naming, output, temp, real, copyVars, passVars, failures>>

(* The temporary file is stored by the seek, whose failure goes unnoticed. *)
Rewind ==
  /\ pc = "REWIND"
  /\ temp' \in Flushed(temp)
  /\ failures' = Failures(temp')
  /\ pc' = "COPY"
  /\ UNCHANGED <<naming, output, real, truncated, copyVars, passVars, result>>

(* A block that fills the buffer does not set the end indicator.           *)
Block == Lesser(BlockSize, temp.stored - pos)
(* Mutated: the last block, shorter than the buffer, is not written.       *)
WrittenFull == IF Block < BlockSize THEN 0 ELSE Block
Written == Block

CopyBlock ==
  /\ pc = "COPY" /\ ~atEnd
  /\ pos' = pos + Block
  /\ atEnd' = (Block < BlockSize)
  /\ \/ /\ Block > 0
        /\ real' \in Accepting(real, Written)
        /\ UNCHANGED <<pc, failures, result>>
     \/ /\ Block > 0
        /\ \E accepted \in 0 .. Block - 1 : real' \in Accepting(real, accepted)
        /\ failures' = Failures(real') \union {"WRITE"}
        /\ Return("ERROR_WRITE")
     \/ /\ Block = 0
        /\ real' \in Flushed(real)
        /\ failures' = Failures(real')
        /\ Return("ERROR_WRITE")
  /\ UNCHANGED <<naming, output, temp, truncated, passVars>>

EndOfCopy ==
  /\ pc = "COPY" /\ atEnd
  /\ pc' = "CLOSE"
  /\ UNCHANGED <<naming, output, fileVars, copyVars, passVars, failures, result>>

(* fclose, whose failure goes unnoticed.                                   *)
(* Mutated: the result of the second pass is forgotten.                    *)
CloseForgets ==
  /\ pc = "CLOSE"
  /\ real' \in Flushed(real)
  /\ failures' = Failures(real')
  /\ Return("OK")
  /\ UNCHANGED <<naming, output, temp, truncated, copyVars, passVars>>
Close ==
  /\ pc = "CLOSE"
  /\ real' \in Flushed(real)
  /\ failures' = Failures(real')
  /\ Return(second)
  /\ UNCHANGED <<naming, output, temp, truncated, copyVars, passVars>>

Stopped == pc \in {"DONE", "CRASHED"}
Crash ==
  /\ ~Stopped
  /\ pc' = "CRASHED"
  /\ UNCHANGED <<naming, output, fileVars, copyVars, passVars, failures, result>>

Next ==
  \/ OpenInput \/ Scan \/ OpenOutput
  \/ WriteSome \/ WriteFails \/ WriteFailsUnnoticed \/ EndOfWrite
  \/ Reopen \/ Rewind \/ CopyBlock \/ EndOfCopy \/ Close \/ Crash

Spec == Init /\ [][Next]_vars

----------------------------------------------------------------------------
Streams == [sent : Nat, stored : Nat]
TypeOK ==
  /\ naming \in Namings /\ output \in Outputs
  /\ pc \in {"OPEN", "SCAN", "OPEN_OUT", "WRITE", "REOPEN", "REWIND", "COPY",
             "CLOSE", "DONE", "CRASHED"}
  /\ tried \in 0 .. output.size
  /\ temp \in Streams /\ temp.stored <= temp.sent /\ temp.sent <= tried
  /\ real \in Streams /\ real.stored <= real.sent /\ real.sent <= tried
  /\ truncated \in BOOLEAN /\ atEnd \in BOOLEAN
  /\ pos \in 0 .. temp.stored
  /\ second \in {"NONE", "OK", "ERROR_EOF", "ERROR_WRITE"}
  /\ failures \subseteq {"WRITE", "UNCHECKED", "LATE"}
  /\ result \in Results

(* What a stream has accepted of an output whose second pass has met no    *)
(* failure that it looks at: all, unless a write it does not look at has   *)
(* failed, and then at least what comes before the tag that is cut off.    *)
Accepted(stream) ==
  /\ stream.sent >= output.checked
  /\ "UNCHECKED" \notin failures => stream.sent = output.size

(* "the output file is written while the original file is being read" (man *)
(* page, line 147): the original keeps its contents until the second pass  *)
(* is over, also when the process is stopped; and when it is overwritten   *)
(* after a second pass that has not failed in a write it looks at, another *)
(* file has taken the whole output, or all but the end of a cut off tag    *)
(* whose writes nobody looks at (update.c:223-230, 284-292, 316-326).      *)
InputIntact ==
  truncated /\ Same =>
    /\ second # "NONE"
    /\ second # "ERROR_WRITE" => tried = output.size /\ Accepted(temp)

(* A success leaves the output behind the output name, unless the system   *)
(* failed to store bytes it had accepted: the whole of it, unless a write  *)
(* of a cut off tag has failed unnoticed, and then all that comes before   *)
(* that tag (update.c:223-230, 316-357).                                   *)
Delivered ==
  /\ truncated /\ real.stored >= output.checked
  /\ "UNCHECKED" \notin failures => real.stored = output.size
CompleteOnSuccess ==
  pc = "DONE" /\ result = "OK" /\ "LATE" \notin failures => Delivered

(* The output of a second pass that has seen a failure is never presented  *)
(* as a success, even when it has been copied back (update.c:307, 357).    *)
ErrorsReported ==
  pc = "DONE" /\ result = "OK" => second = "OK" /\ "WRITE" \notin failures

(* "8 an error was encountered while writing an output file" (man page,    *)
(* line 297).                                                              *)
WriteErrorsReal == pc = "DONE" /\ result = "ERROR_WRITE" => failures # {}

----------------------------------------------------------------------------
(* The invariant the proofs rest on: what each stage may rely on.          *)
Untouched ==
  /\ pc \in {"OPEN", "SCAN", "OPEN_OUT"} =>
       temp.sent = 0 /\ real.sent = 0 /\ pos = 0 /\ ~atEnd /\ ~truncated /\ tried = 0
  /\ pc \in {"OPEN", "SCAN", "OPEN_OUT"} => failures = {}
  /\ pc \in {"OPEN", "SCAN", "OPEN_OUT", "WRITE"} => second = "NONE"
SecondPass ==
  /\ pc = "WRITE" =>
       LET taken == IF Same THEN temp.sent ELSE real.sent IN
       /\ truncated = ~Same /\ failures \subseteq {"UNCHECKED"}
       /\ failures = {} => taken = tried
       /\ failures # {} => output.checked <= taken
  /\ pc \in {"WRITE", "REOPEN", "REWIND"} => pos = 0 /\ ~atEnd /\ (Same => real.sent = 0)
  /\ pc \in {"REOPEN", "REWIND", "COPY"} => Same
CopyBack ==
  /\ pc \in {"REOPEN", "REWIND", "COPY", "CLOSE"} =>
       /\ second # "NONE"
       /\ "WRITE" \in failures => second = "ERROR_WRITE"
       /\ second # "ERROR_WRITE" =>
            /\ tried = output.size
            /\ Same => Accepted(temp)
            /\ ~Same => Accepted(real)
  /\ pc \in {"REWIND", "COPY", "CLOSE"} => truncated
  /\ pc \in {"COPY", "CLOSE"} /\ Same =>
       /\ real.sent = pos
       /\ "LATE" \notin failures => temp.stored = temp.sent
       /\ atEnd => pos = temp.stored
  /\ pc = "CLOSE" /\ Same => atEnd
InPlaceInv ==
  /\ TypeOK /\ Untouched /\ SecondPass /\ CopyBack
  /\ InputIntact /\ CompleteOnSuccess /\ ErrorsReported
=============================================================================
