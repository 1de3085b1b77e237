-------------------------- MODULE FlvInPlaceProofs --------------------------
(* Theorems about FlvInPlace.                                              *)
EXTENDS FlvInPlace, TLAPS

USE InPlaceSizes, InPlaceOutputs

(* What a stream may have stored.                                          *)
LEMMA AcceptingType ==
  ASSUME NEW s \in Streams, s.stored <= s.sent, NEW n \in Nat, NEW t \in Accepting(s, n)
  PROVE  /\ t \in Streams /\ t.stored <= t.sent /\ t.sent = s.sent + n
         /\ s.stored <= t.stored
  BY DEF Accepting, Streams

LEMMA FlushedType ==
  ASSUME NEW s \in Streams, s.stored <= s.sent, NEW t \in Flushed(s)
  PROVE  /\ t \in Streams /\ t.stored <= t.sent /\ t.sent = s.sent
         /\ "LATE" \notin Failures(t) => t.stored = t.sent
         /\ failures \subseteq {"WRITE", "UNCHECKED", "LATE"} => Failures(t) \subseteq {"WRITE", "UNCHECKED", "LATE"}
         /\ failures \subseteq Failures(t)
         /\ "WRITE" \in Failures(t) => "WRITE" \in failures
         /\ "UNCHECKED" \in Failures(t) => "UNCHECKED" \in failures
  BY DEF Flushed, Streams, Failures

LEMMA Initially == Init => InPlaceInv
  <1> SUFFICES ASSUME Init PROVE InPlaceInv
    OBVIOUS
  <1>1. output \in Outputs /\ IsOutput(output)
    BY DEF Init
  <1>2. TypeOK
    <2>1. temp = Closed /\ real = Closed /\ Closed \in Streams /\ pos = 0 /\ tried = 0
      BY DEF Init, Closed, Streams
    <2>2. Closed.stored = 0 /\ Closed.sent = 0 /\ output.size \in Nat
      BY <1>1 DEF Closed, IsOutput
    <2>3. pos \in 0 .. temp.stored /\ tried \in 0 .. output.size
      BY <2>1, <2>2
    <2>4. result \in Results
      BY DEF Init, Results
    <2>5. temp \in Streams /\ temp.stored <= temp.sent /\ temp.sent <= tried
          /\ real \in Streams /\ real.stored <= real.sent /\ real.sent <= tried
      BY <2>1, <2>2
    <2>6. /\ naming \in Namings /\ truncated \in BOOLEAN /\ atEnd \in BOOLEAN
          /\ pc = "OPEN" /\ second = "NONE" /\ failures = {}
      BY DEF Init
    <2> QED BY <1>1, <2>3, <2>4, <2>5, <2>6 DEF TypeOK
  <1>3. Untouched /\ SecondPass /\ CopyBack
    BY DEF Init, Untouched, SecondPass, CopyBack, Closed
  <1>4. InputIntact /\ CompleteOnSuccess /\ ErrorsReported
    BY DEF Init, InputIntact, CompleteOnSuccess, ErrorsReported
  <1> QED BY <1>2, <1>3, <1>4 DEF InPlaceInv

(* Steps that leave both files and the output's cursor alone.              *)
LEMMA QuietType ==
  ASSUME TypeOK, UNCHANGED <<naming, output, temp, real, pos, atEnd, tried>>,
         pc' \in {"OPEN", "SCAN", "OPEN_OUT", "WRITE", "REOPEN", "REWIND", "COPY",
                 "CLOSE", "DONE", "CRASHED"},
         truncated' \in BOOLEAN, second' \in {"NONE", "OK", "ERROR_EOF", "ERROR_WRITE"},
         failures' \subseteq {"WRITE", "UNCHECKED", "LATE"}, result' \in Results
  PROVE  TypeOK'
  BY DEF TypeOK

LEMMA OpenStep == InPlaceInv /\ (OpenInput \/ Scan) => InPlaceInv'
  <1> SUFFICES ASSUME InPlaceInv, OpenInput \/ Scan PROVE InPlaceInv'
    OBVIOUS
  <1> USE DEF OpenInput, Scan, Return, ScanErrors, fileVars, copyVars, passVars, SameFile, Stopped, vars
  <1>1. TypeOK'
    <2>1. UNCHANGED <<naming, output, temp, real, pos, atEnd, tried>>
      OBVIOUS
    <2>2. pc' \in {"OPEN", "SCAN", "OPEN_OUT", "WRITE", "REOPEN", "REWIND", "COPY",
                  "CLOSE", "DONE", "CRASHED"} /\ result' \in Results
      BY DEF InPlaceInv, TypeOK, Results
    <2>3. truncated' \in BOOLEAN /\ failures' \subseteq {"WRITE", "UNCHECKED", "LATE"}
          /\ second' \in {"NONE", "OK", "ERROR_EOF", "ERROR_WRITE"}
      BY DEF InPlaceInv, TypeOK
    <2> QED BY <2>1, <2>2, <2>3, QuietType DEF InPlaceInv
  <1>2. Untouched'
    BY DEF InPlaceInv, Untouched
  <1>3. SecondPass'
    BY DEF InPlaceInv, Untouched, SecondPass, CopyBack, Same
  <1>4. CopyBack'
    BY DEF InPlaceInv, Untouched, SecondPass, CopyBack, Same, Accepted
  <1>5. InputIntact'
    BY DEF InPlaceInv, InputIntact, Untouched, SecondPass, CopyBack, Same, Accepted
  <1>6. CompleteOnSuccess' /\ ErrorsReported'
    BY DEF InPlaceInv, CompleteOnSuccess, ErrorsReported, Delivered
  <1> QED BY <1>1, <1>2, <1>3, <1>4, <1>5, <1>6 DEF InPlaceInv

LEMMA OutputStep == InPlaceInv /\ (OpenOutput) => InPlaceInv'
  <1> SUFFICES ASSUME InPlaceInv, OpenOutput PROVE InPlaceInv'
    OBVIOUS
  <1> USE DEF OpenOutput, Return, ScanErrors, fileVars, copyVars, passVars, SameFile, Stopped, vars
  <1>1. TypeOK'
    <2>1. UNCHANGED <<naming, output, temp, real, pos, atEnd, tried>>
      OBVIOUS
    <2>2. pc' \in {"OPEN", "SCAN", "OPEN_OUT", "WRITE", "REOPEN", "REWIND", "COPY",
                  "CLOSE", "DONE", "CRASHED"} /\ result' \in Results
      BY DEF InPlaceInv, TypeOK, Results
    <2>3. truncated' \in BOOLEAN /\ failures' \subseteq {"WRITE", "UNCHECKED", "LATE"}
          /\ second' \in {"NONE", "OK", "ERROR_EOF", "ERROR_WRITE"}
      BY DEF InPlaceInv, TypeOK
    <2> QED BY <2>1, <2>2, <2>3, QuietType DEF InPlaceInv
  <1>2. Untouched'
    BY DEF InPlaceInv, Untouched
  <1>3. SecondPass'
    BY DEF InPlaceInv, Untouched, SecondPass, CopyBack, Same
  <1>4. CopyBack'
    BY DEF InPlaceInv, Untouched, SecondPass, CopyBack, Same, Accepted
  <1>5. InputIntact'
    BY DEF InPlaceInv, InputIntact, Untouched, SecondPass, CopyBack, Same, Accepted
  <1>6. CompleteOnSuccess' /\ ErrorsReported'
    BY DEF InPlaceInv, CompleteOnSuccess, ErrorsReported, Delivered
  <1> QED BY <1>1, <1>2, <1>3, <1>4, <1>5, <1>6 DEF InPlaceInv

LEMMA ReopenStep == InPlaceInv /\ (Reopen) => InPlaceInv'
  <1> SUFFICES ASSUME InPlaceInv, Reopen PROVE InPlaceInv'
    OBVIOUS
  <1> USE DEF Reopen, Return, ScanErrors, fileVars, copyVars, passVars, SameFile, Stopped, vars
  <1>1. TypeOK'
    <2>1. UNCHANGED <<naming, output, temp, real, pos, atEnd, tried>>
      OBVIOUS
    <2>2. pc' \in {"OPEN", "SCAN", "OPEN_OUT", "WRITE", "REOPEN", "REWIND", "COPY",
                  "CLOSE", "DONE", "CRASHED"} /\ result' \in Results
      BY DEF InPlaceInv, TypeOK, Results
    <2>3. truncated' \in BOOLEAN /\ failures' \subseteq {"WRITE", "UNCHECKED", "LATE"}
          /\ second' \in {"NONE", "OK", "ERROR_EOF", "ERROR_WRITE"}
      BY DEF InPlaceInv, TypeOK
    <2> QED BY <2>1, <2>2, <2>3, QuietType DEF InPlaceInv
  <1>2. Untouched'
    BY DEF InPlaceInv, Untouched
  <1>3. SecondPass'
    BY DEF InPlaceInv, Untouched, SecondPass, CopyBack, Same
  <1>4. CopyBack'
    BY DEF InPlaceInv, Untouched, SecondPass, CopyBack, Same, Accepted
  <1>5. InputIntact'
    BY DEF InPlaceInv, InputIntact, Untouched, SecondPass, CopyBack, Same, Accepted
  <1>6. CompleteOnSuccess' /\ ErrorsReported'
    BY DEF InPlaceInv, CompleteOnSuccess, ErrorsReported, Delivered
  <1> QED BY <1>1, <1>2, <1>3, <1>4, <1>5, <1>6 DEF InPlaceInv

LEMMA EndStep == InPlaceInv /\ (EndOfCopy \/ Crash \/ UNCHANGED vars) => InPlaceInv'
  <1> SUFFICES ASSUME InPlaceInv, EndOfCopy \/ Crash \/ UNCHANGED vars PROVE InPlaceInv'
    OBVIOUS
  <1> USE DEF EndOfCopy, Crash, Return, ScanErrors, fileVars, copyVars, passVars, SameFile, Stopped, vars
  <1>1. TypeOK'
    <2>1. UNCHANGED <<naming, output, temp, real, pos, atEnd, tried>>
      OBVIOUS
    <2>2. pc' \in {"OPEN", "SCAN", "OPEN_OUT", "WRITE", "REOPEN", "REWIND", "COPY",
                  "CLOSE", "DONE", "CRASHED"} /\ result' \in Results
      BY DEF InPlaceInv, TypeOK, Results
    <2>3. truncated' \in BOOLEAN /\ failures' \subseteq {"WRITE", "UNCHECKED", "LATE"}
          /\ second' \in {"NONE", "OK", "ERROR_EOF", "ERROR_WRITE"}
      BY DEF InPlaceInv, TypeOK
    <2> QED BY <2>1, <2>2, <2>3, QuietType DEF InPlaceInv
  <1>2. Untouched'
    BY DEF InPlaceInv, Untouched
  <1>3. SecondPass'
    BY DEF InPlaceInv, Untouched, SecondPass, CopyBack, Same
  <1>4. CopyBack'
    BY DEF InPlaceInv, Untouched, SecondPass, CopyBack, Same, Accepted
  <1>5. InputIntact'
    BY DEF InPlaceInv, InputIntact, Untouched, SecondPass, CopyBack, Same, Accepted
  <1>6. CompleteOnSuccess' /\ ErrorsReported'
    BY DEF InPlaceInv, CompleteOnSuccess, ErrorsReported, Delivered
  <1> QED BY <1>1, <1>2, <1>3, <1>4, <1>5, <1>6 DEF InPlaceInv

(* What write_flv hands to stdio goes to one of the files.                 *)
LEMMA Handed ==
  ASSUME TypeOK, NEW n \in Nat, NEW accepted \in 0 .. n, Hand(n, accepted)
  PROVE  /\ tried \in Nat /\ tried' = tried + n
         /\ temp' \in Streams /\ temp'.stored <= temp'.sent /\ temp'.sent <= tried'
         /\ real' \in Streams /\ real'.stored <= real'.sent /\ real'.sent <= tried'
         /\ temp.stored <= temp'.stored
         /\ Same => temp'.sent = temp.sent + accepted /\ real' = real
         /\ ~Same => real'.sent = real.sent + accepted /\ temp' = temp
  <1>1. /\ tried \in Nat /\ accepted \in Nat /\ accepted <= n /\ tried' = tried + n
        /\ temp \in Streams /\ temp.stored <= temp.sent /\ temp.sent <= tried
        /\ real \in Streams /\ real.stored <= real.sent /\ real.sent <= tried
    BY DEF TypeOK, Hand, IsOutput
  <1>2. CASE Same
    <2>1. temp' \in Accepting(temp, accepted) /\ real' = real
      BY <1>2 DEF Hand, SameFile
    <2>2. temp' \in Streams /\ temp'.stored <= temp'.sent
          /\ temp'.sent = temp.sent + accepted /\ temp.stored <= temp'.stored
      BY <1>1, <2>1, AcceptingType
    <2> QED BY <1>1, <1>2, <2>1, <2>2 DEF Streams
  <1>3. CASE ~Same
    <2>1. real' \in Accepting(real, accepted) /\ temp' = temp
      BY <1>3 DEF Hand, SameFile
    <2>2. real' \in Streams /\ real'.stored <= real'.sent /\ real'.sent = real.sent + accepted
      BY <1>1, <2>1, AcceptingType
    <2> QED BY <1>1, <1>3, <2>1, <2>2 DEF Streams
  <1> QED BY <1>2, <1>3

LEMMA HandedType ==
  ASSUME TypeOK, NEW n \in Nat, NEW accepted \in 0 .. n, Hand(n, accepted),
         tried + n <= output.size, UNCHANGED <<naming, output, truncated, pos, atEnd, result>>,
         pc' \in {"WRITE", "REOPEN", "CLOSE"}, second' \in {"NONE", "ERROR_WRITE"},
         failures' \subseteq {"WRITE", "UNCHECKED", "LATE"}
  PROVE  TypeOK'
  <1>1. /\ tried \in Nat /\ tried' = tried + n
        /\ temp' \in Streams /\ temp'.stored <= temp'.sent /\ temp'.sent <= tried'
        /\ real' \in Streams /\ real'.stored <= real'.sent /\ real'.sent <= tried'
        /\ temp.stored <= temp'.stored
    BY Handed
  <1>2. tried' \in 0 .. output'.size
    BY <1>1 DEF TypeOK, IsOutput
  <1>3. pos' \in 0 .. temp'.stored
    <2>1. temp.stored \in Nat /\ temp'.stored \in Nat /\ pos \in 0 .. temp.stored
      BY <1>1 DEF TypeOK, Streams
    <2> QED BY <1>1, <2>1
  <1> QED BY <1>1, <1>2, <1>3 DEF TypeOK

(* The second pass: a write that is accepted as a whole, one whose failure *)
(* ends it, and one whose failure it does not look at.                     *)
LEMMA WriteStep == InPlaceInv /\ (WriteSome \/ WriteFails \/ WriteFailsUnnoticed) => InPlaceInv'
  <1> SUFFICES ASSUME InPlaceInv, WriteSome \/ WriteFails \/ WriteFailsUnnoticed
               PROVE  InPlaceInv'
    OBVIOUS
  <1>1. /\ pc = "WRITE" /\ TypeOK /\ second = "NONE" /\ truncated = ~Same
        /\ failures \subseteq {"UNCHECKED"} /\ pos = 0 /\ ~atEnd /\ (Same => real.sent = 0)
        /\ UNCHANGED <<naming, output, truncated, pos, atEnd, result>>
    BY DEF WriteSome, WriteFails, WriteFailsUnnoticed, InPlaceInv, copyVars, SecondPass, Untouched
  <1>2. /\ output.size \in Nat /\ output.checked \in Nat /\ output.checked <= output.size
        /\ tried \in Nat /\ temp.sent \in Nat /\ real.sent \in Nat
    BY <1>1 DEF TypeOK, IsOutput, Streams
  <1>t. ASSUME NEW n \in Nat, NEW accepted \in 0 .. n, Hand(n, accepted),
               tried + n <= output.size, pc' \in {"WRITE", "REOPEN", "CLOSE"},
               second' \in {"NONE", "ERROR_WRITE"},
               failures' \subseteq {"WRITE", "UNCHECKED", "LATE"}
        PROVE  /\ TypeOK'
               /\ Same => temp'.sent = temp.sent + accepted /\ real' = real
               /\ ~Same => real'.sent = real.sent + accepted /\ temp' = temp
               /\ tried' = tried + n
    BY <1>1, <1>t, Handed, HandedType
  <1>3. CASE WriteSome
    <2>1. PICK n \in 1 .. output.size - tried : Hand(n, n)
      BY <1>3 DEF WriteSome
    <2>2. /\ n \in Nat /\ n \in 0 .. n /\ tried + n <= output.size
          /\ UNCHANGED <<pc, second, failures>>
      BY <1>2, <1>3, <2>1 DEF WriteSome
    <2>3. /\ TypeOK'
          /\ Same => temp'.sent = temp.sent + n /\ real' = real
          /\ ~Same => real'.sent = real.sent + n /\ temp' = temp
          /\ tried' = tried + n
      BY <1>1, <1>t, <2>1, <2>2
    <2>4. SecondPass'
      BY <1>1, <1>2, <2>2, <2>3 DEF InPlaceInv, SecondPass, Same
    <2> QED BY <1>1, <2>2, <2>3, <2>4 DEF InPlaceInv, Untouched, CopyBack, InputIntact,
            CompleteOnSuccess, ErrorsReported, Same
  <1>4. CASE WriteFails
    <2>0. PICK n \in 1 .. output.checked - tried : \E accepted \in 0 .. n - 1 : Hand(n, accepted)
      BY <1>4 DEF WriteFails
    <2>1. PICK accepted \in 0 .. n - 1 : Hand(n, accepted)
      BY <2>0
    <2>2. /\ n \in Nat /\ accepted \in 0 .. n /\ tried + n <= output.size
          /\ second' = "ERROR_WRITE" /\ pc' = (IF Same THEN "REOPEN" ELSE "CLOSE")
          /\ failures' = failures \union {"WRITE"}
      BY <1>2, <1>4, <2>1 DEF WriteFails, EndPass, SameFile
    <2>3. TypeOK' /\ (Same => real' = real)
      BY <1>1, <1>t, <2>1, <2>2
    <2>4. Untouched' /\ SecondPass'
      BY <1>1, <2>2, <2>3 DEF Untouched, SecondPass, Same
    <2>5. CopyBack'
      BY <1>1, <2>2 DEF CopyBack, Same
    <2>6. InputIntact' /\ CompleteOnSuccess' /\ ErrorsReported'
      BY <1>1, <2>2 DEF InputIntact, CompleteOnSuccess, ErrorsReported, Same
    <2> QED BY <2>3, <2>4, <2>5, <2>6 DEF InPlaceInv
  <1>5. CASE WriteFailsUnnoticed
    <2>0. PICK n \in 1 .. output.size - tried : \E accepted \in 0 .. n - 1 : Hand(n, accepted)
      BY <1>5 DEF WriteFailsUnnoticed
    <2>1. PICK accepted \in 0 .. n - 1 : Hand(n, accepted)
      BY <2>0
    <2>2. /\ n \in Nat /\ accepted \in 0 .. n /\ accepted \in Nat /\ tried + n <= output.size
          /\ UNCHANGED <<pc, second>> /\ failures' = failures \union {"UNCHECKED"}
          /\ tried >= output.checked
      BY <1>2, <1>5, <2>1 DEF WriteFailsUnnoticed
    <2>3. /\ TypeOK'
          /\ Same => temp'.sent = temp.sent + accepted /\ real' = real
          /\ ~Same => real'.sent = real.sent + accepted /\ temp' = temp
      BY <1>1, <1>t, <2>1, <2>2
    <2>4. IF Same THEN temp.sent >= output.checked ELSE real.sent >= output.checked
      BY <1>1, <1>2, <2>2 DEF InPlaceInv, SecondPass
    <2>5. SecondPass'
      BY <1>1, <1>2, <2>2, <2>3, <2>4 DEF SecondPass, Same
    <2> QED BY <1>1, <2>2, <2>3, <2>5 DEF InPlaceInv, Untouched, CopyBack, InputIntact,
            CompleteOnSuccess, ErrorsReported, Same
  <1> QED BY <1>3, <1>4, <1>5

(* When all has been handed over, the file has accepted it all, or what    *)
(* comes before the tag that is cut off.                                   *)
LEMMA EndOfWriteStep == InPlaceInv /\ EndOfWrite => InPlaceInv'
  <1> SUFFICES ASSUME InPlaceInv, EndOfWrite PROVE InPlaceInv'
    OBVIOUS
  <1>1. /\ pc = "WRITE" /\ TypeOK /\ tried = output.size /\ truncated = ~Same
        /\ failures \subseteq {"UNCHECKED"} /\ pos = 0 /\ ~atEnd /\ (Same => real.sent = 0)
        /\ second' = output.end /\ pc' = (IF Same THEN "REOPEN" ELSE "CLOSE")
        /\ UNCHANGED <<naming, output, temp, real, truncated, pos, atEnd, tried, failures, result>>
    BY DEF EndOfWrite, EndPass, SameFile, InPlaceInv, fileVars, copyVars, SecondPass
  <1>2. /\ output.size \in Nat /\ output.checked \in Nat /\ output.checked <= output.size
        /\ output.end \in {"OK", "ERROR_EOF"} /\ temp.sent \in Nat /\ real.sent \in Nat
    BY <1>1 DEF TypeOK, IsOutput, Streams
  <1>3. TypeOK'
    BY <1>1, <1>2 DEF TypeOK
  <1>4. IF Same THEN Accepted(temp) ELSE Accepted(real)
    BY <1>1, <1>2 DEF InPlaceInv, SecondPass, Accepted
  <1>5. /\ Same => Accepted(temp)'
        /\ ~Same => Accepted(real)'
    BY <1>1, <1>4 DEF Accepted
  <1>6. Untouched' /\ SecondPass'
    BY <1>1 DEF Untouched, SecondPass, Same
  <1>7. CopyBack' /\ InputIntact'
    BY <1>1, <1>2, <1>5 DEF CopyBack, InputIntact, Same
  <1>8. CompleteOnSuccess' /\ ErrorsReported'
    BY <1>1 DEF CompleteOnSuccess, ErrorsReported
  <1> QED BY <1>3, <1>6, <1>7, <1>8 DEF InPlaceInv

LEMMA RewindStep == InPlaceInv /\ Rewind => InPlaceInv'
  <1> SUFFICES ASSUME InPlaceInv, Rewind PROVE InPlaceInv'
    OBVIOUS
  <1>1. temp \in Streams /\ temp.stored <= temp.sent /\ temp' \in Flushed(temp) /\ failures' = Failures(temp')
    BY DEF InPlaceInv, TypeOK, Rewind
  <1>2. /\ temp' \in Streams /\ temp'.stored <= temp'.sent /\ temp'.sent = temp.sent
        /\ "LATE" \notin failures' => temp'.stored = temp'.sent
        /\ failures' \subseteq {"WRITE", "UNCHECKED", "LATE"}
        /\ "WRITE" \in failures' => "WRITE" \in failures
    BY <1>1, FlushedType DEF InPlaceInv, TypeOK
  <1>3. pc = "REWIND" /\ pc' = "COPY" /\ TypeOK
        /\ UNCHANGED <<naming, output, real, truncated, pos, atEnd, tried, second, result>>
    BY DEF Rewind, InPlaceInv, copyVars, passVars
  <1>4. pos = 0 /\ ~atEnd /\ Same /\ real.sent = 0 /\ truncated
    BY <1>3 DEF InPlaceInv, SecondPass, CopyBack
  <1>5. TypeOK'
    <2>1. pos' \in 0 .. temp'.stored
      BY <1>2, <1>3, <1>4 DEF Streams
    <2> QED BY <1>2, <1>3, <2>1 DEF TypeOK
  <1>6. Untouched' /\ SecondPass'
    BY <1>3, <1>4 DEF Untouched, SecondPass, Same
  <1>9. Accepted(temp) => Accepted(temp)'
    BY <1>1, <1>2, <1>3 DEF Accepted, Failures
  <1>7. CopyBack'
    BY <1>2, <1>3, <1>4, <1>9 DEF CopyBack, Same, InPlaceInv
  <1>8. InputIntact' /\ CompleteOnSuccess' /\ ErrorsReported'
    BY <1>2, <1>3, <1>4, <1>9 DEF InputIntact, CompleteOnSuccess, ErrorsReported, Same, InPlaceInv, CopyBack
  <1> QED BY <1>5, <1>6, <1>7, <1>8 DEF InPlaceInv

LEMMA CopyStep == InPlaceInv /\ CopyBlock => InPlaceInv'
  <1> SUFFICES ASSUME InPlaceInv, CopyBlock PROVE InPlaceInv'
    OBVIOUS
  <1>1. /\ pc = "COPY" /\ ~atEnd /\ TypeOK /\ Same /\ truncated /\ second # "NONE"
        /\ real.sent = pos /\ pos' = pos + Block /\ atEnd' = (Block < BlockSize)
        /\ UNCHANGED <<naming, output, temp, truncated, tried, second>>
    BY DEF CopyBlock, InPlaceInv, SecondPass, CopyBack, passVars
  <1>2. /\ Block \in Nat /\ pos + Block <= temp.stored
        /\ Block < BlockSize => pos + Block = temp.stored
    BY <1>1 DEF Block, Lesser, TypeOK, Streams
  <1>3. pos' \in 0 .. temp.stored /\ atEnd' \in BOOLEAN /\ pos + Block <= tried /\ tried \in Nat
    BY <1>1, <1>2 DEF TypeOK, Streams, IsOutput
  <1>4. CASE real' \in Accepting(real, Written) /\ UNCHANGED <<pc, failures, result>>
    <2>1. /\ real' \in Streams /\ real'.stored <= real'.sent /\ real'.sent = pos'
      BY <1>1, <1>2, <1>4, AcceptingType DEF Written, TypeOK
    <2>2. TypeOK'
      BY <1>1, <1>3, <1>4, <2>1 DEF TypeOK
    <2>3. Untouched' /\ SecondPass'
      BY <1>1, <1>4 DEF Untouched, SecondPass, Same
    <2>6. Accepted(temp) => Accepted(temp)'
      BY <1>1, <1>4 DEF Accepted
    <2>4. CopyBack'
      BY <1>1, <1>2, <1>4, <2>1, <2>6 DEF InPlaceInv, CopyBack, Same
    <2>5. InputIntact' /\ CompleteOnSuccess' /\ ErrorsReported'
      BY <1>1, <1>4, <2>6 DEF InPlaceInv, InputIntact, CompleteOnSuccess, ErrorsReported, Same
    <2> QED BY <2>2, <2>3, <2>4, <2>5 DEF InPlaceInv
  <1>5. ASSUME NEW k \in 0 .. Block, real' \in Accepting(real, k), Return("ERROR_WRITE"),
               failures' \subseteq {"WRITE", "UNCHECKED", "LATE"}
        PROVE  InPlaceInv'
    <2>1. /\ real' \in Streams /\ real'.stored <= real'.sent /\ real'.sent = real.sent + k
      BY <1>1, <1>2, <1>5, AcceptingType DEF TypeOK
    <2>2. real'.sent <= tried
      BY <1>1, <1>2, <1>3, <2>1 DEF TypeOK
    <2>3. TypeOK'
      <3>1. result' \in Results /\ pc' = "DONE"
        BY <1>5 DEF Return, Results
      <3> QED BY <1>1, <1>3, <1>5, <2>1, <2>2, <3>1 DEF TypeOK
    <2>4. InputIntact'
      <3>1. second # "ERROR_WRITE" => tried = output.size /\ Accepted(temp)
        BY <1>1 DEF InPlaceInv, CopyBack
      <3>2. "UNCHECKED" \in failures => "UNCHECKED" \in failures'
        BY <1>1 DEF CopyBlock, Failures
      <3> QED BY <1>1, <3>1, <3>2 DEF InputIntact, Accepted, Same
    <2> QED BY <1>1, <1>5, <2>3, <2>4 DEF InPlaceInv, Untouched, SecondPass, CopyBack,
            CompleteOnSuccess, ErrorsReported, Return
  <1>6. ASSUME NEW k \in 0 .. Block, real' \in Accepting(real, k)
        PROVE  /\ Failures(real') \subseteq {"WRITE", "UNCHECKED", "LATE"}
               /\ Failures(real') \union {"WRITE"} \subseteq {"WRITE", "UNCHECKED", "LATE"}
    BY <1>1 DEF TypeOK, Failures
  <1>7. CASE \E accepted \in 0 .. Block - 1 :
               /\ real' \in Accepting(real, accepted)
               /\ failures' = Failures(real') \union {"WRITE"} /\ Return("ERROR_WRITE")
    <2>1. PICK k \in 0 .. Block - 1 :
            /\ real' \in Accepting(real, k)
            /\ failures' = Failures(real') \union {"WRITE"} /\ Return("ERROR_WRITE")
      BY <1>7
    <2>2. k \in 0 .. Block
      BY <1>2
    <2> QED BY <1>5, <1>6, <2>1, <2>2
  <1>8. CASE /\ real' \in Flushed(real)
             /\ failures' = Failures(real') /\ Return("ERROR_WRITE")
    <2>1. real \in Streams /\ real.sent + 0 = real.sent /\ 0 \in 0 .. Block
      BY <1>1, <1>2 DEF TypeOK, Streams
    <2>2. real' \in Accepting(real, 0)
      BY <1>8, <2>1 DEF Flushed, Accepting, Streams
    <2> QED BY <1>5, <1>6, <1>8, <2>1, <2>2
  <1> QED BY <1>4, <1>7, <1>8 DEF CopyBlock

LEMMA CloseStep == InPlaceInv /\ Close => InPlaceInv'
  <1> SUFFICES ASSUME InPlaceInv, Close PROVE InPlaceInv'
    OBVIOUS
  <1>1. /\ pc = "CLOSE" /\ TypeOK /\ truncated /\ second # "NONE" /\ Return(second)
        /\ real' \in Flushed(real) /\ failures' = Failures(real')
        /\ UNCHANGED <<naming, output, temp, truncated, pos, atEnd, tried, second>>
    BY DEF Close, InPlaceInv, CopyBack, copyVars, passVars
  <1>2. /\ real' \in Streams /\ real'.stored <= real'.sent /\ real'.sent = real.sent
        /\ "LATE" \notin failures' => real'.stored = real'.sent
        /\ failures' \subseteq {"WRITE", "UNCHECKED", "LATE"} /\ failures \subseteq failures'
        /\ "WRITE" \in failures' => "WRITE" \in failures
        /\ "UNCHECKED" \in failures' <=> "UNCHECKED" \in failures
    BY <1>1, FlushedType DEF TypeOK
  <1>3. TypeOK'
    <2>1. result' \in Results /\ pc' = "DONE"
      BY <1>1 DEF TypeOK, Return, Results, ScanErrors
    <2> QED BY <1>1, <1>2, <2>1 DEF TypeOK
  <1>4. ASSUME second = "OK", "LATE" \notin failures'
        PROVE  real'.stored >= output.checked
               /\ ("UNCHECKED" \notin failures' => real'.stored = output.size)
    <2>1. CASE Same
      <3>1. Accepted(temp) /\ temp.stored = temp.sent /\ pos = temp.stored /\ real.sent = pos
        BY <1>1, <1>2, <1>4, <2>1 DEF InPlaceInv, CopyBack
      <3> QED BY <1>2, <1>4, <3>1 DEF Accepted
    <2>2. CASE ~Same
      <3>1. Accepted(real)
        BY <1>1, <1>4, <2>2 DEF InPlaceInv, CopyBack
      <3> QED BY <1>2, <1>4, <3>1 DEF Accepted
    <2> QED BY <2>1, <2>2
  <1>5. CompleteOnSuccess'
    BY <1>1, <1>4 DEF CompleteOnSuccess, Delivered, Return
  <1>6. ErrorsReported'
    BY <1>1, <1>2 DEF ErrorsReported, Return, InPlaceInv, CopyBack
  <1>7. InputIntact'
    <2>1. Same => (second # "ERROR_WRITE" => tried = output.size /\ Accepted(temp))
      BY <1>1 DEF InPlaceInv, CopyBack
    <2> QED BY <1>1, <1>2, <2>1 DEF InputIntact, Accepted, Same
  <1> QED BY <1>1, <1>3, <1>5, <1>6, <1>7 DEF InPlaceInv, Untouched, SecondPass, CopyBack, Return

(* The invariant of the update of a file in place (update.c:257-358): what *)
(* the temporary file and the output hold at every step.                   *)
THEOREM InPlaceInvariant == Spec => []InPlaceInv
  <1>1. InPlaceInv /\ [Next]_vars => InPlaceInv'
    BY OpenStep, OutputStep, WriteStep, EndOfWriteStep, ReopenStep, RewindStep, CopyStep,
       EndStep, CloseStep DEF Next
  <1> QED BY Initially, <1>1, PTL DEF Spec

(* Wherever the process stops, the original is whole until the second pass *)
(* has ended, and when that has seen no failure of its writes, the         *)
(* temporary file has taken the whole output, or all but the cut off tag   *)
(* whose writes --ignore does not look at (update.c:223-230, 284-326).     *)
THEOREM OriginalIntact == Spec => []InputIntact
  <1>1. InPlaceInv => InputIntact
    BY DEF InPlaceInv
  <1> QED BY <1>1, InPlaceInvariant, PTL

(* A success leaves the whole output, or all but a cut off tag one of      *)
(* whose writes has failed unseen, and no failure that write_flv or the    *)
(* copy looks at is presented as one (update.c:223-230, 307-357).          *)
THEOREM SuccessIsComplete == Spec => [](CompleteOnSuccess /\ ErrorsReported)
  <1>1. InPlaceInv => CompleteOnSuccess /\ ErrorsReported
    BY DEF InPlaceInv
  <1> QED BY <1>1, InPlaceInvariant, PTL
=============================================================================
