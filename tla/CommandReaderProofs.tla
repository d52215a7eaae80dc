------------------------ MODULE CommandReaderProofs ------------------------
(***************************************************************************)
(* What a search over a child's output guarantees, for every child, every  *)
(* capacity of the pipes and both ways of reading stderr: no failure is    *)
(* lost, no output is lost, and no zombie is left (crates/cli/src/         *)
(* process.rs and its callers in crates/core/search.rs).                   *)
(*                                                                         *)
(* The invariant says where each unit of output is, and what the reader    *)
(* knows of the child in each of its states.                               *)
(***************************************************************************)
EXTENDS CommandReader, FiniteSetTheorems, TLAPS

Script == setup.script
OutWritten == Count(Script, step - 1, "out")
Total == Count(Script, Len(Script), "out")

TypeInv ==
    /\ setup \in Setups
    /\ child \in {"none", "running", "complaining", "exited"}
    /\ step \in 1 .. (Len(Script) + 1)
    /\ status \in {"none", "ok", "fail"}
    /\ outpipe \in Nat /\ errpipe \in Nat
    /\ collected \in Nat /\ received \in Nat
    /\ childout \in BOOLEAN /\ eof \in BOOLEAN
    /\ stdout \in {"open", "taken"}
    /\ thread \in {"none", "running", "finished", "taken"}
    /\ rpc \in {"idle", "wait", "stderr"}
    /\ phase \in {"build", "search", "close", "drop", "done"}
    /\ result \in {"none", "Ok", "Err"}
    /\ closed \in {"none", "Ok", "Err"}

\* Every unit of output is in a pipe or has been read; a child that has exited
\* on its own has written all of it.
PipesInv ==
    /\ outpipe + received = OutWritten
    /\ errpipe + collected = ErrWritten
    /\ ~childout => \E i \in 1 .. (step - 1) : Script[i] = "close"
    /\ child = "exited" <=> status # "none"
    /\ child = "exited" /\ stdout = "open" => step = Len(Script) + 1
    /\ child = "complaining" =>
         setup.complains /\ step <= Len(Script) /\ stdout = "taken"
    /\ eof => received = Total

\* Who has collected stderr: a thread that has ended or been joined has seen
\* its end; without one nothing is collected before close does so.
StderrInv ==
    /\ ~setup.async => thread = "none"
    /\ ~setup.async /\ (stdout = "open" \/ rpc # "idle") => collected = 0
    /\ thread = "finished" => child = "exited" /\ errpipe = 0

\* What the phase of the search tells of the reader and of the child.
PhaseInv ==
    /\ phase = "build" => child = "none" /\ result = "none"
    /\ child = "none" => phase \in {"build", "done"} /\ stdout = "open" /\ ~eof
    /\ child = "none" /\ phase = "done" => result = "Err"
    /\ rpc # "idle" => phase \in {"search", "close"} /\ stdout = "taken"
    /\ rpc = "stderr" => child = "exited" /\ status = "fail"
    /\ phase = "search" =>
         /\ stdout = "taken" <=> eof
         /\ rpc # "idle" => result = "none"
         /\ stdout = "taken" /\ rpc = "idle" => result # "none"
    /\ phase = "close" => rpc # "idle" /\ ~eof
    /\ eof => stdout = "taken"
    /\ phase \in {"drop", "done"} /\ child # "none" => stdout = "taken"

\* A reader that has closed has waited for the child, has all of the stderr of
\* one that failed, and has told of it.
ClosedInv ==
    /\ stdout = "taken" /\ rpc = "idle" =>
         child = "exited" /\ (status = "fail" => errpipe = 0)
    /\ eof /\ rpc = "idle" /\ status = "fail" => result = "Err"
    /\ phase \in {"drop", "done"} /\ child # "none" /\ ~eof /\ ErrWritten = 0 =>
         closed = "Ok"

Inv == TypeInv /\ PipesInv /\ StderrInv /\ PhaseInv /\ ClosedInv
-----------------------------------------------------------------------------
(* Facts about Count.                                                      *)

\* The positions counted are finitely many, so the count is a number.
LEMMA CountType ==
    ASSUME NEW s, NEW n \in Nat, NEW x
    PROVE  Count(s, n, x) \in Nat /\ IsFiniteSet({i \in 1 .. n : s[i] = x})
<1>1. IsFiniteSet(1 .. n)
  BY FS_Interval
<1>2. IsFiniteSet({i \in 1 .. n : s[i] = x})
  BY <1>1, FS_Subset
<1> QED BY <1>2, FS_CardinalityType DEF Count

\* The child writes one unit at a time.
LEMMA CountNext ==
    ASSUME NEW s, NEW n \in Nat, NEW x
    PROVE  Count(s, n + 1, x) = IF s[n + 1] = x THEN Count(s, n, x) + 1
                                ELSE Count(s, n, x)
<1> DEFINE S == {i \in 1 .. n : s[i] = x}
           T == {i \in 1 .. (n + 1) : s[i] = x}
<1>1. CASE s[n + 1] = x
  <2>1. T = S \cup {n + 1} /\ n + 1 \notin S
    BY <1>1
  <2>2. IsFiniteSet(S)
    BY CountType
  <2> HIDE DEF S, T
  <2>3. Cardinality(T) = Cardinality(S) + 1
    BY <2>1, <2>2, FS_AddElement
  <2> QED BY <1>1, <2>3 DEF Count, S, T
<1>2. CASE s[n + 1] # x
  <2>1. T = S
    BY <1>2
  <2> QED BY <1>2, <2>1 DEF Count
<1> QED BY <1>1, <1>2

\* Elements that are not x do not count.
LEMMA CountRest ==
    ASSUME NEW s, NEW n \in Nat, NEW m \in Nat, NEW x,
           n <= m, \A i \in (n + 1) .. m : s[i] # x
    PROVE  Count(s, m, x) = Count(s, n, x)
<1>1. {i \in 1 .. m : s[i] = x} = {i \in 1 .. n : s[i] = x}
  OBVIOUS
<1> QED BY <1>1 DEF Count

\* What a setup is, once and for all.
LEMMA ScriptType ==
    ASSUME TypeInv
    PROVE  /\ Script \in Seq({"out", "err", "close"}) /\ Len(Script) \in Nat
           /\ setup.complains \in BOOLEAN /\ setup.async \in BOOLEAN
           /\ setup.status \in {"ok", "fail"}
           /\ ClosesForGood(Script)
           /\ step - 1 \in Nat
           /\ \A i \in 1 .. Len(Script) : Script[i] \in {"out", "err", "close"}
<1>1. setup \in SetupType /\ ClosesForGood(Script)
  BY SetupsAssumption DEF TypeInv, Script
<1>2. /\ Script \in Seq({"out", "err", "close"})
      /\ setup.complains \in BOOLEAN /\ setup.async \in BOOLEAN
      /\ setup.status \in {"ok", "fail"}
  BY <1>1 DEF SetupType, Script
<1>3. Len(Script) \in Nat /\ step - 1 \in Nat
  BY <1>2 DEF TypeInv
<1> QED BY <1>1, <1>2, <1>3

\* The units written are numbers; the child is where its script says.
LEMMA Units ==
    ASSUME TypeInv
    PROVE  OutWritten \in Nat /\ ErrWritten \in Nat /\ Total \in Nat
<1>1. /\ Count(setup.script, step - 1, "out") \in Nat
      /\ Count(setup.script, step - 1, "err") \in Nat
      /\ Count(Script, Len(Script), "out") \in Nat
  BY CountType, ScriptType DEF Script
<1> QED BY <1>1 DEF OutWritten, ErrWritten, Total, Script
-----------------------------------------------------------------------------
(* The child.                                                              *)

\* A unit on stdout: the pipe has room and its reader has not gone.
LEMMA WriteOut == Inv /\ ChildWriteOut => Inv'
<1> SUFFICES ASSUME Inv, ChildWriteOut PROVE Inv'
  OBVIOUS
<1> USE DEF Inv
<1>1. /\ child = "running" /\ step <= Len(Script) /\ Script[step] = "out"
      /\ stdout = "open" /\ outpipe' = outpipe + 1 /\ step' = step + 1
      /\ UNCHANGED <<setup, child, status, errpipe, childout, thread, collected,
                     readerVars>>
  BY DEF ChildWriteOut, Doing, Script
<1>2. TypeInv'
  BY <1>1, ScriptType DEF TypeInv, readerVars, Script
<1>3. /\ Count(Script, step, "out") = OutWritten + 1
      /\ Count(Script, step, "err") = Count(Script, step - 1, "err")
  <2>1. step - 1 \in Nat /\ (step - 1) + 1 = step
    BY ScriptType DEF TypeInv
  <2>2. /\ Count(Script, (step - 1) + 1, "out") = Count(Script, step - 1, "out") + 1
        /\ Count(Script, (step - 1) + 1, "err") = Count(Script, step - 1, "err")
    BY <1>1, <2>1, CountNext
  <2> QED BY <2>1, <2>2 DEF OutWritten
<1>4. OutWritten' = OutWritten + 1 /\ ErrWritten' = ErrWritten
  BY <1>1, <1>3, ScriptType DEF OutWritten, ErrWritten, Script, TypeInv, readerVars
<1>5. PipesInv'
  BY <1>1, <1>4, Units, ScriptType DEF PipesInv, TypeInv, PhaseInv, Script, Total, readerVars
<1>6. StderrInv' /\ PhaseInv' /\ ClosedInv'
  BY <1>1, <1>4 DEF StderrInv, PhaseInv, ClosedInv, readerVars
<1> QED BY <1>2, <1>5, <1>6

\* A unit on stderr, which is never closed before the child exits.
LEMMA WriteErr == Inv /\ ChildWriteErr => Inv'
<1> SUFFICES ASSUME Inv, ChildWriteErr PROVE Inv'
  OBVIOUS
<1> USE DEF Inv
<1>1. /\ child = "running" /\ step <= Len(Script) /\ Script[step] = "err"
      /\ errpipe' = errpipe + 1 /\ step' = step + 1
      /\ UNCHANGED <<setup, child, status, outpipe, childout, thread, collected,
                     readerVars>>
  BY DEF ChildWriteErr, Doing, Script
<1>2. TypeInv'
  BY <1>1, ScriptType DEF TypeInv, readerVars, Script
<1>3. /\ Count(Script, step, "out") = OutWritten
      /\ Count(Script, step, "err") = Count(Script, step - 1, "err") + 1
  <2>1. step - 1 \in Nat /\ (step - 1) + 1 = step
    BY ScriptType DEF TypeInv
  <2>2. /\ Count(Script, (step - 1) + 1, "out") = Count(Script, step - 1, "out")
        /\ Count(Script, (step - 1) + 1, "err") = Count(Script, step - 1, "err") + 1
    BY <1>1, <2>1, CountNext
  <2> QED BY <2>1, <2>2 DEF OutWritten
<1>4. OutWritten' = OutWritten /\ ErrWritten' = ErrWritten + 1
  <2>1. Count(Script, step - 1, "err") \in Nat
    BY ScriptType, CountType
  <2> QED BY <1>1, <1>3, <2>1, ScriptType DEF OutWritten, ErrWritten, Script, TypeInv
<1>5. PipesInv'
  BY <1>1, <1>4, Units, ScriptType DEF PipesInv, TypeInv, PhaseInv, Script, Total, readerVars
<1>6. StderrInv' /\ PhaseInv' /\ ClosedInv'
  BY <1>1, <1>4, Units DEF StderrInv, PhaseInv, ClosedInv, readerVars
<1> QED BY <1>2, <1>5, <1>6

\* The child closes its stdout: whatever it does after that is not counted.
LEMMA CloseOut == Inv /\ ChildClose => Inv'
<1> SUFFICES ASSUME Inv, ChildClose PROVE Inv'
  OBVIOUS
<1> USE DEF Inv
<1>1. /\ child = "running" /\ step <= Len(Script) /\ Script[step] = "close"
      /\ childout' = FALSE /\ step' = step + 1
      /\ UNCHANGED <<setup, child, status, outpipe, errpipe, thread, collected,
                     readerVars>>
  BY DEF ChildClose, Doing, Script
<1>2. TypeInv'
  <2>1. childout' \in BOOLEAN /\ eof' \in BOOLEAN
    BY <1>1 DEF TypeInv, readerVars
  <2> QED BY <1>1, <2>1, ScriptType DEF TypeInv, readerVars, Script
<1>3. /\ Count(Script, step, "out") = OutWritten
      /\ Count(Script, step, "err") = Count(Script, step - 1, "err")
  <2>1. step - 1 \in Nat /\ (step - 1) + 1 = step
    BY ScriptType DEF TypeInv
  <2>2. /\ Count(Script, (step - 1) + 1, "out") = Count(Script, step - 1, "out")
        /\ Count(Script, (step - 1) + 1, "err") = Count(Script, step - 1, "err")
    BY <1>1, <2>1, CountNext
  <2> QED BY <2>1, <2>2 DEF OutWritten
<1>4. OutWritten' = OutWritten /\ ErrWritten' = ErrWritten
  BY <1>1, <1>3, ScriptType, CountType DEF OutWritten, ErrWritten, Script, TypeInv, readerVars
<1>5. PipesInv'
  BY <1>1, <1>4, Units, ScriptType DEF PipesInv, TypeInv, PhaseInv, Script, Total, readerVars
<1>6. StderrInv' /\ PhaseInv' /\ ClosedInv'
  BY <1>1, <1>4, Units DEF StderrInv, PhaseInv, ClosedInv, readerVars
<1> QED BY <1>2, <1>5, <1>6

\* The child ends: by itself, or of a broken pipe, with or without a word.
LEMMA Ends == Inv /\ (ChildBrokenPipe \/ ChildComplain \/ ChildExit) => Inv'
<1> SUFFICES ASSUME Inv, ChildBrokenPipe \/ ChildComplain \/ ChildExit PROVE Inv'
  OBVIOUS
<1> USE DEF Inv
<1>1. UNCHANGED <<setup, step, outpipe, childout, thread, collected, readerVars>>
  BY DEF ChildBrokenPipe, ChildComplain, ChildExit
<1>2. OutWritten' = OutWritten /\ Total' = Total
  BY <1>1 DEF OutWritten, Total, Script
<1>3. CASE ChildBrokenPipe
  <2>1. /\ child = "running" /\ step <= Len(Script) /\ stdout = "taken"
        /\ errpipe' = errpipe
        /\ \/ setup.complains /\ child' = "complaining" /\ status' = status
           \/ ~setup.complains /\ child' = "exited" /\ status' = "fail"
    BY <1>3 DEF ChildBrokenPipe, Doing, Script
  <2>2. ErrWritten' = ErrWritten
    BY <1>1, <2>1 DEF ErrWritten
  <2>3. TypeInv'
    BY <1>1, <2>1 DEF TypeInv, readerVars, Script
  <2>4. PipesInv'
    BY <1>1, <1>2, <2>1, <2>2 DEF PipesInv, TypeInv, Script, readerVars
  <2>5. StderrInv' /\ PhaseInv' /\ ClosedInv'
    BY <1>1, <2>1, <2>2 DEF StderrInv, PhaseInv, ClosedInv, TypeInv, readerVars
  <2> QED BY <2>3, <2>4, <2>5
<1>4. CASE ChildComplain
  <2>1. /\ child = "complaining" /\ child' = "exited" /\ status' = "fail"
        /\ errpipe' = errpipe + 1
    BY <1>4 DEF ChildComplain
  <2>2. setup.complains /\ step <= Len(Script) /\ stdout = "taken"
    BY <2>1 DEF PipesInv
  <2>3. ErrWritten' = ErrWritten + 1
    <3>1. Count(Script, step - 1, "err") \in Nat
      BY ScriptType, CountType
    <3> QED BY <1>1, <2>1, <2>2, <3>1 DEF ErrWritten, Script
  <2>4. TypeInv'
    BY <1>1, <2>1 DEF TypeInv, readerVars, Script
  <2>5. PipesInv'
    BY <1>1, <1>2, <2>1, <2>2, <2>3, Units DEF PipesInv, TypeInv, Script, readerVars
  <2>6. StderrInv' /\ PhaseInv' /\ ClosedInv'
    BY <1>1, <2>1, <2>3, Units DEF StderrInv, PhaseInv, ClosedInv, TypeInv, readerVars
  <2> QED BY <2>4, <2>5, <2>6
<1>5. CASE ChildExit
  <2>1. /\ child = "running" /\ step > Len(Script)
        /\ child' = "exited" /\ status' = setup.status /\ errpipe' = errpipe
    BY <1>5 DEF ChildExit, Script
  <2>2. ErrWritten' = ErrWritten
    BY <1>1, <2>1, ScriptType DEF ErrWritten, Script, TypeInv
  <2>3. TypeInv'
    BY <1>1, <2>1, ScriptType DEF TypeInv, readerVars, Script
  <2>4. PipesInv'
    BY <1>1, <1>2, <2>1, <2>2, ScriptType DEF PipesInv, TypeInv, Script, readerVars
  <2>5. StderrInv' /\ PhaseInv' /\ ClosedInv'
    BY <1>1, <2>1, <2>2 DEF StderrInv, PhaseInv, ClosedInv, TypeInv, readerVars
  <2> QED BY <2>3, <2>4, <2>5
<1> QED BY <1>3, <1>4, <1>5
-----------------------------------------------------------------------------
(* The stderr thread.                                                      *)

\* The thread takes stderr from the pipe until its end.
LEMMA ThreadKeeps == Inv /\ (ThreadRead \/ ThreadEof) => Inv'
<1> SUFFICES ASSUME Inv, ThreadRead \/ ThreadEof PROVE Inv'
  OBVIOUS
<1> USE DEF Inv
<1>1. /\ UNCHANGED <<setup, child, step, status, outpipe, childout, readerVars>>
      /\ thread = "running"
  BY DEF ThreadRead, ThreadEof, childVars
<1>2. OutWritten' = OutWritten /\ Total' = Total /\ ErrWritten' = ErrWritten
  BY <1>1 DEF OutWritten, ErrWritten, Total, Script
<1>3. /\ errpipe' \in Nat /\ collected' \in Nat
      /\ errpipe' + collected' = errpipe + collected
      /\ \/ thread' = "running"
         \/ thread' = "finished" /\ child = "exited" /\ errpipe' = 0
      /\ errpipe = 0 => errpipe' = 0
  BY <1>1 DEF ThreadRead, ThreadEof, TypeInv, StderrAtEof, Drains, childVars
<1>4. TypeInv'
  BY <1>1, <1>3 DEF TypeInv, readerVars, Script
<1>5. PipesInv'
  BY <1>1, <1>2, <1>3, Units DEF PipesInv, Script, readerVars
<1>6. StderrInv' /\ PhaseInv' /\ ClosedInv'
  BY <1>1, <1>2, <1>3 DEF StderrInv, PhaseInv, ClosedInv, TypeInv, readerVars
<1> QED BY <1>4, <1>5, <1>6
-----------------------------------------------------------------------------
(* The reader and its caller.                                              *)

\* What the reader's steps that leave the child's books alone keep.
LEMMA SameWritten ==
    ASSUME UNCHANGED <<setup, child, step, status>>
    PROVE  OutWritten' = OutWritten /\ Total' = Total /\ ErrWritten' = ErrWritten
BY DEF OutWritten, ErrWritten, Total, Script

\* The child is spawned, and the thread with it; or there is nothing to search.
LEMMA BuildKeeps == Inv /\ Build => Inv'
<1> SUFFICES ASSUME Inv, Build PROVE Inv'
  OBVIOUS
<1> USE DEF Inv
<1>1. /\ phase = "build" /\ child = "none" /\ result = "none"
      /\ \/ child' = "running" /\ phase' = "search" /\ result' = result
            /\ thread' = IF setup.async THEN "running" ELSE "none"
         \/ phase' = "done" /\ result' = "Err" /\ child' = child /\ thread' = thread
      /\ UNCHANGED <<setup, step, status, outpipe, errpipe, childout, collected,
                     stdout, eof, rpc, closed, received>>
  BY DEF Build, PhaseInv
<1>2. status = "none" /\ stdout = "open" /\ ~eof /\ rpc = "idle"
  BY <1>1 DEF PipesInv, PhaseInv, TypeInv
<1>3. OutWritten' = OutWritten /\ ErrWritten' = ErrWritten
  BY <1>1, <1>2 DEF OutWritten, ErrWritten, Script
<1>4. TypeInv'
  BY <1>1 DEF TypeInv, Script
<1>5. PipesInv'
  BY <1>1, <1>2, <1>3 DEF PipesInv, Script
<1>6. StderrInv' /\ PhaseInv' /\ ClosedInv'
  BY <1>1, <1>2 DEF StderrInv, PhaseInv, ClosedInv
<1> QED BY <1>4, <1>5, <1>6

\* A read takes output from the pipe, before the end of file.
LEMMA ReadKeeps == Inv /\ ReadBytes => Inv'
<1> SUFFICES ASSUME Inv, ReadBytes PROVE Inv'
  OBVIOUS
<1> USE DEF Inv
<1>1. /\ Searching /\ outpipe' \in Nat /\ received' \in Nat
      /\ outpipe' + received' = outpipe + received
      /\ UNCHANGED <<setup, child, step, status, errpipe, childout, thread,
                     collected, stdout, eof, rpc, phase, result, closed>>
  BY DEF ReadBytes, TypeInv
<1>2. ~eof
  BY <1>1 DEF Searching, PhaseInv
<1>3. OutWritten' = OutWritten /\ ErrWritten' = ErrWritten
  BY <1>1, SameWritten
<1>4. TypeInv'
  BY <1>1 DEF TypeInv, Script
<1>5. PipesInv'
  BY <1>1, <1>2, <1>3 DEF PipesInv, Script
<1>6. StderrInv' /\ PhaseInv' /\ ClosedInv'
  BY <1>1, <1>3 DEF StderrInv, PhaseInv, ClosedInv
<1> QED BY <1>4, <1>5, <1>6

\* At the end of stdout nothing more can come: the child has closed it or has
\* exited with all of its script done.
LEMMA EofComplete ==
    ASSUME Inv, Searching, StdoutAtEof
    PROVE  received = Total /\ stdout = "open" /\ ~eof
<1> USE DEF Inv
<1>1. outpipe = 0 /\ (~childout \/ child = "exited") /\ stdout = "open" /\ ~eof
  BY DEF StdoutAtEof, Searching, PhaseInv, TypeInv
<1>2. received = OutWritten
  BY <1>1 DEF PipesInv, TypeInv
<1>3. \A i \in step .. Len(Script) : Script[i] # "out"
  <2>1. CASE ~childout
    BY <2>1, ScriptType DEF PipesInv, ClosesForGood, TypeInv
  <2>2. CASE child = "exited"
    BY <1>1, <2>2, ScriptType DEF PipesInv
  <2> QED BY <1>1, <2>1, <2>2
<1>4. /\ step - 1 \in Nat /\ Len(Script) \in Nat /\ step - 1 <= Len(Script)
      /\ step = (step - 1) + 1
  BY ScriptType DEF TypeInv
<1>5. Total = OutWritten
  BY <1>3, <1>4, CountRest DEF Total, OutWritten
<1> QED BY <1>1, <1>2, <1>5

\* The read at end of file starts to close the reader.
LEMMA EofKeeps == Inv /\ ReadEof => Inv'
<1> SUFFICES ASSUME Inv, ReadEof PROVE Inv'
  OBVIOUS
<1> USE DEF Inv
<1>1. /\ Searching /\ StdoutAtEof /\ eof' = TRUE /\ stdout' = "taken" /\ rpc' = "wait"
      /\ UNCHANGED <<setup, childVars, thread, collected, phase, result, closed,
                     received>>
  BY DEF ReadEof, ReadsNothing
<1>2. received = Total /\ stdout = "open" /\ ~eof
  BY <1>1, EofComplete
<1>3. OutWritten' = OutWritten /\ ErrWritten' = ErrWritten /\ Total' = Total
  BY <1>1, SameWritten DEF childVars
<1>4. TypeInv'
  <2>1. childout' \in BOOLEAN /\ eof' \in BOOLEAN
    BY <1>1 DEF TypeInv, childVars
  <2> QED BY <1>1, <2>1 DEF TypeInv, childVars, Script
<1>5. PipesInv'
  BY <1>1, <1>2, <1>3 DEF PipesInv, childVars, Script
<1>6. StderrInv' /\ PhaseInv' /\ ClosedInv'
  BY <1>1, <1>2, <1>3 DEF StderrInv, PhaseInv, ClosedInv, Searching, childVars
<1> QED BY <1>4, <1>5, <1>6

\* The search ends without the end of file.
LEMMA SearchEndKeeps == Inv /\ SearchEnds => Inv'
<1> SUFFICES ASSUME Inv, SearchEnds PROVE Inv'
  OBVIOUS
<1> USE DEF Inv
<1>1. /\ Searching /\ result' \in {"Ok", "Err"}
      /\ UNCHANGED <<setup, childVars, thread, collected, stdout, eof, rpc, phase,
                     closed, received>>
  BY DEF SearchEnds
<1>2. ~eof /\ stdout = "open"
  BY <1>1 DEF Searching, PhaseInv, TypeInv
<1>3. OutWritten' = OutWritten /\ ErrWritten' = ErrWritten /\ Total' = Total
  BY <1>1, SameWritten DEF childVars
<1>4. TypeInv'
  BY <1>1 DEF TypeInv, childVars, Script
<1>5. PipesInv'
  BY <1>1, <1>2, <1>3 DEF PipesInv, childVars, Script
<1>6. StderrInv' /\ PhaseInv' /\ ClosedInv'
  BY <1>1, <1>2, <1>3 DEF StderrInv, PhaseInv, ClosedInv, Searching, childVars
<1> QED BY <1>4, <1>5, <1>6

\* close takes stdout and waits, or finds it taken; so does drop after it.
LEMMA CloseKeeps == Inv /\ (ExplicitClose \/ Drop) => Inv'
<1> SUFFICES ASSUME Inv, ExplicitClose \/ Drop PROVE Inv'
  OBVIOUS
<1> USE DEF Inv
<1>1. /\ rpc = "idle" /\ phase \in {"search", "drop"}
      /\ UNCHANGED <<setup, childVars, thread, collected, eof, result, received>>
  BY DEF ExplicitClose, Drop, Close
<1>2. child # "none"
  BY <1>1 DEF PhaseInv
<1>3. \/ /\ phase = "search" /\ stdout = "open" /\ result # "none"
         /\ stdout' = "taken" /\ rpc' = "wait" /\ phase' = "close" /\ closed' = closed
      \/ /\ phase = "search" /\ stdout = "taken"
         /\ phase' = "drop" /\ closed' = "Ok" /\ stdout' = stdout /\ rpc' = rpc
      \/ /\ phase = "drop" /\ stdout = "taken"
         /\ phase' = "done" /\ closed' = closed /\ stdout' = stdout /\ rpc' = rpc
  BY <1>1, <1>2 DEF ExplicitClose, Drop, Close, TakesStdout, TypeInv, PhaseInv
<1>4. OutWritten' = OutWritten /\ ErrWritten' = ErrWritten /\ Total' = Total
  BY <1>1, SameWritten DEF childVars
<1>5. TypeInv'
  BY <1>1, <1>3 DEF TypeInv, childVars, Script
<1>6. PipesInv'
  BY <1>1, <1>3, <1>4 DEF PipesInv, childVars, Script
<1>7. StderrInv' /\ PhaseInv' /\ ClosedInv'
  BY <1>1, <1>2, <1>3, <1>4 DEF StderrInv, PhaseInv, ClosedInv, childVars
<1> QED BY <1>5, <1>6, <1>7

\* close and the read at end of file return v: with the child waited for, with
\* all of its stderr if it failed, and with an error if that is to be told.
LEMMA ReturnKeeps ==
    ASSUME Inv, NEW v \in {"Ok", "Err"}, Return(v), rpc # "idle",
           child = "exited",
           UNCHANGED <<setup, child, step, status, outpipe, childout, stdout, eof,
                       received>>,
           thread' \in {thread, "taken"}, setup.async \/ thread' = thread,
           errpipe' \in Nat, collected' \in Nat,
           errpipe' + collected' = errpipe + collected,
           status = "fail" => errpipe' = 0, errpipe = 0 => errpipe' = 0,
           eof /\ status = "fail" => v = "Err",
           ~eof /\ ErrWritten = 0 => v = "Ok"
    PROVE  Inv'
<1> USE DEF Inv
<1>1. /\ phase \in {"search", "close"} /\ stdout = "taken" /\ rpc' = "idle"
      /\ phase = "search" <=> eof
  BY DEF PhaseInv, Return, TypeInv
<1>2. /\ phase = "search" => result' = v /\ phase' = phase /\ closed' = closed
      /\ phase = "close" => closed' = v /\ phase' = "drop" /\ result' = result
  BY <1>1 DEF Return
<1>3. OutWritten' = OutWritten /\ ErrWritten' = ErrWritten /\ Total' = Total
  BY SameWritten
<1>4. TypeInv'
  BY <1>1, <1>2 DEF TypeInv, Script
<1>5. PipesInv'
  BY <1>1, <1>3 DEF PipesInv, Script
<1>6. StderrInv'
  BY <1>1 DEF StderrInv, TypeInv
<1>7. PhaseInv' /\ ClosedInv'
  BY <1>1, <1>2, <1>3 DEF PhaseInv, ClosedInv, TypeInv
<1> QED BY <1>4, <1>5, <1>6, <1>7

\* The child has been waited for: one that has not failed has nothing to tell.
LEMMA WaitKeeps == Inv /\ Wait => Inv'
<1> SUFFICES ASSUME Inv, Wait PROVE Inv'
  OBVIOUS
<1> USE DEF Inv
<1>1. /\ rpc = "wait" /\ child = "exited"
      /\ UNCHANGED <<setup, childVars, thread, collected, stdout, eof, received>>
  BY DEF Wait, WaitReturns
<1>2. CASE status = "ok"
  <2>1. Return("Ok")
    BY <1>2 DEF Wait
  <2>2. /\ errpipe' \in Nat /\ collected' \in Nat
        /\ errpipe' = errpipe /\ collected' = collected
    BY <1>1 DEF TypeInv, childVars
  <2> QED BY <1>1, <1>2, <2>1, <2>2, ReturnKeeps DEF childVars
<1>3. CASE status = "fail"
  <2>1. rpc' = "stderr" /\ UNCHANGED <<phase, result, closed>>
    BY <1>3 DEF Wait
  <2>2. OutWritten' = OutWritten /\ ErrWritten' = ErrWritten /\ Total' = Total
    BY <1>1, SameWritten DEF childVars
  <2>3. TypeInv'
    BY <1>1, <2>1 DEF TypeInv, childVars, Script
  <2>4. PipesInv'
    BY <1>1, <2>1, <2>2 DEF PipesInv, childVars, Script
  <2>5. StderrInv' /\ PhaseInv' /\ ClosedInv'
    BY <1>1, <1>3, <2>1, <2>2 DEF StderrInv, PhaseInv, ClosedInv, childVars
  <2> QED BY <2>3, <2>4, <2>5
<1> QED BY <1>1, <1>2, <1>3 DEF TypeInv, PipesInv

\* stderr is read, or the thread joined that has read it, to its end; nothing
\* was read of it before.
LEMMA CollectKeeps == Inv /\ (CollectSync \/ CollectAsync) => Inv'
<1> SUFFICES ASSUME Inv, CollectSync \/ CollectAsync PROVE Inv'
  OBVIOUS
<1> USE DEF Inv
<1>1. /\ rpc = "stderr" /\ child = "exited" /\ status = "fail"
      /\ UNCHANGED <<setup, child, step, status, outpipe, childout, stdout, eof,
                     received>>
  BY DEF CollectSync, CollectAsync, PhaseInv, childVars
<1>2. errpipe \in Nat /\ collected \in Nat /\ errpipe + collected = ErrWritten
  BY DEF TypeInv, PipesInv
<1>3. CASE CollectSync
  <2>1. /\ ~setup.async /\ collected' = errpipe /\ errpipe' = 0 /\ thread' = thread
        /\ Return(CloseVerdict(errpipe))
    BY <1>3 DEF CollectSync
  <2>2. collected = 0
    BY <1>1, <2>1 DEF StderrInv
  <2>3. /\ CloseVerdict(errpipe) \in {"Ok", "Err"}
        /\ eof => CloseVerdict(errpipe) = "Err"
        /\ ~eof /\ ErrWritten = 0 => CloseVerdict(errpipe) = "Ok"
    BY <1>2, <2>2 DEF CloseVerdict
  <2> QED BY <1>1, <1>2, <2>1, <2>2, <2>3, ReturnKeeps
<1>4. CASE CollectAsync
  <2>1. /\ setup.async /\ thread = "finished" /\ thread' = "taken"
        /\ collected' = collected /\ errpipe' = errpipe
        /\ Return(CloseVerdict(collected))
    BY <1>4 DEF CollectAsync, Joins, childVars
  <2>2. errpipe = 0
    BY <2>1 DEF StderrInv
  <2>3. /\ CloseVerdict(collected) \in {"Ok", "Err"}
        /\ eof => CloseVerdict(collected) = "Err"
        /\ ~eof /\ ErrWritten = 0 => CloseVerdict(collected) = "Ok"
    BY <1>2, <2>2 DEF CloseVerdict
  <2> QED BY <1>1, <1>2, <2>1, <2>2, <2>3, ReturnKeeps
<1> QED BY <1>3, <1>4
-----------------------------------------------------------------------------
(* The invariant, and what it is for.                                      *)

\* A reader that has not been built has a child that has written nothing.
LEMMA InvInit == Init => Inv
<1> SUFFICES ASSUME Init PROVE Inv
  OBVIOUS
<1>1. TypeInv
  <2>1. Script \in Seq({"out", "err", "close"})
    BY SetupsAssumption DEF Init, SetupType, Script
  <2>2. Len(Script) \in Nat
    BY <2>1
  <2>3. childout \in BOOLEAN /\ eof \in BOOLEAN
    BY DEF Init
  <2> QED BY <2>2, <2>3 DEF Init, TypeInv
<1>2. OutWritten = 0 /\ Count(Script, step - 1, "err") = 0
  <2>1. {i \in 1 .. (step - 1) : Script[i] = "out"} = {}
    BY DEF Init
  <2>2. {i \in 1 .. (step - 1) : Script[i] = "err"} = {}
    BY DEF Init
  <2>3. Cardinality({}) = 0
    BY FS_EmptySet
  <2> QED BY <2>1, <2>2, <2>3 DEF OutWritten, Count
<1>3. ErrWritten = 0
  BY <1>2 DEF ErrWritten, Init, Script
<1>4. PipesInv
  BY <1>2, <1>3 DEF PipesInv, Init
<1>5. StderrInv /\ PhaseInv /\ ClosedInv
  BY DEF StderrInv, PhaseInv, ClosedInv, Init
<1> QED BY <1>1, <1>4, <1>5 DEF Inv

\* Every step of child, thread and reader keeps the invariant.
LEMMA InvNext == Inv /\ [Next]_vars => Inv'
<1> SUFFICES ASSUME Inv, [Next]_vars PROVE Inv'
  OBVIOUS
<1>1. CASE UNCHANGED vars
  BY <1>1 DEF vars, childVars, readerVars, Inv, TypeInv, PipesInv, StderrInv,
     PhaseInv, ClosedInv, OutWritten, ErrWritten, Total, Script
<1>2. CASE ChildStep
  BY <1>2, WriteOut, WriteErr, CloseOut, Ends DEF ChildStep
<1>3. CASE ThreadRead \/ ThreadEof
  BY <1>3, ThreadKeeps
<1>4. CASE ReaderStep
  BY <1>4, BuildKeeps, ReadKeeps, EofKeeps, SearchEndKeeps, CloseKeeps, WaitKeeps,
     CollectKeeps DEF ReaderStep
<1> QED BY <1>1, <1>2, <1>3, <1>4 DEF Next, Terminated

\* The invariant holds throughout every search of a child's output.
LEMMA InvAlways == Spec => []Inv
<1> QED BY InvInit, InvNext, PTL DEF Spec

\* A failure of the child is reported although it is seen inside read, and a
\* broken pipe that the search itself has caused is not (CommandReader::close).
THEOREM FailuresExactCorrect == Spec => []FailuresExact
<1>1. Inv => FailuresExact
  <2> SUFFICES ASSUME Inv, phase = "done" PROVE FailuresExact
    BY DEF FailuresExact
  <2>1. rpc = "idle"
    BY DEF Inv, PhaseInv
  <2> QED BY <2>1 DEF Inv, FailuresExact, Outcome, PhaseInv, ClosedInv, TypeInv
<1> QED BY <1>1, InvAlways, PTL

\* No search leaves a zombie, however it ends (CommandReader::drop).
THEOREM ChildReapedCorrect == Spec => []ChildReaped
<1>1. Inv => ChildReaped
  BY DEF Inv, ChildReaped, PhaseInv, ClosedInv, TypeInv
<1> QED BY <1>1, InvAlways, PTL

\* The search has seen all of the child's output when it hears of its end, and
\* the failure's message all of its stderr (CommandReader::read, StderrReader).
THEOREM OutputCompleteCorrect == Spec => []OutputComplete
<1>1. Inv => OutputComplete
  <2> SUFFICES ASSUME Inv PROVE OutputComplete
    OBVIOUS
  <2>1. eof => received = Total
    BY DEF Inv, PipesInv
  <2>2. phase = "done" /\ status = "fail" => errpipe = 0
    BY DEF Inv, PipesInv, PhaseInv, ClosedInv
  <2>3. errpipe + collected = ErrWritten /\ collected \in Nat
    BY DEF Inv, PipesInv, TypeInv
  <2> QED BY <2>1, <2>2, <2>3 DEF OutputComplete, Total, Script
<1> QED BY <1>1, InvAlways, PTL
=============================================================================
