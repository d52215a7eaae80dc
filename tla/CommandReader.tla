---------------------------- MODULE CommandReader ----------------------------
(***************************************************************************)
(* A search over the output of a child process: CommandReader and its      *)
(* StderrReader (crates/cli/src/process.rs) as they are used by            *)
(* SearchWorker::search_preprocessor and search_decompress                 *)
(* (crates/core/search.rs).                                                *)
(*                                                                         *)
(* Three actors share two pipes of bounded capacity: the child writes to   *)
(* stdout and stderr, the searching thread reads stdout and closes the     *)
(* reader, and, if stderr is read asynchronously, a second thread drains   *)
(* stderr.  Data is abstracted to its amount.  Waiting for the child and   *)
(* reading its stderr are taken not to fail.                               *)
(***************************************************************************)
EXTENDS Naturals, Sequences, FiniteSets

CONSTANTS
    Capacity,   \* units a pipe holds before a writer blocks
    Setups      \* the children and builders considered, see SetupType

\* script: what the child does, one unit of output per element; status: how it
\* then exits; complains: whether it reports a broken pipe on stderr before it
\* dies of it; async: the builder's async_stderr.
SetupType == [script : Seq({"out", "err", "close"}), status : {"ok", "fail"},
              complains : BOOLEAN, async : BOOLEAN]

\* A child that has closed its stdout cannot write to it.
ClosesForGood(script) ==
    \A i, j \in DOMAIN script : i < j /\ script[i] = "close" => script[j] # "out"

ASSUME CapacityAssumption == Capacity \in Nat \ {0}
ASSUME SetupsAssumption ==
    \A s \in Setups : s \in SetupType /\ ClosesForGood(s.script)

VARIABLES
    setup,      \* the child and the builder of this behaviour
    child,      \* "none", "running", "complaining" or "exited"
    step,       \* the next element of the script
    status,     \* the exit status, once the child has exited
    outpipe, errpipe,   \* units in the pipes
    childout,   \* the child's end of stdout is open
    stdout,     \* child.stdout: "open", or "taken" by close
    eof,
    thread,     \* the stderr thread: "none", "running", "finished" or "taken"
    collected,  \* stderr units read so far
    rpc,        \* the reader: "idle", "wait" or "stderr"
    phase,      \* the caller: "build", "search", "close", "drop", "done"
    result, closed,     \* what the search and the explicit close returned
    received    \* stdout units the search was given

childVars == <<child, step, status, outpipe, errpipe, childout>>
readerVars == <<stdout, eof, rpc, phase, result, closed, received>>
vars == <<setup, childVars, thread, collected, readerVars>>

\* How many of the first n elements of a script are x.
Count(script, n, x) == Cardinality({i \in 1 .. n : script[i] = x})

Init ==
    /\ setup \in Setups
    /\ child = "none" /\ step = 1 /\ status = "none"
    /\ outpipe = 0 /\ errpipe = 0
    /\ childout = TRUE
    /\ stdout = "open" /\ eof = FALSE
    /\ thread = "none" /\ collected = 0
    /\ rpc = "idle" /\ phase = "build"
    /\ result = "none" /\ closed = "none"
    /\ received = 0

-----------------------------------------------------------------------------
(* The child and the kernel.                                               *)

Room(pipe) == pipe < Capacity

Doing(what) ==
    /\ child = "running"
    /\ step <= Len(setup.script) /\ setup.script[step] = what

ChildWriteOut ==
    /\ Doing("out") /\ stdout = "open"
    /\ Room(outpipe)
    /\ outpipe' = outpipe + 1
    /\ step' = step + 1
    /\ UNCHANGED <<setup, child, status, errpipe, childout, thread, collected,
                   readerVars>>

\* The read end is gone: the child dies, with or without a word about it.
ChildBrokenPipe ==
    /\ Doing("out") /\ stdout = "taken"
    /\ IF setup.complains THEN child' = "complaining" /\ UNCHANGED status
                          ELSE child' = "exited" /\ status' = "fail"
    /\ UNCHANGED <<setup, step, outpipe, errpipe, childout, thread, collected,
                   readerVars>>

ChildComplain ==
    /\ child = "complaining"
    /\ Room(errpipe)
    /\ errpipe' = errpipe + 1
    /\ child' = "exited" /\ status' = "fail"
    /\ UNCHANGED <<setup, step, outpipe, childout, thread, collected, readerVars>>

ChildWriteErr ==
    /\ Doing("err")
    /\ Room(errpipe)
    /\ errpipe' = errpipe + 1
    /\ step' = step + 1
    /\ UNCHANGED <<setup, child, status, outpipe, childout, thread, collected,
                   readerVars>>

ChildClose ==
    /\ Doing("close")
    /\ childout' = FALSE
    /\ step' = step + 1
    /\ UNCHANGED <<setup, child, status, outpipe, errpipe, thread, collected,
                   readerVars>>

ChildExit ==
    /\ child = "running" /\ step > Len(setup.script)
    /\ child' = "exited" /\ status' = setup.status
    /\ UNCHANGED <<setup, step, outpipe, errpipe, childout, thread, collected,
                   readerVars>>

ChildStep == \/ ChildWriteOut \/ ChildBrokenPipe \/ ChildComplain
             \/ ChildWriteErr \/ ChildClose \/ ChildExit

-----------------------------------------------------------------------------
(* The stderr thread: stderr_to_command_error in StderrReader::async.      *)

DrainsOnce == errpipe > 0 /\ collected = 0    \* mutant: one read only
Drains == errpipe > 0

ThreadRead ==
    /\ thread = "running" /\ Drains
    /\ \E n \in 1 .. errpipe :
         /\ errpipe' = errpipe - n
         /\ collected' = collected + n
    /\ UNCHANGED <<setup, child, step, status, outpipe, childout, thread,
                   readerVars>>

StderrAtEof == errpipe = 0 /\ child = "exited"

ThreadEof ==
    /\ thread = "running" /\ StderrAtEof
    /\ thread' = "finished"
    /\ UNCHANGED <<setup, childVars, collected, readerVars>>

-----------------------------------------------------------------------------
(* CommandReader.                                                          *)

\* close takes stdout and drops it; a second close finds None.
TakesStdoutAtEof == eof    \* mutant: only a reader at its end is closed
TakesStdout == stdout = "open"

\* A close that returns v ends a read at end of file, or the explicit close.
Return(v) ==
    /\ rpc' = "idle"
    /\ CASE phase = "search" -> result' = v /\ UNCHANGED <<phase, closed>>
         [] phase = "close" -> closed' = v /\ phase' = "drop" /\ UNCHANGED result
         [] phase = "drop" -> phase' = "done" /\ UNCHANGED <<result, closed>>

\* CommandReaderBuilder::build; without a child there is nothing to search.
Build ==
    /\ phase = "build"
    /\ \/ /\ child' = "running"
          /\ phase' = "search"
          /\ thread' = IF setup.async THEN "running" ELSE "none"
          /\ UNCHANGED result
       \/ /\ phase' = "done" /\ result' = "Err"
          /\ UNCHANGED <<child, thread>>
    /\ UNCHANGED <<setup, step, status, outpipe, errpipe, childout, collected,
                   stdout, eof, rpc, closed, received>>

Searching == phase = "search" /\ rpc = "idle" /\ result = "none"

ReadBytes ==
    /\ Searching /\ outpipe > 0
    /\ \E n \in 1 .. outpipe :
         /\ outpipe' = outpipe - n
         /\ received' = received + n
    /\ UNCHANGED <<setup, child, step, status, errpipe, childout, thread,
                   collected, stdout, eof, rpc, phase, result, closed>>

StdoutAtEof == outpipe = 0 /\ (~childout \/ child = "exited")

\* read returns zero bytes: the reader closes itself.
ReadsFew == StdoutAtEof \/ outpipe = 1    \* mutant: a short read ends it all
ReadsNothing == StdoutAtEof

ReadEof ==
    /\ Searching /\ ReadsNothing
    /\ eof' = TRUE
    /\ stdout' = "taken"
    /\ rpc' = "wait"
    /\ UNCHANGED <<setup, childVars, thread, collected, phase, result, closed,
                   received>>

\* The sink has seen enough, or reading or printing fails.
SearchEnds ==
    /\ Searching
    /\ result' \in {"Ok", "Err"}
    /\ UNCHANGED <<setup, childVars, thread, collected, stdout, eof, rpc, phase,
                   closed, received>>

\* close as the caller calls it after the search, whatever its result, and as
\* drop calls it again.
Close(from, to) ==
    /\ phase = from /\ rpc = "idle"
    /\ IF TakesStdout
       THEN /\ stdout' = "taken" /\ rpc' = "wait"
            /\ phase' = IF from = "search" THEN "close" ELSE from
            /\ UNCHANGED closed
       ELSE /\ phase' = to
            /\ closed' = IF from = "search" THEN "Ok" ELSE closed
            /\ UNCHANGED <<stdout, rpc>>
    /\ UNCHANGED <<setup, childVars, thread, collected, eof, result, received>>

ExplicitClose == result # "none" /\ Close("search", "drop")
Drop == Close("drop", "done")

WaitReturns == child = "exited"

\* child.wait returns; stderr matters only if the child has failed.
Wait ==
    /\ rpc = "wait" /\ WaitReturns
    /\ IF status = "ok" THEN Return("Ok")
       ELSE rpc' = "stderr" /\ UNCHANGED <<phase, result, closed>>
    /\ UNCHANGED <<setup, childVars, thread, collected, stdout, eof, received>>

\* A broken pipe is expected before end of file, if stderr says nothing.
CloseVerdictNoEof(n) == IF n = 0 THEN "Ok" ELSE "Err"    \* mutant: eof ignored
CloseVerdictErr(n) == "Err"    \* mutant: the broken pipe is reported
CloseVerdict(n) == IF ~eof /\ n = 0 THEN "Ok" ELSE "Err"

CollectSync ==
    /\ rpc = "stderr" /\ ~setup.async
    /\ collected' = errpipe
    /\ errpipe' = 0
    /\ Return(CloseVerdict(errpipe))
    /\ UNCHANGED <<setup, child, step, status, outpipe, childout, thread, stdout,
                   eof, received>>

\* The thread is joined.
JoinsAnyway == thread # "taken"    \* mutant: what it has read so far is taken
Joins == thread = "finished"

CollectAsync ==
    /\ rpc = "stderr" /\ setup.async
    /\ Joins
    /\ thread' = "taken"
    /\ Return(CloseVerdict(collected))
    /\ UNCHANGED <<setup, childVars, collected, stdout, eof, received>>

ReaderStep == \/ Build \/ ReadBytes \/ ReadEof \/ SearchEnds \/ ExplicitClose
              \/ Drop \/ Wait \/ CollectSync \/ CollectAsync

Terminated == phase = "done" /\ UNCHANGED vars

Next == ChildStep \/ ThreadRead \/ ThreadEof \/ ReaderStep \/ Terminated

\* The operating system runs the child and both threads.
Fairness == WF_vars(ChildStep) /\ WF_vars(ThreadRead \/ ThreadEof)
              /\ WF_vars(ReaderStep)

Spec == Init /\ [][Next]_vars /\ Fairness

-----------------------------------------------------------------------------
(* Properties                                                              *)

\* What search_preprocessor and search_decompress return: result?; close_result?.
Outcome == IF result = "Err" THEN "Err" ELSE closed

ErrWritten ==
    Count(setup.script, step - 1, "err")
      + (IF child = "exited" /\ status = "fail" /\ step <= Len(setup.script)
            /\ setup.complains THEN 1 ELSE 0)

\* A child whose output was read to the end and that failed makes the search
\* fail, although the failure is seen inside read and the close that the caller
\* makes afterwards returns Ok; but a search that ends early and well is no
\* error just because the child died of the broken pipe without a word.
FailuresExact ==
    phase = "done" =>
        /\ eof /\ status = "fail" => Outcome = "Err"
        /\ ~eof /\ result = "Ok" /\ ErrWritten = 0 => Outcome = "Ok"

\* The child has been waited for before the reader is gone: no zombie is left.
ChildReaped == phase = "done" => child \in {"none", "exited"}

\* At end of file the search has received the whole output, and the message of
\* a failed close holds all that the child wrote to stderr, even though another
\* thread reads it.
OutputComplete ==
    /\ eof => received = Count(setup.script, Len(setup.script), "out")
    /\ phase = "done" /\ status = "fail" => collected = ErrWritten

\* The search, the close and the drop return, whatever the child writes.
SearchReturns == <>(phase = "done")
=============================================================================
