---------------------------- MODULE SearchDriver ----------------------------
(***************************************************************************)
(* The drivers of crates/core/main.rs: search, search_parallel, files and  *)
(* files_parallel, from the results of the directory walk to the exit      *)
(* status of the process, with the flag and the macros of messages.rs.     *)
(*                                                                         *)
(* The walk is taken as what TreeWalk promises: every result is delivered  *)
(* once, to some worker; after a visitor's Quit the walk may end before    *)
(* everything is delivered.  In the serial modes the one worker is the     *)
(* main thread, which pulls the results itself and breaks out of its loop  *)
(* where a visitor would answer Quit.                                      *)
(***************************************************************************)
EXTENDS Naturals, Sequences, FiniteSets

CONSTANTS
    Workers,        \* the threads of the walk
    MainWorker,     \* the one of them that stands for the main thread
    Results,        \* what the walk yields
    KindChoices,    \* what the results may be: functions to Kinds
    ArgChoices,     \* the command lines considered
    StdoutFailures, \* ways in which writing to stdout may fail
    StderrFailures  \* ways in which writing to stderr may fail

Kinds == {"walkerr", "dir", "match", "nomatch", "searcherr"}
Modes == {"hopeless", "search", "search_parallel", "files", "files_parallel"}
Failures == {"BrokenPipe", "Other"}
Args == [mode : Modes, quiet : BOOLEAN, stats : BOOLEAN, implicit : BOOLEAN,
         messages : BOOLEAN, blame : BOOLEAN]

ASSUME DriverAssumption ==
    /\ MainWorker \in Workers
    /\ Results # {} /\ IsFiniteSet(Results)
    /\ KindChoices \subseteq [Results -> Kinds]
    /\ ArgChoices \subseteq Args
    /\ StdoutFailures \subseteq Failures /\ StderrFailures \subseteq Failures

VARIABLES
    args, kind,     \* the command line and the tree of this behaviour
    pending,        \* results the walk has not delivered
    stopped,        \* a visitor has answered Quit, or the loop was left
    pc, current,    \* of each worker: where it is, and with which result
    buffer,         \* the haystacks whose lines are in a worker's buffer
    matched, searched, errored,
    stats,          \* searches counted
    channel,        \* haystacks on their way to the print thread
    printer,        \* the print thread: none, running or how it ended
    printed,        \* how often a haystack's lines, or path, are on stdout
    report,         \* the statistics written, if any
    trouble,        \* failures of stdout and stderr so far
    mainpc, status  \* the main thread; the exit status once there is one

input == <<args, kind>>
walkVars == <<pending, stopped>>
workerVars == <<pc, current, buffer>>
flagVars == <<matched, searched, errored>>
outVars == <<printed, trouble>>
mainVars == <<mainpc, status>>
vars == <<input, walkVars, workerVars, flagVars, stats, channel, printer, report,
          outVars, mainVars>>

NoStatus == 99
NoReport == Cardinality(Results) + 1
IsHaystack(r) == kind[r] \in {"match", "nomatch", "searcherr"}
FilesMode == args.mode \in {"files", "files_parallel"}
SearchMode == args.mode \in {"search", "search_parallel"}
Serial == args.mode \in {"search", "files"}
Threads == IF Serial THEN {MainWorker} ELSE Workers
QuietQuits == args.quiet    \* mutant: --stats does not keep the walk going
QuitAfterMatch == args.quiet /\ ~args.stats

Init ==
    /\ args \in ArgChoices /\ kind \in KindChoices
    /\ pending = Results /\ stopped = FALSE
    /\ pc = [w \in Workers |-> "idle"]
    /\ current = [w \in Workers |-> CHOOSE r \in Results : TRUE]
    /\ buffer = [w \in Workers |-> {}]
    /\ matched = FALSE /\ searched = FALSE /\ errored = FALSE
    /\ stats = 0
    /\ channel = <<>>
    /\ printer = IF args.mode = "files_parallel" THEN "running" ELSE "none"
    /\ report = NoReport
    /\ printed = [r \in Results |-> 0] /\ trouble = {}
    /\ mainpc = "walk" /\ status = NoStatus

\* All threads stop where they are when the process exits.
Alive == status = NoStatus
Goto(w, p) == pc' = [pc EXCEPT ![w] = p]
Exit(code) == status' = code /\ mainpc' = "exit"

-----------------------------------------------------------------------------
(* Writing to stdout and stderr.                                           *)

\* Writing S succeeds; a pipe that broke stays broken.
Write(S) ==
    /\ S # {} => "BrokenPipe" \notin trouble
    /\ printed' = [r \in Results |-> printed[r] + (IF r \in S THEN 1 ELSE 0)]
    /\ UNCHANGED trouble

\* Writing fails in the way f; what had reached stdout by then is not counted.
WriteFails(f) ==
    /\ f \in StdoutFailures
    /\ trouble' = trouble \cup {f}
    /\ UNCHANGED printed

\* eprintln_locked! exits the process itself if stderr fails.
ComplaintStatus(f) == IF f = "BrokenPipe" THEN 0 ELSE 2
Complain(f) ==
    /\ f \in StderrFailures
    /\ trouble' = trouble \cup {"stderr"}
    /\ Exit(ComplaintStatus(f))

SetErroredIfShown == errored \/ args.messages    \* mutant: only when shown
SetErrored == TRUE

-----------------------------------------------------------------------------
(* The visitor up to the search: the same in every mode.                   *)

FreshBufferKept(b) == b    \* mutant: the buffer is not cleared
FreshBuffer(b) == {}

\* The walk hands over an error or a directory entry: build_from_result
\* reports the one and makes a haystack of the other, unless it is a directory.
Deliver(w) ==
    /\ Alive /\ mainpc = "walk" /\ args.mode # "hopeless"
    /\ w \in Threads /\ pc[w] = "idle"
    /\ stopped => ~Serial
    /\ \E r \in pending :
         /\ pending' = pending \ {r}
         /\ current' = [current EXCEPT ![w] = r]
         /\ errored' = IF kind[r] = "walkerr" THEN SetErrored ELSE errored
         /\ searched' = (searched \/ (IsHaystack(r) /\ SearchMode))
         /\ buffer' = IF IsHaystack(r)
                      THEN [buffer EXCEPT ![w] = FreshBuffer(@)] ELSE buffer
         /\ Goto(w, CASE kind[r] = "walkerr" -> "message"
                      [] kind[r] = "dir" -> "idle"
                      [] IsHaystack(r) -> IF FilesMode THEN "found" ELSE "search")
    /\ UNCHANGED <<input, stopped, matched, stats, channel, printer, report,
                   outVars, mainVars>>

\* message! writes to stderr, unless messages are switched off.
Message(w) ==
    /\ Alive /\ pc[w] \in {"message", "printmessage"}
    /\ \/ /\ Goto(w, IF pc[w] = "message" THEN "idle" ELSE "decide")
          /\ UNCHANGED <<trouble, mainVars>>
       \/ /\ args.messages
          /\ \E f \in Failures : Complain(f)
          /\ UNCHANGED pc
    /\ UNCHANGED <<input, walkVars, current, buffer, flagVars, stats, channel,
                   printer, report, printed>>

\* The search itself fails, perhaps after some lines have been found; not with a
\* broken pipe, which only writing to stdout gives (SearchEndsSerially).  These
\* are written already in the serial mode, and are in the buffer otherwise.
SearchFails(w) ==
    /\ Alive /\ pc[w] = "search" /\ kind[current[w]] = "searcherr"
    /\ errored' = SetErrored
    /\ \E S \in {{}, {current[w]}} :
         IF Serial
         THEN Write(IF args.quiet THEN {} ELSE S) /\ UNCHANGED buffer
         ELSE /\ buffer' = [buffer EXCEPT ![w] = @ \cup S]
              /\ UNCHANGED outVars
    /\ Goto(w, "message")
    /\ UNCHANGED <<input, walkVars, current, matched, searched, stats, channel,
                   printer, report, mainVars>>

-----------------------------------------------------------------------------
(* The rest of the visitor of search_parallel, and of the loop of search.  *)

HasMatch(w) == kind[current[w]] = "match"
Lines(w) == IF HasMatch(w) /\ ~args.quiet THEN {current[w]} ELSE {}

\* A search that comes to its end has its lines in the worker's buffer...
SearchEnds(w) ==
    /\ Alive /\ ~Serial /\ pc[w] = "search" /\ kind[current[w]] # "searcherr"
    /\ buffer' = [buffer EXCEPT ![w] = @ \cup Lines(w)]
    /\ Goto(w, "store")
    /\ UNCHANGED <<input, walkVars, current, flagVars, stats, channel, printer,
                   report, outVars, mainVars>>

\* ... or has written them, in which case a failure to write ends the loop if
\* the pipe is broken, and is reported as a failure of the search otherwise.
SearchEndsSerially(w) ==
    /\ Alive /\ Serial /\ pc[w] = "search" /\ kind[current[w]] # "searcherr"
    /\ \/ /\ Write(Lines(w))
          /\ Goto(w, "store")
          /\ UNCHANGED errored
       \/ /\ Lines(w) # {}
          /\ \E f \in Failures :
               /\ WriteFails(f)
               /\ errored' = IF f = "BrokenPipe" THEN errored ELSE SetErrored
               /\ Goto(w, IF f = "BrokenPipe" THEN "quit" ELSE "message")
    /\ UNCHANGED <<input, walkVars, current, buffer, matched, searched, stats,
                   channel, printer, report, mainVars>>

MatchedOf(w) == HasMatch(w)    \* mutant: the last search decides
MatchedAfter(w) == matched \/ HasMatch(w)

StoreMatched(w) ==
    /\ Alive /\ pc[w] = "store"
    /\ matched' = MatchedAfter(w)
    /\ Goto(w, "count")
    /\ UNCHANGED <<input, walkVars, current, buffer, searched, errored, stats,
                   channel, printer, report, outVars, mainVars>>

\* One search more: a local variable of search, under a mutex in search_parallel.
AddStats(w) ==
    /\ Alive /\ pc[w] = "count"
    /\ stats' = IF args.stats THEN stats + 1 ELSE stats
    /\ Goto(w, IF Serial THEN "decide" ELSE "print")
    /\ UNCHANGED <<input, walkVars, current, buffer, flagVars, channel, printer,
                   report, outVars, mainVars>>

AfterPipeMessage(f) == "printmessage"    \* mutant: a broken pipe is no exception
AfterFailure(f) == IF f = "BrokenPipe" THEN "quit" ELSE "printmessage"

\* bufwtr.print, which does nothing if the buffer is empty.
PrintBuffer(w) ==
    /\ Alive /\ pc[w] = "print"
    /\ \/ /\ Write(buffer[w])
          /\ Goto(w, "decide")
          /\ UNCHANGED errored
       \/ /\ buffer[w] # {}
          /\ \E f \in Failures :
               /\ WriteFails(f)
               /\ Goto(w, AfterFailure(f))
               /\ errored' = IF AfterFailure(f) = "quit" THEN errored
                                                         ELSE SetErrored
    /\ UNCHANGED <<input, walkVars, current, buffer, matched, searched, stats,
                   channel, printer, report, mainVars>>

\* Any worker's match may make this one quit.
Decide(w) ==
    /\ Alive /\ pc[w] = "decide"
    /\ Goto(w, IF matched /\ QuitAfterMatch THEN "quit" ELSE "idle")
    /\ UNCHANGED <<input, walkVars, current, buffer, flagVars, stats, channel,
                   printer, report, outVars, mainVars>>

\* The walk takes notice of Quit, or the serial loop breaks.
QuitWalk(w) ==
    /\ Alive /\ pc[w] = "quit"
    /\ stopped' = TRUE
    /\ Goto(w, "idle")
    /\ UNCHANGED <<input, pending, current, buffer, flagVars, stats, channel,
                   printer, report, outVars, mainVars>>

-----------------------------------------------------------------------------
(* The loop of files, the visitor of files_parallel and its print thread.  *)

Found(w) ==
    /\ Alive /\ pc[w] = "found"
    /\ matched' = TRUE
    /\ Goto(w, IF QuitAfterMatch THEN "quit" ELSE IF Serial THEN "write" ELSE "send")
    /\ UNCHANGED <<input, walkVars, current, buffer, searched, errored, stats,
                   channel, printer, report, outVars, mainVars>>

\* A failure other than a broken pipe is returned to main.
WritePath(w) ==
    /\ Alive /\ pc[w] = "write"
    /\ \/ /\ Write({current[w]})
          /\ Goto(w, "idle")
          /\ UNCHANGED mainpc
       \/ \E f \in Failures :
            /\ WriteFails(f)
            /\ Goto(w, IF f = "BrokenPipe" THEN "quit" ELSE "idle")
            /\ mainpc' = IF f = "BrokenPipe" THEN mainpc ELSE "failed"
    /\ UNCHANGED <<input, walkVars, current, buffer, flagVars, stats, channel,
                   printer, report, status>>

\* The channel is unbounded; sending fails once the print thread has ended.
Send(w) ==
    /\ Alive /\ pc[w] = "send"
    /\ IF printer = "running"
       THEN channel' = Append(channel, current[w]) /\ Goto(w, "idle")
       ELSE Goto(w, "quit") /\ UNCHANGED channel
    /\ UNCHANGED <<input, walkVars, current, buffer, flagVars, stats, printer,
                   report, outVars, mainVars>>

PrintPath ==
    /\ Alive /\ printer = "running" /\ channel # <<>>
    /\ channel' = Tail(channel)
    /\ \/ /\ Write({Head(channel)})
          /\ UNCHANGED printer
       \/ \E f \in Failures :
            /\ WriteFails(f)
            /\ printer' = f
    /\ UNCHANGED <<input, walkVars, workerVars, flagVars, stats, report, mainVars>>

\* The workers' senders are gone once the walk has returned, but the main
\* thread holds one as well.
SendersGoneNever == FALSE    \* mutant: the main thread keeps its sender
SendersGone == mainpc = "join"

PrinterEnds ==
    /\ Alive /\ printer = "running" /\ channel = <<>> /\ SendersGone
    /\ printer' = "done"
    /\ UNCHANGED <<input, walkVars, workerVars, flagVars, stats, channel, report,
                   outVars, mainVars>>

-----------------------------------------------------------------------------
(* The main thread.                                                        *)

\* run does not search if no pattern can match.
MatchImpossible ==
    /\ Alive /\ mainpc = "walk" /\ args.mode = "hopeless"
    /\ mainpc' = "status"
    /\ UNCHANGED <<input, walkVars, workerVars, flagVars, stats, channel, printer,
                   report, outVars, status>>

\* The walk returns when it is exhausted or has been told to stop, and all
\* its threads have been joined.
WalkReturns ==
    /\ Alive /\ mainpc = "walk" /\ args.mode # "hopeless"
    /\ pending = {} \/ stopped
    /\ \A w \in Workers : pc[w] = "idle"
    /\ mainpc' = CASE SearchMode /\ args.implicit /\ ~searched -> "nothing"
                   [] SearchMode /\ (~args.implicit \/ searched) -> "report"
                   [] args.mode = "files" -> "status"
                   [] args.mode = "files_parallel" -> "join"
    /\ errored' = IF SearchMode /\ args.implicit /\ ~searched
                  THEN SetErrored ELSE errored
    /\ UNCHANGED <<input, walkVars, workerVars, matched, searched, stats, channel,
                   printer, report, outVars, status>>

\* eprint_nothing_searched: the flag is set, the message still to be written.
NothingSearched ==
    /\ Alive /\ mainpc = "nothing"
    /\ \/ /\ mainpc' = "report"
          /\ UNCHANGED <<trouble, status>>
       \/ args.messages /\ \E f \in Failures : Complain(f)
    /\ UNCHANGED <<input, walkVars, workerVars, flagVars, stats, channel, printer,
                   report, printed>>

\* print_stats, whose failures are ignored.
Report ==
    /\ Alive /\ mainpc = "report"
    /\ \/ /\ args.stats => "BrokenPipe" \notin trouble
          /\ report' = IF args.stats THEN stats ELSE NoReport
          /\ UNCHANGED outVars
       \/ /\ args.stats
          /\ \E f \in Failures : WriteFails(f)
          /\ UNCHANGED report
    /\ mainpc' = "status"
    /\ UNCHANGED <<input, walkVars, workerVars, flagVars, stats, channel, printer,
                   status>>

\* files_parallel has dropped its sender and waits for the print thread.
Join ==
    /\ Alive /\ mainpc = "join" /\ printer # "running"
    /\ mainpc' = IF printer = "Other" THEN "failed" ELSE "status"
    /\ UNCHANGED <<input, walkVars, workerVars, flagVars, stats, channel, printer,
                   report, outVars, status>>

\* run returned an error that is not a broken pipe; main reports it.
MainFails ==
    /\ Alive /\ mainpc = "failed"
    /\ \/ Exit(2) /\ UNCHANGED trouble
       \/ \E f \in Failures : Complain(f)
    /\ UNCHANGED <<input, walkVars, workerVars, flagVars, stats, channel, printer,
                   report, printed>>

ExitStatus ==
    IF matched /\ (args.quiet \/ ~errored) THEN 0 ELSE IF errored THEN 2 ELSE 1

RunReturns ==
    /\ Alive /\ mainpc = "status"
    /\ Exit(ExitStatus)
    /\ UNCHANGED <<input, walkVars, workerVars, flagVars, stats, channel, printer,
                   report, outVars>>

Main == MatchImpossible \/ WalkReturns \/ NothingSearched \/ Report \/ Join
        \/ MainFails \/ RunReturns

Worker(w) == Deliver(w) \/ Message(w) \/ SearchFails(w) \/ SearchEnds(w)
             \/ SearchEndsSerially(w) \/ StoreMatched(w) \/ AddStats(w)
             \/ PrintBuffer(w) \/ Decide(w) \/ QuitWalk(w) \/ Found(w)
             \/ WritePath(w) \/ Send(w)

\* The process is gone.
Gone == ~Alive /\ UNCHANGED vars

Next == (\E w \in Workers : Worker(w)) \/ PrintPath \/ PrinterEnds \/ Main \/ Gone

\* Every thread that can take a step is eventually scheduled.
Fairness ==
    /\ \A w \in Workers : WF_vars(Worker(w))
    /\ WF_vars(PrintPath \/ PrinterEnds)
    /\ WF_vars(Main)

SafeSpec == Init /\ [][Next]_vars
Spec == SafeSpec /\ Fairness

-----------------------------------------------------------------------------
(* What the drivers promise.                                               *)

Haystacks == {r \in Results : IsHaystack(r)}
Matches == IF FilesMode THEN Haystacks ELSE {r \in Results : kind[r] = "match"}
Faulty ==
    /\ args.mode # "hopeless"
    /\ \/ \E r \in Results : kind[r] = "walkerr"
       \/ SearchMode /\ \E r \in Results : kind[r] = "searcherr"
       \/ SearchMode /\ args.implicit /\ Haystacks = {}

Expected ==
    IF args.mode # "hopeless" /\ Matches # {} /\ (args.quiet \/ ~Faulty) THEN 0
    ELSE IF Faulty THEN 2 ELSE 1

\* As long as stdout and stderr work, the exit status is that of the grep
\* convention for this tree and command line, whichever thread meets which
\* result first, whether the walk was cut short or not, and the same for the
\* serial and the parallel drivers.
DeterministicExit == (~Alive /\ trouble = {}) => status = Expected

\* No line and no path is printed twice, nor printed by a worker for a
\* haystack other than the one it searched with success, nor with --quiet;
\* and if nothing fails on the way, every match is on stdout at the end, and
\* the statistics count every search that came to its end, even with --quiet,
\* which without --stats would stop at the first match.
OutputExact ==
    /\ \A r \in Results :
         /\ printed[r] <= 1
         /\ printed[r] = 1 =>
              /\ ~args.quiet \/ FilesMode
              /\ r \in Matches \/ (args.mode = "search" /\ kind[r] = "searcherr")
    /\ ~Alive /\ trouble = {} =>
         /\ ~args.quiet /\ args.mode # "hopeless" =>
              \A r \in Matches : printed[r] = 1
         /\ SearchMode /\ args.stats =>
              report = Cardinality({r \in Results : kind[r] \in {"match", "nomatch"}})

\* "A broken pipe means graceful termination" (main.rs): a reader of stdout
\* that goes away never turns the exit status into an error.
GracefulBrokenPipe == (status = 2 /\ trouble \subseteq {"BrokenPipe"}) => Faulty

\* Every run of the program ends: the print thread is not waited for in vain.
Terminates == <>~Alive
=============================================================================
