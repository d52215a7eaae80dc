---------------------------- MODULE SearchWorker ----------------------------
(***************************************************************************)
(* The search worker of crates/core/search.rs and the three printers it    *)
(* may own (crates/printer): one file is searched after the other, the     *)
(* searcher makes its calls on the printer's sink, and the printer writes  *)
(* to one writer that counts.                                              *)
(*                                                                         *)
(* The searcher's calls are nondeterministic within what the module        *)
(* LineSearch lets it do: no line after a refusal or after binary data in  *)
(* quit mode, binary data reported once, a break only between lines, a     *)
(* context line without a match only on behalf of one that comes, unless   *)
(* every line is passed through.  A byte of output is a token: which file  *)
(* it is about, what it is, and a number (the call that caused it, or a    *)
(* count).                                                                 *)
(***************************************************************************)
EXTENDS Naturals, Sequences

CONSTANTS
    Configs,     \* the configurations of printer and worker considered
    Haystacks,   \* the kinds of file considered
    NumFiles,    \* how many files one worker searches
    MaxCalls     \* bound on the lines the searcher reports for one file

Detections == {"none", "quit", "convert"}
Kinds == {"Count", "CountMatches", "PathWithMatch", "PathWithoutMatch",
          "QuietWithMatch", "QuietWithoutMatch"}
Config == [printer : {"Standard", "Summary", "JSON"}, kind : Kinds,
           path : BOOLEAN, heading : BOOLEAN, separator : BOOLEAN,
           stats : BOOLEAN, granular : BOOLEAN, perMatch : BOOLEAN,
           excludeZero : BOOLEAN, contexts : BOOLEAN, passthru : BOOLEAN, breaks : BOOLEAN,
           inverted : BOOLEAN, implicit : Detections, explicit : Detections,
           pre : BOOLEAN, zip : BOOLEAN]
Haystack == [from : {"stdin", "path"}, explicit : BOOLEAN, nul : BOOLEAN,
             pre : BOOLEAN, zip : BOOLEAN]

(* A file that is named is never left because of binary data                *)
(* (BinaryDetection::from_low_args).                                        *)
ASSUME WorkerAssumption ==
    /\ Configs \subseteq Config /\ Haystacks \subseteq Haystack
    /\ \A c \in Configs : c.explicit # "quit"
    /\ NumFiles \in Nat \ {0} /\ MaxCalls \in Nat

VARIABLES
    cfg, files,  \* the configuration and the files of this behaviour
    current,     \* the file being searched, or the next one
    phase,       \* how far its search has come
    detection,   \* the searcher's binary detection
    refused,     \* the sink has answered false
    seenBinary,  \* the searcher has met binary data in this file
    owed,        \* what the searcher still has to report: a line, a match
    told,        \* what it has reported so far, and found
    sink,        \* the sink: match_count, binary_byte_offset, begin_printed, stats
    out,         \* everything written so far
    count,       \* CounterWriter: written since the last reset ...
    total,       \* ... and before it
    results      \* what the worker has returned for the files so far

input == <<cfg, files>>
searcherVars == <<refused, seenBinary, owed, told>>
writerVars == <<out, count, total>>
vars == <<input, current, phase, detection, searcherVars, sink, writerVars, results>>

NoStats == [searches |-> 0, withMatch |-> 0, printed |-> 0, lines |-> 0, matches |-> 0]
NewSink == [matches |-> 0, binary |-> FALSE, begun |-> FALSE, stats |-> NoStats]
NothingTold == [lines |-> 0, calls |-> 0, found |-> 0, matched |-> 0, matches |-> 0]
NoResult == [error |-> TRUE, hasMatch |-> FALSE, stats |-> NoStats,
             told |-> NothingTold, refused |-> FALSE, binary |-> FALSE,
             detection |-> "none"]

----------------------------------------------------------------------------
(* The writer *)

Token(what, n) == [file |-> current, what |-> what, n |-> n]
Write(tokens) ==
    /\ out' = out \o tokens
    /\ count' = count + Len(tokens)
    /\ UNCHANGED total
(* Mutant: what was written is forgotten with the search. *)
ResetCountForgets ==
    /\ UNCHANGED total
    /\ count' = 0

ResetCount ==
    /\ total' = total + count
    /\ count' = 0

OneIf(condition, token) == IF condition THEN <<token>> ELSE <<>>

----------------------------------------------------------------------------
(* What the printers keep and write.  They test what the command line and  *)
(* the file decided.                                                       *)

RequiresPath == cfg.kind \in {"PathWithMatch", "PathWithoutMatch"}
RequiresStats == cfg.kind = "CountMatches"
QuitEarly == cfg.kind \in {"PathWithMatch", "QuietWithMatch"}
HasStats ==
    CASE cfg.printer = "Standard" -> cfg.stats
      [] cfg.printer = "Summary" -> cfg.stats \/ RequiresStats
      [] cfg.printer = "JSON" -> TRUE
(* Mutant: statistics do not ask for the single matches. *)
NeedsMatchGranularityNoStats == cfg.granular \/ cfg.perMatch

NeedsMatchGranularity == cfg.granular \/ cfg.perMatch \/ cfg.stats

Recorded(m) == IF NeedsMatchGranularity THEN m ELSE 0

(* Mutant: asks whether anything was ever written. *)
SearchPreludeEver ==
    IF total + count > 0 THEN <<>>
    ELSE OneIf(cfg.separator /\ total + count > 0, Token("separator", 0))
            \o OneIf(cfg.heading /\ cfg.path, Token("heading", 0))

SearchPrelude ==
    IF count > 0 THEN <<>>
    ELSE OneIf(cfg.separator /\ total + count > 0, Token("separator", 0))
            \o OneIf(cfg.heading /\ cfg.path, Token("heading", 0))

SinkLine(what, recorded) ==
    SearchPrelude \o
    [k \in 1..(IF recorded > 0 /\ cfg.perMatch THEN recorded ELSE 1)
        |-> Token(what, told.calls + 1)]

Suppressed == detection = "convert" /\ sink.binary

(* Mutant: takes the first match for the beginning. *)
BeginMessageFirstMatch == OneIf(sink.matches = 0, Token("begin", 0))

BeginMessage == OneIf(~sink.begun, Token("begin", 0))

SummaryLine(matches) ==
    LET counted(n) == OneIf(cfg.path, Token("path", 0)) \o <<Token("count", n)>>
    IN  CASE cfg.kind = "Count" ->
                IF cfg.excludeZero /\ matches = 0 THEN <<>> ELSE counted(matches)
          [] cfg.kind = "CountMatches" ->
                IF cfg.excludeZero /\ matches = 0 THEN <<>>
                ELSE counted(sink.stats.matches)
          [] cfg.kind = "PathWithMatch" -> OneIf(matches > 0, Token("path", 0))
          [] cfg.kind = "PathWithoutMatch" -> OneIf(matches = 0, Token("path", 0))
          [] OTHER -> <<>>

HasMatch(s) ==
    IF cfg.printer = "Summary" /\ cfg.kind \in {"PathWithoutMatch", "QuietWithoutMatch"}
    THEN s.matches = 0
    ELSE s.matches > 0

(* The statistics with a line more and the matches counted in it. *)
WithLine(stats, m) == [stats EXCEPT !.matches = @ + m, !.lines = @ + 1]

Finished(s, printed) ==
    [s EXCEPT !.stats.searches = @ + 1,
              !.stats.withMatch = @ + (IF s.matches > 0 THEN 1 ELSE 0),
              !.stats.printed = @ + printed]

----------------------------------------------------------------------------
(* SearchWorker::search *)

File == files[current]
(* Mutant: the first file decides for all. *)
DetectionStale(haystack) ==
    IF current > 1 THEN detection
    ELSE IF haystack.explicit THEN cfg.explicit ELSE cfg.implicit

Detection(haystack) == IF haystack.explicit THEN cfg.explicit ELSE cfg.implicit

FromChild(haystack) ==
    haystack.from = "path" /\ ((cfg.pre /\ haystack.pre) \/ (cfg.zip /\ haystack.zip))

Init ==
    /\ cfg \in Configs
    /\ files \in [1..NumFiles -> Haystacks]
    /\ current = 1 /\ phase = "idle"
    /\ detection = "none"
    /\ refused = FALSE /\ seenBinary = FALSE /\ owed = "nothing" /\ told = NothingTold
    /\ sink = NewSink
    /\ out = <<>> /\ count = 0 /\ total = 0
    /\ results = <<>>

(* The source is opened: stdin always is, a file, a preprocessor or a        *)
(* decompressor may fail.  The sink is new for every search.                 *)
Search ==
    /\ phase = "idle" /\ current <= NumFiles
    /\ detection' = Detection(File)
    /\ phase' = "begin"
    /\ sink' = NewSink
    /\ refused' = FALSE /\ seenBinary' = FALSE
    /\ owed' = "nothing" /\ told' = NothingTold
    /\ UNCHANGED <<input, current, writerVars, results>>

OpenFails ==
    /\ phase = "begin" /\ File.from = "path"
    /\ phase' = "idle" /\ current' = current + 1
    /\ results' = Append(results, NoResult)
    /\ UNCHANGED <<input, detection, searcherVars, sink, writerVars>>

(* Sink::begin of the three printers. *)
Begin ==
    /\ phase = "begin"
    /\ phase' = "search"
    /\ ResetCount
    /\ UNCHANGED <<input, current, detection, searcherVars, sink, out, results>>

----------------------------------------------------------------------------
(* Calls of the searcher *)

MayReport ==
    /\ phase = "search" /\ ~refused
    /\ ~(seenBinary /\ detection = "quit")
    /\ told.calls < MaxCalls

(* Sink::matched, for one line with m matches; an inverted search reports a  *)
(* line with none.                                                           *)
Matched(m) ==
    /\ MayReport
    /\ (m = 0) <=> cfg.inverted
    /\ owed' = "nothing"
    /\ told' = [told EXCEPT !.calls = @ + 1, !.lines = @ + 1, !.matched = @ + 1,
                            !.found = told.matched + 1, !.matches = @ + m]
    /\ CASE cfg.printer = "Standard" ->
              /\ sink' = [sink EXCEPT !.matches = @ + 1,
                    !.stats = IF HasStats THEN WithLine(@, Recorded(m)) ELSE @]
              /\ refused' = Suppressed
              /\ Write(IF Suppressed THEN <<>> ELSE SinkLine("match", Recorded(m)))
         [] cfg.printer = "Summary" ->
              /\ sink' = [sink EXCEPT !.matches = @ + 1,
                    !.stats = IF HasStats THEN WithLine(@, IF m = 0 THEN 1 ELSE m) ELSE @]
              /\ refused' = (~HasStats /\ QuitEarly)
              /\ UNCHANGED writerVars
         [] cfg.printer = "JSON" ->
              /\ sink' = [sink EXCEPT !.matches = @ + 1, !.begun = TRUE,
                                      !.stats = WithLine(@, m)]
              /\ Write(BeginMessage \o <<Token("match", told.calls + 1)>>)
              /\ UNCHANGED refused
    /\ UNCHANGED <<input, current, phase, detection, seenBinary, results>>

(* Sink::context; the lines around the matches of an inverted search have    *)
(* matches themselves.  A line before the first match is there because the   *)
(* searcher has found that one, and tells it next if the line is not refused.*)
(* The summary printer keeps the trait's empty default.                      *)
Context(m) ==
    /\ MayReport
    /\ cfg.contexts \/ cfg.passthru
    /\ (m > 0) <=> cfg.inverted
    /\ owed' = IF told.matched = 0 /\ ~cfg.passthru THEN "match" ELSE "nothing"
    /\ told' = [told EXCEPT !.calls = @ + 1,
                            !.found = IF owed' = "match" THEN 1 ELSE @]
    /\ CASE cfg.printer = "Standard" ->
              /\ refused' = Suppressed
              /\ Write(IF Suppressed THEN <<>> ELSE SinkLine("context", Recorded(m)))
              /\ UNCHANGED sink
         [] cfg.printer = "Summary" -> UNCHANGED <<refused, sink, writerVars>>
         [] cfg.printer = "JSON" ->
              /\ sink' = [sink EXCEPT !.begun = TRUE]
              /\ Write(BeginMessage \o <<Token("context", told.calls + 1)>>)
              /\ UNCHANGED refused
    /\ UNCHANGED <<input, current, phase, detection, seenBinary, results>>

(* Sink::context_break, which only the standard printer implements. *)
ContextBreak ==
    /\ MayReport
    /\ cfg.contexts /\ ~cfg.passthru
    /\ owed = "nothing" /\ told.calls > 0
    /\ owed' = "line"
    /\ Write(OneIf(cfg.printer = "Standard" /\ cfg.breaks, Token("break", 0)))
    /\ UNCHANGED <<input, current, phase, detection, refused, seenBinary, told,
                   sink, results>>

(* Sink::binary_data; the detection comes before a line is reported, and    *)
(* never between a break and its line.                                      *)
BinaryData ==
    /\ phase = "search" /\ ~refused /\ ~seenBinary
    /\ File.nul /\ detection # "none" /\ owed # "line"
    /\ seenBinary' = TRUE
    /\ sink' = [sink EXCEPT !.binary = @ \/ cfg.printer = "Standard"]
    /\ UNCHANGED <<input, current, phase, detection, refused, owed, told,
                   writerVars, results>>

(* Reading fails in the middle of the search. *)
SearchFails ==
    /\ phase = "search"
    /\ phase' = "idle" /\ current' = current + 1
    /\ results' = Append(results, NoResult)
    /\ UNCHANGED <<input, detection, searcherVars, sink, writerVars>>

----------------------------------------------------------------------------
(* Sink::finish *)

(* Mutant: does not ask for a match. *)
BinaryMessageAlways == OneIf(sink.binary, Token("notice", 0))

BinaryMessage == OneIf(sink.binary /\ sink.matches > 0, Token("notice", 0))

FinishStandard ==
    /\ cfg.printer = "Standard"
    /\ Write(BinaryMessage)
    /\ sink' = IF HasStats THEN Finished(sink, count + Len(BinaryMessage)) ELSE sink

FinishSummary ==
    /\ cfg.printer = "Summary"
    /\ LET summed == IF HasStats THEN Finished(sink, count) ELSE sink
           found == [summed EXCEPT !.binary = seenBinary]
       IN  IF seenBinary /\ detection = "quit"
           THEN sink' = [found EXCEPT !.matches = 0] /\ UNCHANGED writerVars
           ELSE sink' = found /\ Write(SummaryLine(sink.matches))

FinishJSON ==
    /\ cfg.printer = "JSON"
    /\ sink' = [Finished(sink, count) EXCEPT !.binary = seenBinary]
    /\ Write(OneIf(sink.begun, Token("end", 0)))

Finish ==
    /\ phase = "search"
    /\ owed = "nothing" \/ refused \/ (seenBinary /\ detection = "quit")
    /\ FinishStandard \/ FinishSummary \/ FinishJSON
    /\ phase' = "close"
    /\ UNCHANGED <<input, current, detection, searcherVars, results>>

(* search_path and search_reader take their result from the sink.  A child   *)
(* that turns out to have failed when it is closed takes the result away     *)
(* although its lines have been written.                                     *)
Return ==
    /\ phase = "close"
    /\ phase' = "idle" /\ current' = current + 1
    /\ \/ results' = Append(results,
                [error |-> FALSE, hasMatch |-> HasMatch(sink), stats |-> sink.stats,
                 told |-> told, refused |-> refused, binary |-> seenBinary,
                 detection |-> detection])
       \/ /\ FromChild(File)
          /\ results' = Append(results, NoResult)
    /\ UNCHANGED <<input, detection, searcherVars, sink, writerVars>>

Done ==
    /\ phase = "idle" /\ current > NumFiles
    /\ UNCHANGED vars

Next ==
    \/ Search \/ OpenFails \/ Begin
    \/ \E m \in 0..2 : Matched(m) \/ Context(m)
    \/ ContextBreak \/ BinaryData \/ SearchFails
    \/ Finish \/ Return \/ Done

Spec == Init /\ [][Next]_vars

----------------------------------------------------------------------------
(* Properties *)

What == {"separator", "heading", "match", "context", "break", "notice", "begin",
         "end", "path", "count"}
Lines == {"match", "context"}

(* Where in the output the tokens of a file are, and those of some sorts. *)
Block(f) == {i \in DOMAIN out : out[i].file = f}
Places(f, what) == {i \in Block(f) : out[i].what \in what}

(* A file's block begins with a separator if something comes before it, then *)
(* its heading, then a line; only the notice may stand without a line.        *)
Headed(f) ==
    \E first \in Block(f) :
        LET line == first + (IF cfg.separator /\ first > 1 THEN 1 ELSE 0)
            text == line + (IF cfg.heading /\ cfg.path THEN 1 ELSE 0)
        IN  /\ \A i \in Block(f) : first <= i
            /\ Places(f, {"separator"}) = first..(line - 1)
            /\ Places(f, {"heading"}) = line..(text - 1)
            /\ text \in Places(f, Lines)

(* The lines of a file come in the searcher's order, a break follows one, and *)
(* the notice comes last.                                                     *)
Laid(f) ==
    /\ IF Places(f, Lines) = {} THEN Places(f, What \ {"notice"}) = {} ELSE Headed(f)
    /\ \A i, j \in Places(f, Lines) : i < j => out[i].n <= out[j].n
    /\ \A i \in Places(f, {"break"}) : i - 1 \in Places(f, Lines)
    /\ \A i \in Places(f, {"notice"}), j \in Block(f) : j <= i

(* The standard printer's output is readable: a file's lines stand together, *)
(* in the order the searcher found them, under one heading; files with lines *)
(* are set apart from what comes before them by one separator, which never   *)
(* comes first; a break follows a line of its file, and the notice about      *)
(* binary data comes last (write_search_prelude, CounterWriter).  And what    *)
(* this depends on: the writer's two counters together are all that was ever  *)
(* written, by whatever search, failed ones included.                         *)
StandardLayout ==
    /\ total + count = Len(out)
    /\ cfg.printer = "Standard" =>
        /\ \A i, j \in DOMAIN out : i < j => out[i].file <= out[j].file
        /\ \A f \in 1..NumFiles : Laid(f)

(* A block of messages that begins once and ends at most once, with lines in *)
(* between.                                                                  *)
Bracketed(f, closed) ==
    \E first, last \in Block(f) :
        /\ Block(f) = first..last
        /\ Places(f, {"begin"}) = {first}
        /\ Places(f, Lines) # {}
        /\ Places(f, {"end"}) = IF closed THEN {last} ELSE {}

(* The messages of the JSON printer about one file are begin, then matches   *)
(* and context, then end; there are no messages about a file of which there  *)
(* is nothing to say, and only a search that failed lacks its end, as one    *)
(* whose child fails when it is closed need not.                             *)
JSONMessages ==
    cfg.printer = "JSON" =>
        \A f \in DOMAIN results :
            Block(f) # {} => \/ Bracketed(f, TRUE)
                            \/ (results[f].error /\ Bracketed(f, FALSE))

(* The statistics of a search are what the searcher reported, also where the *)
(* printer did not show it: one search, whether it matched, the lines and    *)
(* the matches in them (Stats; the sinks add to it call by call).            *)
StatsExact ==
    HasStats =>
        \A f \in DOMAIN results :
            ~results[f].error =>
                LET s == results[f].stats
                    t == results[f].told
                IN  /\ s.searches = 1
                    /\ s.withMatch = (IF t.matched > 0 THEN 1 ELSE 0)
                    /\ s.lines = t.lines
                    /\ s.matches = IF cfg.printer = "Summary" /\ cfg.inverted
                                   THEN t.matched ELSE t.matches

(* The printer has refused a line of the context before it was told of a     *)
(* match: its search ends there.                                             *)
CutShort(r) == r.refused /\ r.told.matched = 0

(* A file the user named is not dropped because of binary data: if the       *)
(* searcher found a match in it, told or not, the worker says so.  What was  *)
(* set for the file searched before must not matter (set_binary_detection).  *)
(* The exception: after binary data the standard printer refuses the lines   *)
(* around a match as well (StandardSink::context).  If one of these comes    *)
(* before the first match, the search stops there, and the file is dropped.  *)
NamedKept(f) ==
    /\ files[f].explicit /\ ~results[f].error /\ ~CutShort(results[f])
    /\ ~(cfg.printer = "Summary" /\ cfg.kind \in {"PathWithoutMatch", "QuietWithoutMatch"})
    => (results[f].hasMatch <=> results[f].told.found > 0)

(* What tells the user that a file matched. *)
Shown(f) ==
    \E i \in Block(f) :
        \/ out[i].what \in {"match", "notice"}
        \/ (out[i].what = "count" /\ out[i].n > 0)
        \/ (out[i].what = "path" /\ RequiresPath)

Quiet == cfg.printer = "Summary" /\ cfg.kind \in {"QuietWithMatch", "QuietWithoutMatch"}

(* A file that is not listed for its binary data, whether or not it matches. *)
Filtered(binary, how) ==
    /\ cfg.printer = "Summary" /\ cfg.kind = "PathWithoutMatch"
    /\ binary /\ how = "quit"

(* The answer that decides about the exit status agrees with the output:     *)
(* unless it was told to be quiet, a worker says that a file matched exactly *)
(* when it wrote a match, a notice, a count above zero or a path about it    *)
(* (has_match of the three sinks).  The one exception is a file without a    *)
(* match whose binary data ended its search: --files-without-match counts it *)
(* and does not list it.                                                     *)
ResultShown ==
    \A f \in DOMAIN results :
        LET r == results[f]
        IN  /\ ~Quiet /\ ~r.error /\ ~Filtered(r.binary, r.detection)
                => (r.hasMatch <=> Shown(f))
            /\ NamedKept(f)
=============================================================================
