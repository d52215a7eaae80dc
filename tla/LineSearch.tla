----------------------------- MODULE LineSearch -----------------------------
(***************************************************************************)
(* The line oriented search of crates/searcher: Core (searcher/core.rs)    *)
(* driven by ReadByLine, which rolls a line buffer over the input, or by   *)
(* SliceByLine, which has all of it (searcher/glue.rs).                    *)
(*                                                                         *)
(* The unit is the line: LineBuffer hands out whole lines only (see the    *)
(* module LineBuffer), so positions, offsets and counts are numbers of     *)
(* lines.  A line is a record that says whether the pattern matches it     *)
(* and whether it holds the binary byte.  Core makes its calls of the sink *)
(* one at a time, from a plan; the sink may answer any of them with false. *)
(* The module MultiLine adds the third strategy, which shares Core.        *)
(***************************************************************************)
EXTENDS Integers, Sequences, FiniteSets, SequencesExt

CONSTANTS
    Cases,        \* the inputs, sequences of lines, and the configurations
    HeadLines     \* the lines of a slice that are inspected at once

Line == [m : BOOLEAN, bin : BOOLEAN]
NoLimit == 1000
Config == [before : Nat, after : Nat, limit : Nat, invert : BOOLEAN,
           passthru : BOOLEAN, stop_on_nonmatch : BOOLEAN,
           detection : {"none", "quit", "convert"},
           fast : BOOLEAN, slice : BOOLEAN,
           multi : BOOLEAN,        \* the matches of a slice may span lines
           terminated : BOOLEAN,   \* the last line ends in a line terminator
           refusing : BOOLEAN]     \* the sink may answer false

ASSUME CasesAssumption ==
    /\ \A x \in Cases :
         /\ x.input \in Seq(Line) /\ x.config \in Config
         \* SearcherBuilder::build
         /\ x.config.passthru => x.config.before = 0 /\ x.config.after = 0
    /\ HeadLines \in Nat

VARIABLES
    input, config,
    base, len,          \* the buffer: lines base + 1 .. base + len
    pos, absolute_byte_offset, line_number, last_line_counted,
    last_line_visited, after_context_left, has_sunk, has_matched, count,
    binary_byte_offset, \* the line of the first binary byte, or -1
    pc,                 \* where the search is
    plan,               \* the calls of sink methods it is about to make
    next, onstop,       \* where it goes after them, or after a false
    events,             \* the calls the sink has received
    refused,            \* the sink has answered false
    byte_count          \* what finish has told the sink, or -1

bufVars == <<base, len>>
ctxVars == <<last_line_visited, after_context_left, has_sunk>>
lineVars == <<line_number, last_line_counted>>
planVars == <<plan, next, onstop>>
sinkVars == <<events, refused, byte_count>>
vars == <<input, config, bufVars, pos, absolute_byte_offset, lineVars, ctxVars,
          has_matched, count, binary_byte_offset, pc, planVars, sinkVars>>

Lesser(a, b) == IF a < b THEN a ELSE b
Greater(a, b) == IF a > b THEN a ELSE b

\* The line at position p of the buffer.
At(p) == input[base + p + 1]
Matching(p) == At(p).m
HasLimit == config.limit # NoLimit
Exceeded(n) == HasLimit /\ n >= config.limit
AnyContext == config.before > 0 \/ config.after > 0
Quits == config.detection = "quit"

\* Where the line at p starts, in the unit of positions and offsets: a line,
\* or half of one where matches may begin in the middle (see MultiLine).
TextEnd == 2 * Len(input) - (IF config.terminated THEN 0 ELSE 1)
StartOf(p) == IF config.multi THEN Lesser(2 * p, TextEnd) ELSE p

InitWith(x) ==
    /\ input = x.input /\ config = x.config
    /\ base = 0
    /\ len = IF config.slice THEN Len(input) ELSE 0
    /\ pos = 0 /\ absolute_byte_offset = 0
    /\ line_number = 1 /\ last_line_counted = 0
    /\ last_line_visited = 0 /\ after_context_left = 0
    /\ has_sunk = FALSE /\ has_matched = FALSE /\ count = 0
    /\ binary_byte_offset = -1
    /\ pc = "begin"
    /\ plan = <<>> /\ next = "stop" /\ onstop = "stop"
    /\ events = <<>> /\ refused = FALSE /\ byte_count = -1

Init == \E x \in Cases : InitWith(x)

Answers == IF config.refusing THEN BOOLEAN ELSE {TRUE}

-----------------------------------------------------------------------------
(* The calls of the sink.                                                  *)

\* count_lines: the number of the line that starts at upto.
Counted(upto) ==
    IF last_line_counted >= upto THEN line_number
    ELSE line_number + (upto - last_line_counted)

Event(kind, p, q) ==
    [kind |-> kind, line |-> base + p + 1, last |-> base + q,
     number |-> Counted(p), offset |-> absolute_byte_offset + StartOf(p)]
NoLine(kind) == [kind |-> kind, line |-> 0, last |-> 0, number |-> 0, offset |-> 0]
BreakEvent == NoLine("break")
BinaryEvent == NoLine("binary")

\* sink_break_context
NeedsBreakAlways(p) == AnyContext /\ has_sunk    \* mutant: gap or no gap
NeedsBreak(p) == AnyContext /\ has_sunk /\ last_line_visited < p
Break(p) == IF NeedsBreak(p) THEN <<BreakEvent>> ELSE <<>>

\* The plan holds a kind of call, the first line and the one after the last.
\* Besides "before", "after" and "other" there are four kinds of matched lines:
\* "match", those of an inverted search, which are counted one by one, those
\* met again in the context after the last match that the limit allows, and
\* the blocks of lines that multi-line matches take.
Kinds == {"match", "inverted", "again", "block", "before", "after", "other"}
MatchKinds == {"match", "inverted", "again", "block"}

\* What is left of the after context once the line has been sunk.
LeftAfterAny(kind) ==    \* mutant: any context line is counted
    IF kind \in MatchKinds THEN config.after ELSE after_context_left - 1
LeftAfter(kind) ==
    CASE kind \in {"match", "inverted", "block"} -> config.after
      [] kind \in {"after", "again"} -> after_context_left - 1
      [] OTHER -> after_context_left

\* detect_binary, which inspects the lines of a slice before they are sunk: the
\* sink is told of the first binary byte, and the search may be over.
IsBinary == binary_byte_offset >= 0
Binary(p, q) == {i \in p .. q - 1 : At(i).bin}
Detected(p, q) ==
    config.slice /\ config.detection # "none" /\ ~IsBinary /\ Binary(p, q) # {}
Spoilt(p, q) == config.slice /\ Quits /\ (IsBinary \/ Detected(p, q))

NoticeOfQuit(p, q) ==    \* mutant: the sink hears only of quitting
    IF Detected(p, q) /\ Quits THEN <<BinaryEvent>> ELSE <<>>
Notice(p, q) == IF Detected(p, q) THEN <<BinaryEvent>> ELSE <<>>

\* sink_matched and sink_*_context
Calls(kind, p, q) ==
    LET name == IF kind \in MatchKinds THEN "match" ELSE kind
        line == IF Spoilt(p, q) THEN <<>> ELSE <<Event(name, p, q)>>
        break == IF kind \in MatchKinds /\ Spoilt(p, q) THEN <<>> ELSE Break(p)
    IN  CASE kind = "before" -> break \o Notice(p, q) \o line
          [] kind \in MatchKinds -> Notice(p, q) \o break \o line
          [] OTHER -> Notice(p, q) \o line

\* The sink receives n of the calls for the next lines and accepts them all or
\* refuses the last of them.
Sink ==
    /\ pc = "sink"
    /\ LET kind == Head(plan)[1]
           p == Head(plan)[2]
           q == Head(plan)[3]
           calls == Calls(kind, p, q)
       IN \E n \in 0 .. Len(calls), ok \in Answers :
            /\ IF ok THEN n = Len(calls) ELSE n > 0
            /\ events' = events \o SubSeq(calls, 1, n)
            /\ refused' = ~ok
            /\ binary_byte_offset' =
                  IF Detected(p, q) /\ BinaryEvent \in {calls[i] : i \in 1 .. n}
                  THEN CHOOSE i \in Binary(p, q) : \A j \in Binary(p, q) : i <= j
                  ELSE binary_byte_offset
            /\ count' = IF kind = "inverted" THEN count + 1 ELSE count
            /\ pos' = IF kind \in {"match", "again"} THEN StartOf(q) ELSE pos
            /\ IF Spoilt(p, q) \/ n < Len(calls)
               THEN UNCHANGED lineVars
               ELSE /\ line_number' = Counted(p)
                    /\ last_line_counted' = Greater(last_line_counted, p)
            /\ IF ok /\ ~Spoilt(p, q)
               THEN /\ last_line_visited' = q
                    /\ after_context_left' = LeftAfter(kind)
                    /\ has_sunk' = TRUE
                    /\ plan' = Tail(plan)
                    /\ pc' = IF plan' = <<>> THEN next ELSE "sink"
               ELSE UNCHANGED ctxVars /\ plan' = <<>> /\ pc' = onstop
    /\ UNCHANGED <<input, config, bufVars, absolute_byte_offset, has_matched,
                   next, onstop, byte_count>>

\* The search is to make the calls q, then to go on at n, or at s after a false.
PlannedOn(q, n, s) ==    \* mutant: a false is ignored
    IF q = <<>> THEN pc' = n /\ UNCHANGED planVars
    ELSE pc' = "sink" /\ plan' = q /\ next' = n /\ onstop' = n
Planned(q, n, s) ==
    IF q = <<>> THEN pc' = n /\ UNCHANGED planVars
    ELSE pc' = "sink" /\ plan' = q /\ next' = n /\ onstop' = s

-----------------------------------------------------------------------------
(* Context.                                                                *)

\* The lines from p up to q, as calls of one kind.
Span(kind, p, q) == [i \in 1 .. Greater(q - p, 0) |-> <<kind, p + i - 1, p + i>>]

\* after_context_by_line, when n matches have been counted.
AfterEndUnbounded(upto) == upto    \* mutant: the context never runs out
AfterEnd(upto) == Lesser(upto, last_line_visited + after_context_left)
AfterContext(upto, n) ==
    [i \in 1 .. Greater(AfterEnd(upto) - last_line_visited, 0) |->
        LET p == last_line_visited + i - 1
        IN  <<IF Exceeded(n) /\ Matching(p) # config.invert THEN "again"
                                                            ELSE "after", p, p + 1>>]

\* before_context_by_line, after the lines before visited have been sunk.
BeforeFromLate(upto, visited) == Greater(visited, upto - config.before + 1)
    \* mutant: off by one
BeforeFrom(upto, visited) == Greater(visited, upto - config.before)
BeforeContext(upto, visited) ==
    IF config.before = 0 THEN <<>>
    ELSE Span("before", BeforeFrom(upto, visited), upto)

-----------------------------------------------------------------------------
(* match_by_line_slow                                                      *)

SlowStops ==
    /\ pc = "slow" /\ pos < len
    /\ Exceeded(count) /\ ~config.passthru /\ after_context_left = 0
    /\ pc' = "stop"
    /\ UNCHANGED <<input, config, bufVars, pos, absolute_byte_offset, lineVars,
                   ctxVars, has_matched, count, binary_byte_offset, planVars, sinkVars>>

SlowEnds ==
    /\ pc = "slow" /\ pos = len
    /\ pc' = "more"
    /\ UNCHANGED <<input, config, bufVars, pos, absolute_byte_offset, lineVars,
                   ctxVars, has_matched, count, binary_byte_offset, planVars, sinkVars>>

\* shortest_match finds nothing once the limit is reached.
SlowSuccess == (Matching(pos) /\ ~Exceeded(count)) # config.invert

SlowPlanMatch == BeforeContext(pos, last_line_visited) \o <<<<"match", pos, pos + 1>>>>
SlowPlanMiss ==
    CASE after_context_left >= 1 -> <<<<"after", pos, pos + 1>>>>
      [] after_context_left = 0 /\ config.passthru -> <<<<"other", pos, pos + 1>>>>
      [] OTHER -> <<>>

SlowLine ==
    /\ pc = "slow" /\ pos < len
    /\ ~(Exceeded(count) /\ ~config.passthru /\ after_context_left = 0)
    /\ pos' = pos + 1
    /\ has_matched' = (has_matched \/ SlowSuccess)
    /\ count' = IF SlowSuccess THEN count + 1 ELSE count
    /\ Planned(IF SlowSuccess THEN SlowPlanMatch ELSE SlowPlanMiss,
               IF config.stop_on_nonmatch /\ ~SlowSuccess /\ has_matched
               THEN "stop" ELSE "slow",
               "stop")
    /\ UNCHANGED <<input, config, bufVars, absolute_byte_offset, lineVars,
                   ctxVars, binary_byte_offset, sinkVars>>

-----------------------------------------------------------------------------
(* match_by_line_fast                                                      *)

\* is_line_by_line_fast; config.fast says whether the matcher and the line
\* terminator allow it.
IsFast == config.fast /\ ~config.passthru
          /\ ~(config.stop_on_nonmatch /\ has_matched)

\* match_by_line
MatchByLine ==
    /\ pc = "match"
    /\ pc' = IF IsFast THEN "fast" ELSE "slow"
    /\ UNCHANGED <<input, config, bufVars, pos, absolute_byte_offset, lineVars,
                   ctxVars, has_matched, count, binary_byte_offset, planVars, sinkVars>>

SwitchToSlow == config.stop_on_nonmatch /\ has_matched

FastSwitches ==
    /\ pc = "fast" /\ pos < len /\ SwitchToSlow
    /\ pc' = "slow"
    /\ UNCHANGED <<input, config, bufVars, pos, absolute_byte_offset, lineVars,
                   ctxVars, has_matched, count, binary_byte_offset, planVars, sinkVars>>

\* find_by_line_fast: the candidates that are no matches are passed over.
Hits == IF Exceeded(count) THEN {} ELSE {p \in pos .. len - 1 : Matching(p)}
FirstHit == CHOOSE p \in Hits : \A q \in Hits : p <= q

FastMatch ==
    /\ pc = "fast" /\ pos < len /\ ~SwitchToSlow
    /\ ~config.invert /\ Hits # {}
    /\ LET p == FirstHit
       IN  /\ has_matched' = TRUE
           /\ count' = count + 1
           /\ Planned((IF AnyContext
                       THEN AfterContext(p, count + 1)
                            \o BeforeContext(p, Greater(last_line_visited, AfterEnd(p)))
                       ELSE <<>>) \o <<<<"match", p, p + 1>>>>,
                      "fast", "stop")
    /\ UNCHANGED <<input, config, bufVars, pos, absolute_byte_offset, lineVars,
                   ctxVars, binary_byte_offset, sinkVars>>

\* match_by_line_fast_invert: the lines up to the next hit are the matches,
\* as many of them as the limit allows, but one at least.
FastInverted ==
    /\ pc = "fast" /\ pos < len /\ ~SwitchToSlow
    /\ config.invert
    /\ LET end == IF Hits = {} THEN len ELSE FirstHit
           room == IF HasLimit THEN Greater(config.limit - count, 1) ELSE len
           upto == Lesser(end, pos + room)
       IN  /\ pos' = IF Hits = {} THEN len ELSE end + 1
           /\ has_matched' = (has_matched \/ pos < end)
           /\ IF pos = end THEN pc' = "fast" /\ UNCHANGED planVars
              ELSE Planned(AfterContext(pos, count)
                           \o BeforeContext(pos, Greater(last_line_visited, AfterEnd(pos)))
                           \o Span("inverted", pos, upto),
                           IF Exceeded(count + (upto - pos)) THEN "fastEnd" ELSE "fast",
                           "fastEnd")
    /\ UNCHANGED <<input, config, bufVars, absolute_byte_offset, lineVars,
                   ctxVars, count, binary_byte_offset, sinkVars>>

\* The loop is over: the context after the last match.
FastLoopEnds ==
    /\ pc = "fast"
    /\ pos = len \/ (~SwitchToSlow /\ ~config.invert /\ Hits = {})
    /\ pc' = "fastEnd"
    /\ UNCHANGED <<input, config, bufVars, pos, absolute_byte_offset, lineVars,
                   ctxVars, has_matched, count, binary_byte_offset, planVars, sinkVars>>

FastContext ==
    /\ pc = "fastEnd"
    /\ Planned(AfterContext(len, count), "fastDone", "stop")
    /\ UNCHANGED <<input, config, bufVars, pos, absolute_byte_offset, lineVars,
                   ctxVars, has_matched, count, binary_byte_offset, sinkVars>>

FastDone ==
    /\ pc = "fastDone"
    /\ IF Exceeded(count) /\ after_context_left = 0
       THEN pc' = "stop" /\ UNCHANGED pos
       ELSE pc' = "more" /\ pos' = len
    /\ UNCHANGED <<input, config, bufVars, absolute_byte_offset, lineVars,
                   ctxVars, has_matched, count, binary_byte_offset, planVars, sinkVars>>

-----------------------------------------------------------------------------
(* ReadByLine::run and SliceByLine::run                                    *)

\* A slice is inspected up to a point before it is searched.
BinaryHead == {i \in 1 .. Lesser(len, HeadLines) : input[i].bin}

Begin ==
    /\ pc = "begin"
    /\ \E ok \in Answers, heard \in Answers :
         LET found == ok /\ config.slice /\ config.detection # "none" /\ BinaryHead # {}
         IN  /\ binary_byte_offset' =
                   IF found THEN (CHOOSE i \in BinaryHead :
                                     \A j \in BinaryHead : i <= j) - 1 ELSE -1
             /\ events' = IF found THEN <<BinaryEvent>> ELSE <<>>
             /\ refused' = (~ok \/ (found /\ ~heard))
             /\ pc' = CASE ~ok \/ (found /\ (Quits \/ ~heard)) -> "finish"
                        [] ok /\ (found => ~Quits /\ heard) /\ config.slice ->
                              IF config.multi THEN "multi" ELSE "more"
                        [] ok /\ ~config.slice -> "fill"
    /\ UNCHANGED <<input, config, bufVars, pos, absolute_byte_offset, lineVars,
                   ctxVars, has_matched, count, planVars, byte_count>>

\* Core::roll: what is kept is the context before a possible match, and never
\* a line that has been visited.
Consumed ==
    IF ~AnyContext THEN len
    ELSE Greater(Greater(0, len - 1 - config.before), last_line_visited)

\* ReadByLine::fill has rolled the buffer and gets k lines more, or none at
\* the end of the input.  The sink is told of the first binary data among them
\* before any of them is searched; it may end the search, and so does a buffer
\* in which there is nothing new.  (A converted byte ends its line.)
NothingNewNever(k) == FALSE    \* mutant: the leftover context is searched again
NothingNew(k) == Consumed = 0 /\ k = 0

Refill(k) ==
    LET kept == len - Consumed
        found == config.detection # "none" /\ ~IsBinary
                   /\ \E i \in 1 .. k : input[base + len + i].bin
        over == kept + k = 0 \/ NothingNew(k)
    IN  /\ line_number' = Counted(Consumed)
        /\ absolute_byte_offset' = absolute_byte_offset + Consumed
        /\ last_line_counted' = 0 /\ last_line_visited' = 0
        /\ pos' = kept
        /\ base' = base + Consumed + (IF over THEN kept ELSE 0)
        /\ len' = IF over THEN 0 ELSE kept + k
        /\ binary_byte_offset' = IF found THEN base + len ELSE binary_byte_offset
        /\ events' = IF found THEN Append(events, BinaryEvent) ELSE events
        /\ refused' \in (IF found THEN {~a : a \in Answers} ELSE {FALSE})
        /\ pc' = IF refused' \/ over \/ (found /\ Quits) THEN "finish" ELSE "match"

Fill ==
    /\ pc = "fill"
    /\ LET rest == Len(input) - (base + len)
       IN  \E k \in (IF rest = 0 THEN {0} ELSE 1 .. rest) : Refill(k)
    /\ UNCHANGED <<input, config, after_context_left, has_sunk, has_matched, count,
                   planVars, byte_count>>

\* match_by_line returned true: the loop of run.
More ==
    /\ pc = "more"
    /\ pc' = CASE ~config.slice -> "fill"
               [] config.slice /\ pos < len -> "match"
               [] config.slice /\ pos = len -> "finish"
    /\ UNCHANGED <<input, config, bufVars, pos, absolute_byte_offset, lineVars,
                   ctxVars, has_matched, count, binary_byte_offset, planVars, sinkVars>>

\* match_by_line returned false; the reader consumes what has been searched.
Stop ==
    /\ pc = "stop"
    /\ pc' = "finish"
    /\ base' = IF config.slice THEN base ELSE base + pos
    /\ len' = IF config.slice THEN len ELSE len - pos
    /\ UNCHANGED <<input, config, pos, absolute_byte_offset, lineVars, ctxVars,
                   has_matched, count, binary_byte_offset, planVars, sinkVars>>

\* byte_count
SearchedBytesOfCore == absolute_byte_offset    \* mutant: Core's own offset
SearchedBytes ==
    IF ~config.slice THEN base
    ELSE IF IsBinary /\ StartOf(binary_byte_offset) < pos
         THEN StartOf(binary_byte_offset) ELSE pos

Finish ==
    /\ pc = "finish"
    /\ byte_count' = SearchedBytes
    /\ pc' = "done"
    /\ UNCHANGED <<input, config, bufVars, pos, absolute_byte_offset, lineVars,
                   ctxVars, has_matched, count, binary_byte_offset, planVars,
                   events, refused>>

Slow == SlowStops \/ SlowEnds \/ SlowLine
Fast == FastSwitches \/ FastMatch \/ FastInverted \/ FastLoopEnds
        \/ FastContext \/ FastDone
Run == Begin \/ Fill \/ MatchByLine \/ More \/ Stop \/ Finish

Done == pc = "done" /\ UNCHANGED vars

Next == Sink \/ Slow \/ Fast \/ Run \/ Done

SafeSpec == Init /\ [][Next]_vars
\* The search is one thread that runs on.
Spec == SafeSpec /\ WF_vars(Next)

-----------------------------------------------------------------------------
(* What the lines of an input and a configuration call for, whatever the   *)
(* strategy and however the input arrives.                                 *)

Lines == 1 .. Len(input)
Success(i) == input[i].m # config.invert
Successes(i) == {j \in 1 .. i : Success(j)}

Chosen(i) == Success(i) /\ ~Exceeded(Cardinality(Successes(i)) - 1)

\* The search may have to end at the first line that is not chosen after one
\* that is.
Ends == {i \in Lines : ~Chosen(i) /\ \E j \in 1 .. i - 1 : Chosen(j)}
Wanted == IF config.stop_on_nonmatch /\ Ends # {}
          THEN {i \in Lines : \A j \in Ends : i <= j} ELSE Lines

Selected == {i \in Wanted : Chosen(i)}

RolesOf(wanted, selected) ==
    LET After(i) == \E j \in selected : j < i /\ i <= j + config.after
        Before(i) == \E j \in selected : i < j /\ j <= i + config.before
    IN  [i \in Lines |->
            CASE i \notin wanted -> "none"
              [] i \in selected -> "match"
              [] i \in wanted \ selected /\ After(i) -> "after"
              [] i \in wanted \ selected /\ ~After(i) /\ Before(i) -> "before"
              [] OTHER -> IF config.passthru THEN "other" ELSE "none"]

\* What is expected of the first i lines: a break before a line with a role if
\* there was one before and the line just above it has none.  Joined lines
\* are shown together with the one above them.
ExpectedOf(role, joined) ==
    LET WithLine(prev, i) ==
            IF role[i] = "none" THEN prev
            ELSE IF i \in joined THEN [prev EXCEPT ![Len(prev)].last = i]
            ELSE prev \o (IF AnyContext /\ prev # <<>> /\ role[i - 1] = "none"
                          THEN <<BreakEvent>> ELSE <<>>)
                 \o <<[kind |-> role[i], line |-> i, last |-> i, number |-> i,
                       offset |-> StartOf(i - 1)]>>
    IN  FoldLeftDomain(WithLine, <<>>, input)

\* A match in the context after the last one that the limit allows may be
\* shown as what it is.
Agrees(e, x) ==
    \/ e = x
    \/ x.kind = "after" /\ Success(x.line) /\ e = [x EXCEPT !.kind = "match"]

Shown == SelectSeq(events, LAMBDA e : e.kind # "binary")

-----------------------------------------------------------------------------
(* Properties                                                              *)

\* The calls that the sink has received are the expected ones, and all of them
\* unless it has refused one or the search has ended at binary data.
Conforms(expected) ==
    LET shown == Shown
    IN  /\ Len(shown) <= Len(expected)
        /\ \A i \in 1 .. Len(shown) : Agrees(shown[i], expected[i])
        /\ pc = "done" /\ ~refused /\ ~(Quits /\ IsBinary)
              => Len(shown) = Len(expected)

\* The types; every position lies within the buffer, the offsets are those of
\* the buffer in the input, line_number is that of last_line_counted, and the
\* asserts of the code hold: fill is entered with nothing left to search, and
\* an after context line is sunk only if there is one left to show.
TypeOK ==
    /\ input \in Seq(Line) /\ config \in Config
    /\ base \in Nat /\ len \in Nat /\ base + len <= Len(input)
    /\ after_context_left \in 0 .. config.after
    /\ has_sunk \in BOOLEAN /\ has_matched \in BOOLEAN /\ count \in Nat
    /\ pc \notin {"finish", "done"} =>
          /\ {last_line_counted, last_line_visited} \subseteq 0 .. len
          /\ pos \in 0 .. StartOf(len)
          /\ absolute_byte_offset = base
          /\ line_number = base + last_line_counted + 1
    /\ binary_byte_offset \in -1 .. Len(input)
    /\ refused \in BOOLEAN /\ byte_count \in -1 .. StartOf(Len(input))
    /\ pc = "fill" => pos = len
    /\ pc = "sink" /\ Head(plan)[1] \in {"after", "again"} => after_context_left >= 1

\* Fast or slow, from a slice or through a buffer that is refilled at any
\* point: the sink receives the calls that the lines call for, with the right
\* line numbers and offsets, and all of them unless it refuses one or there is
\* binary data.
ExactEvents ==
    ~config.multi =>
        Conforms(ExpectedOf(RolesOf(Wanted, Selected), {}))

\* The sink is told of binary data once, and before it is shown any of it; if
\* the file is given up for it, that is the last the sink hears.
BinaryTold ==
    LET told == {i \in 1 .. Len(events) : events[i].kind = "binary"}
        HasBinary(e) == \E j \in e.line .. e.last : j > 0 /\ input[j].bin
    IN  /\ Cardinality(told) <= 1
        /\ config.detection # "none" =>
              \A i \in 1 .. Len(events) :
                  HasBinary(events[i]) => \E t \in told : t < i
        /\ Quits => told \subseteq {Len(events)}

\* The number of bytes that finish reports covers every match shown, and the
\* whole input if nothing has cut the search short (regression test r2944).
\* (The count for a slice ends at its first binary byte.)
BytesSearched ==
    pc = "done" /\ ~(config.slice /\ IsBinary) =>
        /\ \A i \in 1 .. Len(events) :
              events[i].kind = "match" => StartOf(events[i].last) <= byte_count
        /\ ~refused /\ ~IsBinary /\ ~HasLimit /\ ~config.stop_on_nonmatch
              => byte_count = StartOf(Len(input))

\* Every search comes to its end.
Ended == <>(pc = "done")

\* src/crates/searcher/src/sink.rs:118: "If this returns `false`, then
\* searching is stopped immediately and `finish` is called."
RefusalHonoured == [][refused => events' = events]_vars

\* The documentation of --max-count, src/crates/core/flags/defs.rs:3993-4001:
\* more matches than the limit are shown only if they are contextual lines.
LimitKept ==
    \A i \in 1 .. Len(events) : events[i].kind = "match" =>
        \/ events[i].line \in Selected
        \/ \E j \in Selected : j < events[i].line /\ events[i].line <= j + config.after
=============================================================================
