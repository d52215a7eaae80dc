----------------------------- MODULE LineFormat -----------------------------
(***************************************************************************)
(* What the standard printer writes for the lines of one match or context  *)
(* (crates/printer/src/standard.rs, util.rs), and the JSON printer says of *)
(* them (json.rs), with the iteration over matches of                      *)
(* crates/matcher/src/lib.rs.                                              *)
(*                                                                         *)
(* Offsets count from 0 and a span is [s, e) of a sequence of bytes.  The  *)
(* output is a sequence of items: preludes, notices, and bytes with the    *)
(* color they are written in.                                              *)
(***************************************************************************)
EXTENDS Integers, Sequences

LOCAL INSTANCE SequencesExt
LOCAL INSTANCE FiniteSetsExt
LOCAL INSTANCE Folds

CONSTANTS NoValue,
          MaxLookAhead    \* MAX_LOOK_AHEAD

Span(s, e) == [s |-> s, e |-> e]
At(bytes, m) == SubSeq(bytes, m.s + 1, m.e)
IsEmpty(m) == m.s = m.e
Whole(bytes) == Span(0, Len(bytes))

LineTerm(term) == IF term = "crlf" THEN <<"cr", "lf">> ELSE <<term>>
LineByte(term) == Last(LineTerm(term))
EndsLine(term, bytes) == bytes # <<>> /\ Last(bytes) = LineByte(term)

\* LineStep: the lines of the bytes, each with its terminator.
LineSpans(bytes, term) ==
    LET ends == SetToSortSeq({i \in 1 .. Len(bytes) : i = Len(bytes) \/ bytes[i] = LineByte(term)}, <)
    IN  [k \in DOMAIN ends |-> Span(IF k = 1 THEN 0 ELSE ends[k - 1], ends[k])]

TrimLineTerminator(bytes, line, term) ==
    IF ~EndsLine(term, At(bytes, line)) THEN line
    ELSE LET e == line.e - 1
         IN  Span(line.s, IF term = "crlf" /\ e > 0 /\ bytes[e] = "cr" THEN e - 1 ELSE e)
TrimAsciiPrefix(bytes, line, term) ==
    LET stays == {i \in line.s .. line.e - 1 :
                     bytes[i + 1] \notin {" ", "cr", "lf"} \ ToSet(LineTerm(term))}
    IN  Span(IF stays = {} THEN line.e ELSE Min(stays), line.e)

-----------------------------------------------------------------------------
(* Matches: find_at of the engines, and the iteration over it.             *)

\* A pattern matches its text, as often as it follows itself if it repeats,
\* where what is ahead of it comes next.
IsAt(text, bytes, i) ==
    i + Len(text) <= Len(bytes) /\ SubSeq(bytes, i + 1, i + Len(text)) = text
RECURSIVE EndsAt(_, _, _)
EndsAt(p, bytes, i) ==
    CASE p.repeats /\ IsAt(p.text, bytes, i) -> EndsAt(p, bytes, i + Len(p.text))
      [] p.repeats /\ ~IsAt(p.text, bytes, i) -> {i}
      [] OTHER -> IF IsAt(p.text, bytes, i) THEN {i + Len(p.text)} ELSE {}
MatchAt(p, bytes, i) ==
    {Span(i, e) : e \in {x \in EndsAt(p, bytes, i) : IsAt(p.ahead, bytes, x)}}
FindAt(p, bytes, at) ==
    LET starts == {i \in at .. Len(bytes) : MatchAt(p, bytes, i) # {}}
    IN  IF starts = {} THEN {} ELSE MatchAt(p, bytes, Min(starts))

\* try_find_iter_at: an empty match is not reported right after a match.
FindIterStep(p, bytes, it) ==
    LET found == IF it.at > Len(bytes) THEN {} ELSE FindAt(p, bytes, it.at)
    IN  IF found = {} THEN it
        ELSE LET m == CHOOSE x \in found : TRUE
                 next == [it EXCEPT !.at = IF IsEmpty(m) THEN m.e + 1 ELSE m.e]
             IN  IF IsEmpty(m) /\ m.e = it.last THEN next
                 ELSE [next EXCEPT !.last = m.e, !.matches = Append(@, m)]
FindIterAt(p, bytes, at) ==
    FoldLeft(LAMBDA it, i : FindIterStep(p, bytes, it),
             [at |-> at, last |-> NoValue, matches |-> <<>>],
             [i \in 1 .. Len(bytes) + 2 |-> i]).matches

\* find_iter_at_in_context: over several lines the matcher may look beyond
\* them, in one line it does not see the terminator.
WithoutLookAhead(bytes, range, term, multi) ==    \* mutant: only the range is searched
    At(bytes, Span(0, IF multi THEN range.e ELSE TrimLineTerminator(bytes, Span(0, range.e), term).e))
Haystack(bytes, range, term, multi) ==
    At(bytes, Span(0, IF multi THEN Min({range.e + MaxLookAhead, Len(bytes)})
                      ELSE TrimLineTerminator(bytes, Span(0, range.e), term).e))
MatchesIn(p, bytes, range, term, multi) ==
    SelectSeq(FindIterAt(p, Haystack(bytes, range, term, multi), range.s), LAMBDA m : m.s < range.e)

\* record_matches: the offsets are made relative to the range, and an empty
\* match at the end is dropped.
Relative(ms, range) == [i \in DOMAIN ms |-> Span(ms[i].s - range.s, ms[i].e - range.s)]
NoneAtEnd(ms, end) ==
    IF ms # <<>> /\ IsEmpty(Last(ms)) /\ Last(ms).s >= end THEN Front(ms) ELSE ms
RecordMatches(p, bytes, range, term, multi) ==
    NoneAtEnd(Relative(MatchesIn(p, bytes, range, term, multi), range), range.e)

\* Replacer::replace_all, where every match is replaced by the same text.
ReplaceEach(haystack, ms, start, replacement) ==
    LET step(r, m) == [dst |-> r.dst \o At(haystack, Span(r.last, m.s)) \o replacement, last |-> m.e,
                       matches |-> LET s == Len(r.dst) + m.s - r.last
                                   IN  Append(r.matches, Span(s, s + Len(replacement)))]
    IN  FoldLeft(step, [dst |-> <<>>, last |-> start, matches |-> <<>>], ms)
WithRest(r, haystack, range, kept) ==
    LET end == IF r.last > range.e THEN Len(haystack) ELSE Min({Len(haystack), range.e})
    IN  [bytes |-> r.dst \o At(haystack, Span(r.last, end)) \o kept, matches |-> r.matches]
ReplaceMatches(p, bytes, range, term, multi, replacement) ==
    LET haystack == Haystack(bytes, range, term, multi)
        ms == MatchesIn(p, bytes, range, term, multi)
        kept == IF multi THEN <<>>
                ELSE At(bytes, Span(TrimLineTerminator(bytes, Span(0, range.e), term).e, range.e))
    IN  WithRest(ReplaceEach(haystack, ms, range.s, replacement), haystack, range, kept)

\* A match is looked for in the searcher's buffer, a context line by itself.
Searched(bytes, range, context) ==
    IF context THEN [bytes |-> At(bytes, range), range |-> Span(0, range.e - range.s)]
               ELSE [bytes |-> bytes, range |-> range]

\* Sunk: the lines as they are printed.  Where the search is inverted it is the
\* context that matches.  A replacement without a match is none.
NeedsMatchGranularity(config) ==
    config.color \/ config.column \/ config.replacement # NoValue
        \/ config.per_match \/ config.only_matching
Sunk(config, search, context, lines, original, replaced) ==
    LET shown == IF replaced.matches # <<>> THEN replaced
                 ELSE [bytes |-> lines, matches |-> original]
    IN  [config |-> config, term |-> search.term, multi |-> search.multi, context |-> context,
         bytes |-> shown.bytes, matches |-> shown.matches, original |-> Len(original)]
SunkLines(config, search, p, bytes, range, context) ==
    LET asked == ~context \/ search.invert
        in == Searched(bytes, range, context)
    IN  Sunk(config, search, context, At(bytes, range),
             IF asked /\ NeedsMatchGranularity(config)
             THEN RecordMatches(p, in.bytes, in.range, search.term, search.multi) ELSE <<>>,
             IF asked /\ config.replacement # NoValue
             THEN ReplaceMatches(p, in.bytes, in.range, search.term, search.multi, config.replacement)
             ELSE [matches |-> <<>>])

-----------------------------------------------------------------------------
(* The writer, with the color it is set to.                                *)

NoOutput == [items |-> <<>>, style |-> "none", in_match |-> FALSE]
Item(out, item) == [out EXCEPT !.items = Append(@, item)]
Write(out, bytes) ==
    [out EXCEPT !.items = @ \o [i \in DOMAIN bytes |-> [k |-> "byte", b |-> bytes[i], style |-> out.style]]]
SetColor(x, out, style) == IF x.config.color THEN [out EXCEPT !.style = style] ELSE out
WriteLineTerm(x, out) == Write(out, LineTerm(x.term))
WriteSpec(x, out, bytes) == SetColor(x, Write(SetColor(x, out, "match"), bytes), "none")

HighlightOn(x) == x.config.highlight /\ ~x.context
StartLineHighlight(x, out) == IF HighlightOn(x) THEN SetColor(x, out, "highlight") ELSE out
EndLineHighlight(x, out) == IF HighlightOn(x) THEN SetColor(x, out, "none") ELSE out
StartColorMatch(x, out) ==
    IF out.in_match THEN out ELSE [SetColor(x, out, "match") EXCEPT !.in_match = TRUE]
EndColorMatchKept(x, out) == [out EXCEPT !.in_match = FALSE]    \* mutant: the color stays
EndColorMatch(x, out) ==
    IF ~out.in_match THEN out
    ELSE [SetColor(x, out, IF HighlightOn(x) THEN "highlight" ELSE "none") EXCEPT !.in_match = FALSE]

\* The fields before a line, each with the separator that follows it.
Cell(x, field, value) ==
    [field |-> field, value |-> value,
     sep |-> IF field = "path" /\ x.config.path_terminator THEN "path"
             ELSE IF x.context THEN "context" ELSE "match"]
Prelude(x, nth, column, offset) ==
    [k |-> "prelude",
     cells |-> (IF x.config.heading THEN <<>> ELSE <<Cell(x, "path", 0)>>)
               \o (IF x.config.line_number THEN <<Cell(x, "line", nth)>> ELSE <<>>)
               \o (IF x.config.column /\ column # NoValue THEN <<Cell(x, "column", column)>> ELSE <<>>)
               \o (IF x.config.byte_offset THEN <<Cell(x, "offset", offset)>> ELSE <<>>)]

ExceedsMaxColumns(x, bytes) == x.config.max_columns # NoValue /\ Len(bytes) > x.config.max_columns

-----------------------------------------------------------------------------
(* write_colored_matches, write_exceeded_line, write_line                  *)

\* The rest of the line, with matches[midx] the match that is next or goes on;
\* the index is kept for the lines that follow.
RECURSIVE ColorRest(_, _, _, _, _, _)
ColorRest(x, out, bytes, line, matches, midx) ==
    LET m == matches[midx]
        upto(e) == Min({line.e, e})
        rest(e) == Span(upto(e), line.e)
    IN  CASE IsEmpty(line) -> [out |-> out, midx |-> midx]
          [] ~IsEmpty(line) /\ m.e <= line.s ->
                IF midx < Len(matches) THEN ColorRest(x, out, bytes, line, matches, midx + 1)
                ELSE [out |-> Write(EndColorMatch(x, out), At(bytes, line)), midx |-> midx]
          [] ~IsEmpty(line) /\ m.e > line.s /\ line.s < m.s ->
                ColorRest(x, Write(EndColorMatch(x, out), At(bytes, Span(line.s, upto(m.s)))),
                          bytes, rest(m.s), matches, midx)
          [] OTHER ->
                ColorRest(x, Write(StartColorMatch(x, out), At(bytes, Span(line.s, upto(m.e)))),
                          bytes, rest(m.e), matches, midx)

WriteColoredMatches(x, out, bytes, line, matches, midx) ==
    LET trimmed == TrimLineTerminator(bytes, line, x.term)
    IN  IF matches = <<>> THEN [out |-> Write(out, At(bytes, trimmed)), midx |-> midx]
        ELSE LET w == ColorRest(x, StartLineHighlight(x, out), bytes, trimmed, matches, midx)
             IN  [w EXCEPT !.out = EndLineHighlight(x, EndColorMatch(x, @))]

OmittedNotice(x) ==
    IF x.original = 0 \/ x.config.only_matching
    THEN IF x.context THEN [k |-> "omitted context"] ELSE [k |-> "omitted match"]
    ELSE [k |-> "omitted matches", n |-> x.original]
WriteExceededLine(x, out, bytes, line, matches, midx) ==
    LET cut == Span(line.s, line.s + Min({x.config.max_columns, line.e - line.s}))
        w == WriteColoredMatches(x, out, bytes, cut, matches, midx)
        more == {i \in DOMAIN matches : matches[i].s >= cut.e /\ matches[i].s < line.e}
        notice == IF matches = <<>> THEN [k |-> "omitted end"]
                                    ELSE [k |-> "more", n |-> Cardinality(more)]
    IN  IF x.config.max_columns_preview
        THEN [w EXCEPT !.out = WriteLineTerm(x, Item(@, notice))]
        ELSE [out |-> WriteLineTerm(x, Item(out, OmittedNotice(x))), midx |-> midx]

Trimmed(x, bytes, line) ==
    IF x.config.trim_ascii THEN TrimAsciiPrefix(bytes, line, x.term) ELSE line

WriteLine(x, out, bytes) ==
    LET line == At(bytes, Trimmed(x, bytes, Whole(bytes)))
    IN  IF ExceedsMaxColumns(x, line)
        THEN WriteExceededLine(x, out, line, Whole(line), x.matches, 1).out
        ELSE IF EndsLine(x.term, line) THEN Write(out, line) ELSE WriteLineTerm(x, Write(out, line))

WriteColoredLine(x, out, matches, bytes) ==
    LET line == Trimmed(x, bytes, Whole(bytes))
    IN  IF ~x.config.color THEN WriteLine(x, out, bytes)
        ELSE IF ExceedsMaxColumns(x, bytes)
        THEN WriteExceededLine(x, out, bytes, line, matches, 1).out
        ELSE WriteLineTerm(x, WriteColoredMatches(x, out, bytes, line, matches, 1).out)

-----------------------------------------------------------------------------
(* StandardImpl::sink                                                      *)

SinkFast(x) == WriteLine(x, Item(NoOutput, Prelude(x, 0, NoValue, 0)), x.bytes)

SinkFastMultiLine(x) ==
    LET lines == LineSpans(x.bytes, x.term)
    IN  FoldLeft(LAMBDA out, i : WriteLine(x, Item(out, Prelude(x, i - 1, NoValue, lines[i].s)),
                                           At(x.bytes, lines[i])),
                 NoOutput, [i \in DOMAIN lines |-> i])

SinkSlow(x) ==
    LET each(out, m) == Item(out, Prelude(x, 0, m.s + 1, m.s))
        only(out, m) == LET buf == At(x.bytes, m)
                        IN  WriteColoredLine(x, each(out, m), <<Whole(buf)>>, buf)
        one(out, m) == WriteColoredLine(x, each(out, m), <<m>>, x.bytes)
    IN  IF x.config.only_matching THEN FoldLeft(only, NoOutput, x.matches)
        ELSE IF x.config.per_match THEN FoldLeft(one, NoOutput, x.matches)
        ELSE WriteColoredLine(x, Item(NoOutput, Prelude(x, 0, x.matches[1].s + 1, 0)),
                              x.matches, x.bytes)

SinkSlowLines(x) ==
    LET step(w, line) ==
            LET out == Item(w.out, Prelude(x, w.count, x.matches[1].s + 1, line.s))
                part == Trimmed(x, x.bytes, line)
                next == IF ExceedsMaxColumns(x, At(x.bytes, part))
                        THEN WriteExceededLine(x, out, x.bytes, part, x.matches, w.midx)
                        ELSE LET c == WriteColoredMatches(x, out, x.bytes, part, x.matches, w.midx)
                             IN  [c EXCEPT !.out = WriteLineTerm(x, @)]
            IN  [out |-> next.out, midx |-> next.midx, count |-> w.count + 1]
    IN  FoldLeft(step, [out |-> NoOutput, midx |-> 1, count |-> 0], LineSpans(x.bytes, x.term)).out

\* The parts of matches in what is left of a line, each on a line of its own.
RECURSIVE OnlyRest(_, _, _)
OnlyRest(x, w, line) ==
    LET m == x.matches[w.midx]
        upto(e) == Min({line.e, e})
        part == Span(line.s, upto(m.e))
        out == Item(w.out, Prelude(x, w.count, m.s + 1, m.s))
        next == IF ExceedsMaxColumns(x, At(x.bytes, part))
                THEN WriteExceededLine(x, out, x.bytes, part, x.matches, w.midx)
                ELSE [out |-> WriteLineTerm(x, WriteSpec(x, out, At(x.bytes, part))), midx |-> w.midx]
    IN  CASE IsEmpty(line) -> w
          [] ~IsEmpty(line) /\ m.e <= line.s ->
                IF w.midx < Len(x.matches) THEN OnlyRest(x, [w EXCEPT !.midx = @ + 1], line) ELSE w
          [] ~IsEmpty(line) /\ m.e > line.s /\ line.s < m.s ->
                OnlyRest(x, w, Span(upto(m.s), line.e))
          [] OTHER -> OnlyRest(x, [w EXCEPT !.out = next.out, !.midx = next.midx],
                               Span(upto(m.e), line.e))
SinkSlowMultiLineOnlyMatching(x) ==
    LET step(w, line) ==
            [OnlyRest(x, w, Trimmed(x, x.bytes, TrimLineTerminator(x.bytes, line, x.term)))
                EXCEPT !.count = @ + 1]
    IN  FoldLeft(step, [out |-> NoOutput, midx |-> 1, count |-> 0], LineSpans(x.bytes, x.term)).out

\* The lines of one match, with what is before and after the match in them.
PerMatchLine(x, out, m, line) ==
    LET before == Span(line.s, Min({line.e, m.s}))
        within == Span(Max({line.s, m.s}), Min({line.e, m.e}))
        after == Span(Max({line.s, m.e}), line.e)
        put(o, part) == IF part.s < part.e THEN Write(o, At(x.bytes, part)) ELSE o
        colored(o) == IF within.s < within.e THEN WriteSpec(x, o, At(x.bytes, within)) ELSE o
    IN  WriteLineTerm(x, put(colored(put(out, before)), after))
SinkSlowMultiPerMatch(x) ==
    LET lines == LineSpans(x.bytes, x.term)
        of(m) == SelectSeq([i \in DOMAIN lines |-> i], LAMBDA i : lines[i].s < m.e /\ lines[i].e > m.s)
        shown(m) == IF x.config.per_match_one_line /\ Len(of(m)) > 1 THEN <<of(m)[1]>> ELSE of(m)
        step(m, out, i) ==
            LET line == lines[i]
                column == IF m.s > line.s THEN m.s - line.s + 1 ELSE 1
                start == Item(out, Prelude(x, i - 1, column, line.s))
                part == Trimmed(x, x.bytes, TrimLineTerminator(x.bytes, line, x.term))
            IN  IF ExceedsMaxColumns(x, At(x.bytes, part))
                THEN WriteExceededLine(x, start, x.bytes, part, <<m>>, 1).out
                ELSE PerMatchLine(x, start, m, part)
    IN  FoldLeft(LAMBDA out, m : FoldLeft(LAMBDA o, i : step(m, o, i), out, shown(m)),
                 NoOutput, x.matches)

SinkSlowMultiLine(x) ==
    IF x.config.only_matching THEN SinkSlowMultiLineOnlyMatching(x)
    ELSE IF x.config.per_match THEN SinkSlowMultiPerMatch(x)
    ELSE SinkSlowLines(x)

Sink(x) ==
    IF x.multi /\ ~x.context
    THEN IF x.matches = <<>> THEN SinkFastMultiLine(x) ELSE SinkSlowMultiLine(x)
    ELSE IF x.matches = <<>> THEN SinkFast(x) ELSE SinkSlow(x)

-----------------------------------------------------------------------------
(* The JSON printer's message for the same lines                           *)

JSONRecordMatches(p, bytes, range, term, multi) ==
    NoneAtEnd(Relative(MatchesIn(p, bytes, range, term, multi), range), Len(bytes))
Replacement(r) == IF r.matches = <<>> THEN NoValue ELSE r
SubMatches(bytes, matches, replaced) ==
    [i \in DOMAIN matches |->
        [m |-> At(bytes, matches[i]), start |-> matches[i].s, end |-> matches[i].e,
         replacement |-> IF replaced = NoValue THEN NoValue ELSE At(replaced.bytes, replaced.matches[i])]]
JSONMessage(replacement, search, p, bytes, range, context) ==
    LET in == Searched(bytes, range, context)
        matches == JSONRecordMatches(p, in.bytes, in.range, search.term, search.multi)
        replaced == IF replacement = NoValue THEN NoValue
                    ELSE Replacement(ReplaceMatches(p, in.bytes, in.range, search.term,
                                                    search.multi, replacement))
    IN  [lines |-> At(bytes, range), context |-> context,
         submatches |-> IF context /\ ~search.invert THEN <<>>
                        ELSE SubMatches(At(bytes, range), matches, replaced)]
=============================================================================
