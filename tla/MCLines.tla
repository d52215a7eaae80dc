------------------------------ MODULE MCLines ------------------------------
(***************************************************************************)
(* Blocks of lines for LineFormat and what is to be printed of them, said  *)
(* byte by byte.                                                           *)
(***************************************************************************)
EXTENDS LineFormat

LOCAL INSTANCE SequencesExt
LOCAL INSTANCE FiniteSetsExt

Pattern(text, repeats, ahead) == [text |-> text, repeats |-> repeats, ahead |-> ahead]
LinePatterns == {Pattern(<<"a">>, FALSE, <<>>), Pattern(<<"a">>, TRUE, <<>>),
                 Pattern(<<"a">>, FALSE, <<"a">>), Pattern(<<" ">>, FALSE, <<>>)}
BlockPatterns == {Pattern(<<"a", "lf">>, FALSE, <<>>), Pattern(<<"lf", "a">>, FALSE, <<>>),
                  Pattern(<<"a">>, FALSE, <<"lf", "b">>), Pattern(<<"lf">>, TRUE, <<>>),
                  Pattern(<<"a", "lf", "a">>, FALSE, <<>>)}

LineTexts == UNION {[1 .. n -> {"a", "b", " "}] : n \in 0 .. 3}
\* bound: the block has two lines and what follows it at most two bytes.
BlockTexts == {a \o <<"lf">> \o b \o c : a \in {<<>>, <<"a">>, <<" ", "a">>, <<"b", "a">>, <<"a", "a">>},
                                         b \in {<<>>, <<"a">>, <<"b">>, <<"b", "a">>, <<"a", " ">>},
                                         c \in {<<>>, <<"lf">>, <<"lf", "b">>, <<"lf", "a">>}}

Search(term, multi, invert) == [term |-> term, multi |-> multi, invert |-> invert]
Subject(bytes, range, p, search, context) ==
    [bytes |-> bytes, range |-> range, pattern |-> p, search |-> search, context |-> context]

\* A line of a file, with the line before it; it is context in an inverted
\* search if it matches.
Single(before, text, end, p, term, context, invert) ==
    Subject(before \o text \o end, Span(Len(before), Len(before) + Len(text) + Len(end)),
            p, Search(term, FALSE, invert), context)

\* Whole lines that no match leaves and each of which has a part of a match.
IsBlock(ms, lines, range) ==
    /\ \A i \in DOMAIN ms : ms[i].s >= range.e \/ ms[i].e <= range.s
                            \/ (ms[i].s >= range.s /\ ms[i].e <= range.e)
    /\ \A k \in DOMAIN lines : lines[k].s >= range.s /\ lines[k].e <= range.e =>
          \E i \in DOMAIN ms : ms[i].s < lines[k].e /\ ms[i].e > lines[k].s
BlocksOf(ms, lines) ==
    {r \in {Span(lines[i].s, lines[j].e) : i \in DOMAIN lines, j \in DOMAIN lines} :
        r.s < r.e /\ IsBlock(ms, lines, r)}
Blocks(p, bytes) == BlocksOf(FindIterAt(p, bytes, 0), LineSpans(bytes, "lf"))

Modes == {"lines", "only", "each", "first"}
Config(mode, max, preview, trim, color, highlight, replacement) ==
    [only_matching |-> mode = "only", per_match |-> mode \in {"each", "first"},
     per_match_one_line |-> mode = "first", max_columns |-> max, max_columns_preview |-> preview,
     trim_ascii |-> trim, color |-> color, highlight |-> highlight, replacement |-> replacement,
     column |-> color \/ max = 1, heading |-> trim, path_terminator |-> preview, line_number |-> ~highlight,
     byte_offset |-> TRUE]
Configs ==
    {Config(m, x, FALSE, t, c, FALSE, NoValue) : m \in Modes, x \in {NoValue, 2}, t \in BOOLEAN, c \in BOOLEAN}
    \cup {Config(m, NoValue, FALSE, FALSE, TRUE, TRUE, r) : m \in Modes, r \in {NoValue, <<"x", "x">>, <<>>}}
    \cup {Config(m, 1, TRUE, FALSE, c, FALSE, NoValue) : m \in Modes, c \in BOOLEAN}

-----------------------------------------------------------------------------
(* What is to be printed                                                   *)

\* The matches that begin in the range, found with all that follows it in
\* view, and the text with each of them replaced.
ToRecord(s) ==
    LET single == TrimLineTerminator(s.bytes, s.range, s.search.term)
        text == IF s.search.multi THEN s.bytes ELSE At(s.bytes, single)
        base == IF s.search.multi THEN s.range ELSE Span(0, 0)
    IN  SelectSeq(Relative(FindIterAt(s.pattern, text, base.s), base),
                  LAMBDA m : m.s < s.range.e - s.range.s)
ToReplace(s, ms, replacement) ==
    LET text == At(s.bytes, s.range)
        starts(i) == \E k \in DOMAIN ms : ms[k].s = i
        covered(i) == \E k \in DOMAIN ms : ms[k].s <= i /\ i < ms[k].e
    IN  FlattenSeq([j \in 1 .. Len(text) + 1 |->
            (IF starts(j - 1) THEN replacement ELSE <<>>)
            \o (IF j <= Len(text) /\ ~covered(j - 1) THEN <<text[j]>> ELSE <<>>)])

Piece(nth, column, offset, span, whole, marked) ==
    [nth |-> nth, column |-> column, offset |-> offset, span |-> span, whole |-> whole, marked |-> marked]
Met(m, l) == m.s < l.e /\ m.e > l.s
Common(m, l) == Span(Max({m.s, l.s}), Min({m.e, l.e}))

\* The pieces of output, each with the part of the text it shows and the
\* matches that are marked in it.
ToPrint(x) ==
    LET lines == IF x.multi /\ ~x.context THEN LineSpans(x.bytes, x.term) ELSE <<Whole(x.bytes)>>
        ms == x.matches
        shown(l) == Trimmed(x, x.bytes, TrimLineTerminator(x.bytes, l, x.term))
        all == 1 .. Len(ms)
        column == IF ms = <<>> THEN NoValue ELSE ms[1].s + 1
        many == x.multi /\ ~x.context
        whole(i) == Piece(i - 1, column, lines[i].s, shown(lines[i]), lines[i], ToSet(ms))
        only(i, m) == LET part == IF many THEN Common(m, shown(lines[i])) ELSE m
                      IN  Piece(i - 1, m.s + 1, m.s, IF many THEN part ELSE Trimmed(x, x.bytes, m), part, {m})
        each(i, m) == Piece(i - 1, IF many THEN Max({m.s - lines[i].s, 0}) + 1 ELSE m.s + 1,
                            IF many THEN lines[i].s ELSE m.s, shown(lines[i]), lines[i], {m})
        metBy(m) == {i \in DOMAIN lines : Met(m, lines[i]) \/ ~many}
        first(m, i) == ~x.config.per_match_one_line \/ i = Min(metBy(m))
        inLine(i) == SelectSeq(ms, LAMBDA m : ~many \/ Common(m, shown(lines[i])).s < Common(m, shown(lines[i])).e)
    IN  IF ms = <<>> \/ ~(x.config.only_matching \/ x.config.per_match)
        THEN [i \in DOMAIN lines |-> whole(i)]
        ELSE IF x.config.only_matching
        THEN FlattenSeq([i \in DOMAIN lines |-> [k \in DOMAIN inLine(i) |-> only(i, inLine(i)[k])]])
        ELSE FlattenSeq([k \in DOMAIN ms |->
                LET is == SetToSortSeq({i \in metBy(ms[k]) : first(ms[k], i)}, <)
                IN  [n \in DOMAIN is |-> each(is[n], ms[k])]])

-----------------------------------------------------------------------------
(* What is printed                                                         *)

PiecesOf(items) ==
    LET at == SetToSortSeq({i \in DOMAIN items : items[i].k = "prelude"}, <)
    IN  [k \in DOMAIN at |-> SubSeq(items, at[k], IF k = Len(at) THEN Len(items) ELSE at[k + 1] - 1)]
CellOf(prelude, field) ==
    LET is == {i \in DOMAIN prelude.cells : prelude.cells[i].field = field}
    IN  IF is = {} THEN NoValue ELSE prelude.cells[Max(is)].value

PieceSays(x, p, prelude, bytes, notices) ==
    LET isTerm(n) == SubSeq([i \in DOMAIN bytes |-> bytes[i].b], Len(bytes) - n + 1, Len(bytes))
                        = SubSeq(LineTerm(x.term), Len(LineTerm(x.term)) - n + 1, Len(LineTerm(x.term)))
        n == IF Len(bytes) >= Len(LineTerm(x.term)) /\ isTerm(Len(LineTerm(x.term)))
             THEN Len(LineTerm(x.term)) ELSE 1
        text == SubSeq(bytes, 1, Len(bytes) - n)
        max == x.config.max_columns
        size == p.span.e - p.span.s
        full == SubSeq(x.bytes, p.span.s + 1, p.whole.e)
    IN  /\ CellOf(prelude, "line") = IF x.config.line_number THEN p.nth ELSE NoValue
        /\ CellOf(prelude, "column") = IF x.config.column THEN p.column ELSE NoValue
        /\ CellOf(prelude, "offset") = p.offset
        /\ \A c \in ToSet(prelude.cells) :
              c.sep = IF c.field = "path" /\ x.config.path_terminator THEN "path"
                      ELSE IF x.context THEN "context" ELSE "match"
        /\ bytes # <<>> /\ isTerm(n) /\ \A i \in Len(bytes) - n + 1 .. Len(bytes) : bytes[i].style = "none"
        /\ max # NoValue /\ size > max => Len(notices) = 1
        /\ max = NoValue \/ p.whole.e - p.whole.s <= max => notices = <<>>
        /\ notices = <<>> => Len(text) = size
        /\ notices # <<>> => Len(text) <= IF x.config.max_columns_preview THEN max ELSE 0
        /\ \A i \in DOMAIN text :
              /\ text[i].b = full[i]
              /\ (text[i].style = "match") <=>
                     x.config.color /\ \E m \in p.marked : m.s < p.span.s + i /\ p.span.s + i <= m.e
              /\ text[i].style = "highlight" => x.config.highlight /\ x.config.color

\* Every line, match or part of a match that is to be printed is printed once
\* and in order, with its place and its text, and colored where it matched.
PiecesSay(x, pieces, expected) ==
    /\ Len(pieces) = Len(expected)
    /\ \A i \in DOMAIN pieces :
          PieceSays(x, expected[i], pieces[i][1],
                    SelectSeq(pieces[i], LAMBDA it : it.k = "byte"),
                    SelectSeq(pieces[i], LAMBDA it : it.k \notin {"byte", "prelude"}))
OutputSays(x, out) ==
    /\ PiecesSay(x, PiecesOf(out.items), ToPrint(x))
    /\ out.style = "none" /\ ~out.in_match
SunkSays(s, config, x, ms) ==
    LET asked == ~s.context \/ s.search.invert
    IN  /\ asked /\ config.replacement = NoValue /\ NeedsMatchGranularity(config) => x.matches = ms
        /\ asked /\ config.replacement # NoValue =>
              /\ x.original = Len(ms)
              /\ x.bytes = ToReplace(s, ms, config.replacement)
              /\ [i \in DOMAIN x.matches |-> At(x.bytes, x.matches[i])]
                    = [i \in DOMAIN ms |-> config.replacement]
        /\ OutputSays(x, Sink(x))
ConfigSays(s, config) ==
    SunkSays(s, config, SunkLines(config, s.search, s.pattern, s.bytes, s.range, s.context),
             ToRecord(s))

\* The message has the lines and, unless they are mere context, every match
\* once: where it is in the lines, its text and what replaces it.
MessageHas(s, replacement, msg, ms) ==
    /\ msg.lines = At(s.bytes, s.range)
    /\ Len(msg.submatches) = Len(ms)
    /\ \A i \in DOMAIN ms :
          /\ Span(msg.submatches[i].start, msg.submatches[i].end) = ms[i]
          /\ ms[i].e <= Len(msg.lines) /\ msg.submatches[i].m = At(msg.lines, ms[i])
          /\ msg.submatches[i].replacement = replacement
MessageSays(s, replacement) ==
    MessageHas(s, replacement,
               JSONMessage(replacement, s.search, s.pattern, s.bytes, s.range, s.context),
               IF s.context /\ ~s.search.invert THEN <<>> ELSE ToRecord(s))

PrintedSays(s) ==
    /\ \A config \in Configs : ConfigSays(s, config)
    /\ \A replacement \in {NoValue, <<>>, <<"x", "x">>} : MessageSays(s, replacement)
=============================================================================
