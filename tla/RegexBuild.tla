----------------------------- MODULE RegexBuild -----------------------------
(***************************************************************************)
(* How patterns become a matcher (crates/regex): the syntax tree of their  *)
(* alternation, with the line terminator removed from it, the bytes no     *)
(* match contains, and the inner literals that find candidate lines        *)
(* (config.rs, ban.rs, strip.rs, non_matching.rs, literal.rs, matcher.rs). *)
(*                                                                         *)
(* A tree (regex_syntax::hir::Hir) is a record with its kind; capturing    *)
(* groups are left out, for every function here passes through them.       *)
(***************************************************************************)
EXTENDS Integers, Sequences

LOCAL INSTANCE SequencesExt
LOCAL INSTANCE FiniteSetsExt
LOCAL INSTANCE Folds

CONSTANTS
    LimitClass, LimitRepeat, LimitLiteralLen, LimitTotal,   \* Extractor::new
    KeptLen,        \* the bytes kept when a union has too many literals
    Poisonous,      \* bytes so frequent that alone they are of no use
    NoValue         \* no line terminator, no banned byte, no upper bound

Cases == {{"a", "A"}, {"b", "B"}}    \* the letters, of which the second are upper case
Letters == UNION Cases
Folded(c) == {c} \cup UNION {letter \in Cases : c \in letter}

-----------------------------------------------------------------------------
(* Trees, and the constructors of regex-syntax, which keep them small.     *)

HEmpty == [k |-> "empty"]
HFail == [k |-> "class", set |-> {}]
HLiteral(s) == IF s = <<>> THEN HEmpty ELSE [k |-> "literal", s |-> s]
HClass(set) == IF \E c \in set : set = {c} THEN HLiteral(<<CHOOSE c \in set : TRUE>>)
                                           ELSE [k |-> "class", set |-> set]
HLook(look) == [k |-> "look", look |-> look]
HRepetition(min, max, greedy, sub) ==
    CASE max = 0 -> HEmpty
      [] min = 1 /\ max = 1 -> sub
      [] OTHER -> [k |-> "repetition", min |-> min, max |-> max, greedy |-> greedy, sub |-> sub]

Flat(kind, hirs) ==
    FlattenSeq([i \in DOMAIN hirs |-> IF hirs[i].k = kind THEN hirs[i].subs ELSE <<hirs[i]>>])
Joined(hirs, h) ==
    IF hirs # <<>> /\ h.k = "literal" /\ Last(hirs).k = "literal"
    THEN Append(Front(hirs), HLiteral(Last(hirs).s \o h.s)) ELSE Append(hirs, h)
HConcat(hirs) ==
    LET subs == FoldLeft(Joined, <<>>, SelectSeq(Flat("concat", hirs), LAMBDA h : h.k # "empty"))
    IN  CASE subs = <<>> -> HEmpty
          [] Len(subs) = 1 -> subs[1]
          [] OTHER -> [k |-> "concat", subs |-> subs]

IsChar(h) == h.k = "class" \/ (h.k = "literal" /\ Len(h.s) = 1)
CharSet(h) == IF h.k = "class" THEN h.set ELSE {h.s[1]}
HAlternation(hirs) ==
    LET subs == Flat("alternation", hirs)
    IN  CASE subs = <<>> -> HFail
          [] Len(subs) = 1 -> subs[1]
          [] Len(subs) > 1 /\ \A i \in DOMAIN subs : IsChar(subs[i]) ->
                HClass(UNION {CharSet(subs[i]) : i \in DOMAIN subs})
          [] OTHER -> [k |-> "alternation", subs |-> subs]

Subs(h) == CASE h.k = "repetition" -> <<h.sub>>
             [] h.k \in {"concat", "alternation"} -> h.subs
             [] OTHER -> <<>>

RECURSIVE Nodes(_), FoldCase(_), Stripped(_, _), Extract(_)

Nodes(h) == {h} \cup UNION {Nodes(Subs(h)[i]) : i \in DOMAIN Subs(h)}
Looks(h) == {n.look : n \in {m \in Nodes(h) : m.k = "look"}}

\* Hir::properties().is_alternation_literal
IsAlternationLiteral(h) ==
    \/ h.k = "literal"
    \/ h.k = "alternation" /\ \A i \in DOMAIN h.subs : h.subs[i].k = "literal"

\* The translator under case_insensitive.
FoldCase(h) ==
    CASE h.k = "literal" -> HConcat([i \in DOMAIN h.s |-> HClass(Folded(h.s[i]))])
      [] h.k = "class" -> HClass(UNION {Folded(c) : c \in h.set})
      [] h.k = "repetition" -> HRepetition(h.min, h.max, h.greedy, FoldCase(h.sub))
      [] h.k = "concat" -> HConcat([i \in DOMAIN h.subs |-> FoldCase(h.subs[i])])
      [] h.k = "alternation" -> HAlternation([i \in DOMAIN h.subs |-> FoldCase(h.subs[i])])
      [] OTHER -> h

-----------------------------------------------------------------------------
(* The line terminator, the banned byte and the bytes that do not match.   *)

TermBytes(term) == CASE term = NoValue -> {} [] term = "crlf" -> {"cr", "lf"} [] OTHER -> {term}

\* A pattern is [hir, meta, written]: its tree, whether it is spelled with
\* metacharacters, and the literal characters in it, those of classes included.
HasLineTerminator(term, p) ==
    p.hir.k = "literal" /\ \E i \in DOMAIN p.hir.s : p.hir.s[i] \in TermBytes(term)

IsFixedStringsAnyTerm(config, patterns) ==    \* mutant: terminators are not looked for
    /\ config.case = "sensitive"
    /\ \A i \in DOMAIN patterns : config.fixed_strings \/ ~patterns[i].meta
IsFixedStrings(config, patterns) ==
    /\ config.case = "sensitive"
    /\ \A i \in DOMAIN patterns :
          /\ config.fixed_strings \/ ~patterns[i].meta
          /\ ~HasLineTerminator(config.line_terminator, patterns[i])

\* AstAnalysis: whether literals are written in the patterns, and in upper case.
Analysis(patterns) ==
    LET written == UNION {patterns[i].written : i \in DOMAIN patterns}
    IN  [any_literal |-> written # {}, any_uppercase |-> written \cap {"A", "B"} # {}]
IsCaseInsensitive(config, patterns) ==
    \/ config.case = "insensitive"
    \/ /\ config.case = "smart"
       /\ Analysis(patterns).any_literal /\ ~Analysis(patterns).any_uppercase

\* ban::check: a subexpression matches nothing but the byte.
Banned(h, byte) ==
    \E n \in Nodes(h) : \/ n.k = "literal" /\ byte \in ToSet(n.s)
                        \/ n.k = "class" /\ n.set = {byte}

Invalid == [k |-> "invalid"]
IsInvalid(h) == \E n \in Nodes(h) : n.k = "invalid"
Stripped(h, byte) ==
    CASE h.k = "literal" -> IF byte \in ToSet(h.s) THEN Invalid ELSE h
      [] h.k = "class" -> IF h.set = {byte} THEN Invalid ELSE HClass(h.set \ {byte})
      [] h.k = "repetition" -> HRepetition(h.min, h.max, h.greedy, Stripped(h.sub, byte))
      [] h.k = "concat" -> HConcat([i \in DOMAIN h.subs |-> Stripped(h.subs[i], byte)])
      [] h.k = "alternation" -> HAlternation([i \in DOMAIN h.subs |-> Stripped(h.subs[i], byte)])
      [] OTHER -> h
StripFromMatch(h, term) ==
    CASE term = NoValue -> h
      [] term = "crlf" -> LET once == Stripped(h, "cr")
                          IN  IF IsInvalid(once) THEN Invalid ELSE Stripped(once, "lf")
      [] OTHER -> Stripped(h, term)

\* remove_matching_bytes: what a node may match, and the anchors' terminators.
MayMatch(n) ==
    CASE n.k = "literal" -> ToSet(n.s)
      [] n.k = "class" -> n.set
      [] n.k = "look" -> CASE n.look \in {"start", "end", "startLF", "endLF"} -> {"lf"}
                           [] n.look \in {"startCRLF", "endCRLF"} -> {"cr", "lf"}
                           [] OTHER -> {}
      [] OTHER -> {}
MatchingBytes(h) == UNION {MayMatch(n) : n \in Nodes(h)}

-----------------------------------------------------------------------------
(* Sequences of literals: regex_syntax::hir::literal::Seq, and TSeq, which *)
(* adds whether a sequence still begins where the expression does.         *)

Exact(s) == [s |-> s, exact |-> TRUE]
Seqs(lits) == [infinite |-> FALSE, lits |-> lits, prefix |-> TRUE]
Infinite == [infinite |-> TRUE, lits |-> <<>>, prefix |-> TRUE]
Nothing == Seqs(<<Exact(<<>>)>>)

MadeInexact(q) == [q EXCEPT !.lits = [i \in DOMAIN @ |-> [@[i] EXCEPT !.exact = FALSE]]]
MadeInfinite(q) == [q EXCEPT !.infinite = TRUE, !.lits = <<>>]
IsInexact(q) == \A i \in DOMAIN q.lits : ~q.lits[i].exact
MinLiteralLen(q) == Min({Len(q.lits[i].s) : i \in DOMAIN q.lits})
Deduped(q) ==
    [q EXCEPT !.lits = FoldLeft(LAMBDA done, l :
        IF done # <<>> /\ Last(done).s = l.s
        THEN Append(Front(done), [l EXCEPT !.exact = @ /\ Last(done).exact])
        ELSE Append(done, l), <<>>, @)]
KeepFirstBytes(q, len) ==
    [q EXCEPT !.lits = [i \in DOMAIN @ |->
        IF Len(@[i].s) <= len THEN @[i] ELSE [s |-> SubSeq(@[i].s, 1, len), exact |-> FALSE]]]

CrossForward(q, r) ==
    IF q.infinite THEN q
    ELSE IF r.infinite
    THEN IF q.lits # <<>> /\ MinLiteralLen(q) = 0 THEN MadeInfinite(q) ELSE MadeInexact(q)
    ELSE Deduped([q EXCEPT !.lits = FlattenSeq([i \in DOMAIN @ |->
            IF ~@[i].exact THEN <<@[i]>>
            ELSE LET l == @[i].s
                 IN  [j \in DOMAIN r.lits |-> [s |-> l \o r.lits[j].s, exact |-> r.lits[j].exact]]])])
SeqUnion(q, r) ==
    IF q.infinite THEN q
    ELSE IF r.infinite THEN MadeInfinite(q)
    ELSE Deduped([q EXCEPT !.lits = @ \o r.lits])

IsPoisonous(l) == l.s = <<>> \/ (Len(l.s) = 1 /\ l.s[1] \in Poisonous)
HasPoisonousLiteral(q) == \E i \in DOMAIN q.lits : IsPoisonous(q.lits[i])
IsGood(q) ==
    /\ ~HasPoisonousLiteral(q) /\ ~q.infinite /\ q.lits # <<>>
    /\ IF MinLiteralLen(q) <= 1 THEN Len(q.lits) <= 3 ELSE Len(q.lits) <= 64
IsReallyGood(q) ==
    /\ ~HasPoisonousLiteral(q) /\ ~q.infinite /\ q.lits # <<>>
    /\ MinLiteralLen(q) >= 3 /\ Len(q.lits) <= 8

\* TSeq::choose: the second unless the first is better.
PrefersSecond(q, r) ==
    IF q.infinite \/ r.infinite THEN q.infinite
    ELSE IF HasPoisonousLiteral(q) \/ HasPoisonousLiteral(r) THEN HasPoisonousLiteral(q)
    ELSE IF q.lits = <<>> \/ r.lits = <<>> THEN q.lits = <<>>
    ELSE IF MinLiteralLen(q) # MinLiteralLen(r) THEN MinLiteralLen(q) < MinLiteralLen(r)
    ELSE Len(q.lits) < Len(r.lits)
ChooseSeq(q, r) == MadeInexact(IF PrefersSecond(q, r) THEN r ELSE q)

-----------------------------------------------------------------------------
(* Extractor                                                               *)

EnforceLiteralLen(q) == KeepFirstBytes(q, LimitLiteralLen)

\* A sequence that has lost its beginning cannot be appended to another.
CrossAnywhere(q, r) ==    \* mutant: the tag is not asked for
    LET within == q.infinite \/ r.infinite \/ Len(q.lits) * Len(r.lits) <= LimitTotal
    IN  EnforceLiteralLen(CrossForward(q, IF within THEN r ELSE MadeInfinite(r)))
Cross(q, r) ==
    LET within == q.infinite \/ r.infinite \/ Len(q.lits) * Len(r.lits) <= LimitTotal
    IN  IF ~r.prefix THEN ChooseSeq(q, r)
        ELSE EnforceLiteralLen(CrossForward(q, IF within THEN r ELSE MadeInfinite(r)))

Union(q, r) ==
    LET within(x, y) == x.infinite \/ y.infinite \/ Len(x.lits) + Len(y.lits) <= LimitTotal
        cut(x) == Deduped(KeepFirstBytes(x, KeptLen))
        u == IF within(q, r) THEN SeqUnion(q, r)
             ELSE SeqUnion(cut(q), IF within(cut(q), cut(r)) THEN cut(r) ELSE MadeInfinite(r))
    IN  [u EXCEPT !.prefix = q.prefix /\ r.prefix]

\* Once every literal is inexact nothing can be appended: the sequence competes
\* with that of the rest of the expression.
ConcatStep(s, q) ==
    IF s.over THEN s
    ELSE IF ~IsInexact(s.seq) THEN [s EXCEPT !.seq = Cross(@, q)]
    ELSE IF (~s.seq.infinite /\ s.seq.lits = <<>>) \/ IsReallyGood(s.seq)
    THEN [s EXCEPT !.over = TRUE]
    ELSE [s EXCEPT !.prev = Append(<<>>, IF @ = <<>> THEN s.seq ELSE ChooseSeq(@[1], s.seq)),
                   !.seq = Cross([Nothing EXCEPT !.prefix = FALSE], q)]
ExtractConcat(seqs) ==
    LET s == FoldLeft(ConcatStep, [prev |-> <<>>, seq |-> Nothing, over |-> FALSE], seqs)
    IN  IF s.over \/ s.prev = <<>> THEN s.seq ELSE ChooseSeq(s.prev[1], s.seq)

ExtractAlternation(seqs) ==
    FoldLeft(LAMBDA q, r : IF q.infinite THEN q ELSE Union(q, r), Seqs(<<>>), seqs)

ExtractRepetition(min, max, greedy, q) ==
    LET times == FoldLeft(LAMBDA s, i : IF IsInexact(s) THEN s ELSE Cross(s, q),
                          Nothing, [i \in 1 .. Min({min, LimitRepeat}) |-> i])
        optional == IF max = 1 THEN q ELSE MadeInexact(q)
    IN  CASE min = 0 /\ max = NoValue ->
                IF greedy THEN Union(MadeInexact(q), Nothing) ELSE Union(Nothing, MadeInexact(q))
          [] min = 0 /\ max # NoValue ->
                IF greedy THEN Union(optional, Nothing) ELSE Union(Nothing, optional)
          [] min > 0 /\ max # NoValue ->
                IF min = max /\ min <= LimitRepeat THEN times ELSE MadeInexact(times)
          [] OTHER -> MadeInexact(q)

ExtractClass(set) ==
    IF Cardinality(set) > LimitClass THEN Infinite
    ELSE LET s == SetToSeq(set) IN Seqs([i \in DOMAIN s |-> Exact(<<s[i]>>)])

Extract(h) ==
    CASE h.k \in {"empty", "look"} -> Nothing
      [] h.k = "literal" -> EnforceLiteralLen(Seqs(<<Exact(h.s)>>))
      [] h.k = "class" -> ExtractClass(h.set)
      [] h.k = "repetition" -> ExtractRepetition(h.min, h.max, h.greedy, Extract(h.sub))
      [] h.k = "concat" -> ExtractConcat([i \in DOMAIN h.subs |-> Extract(h.subs[i])])
      [] h.k = "alternation" -> ExtractAlternation([i \in DOMAIN h.subs |-> Extract(h.subs[i])])

\* Seq::optimize_for_prefix_by_preference: nothing of use if a literal is
\* empty, else the literals or the beginnings of them, or nothing of use.
Optimized(q) ==
    IF q.infinite \/ \E i \in DOMAIN q.lits : q.lits[i].s = <<>> THEN {MadeInfinite(q)}
    ELSE {MadeInfinite(q)} \cup {Deduped(KeepFirstBytes(q, len)) : len \in 1 .. LimitLiteralLen}

\* extract_untagged, InnerLiterals::new and one_regex: the sets of literals the
\* candidate regex may have, <<>> for no candidate regex.
FastLineLiterals(h, term, accelerated) ==
    IF \/ term = NoValue
       \/ accelerated /\ "word" \notin Looks(h)
       \/ IsAlternationLiteral(h)
    THEN {<<>>}
    ELSE {IF IsGood(q) THEN q.lits ELSE <<>> : q \in Optimized(Extract(h))}

-----------------------------------------------------------------------------
(* RegexMatcherBuilder::build_many                                         *)

\* The tree of the patterns, by way of the parser or not.
Parsed(config, patterns) ==
    LET alts == [i \in DOMAIN patterns |-> patterns[i].hir]
        h == IF IsCaseInsensitive(config, patterns)
             THEN HAlternation([i \in DOMAIN alts |-> FoldCase(alts[i])]) ELSE HAlternation(alts)
    IN  IF config.ban # NoValue /\ Banned(h, config.ban) THEN Invalid
        ELSE StripFromMatch(h, config.line_terminator)
ConfiguredHIR(config, patterns) ==
    IF IsFixedStrings(config, patterns)
    THEN HAlternation([i \in DOMAIN patterns |-> patterns[i].hir])
    ELSE Parsed(config, patterns)

IntoWholeLine(config, h) ==
    HConcat(IF config.crlf THEN <<HLook("startCRLF"), h, HLook("endCRLF")>>
                           ELSE <<HLook("startLF"), h, HLook("endLF")>>)
IntoWord(h) == HConcat(<<HLook("word"), h, HLook("word")>>)
Bounded(config, h) ==
    CASE config.boundary = "line" -> IntoWholeLine(config, h)
      [] config.boundary = "word" -> IntoWord(h)
      [] OTHER -> h

\* ConfiguredHIR::line_terminator: none for an expression with \A or \z.
MatcherLineTerminator(config, h) ==
    IF Looks(h) \cap {"start", "end"} # {} THEN NoValue ELSE config.line_terminator

\* HiArgs::matcher_rust, from the flags [multiline, dotall, crlf, null_data,
\* binary, case, boundary, fixed_strings].
MatcherConfig(args) ==
    [case |-> args.case, boundary |-> args.boundary, fixed_strings |-> args.fixed_strings,
     crlf |-> args.crlf,
     line_terminator |-> IF args.multiline THEN NoValue
                         ELSE IF args.null_data THEN "nul"
                         ELSE IF args.crlf THEN "crlf" ELSE "lf",
     ban |-> IF args.binary THEN "nul" ELSE NoValue]

MatcherOf(config, whole) ==
    [error |-> FALSE, hir |-> whole, matching |-> MatchingBytes(whole),
     line_terminator |-> MatcherLineTerminator(config, whole)]
BuiltOf(config, h) ==
    IF IsInvalid(h) THEN [error |-> TRUE] ELSE MatcherOf(config, Bounded(config, h))
BuildMany(config, patterns) == BuiltOf(config, ConfiguredHIR(config, patterns))
=============================================================================
