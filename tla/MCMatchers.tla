----------------------------- MODULE MCMatchers -----------------------------
(***************************************************************************)
(* Instances of RegexBuild and SearchStrategy: what the expressions of a   *)
(* small alphabet match, and the subjects MCTexts picks.                   *)
(***************************************************************************)
EXTENDS SearchStrategy, FiniteSets

LOCAL INSTANCE SequencesExt
LOCAL INSTANCE FiniteSetsExt
LOCAL INSTANCE Folds

AnyByte == {"a", "b", "lf", "cr", "nul"}
MaxMatch == 4    \* bound: the length of the matches looked at

\* The strings of at most MaxMatch bytes an expression may match, if its
\* assertions hold.
Products(A, B) == UNION {{a \o b : b \in {s \in B : Len(s) <= MaxMatch - Len(a)}} : a \in A}
RECURSIVE Language(_)
Language(h) ==
    CASE h.k \in {"empty", "look"} -> {<<>>}
      [] h.k = "literal" -> {s \in {h.s} : Len(s) <= MaxMatch}
      [] h.k = "class" -> {<<c>> : c \in h.set}
      [] h.k = "concat" -> FoldLeft(Products, {<<>>}, [i \in DOMAIN h.subs |-> Language(h.subs[i])])
      [] h.k = "alternation" -> UNION {Language(h.subs[i]) : i \in DOMAIN h.subs}
      [] h.k = "repetition" ->
            LET once == Language(h.sub)
                most == IF h.max = NoValue THEN MaxMatch ELSE h.max
                powers == FoldLeft(LAMBDA ps, i : Append(ps, Products(Last(ps), once)),
                                   <<{<<>>}>>, [i \in 1 .. most |-> i])
            IN  UNION {powers[i + 1] : i \in h.min .. most}

OccursIn(l, s) == \E i \in 0 .. Len(s) - Len(l) : SubSeq(s, i + 1, i + Len(l)) = l
Without(strings, bytes) == {s \in strings : ToSet(s) \cap bytes = {}}

-----------------------------------------------------------------------------
(* Expressions                                                             *)

Bounds == {<<0, NoValue>>, <<1, NoValue>>, <<2, NoValue>>, <<0, 1>>, <<2, 2>>, <<2, 3>>, <<3, 3>>}
Wide == HClass({"a", "b", "c", "lf"})
Leaves == {HLiteral(<<"a">>), HLiteral(<<"b">>), HLiteral(<<"a", "b">>), HLook("word"),
           HClass({"a", "b"}), HClass({"b", "lf"}), Wide}
Repeated(hirs) ==
    {HRepetition(m[1], m[2], TRUE, h) : m \in Bounds, h \in hirs \ {HLook("word")}}
    \cup {HRepetition(0, NoValue, FALSE, h) : h \in hirs}
Pairs(hirs) == {HConcat(<<h, i>>) : h \in hirs, i \in hirs}
               \cup {HAlternation(<<h, i>>) : h \in hirs, i \in hirs}
Small == Leaves \cup Repeated({HLiteral(<<"a">>), HLiteral(<<"a", "b">>), Wide})
Medium == Small \cup Pairs(Leaves)
Trees == Pairs(Small) \cup Repeated(Pairs(Leaves))
         \cup {HConcat(<<h, HAlternation(<<HConcat(<<Wide, i>>), j>>)>>) : h, i, j \in Leaves}
         \cup {HConcat(<<h, i>>) : h \in Leaves,
                                  i \in Repeated({HConcat(<<Wide, j>>) : j \in Leaves})}
         \cup {HConcat(<<h, Wide, i>>) : h \in Small, i \in Pairs(Leaves)}
         \cup {HAlternation(<<h, i, j>>) : h \in Leaves, i \in Leaves, j \in Small}

\* However the literals are shortened and whatever is left out, a line in which
\* none of them occurs has no match (regex/src/literal.rs:42-45).
NoneLost(strings, literals) ==
    \A lits \in literals :
        lits # <<>> => \A s \in strings : \E i \in DOMAIN lits : OccursIn(lits[i].s, s)
Extracted(h, stripped, strings) ==
    /\ strings = Without(Language(h), {"lf"})
    /\ NoneLost(strings, FastLineLiterals(stripped, "lf", FALSE))
StrippedSays(h, stripped) == IsInvalid(stripped) \/ Extracted(h, stripped, Language(stripped))
ExtractionSays(h) == StrippedSays(h, StripFromMatch(h, "lf"))

-----------------------------------------------------------------------------
(* Patterns and flags                                                      *)

Plain(s) == [hir |-> HLiteral(s), meta |-> FALSE, written |-> ToSet(s) \cap Letters]
Meta(h, written) == [hir |-> h, meta |-> TRUE, written |-> written]
PlainPatterns == {Plain(<<"a">>), Plain(<<"A", "b">>), Plain(<<"a", "lf">>)}
Patterns ==
    {Plain(<<"a">>), Plain(<<"A", "b">>), Plain(<<"a", "lf">>), Plain(<<"cr">>), Plain(<<"nul">>),
     Meta(HLiteral(<<"a", "lf">>), {"a"}), Meta(HLiteral(<<"nul">>), {}),
     Meta(HConcat(<<HLiteral(<<"a">>), HClass(AnyByte \ {"lf"})>>), {"a"}),
     Meta(HConcat(<<HLook("start"), HLiteral(<<"a">>)>>), {"a"}),
     Meta(HConcat(<<HLiteral(<<"a">>), HRepetition(0, NoValue, TRUE, HClass({"lf", "cr", "b"}))>>), {"a"}),
     Meta(HClass({"a", "b"}), {}), Meta(HConcat(<<HClass({"cr", "lf"}), HLook("endLF")>>), {})}

Args == {a \in [multiline : BOOLEAN, crlf : BOOLEAN, null_data : BOOLEAN, binary : BOOLEAN,
                case : {"sensitive", "insensitive", "smart"}, boundary : {"none", "word", "line"},
                fixed_strings : BOOLEAN] : ~(a.crlf /\ a.null_data) /\ ~(a.null_data /\ a.binary)}
Given(args, patterns) ==
    args.fixed_strings => \A i \in DOMAIN patterns : ~patterns[i].meta

\* What the patterns say: with -i, or smart case and no letter in upper case,
\* letters match in both cases.
Means(args, patterns) ==
    LET written == UNION {patterns[i].written : i \in DOMAIN patterns}
        folds == args.case = "insensitive" \/
                 (args.case = "smart" /\ written \cap {"a", "b"} # {} /\ written \cap {"A", "B"} = {})
        strings == UNION {Language(patterns[i].hir) : i \in DOMAIN patterns}
        low(s) == [i \in DOMAIN s |-> CASE s[i] = "A" -> "a" [] s[i] = "B" -> "b" [] OTHER -> s[i]]
        lowered == {low(s) : s \in strings}
    IN  IF ~folds THEN strings
        ELSE {s \in UNION {[1 .. k -> AnyByte \cup Letters] : k \in {Len(t) : t \in strings}} :
                 low(s) \in lowered}

\* Taking the patterns as literals, folding, wrapping and stripping change
\* nothing but that no match has a terminator of its line in it; and the bytes
\* of every match are among those the searcher is told of.
Matches(args, patterns, config, matcher, strings) ==
    /\ strings = Without(Means(args, patterns), TermBytes(config.line_terminator))
    /\ \A s \in strings : ToSet(s) \subseteq matcher.matching
    /\ \A accelerated \in BOOLEAN :
          NoneLost(strings, FastLineLiterals(matcher.hir, config.line_terminator, accelerated))
Built(args, patterns, config, matcher) ==
    matcher.error \/ Matches(args, patterns, config, matcher, Language(matcher.hir))
MatcherSays(args, patterns) ==
    Built(args, patterns, MatcherConfig(args), BuildMany(MatcherConfig(args), patterns))

-----------------------------------------------------------------------------
(* Sources                                                                 *)

Bodies == {<<>>, <<"x">>, <<"x", "y", "z">>, <<"x", "y", "z", "x", "y">>}
Sources == {s \in [kind : {"file", "reader", "slice"}, mappable : BOOLEAN,
                    bom : {"none", "utf8", "utf16le"}, body : Bodies] :
               s.mappable => s.kind = "file"}
Reads == UNION {[1 .. k -> {1, 2, Interrupted, Failing}] : k \in 0 .. 2}
Left == {<<>>, <<"o", "l", "d", "e", "r", "s">>}
SearchArgs ==
    [multiline : BOOLEAN, crlf : BOOLEAN, null_data : {FALSE}, binary : {TRUE}, case : {"sensitive"},
     boundary : {"none"}, fixed_strings : {FALSE}, passthru : {FALSE}, before : {0}, after : {0},
     mmap : BOOLEAN, heap_limit : {NoValue, 0, 1, 3},
     encoding : {"auto", "disabled", "utf16le"}]
SearchedPatterns == {p \in Patterns : p.hir.k = "concat"}

\* However it comes to be searched, a source is searched as the same text, its
\* mark removed and decoded unless that was turned off, and nothing that an
\* earlier search left; an error means that reading failed or the text is as
\* long as the limit (mod.rs:678-795, 977-1030).  Lines are searched one by one
\* only if no match goes over the end of one.
SearchSays(args, source, reads, config, matcher, result) ==
    LET text == Decoded(config, source)
        whole == Len(source.body) < args.heap_limit
    IN  IF result.error = "none"
        THEN /\ result.text = text
             /\ result.strategy # "multi" =>
                  \A s \in Language(matcher.hir) : AsByte(config.line_term) \notin ToSet(s)
        ELSE /\ result.error # "mismatched"
             /\ result.error = "unavailable" => args.heap_limit = 0 /\ ~args.mmap
             /\ result.error = "io" => Failing \in ToSet(reads)
             /\ result.error = "limit" => args.multiline /\ args.heap_limit # NoValue /\ ~whole
SearchedBy(args, source, old, reads, config, matcher) ==
    matcher.error \/
    SearchSays(args, source, reads, config, matcher, Search(config, matcher, source, old, reads))
StrategySays(args, pattern, source, old, reads) ==
    SearchedBy(args, source, old, reads, Set(SearcherConfig(args), "heap_limit", args.heap_limit),
               BuildMany(MatcherConfig(args), <<pattern>>))
=============================================================================
