------------------------------- MODULE Globs -------------------------------
(***************************************************************************)
(* The crate globset: the parser of globs and what a glob matches          *)
(* (glob.rs), and the sets of globs that sort their members into           *)
(* strategies, most of which look at a part of the path only (lib.rs).     *)
(*                                                                         *)
(* Text is a sequence of characters, each a string of length one.  The     *)
(* regular expression a glob is translated to is not spelt out: Ends says  *)
(* what each token's piece of it matches.                                  *)
(***************************************************************************)
EXTENDS Integers, Sequences, FiniteSets

LOCAL INSTANCE SequencesExt
LOCAL INSTANCE FiniteSetsExt

Options == [case_insensitive : BOOLEAN, literal_separator : BOOLEAN,
            backslash_escape : BOOLEAN, empty_alternates : BOOLEAN,
            allow_unclosed_class : BOOLEAN]

\* Characters in the order of their codes.
Order == <<" ", "!", "#", "*", ",", "-", ".", "/", "?", "A", "[", "\\", "]", "^",
           "a", "b", "{", "}">>
Rank(c) == CHOOSE i \in DOMAIN Order : Order[i] = c
Lowered(c) == IF c = "A" THEN "a" ELSE c
IsSeparator(c) == c = "/"

CharAt(text, i) == IF i \in DOMAIN text THEN text[i] ELSE "none"

-----------------------------------------------------------------------------
(* Parser                                                                  *)

Lit(c) == [token |-> "Literal", char |-> c]
AnyChar == [token |-> "Any"]
ZeroOrMore == [token |-> "ZeroOrMore"]
RecursivePrefix == [token |-> "RecursivePrefix"]
RecursiveSuffix == [token |-> "RecursiveSuffix"]
RecursiveZeroOrMore == [token |-> "RecursiveZeroOrMore"]
Class(n, r) == [token |-> "Class", negated |-> n, ranges |-> r]
Alternates(b) == [token |-> "Alternates", branches |-> b]
IsLiteral(t) == t.token = "Literal"

\* The state of the parser; at is the place of the next character.
Start == [at |-> 1, branches |-> <<(<<>>)>>, alternates_stack |-> <<>>,
          found_unclosed_class |-> FALSE, error |-> "none"]
Fails(s, kind) == [s EXCEPT !.error = kind]
Bump(s, n) == [s EXCEPT !.at = @ + n]

PushTokens(s, toks) ==
    IF s.branches = <<>> THEN Fails(s, "UnopenedAlternates")
    ELSE [s EXCEPT !.branches[Len(s.branches)] = @ \o toks]

PushAlternate(s) ==
    [s EXCEPT !.alternates_stack = Append(@, Len(s.branches)),
              !.branches = Append(@, <<>>)]

PopAlternate(s) ==
    IF s.alternates_stack = <<>> THEN Fails(s, "UnopenedAlternates")
    ELSE LET start == Last(s.alternates_stack)
             rest == [s EXCEPT !.alternates_stack = Front(@),
                               !.branches = SubSeq(@, 1, start)]
         IN  PushTokens(rest, <<Alternates(SubSeq(s.branches, start + 1,
                                                  Len(s.branches)))>>)

ParseComma(s) ==
    IF s.alternates_stack = <<>> THEN PushTokens(s, <<Lit(",")>>)
    ELSE [s EXCEPT !.branches = Append(@, <<>>)]

ParseBackslash(glob, opts, s) ==
    IF ~opts.backslash_escape THEN PushTokens(s, <<Lit("\\")>>)
    ELSE IF s.at > Len(glob) THEN Fails(s, "DanglingEscape")
    ELSE PushTokens(Bump(s, 1), <<Lit(glob[s.at])>>)

\* After one star.  A ** is recursive only if it is a component of its own,
\* or of a branch of its own.
NotAlone(glob, s, prev) ==
    ~IsSeparator(prev) /\ (Len(s.branches) <= 1 \/ prev \notin {",", "{"})
NotAloneAnywhere(glob, s, prev) == FALSE    \* mutant: what is before does not matter

ParseStar(glob, s) ==
    LET prev == CharAt(glob, s.at - 2)
        peek == CharAt(glob, s.at + 1)    \* behind the second star
        two == Bump(s, 1)
        tokens == Last(s.branches)
        suffix == peek = "none" \/ (peek \in {",", "}"} /\ Len(s.branches) >= 2)
        one == IF suffix THEN RecursiveSuffix ELSE RecursiveZeroOrMore
        top == Last(tokens)
    IN  IF CharAt(glob, s.at) # "*" THEN PushTokens(s, <<ZeroOrMore>>)
        ELSE IF s.branches = <<>> THEN Fails(s, "UnopenedAlternates")
        ELSE IF tokens = <<>>
        THEN IF peek # "none" /\ ~IsSeparator(peek)
             THEN PushTokens(two, <<ZeroOrMore, ZeroOrMore>>)
             ELSE PushTokens(Bump(two, 1), <<RecursivePrefix>>)
        ELSE IF NotAlone(glob, s, prev) \/ ~(suffix \/ IsSeparator(peek))
        THEN PushTokens(two, <<ZeroOrMore, ZeroOrMore>>)
        ELSE [(IF IsSeparator(peek) THEN Bump(two, 1) ELSE two)
                 EXCEPT !.branches[Len(s.branches)] =
                    Append(Front(@), IF top \in {RecursivePrefix, RecursiveSuffix}
                                     THEN top ELSE one)]

\* After a bracket: the characters of the class are read one by one.
ClassStart(glob, s) ==
    LET negated == CharAt(glob, s.at) \in {"!", "^"}
    IN  [at |-> IF negated THEN s.at + 1 ELSE s.at, negated |-> negated,
         ranges |-> <<>>, first |-> TRUE, in_range |-> FALSE, end |-> "none"]

ClassStep(glob, k) ==
    LET c == CharAt(glob, k.at)
        next == [k EXCEPT !.at = @ + 1, !.first = FALSE, !.in_range = FALSE]
        low == Last(k.ranges)[1]
    IN  CASE c = "none" -> [k EXCEPT !.end = "unclosed"]
          [] c = "]" /\ ~k.first -> [k EXCEPT !.at = @ + 1, !.end = "closed"]
          [] c = "-" /\ ~k.first /\ ~k.in_range -> [next EXCEPT !.in_range = TRUE]
          [] k.in_range /\ c # "none" /\ c # "]" ->
                IF Rank(c) < Rank(low) THEN [next EXCEPT !.end = "invalid"]
                ELSE [next EXCEPT !.ranges[Len(k.ranges)] = <<low, c>>]
          [] OTHER -> [next EXCEPT !.ranges = Append(@, <<c, c>>)]

RECURSIVE ClassFrom(_, _)
ClassFrom(glob, k) == IF k.end # "none" THEN k ELSE ClassFrom(glob, ClassStep(glob, k))

ParseClass(glob, opts, s) ==
    LET k == ClassFrom(glob, ClassStart(glob, s))
        ranges == IF k.in_range THEN Append(k.ranges, <<"-", "-">>) ELSE k.ranges
    IN  CASE k.end = "invalid" -> Fails(s, "InvalidRange")
          [] k.end = "closed" -> PushTokens([s EXCEPT !.at = k.at],
                                            <<Class(k.negated, ranges)>>)
          [] k.end = "unclosed" ->
                IF opts.allow_unclosed_class
                THEN PushTokens([s EXCEPT !.found_unclosed_class = TRUE], <<Lit("[")>>)
                ELSE Fails(s, "UnclosedClass")

ParseStep(glob, opts, t) ==
    LET c == glob[t.at]
        s == Bump(t, 1)
    IN  CASE c = "?" -> PushTokens(s, <<AnyChar>>)
          [] c = "*" -> ParseStar(glob, s)
          [] c = "[" /\ ~s.found_unclosed_class -> ParseClass(glob, opts, s)
          [] c = "{" -> PushAlternate(s)
          [] c = "}" -> PopAlternate(s)
          [] c = "," -> ParseComma(s)
          [] c = "\\" -> ParseBackslash(glob, opts, s)
          [] OTHER -> PushTokens(s, <<Lit(c)>>)

RECURSIVE ParseFrom(_, _, _)
ParseFrom(glob, opts, s) ==
    IF s.error # "none" \/ s.at > Len(glob) THEN s
    ELSE ParseFrom(glob, opts, ParseStep(glob, opts, s))

\* GlobBuilder::build, which wants every alternation closed.
Closed(s) ==
    IF s.error = "none" /\ Len(s.branches) > 1 THEN Fails(s, "UnclosedAlternates") ELSE s
Built(glob, opts, s) ==
    [glob |-> glob, opts |-> opts, error |-> s.error,
     tokens |-> IF s.error = "none" THEN s.branches[1] ELSE <<>>]
Build(glob, opts) == Built(glob, opts, Closed(ParseFrom(glob, opts, Start)))

-----------------------------------------------------------------------------
(* What the regular expression of a glob matches.                          *)

\* A branch that is translated to nothing counts only with empty_alternates.
RECURSIVE IsBlank(_, _)
Parts(t, opts) == {b \in {t.branches[i] : i \in DOMAIN t.branches} :
                      opts.empty_alternates \/ ~IsBlank(b, opts)}
IsBlank(tokens, opts) ==
    \A i \in DOMAIN tokens :
        tokens[i].token = "Alternates" /\ Parts(tokens[i], opts) = {}

InClass(t, c, opts) ==
    \E i \in DOMAIN t.ranges : \E d \in {Order[j] : j \in DOMAIN Order} :
        /\ Rank(t.ranges[i][1]) <= Rank(d) /\ Rank(d) <= Rank(t.ranges[i][2])
        /\ c = d \/ (opts.case_insensitive /\ Lowered(c) = Lowered(d))

\* Where in the path a piece that starts behind the first i characters may end.
RECURSIVE EndsOfAll(_, _, _, _)
Ends(t, opts, path, i) ==
    LET n == Len(path)
        c == CharAt(path, i + 1)
        Slash(j) == CharAt(path, j + 1) = "/"    \* behind the first j
    IN  CASE t.token = "Literal" ->
                IF c = t.char \/ (opts.case_insensitive /\ Lowered(c) = Lowered(t.char))
                THEN {i + 1} ELSE {}
          [] t.token = "Any" ->
                IF c = "none" \/ (opts.literal_separator /\ c = "/") THEN {} ELSE {i + 1}
          [] t.token = "ZeroOrMore" ->
                {j \in i .. n : opts.literal_separator => \A k \in i .. j - 1 : ~Slash(k)}
          [] t.token = "RecursivePrefix" ->
                {i} \cup {j + 1 : j \in {k \in i .. n - 1 : Slash(k)}}
          [] t.token = "RecursiveSuffix" -> IF Slash(i) THEN i + 1 .. n ELSE {}
          [] t.token = "RecursiveZeroOrMore" ->
                IF Slash(i) THEN {j + 1 : j \in {k \in i .. n - 1 : Slash(k)}} ELSE {}
          [] t.token = "Class" ->
                IF c # "none" /\ InClass(t, c, opts) # t.negated THEN {i + 1} ELSE {}
          [] t.token = "Alternates" ->
                IF Parts(t, opts) = {} THEN {i}
                ELSE UNION {EndsOfAll(b, opts, path, {i}) : b \in Parts(t, opts)}
EndsOfAll(tokens, opts, path, starts) ==
    IF tokens = <<>> \/ starts = {} THEN starts
    ELSE EndsOfAll(Tail(tokens), opts, path,
                   UNION {Ends(Head(tokens), opts, path, i) : i \in starts})

IsMatch(g, path) ==
    g.tokens = <<RecursivePrefix>> \/ Len(path) \in EndsOfAll(g.tokens, g.opts, path, {0})

-----------------------------------------------------------------------------
(* MatchStrategy::new: each of these is a text, or NoText.                 *)

NoText == <<"no text">>
Chars(tokens) == [i \in DOMAIN tokens |-> tokens[i].char]
AllLiteral(tokens) == \A i \in DOMAIN tokens : IsLiteral(tokens[i])
NonEmpty(text) == IF text = <<>> THEN NoText ELSE text
From(tokens, i) == SubSeq(tokens, i, Len(tokens))
TokenAt(g, i) == IF i \in DOMAIN g.tokens THEN g.tokens[i] ELSE [token |-> "none"]

Literal(g) ==
    IF g.opts.case_insensitive \/ ~AllLiteral(g.tokens) THEN NoText
    ELSE NonEmpty(Chars(g.tokens))

Ext(g) ==
    LET start == IF TokenAt(g, 1) = RecursivePrefix THEN 2 ELSE 1
        rest == From(g.tokens, start + 2)
    IN  IF \/ g.opts.case_insensitive \/ TokenAt(g, start) # ZeroOrMore
           \/ start = 1 /\ g.opts.literal_separator
           \/ TokenAt(g, start + 1) # Lit(".")
           \/ ~AllLiteral(rest) \/ \E i \in DOMAIN rest : rest[i].char \in {".", "/"}
        THEN NoText ELSE <<".">> \o Chars(rest)

\* The literals at the end, from the last dot on.
RequiredExt(g) ==
    LET dots == {i \in DOMAIN g.tokens : g.tokens[i] = Lit(".")}
        rest == From(g.tokens, Max(dots))
    IN  IF \/ g.opts.case_insensitive \/ dots = {} \/ ~AllLiteral(rest)
           \/ \E i \in DOMAIN rest : rest[i] = Lit("/")
        THEN NoText ELSE Chars(rest)

Prefix(g) ==
    LET last == TokenAt(g, Len(g.tokens))
        cut == IF last \in {ZeroOrMore, RecursiveSuffix} THEN Front(g.tokens) ELSE g.tokens
    IN  IF \/ g.opts.case_insensitive \/ g.tokens = <<>>
           \/ last = ZeroOrMore /\ g.opts.literal_separator
           \/ ~AllLiteral(cut)
        THEN NoText
        ELSE NonEmpty(Chars(cut) \o (IF last = RecursiveSuffix THEN <<"/">> ELSE <<>>))

\* The literals at the end and whether they have to begin a component.
Suffix(g) ==
    LET recursive == TokenAt(g, 1) = RecursivePrefix
        entire == recursive /\ IsLiteral(TokenAt(g, 2))
        start == IF recursive THEN 2 ELSE 1
        star == TokenAt(g, start) = ZeroOrMore
        rest == From(g.tokens, IF star THEN start + 1 ELSE start)
        text == IF entire THEN <<"/">> \o Chars(rest) ELSE Chars(rest)
    IN  IF \/ g.opts.case_insensitive \/ start > Len(g.tokens)
           \/ star /\ g.opts.literal_separator
           \/ ~AllLiteral(rest) \/ text \in {<<>>, <<"/">>}
        THEN [text |-> NoText, component |-> FALSE]
        ELSE [text |-> text, component |-> entire]

BasenameLiteralAnywhere(g) ==    \* mutant: the separator is overlooked
    LET rest == From(g.tokens, 2)
    IN  IF \/ g.opts.case_insensitive \/ TokenAt(g, 1) # RecursivePrefix
           \/ rest = <<>> \/ ~AllLiteral(rest)
        THEN NoText ELSE Chars(rest)
BasenameLiteral(g) ==
    LET rest == From(g.tokens, 2)
    IN  IF \/ g.opts.case_insensitive \/ TokenAt(g, 1) # RecursivePrefix
           \/ rest = <<>> \/ ~AllLiteral(rest) \/ \E i \in DOMAIN rest : rest[i] = Lit("/")
        THEN NoText ELSE Chars(rest)

Strategy(g) ==
    LET Of(kind, text) == [kind |-> kind, text |-> text, component |-> FALSE]
    IN  CASE BasenameLiteral(g) # NoText -> Of("BasenameLiteral", BasenameLiteral(g))
          [] BasenameLiteral(g) = NoText ->
                IF Literal(g) # NoText THEN Of("Literal", Literal(g))
                ELSE IF Ext(g) # NoText THEN Of("Extension", Ext(g))
                ELSE IF Prefix(g) # NoText THEN Of("Prefix", Prefix(g))
                ELSE IF Suffix(g).text # NoText
                THEN [Of("Suffix", Suffix(g).text) EXCEPT !.component = Suffix(g).component]
                ELSE IF RequiredExt(g) # NoText THEN Of("RequiredExtension", RequiredExt(g))
                ELSE Of("Regex", <<>>)

-----------------------------------------------------------------------------
(* GlobSet                                                                 *)

\* The text behind the last c; all of it if there is none.
LastOf(text, c) == IF \E i \in DOMAIN text : text[i] = c
                   THEN Max({i \in DOMAIN text : text[i] = c}) ELSE 0

BasenameOf(path) ==
    LET name == From(path, LastOf(path, "/") + 1)
    IN  IF path = <<>> \/ name = <<".", ".">> THEN <<>> ELSE name
ExtensionOf(name) ==
    IF LastOf(name, ".") = 0 THEN <<>> ELSE From(name, LastOf(name, "."))
Candidate(path) ==
    [path |-> path, basename |-> BasenameOf(path), ext |-> ExtensionOf(BasenameOf(path))]

StartsWith(text, p) == Len(p) <= Len(text) /\ SubSeq(text, 1, Len(p)) = p
EndsWith(text, p) ==
    Len(p) <= Len(text) /\ SubSeq(text, Len(text) - Len(p) + 1, Len(text)) = p

Strategies(globs) == [i \in DOMAIN globs |-> Strategy(globs[i])]

\* Which globs of the set each strategy hits.
Of(strats, kind) == {i \in DOMAIN strats : strats[i].kind = kind}

\* A suffix that begins a component is also looked up as the whole path.
LiteralHits(strats, c) ==
    {i \in Of(strats, "Literal") : strats[i].text = c.path}
    \cup {i \in DOMAIN strats : strats[i].component /\ Tail(strats[i].text) = c.path}
BasenameLiteralHits(strats, c) ==
    {i \in Of(strats, "BasenameLiteral") : c.basename # <<>> /\ strats[i].text = c.basename}
ExtensionHits(strats, c) ==
    {i \in Of(strats, "Extension") : c.ext # <<>> /\ strats[i].text = c.ext}

\* Prefixes and suffixes are looked for in as much of the path as the longest
\* of them has.
Longest(strats, kind) == Max({0} \cup {Len(strats[i].text) : i \in Of(strats, kind)})
PathPrefix(path, max) == SubSeq(path, 1, Min({max, Len(path)}))
PathSuffix(path, max) == From(path, Max({1, Len(path) - max + 1}))
PrefixHits(strats, c) ==
    {i \in Of(strats, "Prefix") :
        StartsWith(PathPrefix(c.path, Longest(strats, "Prefix")), strats[i].text)}
SuffixHits(strats, c) ==
    {i \in Of(strats, "Suffix") :
        EndsWith(PathSuffix(c.path, Longest(strats, "Suffix")), strats[i].text)}

RequiredExtensionHits(globs, strats, c) ==
    {i \in Of(strats, "RequiredExtension") :
        c.ext # <<>> /\ strats[i].text = c.ext /\ IsMatch(globs[i], c.path)}
RegexHits(globs, strats, c) == {i \in Of(strats, "Regex") : IsMatch(globs[i], c.path)}

\* matches_candidate_into: sorted and without duplicates.
CandidateHits(globs, strats, c) ==
    ExtensionHits(strats, c) \cup BasenameLiteralHits(strats, c)
        \cup LiteralHits(strats, c) \cup SuffixHits(strats, c)
        \cup PrefixHits(strats, c) \cup RequiredExtensionHits(globs, strats, c)
        \cup RegexHits(globs, strats, c)
Matches(globs, path) ==
    SetToSortSeq(CandidateHits(globs, Strategies(globs), Candidate(path)), LAMBDA i, j : i < j)

\* escape
Escape(text) ==
    FlattenSeq([i \in DOMAIN text |->
        IF text[i] \in {"?", "*", "[", "]", "{", "}"} THEN <<"[", text[i], "]">>
                                                      ELSE <<text[i]>>])

-----------------------------------------------------------------------------
(* What the documentation of the crate says globs mean (lib.rs:60-107),    *)
(* for globs without braces: components are matched one by one if the      *)
(* separator is literal, and ** stands for any number of them.             *)

\* The components of a text.
RECURSIVE Components(_)
Components(text) ==
    LET slashes == {i \in DOMAIN text : text[i] = "/"}
    IN  IF slashes = {} THEN <<text>>
        ELSE <<SubSeq(text, 1, Min(slashes) - 1)>> \o Components(From(text, Min(slashes) + 1))

RECURSIVE NameMeans(_, _)
NameMeans(pat, name) ==
    IF pat = <<>> THEN name = <<>>
    ELSE IF Head(pat) = "*"
    THEN NameMeans(Tail(pat), name) \/ (name # <<>> /\ NameMeans(pat, Tail(name)))
    ELSE name # <<>> /\ Head(pat) \in {"?", Head(name)} /\ NameMeans(Tail(pat), Tail(name))

Stars == <<"*", "*">>
RECURSIVE PathMeans(_, _)
PathMeans(pats, names) ==
    CASE pats = <<>> -> names = <<>>
      [] pats = <<Stars>> -> names # <<>>
      [] pats # <<>> /\ pats # <<Stars>> /\ Head(pats) = Stars ->
            PathMeans(Tail(pats), names) \/ (names # <<>> /\ PathMeans(pats, Tail(names)))
      [] OTHER -> names # <<>> /\ NameMeans(Head(pats), Head(names))
                  /\ PathMeans(Tail(pats), Tail(names))
=============================================================================
