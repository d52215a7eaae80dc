------------------------------- MODULE MCTexts -------------------------------
(***************************************************************************)
(* Instances of the pure modules.  A behaviour picks one subject: a set of *)
(* globs, the lines of an ignore file, a sequence of changes to the file   *)
(* types; the properties quantify over the paths a subject is asked about. *)
(***************************************************************************)
EXTENDS IgnoreRules, TLC

LOCAL INSTANCE SequencesExt
LOCAL INSTANCE FiniteSetsExt

CONSTANTS MaxAtoms,    \* bound: the pieces a glob or a line is made of
          LimitClass, LimitRepeat, LimitLiteralLen, LimitTotal, KeptLen, Poisonous,
          DefaultBufferCapacity, NoValue, MaxLookAhead, MaxU64, MaxU32

Matchers == INSTANCE MCMatchers
Printed == INSTANCE MCLines
Converted == INSTANCE MCConversions

VARIABLE subject

vars == <<subject>>

Kinds == {"globs", "lines", "types", "expression", "patterns", "source", "printed",
          "number", "bytes", "template", "colors", "format", "path", "compression"}
None(kind) == [kind |-> "none", of |-> kind]
Init == subject \in {None(kind) : kind \in Kinds}
Due(kind) == subject = None(kind)
Pick(kind, of) == subject' = [kind |-> kind, of |-> of]

\* The texts made of at most n of the atoms.
Texts(atoms, n) == {FlattenSeq(t) : t \in UNION {[1 .. k -> atoms] : k \in 0 .. n}}

-----------------------------------------------------------------------------
(* Globs                                                                   *)

Default == [case_insensitive |-> FALSE, literal_separator |-> FALSE,
            backslash_escape |-> TRUE, empty_alternates |-> FALSE,
            allow_unclosed_class |-> FALSE]

PlainAtoms == {<<"a">>, <<"*">>, <<"*", "*">>, <<"?">>, <<"/">>, <<".">>}
ClassAtoms == {<<"[">>, <<"]">>, <<"!">>, <<"-">>, <<"a">>, <<"b">>, <<"\\">>}
BraceAtoms == {<<"{">>, <<"}">>, <<",">>, <<"a">>, <<"*", "*">>, <<"/">>}
BasicGlobs == {<<"a">>, <<"*", ".", "a">>, <<"*", "*", "/", "a">>, <<"a", "/", "*", "*">>,
               <<"a", "*">>, <<"*", "/", "a">>, <<"b", "*", ".", "a">>, <<"?">>,
               <<"*", "*", "/", "b", "/", "a">>, <<"*", "b", ".", "a">>}

\* Paths as a walk gives them.
Walked(p) == /\ p[1] # "/" /\ p[Len(p)] # "/"
             /\ \A i \in 1 .. Len(p) - 1 : p[i] = "/" => p[i + 1] # "/"
             /\ <<".", ".">> \notin ToSet(Components(p))
GlobPaths == {p \in UNION {[1 .. k -> {"a", ".", "/", "b"}] : k \in 1 .. 4} :
                 Walked(p) /\ Cardinality({i \in DOMAIN p : p[i] = "b"}) <= 1}
             \cup {<<"b", "/", "a", ".", "a">>, <<"a", "/", "b", ".", "a">>,
                   <<"a", "/", "b", "/", "a">>, <<"A">>, <<"A", "/", "b">>}

PlainGlob ==
    /\ Due("globs")
    /\ \E t \in Texts(PlainAtoms, MaxAtoms), l \in BOOLEAN, c \in BOOLEAN :
       Pick("globs", <<Build(t, [Default EXCEPT !.literal_separator = l, !.case_insensitive = c])>>)
ClassGlob ==
    /\ Due("globs")
    /\ \E t \in Texts(ClassAtoms, MaxAtoms + 1), u \in BOOLEAN :
       Pick("globs", <<Build(t, [Default EXCEPT !.allow_unclosed_class = u])>>)
BraceGlob ==
    /\ Due("globs")
    /\ \E t \in Texts(BraceAtoms, MaxAtoms + 1), e \in BOOLEAN :
       Pick("globs", <<Build(t, [Default EXCEPT !.empty_alternates = e])>>)
GlobPair ==
    /\ Due("globs")
    /\ \E t \in BasicGlobs, u \in BasicGlobs, l \in BOOLEAN :
       Pick("globs", LET opts == [Default EXCEPT !.literal_separator = l]
                     IN  <<Build(t, opts), Build(u, opts)>>)

IsPlain(g) == /\ g.opts.literal_separator /\ ~g.opts.case_insensitive /\ g.glob # <<>>
              /\ \A i \in DOMAIN g.glob : g.glob[i] \notin {"{", "}", "[", "]", "\\", ","}
              /\ <<>> \notin ToSet(Components(g.glob))

\* A set of globs reports exactly its members whose regular expression matches
\* the path, although most members are looked up by a name, an extension or an
\* end of the path (globset/src/lib.rs:442); a glob matches what its components
\* say (lib.rs:60-107); and a text that is escaped matches itself only.
GlobsExact ==
    subject.kind = "globs" =>
        LET gs == subject.of
            good == \A i \in DOMAIN gs : gs[i].error = "none"
            quoted == Build(Escape(gs[1].glob), gs[1].opts)
            plain == \A i \in DOMAIN gs[1].glob : gs[1].glob[i] \notin {"\\", ","}
        IN  \A p \in GlobPaths :
            /\ good => /\ ToSet(Matches(gs, p)) = {i \in DOMAIN gs : IsMatch(gs[i], p)}
                       /\ Len(Matches(gs, p)) = Cardinality(ToSet(Matches(gs, p)))
            /\ \A i \in DOMAIN gs : IsPlain(gs[i]) =>
                   (IsMatch(gs[i], p) <=> PathMeans(Components(gs[i].glob), Components(p)))
            /\ plain /\ ~gs[1].opts.case_insensitive =>
                   quoted.error = "none" /\ (IsMatch(quoted, p) <=> p = gs[1].glob)

-----------------------------------------------------------------------------
(* Ignore files, overrides and types                                       *)

Bodies == Texts({<<"a">>, <<"*">>, <<"*", "*">>, <<"/">>, <<"#">>, <<"!">>}, MaxAtoms) \ {<<>>}
Lines == {pre \o body \o post :
             pre \in {<<>>, <<"!">>, <<"\\", "!">>, <<"\\", "#">>, <<"/">>},
             body \in Bodies,
             post \in {<<>>, <<"/">>, <<" ">>, <<"\\", " ">>, <<"\\", "/">>}}
FewLines == {<<"a">>, <<"!", "a">>, <<"a", "/">>, <<"/", "a">>, <<"!", "/", "a", "/">>,
             <<"a", "/", "*", "*">>, <<"!", "a", "/", "a">>, <<"*">>, <<"!", "*", "/">>, <<"[">>}

\* What is left of the line has no empty component, and is no comment.
WellFormed(line) ==
    /\ ~SaysNothing(line)
    /\ ToSet(ManualRule(line).names) \cap {<<>>} = {}

IgnoreLine ==
    /\ Due("lines")
    /\ \E line \in Lines : WellFormed(line) /\ Pick("lines", <<line>>)
IgnoreFile ==
    /\ Due("lines")
    /\ \E a \in FewLines, b \in FewLines, c \in {<<"#", "a">>} \cup FewLines :
       Pick("lines", <<a, b, c>>)

RulePaths == {<<"a">>, <<"b">>, <<"a", "/", "a">>, <<"a", "/", "b">>, <<"b", "/", "a">>,
              <<"a", "a">>, <<"a", " ">>, <<"!", "a">>, <<"#">>, <<"b", "/", "a", "/", "a">>,
              <<"a", "/", "b", "/", "a">>}
Root == <<"b">>

\* Files with byte order marks, of which only those in front of the first line
\* are none of its characters, and with a line that cannot be read.
IgnoreMarked ==
    /\ Due("lines")
    /\ \E marks \in {<<Mark>>, <<Mark, Mark>>}, a \in FewLines, b \in FewLines,
          c \in {<<Mark, "a">>, <<"a", NoUtf8>>} :
       \E lines \in {<<marks \o a, b, c>>, <<a, c, b>>, <<c, a, b>>} : Pick("lines", lines)

TypeChanges ==
    {[op |-> "add", name |-> n, glob |-> g] :
         n \in {"x", "y"} \cup BadNames, g \in {<<"a">>, <<"*", "b">>}}
    \cup {[op |-> "include", name |-> "x", others |-> <<"y">>], [op |-> "clear", name |-> "x"]}
    \cup {[op |-> o, name |-> n] : o \in {"select", "negate"}, n \in {"x", "y", "all"}}
Types ==
    /\ Due("types")
    /\ \E changes \in UNION {[1 .. k -> TypeChanges] : k \in 1 .. 3} : Pick("types", changes)

\* What the manual says of a path that is not searched below an ignored
\* directory, for files without negated lines.
Cut(lines, p, d) ==
    \E i \in {j \in DOMAIN p : p[j] = "/"} \cup {Len(p) + 1} :
        ManualVerdict(lines, SubSeq(p, 1, i - 1), d \/ i <= Len(p)) = "ignore"

\* The lines of an ignore file say of every path below its directory what the
\* manual of gitignore has them say, with the last that matches deciding; a
\* line that is no glob loses only itself (gitignore.rs:392, 447).  Asked for
\* a path and its parents, they say ignore where a walk would not have come,
\* unless a line like */ matches the empty path of the directory itself.
Speaking(of) == SelectSeq(of, LAMBDA l : "[" \notin ToSet(l))
IsText(line) == NoUtf8 \notin ToSet(line)
\* What a file says: its lines up to one that is no text, the first without what
\* marks the file as UTF-8.
TextOf(of) ==
    LET upTo == {n \in 0 .. Len(of) : \A i \in 1 .. n : IsText(of[i])}
        said(i) == IF i = 1 THEN SelectSeq(of[i], LAMBDA c : c # Mark) ELSE of[i]
    IN  [i \in 1 .. Max(upTo) |-> said(i)]
GitignoreSays(lines, gi, below) ==
    \A p \in RulePaths, d \in BOOLEAN :
        /\ {GitignoreMatched(gi, p, d),
            GitignoreMatched(below, <<".", "/">> \o Root \o <<"/">> \o p, d)}
               = {ManualVerdict(lines, p, d)}
        /\ ((\A i \in DOMAIN lines : ManualRule(lines[i]).verdict # "whitelist")
             /\ ManualVerdict(lines, <<>>, TRUE) = "none") =>
              (MatchedPathOrAnyParents(gi, p, d) = "ignore" <=> Cut(lines, p, d))
LinesSay(of) ==
    GitignoreSays(Speaking(TextOf(of)), AddFile(NewGitignore(<<>>), of),
                  AddFile(NewGitignore(<<".", "/">> \o Root), of))

\* As overrides the same lines say the opposite, and a file that no line speaks
\* of is ignored if any line asks for files (overrides.rs:97).
AsOverride(verdict, otherwise) ==
    CASE verdict = "ignore" -> "whitelist" [] verdict = "whitelist" -> "ignore"
      [] OTHER -> otherwise
OverrideSays(of, lines, ov) ==
    LET asks == \E i \in DOMAIN lines :
                    ~SaysNothing(lines[i]) /\ ManualRule(lines[i]).verdict = "ignore"
    IN  /\ ov.errors = Len(of) - Len(lines)
        /\ \A p \in RulePaths, d \in BOOLEAN :
              OverrideMatched(ov, p, d) =
                  AsOverride(ManualVerdict(lines, p, d), IF asks /\ ~d THEN "ignore" ELSE "none")
OverridesSay(of) ==
    (\A i \in DOMAIN of : IsText(of[i])) =>
        OverrideSays(of, Speaking(of), FoldLeft(AddLine, NewOverride(<<>>), of))

\* The last selection whose type, as it is defined in the end, recognizes the
\* name of a file decides; once a type is selected nothing else is searched
\* (types.rs:261, 322).
BuiltSays(b, t) ==
    ~t.error => \A p \in {<<"a">>, <<"a", "b">>, <<"b", "/", "a">>, <<"a", ".">>} :
        LET hits == {i \in DOMAIN b.selections :
                        p # <<"a", ".">> /\
                        Recognized(b, b.selections[i].name, From(p, LastOf(p, "/") + 1))}
        IN  /\ TypesMatched(t, p, TRUE) = "none"
            /\ TypesMatched(t, p, FALSE) =
                 IF hits # {}
                 THEN IF b.selections[Max(hits)].negated THEN "ignore" ELSE "whitelist"
                 ELSE IF /\ \E i \in DOMAIN b.selections : ~b.selections[i].negated
                         /\ t.set # <<>>
                      THEN "ignore" ELSE "none"
DefinedSays(b) == BuiltSays(b, BuildTypes(b))
TypesSay(changes) ==
    LET b == FoldLeft(ChangeType, NewTypes, changes)
    IN  /\ DefinedSays(b)
        /\ (\E i \in DOMAIN changes : changes[i].op = "add" /\ changes[i].name \in BadNames)
               => b.error

\* The three kinds of rules keep to the manual and to their documentation.
RulesExact ==
    CASE subject.kind = "lines" -> LinesSay(subject.of) /\ OverridesSay(subject.of)
      [] subject.kind = "types" -> TypesSay(subject.of)
      [] OTHER -> TRUE

-----------------------------------------------------------------------------
(* Matchers and searches                                                   *)

Expression ==
    /\ Due("expression")
    /\ \E h \in Matchers!Trees : Pick("expression", h)
Flags ==
    /\ Due("patterns")
    /\ \E args \in Matchers!Args, p \in Matchers!Patterns, q \in Matchers!PlainPatterns :
       /\ Matchers!Given(args, <<p, q>>)
       /\ Pick("patterns", [args |-> args, patterns |-> <<p, q>>])
Source ==
    /\ Due("source")
    /\ \E args \in Matchers!SearchArgs, p \in Matchers!SearchedPatterns, s \in Matchers!Sources :
       Pick("source", [args |-> args, pattern |-> p, source |-> s])

\* What the regex crate derives from an expression never loses a match: the
\* expression without its line terminator, the shortcut for plain patterns, the
\* bytes that do not match and the literals that find candidate lines.
RegexExact ==
    CASE subject.kind = "expression" -> Matchers!ExtractionSays(subject.of)
      [] subject.kind = "patterns" -> Matchers!MatcherSays(subject.of.args, subject.of.patterns)
      [] OTHER -> TRUE

\* Memory maps, readers and the multi-line buffer are but ways to search the
\* same text.
StrategyExact ==
    subject.kind = "source" =>
        \A old \in Matchers!Left, reads \in Matchers!Reads :
            Matchers!StrategySays(subject.of.args, subject.of.pattern, subject.of.source, old, reads)

-----------------------------------------------------------------------------
(* Printed lines                                                           *)

PrintedLine ==
    /\ Due("printed")
    /\ \E text \in Printed!LineTexts, p \in Printed!LinePatterns,
          end \in {<<>>, <<"lf">>, <<"cr", "lf">>}, term \in {"lf", "crlf"}, context \in BOOLEAN :
           \E invert \in {FALSE, context} :
               Pick("printed", Printed!Single(<<"a", "lf">>, text, end, p, term, context, invert))
PrintedBlock ==
    /\ Due("printed")
    /\ \E bytes \in Printed!BlockTexts, p \in Printed!BlockPatterns :
           \E range \in Printed!Blocks(p, bytes) :
               Pick("printed", Printed!Subject(bytes, range, p, Printed!Search("lf", TRUE, FALSE), FALSE))

\* The printer shows every line, match or part of a match once, with the place
\* and the color it has, although it finds the matches anew, in the lines
\* alone or with a part of what follows them (printer/src/util.rs:467,
\* standard.rs:946).
LinesExact == subject.kind = "printed" => Printed!PrintedSays(subject.of)

-----------------------------------------------------------------------------
(* Conversions                                                             *)

Number ==
    /\ Due("number")
    /\ \E n \in Converted!Numbers : Pick("number", n)
Bytes ==
    /\ Due("bytes")
    /\ \E bytes \in Converted!ByteSeqs : Pick("bytes", bytes)
Template ==
    /\ Due("template")
    /\ \E items \in Converted!Templates : Pick("template", items)
ColorList ==
    /\ Due("colors")
    /\ \E list \in Converted!SpecLists : Pick("colors", list)
Format ==
    /\ Due("format")
    /\ \E items \in Converted!Formats : Pick("format", items)
LinkPath ==
    /\ Due("path")
    /\ \E path \in Converted!LinkPaths : Pick("path", path)
Compression ==
    /\ Due("compression")
    /\ \E c \in Converted!Compressions : Pick("compression", c)

\* What is shown in another form, or given in one, keeps what it says: numbers
\* and bytes, replacements (interpolate.rs:12), colors, links (hyperlink/mod.rs:898)
\* and the commands for compressed files (decompress.rs:179).
ConversionsExact ==
    CASE subject.kind = "number" -> Converted!NumberSays(subject.of)
      [] subject.kind = "bytes" -> Converted!BytesSay(subject.of)
      [] subject.kind = "template" -> Converted!TemplateSays(subject.of)
      [] subject.kind = "colors" -> Converted!ColorsSay(subject.of)
      [] subject.kind = "format" -> Converted!FormatSays(subject.of)
      [] subject.kind = "path" -> Converted!PathSays(subject.of)
      [] subject.kind = "compression" -> Converted!CompressionSays(subject.of)
      [] OTHER -> TRUE

Next == PlainGlob \/ ClassGlob \/ BraceGlob \/ GlobPair
        \/ IgnoreLine \/ IgnoreFile \/ IgnoreMarked \/ Types
        \/ Expression \/ Flags \/ Source \/ PrintedLine \/ PrintedBlock
        \/ Number \/ Bytes \/ Template \/ ColorList \/ Format \/ LinkPath \/ Compression
==============================================================================
