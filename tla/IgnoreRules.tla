---------------------------- MODULE IgnoreRules ----------------------------
(***************************************************************************)
(* The matchers of the crate ignore that are built from globs: the lines   *)
(* of an ignore file (gitignore.rs), overrides (overrides.rs) and file     *)
(* types (types.rs), with the helpers on paths they use (pathutil.rs).     *)
(*                                                                         *)
(* A verdict is "none", "ignore" or "whitelist".  IgnoreChain arranges the *)
(* matchers in chains; it takes what each of them says as given.           *)
(***************************************************************************)
EXTENDS Globs

LOCAL INSTANCE SequencesExt
LOCAL INSTANCE FiniteSetsExt
LOCAL INSTANCE Folds

\* pathutil: all of these look at the bytes, not at the components.
StripPrefix(p, path) == IF StartsWith(path, p) THEN From(path, Len(p) + 1) ELSE path
IsFileName(path) == ~\E i \in DOMAIN path : path[i] = "/"
FileName(path) ==    \* NoText for every path that ends with a dot
    IF path = <<>> \/ EndsWith(path, <<".">>) THEN NoText
    ELSE From(path, LastOf(path, "/") + 1)

Parent(path) ==
    IF path = <<>> THEN NoText ELSE SubSeq(path, 1, Max({1, LastOf(path, "/")}) - 1)

-----------------------------------------------------------------------------
(* Lines of an ignore file                                                 *)

Trimmed(line) == SubSeq(line, 1, Max({0} \cup {i \in DOMAIN line : line[i] # " "}))
KeepsSpace(line) == EndsWith(line, <<"\\", " ">>)
SaysNothing(line) == StartsWith(line, <<"#">>) \/ Trimmed(line) = <<>>

\* The glob that stands for what a line says: with ** in front if the line
\* has no slash, and with a name behind a ** at the end, so that it does not
\* stand for the directory itself.
HasDoublestarPrefix(text) == StartsWith(text, <<"*", "*", "/">>) \/ text = Stars
Actual(absolute, text) ==
    LET anywhere == ~absolute /\ IsFileName(text) /\ ~HasDoublestarPrefix(text)
        whole == IF anywhere THEN <<"*", "*", "/">> \o text ELSE text
    IN  IF EndsWith(whole, <<"/", "*", "*">>) THEN whole \o <<"/", "*">> ELSE whole

ActualEverywhere(absolute, text) ==    \* mutant: a leading slash anchors nothing
    LET anywhere == IsFileName(text) /\ ~HasDoublestarPrefix(text)
        whole == IF anywhere THEN <<"*", "*", "/">> \o text ELSE text
    IN  IF EndsWith(whole, <<"/", "*", "*">>) THEN whole \o <<"/", "*">> ELSE whole

Rule(line) ==
    LET kept == IF KeepsSpace(line) THEN line ELSE Trimmed(line)
        escaped == \E c \in {"!", "#"} : StartsWith(kept, <<"\\", c>>)
        white == ~escaped /\ StartsWith(kept, <<"!">>)
        said == IF escaped \/ white THEN Tail(kept) ELSE kept
        absolute == StartsWith(said, <<"/">>)
        body == IF absolute THEN Tail(said) ELSE said
        onlyDir == EndsWith(body, <<"/">>)
        named == IF onlyDir THEN Front(body) ELSE body
        text == IF onlyDir /\ EndsWith(named, <<"\\">>) THEN Front(named) ELSE named
    IN  [is_whitelist |-> white, is_only_dir |-> onlyDir,
         actual |-> Actual(absolute, text)]

\* GitignoreBuilder
NewGitignore(root) ==
    [root |-> StripPrefix(<<".", "/">>, root), rules |-> <<>>, globs |-> <<>>,
     case_insensitive |-> FALSE, allow_unclosed_class |-> TRUE, errors |-> 0]

LineOptions(b) ==
    [case_insensitive |-> b.case_insensitive, literal_separator |-> TRUE,
     backslash_escape |-> TRUE, empty_alternates |-> FALSE,
     allow_unclosed_class |-> b.allow_unclosed_class]
Added(b, rule, glob) ==
    IF glob.error # "none" THEN [b EXCEPT !.errors = @ + 1]
    ELSE [b EXCEPT !.rules = Append(@, rule), !.globs = Append(@, glob)]
AddRule(b, rule) == Added(b, rule, Build(rule.actual, LineOptions(b)))
AddLine(b, line) ==
    IF SaysNothing(line) THEN b
    ELSE AddRule(b, Rule(line))

\* GitignoreBuilder::add: a line that fails does not lose the others, one that
\* cannot be read, because it is no UTF-8, loses those behind it; byte order
\* marks in front of the first are not part of it.
Mark == "byte order mark"
NoUtf8 == "no UTF-8"
Readable(lines) ==
    SubSeq(lines, 1, Min({Len(lines) + 1} \cup
                         {i \in DOMAIN lines : NoUtf8 \in ToSet(lines[i])}) - 1)
MarksKept(line) == line    \* mutant: a mark is part of the first line
WithoutMarks(line) ==
    From(line, Min({Len(line) + 1} \cup {i \in DOMAIN line : line[i] # Mark}))
AddFile(b, lines) ==
    LET read == Readable(lines)
        added == FoldLeft(AddLine, b, [i \in DOMAIN read |->
                              IF i = 1 THEN WithoutMarks(read[i]) ELSE read[i]])
    IN  [added EXCEPT !.errors = @ + (IF Len(read) < Len(lines) THEN 1 ELSE 0)]

\* Gitignore: the last line that matches decides.
FirstWins(gi, hits) == Min(hits)    \* mutant: the first line decides
Decides(gi, hits) == Max(hits)

VerdictOf(gi, hits) ==
    IF hits = {} THEN "none"
    ELSE IF gi.rules[Decides(gi, hits)].is_whitelist THEN "whitelist" ELSE "ignore"
MatchedStripped(gi, path, isDir) ==
    VerdictOf(gi, {i \in ToSet(Matches(gi.globs, path)) : gi.rules[i].is_only_dir => isDir})

Strip(gi, path) ==
    LET bare == StripPrefix(<<".", "/">>, path)
    IN  IF gi.root = <<".">> \/ IsFileName(bare) \/ ~StartsWith(bare, gi.root) THEN bare
        ELSE StripPrefix(<<"/">>, StripPrefix(gi.root, bare))

GitignoreMatched(gi, path, isDir) == MatchedStripped(gi, Strip(gi, path), isDir)

RECURSIVE PathOrParents(_, _, _)
PathOrParents(gi, path, isDir) ==
    IF MatchedStripped(gi, path, isDir) = "none" /\ Parent(path) # NoText
    THEN PathOrParents(gi, Parent(path), TRUE)
    ELSE MatchedStripped(gi, path, isDir)
MatchedPathOrAnyParents(gi, path, isDir) == PathOrParents(gi, Strip(gi, path), isDir)

-----------------------------------------------------------------------------
(* Overrides: lines of an ignore file with the opposite meaning.           *)

NewOverride(root) == [NewGitignore(root) EXCEPT !.allow_unclosed_class = FALSE]

Inverted(verdict) ==
    CASE verdict = "none" -> "none" [] verdict = "ignore" -> "whitelist"
      [] verdict = "whitelist" -> "ignore"

NumWhitelists(gi) == Cardinality({i \in DOMAIN gi.rules : ~gi.rules[i].is_whitelist})

OrUnasked(gi, mat, isDir) ==
    IF mat = "none" /\ NumWhitelists(gi) > 0 /\ ~isDir THEN "ignore" ELSE mat
OverrideMatched(gi, path, isDir) ==
    OrUnasked(gi, Inverted(GitignoreMatched(gi, path, isDir)), isDir)

-----------------------------------------------------------------------------
(* File types                                                              *)

\* TypesBuilder: the globs of every name, and the names selected or negated.
NewTypes == [types |-> <<>>, selections |-> <<>>, error |-> FALSE]

\* A name is made of letters and digits; "x-y" stands for those that are not.
BadNames == {"all", "x-y"}
AddType(b, name, globs) ==
    IF name \in BadNames THEN [b EXCEPT !.error = TRUE]
    ELSE LET old == IF name \in DOMAIN b.types THEN b.types[name] ELSE <<>>
         IN  [b EXCEPT !.types = [n \in DOMAIN @ \cup {name} |->
                                     IF n = name THEN old \o globs ELSE @[n]]]

\* name:include:others
IncludeTypes(b, name, others) ==
    IF ToSet(others) \subseteq DOMAIN b.types
    THEN FoldLeft(LAMBDA c, other : AddType(c, name, c.types[other]), b, others)
    ELSE [b EXCEPT !.error = TRUE]

ClearType(b, name) == [b EXCEPT !.types = [n \in DOMAIN @ \ {name} |-> @[n]]]

\* Selecting (negating) all does so for the names there are, in any order.
SelectType(b, name, negated) ==
    LET names == IF name = "all" THEN SetToSeq(DOMAIN b.types) ELSE <<name>>
    IN  [b EXCEPT !.selections =
            @ \o [i \in DOMAIN names |-> [name |-> names[i], negated |-> negated]]]

\* One change, as in TypeChange (flags/lowargs.rs) and HiArgs' types.
ChangeType(b, change) ==
    IF b.error THEN b
    ELSE CASE change.op = "add" -> AddType(b, change.name, <<change.glob>>)
           [] change.op = "include" -> IncludeTypes(b, change.name, change.others)
           [] change.op = "clear" -> ClearType(b, change.name)
           [] change.op = "select" -> SelectType(b, change.name, FALSE)
           [] change.op = "negate" -> SelectType(b, change.name, TRUE)

\* TypesBuilder::build: the globs of the selections one behind the other, each
\* with the selection it belongs to.
TypeOptions ==
    [case_insensitive |-> FALSE, literal_separator |-> TRUE, backslash_escape |-> TRUE,
     empty_alternates |-> FALSE, allow_unclosed_class |-> FALSE]
SelectedGlobs(b) ==
    LET globsOf(i) == b.types[b.selections[i].name]
    IN  FlattenSeq([i \in DOMAIN b.selections |->
            [j \in DOMAIN globsOf(i) |->
                [glob |-> Build(globsOf(i)[j], TypeOptions), isel |-> i]]])
BuiltTypes(b, all) ==
    [error |-> \E i \in DOMAIN all : all[i].glob.error # "none",
     selections |-> b.selections,
     has_selected |-> \E i \in DOMAIN b.selections : ~b.selections[i].negated,
     set |-> [i \in DOMAIN all |-> all[i].glob],
     glob_to_selection |-> [i \in DOMAIN all |-> all[i].isel]]
BuildTypes(b) ==
    IF b.error \/ \E i \in DOMAIN b.selections : b.selections[i].name \notin DOMAIN b.types
    THEN [error |-> TRUE] ELSE BuiltTypes(b, SelectedGlobs(b))

TypesVerdict(t, hits) ==
    IF hits = {} THEN IF t.has_selected THEN "ignore" ELSE "none"
    ELSE IF t.selections[t.glob_to_selection[Max(hits)]].negated
    THEN "ignore" ELSE "whitelist"
TypesMatched(t, path, isDir) ==
    LET name == FileName(path)
    IN  IF isDir \/ t.set = <<>> THEN "none"
        ELSE TypesVerdict(t, IF name = NoText THEN {} ELSE ToSet(Matches(t.set, name)))

-----------------------------------------------------------------------------
(* What the manual of gitignore says, which gitignore.rs:1-13 promises to  *)
(* implement, for lines without braces and classes.                        *)

\* Backslashes only quote in what follows.
Unquoted(text) == SelectSeq(text, LAMBDA c : c # "\\")

ManualRule(line) ==
    LET kept == IF KeepsSpace(line) THEN line ELSE Trimmed(line)
        white == StartsWith(kept, <<"!">>)
        pattern == IF white THEN Tail(kept) ELSE kept
        onlyDir == EndsWith(pattern, <<"/">>)
        text == Unquoted(IF onlyDir THEN Front(pattern) ELSE pattern)
        anchored == \E i \in DOMAIN text : text[i] = "/"
        names == Components(IF StartsWith(text, <<"/">>) THEN Tail(text) ELSE text)
    IN  [verdict |-> IF white THEN "whitelist" ELSE "ignore", only_dir |-> onlyDir,
         names |-> IF anchored THEN names ELSE <<Stars>> \o names]

\* The manual's verdict of a file's lines on a path: the last pattern decides.
LastVerdict(rule, hits) == IF hits = {} THEN "none" ELSE rule[Max(hits)].verdict
VerdictOfRules(rule, path, isDir) ==
    LastVerdict(rule, {i \in DOMAIN rule : /\ (rule[i].only_dir => isDir)
                                           /\ PathMeans(rule[i].names, Components(path))})
ManualVerdict(lines, path, isDir) ==
    LET said == SelectSeq(lines, LAMBDA line : ~SaysNothing(line))
    IN  VerdictOfRules([i \in DOMAIN said |-> ManualRule(said[i])], path, isDir)

\* Whether a type, as defined when all changes are made, has a glob for a name.
Recognized(b, type, name) ==
    \E i \in DOMAIN b.types[type] : NameMeans(b.types[type][i], name)
=============================================================================
