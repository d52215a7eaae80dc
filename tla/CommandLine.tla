---------------------------- MODULE CommandLine ----------------------------
(***************************************************************************)
(* How ripgrep's arguments become its configuration: the two passes of     *)
(* crates/core/flags/parse.rs over the command line and the configuration  *)
(* file (config.rs), and the conversion in hiargs.rs of what they leave.   *)
(*                                                                         *)
(* A token is one shell argument, split as the lexer splits it: a flag's   *)
(* name with, perhaps, a value attached, or a text that is no flag.  Short *)
(* names and aliases are written as the long name they stand for, but for  *)
(* -h and -V, which differ from it.                                        *)
(***************************************************************************)
EXTENDS Flags, FiniteSets, SequencesExt

CONSTANTS
    Groups,        \* what arguments are made of: see Group
    Environments,  \* what ripgrep finds: see Environment
    PatternFiles,  \* the files -f may name, with the patterns in each
    Directories,   \* the paths that are directories
    RegularFiles,  \* and those that are files
    FileTypes,     \* the names of the default file types
    Definitions,   \* of file types: what each defines and what it includes
    Cores          \* available_parallelism

Environment == [tty : BOOLEAN, stdin : BOOLEAN, times : BOOLEAN]
\* The arguments given are up to `max' tokens of a group, split in any way
\* between file and command line, with `last' at the end.
Group(tokens, max, last) == [tokens |-> tokens, max |-> max, last |-> last]
ASSUME CommandLineAssumption ==
    /\ Environments \subseteq Environment
    /\ \A g \in Groups : g.max \in Nat /\ g.last \in Seq(ToSet(g.last))
    /\ Cores \in Nat \ {0}

VARIABLES
    config,   \* the lines of the configuration file, <<>> if there is none
    cli,      \* the command line
    env,      \* the environment
    pass,     \* "cli", "both" or "done": what is being parsed
    rest,     \* the tokens not yet parsed
    ended,    \* whether the lexer has seen --
    low,      \* LowArgs
    levels,   \* the global message switches and log level
    outcome   \* "parsing", or how it ended
vars == <<config, cli, env, pass, rest, ended, low, levels, outcome>>
input == <<config, cli, env>>

\* Tokens.  A line of the file may also be blank or a comment.
Flag(name) == [name |-> name, value |-> None]
FlagWith(name, v) == [name |-> name, value |-> Some(v)]
Plain(text) == [name |-> "", value |-> Some(text)]
DashDash == Flag("--")
Comment == Flag("#")
The(option) == CHOOSE x \in option : TRUE
\* A token taken as the value of the flag before it.
Raw(t) == IF t.name = "" THEN The(t.value) ELSE "-" \o t.name

\* config::args: every line that is not blank or a comment is one argument.
ConfigArgs(lines) ==
    LET args[i \in 0..Len(lines)] ==
          IF i = 0 THEN <<>>
          ELSE IF lines[i] = Comment THEN args[i - 1]
          ELSE Append(args[i - 1], lines[i])
    IN  args[Len(lines)]

Specials == [n \in {"h", "help", "V", "version"} |->
    CASE n = "h" -> "HelpShort" [] n = "help" -> "HelpLong"
      [] n = "V" -> "VersionShort" [] n = "version" -> "VersionLong"]

LogLevels(a) ==
    [messages |-> ~a.no_messages, ignore_messages |-> ~a.no_ignore_messages,
     level |-> OrElse(a.logging, "Warn")]

Init ==
    /\ \E g \in Groups : \E n \in 0..g.max :
         \E s \in [1..n -> g.tokens], k \in 0..n :
            config = SubSeq(s, 1, k) /\ cli = SubSeq(s, k + 1, n) \o g.last
    /\ env \in Environments
    /\ pass = "cli" /\ rest = cli /\ ended = FALSE /\ low = Default
    /\ levels = [messages |-> FALSE, ignore_messages |-> FALSE,
                 level |-> "Off"]
    /\ outcome = "parsing"
-----------------------------------------------------------------------------
Parsing == outcome = "parsing" /\ rest # <<>>
AtFlag == Parsing /\ ~ended /\ Head(rest).name \notin {"", "--"}

EndOfFlags ==
    /\ Parsing /\ ~ended /\ Head(rest) = DashDash
    /\ ended' = TRUE /\ rest' = Tail(rest)
    /\ UNCHANGED <<input, pass, low, levels, outcome>>

Positional ==
    /\ Parsing /\ (ended \/ Head(rest).name = "")
    /\ low' = [low EXCEPT !.positional = Append(@, Raw(Head(rest)))]
    /\ rest' = Tail(rest)
    /\ UNCHANGED <<input, pass, ended, levels, outcome>>

SpecialFlag ==
    /\ AtFlag
    /\ LET t == Head(rest)
       IN  /\ t.name \in DOMAIN Specials /\ t.value = None
           /\ low' = [low EXCEPT !.special = Some(Specials[t.name])]
    /\ rest' = Tail(rest)
    /\ UNCHANGED <<input, pass, ended, levels, outcome>>

SwitchFlag ==
    /\ AtFlag
    /\ LET t == Head(rest)
       IN  /\ t.name \in Switches \ DOMAIN Specials /\ t.value = None
           /\ ~SwitchRefused(t.name, low)
           /\ low' = SwitchUpdate(t.name, TRUE, low)
    /\ rest' = Tail(rest)
    /\ UNCHANGED <<input, pass, ended, levels, outcome>>

\* A negated name is a switch, even where the flag itself takes a value.
NegatedFlag ==
    /\ AtFlag /\ Head(rest).value = None
    /\ \E n \in Negations :
         /\ n[1] = Head(rest).name
         /\ low' = SwitchUpdate(n[2], FALSE, low)
    /\ rest' = Tail(rest)
    /\ UNCHANGED <<input, pass, ended, levels, outcome>>

\* A flag's value is attached to it or is the next argument, whatever that is.
HasValue(tokens) == tokens[1].value # None \/ Len(tokens) > 1
ValueOf(tokens) ==
    IF tokens[1].value # None THEN The(tokens[1].value) ELSE Raw(tokens[2])
AfterValue(tokens) ==
    IF tokens[1].value # None THEN Tail(tokens) ELSE Tail(Tail(tokens))

ValueFlag ==
    /\ AtFlag /\ Head(rest).name \in Valued /\ HasValue(rest)
    /\ ~ValueRefused(Head(rest).name, ValueOf(rest))
    /\ low' = ValueUpdate(Head(rest).name, ValueOf(rest), low)
    /\ rest' = AfterValue(rest)
    /\ UNCHANGED <<input, pass, ended, levels, outcome>>

\* Unrecognized flags, switches given a value, missing and bad values.
BadFlag ==
    /\ AtFlag
    /\ LET t == Head(rest)
           switch ==
             t.name \in Switches \cup NegatedNames \cup DOMAIN Specials
       IN  \/ ~switch /\ t.name \notin Valued
           \/ switch /\ (t.value # None \/ SwitchRefused(t.name, low))
           \/ /\ t.name \in Valued
              /\ (HasValue(rest) => ValueRefused(t.name, ValueOf(rest)))
    /\ outcome' = "error" /\ pass' = "done"
    /\ UNCHANGED <<input, rest, ended, low, levels>>

\* The file's arguments come first, so that the command line wins.
\* Mutant of FinalArgs: the other way around.
FinalArgsSwapped == cli \o ConfigArgs(config)
FinalArgs == ConfigArgs(config) \o cli

\* The end of the first pass: help and version at once; then, unless
\* --no-config says otherwise, once more with the file's arguments in front.
FirstPassEnds ==
    /\ outcome = "parsing" /\ pass = "cli" /\ rest = <<>>
    /\ levels' = LogLevels(low)
    /\ IF low.special # None THEN
         /\ outcome' = "special" /\ pass' = "done"
         /\ UNCHANGED <<rest, ended, low>>
       ELSE IF low.no_config \/ ConfigArgs(config) = <<>> THEN
         /\ pass' = "done"
         /\ UNCHANGED <<rest, ended, low, outcome>>
       ELSE
         /\ pass' = "both" /\ rest' = FinalArgs
         /\ ended' = FALSE /\ low' = Default
         /\ UNCHANGED outcome
    /\ UNCHANGED input

SecondPassEnds ==
    /\ outcome = "parsing" /\ pass = "both" /\ rest = <<>>
    /\ levels' = LogLevels(low) /\ pass' = "done"
    /\ UNCHANGED <<input, rest, ended, low, outcome>>
-----------------------------------------------------------------------------
\* HiArgs::from_low_args.

\* -v --count-matches counts lines, -o --count counts matches.
FinalMode(a) ==
    IF a.mode = "CountMatches" /\ a.invert_match THEN "Count"
    ELSE IF a.mode = "Count" /\ a.only_matching THEN "CountMatches"
    ELSE a.mode
Searches(a) == FinalMode(a) \in SearchModes

\* Patterns::from_low_args: every pattern once, in order; stdin only once.
AddPattern(p, x) == IF x \in ToSet(p) THEN p ELSE Append(p, x)
AddSource(acc, source) ==
    IF source[1] = "Regexp" THEN
        [acc EXCEPT !.patterns = AddPattern(@, source[2])]
    ELSE IF \/ source[2] \notin DOMAIN PatternFiles
            \/ source[2] = "-" /\ acc.stdin
    THEN [acc EXCEPT !.ok = FALSE]
    ELSE
        LET read == PatternFiles[source[2]]
        IN  [acc EXCEPT !.patterns = FoldLeft(AddPattern, @, read),
                        !.stdin = @ \/ source[2] = "-"]

Patterns(a) ==
    LET none == [ok |-> TRUE, patterns |-> <<>>, stdin |-> FALSE,
                 paths |-> a.positional]
        read[i \in 0..Len(a.patterns)] ==
          IF i = 0 THEN none ELSE AddSource(read[i - 1], a.patterns[i])
    IN  IF ~Searches(a) THEN none
        ELSE IF a.patterns # <<>> THEN read[Len(a.patterns)]
        ELSE IF a.positional = <<>> \/ Head(a.positional) \in Invalid THEN
            [none EXCEPT !.ok = FALSE]
        ELSE [none EXCEPT !.patterns = <<Head(a.positional)>>,
                          !.paths = Tail(@)]

\* Paths::from_low_args: without a path, the directory or what is piped in.
\* Mutant of UseCwd: forgets that stdin may have been read for patterns.
UseCwdForgets(a, stdinConsumed) == ~env.stdin \/ ~Searches(a)
UseCwd(a, stdinConsumed) == ~env.stdin \/ stdinConsumed \/ ~Searches(a)
Paths(a) ==
    LET p == Patterns(a)
        given == p.paths # <<>>
        cwd == UseCwd(a, p.stdin)
        paths == IF given THEN p.paths ELSE IF cwd THEN <<"./">> ELSE <<"-">>
    IN  [ok |-> p.ok /\ ~(given /\ p.stdin /\ "-" \in ToSet(p.paths)),
         paths |-> paths, implicit |-> ~given,
         oneFile |-> IF given
                     THEN Len(paths) = 1 /\ paths[1] \notin Directories
                     ELSE ~cwd]

BinaryDetection(a) ==
    LET none == a.binary = "AsText" \/ a.null_data
    IN  [explicit |-> IF none THEN "none" ELSE "convert",
         implicit |-> IF none THEN "none"
                      ELSE IF a.binary = "SearchAndSuppress" THEN "convert"
                      ELSE "quit"]

\* types(): the changes in order; at the end every selected type must exist.
TypeChange(acc, change) ==
    LET kind == change[1]
        text == change[2]
        new == Definitions[text]
    IN  IF kind = "Clear" THEN [acc EXCEPT !.known = @ \ {text}]
        ELSE IF kind \in {"Select", "Negate"} THEN
            [acc EXCEPT !.selected =
                @ \cup IF text = "all" THEN acc.known ELSE {text}]
        ELSE IF text \in DOMAIN Definitions /\ new.includes \subseteq acc.known
        THEN [acc EXCEPT !.known = @ \cup {new.name}]
        ELSE [acc EXCEPT !.ok = FALSE]
Types(a) ==
    LET all == FoldLeft(TypeChange, [ok |-> TRUE, known |-> FileTypes,
                                     selected |-> {}], a.type_changes)
    IN  [all EXCEPT !.ok = @ /\ all.selected \subseteq all.known]
Globs(a) == ToSet(a.globs) \cup ToSet(a.iglobs) \cup ToSet(a.pre_glob)

Supported(sort) == sort.kind = "path" \/ env.times

\* The fields of HiArgs that are computed; the others are copied.
HiArgs(a) ==
    LET mode == FinalMode(a)
        p == Paths(a)
        column == OrElse(a.column, a.vimgrep)
        heading == OrElse(a.heading, env.tty) /\ ~a.vimgrep
        stats == Searches(a) /\ (a.stats \/ mode = "JSON")
        blame == OrElse(a.git_blame, ~a.quiet /\ mode = "Standard")
        shown == (env.tty /\ p.paths # <<"-">>) \/ column \/ a.vimgrep
        numbers ==
            ~a.quiet /\ (mode = "JSON" \/ (mode = "Standard" /\ shown))
        contexts == ~a.context.passthru
                    /\ (Before(a.context) > 0 \/ After(a.context) > 0)
    IN  [mode |-> mode, patterns |-> Patterns(a).patterns, paths |-> p.paths,
         stdinPatterns |-> Patterns(a).stdin, implicitPath |-> p.implicit,
         binary |-> BinaryDetection(a),
         color |-> IF a.color = "auto" /\ ~env.tty THEN "never" ELSE a.color,
         column |-> column, heading |-> heading, stats |-> stats,
         quitAfterMatch |-> ~stats /\ a.quiet,
         threads |-> IF a.sort # None \/ p.oneFile THEN 1
                     ELSE OrElse(a.threads, IF Cores < 12 THEN Cores ELSE 12),
         git_blame |-> blame,
         line_number |-> blame \/ OrElse(a.line_number, numbers),
         with_filename |-> OrElse(a.with_filename,
                                  a.vimgrep \/ ~p.oneFile \/ blame),
         file_separator |-> IF mode # "Standard" THEN None
                            ELSE IF heading THEN Some("")
                            ELSE IF contexts THEN a.context_separator
                            ELSE None,
         mmap |-> \/ a.mmap = "AlwaysTryMmap"
                  \/ /\ a.mmap = "Auto" /\ Len(p.paths) <= 10
                     /\ ToSet(p.paths) \subseteq RegularFiles]

\* assert_eq!(None, low.special): a special flag in the configuration file
\* gets as far as this.
Convert ==
    /\ outcome = "parsing" /\ pass = "done"
    /\ outcome' =
         IF low.special # None THEN "panic"
         ELSE IF \/ \E s \in low.sort : ~Supported(s)
                 \/ ~Paths(low).ok \/ ~Types(low).ok
                 \/ Globs(low) \cap Invalid # {}
              THEN "error" ELSE "configured"
    /\ UNCHANGED <<input, pass, rest, ended, low, levels>>

Done == outcome # "parsing" /\ UNCHANGED vars

Next ==
    \/ EndOfFlags \/ Positional \/ SpecialFlag \/ SwitchFlag \/ NegatedFlag
    \/ ValueFlag \/ BadFlag \/ FirstPassEnds \/ SecondPassEnds \/ Convert
    \/ Done

Spec == Init /\ [][Next]_vars
-----------------------------------------------------------------------------
\* A reference for what a sequence of flags means, read off the whole
\* sequence: which of two flags that exclude each other came last, and so on.

\* A flag that was given, with its value.
Word(t, v) ==
    [flag |-> IF t.name \in NegatedNames
              THEN (CHOOSE n \in Negations : n[1] = t.name)[2]
              ELSE t.name,
     on |-> t.name \notin NegatedNames, text |-> v]
\* Whether a flag's value is the next token.
Takes(t) == t.name \in Valued /\ t.value = None
\* The flags in a sequence of tokens with their values.
Words(tokens) ==
    LET from[i \in 1..(Len(tokens) + 2)] ==
          IF i > Len(tokens) THEN <<>>
          ELSE IF tokens[i] = DashDash THEN <<>>
          ELSE IF tokens[i].name = "" THEN from[i + 1]
          ELSE IF Takes(tokens[i]) /\ i < Len(tokens) THEN
            <<Word(tokens[i], Raw(tokens[i + 1]))>> \o from[i + 2]
          ELSE <<Word(tokens[i], OrElse(tokens[i].value, ""))>> \o from[i + 1]
    IN  from[1]

MaxOf(S) == CHOOSE x \in S : \A y \in S : y <= x
IndexOf(ws, flags, on) ==
    MaxOf({0} \cup
          {i \in 1..Len(ws) : ws[i].flag \in flags /\ ws[i].on = on})
On(ws, flag) == IndexOf(ws, {flag}, TRUE)
Off(ws, flag) == IndexOf(ws, {flag}, FALSE)
Latest(ws, flag) == MaxOf({On(ws, flag), Off(ws, flag)})
\* Where a flag is given for the nth time.
Time(ws, flag, n) ==
    LET nth(i) == ws[i].flag = flag
                  /\ Cardinality({j \in 1..i : ws[j].flag = flag}) = n
    IN  MaxOf({0} \cup {i \in 1..Len(ws) : nth(i)})

ModeFlags == {"count", "count-matches", "files", "files-with-matches",
              "files-without-match", "json", "type-list", "generate"}
ModeOf(w) ==
    CASE w.flag = "count" -> "Count" [] w.flag = "files" -> "Files"
      [] w.flag = "type-list" -> "Types"
      [] w.flag = "count-matches" -> "CountMatches"
      [] w.flag = "files-with-matches" -> "FilesWithMatches"
      [] w.flag = "files-without-match" -> "FilesWithoutMatch"
      [] w.flag = "json" -> "JSON" [] w.flag = "generate" -> w.text
\* The modes that do not search.  They override each other and the modes that
\* do, which do not override them (the comments of Mode::update).
OtherModeFlags == {"files", "type-list", "generate"}
ExpectedMode(ws) ==
    LET n == IndexOf(ws, OtherModeFlags, TRUE)
        m == IndexOf(ws, ModeFlags, TRUE)
    IN  IF n # 0 THEN ModeOf(ws[n])
        ELSE IF m = 0 THEN "Standard"
        ELSE IF ws[m].flag = "json" /\ Off(ws, "json") > m THEN "Standard"
        ELSE ModeOf(ws[m])
\* A mode that searches comes after one that does not, and in the code replaces
\* it all the same.
Overtaken(ws) ==
    LET n == IndexOf(ws, OtherModeFlags, TRUE)
    IN  n # 0 /\ IndexOf(ws, ModeFlags, TRUE) > n

\* The lines of context a side gets: what was last said of it since the last
\* --passthru, or else what was last said of both.
ExpectedSide(ws, flag) ==
    LET since(f) == On(ws, f) > On(ws, "passthru")
    IN  IF since(flag) THEN Number[ws[On(ws, flag)].text]
        ELSE IF since("context") THEN Number[ws[On(ws, "context")].text]
        ELSE 0

\* Whether a switch that -u may also set, the nth time, ends up set.
ExpectedSwitch(ws, flags, n) ==
    MaxOf({On(ws, f) : f \in flags} \cup {Time(ws, "unrestricted", n)})
        > MaxOf({Off(ws, f) : f \in flags})

ExpectedBinary(ws) ==
    LET suppress == MaxOf({On(ws, "binary"), Time(ws, "unrestricted", 3)})
        text == On(ws, "text")
        auto == MaxOf({Off(ws, "binary"), Off(ws, "text")})
    IN  IF suppress > MaxOf({text, auto}) THEN "SearchAndSuppress"
        ELSE IF text > auto THEN "AsText" ELSE "Auto"

PreOn(ws) == MaxOf({0} \cup {i \in 1..Len(ws) :
                    ws[i].flag = "pre" /\ ws[i].on /\ ws[i].text # ""})

Agree(a, ws) ==
    /\ a.crlf =
         (On(ws, "crlf") > MaxOf({Off(ws, "crlf"), On(ws, "null-data")}))
    /\ a.null_data = (On(ws, "null-data") > On(ws, "crlf"))
    /\ a.multiline =
         (On(ws, "multiline") >
            MaxOf({Off(ws, "multiline"), On(ws, "stop-on-nonmatch")}))
    /\ a.stop_on_nonmatch = (On(ws, "stop-on-nonmatch") > On(ws, "multiline"))
    /\ a.search_zip = (On(ws, "search-zip") >
                         MaxOf({Off(ws, "search-zip"), PreOn(ws)}))
    /\ a.pre =
         IF PreOn(ws) = Latest(ws, "pre") /\ PreOn(ws) > On(ws, "search-zip")
         THEN Some(ws[PreOn(ws)].text) ELSE None
    /\ a.context.passthru = (On(ws, "passthru") >
         IndexOf(ws, {"before-context", "after-context", "context"}, TRUE))
    /\ ~a.context.passthru =>
         /\ Before(a.context) = ExpectedSide(ws, "before-context")
         /\ After(a.context) = ExpectedSide(ws, "after-context")
    /\ ~Overtaken(ws) => a.mode = ExpectedMode(ws)
    /\ a.no_ignore_vcs = ExpectedSwitch(ws, {"no-ignore", "no-ignore-vcs"}, 1)
    /\ a.no_ignore_dot = ExpectedSwitch(ws, {"no-ignore", "no-ignore-dot"}, 1)
    /\ a.hidden = ExpectedSwitch(ws, {"hidden"}, 2)
    /\ a.binary = ExpectedBinary(ws)
-----------------------------------------------------------------------------
\* Whatever the flags, their order and their distribution over the
\* configuration file and the command line, the arguments ripgrep is
\* configured with are those that the file's flags followed by the command
\* line's mean: later flags win, but a mode that does not search wins over those
\* that do; -A and -B win over -C, the second and third -u mean what they are
\* documented to, and --no-config counts only on the command line (parse_low,
\* and the updates in defs.rs).  Of the mode nothing is said where the code does
\* otherwise: a search mode given after one that does not search (Overtaken).
OverridesExact ==
    outcome = "configured" =>
        LET file == IF On(Words(cli), "no-config") > 0
                    THEN <<>> ELSE ConfigArgs(config)
        IN  Agree(low, Words(file \o cli))

\* Flags that exclude each other are never both in effect, at any point of the
\* parsing: the search worker prefers --pre to -z, the searcher \r\n to NUL
\* and multi-line search ignores stop-on-nonmatch, each without a word.
NeverBoth ==
    /\ ~(low.crlf /\ low.null_data)
    /\ ~(low.pre # None /\ low.search_zip)
    /\ ~(low.multiline /\ low.stop_on_nonmatch)

\* Standard input is read for patterns or searched, not both, and is read for
\* patterns at most once (the State that Patterns::from_low_args and
\* Paths::from_low_args pass on); and a search always has a place to look.
StdinReadOnce ==
    outcome = "configured" /\ low.mode \in SearchModes =>
        /\ HiArgs(low).stdinPatterns => "-" \notin ToSet(HiArgs(low).paths)
        /\ Cardinality({i \in DOMAIN low.patterns :
                         low.patterns[i] = <<"File", "-">>}) <= 1
        /\ HiArgs(low).paths # <<>>
=============================================================================
