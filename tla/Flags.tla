------------------------------- MODULE Flags -------------------------------
(***************************************************************************)
(* The flags of ripgrep (crates/core/flags/defs.rs) and the record of      *)
(* low-level arguments they change (lowargs.rs).  There is one operator    *)
(* for each implementation of the trait Flag, with its name: what its      *)
(* method update does to the record `a', given a switch `yes' (FALSE for a *)
(* negated name) or a value `v'.  An Option is a set of at most one        *)
(* element; a value is a text, and what a text denotes as a number is a    *)
(* constant.                                                               *)
(***************************************************************************)
EXTENDS Naturals, Sequences

CONSTANTS
    Number,   \* the texts that are numbers or sizes, with what they denote
    Invalid   \* texts no parser of a value accepts

ASSUME FlagsAssumption == Number \in [DOMAIN Number -> Nat]

None == {}
Some(x) == {x}

SearchModes == {"Standard", "FilesWithMatches", "FilesWithoutMatch", "Count",
                "CountMatches", "JSON"}
GenerateModes == {"man", "complete-bash", "complete-zsh", "complete-fish",
                  "complete-powershell"}
SortMode(kind, reverse) == [kind |-> kind, reverse |-> reverse]

Unlimited ==
    [passthru |-> FALSE, before |-> None, after |-> None, both |-> None]

\* The arguments of a ripgrep that is given none.
Default ==
    [special |-> None, mode |-> "Standard", positional |-> <<>>,
     patterns |-> <<>>, binary |-> "Auto", boundary |-> None,
     buffer |-> "Auto", byte_offset |-> FALSE, case |-> "Sensitive",
     color |-> "auto", colors |-> <<>>, column |-> None,
     context |-> Unlimited, context_separator |-> Some("--"),
     crlf |-> FALSE, dfa_size_limit |-> None, encoding |-> "auto",
     engine |-> "default", field_context_separator |-> "-",
     field_match_separator |-> ":", fixed_strings |-> FALSE,
     follow |-> FALSE, git_blame |-> None, glob_case_insensitive |-> FALSE,
     globs |-> <<>>, heading |-> None, hidden |-> FALSE,
     hostname_bin |-> None, hyperlink_format |-> "", iglobs |-> <<>>,
     ignore_file |-> <<>>, ignore_file_case_insensitive |-> FALSE,
     include_zero |-> FALSE, invert_match |-> FALSE, line_number |-> None,
     logging |-> None, max_columns |-> None, max_columns_preview |-> FALSE,
     max_count |-> None, max_depth |-> None, max_filesize |-> None,
     mmap |-> "Auto", multiline |-> FALSE, multiline_dotall |-> FALSE,
     no_config |-> FALSE, no_ignore_dot |-> FALSE,
     no_ignore_exclude |-> FALSE, no_ignore_files |-> FALSE,
     no_ignore_global |-> FALSE, no_ignore_messages |-> FALSE,
     no_ignore_parent |-> FALSE, no_ignore_vcs |-> FALSE,
     no_messages |-> FALSE, no_require_git |-> FALSE, no_unicode |-> FALSE,
     null |-> FALSE, null_data |-> FALSE, one_file_system |-> FALSE,
     only_matching |-> FALSE, path_separator |-> None, pre |-> None,
     pre_glob |-> <<>>, quiet |-> FALSE, regex_size_limit |-> None,
     replace |-> None, search_zip |-> FALSE, sort |-> None, stats |-> FALSE,
     stop_on_nonmatch |-> FALSE, threads |-> None, trim |-> FALSE,
     type_changes |-> <<>>, unrestricted |-> 0, vimgrep |-> FALSE,
     with_filename |-> None]

\* Mutant of ModeUpdate: nothing overrides a mode that does not search, another
\* of its kind neither.
ModeUpdateFirst(old, new) == IF old \in SearchModes THEN new ELSE old

\* Mode::update.  Both arms of the match assign: the inner test looks at the
\* old mode again, which is no search mode there, instead of the new one.
ModeUpdate(old, new) ==
    IF old \in SearchModes THEN new
    ELSE IF old \notin SearchModes THEN new ELSE old

\* ContextMode::set_before, set_after and set_both: any of them ends passthru
\* and forgets the numbers given before it.
SetContext(context, side, lines) ==
    LET limited == IF context.passthru THEN Unlimited ELSE context
    IN  [limited EXCEPT ![side] = Some(lines)]

OrElse(option, default) ==
    IF option = None THEN default ELSE CHOOSE x \in option : TRUE

\* ContextModeLimited::get: before and after override both in any order.
Before(context) == OrElse(context.before, OrElse(context.both, 0))
After(context) == OrElse(context.after, OrElse(context.both, 0))

AfterContext(v, a) == [a EXCEPT !.context = SetContext(@, "after", Number[v])]
AutoHybridRegex(yes, a) ==
    [a EXCEPT !.engine = IF yes THEN "auto" ELSE "default"]
BeforeContext(v, a) ==
    [a EXCEPT !.context = SetContext(@, "before", Number[v])]
Binary(yes, a) ==
    [a EXCEPT !.binary = IF yes THEN "SearchAndSuppress" ELSE "Auto"]
BlockBuffered(yes, a) == [a EXCEPT !.buffer = IF yes THEN "Block" ELSE "Auto"]
ByteOffset(yes, a) == [a EXCEPT !.byte_offset = yes]
CaseSensitive(a) == [a EXCEPT !.case = "Sensitive"]
Color(v, a) == [a EXCEPT !.color = v]
Colors(v, a) == [a EXCEPT !.colors = Append(@, v)]
Column(yes, a) == [a EXCEPT !.column = Some(yes)]
Context(v, a) == [a EXCEPT !.context = SetContext(@, "both", Number[v])]
ContextSeparator(v, a) == [a EXCEPT !.context_separator = Some(v)]
ContextSeparatorOff(a) == [a EXCEPT !.context_separator = None]
Count(a) == [a EXCEPT !.mode = ModeUpdate(@, "Count")]
CountMatches(a) == [a EXCEPT !.mode = ModeUpdate(@, "CountMatches")]
Crlf(yes, a) == [a EXCEPT !.crlf = yes, !.null_data = @ /\ ~yes]
Debug(a) == [a EXCEPT !.logging = Some("Debug")]
DfaSizeLimit(v, a) == [a EXCEPT !.dfa_size_limit = Some(Number[v])]
Encoding(v, a) == [a EXCEPT !.encoding = v]
EncodingOff(a) == [a EXCEPT !.encoding = "auto"]
Engine(v, a) == [a EXCEPT !.engine = v]
FieldContextSeparator(v, a) == [a EXCEPT !.field_context_separator = v]
FieldMatchSeparator(v, a) == [a EXCEPT !.field_match_separator = v]
File(v, a) == [a EXCEPT !.patterns = Append(@, <<"File", v>>)]
Files(a) == [a EXCEPT !.mode = ModeUpdate(@, "Files")]
FilesWithMatches(a) == [a EXCEPT !.mode = ModeUpdate(@, "FilesWithMatches")]
FilesWithoutMatch(a) == [a EXCEPT !.mode = ModeUpdate(@, "FilesWithoutMatch")]
FixedStrings(yes, a) == [a EXCEPT !.fixed_strings = yes]
Follow(yes, a) == [a EXCEPT !.follow = yes]
Generate(v, a) == [a EXCEPT !.mode = ModeUpdate(@, v)]
GitBlame(a) == [a EXCEPT !.git_blame = Some(TRUE)]
NoGitBlame(a) == [a EXCEPT !.git_blame = Some(FALSE)]
Glob(v, a) == [a EXCEPT !.globs = Append(@, v)]
GlobCaseInsensitive(yes, a) == [a EXCEPT !.glob_case_insensitive = yes]
Heading(yes, a) == [a EXCEPT !.heading = Some(yes)]
Help(a) == a
Hidden(yes, a) == [a EXCEPT !.hidden = yes]
HostnameBin(v, a) == [a EXCEPT !.hostname_bin = Some(v) \ {""}]
HyperlinkFormat(v, a) == [a EXCEPT !.hyperlink_format = v]
IGlob(v, a) == [a EXCEPT !.iglobs = Append(@, v)]
IgnoreCase(a) == [a EXCEPT !.case = "Insensitive"]
IgnoreFile(v, a) == [a EXCEPT !.ignore_file = Append(@, v)]
IgnoreFileCaseInsensitive(yes, a) ==
    [a EXCEPT !.ignore_file_case_insensitive = yes]
IncludeZero(yes, a) == [a EXCEPT !.include_zero = yes]
InvertMatch(yes, a) == [a EXCEPT !.invert_match = yes]
JSON(yes, a) ==
    [a EXCEPT !.mode = IF yes THEN ModeUpdate(@, "JSON")
                       ELSE IF @ = "JSON" THEN ModeUpdate(@, "Standard")
                       ELSE @]
LineBuffered(yes, a) == [a EXCEPT !.buffer = IF yes THEN "Line" ELSE "Auto"]
LineNumber(a) == [a EXCEPT !.line_number = Some(TRUE)]
LineNumberNo(a) == [a EXCEPT !.line_number = Some(FALSE)]
LineRegexp(a) == [a EXCEPT !.boundary = Some("Line")]
MaxColumns(v, a) == [a EXCEPT !.max_columns = Some(Number[v]) \ {0}]
MaxColumnsPreview(yes, a) == [a EXCEPT !.max_columns_preview = yes]
MaxCount(v, a) == [a EXCEPT !.max_count = Some(Number[v])]
MaxDepth(v, a) == [a EXCEPT !.max_depth = Some(Number[v])]
MaxFilesize(v, a) == [a EXCEPT !.max_filesize = Some(Number[v])]
Mmap(yes, a) == [a EXCEPT !.mmap = IF yes THEN "AlwaysTryMmap" ELSE "Never"]
Multiline(yes, a) ==
    [a EXCEPT !.multiline = yes, !.stop_on_nonmatch = @ /\ ~yes]
MultilineDotall(yes, a) == [a EXCEPT !.multiline_dotall = yes]
NoConfig(a) == [a EXCEPT !.no_config = TRUE]
NoIgnore(yes, a) ==
    [a EXCEPT !.no_ignore_dot = yes, !.no_ignore_exclude = yes,
              !.no_ignore_global = yes, !.no_ignore_parent = yes,
              !.no_ignore_vcs = yes]
NoIgnoreDot(yes, a) == [a EXCEPT !.no_ignore_dot = yes]
NoIgnoreExclude(yes, a) == [a EXCEPT !.no_ignore_exclude = yes]
NoIgnoreFiles(yes, a) == [a EXCEPT !.no_ignore_files = yes]
NoIgnoreGlobal(yes, a) == [a EXCEPT !.no_ignore_global = yes]
NoIgnoreMessages(yes, a) == [a EXCEPT !.no_ignore_messages = yes]
NoIgnoreParent(yes, a) == [a EXCEPT !.no_ignore_parent = yes]
NoIgnoreVcs(yes, a) == [a EXCEPT !.no_ignore_vcs = yes]
NoMessages(yes, a) == [a EXCEPT !.no_messages = yes]
NoPcre2Unicode(yes, a) == [a EXCEPT !.no_unicode = yes]
NoRequireGit(yes, a) == [a EXCEPT !.no_require_git = yes]
NoUnicode(yes, a) == [a EXCEPT !.no_unicode = yes]
Null(a) == [a EXCEPT !.null = TRUE]
\* Mutant of NullData: leaves crlf alone.
NullDataKeepsCrlf(a) == [a EXCEPT !.null_data = TRUE]
NullData(a) == [a EXCEPT !.crlf = FALSE, !.null_data = TRUE]
OneFileSystem(yes, a) == [a EXCEPT !.one_file_system = yes]
OnlyMatching(a) == [a EXCEPT !.only_matching = TRUE]
PathSeparator(v, a) == [a EXCEPT !.path_separator = Some(v) \ {""}]
Passthru(a) ==
    [a EXCEPT !.context = [passthru |-> TRUE, before |-> None,
                                        after |-> None, both |-> None]]
PCRE2(yes, a) == [a EXCEPT !.engine = IF yes THEN "pcre2" ELSE "default"]
PCRE2Version(a) == [a EXCEPT !.special = Some("VersionPCRE2")]
Pre(v, a) == [a EXCEPT !.pre = Some(v) \ {""}, !.search_zip = @ /\ v = ""]
PreOff(a) == [a EXCEPT !.pre = None]
PreGlob(v, a) == [a EXCEPT !.pre_glob = Append(@, v)]
Pretty(a) ==
    [a EXCEPT !.color = "always", !.heading = Some(TRUE),
                                !.line_number = Some(TRUE)]
Quiet(a) == [a EXCEPT !.quiet = TRUE]
RegexSizeLimit(v, a) == [a EXCEPT !.regex_size_limit = Some(Number[v])]
Regexp(v, a) == [a EXCEPT !.patterns = Append(@, <<"Regexp", v>>)]
Replace(v, a) == [a EXCEPT !.replace = Some(v)]
SearchZip(yes, a) ==
    [a EXCEPT !.search_zip = yes, !.pre = IF yes THEN None ELSE @]
SmartCase(a) == [a EXCEPT !.case = "Smart"]
SortFiles(yes, a) ==
    [a EXCEPT !.sort = IF yes THEN Some(SortMode("path", FALSE)) ELSE None]
Sort(v, a) ==
    [a EXCEPT !.sort = IF v = "none" THEN None ELSE Some(SortMode(v, FALSE))]
Sortr(v, a) ==
    [a EXCEPT !.sort = IF v = "none" THEN None ELSE Some(SortMode(v, TRUE))]
Stats(yes, a) == [a EXCEPT !.stats = yes]
StopOnNonmatch(a) == [a EXCEPT !.stop_on_nonmatch = TRUE, !.multiline = FALSE]
Text(yes, a) == [a EXCEPT !.binary = IF yes THEN "AsText" ELSE "Auto"]
Threads(v, a) == [a EXCEPT !.threads = Some(Number[v]) \ {0}]
Trace(a) == [a EXCEPT !.logging = Some("Trace")]
Trim(yes, a) == [a EXCEPT !.trim = yes]
Type(v, a) == [a EXCEPT !.type_changes = Append(@, <<"Select", v>>)]
TypeAdd(v, a) == [a EXCEPT !.type_changes = Append(@, <<"Add", v>>)]
TypeClear(v, a) == [a EXCEPT !.type_changes = Append(@, <<"Clear", v>>)]
TypeNot(v, a) == [a EXCEPT !.type_changes = Append(@, <<"Negate", v>>)]
TypeList(a) == [a EXCEPT !.mode = ModeUpdate(@, "Types")]
Unrestricted(a) ==
    LET b == [a EXCEPT !.unrestricted = @ + 1]
    IN  CASE b.unrestricted = 1 -> NoIgnore(TRUE, b)
          [] b.unrestricted = 2 -> Hidden(TRUE, b)
          [] b.unrestricted = 3 -> Binary(TRUE, b)
          [] OTHER -> b
Version(a) == a
Vimgrep(a) == [a EXCEPT !.vimgrep = TRUE]
WithFilename(a) == [a EXCEPT !.with_filename = Some(TRUE)]
WithFilenameNo(a) == [a EXCEPT !.with_filename = Some(FALSE)]
WordRegexp(a) == [a EXCEPT !.boundary = Some("Word")]

\* FLAGS and the dispatch to update: a switch, or a value.
SwitchUpdate(flag, yes, a) ==
    CASE flag = "auto-hybrid-regex" -> AutoHybridRegex(yes, a)
      [] flag = "binary" -> Binary(yes, a)
      [] flag = "block-buffered" -> BlockBuffered(yes, a)
      [] flag = "byte-offset" -> ByteOffset(yes, a)
      [] flag = "case-sensitive" -> CaseSensitive(a)
      [] flag = "column" -> Column(yes, a)
      [] flag = "count" -> Count(a)
      [] flag = "count-matches" -> CountMatches(a)
      [] flag = "crlf" -> Crlf(yes, a)
      [] flag = "debug" -> Debug(a)
      [] flag = "files" -> Files(a)
      [] flag = "files-with-matches" -> FilesWithMatches(a)
      [] flag = "files-without-match" -> FilesWithoutMatch(a)
      [] flag = "fixed-strings" -> FixedStrings(yes, a)
      [] flag = "follow" -> Follow(yes, a)
      [] flag = "git-blame" -> GitBlame(a)
      [] flag = "no-git-blame" -> NoGitBlame(a)
      [] flag = "glob-case-insensitive" -> GlobCaseInsensitive(yes, a)
      [] flag = "heading" -> Heading(yes, a)
      [] flag = "help" -> Help(a)
      [] flag = "hidden" -> Hidden(yes, a)
      [] flag = "ignore-case" -> IgnoreCase(a)
      [] flag = "ignore-file-case-insensitive" ->
           IgnoreFileCaseInsensitive(yes, a)
      [] flag = "include-zero" -> IncludeZero(yes, a)
      [] flag = "invert-match" -> InvertMatch(yes, a)
      [] flag = "json" -> JSON(yes, a)
      [] flag = "line-buffered" -> LineBuffered(yes, a)
      [] flag = "line-number" -> LineNumber(a)
      [] flag = "no-line-number" -> LineNumberNo(a)
      [] flag = "line-regexp" -> LineRegexp(a)
      [] flag = "max-columns-preview" -> MaxColumnsPreview(yes, a)
      [] flag = "mmap" -> Mmap(yes, a)
      [] flag = "multiline" -> Multiline(yes, a)
      [] flag = "multiline-dotall" -> MultilineDotall(yes, a)
      [] flag = "no-config" -> NoConfig(a)
      [] flag = "no-ignore" -> NoIgnore(yes, a)
      [] flag = "no-ignore-dot" -> NoIgnoreDot(yes, a)
      [] flag = "no-ignore-exclude" -> NoIgnoreExclude(yes, a)
      [] flag = "no-ignore-files" -> NoIgnoreFiles(yes, a)
      [] flag = "no-ignore-global" -> NoIgnoreGlobal(yes, a)
      [] flag = "no-ignore-messages" -> NoIgnoreMessages(yes, a)
      [] flag = "no-ignore-parent" -> NoIgnoreParent(yes, a)
      [] flag = "no-ignore-vcs" -> NoIgnoreVcs(yes, a)
      [] flag = "no-messages" -> NoMessages(yes, a)
      [] flag = "no-pcre2-unicode" -> NoPcre2Unicode(yes, a)
      [] flag = "no-require-git" -> NoRequireGit(yes, a)
      [] flag = "no-unicode" -> NoUnicode(yes, a)
      [] flag = "null" -> Null(a)
      [] flag = "null-data" -> NullData(a)
      [] flag = "one-file-system" -> OneFileSystem(yes, a)
      [] flag = "only-matching" -> OnlyMatching(a)
      [] flag = "passthru" -> Passthru(a)
      [] flag = "pcre2" -> PCRE2(yes, a)
      [] flag = "pcre2-version" -> PCRE2Version(a)
      [] flag = "pretty" -> Pretty(a)
      [] flag = "quiet" -> Quiet(a)
      [] flag = "search-zip" -> SearchZip(yes, a)
      [] flag = "smart-case" -> SmartCase(a)
      [] flag = "sort-files" -> SortFiles(yes, a)
      [] flag = "stats" -> Stats(yes, a)
      [] flag = "stop-on-nonmatch" -> StopOnNonmatch(a)
      [] flag = "text" -> Text(yes, a)
      [] flag = "trace" -> Trace(a)
      [] flag = "trim" -> Trim(yes, a)
      [] flag = "type-list" -> TypeList(a)
      [] flag = "unrestricted" -> Unrestricted(a)
      [] flag = "version" -> Version(a)
      [] flag = "vimgrep" -> Vimgrep(a)
      [] flag = "with-filename" -> WithFilename(a)
      [] flag = "no-filename" -> WithFilenameNo(a)
      [] flag = "word-regexp" -> WordRegexp(a)
      [] flag = "context-separator" -> ContextSeparatorOff(a)
      [] flag = "encoding" -> EncodingOff(a)
      [] flag = "pre" -> PreOff(a)

ValueUpdate(flag, v, a) ==
    CASE flag = "after-context" -> AfterContext(v, a)
      [] flag = "before-context" -> BeforeContext(v, a)
      [] flag = "color" -> Color(v, a)
      [] flag = "colors" -> Colors(v, a)
      [] flag = "context" -> Context(v, a)
      [] flag = "context-separator" -> ContextSeparator(v, a)
      [] flag = "dfa-size-limit" -> DfaSizeLimit(v, a)
      [] flag = "encoding" -> Encoding(v, a)
      [] flag = "engine" -> Engine(v, a)
      [] flag = "field-context-separator" -> FieldContextSeparator(v, a)
      [] flag = "field-match-separator" -> FieldMatchSeparator(v, a)
      [] flag = "file" -> File(v, a)
      [] flag = "generate" -> Generate(v, a)
      [] flag = "glob" -> Glob(v, a)
      [] flag = "hostname-bin" -> HostnameBin(v, a)
      [] flag = "hyperlink-format" -> HyperlinkFormat(v, a)
      [] flag = "iglob" -> IGlob(v, a)
      [] flag = "ignore-file" -> IgnoreFile(v, a)
      [] flag = "max-columns" -> MaxColumns(v, a)
      [] flag = "max-count" -> MaxCount(v, a)
      [] flag = "max-depth" -> MaxDepth(v, a)
      [] flag = "max-filesize" -> MaxFilesize(v, a)
      [] flag = "path-separator" -> PathSeparator(v, a)
      [] flag = "pre" -> Pre(v, a)
      [] flag = "pre-glob" -> PreGlob(v, a)
      [] flag = "regex-size-limit" -> RegexSizeLimit(v, a)
      [] flag = "regexp" -> Regexp(v, a)
      [] flag = "replace" -> Replace(v, a)
      [] flag = "sort" -> Sort(v, a)
      [] flag = "sortr" -> Sortr(v, a)
      [] flag = "threads" -> Threads(v, a)
      [] flag = "type" -> Type(v, a)
      [] flag = "type-add" -> TypeAdd(v, a)
      [] flag = "type-clear" -> TypeClear(v, a)
      [] flag = "type-not" -> TypeNot(v, a)

\* The negated names, with the flag each one switches off.
Negations ==
   {<<"no-auto-hybrid-regex", "auto-hybrid-regex">>,
    <<"no-binary", "binary">>, <<"no-block-buffered", "block-buffered">>,
    <<"no-byte-offset", "byte-offset">>, <<"no-column", "column">>,
    <<"no-context-separator", "context-separator">>, <<"no-crlf", "crlf">>,
    <<"no-encoding", "encoding">>, <<"no-fixed-strings", "fixed-strings">>,
    <<"no-follow", "follow">>,
    <<"no-glob-case-insensitive", "glob-case-insensitive">>,
    <<"no-heading", "heading">>, <<"no-hidden", "hidden">>,
    <<"no-ignore-file-case-insensitive", "ignore-file-case-insensitive">>,
    <<"no-include-zero", "include-zero">>,
    <<"no-invert-match", "invert-match">>, <<"no-json", "json">>,
    <<"no-line-buffered", "line-buffered">>,
    <<"no-max-columns-preview", "max-columns-preview">>,
    <<"no-mmap", "mmap">>, <<"no-multiline", "multiline">>,
    <<"no-multiline-dotall", "multiline-dotall">>,
    <<"ignore", "no-ignore">>, <<"ignore-dot", "no-ignore-dot">>,
    <<"ignore-exclude", "no-ignore-exclude">>,
    <<"ignore-files", "no-ignore-files">>,
    <<"ignore-global", "no-ignore-global">>,
    <<"ignore-messages", "no-ignore-messages">>,
    <<"ignore-parent", "no-ignore-parent">>,
    <<"ignore-vcs", "no-ignore-vcs">>, <<"messages", "no-messages">>,
    <<"pcre2-unicode", "no-pcre2-unicode">>,
    <<"require-git", "no-require-git">>, <<"unicode", "no-unicode">>,
    <<"no-one-file-system", "one-file-system">>, <<"no-pcre2", "pcre2">>,
    <<"no-pre", "pre">>, <<"no-search-zip", "search-zip">>,
    <<"no-sort-files", "sort-files">>, <<"no-stats", "stats">>,
    <<"no-text", "text">>, <<"no-trim", "trim">>}
NegatedNames == {n[1] : n \in Negations}

Switches ==
    {"auto-hybrid-regex", "binary", "block-buffered", "byte-offset",
     "case-sensitive", "column", "count", "count-matches", "crlf",
     "debug", "files", "files-with-matches", "files-without-match",
     "fixed-strings", "follow", "git-blame", "no-git-blame",
     "glob-case-insensitive", "heading", "help", "hidden", "ignore-case",
     "ignore-file-case-insensitive", "include-zero", "invert-match",
     "json", "line-buffered", "line-number", "no-line-number",
     "line-regexp", "max-columns-preview", "mmap", "multiline",
     "multiline-dotall", "no-config", "no-ignore", "no-ignore-dot",
     "no-ignore-exclude", "no-ignore-files", "no-ignore-global",
     "no-ignore-messages", "no-ignore-parent", "no-ignore-vcs",
     "no-messages", "no-pcre2-unicode", "no-require-git", "no-unicode",
     "null", "null-data", "one-file-system", "only-matching", "passthru",
     "pcre2", "pcre2-version", "pretty", "quiet", "search-zip",
     "smart-case", "sort-files", "stats", "stop-on-nonmatch", "text",
     "trace", "trim", "type-list", "unrestricted", "version", "vimgrep",
     "with-filename", "no-filename", "word-regexp"}
Valued ==
    {"after-context", "before-context", "color", "colors", "context",
     "context-separator", "dfa-size-limit", "encoding", "engine",
     "field-context-separator", "field-match-separator", "file",
     "generate", "glob", "hostname-bin", "hyperlink-format", "iglob",
     "ignore-file", "max-columns", "max-count", "max-depth",
     "max-filesize", "path-separator", "pre", "pre-glob",
     "regex-size-limit", "regexp", "replace", "sort", "sortr", "threads",
     "type", "type-add", "type-clear", "type-not"}

Numeric == {"after-context", "before-context", "context", "dfa-size-limit",
            "max-columns", "max-count", "max-depth", "max-filesize",
            "regex-size-limit", "threads"}
SortKinds == {"none", "path", "modified", "accessed", "created"}
\* Values that are paths need not be valid UTF-8.
PathValued == {"file", "hostname-bin", "ignore-file", "pre"}

\* The values a flag's update refuses with an error.
ValueRefused(flag, v) ==
    \/ flag \in Numeric /\ v \notin DOMAIN Number
    \/ flag = "color" /\ v \notin {"never", "auto", "always", "ansi"}
    \/ flag = "engine" /\ v \notin {"default", "pcre2", "auto"}
    \/ flag = "generate" /\ v \notin GenerateModes
    \/ flag \in {"sort", "sortr"} /\ v \notin SortKinds
    \/ flag \notin PathValued /\ v \in Invalid
\* And the only switch that does: a fourth -u.
SwitchRefused(flag, a) == flag = "unrestricted" /\ a.unrestricted = 3
=============================================================================
