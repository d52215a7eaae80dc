---------------------------- MODULE MCCommandLine ----------------------------
(* Command lines and configuration files for model-checking CommandLine.   *)
EXTENDS CommandLine

MCNumber == ("0" :> 0) @@ ("1" :> 1) @@ ("2" :> 2)
MCPatternFiles == ("-" :> <<"p", "q">>) @@ ("pats" :> <<"q", "r">>)
MCDefinitions == ("web:*.x" :> [name |-> "web", includes |-> {}]) @@
                 ("mix:include:web" :> [name |-> "mix", includes |-> {"web"}])

\* Flags that undo or imply one another, in groups.
Engines == {Flag("crlf"), Flag("no-crlf"), Flag("null-data"),
            Flag("multiline"), Flag("no-multiline"), Flag("stop-on-nonmatch")}
Readers == {FlagWith("pre", "cmd"), FlagWith("pre", ""), Flag("no-pre"),
            Flag("search-zip"), Flag("no-search-zip")}
Contexts == {FlagWith("before-context", "1"), FlagWith("after-context", "2"),
             FlagWith("context", "1"), FlagWith("context", "0"),
             Flag("context"), Flag("passthru"), Plain("2")}
Filters == {Flag("unrestricted"), Flag("ignore"), Flag("no-ignore-vcs"),
            Flag("no-hidden"), Flag("text"), Flag("no-binary")}
Modes == {Flag("count"), Flag("only-matching"), Flag("files"), Flag("json"),
          Flag("no-json"), Flag("quiet"), FlagWith("generate", "man")}
Places == {Flag("file"), FlagWith("file", "-"), FlagWith("regexp", "p"),
           Flag("regexp"), Flag("files"), Plain("-"), Plain("dir"),
           Plain("x")}
FileTypeFlags ==
    {FlagWith("type", "web"), FlagWith("type-not", "all"),
     FlagWith("type-add", "web:*.x"), FlagWith("type-add", "mix:include:web"),
     FlagWith("type-clear", "web"), FlagWith("glob", "bad")}
Passes == {Flag("no-config"), Flag("help"), DashDash, Comment, Flag("crlf"),
           FlagWith("sort", "modified"), Flag("regexp"),
           FlagWith("crlf", "x"), Flag("bogus")}

\* Every flag, with a value if it takes one.
Everything ==
    {Flag(n) : n \in Switches \cup NegatedNames} \cup
    {FlagWith(n, "1") : n \in Valued} \cup
    {FlagWith("color", "always"), FlagWith("engine", "auto"),
     FlagWith("sort", "path"), FlagWith("sortr", "created"),
     FlagWith("generate", "complete-fish")}
Others == {Flag("crlf"), Flag("passthru"), Flag("json"), Flag("search-zip"),
           Flag("stop-on-nonmatch"), Flag("unrestricted")}

\* In most groups a pattern comes last, or there would be nothing to search.
P == <<Plain("p")>>
MCGroups ==
    {Group(Engines, 4, P), Group(Readers, 4, P), Group(Contexts, 3, P),
     Group(Filters, 4, P), Group(Modes, 3, P), Group(Passes, 3, P),
     Group(FileTypeFlags, 3, P), Group(Places, 3, <<>>)} \cup
    {Group(Everything, 1, <<o>> \o P) : o \in Others}
MCEnvironments == {[tty |-> FALSE, stdin |-> TRUE, times |-> FALSE],
                   [tty |-> TRUE, stdin |-> FALSE, times |-> TRUE]}
=============================================================================
