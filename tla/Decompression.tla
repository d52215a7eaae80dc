--------------------------- MODULE Decompression ---------------------------
(***************************************************************************)
(* Which command reads a compressed file (crates/cli/src/decompress.rs).   *)
(*                                                                         *)
(* A program is a name and an extension, or an absolute path.  The system  *)
(* has a list of directories, PATH, and a set of programs in them.         *)
(***************************************************************************)
EXTENDS Globs

LOCAL INSTANCE SequencesExt
LOCAL INSTANCE FiniteSetsExt

CONSTANT NoValue

WithExtension(prog, dir, ext) == [dir |-> dir, name |-> prog.name, ext |-> ext]
\* The places a program is looked for below one directory of PATH.
Places(prog, dir) ==
    <<WithExtension(prog, dir, prog.ext)>>
    \o IF prog.ext = NoValue THEN <<WithExtension(prog, dir, "com"), WithExtension(prog, dir, "exe")>>
                             ELSE <<>>
TryResolveBinary(prog, system) ==
    LET dirs == SelectSeq(system.path, LAMBDA d : d # "")
        found == SelectSeq(FlattenSeq([i \in DOMAIN dirs |-> Places(prog, dirs[i])]),
                           LAMBDA place : place \in system.programs)
    IN  IF prog.absolute THEN WithExtension(prog, "/", prog.ext)
        ELSE IF found = <<>> THEN NoValue ELSE found[1]
ResolveBinary(prog, system) ==
    IF system.windows THEN TryResolveBinary(prog, system) ELSE WithExtension(prog, NoValue, prog.ext)

Associated(commands, glob, bin, args) ==
    IF bin = NoValue THEN commands ELSE Append(commands, [glob |-> glob, bin |-> bin, args |-> args])
DefaultCommands(defaults, system) ==
    FoldLeft(LAMBDA cmds, d : Associated(cmds, d.glob, ResolveBinary(d.prog, system), d.args),
             <<>>, defaults)
\* DecompressionMatcherBuilder::associate says nothing of a program that is not found.
Associate(commands, a, system) ==
    Associated(commands, a.glob, TryResolveBinary(a.prog, system), a.args)

DefaultOptions == [o \in DOMAIN CHOOSE x \in Options : TRUE |-> o = "backslash_escape"]
MatcherOf(globs, commands) ==
    [error |-> \E i \in DOMAIN globs : globs[i].error # "none", globs |-> globs, commands |-> commands]
DecompressionMatcher(with_defaults, defaults, commands, system) ==
    LET all == (IF with_defaults THEN DefaultCommands(defaults, system) ELSE <<>>) \o commands
    IN  MatcherOf([i \in DOMAIN all |-> Build(all[i].glob, DefaultOptions)], all)

SetIsMatch(globs, path) == Matches(globs, path) # <<>>
FirstHit(hits) == hits[1]    \* mutant: the command that was associated first
LastHit(hits) == Last(hits)
CommandAt(commands, hits) == IF hits = <<>> THEN NoValue ELSE commands[LastHit(hits)]
CommandOf(matcher, path) == CommandAt(matcher.commands, Matches(matcher.globs, path))
HasCommand(matcher, path) == SetIsMatch(matcher.globs, path)

\* DecompressionReaderBuilder::build: what is read.  A command that cannot be
\* spawned leaves the file to be read as it is.
Passthru(opens) == IF opens THEN [k |-> "file"] ELSE [k |-> "error"]
ReadBy(cmd, path, spawns, opens) ==
    IF cmd # NoValue /\ cmd.bin \in spawns
    THEN [k |-> "command", bin |-> cmd.bin, args |-> Append(cmd.args, path)]
    ELSE Passthru(opens)
Reader(matcher, path, spawns, opens) == ReadBy(CommandOf(matcher, path), path, spawns, opens)
=============================================================================
