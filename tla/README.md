# A TLA+ model of ripgrep

ripgrep searches directory trees for lines that match a pattern.  This
directory holds TLA+ modules that model its concurrent and stateful parts and
the algorithms they rest on, TLC configurations that check them on small
instances, and TLAPS proofs of what holds for every instance.  Source paths are relative to the repository.

## 1. Inventory

| component | source | state | operations | interacts with |
|---|---|---|---|---|
| parallel walk | `crates/ignore/src/walk.rs` (`WalkParallel`, `Worker`, `Stack`) | a deque per worker, `active_workers`, `quit_now`, the work in hand | deal the roots, pop, steal, visit, list, send, deactivate, reactivate, quit, join | calls the visitor (core), the matchers (ignore); workers share the deques and two atomics |
| serial walk | `crates/ignore/src/walk.rs` (`Walk`, `WalkEventIter`) | the iterator, the current chain of matchers | next, skip, enter and leave a directory | the same matchers and caller |
| ignore matchers | `crates/ignore/src/dir.rs`, `gitignore.rs`, `overrides.rs`, `types.rs` | a chain of `Ignore` nodes, a weak cache of compiled parents | `add_parents`, `add_child`, `matched` | shared by all workers of a walk through an `RwLock` |
| globs | `crates/globset` | none once compiled | parse, compile, match | used by the matchers |
| line buffer | `crates/searcher/src/line_buffer.rs` | buffer, three positions, two offsets | fill, roll, grow, consume, clear | reads a file or a child's stdout; feeds `ReadByLine` |
| searcher | `crates/searcher/src/searcher/core.rs`, `glue.rs`, `mod.rs`, `lines.rs` | position, context and line counters, what was last sunk | match by line (fast, slow), sink matched, context, break, binary, finish | pulls from the buffer, calls the matcher and the sink |
| printers | `crates/printer` | counters, `has_match`, path printed | begin, matched, context, binary, finish | sinks of the searcher; write to a shared `BufferWriter` |
| command reader | `crates/cli/src/process.rs`, `decompress.rs` | child, two pipes, stderr thread, `eof` | build, read, close, drop | reader of the searcher for `--pre` and `-z` |
| search driver | `crates/core/main.rs`, `search.rs`, `messages.rs`, `haystack.rs` | `matched`, `searched`, `ERRORED` flags, statistics, the printing channel | search and list files, serially and in parallel; exit status | visitor of the walk; owner of searcher and printer |
| command line | `crates/core/flags` | `LowArgs` while parsing, then `HiArgs` | parse the command line, parse again with the configuration file in front, convert | configures everything above |
| regex front ends | `crates/regex`, `crates/pcre2`, `crates/matcher` | compiled patterns | find, captures, interpolate, extract literals | matcher of the searcher |
| blame | `crates/cli/src/blame.rs` | a cache of `git blame` output behind a mutex | get, fetch, parse, truncate | called by the standard printer |

What is hard about each:

* **Parallel walk.**  Termination is detected with a counter that is not updated
  together with the deques; a batch that is being stolen is in no deque; `Quit`
  is a message and a flag; a steal may fail although there is work.  Correct
  means: every entry that is not skipped is visited once, errors are reported,
  a visitor's `Quit` is obeyed promptly, and the walk returns.
* **Command reader.**  Child, reader and stderr thread wait for each other
  through bounded pipes; `close` runs inside `read`, explicitly and on drop; a
  broken pipe is an expected failure.  Correct means: no deadlock, no zombie, no
  output lost, and an error exactly when the child failed on its own account.
* **Line buffer.**  Three positions, partial reads, growth up to a limit, binary
  detection and reuse for the next file.  Correct means: the caller sees exactly
  the input, in whole lines.
* **Search driver.**  Workers update shared flags; a print thread may lose its
  pipe; the exit status is computed from what everyone left behind.  Correct
  means: the exit status is the documented one, whatever the interleaving.
* **Searcher.**  The fast and the slow path, contexts, match limits and
  inversion interact.  Correct means: both report what a line-by-line reading
  of the options would.
* **Ignore matchers.**  Parents are compiled once per process and shared by
  roots and workers.  Correct means: a verdict depends on the path only, not on
  who asked first.
* **Search worker and printers.**  One searcher, one printer and one counting
  writer serve file after file; a sink is told of matches, refusals, binary data
  and failures in every order.  Correct means: output, statistics and result of
  a file belong together and owe nothing to the file before.
* **Choice of a strategy.**  A file may be mapped, read as a whole, or read
  through the line buffer, with or without a byte order mark, and the buffer for
  whole files is kept from one file to the next.  Correct means: the same text is
  searched whichever way is taken.
* **Globs and ignore files.**  A set of globs is compiled to seven lookups that
  must agree with the regular expressions they replace; lines of ignore files are
  rewritten before they become globs.  Correct means: what the manual of
  gitignore says.
* **Lines as they are printed.**  The printer finds the matches anew, in the line
  alone or with some bytes behind it, replaces them, cuts the line and colors
  it in steps that switch the color on and off.  Correct means: every line, match
  or part of a match that is asked for appears once, with its own place.
* **Command line.**  A hundred flags override each other over two passes.
  Correct means: what is in effect is what the whole sequence of flags says.

How they interact: the driver builds a walk and hands each worker of it a search
worker.  The walk calls the driver's visitor with entries; the visitor has the
search worker search one, writes the worker's buffer to stdout and answers
`Continue` or `Quit`.  The searcher pulls bytes from a file, a memory map or a
command reader through a line buffer, asks the matcher about lines, and calls
the printer's sink, whose answer may end the search.  Threads share only the
deques and atomics of the walk, the cache of parents' ignore files, the driver's
three flags and its statistics, stdout, and the blame cache.

The components with their sources, and the hazards line by line, are in
`PROJECT.json`.

## 2. Plan

Done, in this order:

| module | models | builds on |
|---|---|---|
| `TreeWalk` | abstract: what a walk promises its caller | |
| `ParallelWalk` | the work-stealing walk; refines `TreeWalk` | `TreeWalk` |
| `ParallelWalkProofs` | theorems about `ParallelWalk`, and that it implements `TreeWalk` | `ParallelWalk` |
| `IgnoreChain` | one matcher, the chain of matchers, the cache of parents | |
| `SerialWalk` | the iterator with the chain; refines `TreeWalk` | `IgnoreChain`, `TreeWalk` |
| `SerialWalkProofs` | theorems about `SerialWalk` and the chain, and that it implements `TreeWalk` | `SerialWalk` |
| `CommandReader` | child, pipes, stderr thread, reader | |
| `CommandReaderProofs` | theorems about `CommandReader` | `CommandReader` |
| `LineBuffer` | the rolling buffer | |
| `LineBufferProofs` | theorems about `LineBuffer` | `LineBuffer` |
| `LineSearch` | the line-oriented search | |
| `SearchDriver` | the drivers of `main.rs`, the print thread, the exit status | |
| `SearchWorker` | the search worker with its three printers | |
| `SearchWorkerProofs` | theorems about `SearchWorker` | `SearchWorker` |
| `Flags` | what each flag does to `LowArgs` | |
| `CommandLine` | both passes of the parser, the configuration file, `HiArgs` | `Flags` |
| `CommandLineProofs` | theorems about `CommandLine` | `CommandLine` |
| `MultiLine` | the multi-line search | `LineSearch` |
| `LineSearchProofs` | theorems about both searches | `MultiLine` |
| `BlamedSearch` | the driver with the cache of blame columns | `SearchDriver` |
| `SearchDriverProofs` | theorems about `SearchDriver` and `BlamedSearch` | `BlamedSearch` |
| `Globs` | parsing and matching of globs, sets of globs | |
| `IgnoreRules` | lines of ignore files, overrides, file types | `Globs` |
| `RegexBuild` | expressions made of patterns and flags, literals extracted from them | |
| `SearchStrategy` | which way a source is searched | |
| `LineFormat` | what is printed for the lines of a match | |
| `Conversions` | numbers, base64, replacements, color settings | |
| `Hyperlinks` | formats of hyperlinks, encoded paths, links | `Conversions` |
| `Decompression` | the command that reads a compressed file | `Globs` |

The modules whose name begins with `MC` give the constants their values;
`MCMatchers`, `MCLines` and `MCConversions` also hold the references for the pure
modules, which `MCTexts` brings together.

Still to come:

1. proofs: lemmas about the pure operators that need no recursion;
2. clusters of short flags, and the builders of the walk and of the printers;
3. the count of a summary over lines of several matches; `PathPrinter`.

Abstract specifications: `TreeWalk`, refined twice.  For the pure modules a
reference takes that part: the components of a path for globs, the strings of an
expression's language, the decoded text, the pieces of output byte by byte.

## 3. The modules and the code

A module's header says what it models, comments name the functions, and the map
in `PROJECT.json` gives the lines of every definition.  An operator whose comment
says *mutant* is used by nothing: put in the place of the definition that
follows it, it is a plausible bug that the named property catches.

**TreeWalk.**  Entries are found (a root, or listed by a directory that was found
and not pruned), shown only then, and all of them by the time the walk
returns, unless the visitor has said `Quit`; and the walk does return.  What has been
shown is a set, so that to show an entry again is a stutter of this module.  The
modules that refine it say *once* themselves: `VisitedAtMostOnce` counts the visits of
the parallel walk, `ShownOnce` what the serial walk has handed out.

**ParallelWalk.**  One process per `Worker` and one for `WalkParallel::visit`.  A
worker's `pc` is where it is in `run`, `run_one`, `generate_work` or `get_work`.
A deque of crossbeam is taken to do what its interface promises: `steal` may fail
for no reason when someone else touches the deque (`stale`), and
`steal_batch_and_pop` moves half of it in two steps, between which the batch is
in neither deque (`hand`).  `active_workers` and `quit_now` are read and written in
steps of their own.  The visitor may prune or quit at any call.  The tree, its faults and the matchers' verdicts are
constants.

**IgnoreChain, SerialWalk.**  A rule has a file (its kind and directory), a path
or name it fits, and a verdict.  `IgnoreChain` has the nodes the code builds:
which matchers a node holds, what is cached and until when, how roots are
stripped, and the order of precedence across nodes and kinds.  `SerialWalk` has
the external iterator's stack (`open`), `WalkEventIter`'s held-back entry and
depth, and `Walk`'s chain.  `given` holds what `next` has returned, each entry
with the number of its root, and no guard reads it; `ShownOnce` says that what is about to be
returned is not in it.  The reference `RefIgnore` knows no chain: it says what
the rules above a path mean.

**CommandReader.**  Child, reader and stderr thread as three processes over two
bounded pipes.  A unit of a pipe stands for any number of bytes.  The child
follows a script (write to stdout or to stderr, close stdout), then exits well or
not, and dies when it writes to a stdout nobody reads.

**LineBuffer.**  `fill` is one action up to its first read and one action per read,
so that reads may be short, fail, or end.  Positions are the code's.

**LineSearch.**  The unit is a line.  `Core`'s methods put the sink's calls on
a plan that is worked off one call at a time, so that a refusal falls between
any two of them.  The reference (`ExactEvents`) is computed from the lines alone.
Binary data is found by the line that holds it; it ends the search or is
converted, and the sink is told once (`BinaryTold`).

**MultiLine.**  The same `Core` driven by `MultiLine::run`.  A position is half a
line: the beginning of a line, or the place before its terminator.  A match is a pair of positions,
and any two matches that do not overlap may be in a text, so matches may share a
line, adjoin, be empty, or lie behind the last terminator.  `last_match` keeps
back the lines of a match until the next one is known to begin on another line.
`MultiExact` says which blocks of lines the sink has seen in the end.

**SearchWorker.**  The searcher may report anything that `LineSearch` lets it
report; what is modelled step by step is what the worker and the sinks do with
it.  The output is a sequence of tokens.  A match is *found* when `Core` has it and
*told* when the sink is called for it; between the two come the lines before it, and a
sink that refuses one of these ends the search (`told.found`, `refused`).  Where
context breaks belong is `ExactEvents`' business, for only the searcher knows of the
lines left out; here a break must stand behind a line of its own file.

**SearchDriver.**  The walk is what `TreeWalk` promises, a search is its result.
`matched`, `searched`, `errored` and the statistics are shared by the workers;
stdout and stderr may break at any write.

**BlamedSearch.**  The driver, with a step that asks the cache for a file's blame
before a line is printed: looked up under the lock, fetched outside it, inserted
under it again.  git may fail, or answer differently the second time.

**Flags, CommandLine.**  One operator per `impl Flag`, with its name, that updates
a record with the fields of `LowArgs`; `CommandLine` lexes tokens, not
characters, and has both passes, `--`, special flags, errors, and what
`HiArgs::from_low_args` computes.  `Agree` is the reference: what the documentation says of flags that exclude each
other, read off the whole sequence.  For most of them the latest wins; of the modes, one that
does not search (`--files`, `--type-list`, `--generate`) wins over those that do
(`lowargs.rs:174`, `lowargs.rs:182`).  Sequences in which a mode that searches comes after
one that does not (`Overtaken`) are left out for the mode, because there the code does otherwise
(section 7).

**Globs.**  The parser is `Parser`'s, with its stack of alternations.  `Ends` says of
a token what the piece of regular expression written for it may match, so that no
regular expression has to be written down.  `Strategy` picks the lookup, and
`Matches` asks all seven.  The reference, `PathMeans`, knows only a path's
components and is defined for globs without classes and braces.

**IgnoreRules.**  `AddLine` is `add_line` on a sequence of characters.  The references
are `ManualRule` and `ManualVerdict`, from gitignore's manual as the module's own
documentation quotes it.  `AddFile` strips byte order marks and stops at a line
that is no UTF-8.  Overrides are the same lines with verdicts inverted; types are
built from a sequence of the changes that flags make.

**RegexBuild.**  Expressions are syntax trees over a handful of bytes; the trees, their
constructors and the sequences of literals belong to `regex_syntax` and are
modelled as this code uses them.  What a tree means is the set of its strings
(`Language`).  The limits of the extractor are constants, small here.

**SearchStrategy.**  A source has a kind (file, reader, slice), a byte order mark and
a body; a text has the encoding that it was read as, its mark if that is left in, and
the body.  Reads may be short, be interrupted or fail.

**LineFormat.**  Bytes are named (`"a"`, `"lf"`), output is a sequence of items: a
prelude with its cells, a byte with the color it is written in, a notice.  Matches
are found by a pattern that may look at what follows it, so that it matters how
much of that the printer shows the matcher.

**Conversions, Hyperlinks, Decompression.**  Functions on sequences of bytes or
items, each with an inverse or a direct definition beside it in `MCConversions`.
A program is looked for in directories with a list of what is in them.

**MCTexts.**  A behaviour picks one subject, which the invariant of its kind then
judges; the kind is chosen first so that each kind is worked off in turn.

## 4. The runs

| run | question | bounds |
|---|---|---|
| `walk_three_workers` | Does the parallel walk keep the walk's promise under every kind of fault and with a visitor that may skip and quit, and do batches stolen by one thief from another lose or duplicate work? | 3 workers; two roots, one of which cannot be listed, and a root that cannot be opened; 8 entries at 4 levels: each kind of entry and fault once; `min_depth` 1, `max_depth` 2, one file system; 670 thousand states |
| `serial_walk` | Is every entry judged by the rules that enclose it, is the promise kept, and is each entry returned once for a root? | 2059 configurations: every pair out of forty rules, all options, one to three roots, the same root twice among them, every fault; 58 thousand states |
| `serial_shared_parents` | The same for roots that share a parent with an anchored rule: **no** | one configuration |
| `command_reader` | Do worker and child get along? | scripts of up to 4 units, pipes of capacity 1: every unit can block |
| `command_reader_default` | Is that so with the builder's defaults, as documented? **no** | scripts of up to 3 units |
| `line_buffer` | Does the caller see the input, whole lines of it, for reader after reader? | 3 bytes over letter, terminator and NUL; 2 readers; eager and two bounded buffers, one of which is smaller than a line |
| `search` | Are the sink's calls the ones the lines call for? | line by line: 4 lines, context of 0 and 1, limits 0 to 2, both paths, both drivers, every option; binary: 3 lines, any call refused; multi-line: 3 lines, up to 2 matches anywhere in them; 705 thousand states |
| `search_limit_inverted` | Does `--max-count` hold for inverted searches? **no** | limit 1 |
| `search_worker` | Do output, statistics and result of each file agree? | 25 configurations; each pair of 4 kinds of file; up to 2 lines reported for each |
| `driver` | Are exit status, output and statistics right whatever the order, does the program end, and is git run no more often for a file's blame than the cache allows? | 2 workers, 3 results, every mix of their kinds, each driver; any failure of stdout and stderr; a file named twice with two lines shown; 775 thousand states |
| `command_line` | Do the flags mean what their sequence says? | up to 4 flags from eight groups of flags that touch each other, and every flag before another; every split between file and command line; 543 thousand states |
| `texts` | Do the pure parts do what is said of them? | globs and lines of up to 3 atoms (4 for classes and braces), paths of up to 4 characters; syntax trees of two and three levels over seven leaves; bodies of up to 5 bytes; blocks of two lines with 2 bytes of look-ahead; 52 configurations of the printer; 2^30 - 1 for the greatest 64-bit number and 65535 for the greatest 32-bit one; 69 thousand states |

Why the bounds are enough: a hazard of the walk needs one thief, one victim and
one onlooker; three workers are all three, and a batch is more than one entry
from two on.  The chain's rules interact in pairs, because a verdict is decided by
the first of two nodes, or two kinds, that has one.  The line buffer's positions
meet in every order within three bytes, since its capacities are 0 to 3.  With
context 1 and four lines there is room for a match, its context, a gap and
another match.  Two files are the least with something left over from the first.
Three results are a match, its absence and a failure.  Four flags are two
that undo each other, twice.  A glob's tokens act on each other only next to each
other, and three pieces have a neighbour on either side.  Two matches are the least
that can share a line, and a third line is needed for what is in between to be
missing.  Numbers are reckoned with a base and a bound, so the smaller bounds
are reached in the same way as the real ones.

What the runs leave out on purpose, because the code does otherwise there
(section 7): for the serial walk a size limit together with a filter, and a
`min_depth` with every ignore option off; for the search the inverted ones with a
limit, and on the fast path those that stop at a non-matching line or whose sink
refuses a call; for the multi-line search a sink that refuses while there is context after a
match, or `--passthru`, and a match behind the last terminator with context before it;
for the command reader, children whose stderr does not fit into
the pipe when nobody reads it.  Two properties have the exception in their own words
instead: `ResultShown` asks nothing of a named file with binary data whose search ended at a
refused line before its first match (`CutShort`), and `OverridesExact` nothing of the
mode of a sequence that is `Overtaken`.

**Fairness.**  Each thread of the walk, of the driver and of the command reader is
a thread of the operating system that is never blocked by anything but what its
action's guard says: weak fairness of each is what a scheduler gives.  A worker
that waits polls with a sleep, which is a step that changes nothing.  The child
is another process and gets the same.  `SerialWalk`, `LineSearch` and
`MultiLine` are sequential: weak fairness of `Next` says that the caller goes on.  In
`BlamedSearch` git comes to its end, as any process that is waited for without a
timeout has to.  The other modules
check safety only and state no fairness.

## 5. What is proved

Every theorem holds for all values of the constants that the modules' named
assumptions allow, and uses no other assumption.  An invariant was
first checked by TLC on the instance of its run, then proved inductive with one
step per action, and under it one per conjunct that the action disturbs.

**The parallel walk**, for every tree, number of workers and visitor
(`ThreadsAssumption`, `TreeAssumption`, `RootsAssumption`, `DepthAssumption`,
`FaultsAssumption`).  `ParallelWalkProofs`:

* `TypeCorrect`: `SafeSpec => []TypeOK`.  The interesting part is that
  `active_workers` stays between 0 and `Threads`.
* `ActiveWorkersCorrect`: `SafeSpec => []ActiveWorkersExact`.  The counter is the
  number of workers that are not idle; `fetch_sub` never wraps.

`TypeOK` is not inductive: that a worker which pops has nothing in its hand, and
one which runs a stage of `run_one` holds an entry, depends on where it is.
`ShapeInv` adds to it what ties `hand`, `idle` and `todo` to `pc`.  The count is
the cardinality of the set of workers outside the idle loop, moved by one by
`deactivate_worker` and `activate_worker`, each of which a worker performs only
from the other side.

`VisitedAtMostOnceCorrect`, `NoStrandedWorkCorrect`, `EveryErrorReportedCorrect` and
`NoWorkAfterQuitCorrect` are each `SafeSpec => []...`
of the property it is named for.  The invariant is `ShapeInv /\ OwnInv`, an argument about
ownership.  An entry that was sent is in one place only, a deque or a hand
(`OnePlace`), also while a batch is between two deques.  What waits to be looked at has
left no trace: not visited, not pruned, its children unsent (`FreshUntouched`).  That
makes `VisitedAtMostOnce` inductive, since a worker that visits holds
something fresh.  `StageInv` says at each stage of `run_one` what has been
reported of the entry and which children have been dealt with, so that an
entry that is finished owes nothing (`FinishedSettled`); every error on the way to
something shown follows from that.  `NothingLost` and `QuitAlone` carry
termination: until `quit_now` is up, what was sent is held by someone, and `Quit`
is passed only among workers whose deques are empty.

Also there: `WalkImplementsTreeWalk`, `SafeSpec => Abstract!Safety`.  The
abstract walk has found what is not `unsent`, has visited what has a visit, is
stopped from the moment that a visitor has answered `Quit` (`VisitorQuit`).  `MainSpawn` is
the abstract `Begin`, `VisitEntry` a `Visit`, `GenerateSend` a `Find`; an error whose visitor
answers `Quit` is `StopOnError`; the join is `Finish`, which needs `NothingLost` and
`FinishedSettled`; everything to do with deques, counters and messages is a stutter.

**The single-threaded walk**, for every tree, all rules, options and roots, and every order
in which a directory may be listed (`PathAssumption`, `ConfigAssumption`).
`SerialWalkProofs`:

* `SerialVerdictCorrect`: `Regular(config) /\ Apart(config) /\ Spec => []VerdictExact`.  An
  entry gets the verdict that the rules above its path mean, whatever has been pushed,
  popped, skipped and cached before.
* `SerialUnwrapCorrect`: `Regular(config) /\ Spec => []ParentThere`.  The matcher that is
  dropped when a directory is left has a parent; `Walk::next` unwraps it.
* `SerialShownOnceCorrect`: `Spec => []ShownOnce`, without a hypothesis.  No entry is returned
  twice in the walk of a root, whatever is skipped, fails or cannot be listed.  (A root
  that is given twice, or lies below another, is walked each time.)
* `SerialImplementsTreeWalk`: `Regular(config) /\ Apart(config) /\ Filtered(config) /\ Spec
  => Abstract!Safety /\ []ShownOnce`.  The walk shows only what is to be shown, for a root
  no entry of it twice, and answers `None` when nothing is left to show.

Each hypothesis is a configuration in which the code does something else.  `Regular` has three
parts.  No directory fails to be compared with stdout: its matcher would not be pushed and that of its
parent be popped (section 7).  No root lies below another: what is below both is walked
twice.  And `min_depth` is 0, as in every walk that ripgrep starts: walkdir hands the event
iterator only the entries from that depth on, so that the directories above push nothing.  `Apart` leaves out what
`serial_shared_parents` finds, an anchored rule above two roots with the same parent, or whose
one is below the other's parent.  `Filtered` leaves out files that a filter rejects although there is a size limit:
`skip_entry` returns the limit's answer and does not ask the filter.  The parents that
`add_parents` builds are right without `Apart` in everything but `absolute_base`.

The proof has three parts.  The first is about the chain alone.  `ChainIs` says that it
holds one matcher for every directory between an entry and its root, and above that those of
the root's parents; `JudgedExactly` that `matched_ignore` then agrees with the reference.
The loops of `matched_ignore` stop at the first matcher with an answer, or at
a repository, and the reference takes the longest directory with an answer within the
repository; that both come to the same is an argument about the least and
greatest index, hence by the least counterexample.  Stripping is where `Apart` enters: a
cached matcher carries the base of the root it was built for, and the path joined to it
is the entry's own (`FromBaseIs`).  `ParentsExact` gives `ChainIs` for what `add_parents`
builds, whatever the cache holds.  The second part is `WalkInv`.  None of the state says in which
directory the walk is: walkdir's stack has lists of names, the event iterator a depth
and one held-back item, `Walk` a chain.  The invariant says that there is a directory
`q`, below the current root, whose ancestors are the directories entered and not yet left:
the depth counts them, the chain is that of `q`, and the lists, of which walkdir may have
dropped the last already, hold children of the directories on the way to `q`, but for one list more
when the item held back is a directory.  The third part (`ShownInv`) follows the
entries: one that has been met and is wanted is shown or held back, and what a shown
directory leads to, like every root so far, has been met or waits in a list; so
nothing is owed when `None` is answered.  `OnceInv` is the way back: no entry that waits in a list
lies on the way to another that waits (`Separate`), and none that waits or is held back
on the way to one that was returned for this root (`Ungiven`), so that nothing is returned twice.

**The command reader**, for every script of the child, every capacity of the
pipes and both ways of reading stderr (`CapacityAssumption`, `SetupsAssumption`).
`CommandReaderProofs`: `FailuresExactCorrect`, `ChildReapedCorrect`,
`OutputCompleteCorrect`.  `PipesInv` accounts for every unit that the child has
written: it is in a pipe or was read.  `StderrInv` says who has read stderr, `PhaseInv` what each point
of the search knows of reader and child, `ClosedInv` that a reader which has closed has
waited for the child, has all of a failed one's stderr, and has told of it.  None of the
properties is inductive without the accounting: at end of file, "all was received" is
what is left over when the pipe is empty and the child can write no more.  That is also why
`SetupsAssumption` has `ClosesForGood`: a script that writes to a stdout it has closed is no
process's.

**The line buffer**, for every input, capacity, limit and sequence of reads, and any number of
readers.  `LineBufferProofs`: `WindowExactCorrect`, `LimitKeptCorrect`.
`OffsetInv` ties the buffer's end to the reader's position, `BytesInv` each byte
in the buffer to the input's, `BinaryInv` the recorded binary byte to the
first there is, `TellInv` what `fill` has answered to what it left behind.  `WindowExact`
alone is not inductive, for it says nothing of the bytes behind the last
terminator, which the next `fill` moves to the front and completes.

**The search driver**, for every number of threads, every tree and every command line.
`SearchDriverProofs`: `DeterministicExitCorrect`, `OutputExactCorrect`,
`GracefulBrokenPipeCorrect`.  The invariant follows a result from its
delivery to stdout.  It is in one place at a time (`PlaceInv`), so it is printed at most once
(`PrintInv`); each flag that is set has its reason, and each reason its flag or a worker who
is about to raise it (`FlagInv`, and `CleanInv` as long as stdout and stderr work); the
statistics count the searches that were stored (`CountInv`); and the main thread
knows at its end that nobody is on the way (`MainInv`).  The exit status is then a function of the
tree and the flags.  The flags are read only after the join, which is why a lemma
has all workers idle by then.

* `BlameChangesNothing`: `BlamedSpec => SafeSpec`.  With the column of git blame the drivers take
  the same steps and some that change nothing of theirs, so the three theorems hold for
  them as well.
* `BlameConsistentCorrect`: git is run at most once for every search of a file, and every line of
  a file has the first run's answer unless two searches have met.  `RunsInv`
  counts the runs together with those that are going on, since the lock is
  not held while git runs.

**The search worker and its printers**, for every configuration, any number of files and any number
of calls for each.  `SearchWorkerProofs`: `StandardLayoutCorrect`, `JSONMessagesCorrect`,
`StatsExactCorrect`, `ResultShownCorrect`.  The first is about headings, separators and where a
break may stand, not about which gaps have one.  `WriterInv` says that the current file's output is
what lies behind the writer's `total`, so that `count > 0` means this file has
been written about; `TellInv` ties the sink's counters to what the searcher told it;
`StandardInv`, `SummaryInv` and `JSONInv` say how far each printer's output for the
file of the moment has come.  `JSONMessages`, `StatsExact` and `ResultShown` are about
files whose search has returned, and become inductive with these: at the return they follow
from the state of the sink, and later output lies behind.  `WorkerAssumption` has that a named
file is never searched with detection that quits; `BinaryDetection::from_low_args` has no such
case, and that a match in a named file is not dropped, unless a context line before it was
refused, rests on it.

**The search**, for every text, every configuration and all three strategies (line by line over
a buffer or a slice, and multi-line; `CasesAssumption`, `MultiAssumption`).
`LineSearchProofs`:

* `TypeOKCorrect`: positions lie within the buffer, offsets and line numbers are those of the
  buffer in the input, and the code's asserts hold: `fill` is entered with nothing left
  to search, and an after context line is sunk only if one is left.
* `BinaryToldCorrect`: the sink is told of binary data once, before it is shown any
  of it, and if the file is given up for it that is the last it hears.
* `RefusalHonouredCorrect`: a sink that has answered false is called no more.  Its
  hypothesis names the searches of which this is not true (`Stoppable`, section 7).
* `BytesSearchedCorrect`: the number of bytes that `finish` reports covers every match
  shown, and is the whole text if nothing has cut the search short, in every
  search that `Covered` names.  It leaves out the two kinds in which the count may fall short
  (section 7): multi-line searches with a limit and context after it, and inverted
  searches of the fast path with a sink that may refuse.  It does hold of the inverted
  searches with a limit, which the run leaves out.

None of them can be seen from one step, since Core's calls are made one at a time from a
plan.  `Shape` says what a plan may hold at the stage it was made in: lines of the
buffer, the context after a match first and no more of it than is left.
`OrderInv` says that the planned lines follow each other from the last line visited
to the position (`Chain`, `Ahead`), which is why the numbers counted so far
never run ahead of what the next buffer keeps.  `ToldInv` ties the recorded offset
to the notice, and, for a reader, says that the lines of its buffer are inspected before they are
searched.  `SilentInv` is why the notice of data that ends the search is the last call: whatever is
planned after it is context whose lines are spoilt, and makes no call at all.
`ByteInv` says where what has been shown lies: before the position, and before the last line
visited, from which the next buffer starts (`ShownInv`).  Planned calls either move the position
along with them or are about lines behind it (`CallInv`, with `KeptInv` for the match that
a multi-line search keeps back), and a search ends at the end of the text or has been `Cut`
(`EndInv`).  Behind a limit a line of the context may be a match met again, whose call
sets the position to its own end.  `SpentInv` is why that does not disturb an inverted search
of the fast path, which moves past its matches before it shows them: it looks for matches again
only if the limit has not been reached (`Allowed`) or no context is left (`Spent`, `Exhausts`).

**The command line**, for every command line, configuration file, environment and
text.  `CommandLineProofs`:

* `FlagsExclude`: `Spec => []NeverBoth`.  Of `--crlf` and `--null-data`, `--pre`
  and `-z`, `--multiline` and `--stop-on-nonmatch`, at most one is in effect, at
  any point of either pass.
* `OverridesCorrect`: `Spec => []OverridesExact`.  Once the arguments are converted,
  `LowArgs` is what, by the documentation, the flags of the configuration file followed by those of
  the command line mean, read off the whole sequence: `--files` wins over whichever
  search mode stands before it.  Of the mode of a sequence that is `Overtaken` it says nothing.
* `StdinReadOnceCorrect`: `Spec => []StdinReadOnce`.  Stdin is read for patterns at
  most once and then not searched.

The invariant (`IInv`) reads the arguments from left to right.  `Reading` says that
some sequence of flags has been taken, that it and the flags which remain are all the
flags (`Words`), and that `LowArgs` agrees with what has been taken (`Exact`); and once
the first pass is over, that the arguments it leaves for the second are those that
count.  `Exact` says more than the reference `Agree` of the property: how often `-u` was
given, which side of the context was given and not only how many lines it comes to,
when the mode is JSON, and that the code takes the last of the modes, whatever it is (`LatestMode`; `ModeAgree`
compares it with what the modes mean); the next flag's effect depends on that.  It has a part for each group of flags that undo or imply one
another (line terminators, preprocessors, context, mode, `-u`, ...), each an equation
between a field and the places where flags were last mentioned.

A flag's update enters the proof once, when it is reduced to its `Effect` on the
fields of those parts; that the effect of one more flag keeps each part is a lemma
about sequences, and needs no case split over the flags.  Where an induction over a
sequence is needed (`LinesFrom`, `ConfigArgsSeq`, `StdinOnce`) it is done by the least
counterexample (`LeastIn`), as the induction theorems cannot be instantiated.  For
`StdinReadOnce` it shows that a conversion which did not fail has met `-` at most
once among the files of patterns, and remembers it when the paths are chosen.

Only model-checked:

* every liveness property (the walk, the search and the program come to their end, the
  abstract walk's return), which needs fairness and `ENABLED`;
* the modules with recursive operators (`Globs`, `IgnoreRules`, `RegexBuild`,
  `LineFormat`, `Conversions`, `Hyperlinks`, `Decompression`, and `SearchStrategy`, which
  uses them), judged by `MCTexts`;
* `ExactEvents` and `MultiExact`, which compare what a search shows with a recomputation of
  all of it; proved of the searches are the parts of it listed above;
* of `SerialWalk`, that it comes to its end, and the configurations of the run which the
  hypotheses of its theorems leave out;
* `BytesSearched` for those of the searches that `Covered` leaves out which are in the run.

## 6. What is not modelled

* The regular expression engines themselves, captures, and PCRE2; Unicode beyond
  single bytes.  Encodings other than UTF-8 and UTF-16 are all one.
* The layout of JSON messages, the wording of notices, durations; `PathPrinter`; the
  default list of file types, which is data.
* Paths of Windows, and of WSL in hyperlinks; `hostname`, `wtype`, `pattern` and `stdin`
  detection, which wrap the platform.
* Symbolic links that are followed, worktrees, and `same_file_system` in the
  serial walk.
* What git prints, and where it is run.
* Generated documents (manual, help, completions), logging, packaging: no state.
* Of the command line: clusters of short flags, suggestions for misspelt flags,
  and the error of a selected file type whose glob is malformed.
* Errors of `wait` and of reading a child's stderr; an error of reading a file that has the
  kind of a broken pipe, which would end a serial search (`main.rs:129`).
* Errors of the matcher, the reader and the sink within a search.  `SearchWorker`
  has what they lead to.
* Weak memory: `quit_now` is sequentially consistent, `active_workers` is read and
  written with acquire and release; the modules take every atomic operation as one
  step and let every thread see it at once.

## 7. Where code and documentation part

Shown by a run:

* `serial_shared_parents`: `add_parents` caches the matchers of parents by path,
  with the absolute path of the first root inside; under a second root an anchored
  rule of a shared parent is matched against the wrong path.
* `command_reader_default`: `CommandReaderBuilder` says stderr is read
  asynchronously by default; `derive(Default)` makes it synchronous, and a talkative
  child and the reader wait for each other.  ripgrep sets it itself, except in
  `hiargs.rs`'s `hostname`.
* `search_limit_inverted`: with `-v -m N` more than N lines are shown.

Met while modelling, and kept out of the instances or noted at the action:

* `Mode::update` (`lowargs.rs:177`) tests the old mode where it means the new one:
  `--files -l` searches, although the comments (`lowargs.rs:174`, `lowargs.rs:182`) say that
  a search mode cannot override one that does not search, and that it "will still be
  Mode::Files".  `Agree` has the documented meaning and leaves these sequences (`Overtaken`) out;
  without that `OverridesExact` fails.
* In a named file, or with `--binary`, matches behind binary data are to be told with a notice: "if
  ripgrep reports no matches, then there are no matches in the file" (`GUIDE.md:753`),
  it "will continue searching until either a match is found or the end of the file is
  reached" (`defs.rs:460`), and `tests/binary.rs:361` expects the notice.  But `StandardSink::context` refuses a line
  behind the binary byte (`standard.rs:823`), and the lines of `-B`, `-C` and `--passthru` come before their
  match (`core.rs:407`): the search stops there with the match found and not told,
  no notice is written, and the exit status is 1.  `ResultShown` leaves just these searches
  out (`CutShort`); without that it fails.
* A special flag (`--help`, `--version`) in the configuration file gets past
  `parse_low`, which looks for one only after the first pass, and fails the
  assertion at `hiargs.rs:117`.  It is `CommandLine`'s outcome "panic".
* A configuration file whose last line is a flag without its value takes the first
  argument of the command line as the value; `--` in it makes everything on the
  command line positional; `-u` in it and `-uuu` on the command line are one too
  many.
* `-N` has no effect in a standard search, since blame columns, on by default, turn line
  numbers on (`hiargs.rs:220`).
* On the fast path an inverted search runs past the line at which
  `--stop-on-nonmatch` should end it (`core.rs:442`), and calls the sink again after
  a refusal (`core.rs:398`; `sink.rs:118` says otherwise).  If binary data in the next buffer
  then ends the search, the number of bytes searched ends before the line that was refused.
* `skip_entry` never asks the filter if a size limit is set (`walk.rs:1079`).
* A serial search whose stdout breaks exits with 1 even if it had found a match
  (`main.rs:129`, which no property catches: `GracefulBrokenPipe` asks only that the status is
  no error, and `DeterministicExit` only of programs whose stdout stays open); a broken stderr ends the process with 0 (`messages.rs:52`).  The
  manual's template promises otherwise.
* `bytes_printed` is noted before the summary line, or JSON's end message, is
  written (`summary.rs:723`, `json.rs:827`), so `--count --stats` reports that
  nothing was printed.
* A file without a match whose binary data ended the search is not listed by
  `--files-without-match` but counts as a match for the exit status.
* With binary detection that quits, context before a match in the buffer may be
  printed although the match is not.
* A failed serial search leaves a JSON begin message without its end in the output.
* With `min_depth` of 1 or more the root's own ignore files are not consulted by the
  serial walk, and with all ignore options off its last `Exit` unwraps a parent
  that is not there.  ripgrep itself never sets `min_depth`.
* If `skip_entry` fails on a directory event, the chain is popped once too often;
  and `skip_current_dir` after a directory on another file system drops the
  rest of its parent.
* The comment at `walk.rs:1827` describes the last worker's part differently from
  the code.
* `blame.rs` truncates a name at a byte, which may lie within a character, and two
  threads may both run `git` for the same file.
* `MultiLine::run` answers true after it has sunk the match it kept back, whatever
  the sink said (`sink.rs:118`); an inverted multi-line search takes `--max-count`
  for the number of matches, which it does not show; and a match at the empty
  place behind the last terminator is not shown, though the lines before it are.
* In a multi-line search with `--max-count` a line of the context that matches only on its own
  (`\A`) sets the position back (`core.rs:296`), and a match kept back is shown after
  it: the number of bytes searched then ends before that match.
* A search of a slice with binary data that is converted reports the offset of the
  first such byte as the number of bytes searched.
* `search_file` does not check the configuration before a multi-line search, as
  the other ways do; and a file of exactly the heap limit's length is an error.
* `matches_all_candidate` (`globset/src/lib.rs:390`) asks each strategy for one match,
  where its documentation wants every glob to match.  `escape` leaves backslashes alone.
  An escaped comma in `{a\,**}` is dropped, and a negated class matches a separator even
  with `literal_separator`.  A path whose last component is `..` has no name, so that
  some strategies miss it.
* `a\  ` in an ignore file ends in a lone backslash and is an error, where git quotes the first
  space; `a\\ ` keeps its space although the backslash is itself quoted.  An
  override that begins with `#` is silently a comment.
* `matched_path_or_any_parents` goes up to the empty path, so that under `*/` every
  file is ignored.
* `strip_prefix` is bytewise, without regard to components.
* Plain patterns bypass the check for banned bytes (`config.rs:102`), so that a NUL
  in one is no error though it can never match.
* The standard printer judges `--max-columns` with leading space when it colors a line
  and without it otherwise; a colored line gets the terminator searched for, not
  its own; the previews differ likewise.  The length counts the terminator, except
  with `--only-matching` over several lines.
* `record_matches` compares a match's offset within the lines with an offset within the buffer (JSON's
  with the buffer's length), so an empty match at the end may stay.
* In a multi-line search every line has the column of the block's first match, a
  match of a terminator alone prints nothing with `-o`, and a replacement whose last match
  goes on behind the block brings the look-ahead with it.
* With `--path-separator`, links and blame get the path with its separators already replaced
  on Unix.
