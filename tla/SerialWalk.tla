----------------------------- MODULE SerialWalk -----------------------------
(***************************************************************************)
(* The single-threaded walk of crates/ignore/src/walk.rs: Walk, an iterator*)
(* over the events of WalkEventIter, which itself iterates over a walkdir  *)
(* iterator and adds an event for every directory that is left.  Events    *)
(* drive the chain of matchers (IgnoreChain): the matcher of a directory   *)
(* is pushed when the directory is reported and popped when it is left.    *)
(*                                                                         *)
(* walkdir is a stack of directory listings, here below a listing of the   *)
(* root alone.  The order within a listing is the file system's.           *)
(***************************************************************************)
EXTENDS IgnoreChain

CONSTANTS
    Tree,    \* every path that may be walked, and Stdin
    Dirs,    \* those that are directories
    Stdin,   \* the path "-"
    Trouble, \* the name of the error that an unreadable directory lists
    Configs  \* the trees, rules and options considered

(* A configuration has the fields of IgnoreChain (on, parents, require_git, *)
(* hidden, rules, repos) and, for the walk,                                 *)
(*   roots                 the paths given, in order                        *)
(*   min_depth, max_depth                                                   *)
(*   stdout, unclear       entries that are stdout; that cannot be compared *)
(*   limited, big          whether max_filesize is set; files beyond it     *)
(*   rejected              entries that the filter refuses                  *)
(*   bad, unreadable       entries, listings that cannot be read            *)

RootsOf(c) == ToSet(c.roots)
RootOf(c, e) == CHOOSE r \in RootsOf(c) : IsPrefix(r, e)

ASSUME ConfigAssumption ==
    /\ Dirs \subseteq Tree /\ Stdin \in Tree \ Dirs
    /\ \A c \in Configs :
        /\ RootsOf(c) \subseteq Tree /\ c.roots # <<>>
        \* Standard input is not looked up.
        /\ Stdin \notin c.bad
        /\ c.min_depth \in Nat /\ c.max_depth \in Nat /\ c.min_depth <= c.max_depth
        /\ c.stdout \cup c.unclear \cup c.big \cup c.rejected \cup c.bad
               \cup c.unreadable \subseteq Tree
        /\ c.on \subseteq RuleKinds
        \* core asks for the other kinds of git only with .gitignore
        /\ c.on \cap {"exclude", "global"} # {} => "gitignore" \in c.on

\* Paths are sequences of names, "/" is not walked, and what the model writes
\* for no directory and for an error is not the name of a file.
ASSUME PathAssumption ==
    /\ NoPath \notin Tree
    /\ \A e \in Tree : e \in Seq(ToSet(e)) \ {<<>>} /\ Last(e) # Trouble
    /\ \A c \in Configs : c.roots \in Seq(Tree) /\ \A r \in c.rules : r.dir # NoPath

VARIABLES
    config,
    promise,  \* what this configuration asks for (for the properties)
    next,     \* the root to be handed out next; 0 before the walk is built
    open,     \* walkdir's stack of listings: what is left of each
    item,     \* what the event iterator holds back or works on, if anything
    depth,    \* WalkEventIter::depth
    ig,       \* the current chain
    compiled, \* the cache of absolute parents
    pulled,   \* entries that walkdir has met (for the properties)
    given     \* what next has returned: which root was walked, and the entry

input == <<config, promise>>
treeVars == <<open, item, depth>>
igVars == <<ig, compiled>>
vars == <<input, next, treeVars, igVars, pulled, given>>

\* The entries that next has returned.
shown == {g[2] : g \in given}

NoItem == [kind |-> "none"]
Entry(p, d) == [kind |-> "entry", path |-> p, depth |-> d]
Failure(p, d) == [kind |-> "error", path |-> p, depth |-> d]

Children(d) == {e \in Tree \ {Stdin} : e # <<>> /\ Front(e) = d}

\* The walk as its caller understands it: the entries that nothing asks to
\* skip, what a listing leads to, and what is deep enough to be shown.
DepthOf(c, e) == Len(e) - Len(RootOf(c, e))
Walked(c) == {e \in Tree : \E r \in RootsOf(c) : IsPrefix(r, e)}
Skipped(c, e) ==
    /\ e \notin RootsOf(c)
    /\ \/ ShouldSkipEntry(c, RefIgnore(c, RootOf(c, e), e), e)
       \/ e \in c.stdout
       \/ c.limited /\ e \in c.big \ Dirs
       \/ e \in c.rejected
Promise(c) ==
    LET unknown == c.bad \cup (c.unclear \ RootsOf(c))
        wanted == {e \in Walked(c) \ unknown : ~Skipped(c, e)}
    IN  [wanted |-> wanted,
         yields |-> [d \in Tree |->
             IF d \in (Dirs \cap Walked(c)) \ c.unreadable
             THEN {e \in Children(d) \cap wanted : DepthOf(c, e) <= c.max_depth}
             ELSE {}],
         shows |-> {e \in Walked(c) : DepthOf(c, e) >= c.min_depth}]

Init ==
    /\ config \in Configs /\ promise = Promise(config)
    /\ next = 0
    /\ open = <<>> /\ item = NoItem /\ depth = 0
    /\ ig = RootChain /\ compiled = <<>>
    /\ pulled = {} /\ given = {}

\* WalkBuilder::build.
Build ==
    /\ next = 0
    /\ next' = 1
    /\ UNCHANGED <<input, treeVars, igVars, pulled, given>>

-----------------------------------------------------------------------------
\* walkdir.

Listing(d) == IF d \in config.unreadable THEN {Append(d, Trouble)} ELSE Children(d)

Level == Len(open) - 1
TooDeep == Level > config.max_depth

\* The next entry of the innermost listing.  A directory is opened before it
\* is reported; one that is too shallow to be reported is opened all the same.
Pull ==
    /\ item = NoItem /\ open # <<>> /\ ~TooDeep
    /\ \E e \in Last(open) :
        LET rest == Append(Front(open), Last(open) \ {e})
            fails == Last(e) = Trouble \/ e \in config.bad
        IN  /\ open' = IF e \in Dirs /\ ~fails THEN Append(rest, Listing(e)) ELSE rest
            /\ item' = CASE Last(e) = Trouble -> Failure(e, Level - 1)
                         [] e \in config.bad -> Failure(e, Level)
                         [] Level < config.min_depth /\ ~fails -> NoItem
                         [] OTHER -> Entry(e, Level)
            /\ pulled' = IF fails THEN pulled ELSE pulled \cup {e}
    /\ UNCHANGED <<input, next, depth, igVars, given>>

\* A listing that is exhausted, or below max_depth, is left.
Leave ==
    /\ item = NoItem /\ open # <<>>
    /\ Last(open) = {} \/ TooDeep
    /\ open' = Front(open)
    /\ UNCHANGED <<input, next, item, depth, igVars, pulled, given>>

-----------------------------------------------------------------------------
\* Walk::next.

\* The next root.  A directory gets its parents' matchers, if they are wanted.
NextRoot ==
    /\ next \in 1 .. Len(config.roots)
    /\ open = <<>> /\ item = NoItem /\ depth = 0
    /\ LET root == config.roots[next]
           added == IF root \in Dirs THEN AddParents(config, ig, compiled, root)
                    ELSE [ig |-> RootChain, compiled |-> compiled]
       IN  IF root = Stdin
           THEN given' = given \cup {<<next, Stdin>>} /\ UNCHANGED <<open, igVars>>
           ELSE /\ open' = <<{root}>>
                /\ ig' = added.ig /\ compiled' = added.compiled
                /\ UNCHANGED given
    /\ next' = next + 1
    /\ UNCHANGED <<input, item, depth, pulled>>

\* The depth at which the iteration goes on: 0 after the last entry.
ItemDepth == IF item = NoItem THEN 0 ELSE item.depth
LeavesDir == (item # NoItem \/ open = <<>>) /\ ItemDepth < depth

\* A directory has been left: its matcher is dropped.  There has to be one:
\* the code unwraps the parent.
Exit ==
    /\ LeavesDir
    /\ Len(ig) > 1
    /\ depth' = depth - 1
    /\ ig' = Front(ig)
    /\ UNCHANGED <<input, next, open, item, compiled, pulled, given>>

\* Whether an entry is skipped: in this order, and without a word on a root.
SkipEntry(e) ==
    IF item.depth = 0 THEN "keep"
    ELSE IF ShouldSkipEntry(config, MatchedIgnore(config, ig, e), e) THEN "skip"
    ELSE IF e \in config.unclear THEN "error"
    ELSE IF e \in config.stdout THEN "skip"
    ELSE IF config.limited /\ e \notin Dirs
         THEN IF e \in config.big THEN "skip" ELSE "keep"
    ELSE IF e \in config.rejected THEN "skip"
    ELSE "keep"

Ready(kind) == item.kind = kind /\ ~LeavesDir

\* skip_current_dir: what is left of walkdir's listings.
OpenAfterAny(answer) == open
OpenAfter(answer) == IF answer = "skip" THEN Front(open) ELSE open

\* A skipped directory is pushed too, since it will be left; one that cannot
\* be told from stdout is not.
ChainAfterKept(answer) ==
    IF answer = "keep" THEN AddChild(config, ig, item.path) ELSE ig
ChainAfter(answer) ==
    IF answer = "error" THEN ig ELSE AddChild(config, ig, item.path)

\* What an answer adds to what the caller was given of the current root.
Given(answer) ==
    IF answer = "keep" THEN given \cup {<<next - 1, item.path>>} ELSE given

DirEvent ==
    /\ Ready("entry") /\ item.path \in Dirs
    /\ LET answer == SkipEntry(item.path)
       IN  /\ ig' = ChainAfter(answer)
           /\ open' = OpenAfter(answer)
           /\ given' = Given(answer)
    /\ depth' = item.depth + 1
    /\ item' = NoItem
    /\ UNCHANGED <<input, next, compiled, pulled>>

\* Mutant of FileEvent: what is held back is read, and not taken.
FileEventAgain ==
    /\ Ready("entry") /\ item.path \notin Dirs
    /\ given' = Given(SkipEntry(item.path))
    /\ depth' = item.depth
    /\ UNCHANGED <<input, next, open, item, igVars, pulled>>
FileEvent ==
    /\ Ready("entry") /\ item.path \notin Dirs
    /\ given' = Given(SkipEntry(item.path))
    /\ depth' = item.depth
    /\ item' = NoItem
    /\ UNCHANGED <<input, next, open, igVars, pulled>>

\* An error goes to the caller.
ErrorEvent ==
    /\ Ready("error")
    /\ depth' = item.depth
    /\ item' = NoItem
    /\ UNCHANGED <<input, next, open, igVars, pulled, given>>

\* There are no roots left: next answers None.
NoMoreRoots ==
    /\ next = Len(config.roots) + 1
    /\ open = <<>> /\ item = NoItem /\ depth = 0
    /\ next' = next + 1
    /\ UNCHANGED <<input, treeVars, igVars, pulled, given>>

\* The iterator is fused: it goes on answering None.
Finished == next = Len(config.roots) + 2
End == Finished /\ UNCHANGED vars

Next ==
    \/ Build \/ Pull \/ Leave \/ NextRoot
    \/ Exit \/ DirEvent \/ FileEvent \/ ErrorEvent \/ NoMoreRoots \/ End

Spec == Init /\ [][Next]_vars /\ WF_vars(Next)

-----------------------------------------------------------------------------
\* What is going to be matched against the chain.
Candidate == Ready("entry") /\ item.depth > 0

\* The verdict on an entry depends on the rules and on where the entry lies,
\* not on which entries and roots came before: whatever has been pushed,
\* popped, skipped and cached, matched_ignore says what the documentation
\* says of the path.
VerdictExact ==
    Candidate => MatchedIgnore(config, ig, item.path)
                     = RefIgnore(config, RootOf(config, item.path), item.path)

Abstract == INSTANCE TreeWalk WITH
    Entries <- Tree,
    top <- RootsOf(config) \ config.bad,
    yields <- promise.yields,
    shown <- promise.shows,
    found <- IF next = 0 THEN {}
             ELSE promise.wanted \cap (RootsOf(config) \cup pulled),
    visited <- shown,
    pruned <- {},
    stopped <- FALSE,
    finished <- Finished

\* While a root is walked, no entry is returned twice, however listings are
\* skipped, left or unreadable.  (A root that is given twice, or below another,
\* is walked each time.)
ShownOnce ==
    Ready("entry") /\ SkipEntry(item.path) = "keep" =>
        <<next - 1, item.path>> \notin given

\* The serial walk shows what its callers, and those of the parallel one, rely
\* on: nothing that is to be skipped, everything else, and it ends.  The
\* abstract walk does not see an entry that is shown again, hence ShownOnce.
ImplementsTreeWalk == Abstract!Safety /\ Abstract!Returns /\ []ShownOnce
=============================================================================
