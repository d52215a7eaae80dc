---------------------------- MODULE IgnoreChain ----------------------------
(***************************************************************************)
(* The chain of matchers of crates/ignore/src/dir.rs: Ignore, add_parents, *)
(* add_child, matched and matched_ignore.                                  *)
(*                                                                         *)
(* A path is the sequence of its names below "/".  A chain is the sequence *)
(* of an Ignore and its parents, the oldest first: the empty root matcher, *)
(* the absolute parents that add_parents compiles, and one matcher for     *)
(* every directory that the walk has entered.  What an ignore file says is *)
(* a set of rules; of one kind and directory at most one rule speaks of a  *)
(* path (which of several lines wins is a matter of gitignore.rs).         *)
(***************************************************************************)
EXTENDS SequencesExt

CONSTANTS
    Cwd,         \* the directory that relative paths start from
    HiddenNames, \* names that begin with a dot
    NoPath       \* "no directory" and "no absolute_base"

GitKinds == {"gitignore", "exclude"}
FileKinds == {"custom", "ignore"} \cup GitKinds
RuleKinds == FileKinds \cup {"global", "explicit", "override", "types"}
Verdicts == {"none", "ignore", "whitelist"}

\* A matcher's root is stripped from the path it is given.
Strip(dir, path) ==
    IF IsPrefix(dir, path) THEN SubSeq(path, Len(dir) + 1, Len(path)) ELSE path

\* An anchored pattern is a path below the ignore file; any other is a name.
Fits(rule, path) ==
    IF rule.anchored THEN path = rule.target ELSE Last(path) = Last(rule.target)

\* What the rules of one kind, read from one directory, say of a path.
Matcher(c, kind, dir, path) ==
    LET hits == {r \in c.rules : /\ kind \in c.on
                                 /\ r.kind = kind /\ r.dir = dir
                                 /\ Fits(r, Strip(dir, path))}
    IN  IF hits = {} THEN "none" ELSE (CHOOSE r \in hits : TRUE).verdict

\* Match::or.
Or == [a, b \in Verdicts |-> IF a = "none" THEN b ELSE a]

-----------------------------------------------------------------------------
\* Building the chain.

RootChain ==
    <<[dir |-> NoPath, abs |-> TRUE, base |-> NoPath, git |-> FALSE]>>

AddChild(c, chain, dir) ==
    Append(chain, [dir |-> dir, abs |-> FALSE, base |-> Last(chain).base,
                   git |-> /\ c.require_git /\ c.on \cap GitKinds # {}
                           /\ dir \in c.repos])

\* The matcher of a proper parent of `root`.
ParentNode(c, root, dir) ==
    [dir |-> dir, abs |-> TRUE, base |-> root,
     git |-> c.require_git /\ "gitignore" \in c.on /\ dir \in c.repos]

NeedsParents(c) == c.parents \/ c.on \cap (GitKinds \cup {"global"}) # {}

\* compiled holds weak pointers: an entry counts as long as the chain it
\* points to is part of one that somebody holds.
Alive(compiled, held, dir) ==
    dir \in DOMAIN compiled /\ IsPrefix(compiled[dir], held)

AddParents(c, held, compiled, root) ==
    LET parent(i) == SubSeq(root, 1, i - 1)
        built[i \in 0 .. Len(root)] ==
            IF i = 0 THEN RootChain
            ELSE IF Alive(compiled, held, parent(i)) THEN compiled[parent(i)]
            ELSE Append(built[i - 1], ParentNode(c, root, parent(i)))
        parents == {parent(i) : i \in 1 .. Len(root)}
    IN  IF NeedsParents(c)
        THEN [ig |-> built[Len(root)],
              compiled |-> [d \in DOMAIN compiled \cup parents |->
                  IF d \in parents THEN built[Len(d) + 1] ELSE compiled[d]]]
        ELSE [ig |-> RootChain, compiled |-> compiled]

-----------------------------------------------------------------------------
\* Matching.  `path` is the entry as it is walked; its absolute form stands
\* for it, so that the directories of the walk are prefixes of it.

AnyGit(c, chain) == ~c.require_git \/ \E i \in DOMAIN chain : chain[i].git

\* Where the matchers of the walk itself begin in the chain.
FirstWalked(chain) == 1 + Max({0} \cup {i \in DOMAIN chain : chain[i].abs})

\* The path joined as it is.
FromBaseWhole(chain, path) == Last(chain).base \o Strip(Cwd, path)

\* The path as the absolute parents see it: absolute_base, joined with what
\* is left of the path below the topmost directory of the walk.
FromBase(chain, path) ==
    Last(chain).base \o
        (IF FirstWalked(chain) \in DOMAIN chain
         THEN Strip(chain[FirstWalked(chain)].dir, path)
         ELSE Strip(Cwd, path))

\* The deepest matcher that has something to say, of those that are asked:
\* the kinds that belong to git are not asked above a repository.
Nearest(c, chain, kind, path) ==
    LET walked == FirstWalked(chain) .. Len(chain)
        asked == {i \in DOMAIN chain :
                     /\ i \in walked \/ (c.parents /\ Last(chain).base # NoPath)
                     /\ kind \in GitKinds =>
                            /\ AnyGit(c, chain)
                            /\ \A j \in i + 1 .. Len(chain) : ~chain[j].git}
        says(i) == Matcher(c, kind, chain[i].dir,
                           IF i \in walked THEN path ELSE FromBase(chain, path))
        speak == {i \in asked : says(i) # "none"}
    IN  IF speak = {} THEN "none" ELSE says(Max(speak))

\* Global and explicit rules are relative to the current directory.
Outermost(c, anyGit, path) ==
    Or[IF anyGit THEN Matcher(c, "global", Cwd, path) ELSE "none",
       Matcher(c, "explicit", Cwd, path)]

MatchedIgnore(c, chain, path) ==
    Or[Nearest(c, chain, "custom", path), Or[Nearest(c, chain, "ignore", path),
    Or[Nearest(c, chain, "gitignore", path), Or[Nearest(c, chain, "exclude", path),
    Outermost(c, AnyGit(c, chain), path)]]]]

\* Overrides come first.  Of the others, "ignore" is final as soon as it is
\* said, and "whitelist" stands only if nothing after it says otherwise.
Precedence == [override, ignored, types \in Verdicts |->
    IF override # "none" THEN override
    ELSE IF ignored = "ignore" \/ types = "none" THEN ignored ELSE types]

Matched(c, ignored, path) ==
    Precedence[Matcher(c, "override", Cwd, path), ignored, Matcher(c, "types", Cwd, path)]

\* Whether an entry is ignored, hidden ones included, given what the ignore
\* files say of it.
ShouldSkipEntry(c, ignored, path) ==
    Matched(c, ignored, path) \in
        IF c.hidden /\ Last(path) \in HiddenNames THEN {"ignore", "none"} ELSE {"ignore"}

-----------------------------------------------------------------------------
\* What the documentation promises, in terms of the path alone: of each kind
\* the rule nearest to the entry decides; rules of git hold up to the root of
\* the entry's repository, and only in a repository, unless require_git is
\* off; rules above the walk's root hold if `parents` is on.

RefNearest(c, root, kind, path) ==
    LET enclosing == Prefixes(path) \ {path}
        repos == IF c.require_git THEN enclosing \cap c.repos ELSE {}
        asked == {d \in enclosing :
                     /\ c.parents \/ IsPrefix(root, d)
                     /\ kind \in GitKinds => \A g \in repos : Len(g) <= Len(d)}
        speak == {d \in asked : Matcher(c, kind, d, path) # "none"}
    IN  IF speak = {} THEN "none"
        ELSE Matcher(c, kind, CHOOSE d \in speak : \A e \in speak : Len(e) <= Len(d), path)

RefIgnore(c, root, path) ==
    LET inGit == ~c.require_git \/ (Prefixes(path) \ {path}) \cap c.repos # {}
        git(kind) == IF inGit THEN RefNearest(c, root, kind, path) ELSE "none"
    IN  Or[RefNearest(c, root, "custom", path), Or[RefNearest(c, root, "ignore", path),
        Or[git("gitignore"), Or[git("exclude"), Outermost(c, inGit, path)]]]]
=============================================================================
