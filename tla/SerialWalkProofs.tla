-------------------------- MODULE SerialWalkProofs --------------------------
(***************************************************************************)
(* Theorems about the single-threaded walk, for every tree, all rules and  *)
(* every order of the listings: that an entry is judged as its path        *)
(* deserves, that a matcher is never popped that is not there, that the    *)
(* walk implements TreeWalk, and that it returns no entry of a root twice. *)
(*                                                                         *)
(* The argument has three parts.  The first is about the operators: with a *)
(* matcher for every directory on the way to an entry (ChainIs), the chain *)
(* gives the verdict that the documentation reads off the path             *)
(* (JudgedExactly); and add_parents builds such a chain for the root's     *)
(* parents, whatever it finds in its cache (ParentsExact).  The second is  *)
(* the invariant WalkInv: at each step there is a directory q whose        *)
(* ancestors are the directories that have been entered and not left, and  *)
(* both walkdir's listings and the chain are those of q's ancestors, give  *)
(* or take the directory that the event iterator still holds back.  The    *)
(* third follows the entries themselves, from the listing in which they    *)
(* wait to the caller (ShownInv), and back: nothing that waits or is held  *)
(* back lies on the way to an entry that the caller has (OnceInv).         *)
(***************************************************************************)
EXTENDS SerialWalk, WellFoundedInduction, TLAPS

-----------------------------------------------------------------------------
(* The configurations of which this is true.  core sets no min_depth; a    *)
(* directory that cannot be compared with stdout upsets the chain; a root  *)
(* below another is walked twice.                                          *)

\* The root is shown, no directory fails to be compared with stdout, and no
\* root lies below another.
Regular(c) ==
    /\ c.min_depth = 0
    /\ c.unclear \cap Dirs = {}
    /\ \A r, s \in RootsOf(c) : IsPrefix(r, s) => r = s
\* No anchored rule lies above a root, or no other root is below that root's
\* parent.
Apart(c) ==
    \/ \A r \in c.rules : r.anchored => \A s \in RootsOf(c) : ~IsStrictPrefix(r.dir, s)
    \/ \A r, s \in RootsOf(c) \cap Dirs : IsPrefix(Front(r), s) => r = s
\* A filter is asked although there is a limit.
Filtered(c) == c.limited => c.rejected \subseteq Dirs

-----------------------------------------------------------------------------
(* The invariant.                                                          *)

Names == {Trouble} \cup UNION {ToSet(e) : e \in Tree}
Paths == Seq(Names)
Cut(s, n) == SubSeq(s, 1, n)
\* t starts with s.
Within(s, t) == Len(s) <= Len(t) /\ Cut(t, Len(s)) = s

\* Whether a matcher of a directory says that the directory is a repository.
IsRepo(c, dir) == c.require_git /\ "gitignore" \in c.on /\ dir \in c.repos

\* The first n matchers of a chain are those of the empty root and of the
\* directories above dir/.
Upper(c, chain, dir, n) ==
    /\ chain[1].dir = NoPath /\ chain[1].abs /\ ~chain[1].git
    /\ \A i \in 2 .. n : /\ chain[i].dir = Cut(dir, i - 2)
                         /\ chain[i].abs
                         /\ chain[i].git <=> IsRepo(c, chain[i].dir)

\* What add_parents caches for a directory: a matcher for it and for each one
\* above it, with the absolute path of a root that lies below.
Cached(c, dir, chain) ==
    /\ chain \in Seq(ToSet(chain)) /\ Len(chain) = Len(dir) + 2
    /\ Upper(c, chain, dir, Len(dir) + 2)
    /\ Last(chain).base \in RootsOf(c) \cap Dirs
    /\ Within(dir, Last(chain).base) /\ dir # Last(chain).base

\* The chain of a walk of r that has entered the directories down to q.
Above(c, r) == IF NeedsParents(c) THEN Len(r) + 1 ELSE 1
BaseOK(c, r, base) ==
    IF NeedsParents(c)
    THEN base \in RootsOf(c) \cap Dirs /\ Within(Front(r), base)
    ELSE base = NoPath
ChainIs(c, r, chain, q) ==
    LET top == Above(c, r)
        size == top + Len(q) + 1 - Len(r)
    IN  /\ chain \in Seq(ToSet(chain)) /\ Len(chain) = size
        /\ Upper(c, chain, r, top)
        /\ \A i \in top .. size : BaseOK(c, r, chain[i].base)
        /\ \A i \in top + 1 .. size :
             /\ chain[i].dir = Cut(q, Len(r) + i - top - 1)
             /\ ~chain[i].abs
             /\ chain[i].git <=> IsRepo(c, chain[i].dir)

\* q is a trail of `depth` directories below r's parent.
Trail(r, q, n) ==
    /\ q \in Paths /\ Len(q) = Len(r) - 1 + n
    /\ Within(Front(r), q) /\ (n > 0 => Within(r, q))

Lists(c, d) == IF d \in c.unreadable THEN {Append(d, Trouble)} ELSE Children(d)
HoldsDir(it) == it.kind = "entry" /\ it.path \in Dirs
\* How deep the directories are that stay entered.
Stays(it, n) == IF it = NoItem THEN n ELSE it.depth

\* What waits in the listing at place j below the root r.  Those of the
\* directories down to stem have been shown; one may be held back.
Waits(c, r, lists, it, seen, stem, j, e) ==
    /\ e \in Lists(c, Front(e)) \/ e = r
    /\ e \in Paths \ {<<>>}
    /\ Len(e) = Len(r) + j - 1 /\ Within(r, e)
    /\ IF e \in Tree THEN e # Stdin ELSE Last(e) = Trouble /\ lists[j] = {e} /\ j > 1
    /\ j = 1 <=> e = r
    /\ IF HoldsDir(it) /\ j = Len(lists) THEN Front(e) = it.path
       ELSE /\ Within(Front(e), stem)
            /\ j > 1 => Front(e) \in seen \cap Dirs

\* What the event iterator holds, of entries below q.
Holds(c, r, lists, it, n, met, q) ==
    \/ it = NoItem
    \/ /\ lists # <<>>
       /\ it.depth \in 0 .. n
       /\ \/ it = Failure(it.path, it.depth)
          \/ /\ it = Entry(it.path, it.depth)
             /\ it.path \in Tree \ {Stdin} /\ it.path \in met
             /\ it.path \notin c.bad
             /\ Len(it.path) = Len(r) + it.depth
             /\ Within(r, it.path)
             /\ Within(Front(it.path), q)
             /\ it.path \in Dirs =>
                  /\ Len(lists) = it.depth + 2
                  /\ lists[it.depth + 2] = Lists(c, it.path)

\* Where the walk of r is: n directories have been entered, down to q.
PlaceOf(c, r, lists, it, n, chain, seen, met, q) ==
    /\ Trail(r, q, n)
    /\ IF r \in Dirs THEN ChainIs(c, r, chain, q) ELSE n = 0 /\ Len(lists) <= 1
    /\ Holds(c, r, lists, it, n, met, q)
    /\ \A j \in DOMAIN lists : \A e \in lists[j] :
         Waits(c, r, lists, it, seen, Cut(q, Len(r) - 1 + Stays(it, n)), j, e)

Root == config.roots[next - 1]
Place(q) == PlaceOf(config, Root, open, item, depth, ig, shown, pulled, q)
Resting == open = <<>> /\ item = NoItem /\ depth = 0

\* Every cached chain is one of a directory and those above it.
Known(c, known) ==
    \A d \in DOMAIN known : d \in Paths /\ Cached(c, d, known[d])

WalkInv ==
    /\ config \in Configs /\ promise = Promise(config)
    /\ next \in 0 .. Len(config.roots) + 2 /\ depth \in Nat
    /\ open \in Seq(SUBSET Paths)
    /\ Known(config, compiled)
    /\ \/ Resting
       \/ /\ next \in 2 .. Len(config.roots) + 1 /\ Root # Stdin
          /\ \E q \in Paths : Place(q)

\* What the caller has been promised, half way: only what is wanted is shown;
\* what walkdir has met has been shown, or is held back; what a directory that
\* was shown leads to, and every root, has been met or waits.
NothingYet == next = 0 => pulled = {} /\ shown = {}
OnlyFound == shown \subseteq promise.wanted \cap (RootsOf(config) \cup pulled)
Held(e) == item.kind = "entry" /\ item.path = e
AllShown == \A e \in promise.wanted \cap pulled : e \in shown \/ Held(e)
AllListed ==
    \A d \in shown : \A y \in promise.yields[d] :
        y \in pulled \/ \E j \in DOMAIN open : y \in open[j]
RootMet(r) ==
    r \in config.bad \cup pulled \cup shown \/ (open # <<>> /\ r \in open[1])
RootsMet == \A i \in DOMAIN config.roots : i < next => RootMet(config.roots[i])
ShownInv == NothingYet /\ OnlyFound /\ AllShown /\ AllListed /\ RootsMet

-----------------------------------------------------------------------------
(* Sequences.                                                              *)

LEMMA CutIs ==
    ASSUME NEW S, NEW s \in Seq(S), NEW n \in 0 .. Len(s)
    PROVE  /\ Cut(s, n) \in Seq(S) /\ Len(Cut(s, n)) = n
           /\ \A i \in 1 .. n : Cut(s, n)[i] = s[i]
BY DEF Cut

LEMMA SameSeq ==
    ASSUME NEW S, NEW s \in Seq(S), NEW t \in Seq(S), Len(s) = Len(t),
           \A i \in 1 .. Len(s) : s[i] = t[i]
    PROVE  s = t
OBVIOUS

LEMMA CutAll ==
    ASSUME NEW S, NEW s \in Seq(S)
    PROVE  Cut(s, Len(s)) = s
<1>1. Len(s) \in 0 .. Len(s)
  OBVIOUS
<1> QED BY <1>1, CutIs, SameSeq

LEMMA CutCut ==
    ASSUME NEW S, NEW s \in Seq(S), NEW n \in 0 .. Len(s), NEW m \in 0 .. n
    PROVE  Cut(Cut(s, n), m) = Cut(s, m)
<1> DEFINE t == Cut(s, n)
<1>1. t \in Seq(S) /\ Len(t) = n /\ \A i \in 1 .. n : t[i] = s[i]
  BY CutIs
<1>2. m \in 0 .. Len(s) /\ m \in 0 .. Len(t) /\ \A i \in 1 .. m : i \in 1 .. n
  BY <1>1
<1> HIDE DEF t
<1>3. /\ Cut(t, m) \in Seq(S) /\ Len(Cut(t, m)) = m
      /\ \A i \in 1 .. m : Cut(t, m)[i] = t[i]
  BY <1>1, <1>2, CutIs
<1>4. /\ Cut(s, m) \in Seq(S) /\ Len(Cut(s, m)) = m
      /\ \A i \in 1 .. m : Cut(s, m)[i] = s[i]
  BY <1>2, CutIs
<1>5. \A i \in 1 .. m : Cut(t, m)[i] = Cut(s, m)[i]
  BY <1>1, <1>2, <1>3, <1>4
<1>6. Cut(t, m) = Cut(s, m)
  BY <1>3, <1>4, <1>5, SameSeq
<1> QED BY <1>6 DEF t

LEMMA WithinIsPrefix ==
    ASSUME NEW S, NEW s \in Seq(S), NEW t
    PROVE  IsPrefix(s, t) <=> Within(s, t)
<1>1. SubSeq(s, 1, Len(s)) = s
  BY CutAll DEF Cut
<1> QED BY <1>1 DEF IsPrefix, Within, Cut

\* Of two beginnings of a sequence the shorter one is a beginning of the other.
LEMMA WithinBoth ==
    ASSUME NEW S, NEW t \in Seq(S), NEW a, NEW b, Len(a) \in Nat, Len(b) \in Nat,
           Within(a, t), Within(b, t), Len(a) <= Len(b)
    PROVE  Within(a, b) /\ (Len(a) = Len(b) => a = b)
<1>1. Len(t) \in Nat
  OBVIOUS
<1>2. a = Cut(t, Len(a)) /\ b = Cut(t, Len(b))
      /\ Len(b) \in 0 .. Len(t) /\ Len(a) \in 0 .. Len(b)
  BY <1>1 DEF Within
<1>3. Cut(Cut(t, Len(b)), Len(a)) = Cut(t, Len(a))
  BY ONLY <1>1, <1>2, CutCut
<1>4. Cut(b, Len(a)) = a
  BY ONLY <1>2, <1>3
<1>5. Len(a) = Len(b) => a = b
  BY ONLY <1>2
<1> QED BY ONLY Len(a) \in Nat, Len(b) \in Nat, Len(a) <= Len(b), <1>4, <1>5 DEF Within

LEMMA WithinTrans ==
    ASSUME NEW S, NEW t \in Seq(S), NEW a, NEW b, Len(a) \in Nat, Len(b) \in Nat,
           Within(a, b), Within(b, t)
    PROVE  Within(a, t)
<1>1. Len(t) \in Nat
  OBVIOUS
<1>2. a = Cut(b, Len(a)) /\ b = Cut(t, Len(b))
      /\ Len(b) \in 0 .. Len(t) /\ Len(a) \in 0 .. Len(b) /\ Len(a) <= Len(t)
  BY <1>1 DEF Within
<1>3. Cut(b, Len(a)) = Cut(t, Len(a))
  BY <1>2, CutCut
<1> QED BY <1>2, <1>3 DEF Within

LEMMA WithinCut ==
    ASSUME NEW S, NEW t \in Seq(S), NEW n \in 0 .. Len(t)
    PROVE  Within(Cut(t, n), t)
BY CutIs DEF Within

LEMMA WithinSelf ==
    ASSUME NEW S, NEW t \in Seq(S)
    PROVE  Within(t, t)
BY CutAll DEF Within

LEMMA FrontIs ==
    ASSUME NEW S, NEW s \in Seq(S), s # <<>>
    PROVE  /\ Front(s) \in Seq(S) /\ Len(Front(s)) = Len(s) - 1
           /\ Len(s) \in Nat \ {0} /\ Last(s) \in S /\ Last(s) = s[Len(s)]
           /\ Front(s) = Cut(s, Len(s) - 1)
           /\ Within(Front(s), s)
           /\ \A i \in 1 .. Len(s) - 1 : Front(s)[i] = s[i]
<1>1. Len(s) \in Nat \ {0}
  OBVIOUS
<1>2. Len(s) - 1 \in 0 .. Len(s) /\ Len(s) \in 1 .. Len(s)
  BY <1>1
<1>3. Front(s) = Cut(s, Len(s) - 1)
  BY DEF Front, Cut
<1>4. Last(s) \in S /\ Last(s) = s[Len(s)]
  BY <1>2 DEF Last
<1> QED BY <1>1, <1>2, <1>3, <1>4, CutIs, WithinCut

LEMMA AppendIs ==
    ASSUME NEW S, NEW s \in Seq(S), NEW x \in S
    PROVE  /\ Append(s, x) \in Seq(S) \ {<<>>} /\ Len(Append(s, x)) = Len(s) + 1
           /\ Front(Append(s, x)) = s /\ Last(Append(s, x)) = x
           /\ \A i \in 1 .. Len(s) : Append(s, x)[i] = s[i]
<1> DEFINE t == Append(s, x)
<1>1. /\ t \in Seq(S) \ {<<>>} /\ Len(t) = Len(s) + 1 /\ t[Len(s) + 1] = x
      /\ \A i \in 1 .. Len(s) : t[i] = s[i]
  OBVIOUS
<1> HIDE DEF t
<1>2. /\ Front(t) \in Seq(S) /\ Len(Front(t)) = Len(s)
      /\ \A i \in 1 .. Len(s) : Front(t)[i] = t[i]
  BY <1>1, FrontIs
<1>3. Front(t) = s
  BY <1>1, <1>2, SameSeq
<1>4. Last(t) = x
  BY <1>1 DEF Last
<1> QED BY <1>1, <1>3, <1>4 DEF t

LEMMA JoinIs ==
    ASSUME NEW S, NEW s \in Seq(S), NEW t \in Seq(S)
    PROVE  /\ s \o t \in Seq(S) /\ Len(s \o t) = Len(s) + Len(t)
           /\ \A i \in 1 .. Len(s) : (s \o t)[i] = s[i]
           /\ \A i \in 1 .. Len(t) : (s \o t)[Len(s) + i] = t[i]
<1>1. s \o t \in Seq(S) /\ Len(s \o t) = Len(s) + Len(t)
  OBVIOUS
<1>2. ASSUME NEW i \in 1 .. Len(s) PROVE (s \o t)[i] = s[i]
  OBVIOUS
<1>3. ASSUME NEW i \in 1 .. Len(t) PROVE (s \o t)[Len(s) + i] = t[i]
  <2>1. Len(s) \in Nat /\ Len(t) \in Nat
    OBVIOUS
  <2>2. Len(s) + i \in 1 .. (Len(s) + Len(t)) /\ ~(Len(s) + i <= Len(s))
        /\ (Len(s) + i) - Len(s) = i
    BY <2>1
  <2> QED BY <2>1, <2>2
<1> QED BY <1>1, <1>2, <1>3

LEMMA FrontLast ==
    ASSUME NEW S, NEW s \in Seq(S), s # <<>>
    PROVE  Append(Front(s), Last(s)) = s
<1>1. /\ Front(s) \in Seq(S) /\ Len(Front(s)) = Len(s) - 1 /\ Len(s) \in Nat \ {0}
      /\ Last(s) \in S /\ Last(s) = s[Len(s)]
      /\ \A i \in 1 .. Len(s) - 1 : Front(s)[i] = s[i]
  BY FrontIs
<1> DEFINE f == Front(s)
           x == Last(s)
           t == Append(f, x)
<1> HIDE DEF f, x
<1>2. /\ t \in Seq(S) /\ Len(t) = Len(f) + 1 /\ t[Len(f) + 1] = x
      /\ \A i \in 1 .. Len(f) : t[i] = f[i]
  BY <1>1 DEF f, x
<1> HIDE DEF t
<1>3. Len(t) = Len(s) /\ t[Len(s)] = s[Len(s)]
  BY <1>1, <1>2 DEF f, x
<1>4. \A i \in 1 .. Len(s) - 1 : t[i] = s[i]
  BY <1>1, <1>2 DEF f
<1>5. \A i \in 1 .. Len(s) : i \in 1 .. Len(s) - 1 \/ i = Len(s)
  BY <1>1
<1>6. t = s
  BY <1>2, <1>3, <1>4, <1>5, SameSeq
<1> QED BY <1>6 DEF t, f, x

LEMMA AsSeq ==
    ASSUME NEW S, NEW s \in Seq(S)
    PROVE  s \in Seq(ToSet(s))
BY DEF ToSet

-----------------------------------------------------------------------------
(* The deepest matcher.                                                    *)

LEMMA LeastIn ==
    ASSUME NEW S \in SUBSET Nat, S # {}
    PROVE  \E x \in S : \A y \in S : x <= y
<1>1. IsWellFoundedOn(OpToRel(<, Nat), Nat)
  BY NatLessThanWellFounded
<1>2. PICK x \in S : \A y \in S : ~(<<y, x>> \in OpToRel(<, Nat))
  BY <1>1, WFMin
<1>3. \A y \in Nat, z \in Nat : y < z => <<y, z>> \in OpToRel(<, Nat)
  BY DEF OpToRel
<1>4. ASSUME NEW y \in S PROVE x <= y
  <2>1. ~(y < x)
    BY <1>2, <1>3
  <2> QED BY <2>1
<1> QED BY <1>4

LEMMA MaxIs ==
    ASSUME NEW n \in Nat, NEW S \in SUBSET (0 .. n), S # {}
    PROVE  Max(S) \in S /\ \A y \in S : y <= Max(S)
<1> DEFINE D == {k \in 0 .. n : n - k \in S}
<1>1. ASSUME NEW y \in S PROVE n - y \in D
  <2>1. y \in 0 .. n /\ n - (n - y) = y
    OBVIOUS
  <2> QED BY <2>1
<1>2. D \in SUBSET Nat /\ D # {}
  <2>1. PICK y \in S : TRUE
    OBVIOUS
  <2>2. n - y \in D
    BY <1>1, <2>1
  <2>3. \A k \in D : k \in Nat
    OBVIOUS
  <2> HIDE DEF D
  <2> QED BY <2>2, <2>3
<1>3. PICK k \in D : \A j \in D : k <= j
  <2> HIDE DEF D
  <2> QED BY <1>2, LeastIn
<1>4. n - k \in S /\ \A y \in S : n - k >= y
  BY <1>1, <1>3
<1>5. Max(S) \in S /\ \A y \in S : Max(S) >= y
  BY <1>4 DEF Max
<1> QED BY <1>5

\* Among directories of different lengths, the one that comes last in the chain
\* is the longest one.
LEMMA LastIsLongest ==
    ASSUME NEW n \in Nat, NEW S \in SUBSET (1 .. n), S # {}, NEW lo \in Int, NEW D,
           \A i \in S : Len(D[i]) = i + lo
    PROVE  LET R == {D[i] : i \in S}
           IN  /\ Max(S) \in S
               /\ (CHOOSE d \in R : \A e \in R : Len(e) <= Len(d)) = D[Max(S)]
<1> DEFINE R == {D[i] : i \in S}
           m == Max(S)
<1>1. m \in S /\ \A y \in S : y <= m
  <2>1. S \in SUBSET (0 .. n)
    OBVIOUS
  <2> QED BY <2>1, MaxIs
<1> HIDE DEF m
<1>2. D[m] \in R
  BY <1>1
<1>3. \A e \in R : Len(e) <= Len(D[m])
  <2>1. ASSUME NEW i \in S PROVE Len(D[i]) <= Len(D[m])
    <3>1. Len(D[i]) = i + lo /\ Len(D[m]) = m + lo /\ i <= m /\ i \in Int /\ m \in Int
      BY <1>1
    <3> QED BY <3>1
  <2> QED BY <2>1
<1>4. ASSUME NEW d \in R, \A e \in R : Len(e) <= Len(d) PROVE d = D[m]
  <2>1. PICK i \in S : d = D[i]
    OBVIOUS
  <2>2. /\ Len(D[i]) = i + lo /\ Len(D[m]) = m + lo /\ i <= m
        /\ i \in Int /\ m \in Int
    BY <1>1
  <2>3. Len(D[m]) <= Len(D[i])
    BY <1>2, <1>4, <2>1
  <2>4. i = m
    BY <2>2, <2>3
  <2> QED BY <2>1, <2>4
<1>5. (CHOOSE d \in R : \A e \in R : Len(e) <= Len(d)) = D[m]
  <2> HIDE DEF R
  <2> QED BY <1>2, <1>3, <1>4
<1> QED BY <1>1, <1>5 DEF m

-----------------------------------------------------------------------------
(* The chain, and the directories above an entry.                          *)

\* Paths are sequences of names.
LEMMA TreePath ==
    ASSUME NEW e \in Tree
    PROVE  e \in Paths \ {<<>>} /\ Last(e) # Trouble /\ e # NoPath
<1>1. e \in Seq(ToSet(e)) \ {<<>>} /\ Last(e) # Trouble /\ e # NoPath
  BY PathAssumption
<1>2. ToSet(e) \subseteq Names
  BY DEF Names
<1>3. e \in Seq(Names)
  BY <1>1, <1>2
<1> QED BY <1>1, <1>3 DEF Paths

\* What is known of an entry that is judged: it lies below a root, and the
\* directories on the way to it have been entered.
Judged(c, r, chain, e) ==
    /\ c \in Configs /\ Regular(c) /\ Apart(c)
    /\ r \in RootsOf(c) \cap Dirs /\ e \in Tree
    /\ Within(r, e) /\ e # r
    /\ ChainIs(c, r, chain, Front(e))

\* How long the directory is whose matcher is at place i, less i.
Offset(c, r) == IF NeedsParents(c) THEN -2 ELSE Len(r) - 2

LEMMA JudgedTypes ==
    ASSUME NEW c, NEW r, NEW chain, NEW e, Judged(c, r, chain, e)
    PROVE  /\ r \in Paths \ {<<>>} /\ e \in Paths \ {<<>>}
           /\ r \in Tree
           /\ Len(r) \in Nat \ {0} /\ Len(e) \in Nat /\ Len(r) < Len(e)
           /\ Above(c, r) \in Nat \ {0}
           /\ Above(c, r) = Len(r) - 1 - Offset(c, r)
           /\ Offset(c, r) \in Int
           /\ Front(e) \in Paths /\ Len(Front(e)) = Len(e) - 1
           /\ Front(e) = Cut(e, Len(e) - 1)
           /\ Len(chain) = Above(c, r) + Len(e) - Len(r)
           /\ Len(chain) \in Nat /\ Above(c, r) + 1 <= Len(chain)
           /\ Len(chain) + Offset(c, r) = Len(e) - 1
           /\ DOMAIN chain = 1 .. Len(chain)
<1>1. r \in Tree
  BY ConfigAssumption DEF Judged
<1>2. r \in Paths \ {<<>>} /\ e \in Paths \ {<<>>}
  BY <1>1, TreePath DEF Judged
<1>3. Len(r) \in Nat \ {0} /\ Len(e) \in Nat
  BY <1>2 DEF Paths
<1>4. Len(r) <= Len(e) /\ r = Cut(e, Len(r)) /\ e # r
  BY DEF Judged, Within
<1>5. Cut(e, Len(e)) = e
  BY <1>2, CutAll DEF Paths
<1>6. Len(r) < Len(e)
  <2>1. Len(r) # Len(e)
    BY <1>4, <1>5
  <2> QED BY <1>3, <1>4, <2>1
<1>7. /\ Above(c, r) \in Nat \ {0} /\ Offset(c, r) \in Int
      /\ Above(c, r) = Len(r) - 1 - Offset(c, r)
  BY <1>3 DEF Above, Offset
<1>8. /\ Front(e) \in Paths /\ Len(Front(e)) = Len(e) - 1
      /\ Front(e) = Cut(e, Len(e) - 1)
  BY <1>2, FrontIs DEF Paths
<1>9. /\ chain \in Seq(ToSet(chain))
      /\ Len(chain) = Above(c, r) + Len(Front(e)) + 1 - Len(r)
  BY DEF Judged, ChainIs
<1>10. Len(chain) = Above(c, r) + Len(e) - Len(r)
  BY <1>3, <1>7, <1>8, <1>9
<1>11. /\ Len(chain) \in Nat /\ Above(c, r) + 1 <= Len(chain)
       /\ Len(chain) + Offset(c, r) = Len(e) - 1
  BY <1>3, <1>6, <1>7, <1>10
<1>12. DOMAIN chain = 1 .. Len(chain)
  BY <1>9
<1> QED BY <1>1, <1>2, <1>3, <1>6, <1>7, <1>8, <1>10, <1>11, <1>12

LEMMA ChainDirs ==
    ASSUME NEW c, NEW r, NEW chain, NEW e, Judged(c, r, chain, e),
           NEW i \in 2 .. Len(chain)
    PROVE  /\ i + Offset(c, r) \in 0 .. (Len(e) - 1)
           /\ chain[i].dir = Cut(e, i + Offset(c, r))
           /\ Len(chain[i].dir) = i + Offset(c, r)
           /\ chain[i].abs <=> i <= Above(c, r)
           /\ chain[i].git <=> IsRepo(c, chain[i].dir)
           /\ i <= Above(c, r) <=> i + Offset(c, r) < Len(r)
<1> DEFINE k == Len(r)
           m == Len(e)
           top == Above(c, r)
           o == Offset(c, r)
           n == Len(chain)
<1>1. /\ k \in Nat \ {0} /\ m \in Nat /\ k < m /\ top \in Nat \ {0}
      /\ top = k - 1 - o /\ o \in Int /\ n = top + m - k /\ n \in Nat
      /\ e \in Seq(Names) /\ r \in Seq(Names)
      /\ Front(e) = Cut(e, m - 1) /\ Len(Front(e)) = m - 1
  BY JudgedTypes DEF Paths
<1>2. r = Cut(e, k)
  BY DEF Judged, Within
<1>3. /\ Upper(c, chain, r, top)
      /\ \A j \in top + 1 .. n :
             /\ chain[j].dir = Cut(Front(e), k + j - top - 1)
             /\ ~chain[j].abs
             /\ chain[j].git <=> IsRepo(c, chain[j].dir)
  BY DEF Judged, ChainIs
<1>4. NeedsParents(c) => o = -2
  BY DEF Offset
<1>5. ~NeedsParents(c) => top = 1
  BY DEF Above
<1>6. CASE i <= top
  <2>1. NeedsParents(c) /\ i \in 2 .. top
    BY <1>1, <1>5, <1>6
  <2>2. /\ chain[i].dir = Cut(r, i - 2) /\ chain[i].abs
        /\ chain[i].git <=> IsRepo(c, chain[i].dir)
    BY <1>3, <2>1 DEF Upper
  <2>3. i + o = i - 2 /\ i - 2 \in 0 .. k /\ k \in 0 .. m /\ i - 2 \in 0 .. (m - 1)
        /\ i - 2 < k /\ i - 2 \in 0 .. m
    BY <1>1, <1>4, <2>1
  <2>4. Cut(r, i - 2) = Cut(e, i - 2)
    BY ONLY <1>1, <1>2, <2>3, CutCut
  <2>5. Len(Cut(e, i - 2)) = i - 2
    BY ONLY <1>1, <2>3, CutIs
  <2> QED BY <1>6, <2>2, <2>3, <2>4, <2>5
<1>7. CASE ~(i <= top)
  <2>1. /\ i \in top + 1 .. n /\ k + i - top - 1 = i + o
        /\ i + o \in 0 .. (m - 1) /\ m - 1 \in 0 .. m /\ i + o \in 0 .. m
        /\ ~(i + o < k)
    <3>1. i \in Int /\ 2 <= i /\ i <= n
      BY <1>1
    <3>2. k \in Int /\ m \in Int /\ top \in Int /\ o \in Int /\ k >= 1
      BY ONLY <1>1
    <3>3. i >= top + 1 /\ i <= top + m - k /\ top = k - 1 - o
      BY ONLY <1>1, <1>7, <3>1, <3>2
    <3>4. i + o >= k /\ i + o <= m - 1 /\ k + i - top - 1 = i + o
      BY ONLY <3>1, <3>2, <3>3
    <3>5. n \in Int
      BY ONLY <1>1
    <3>6. i \in top + 1 .. n
      BY ONLY <3>1, <3>2, <3>3, <3>5
    <3>7. i + o \in 0 .. (m - 1) /\ m - 1 \in 0 .. m /\ i + o \in 0 .. m /\ ~(i + o < k)
      BY ONLY <3>1, <3>2, <3>4
    <3> QED BY ONLY <3>4, <3>6, <3>7
  <2>2. /\ chain[i].dir = Cut(Front(e), i + o) /\ ~chain[i].abs
        /\ chain[i].git <=> IsRepo(c, chain[i].dir)
    BY <1>3, <2>1
  <2>3. Cut(Front(e), i + o) = Cut(e, i + o)
    BY ONLY <1>1, <2>1, CutCut
  <2>4. Len(Cut(e, i + o)) = i + o
    BY ONLY <1>1, <2>1, CutIs
  <2> QED BY <1>7, <2>1, <2>2, <2>3, <2>4
<1> QED BY <1>6, <1>7

\* The directories above an entry.
Enclosing(e) == Prefixes(e) \ {e}

\* Every directory above the entry has its matcher, unless the walk does not
\* look above its root.
LEMMA DirsInChain ==
    ASSUME NEW c, NEW r, NEW chain, NEW e, Judged(c, r, chain, e),
           NEW d \in Enclosing(e), NeedsParents(c) \/ Within(r, d)
    PROVE  \E i \in 2 .. Len(chain) : chain[i].dir = d
<1> DEFINE k == Len(r)
           m == Len(e)
           o == Offset(c, r)
           n == Len(chain)
<1>1. /\ k \in Nat \ {0} /\ m \in Nat /\ o \in Int /\ n \in Nat
      /\ n + o = m - 1 /\ e \in Seq(Names)
      /\ Above(c, r) = k - 1 - o /\ Above(c, r) \in Nat \ {0}
  BY JudgedTypes DEF Paths
<1>2. PICK l \in 0 .. m : d = Cut(e, l)
  BY DEF Enclosing, Prefixes, Cut
<1>3. Cut(e, m) = e /\ Len(d) = l /\ d # e
  BY <1>1, <1>2, CutAll, CutIs DEF Enclosing
<1>4. l \in 0 .. (m - 1)
  BY <1>1, <1>2, <1>3
<1>5. l - o >= 2
  <2>1. CASE NeedsParents(c)
    BY <1>4, <2>1 DEF Offset
  <2>2. CASE ~NeedsParents(c)
    <3>1. k <= l
      BY <1>3, <2>2 DEF Within
    <3>2. o = k - 2
      BY <2>2 DEF Offset
    <3> QED BY <1>1, <1>4, <3>1, <3>2
  <2> QED BY <2>1, <2>2
<1>6. l - o \in 2 .. n /\ (l - o) + o = l
  BY <1>1, <1>4, <1>5
<1>7. chain[l - o].dir = Cut(e, l)
  BY <1>6, ChainDirs
<1> QED BY <1>2, <1>6, <1>7

LEMMA ChainEnclosing ==
    ASSUME NEW c, NEW r, NEW chain, NEW e, Judged(c, r, chain, e),
           NEW i \in 2 .. Len(chain)
    PROVE  /\ chain[i].dir \in Enclosing(e)
           /\ chain[i].dir \in Paths
           /\ Within(r, chain[i].dir) <=> i > Above(c, r)
<1> DEFINE l == i + Offset(c, r)
<1>1. /\ l \in 0 .. (Len(e) - 1) /\ chain[i].dir = Cut(e, l)
      /\ Len(chain[i].dir) = l
      /\ i <= Above(c, r) <=> l < Len(r)
  BY ChainDirs
<1>2. /\ Len(r) \in Nat /\ Len(e) \in Nat /\ e \in Seq(Names) /\ Above(c, r) \in Nat
  BY JudgedTypes DEF Paths
<1> HIDE DEF l
<1>3. l \in 0 .. Len(e) /\ l # Len(e)
  BY <1>1, <1>2
<1>4. chain[i].dir # e
  BY <1>1, <1>3
<1>5. chain[i].dir \in Prefixes(e)
  BY <1>1, <1>3 DEF Prefixes, Cut
<1>6. Within(chain[i].dir, e) /\ chain[i].dir \in Seq(Names)
  BY <1>1, <1>2, <1>3, WithinCut, CutIs
<1>7. Within(r, e)
  BY DEF Judged
<1>8. l >= Len(r) => Within(r, chain[i].dir)
  BY <1>1, <1>2, <1>3, <1>6, <1>7, WithinBoth
<1>9. Within(r, chain[i].dir) => Len(r) <= l
  BY <1>1 DEF Within
<1>10. i \in Nat
  BY <1>2
<1> QED BY <1>1, <1>2, <1>3, <1>4, <1>5, <1>6, <1>8, <1>9, <1>10 DEF Enclosing, Paths

\* Whether rules of git are asked at all depends on the path alone.
LEMMA AnyGitExact ==
    ASSUME NEW c, NEW r, NEW chain, NEW e, Judged(c, r, chain, e),
           "gitignore" \in c.on
    PROVE  AnyGit(c, chain)
             <=> ~c.require_git \/ (Prefixes(e) \ {e}) \cap c.repos # {}
<1>1. NeedsParents(c)
  BY DEF NeedsParents, GitKinds
<1>2. DOMAIN chain = 1 .. Len(chain) /\ Len(chain) \in Nat
  BY JudgedTypes
<1>3. ~chain[1].git
  BY DEF Judged, ChainIs, Upper
<1>4. ASSUME c.require_git
      PROVE  (\E i \in DOMAIN chain : chain[i].git) <=> Enclosing(e) \cap c.repos # {}
  <2>1. ASSUME NEW i \in DOMAIN chain, chain[i].git
        PROVE  Enclosing(e) \cap c.repos # {}
    <3>1. i \in 2 .. Len(chain)
      BY <1>2, <1>3, <2>1
    <3>2. IsRepo(c, chain[i].dir)
      BY <2>1, <3>1, ChainDirs
    <3>3. chain[i].dir \in Enclosing(e)
      BY <3>1, ChainEnclosing
    <3> QED BY <3>2, <3>3 DEF IsRepo
  <2>2. ASSUME NEW d \in Enclosing(e), d \in c.repos
        PROVE  \E i \in DOMAIN chain : chain[i].git
    <3>1. PICK i \in 2 .. Len(chain) : chain[i].dir = d
      BY <1>1, DirsInChain
    <3>2. IsRepo(c, chain[i].dir)
      BY <1>4, <2>2, <3>1 DEF IsRepo
    <3>3. chain[i].git
      BY <3>2, ChainDirs
    <3>4. i \in DOMAIN chain
      BY <1>2
    <3> QED BY <3>3, <3>4
  <2> QED BY <2>1, <2>2
<1> QED BY <1>4 DEF AnyGit, Enclosing

-----------------------------------------------------------------------------
(* What a matcher says.                                                    *)

LEMMA NothingSaid ==
    ASSUME NEW c, NEW kind, NEW dir, NEW path,
           kind \notin c.on \/ \A rule \in c.rules : rule.dir # dir
    PROVE  Matcher(c, kind, dir, path) = "none"
BY DEF Matcher

\* Where no rule is anchored only the last name counts.
LEMMA SameName ==
    ASSUME NEW c, NEW kind, NEW dir, NEW path, NEW other,
           \A rule \in c.rules : rule.dir = dir => ~rule.anchored,
           Last(Strip(dir, path)) = Last(Strip(dir, other))
    PROVE  Matcher(c, kind, dir, path) = Matcher(c, kind, dir, other)
<1> DEFINE hits(p) == {rule \in c.rules : /\ kind \in c.on
                                          /\ rule.kind = kind /\ rule.dir = dir
                                          /\ Fits(rule, Strip(dir, p))}
<1>1. hits(path) = hits(other)
  BY DEF Fits
<1>2. Matcher(c, kind, dir, path)
        = IF hits(path) = {} THEN "none" ELSE (CHOOSE rule \in hits(path) : TRUE).verdict
  BY DEF Matcher
<1>3. Matcher(c, kind, dir, other)
        = IF hits(other) = {} THEN "none" ELSE (CHOOSE rule \in hits(other) : TRUE).verdict
  BY DEF Matcher
<1> HIDE DEF hits
<1> QED BY <1>1, <1>2, <1>3

\* What is left of a path after its first n names.
LEMMA RestIs ==
    ASSUME NEW S, NEW s \in Seq(S), NEW n \in 0 .. Len(s)
    PROVE  /\ SubSeq(s, n + 1, Len(s)) \in Seq(S)
           /\ Len(SubSeq(s, n + 1, Len(s))) = Len(s) - n
           /\ \A i \in 1 .. Len(s) - n : SubSeq(s, n + 1, Len(s))[i] = s[n + i]
           /\ n < Len(s) => Last(SubSeq(s, n + 1, Len(s))) = Last(s)
<1> DEFINE t == SubSeq(s, n + 1, Len(s))
<1>1. Len(s) \in Nat
  OBVIOUS
<1>2. /\ t \in Seq(S) /\ Len(t) = Len(s) - n
      /\ \A i \in 1 .. Len(s) - n : t[i] = s[n + i]
  <2>1. n + 1 \in 1 .. (Len(s) + 1)
    BY <1>1
  <2>2. Len(t) = Len(s) - n
    BY <1>1, <2>1
  <2>3. t \in Seq(S)
    BY <1>1, <2>1
  <2>4. ASSUME NEW i \in 1 .. Len(s) - n PROVE t[i] = s[n + i]
    <3>1. t[i] = s[(n + 1) + i - 1] 
      BY <1>1, <2>1
    <3>2. (n + 1) + i - 1 = n + i
      BY <1>1
    <3> QED BY <3>1, <3>2
  <2> QED BY <2>2, <2>3, <2>4
<1> HIDE DEF t
<1>3. ASSUME n < Len(s) PROVE Last(t) = Last(s)
  <2>1. Len(s) - n \in 1 .. Len(s) - n /\ n + (Len(s) - n) = Len(s)
    BY <1>1, <1>3
  <2>2. t[Len(s) - n] = s[Len(s)]
    BY <1>2, <2>1
  <2> QED BY <1>2, <2>2 DEF Last
<1> QED BY <1>2, <1>3 DEF t

LEMMA StripIs ==
    ASSUME NEW S, NEW dir \in Seq(S), NEW path \in Seq(S)
    PROVE  /\ Within(dir, path) =>
                Strip(dir, path) = SubSeq(path, Len(dir) + 1, Len(path))
           /\ Len(dir) < Len(path) => Last(Strip(dir, path)) = Last(path)
<1>1. IsPrefix(dir, path) <=> Within(dir, path)
  BY WithinIsPrefix
<1>2. Len(dir) \in Nat /\ Len(path) \in Nat
  OBVIOUS
<1>3. ASSUME Len(dir) < Len(path)
      PROVE  Last(SubSeq(path, Len(dir) + 1, Len(path))) = Last(path)
  <2>1. Len(dir) \in 0 .. Len(path)
    BY <1>2, <1>3
  <2> QED BY <1>3, <2>1, RestIs
<1> QED BY <1>1, <1>3 DEF Strip

LEMMA FirstWalkedIs ==
    ASSUME NEW c, NEW r, NEW chain, NEW e, Judged(c, r, chain, e)
    PROVE  FirstWalked(chain) = Above(c, r) + 1
<1> DEFINE top == Above(c, r)
           S == {0} \cup {i \in DOMAIN chain : chain[i].abs}
<1>1. /\ top \in Nat \ {0} /\ Len(chain) \in Nat /\ top + 1 <= Len(chain)
      /\ DOMAIN chain = 1 .. Len(chain)
  BY JudgedTypes
<1>2. chain[1].abs
  BY DEF Judged, ChainIs, Upper
<1>3. \A i \in DOMAIN chain : chain[i].abs <=> i <= top
  <2>1. \A i \in 2 .. Len(chain) : chain[i].abs <=> i <= top
    BY ChainDirs
  <2>2. \A i \in 1 .. Len(chain) : i = 1 \/ i \in 2 .. Len(chain)
    BY <1>1
  <2>3. 1 <= top
    BY <1>1
  <2> QED BY <1>1, <1>2, <2>1, <2>2, <2>3
<1> HIDE DEF top
<1>4. S = 0 .. top
  <2>1. \A i \in 1 .. Len(chain) : i <= top => i \in 0 .. top
    BY <1>1
  <2>2. \A i \in 0 .. top : i = 0 \/ i \in 1 .. Len(chain)
    BY <1>1
  <2>3. \A i \in 0 .. top : i <= top
    BY <1>1
  <2>4. 0 \in 0 .. top
    BY <1>1
  <2> QED BY <1>1, <1>3, <2>1, <2>2, <2>3, <2>4
<1> HIDE DEF S
<1>5. Max(0 .. top) = top
  <2>1. 0 .. top # {} /\ top \in 0 .. top /\ top \in Nat
    BY <1>1
  <2>2. Max(0 .. top) \in 0 .. top /\ top <= Max(0 .. top)
    BY <2>1, MaxIs
  <2> QED BY <2>1, <2>2
<1>6. FirstWalked(chain) = 1 + Max(S)
  BY DEF FirstWalked, S
<1>7. FirstWalked(chain) = top + 1
  BY <1>1, <1>4, <1>5, <1>6
<1> QED BY <1>7 DEF top

\* The path that the matchers above the root are given.
LEMMA FromBaseIs ==
    ASSUME NEW c, NEW r, NEW chain, NEW e, Judged(c, r, chain, e), NeedsParents(c)
    PROVE  /\ Last(chain).base \in RootsOf(c) \cap Dirs
           /\ FromBase(chain, e) \in Seq(Names)
           /\ Len(r) <= Len(FromBase(chain, e))
           /\ Last(FromBase(chain, e)) = Last(e)
           /\ Last(chain).base = r => FromBase(chain, e) = e
<1> DEFINE top == Above(c, r)
           b == Last(chain).base
           k == Len(r)
           rest == SubSeq(e, k + 1, Len(e))
<1>1. /\ top \in Nat \ {0} /\ Len(chain) \in Nat /\ top + 1 <= Len(chain)
      /\ DOMAIN chain = 1 .. Len(chain)
      /\ r \in Seq(Names) /\ e \in Seq(Names) /\ k \in Nat \ {0} /\ Len(e) \in Nat
      /\ k < Len(e) /\ r # <<>>
  BY JudgedTypes DEF Paths
<1>2. Last(chain) = chain[Len(chain)]
  BY DEF Last
<1>3. BaseOK(c, r, b)
  <2>1. Len(chain) = top + Len(Front(e)) + 1 - Len(r)
    BY DEF Judged, ChainIs
  <2>2. Len(chain) \in top .. (top + Len(Front(e)) + 1 - Len(r))
    BY <1>1, <2>1
  <2>3. BaseOK(c, r, chain[Len(chain)].base)
    BY <2>2 DEF Judged, ChainIs
  <2> QED BY <1>2, <2>3
<1>4. b \in RootsOf(c) \cap Dirs /\ Within(Front(r), b)
  BY <1>3 DEF BaseOK
<1>5. b \in Seq(Names)
  <2>1. b \in Tree
    BY <1>4, ConfigAssumption
  <2> QED BY <2>1, TreePath DEF Paths
<1>6. Len(b) \in Nat /\ k - 1 <= Len(b)
  <2>1. Len(Front(r)) = k - 1
    BY <1>1, FrontIs
  <2> QED BY <1>4, <1>5, <2>1 DEF Within
<1>7. chain[top + 1].dir = r
  <2>1. top + 1 \in 2 .. Len(chain) /\ (top + 1) + Offset(c, r) = k
    <3>1. /\ top \in Nat \ {0} /\ Len(chain) \in Nat /\ top + 1 <= Len(chain)
          /\ Offset(c, r) \in Int /\ top = k - 1 - Offset(c, r)
      BY JudgedTypes
    <3> QED BY ONLY <1>1, <3>1
  <2>2. chain[top + 1].dir = Cut(e, k)
    BY <2>1, ChainDirs
  <2> QED BY <2>2 DEF Judged, Within
<1>8. Strip(r, e) = rest
  <2>1. Within(r, e)
    BY DEF Judged
  <2> QED BY ONLY <1>1, <2>1, StripIs
<1> HIDE DEF b
<1>9. FromBase(chain, e) = b \o rest
  <2>1. FirstWalked(chain) = top + 1 /\ top + 1 \in DOMAIN chain
    BY <1>1, FirstWalkedIs
  <2> QED BY <1>7, <1>8, <2>1 DEF FromBase, b
<1>10. /\ rest \in Seq(Names) /\ Len(rest) = Len(e) - k
       /\ \A i \in 1 .. Len(e) - k : rest[i] = e[k + i]
       /\ Last(rest) = Last(e)
  <2>1. k \in 0 .. Len(e)
    BY <1>1
  <2> QED BY ONLY <1>1, <2>1, RestIs
<1> HIDE DEF rest
<1> DEFINE whole == b \o rest
<1>11. /\ whole \in Seq(Names) /\ Len(whole) = Len(b) + Len(rest)
       /\ \A i \in 1 .. Len(b) : whole[i] = b[i]
       /\ \A i \in 1 .. Len(rest) : whole[Len(b) + i] = rest[i]
  <2>1. b \in Seq(Names) /\ rest \in Seq(Names)
    BY <1>5, <1>10
  <2> QED BY ONLY <2>1, JoinIs
<1> HIDE DEF whole
<1>12. k <= Len(whole)
  BY <1>1, <1>6, <1>10, <1>11
<1>13. Last(whole) = Last(e)
  <2>1. Len(rest) \in 1 .. Len(rest)
    BY <1>1, <1>10
  <2>2. whole[Len(whole)] = rest[Len(rest)]
    BY <1>11, <2>1
  <2> QED BY <1>10, <2>2 DEF Last
<1>14. ASSUME b = r PROVE whole = e
  <2>1. r = Cut(e, k)
    BY DEF Judged, Within
  <2>2. \A i \in 1 .. k : r[i] = e[i]
    <3>1. k \in 0 .. Len(e)
      BY <1>1
    <3> QED BY <1>1, <2>1, <3>1, CutIs
  <2>3. Len(whole) = Len(e)
    BY <1>1, <1>10, <1>11, <1>14
  <2>4. ASSUME NEW i \in 1 .. Len(whole) PROVE whole[i] = e[i]
    <3>1. CASE i <= k
      <4>1. i \in 1 .. k
        BY <1>1, <3>1
      <4> QED BY <1>11, <1>14, <2>2, <4>1
    <3>2. CASE ~(i <= k)
      <4>1. i - k \in 1 .. Len(rest) /\ i - k \in 1 .. Len(e) - k /\ k + (i - k) = i
        BY <1>1, <1>10, <2>3, <3>2
      <4>2. whole[k + (i - k)] = rest[i - k]
        BY <1>11, <1>14, <4>1
      <4>3. rest[i - k] = e[k + (i - k)]
        BY <1>10, <4>1
      <4> QED BY <4>1, <4>2, <4>3
    <3> QED BY <3>1, <3>2
  <2> QED BY <1>1, <1>11, <2>3, <2>4, SameSeq
<1> QED BY <1>4, <1>9, <1>11, <1>12, <1>13, <1>14 DEF whole, b

\* The matchers that the walk shares with its parents say of an entry what
\* they would say of its path.
LEMMA AboveSays ==
    ASSUME NEW c, NEW r, NEW chain, NEW e, Judged(c, r, chain, e), NEW kind,
           NEW i \in 2 .. Above(c, r)
    PROVE  Matcher(c, kind, chain[i].dir, FromBase(chain, e))
             = Matcher(c, kind, chain[i].dir, e)
<1> DEFINE d == chain[i].dir
           k == Len(r)
           whole == FromBase(chain, e)
<1>1. NeedsParents(c)
  BY DEF Above
<1>2. i \in 2 .. Len(chain) /\ i <= Above(c, r)
  BY JudgedTypes
<1>3. d = Cut(e, i + Offset(c, r)) /\ Len(d) < k /\ Len(d) \in Nat
  BY <1>2, ChainDirs
<1>4. d \in Seq(Names)
  BY <1>2, ChainEnclosing DEF Paths
<1>5. /\ r \in Seq(Names) /\ e \in Seq(Names) /\ k \in Nat \ {0} /\ Len(e) \in Nat
      /\ k < Len(e) /\ r # <<>>
  BY JudgedTypes DEF Paths
<1>6. /\ Last(chain).base \in RootsOf(c) \cap Dirs
      /\ whole \in Seq(Names) /\ k <= Len(whole) /\ Last(whole) = Last(e)
      /\ Last(chain).base = r => whole = e
  BY <1>1, FromBaseIs
<1> HIDE DEF d, whole
<1>7. CASE Last(chain).base = r
  BY <1>6, <1>7 DEF d, whole
<1>8. CASE Last(chain).base # r
  <2>1. Within(d, r) /\ d # r
    <3>1. Within(d, e) /\ Within(r, e)
      <4>1. i + Offset(c, r) \in 0 .. Len(e)
        <5>1. i + Offset(c, r) \in 0 .. (Len(e) - 1)
          BY <1>2, ChainDirs
        <5> QED BY <1>5, <5>1
      <4> QED BY <1>3, <1>5, <4>1, WithinCut DEF Judged
    <3> QED BY <1>3, <1>5, <3>1, WithinBoth
  <2>2. IsStrictPrefix(d, r)
    BY <1>4, <2>1, WithinIsPrefix DEF IsStrictPrefix
  <2>3. ~\A x, s \in RootsOf(c) \cap Dirs : IsPrefix(Front(x), s) => x = s
    <3>1. r \in RootsOf(c) \cap Dirs
      BY DEF Judged
    <3>2. Within(Front(r), Last(chain).base)
      <4>1. Above(c, r) \in Nat /\ Above(c, r) <= Len(chain) /\ Len(chain) \in Nat
        BY JudgedTypes
      <4>2. Len(chain) = Above(c, r) + Len(Front(e)) + 1 - Len(r)
        BY DEF Judged, ChainIs
      <4>3. Len(chain) \in Above(c, r) .. (Above(c, r) + Len(Front(e)) + 1 - Len(r))
        BY <4>1, <4>2
      <4>4. BaseOK(c, r, chain[Len(chain)].base)
        BY <4>3 DEF Judged, ChainIs
      <4> QED BY <1>1, <4>4 DEF BaseOK, Last
    <3>3. Front(r) \in Seq(Names)
      BY <1>5, FrontIs
    <3>4. IsPrefix(Front(r), Last(chain).base)
      BY <3>2, <3>3, WithinIsPrefix
    <3> QED BY <1>6, <1>8, <3>1, <3>4
  <2>4. \A rule \in c.rules : rule.anchored =>
          \A s \in RootsOf(c) : ~IsStrictPrefix(rule.dir, s)
    BY <2>3 DEF Judged, Apart
  <2>5. \A rule \in c.rules : rule.dir = d => ~rule.anchored
    BY <2>2, <2>4 DEF Judged
  <2>6. Last(Strip(d, whole)) = Last(whole) /\ Last(Strip(d, e)) = Last(e)
    <3>1. Len(d) < Len(whole) /\ Len(d) < Len(e)
      <4>1. Len(whole) \in Nat
        BY <1>6
      <4> QED BY <1>3, <1>5, <1>6, <4>1
    <3> QED BY <1>4, <1>5, <1>6, <3>1, StripIs
  <2>7. Matcher(c, kind, d, whole) = Matcher(c, kind, d, e)
    BY <1>6, <2>5, <2>6, SameName
  <2> QED BY <2>7 DEF d, whole
<1> QED BY <1>7, <1>8

InGit(c, e) == ~c.require_git \/ (Prefixes(e) \ {e}) \cap c.repos # {}
\* The directories above an entry whose rules of a kind hold for it.
Asked(c, r, kind, e) ==
    LET repos == IF c.require_git THEN Enclosing(e) \cap c.repos ELSE {}
    IN  {d \in Enclosing(e) :
            /\ c.parents \/ IsPrefix(r, d)
            /\ kind \in GitKinds => \A g \in repos : Len(g) <= Len(d)}
\* The places in a chain whose rules are asked.
AskedIn(c, chain, kind) ==
    {i \in DOMAIN chain :
        /\ i \in FirstWalked(chain) .. Len(chain) \/ (c.parents /\ Last(chain).base # NoPath)
        /\ kind \in GitKinds => /\ AnyGit(c, chain)
                                /\ \A j \in i + 1 .. Len(chain) : ~chain[j].git}

\* Rules of git are not asked above a repository, whichever way it is put.
LEMMA GitAsked ==
    ASSUME NEW c, NEW r, NEW chain, NEW e, Judged(c, r, chain, e),
           "gitignore" \in c.on, NEW i \in 2 .. Len(chain)
    PROVE  (\A j \in i + 1 .. Len(chain) : ~chain[j].git)
             <=> \A g \in (IF c.require_git THEN Enclosing(e) \cap c.repos ELSE {}) :
                   Len(g) <= Len(chain[i].dir)
<1> DEFINE repos == IF c.require_git THEN Enclosing(e) \cap c.repos ELSE {}
           o == Offset(c, r)
           n == Len(chain)
<1>1. NeedsParents(c)
  BY DEF NeedsParents, GitKinds
<1>2. n \in Nat /\ o \in Int
  BY JudgedTypes
<1>3. \A j \in 2 .. n : /\ Len(chain[j].dir) = j + o
                        /\ chain[j].git <=> chain[j].dir \in repos
  <2>1. ASSUME NEW j \in 2 .. n
        PROVE  Len(chain[j].dir) = j + o /\ (chain[j].git <=> chain[j].dir \in repos)
    <3>1. Len(chain[j].dir) = j + o /\ (chain[j].git <=> IsRepo(c, chain[j].dir))
      BY ChainDirs
    <3>2. chain[j].dir \in Enclosing(e)
      BY ChainEnclosing
    <3>3. chain[j].dir \in repos <=> c.require_git /\ chain[j].dir \in c.repos
      BY <3>2
    <3> QED BY <3>1, <3>3 DEF IsRepo
  <2> QED BY <2>1
<1>4. ASSUME NEW g \in repos
      PROVE  \E j \in 2 .. n : chain[j].dir = g
  <2>1. g \in Enclosing(e)
    BY <1>4
  <2> QED BY <1>1, <2>1, DirsInChain
<1> HIDE DEF repos, o, n
<1>5. ASSUME \A j \in i + 1 .. n : ~chain[j].git, NEW g \in repos
      PROVE  Len(g) <= Len(chain[i].dir)
  <2>1. PICK j \in 2 .. n : chain[j].dir = g
    BY <1>4
  <2>2. chain[j].git
    BY <1>3, <2>1
  <2>3. ~(j \in i + 1 .. n)
    BY <1>5, <2>2
  <2>4. j <= i /\ i \in Int /\ j \in Int
    BY <1>2, <2>3 DEF n
  <2>5. Len(g) = j + o /\ Len(chain[i].dir) = i + o
    BY <1>3, <2>1 DEF n
  <2> QED BY <1>2, <2>4, <2>5
<1>6. ASSUME \A g \in repos : Len(g) <= Len(chain[i].dir),
             NEW j \in i + 1 .. n, chain[j].git
      PROVE  FALSE
  <2>1. j \in 2 .. n /\ i \in 2 .. n /\ i < j /\ i \in Int /\ j \in Int
    BY <1>2 DEF n
  <2>2. chain[j].dir \in repos
    BY <1>3, <1>6, <2>1
  <2>3. Len(chain[j].dir) <= Len(chain[i].dir)
    BY <1>6, <2>2
  <2>4. Len(chain[j].dir) = j + o /\ Len(chain[i].dir) = i + o
    BY <1>3, <2>1
  <2> QED BY <1>2, <2>1, <2>3, <2>4
<1> QED BY <1>5, <1>6 DEF repos, n

\* The chain asks the rules that the documentation wants to be asked.
LEMMA AskedExact ==
    ASSUME NEW c, NEW r, NEW chain, NEW e, Judged(c, r, chain, e),
           NEW kind, kind \in GitKinds => "gitignore" \in c.on /\ InGit(c, e),
           NEW i \in 2 .. Len(chain)
    PROVE  i \in AskedIn(c, chain, kind) <=> chain[i].dir \in Asked(c, r, kind, e)
<1>1. FirstWalked(chain) = Above(c, r) + 1 /\ Above(c, r) \in Nat
      /\ Len(chain) \in Nat /\ DOMAIN chain = 1 .. Len(chain)
  BY FirstWalkedIs, JudgedTypes
<1>2. /\ i \in DOMAIN chain
      /\ i \in FirstWalked(chain) .. Len(chain) <=> i > Above(c, r)
  BY <1>1
<1>3. /\ chain[i].dir \in Enclosing(e)
      /\ Within(r, chain[i].dir) <=> i > Above(c, r)
  BY ChainEnclosing
<1>4. IsPrefix(r, chain[i].dir) <=> Within(r, chain[i].dir)
  <2>1. r \in Seq(Names)
    BY JudgedTypes DEF Paths
  <2> QED BY <2>1, WithinIsPrefix
<1>5. c.parents => Last(chain).base # NoPath
  <2>1. ASSUME c.parents PROVE Last(chain).base \in Tree
    <3>1. NeedsParents(c)
      BY <2>1 DEF NeedsParents
    <3>2. Last(chain).base \in Dirs
      BY <3>1, FromBaseIs
    <3> QED BY <3>2, ConfigAssumption
  <2> QED BY <2>1, PathAssumption
<1>6. kind \in GitKinds => AnyGit(c, chain)
  BY AnyGitExact DEF InGit
<1>7. ASSUME kind \in GitKinds
      PROVE  (\A j \in i + 1 .. Len(chain) : ~chain[j].git)
               <=> \A g \in (IF c.require_git THEN Enclosing(e) \cap c.repos ELSE {}) :
                     Len(g) <= Len(chain[i].dir)
  BY <1>7, GitAsked
<1> DEFINE repos == IF c.require_git THEN Enclosing(e) \cap c.repos ELSE {}
           clear == \A j \in i + 1 .. Len(chain) : ~chain[j].git
           near == \A g \in repos : Len(g) <= Len(chain[i].dir)
<1>8. i \in AskedIn(c, chain, kind) <=>
        /\ i > Above(c, r) \/ (c.parents /\ Last(chain).base # NoPath)
        /\ kind \in GitKinds => AnyGit(c, chain) /\ clear
  BY <1>2 DEF AskedIn
<1>9. chain[i].dir \in Asked(c, r, kind, e) <=>
        /\ c.parents \/ IsPrefix(r, chain[i].dir)
        /\ kind \in GitKinds => near
  BY <1>3 DEF Asked
<1>10. kind \in GitKinds => (clear <=> near)
  BY <1>7
<1> HIDE DEF clear, near
<1> QED BY <1>3, <1>4, <1>5, <1>6, <1>8, <1>9, <1>10

LEMMA NearestExact ==
    ASSUME NEW c, NEW r, NEW chain, NEW e, Judged(c, r, chain, e),
           NEW kind, kind \in GitKinds => "gitignore" \in c.on /\ InGit(c, e)
    PROVE  Nearest(c, chain, kind, e) = RefNearest(c, r, kind, e)
<1> DEFINE n == Len(chain)
           top == Above(c, r)
           D == [i \in 1 .. n |-> chain[i].dir]
           says(i) == Matcher(c, kind, chain[i].dir,
                              IF i \in FirstWalked(chain) .. Len(chain)
                              THEN e ELSE FromBase(chain, e))
           of(d) == Matcher(c, kind, d, e)
           speak == {i \in AskedIn(c, chain, kind) : says(i) # "none"}
           ref == {d \in Asked(c, r, kind, e) : of(d) # "none"}
<1>1. Nearest(c, chain, kind, e)
        = IF speak = {} THEN "none" ELSE says(Max(speak))
  BY DEF Nearest, AskedIn
<1>2. RefNearest(c, r, kind, e)
        = IF ref = {} THEN "none"
          ELSE of(CHOOSE d \in ref : \A x \in ref : Len(x) <= Len(d))
  BY DEF RefNearest, Asked, Enclosing
<1>3. /\ n \in Nat /\ top \in Nat \ {0} /\ top + 1 <= n /\ DOMAIN chain = 1 .. n
      /\ FirstWalked(chain) = top + 1 /\ Offset(c, r) \in Int
  BY JudgedTypes, FirstWalkedIs
<1>4. ASSUME NEW i \in 2 .. n PROVE says(i) = of(D[i])
  <2>1. i \in 1 .. n /\ D[i] = chain[i].dir
    BY <1>3
  <2>2. CASE i > top
    <3>1. i \in FirstWalked(chain) .. Len(chain)
      BY <1>3, <2>2
    <3> QED BY <2>1, <3>1
  <2>3. CASE ~(i > top)
    <3>1. i \in 2 .. Above(c, r) /\ ~(i \in FirstWalked(chain) .. Len(chain))
      BY <1>3, <2>3
    <3>2. Matcher(c, kind, chain[i].dir, FromBase(chain, e))
            = Matcher(c, kind, chain[i].dir, e)
      BY <3>1, AboveSays
    <3> QED BY <2>1, <3>1, <3>2
  <2> QED BY <2>2, <2>3
<1>5. says(1) = "none"
  <2>1. chain[1].dir = NoPath
    BY DEF Judged, ChainIs, Upper
  <2>2. \A rule \in c.rules : rule.dir # NoPath
    BY PathAssumption DEF Judged
  <2> QED BY <2>1, <2>2, NothingSaid
<1>6. ASSUME NEW i \in 2 .. n
      PROVE  /\ i \in AskedIn(c, chain, kind) <=> D[i] \in Asked(c, r, kind, e)
             /\ Len(D[i]) = i + Offset(c, r)
  <2>1. i \in 1 .. n /\ D[i] = chain[i].dir
    BY <1>3
  <2> QED BY <2>1, AskedExact, ChainDirs
<1>7. AskedIn(c, chain, kind) \subseteq 1 .. n
  BY <1>3 DEF AskedIn
<1>8. ASSUME NEW d \in Asked(c, r, kind, e)
      PROVE  \E i \in 2 .. n : D[i] = d
  <2>1. d \in Enclosing(e) /\ (c.parents \/ IsPrefix(r, d))
    BY DEF Asked
  <2>2. NeedsParents(c) \/ Within(r, d)
    <3>1. r \in Seq(Names)
      BY JudgedTypes DEF Paths
    <3> QED BY <2>1, <3>1, WithinIsPrefix DEF NeedsParents
  <2>3. PICK i \in 2 .. n : chain[i].dir = d
    BY <2>1, <2>2, DirsInChain
  <2>4. i \in 1 .. n
    BY <1>3
  <2> QED BY <2>3, <2>4
<1> HIDE DEF D, says, of, n
<1>9. speak \subseteq 2 .. n
  <2>1. \A i \in 1 .. n : i = 1 \/ i \in 2 .. n
    BY <1>3
  <2> QED BY <1>5, <1>7, <2>1
<1>10. ref = {D[i] : i \in speak}
  <2>1. ASSUME NEW i \in speak PROVE D[i] \in ref
    BY <1>4, <1>6, <1>9
  <2>2. ASSUME NEW d \in ref PROVE \E i \in speak : D[i] = d
    <3>1. PICK i \in 2 .. n : D[i] = d
      BY <1>8
    <3>2. i \in speak
      BY <1>4, <1>6, <3>1
    <3> QED BY <3>1, <3>2
  <2> HIDE DEF ref, speak
  <2> QED BY <2>1, <2>2
<1>11. CASE speak = {}
  BY <1>1, <1>2, <1>10, <1>11
<1>12. CASE speak # {}
  <2>1. speak \in SUBSET (1 .. n) /\ \A i \in speak : Len(D[i]) = i + Offset(c, r)
    <3>1. \A i \in 2 .. n : i \in 1 .. n
      BY <1>3
    <3> HIDE DEF speak
    <3> QED BY <1>6, <1>9, <3>1
  <2> HIDE DEF speak, ref
  <2>2. /\ Max(speak) \in speak
        /\ (CHOOSE d \in ref : \A x \in ref : Len(x) <= Len(d)) = D[Max(speak)]
    BY <1>3, <1>10, <1>12, <2>1, LastIsLongest
  <2>3. ref # {}
    BY <1>10, <1>12
  <2>4. says(Max(speak)) = of(D[Max(speak)])
    BY <1>4, <1>9, <2>2
  <2> QED BY <1>1, <1>2, <1>12, <2>2, <2>3, <2>4
<1> QED BY <1>11, <1>12

LEMMA NearestOff ==
    ASSUME NEW c, NEW r, NEW chain, NEW e, NEW kind,
           kind \notin c.on \/ (kind \in GitKinds /\ ~AnyGit(c, chain))
    PROVE  Nearest(c, chain, kind, e) = "none"
<1> DEFINE says(i) == Matcher(c, kind, chain[i].dir,
                              IF i \in FirstWalked(chain) .. Len(chain)
                              THEN e ELSE FromBase(chain, e))
           speak == {i \in AskedIn(c, chain, kind) : says(i) # "none"}
<1>1. Nearest(c, chain, kind, e)
        = IF speak = {} THEN "none" ELSE says(Max(speak))
  BY DEF Nearest, AskedIn
<1>2. kind \notin c.on => \A i : says(i) = "none"
  BY NothingSaid
<1>3. kind \in GitKinds /\ ~AnyGit(c, chain) => AskedIn(c, chain, kind) = {}
  BY DEF AskedIn
<1>4. speak = {}
  <2> HIDE DEF says
  <2> QED BY <1>2, <1>3
<1> QED BY <1>1, <1>4

LEMMA RefOff ==
    ASSUME NEW c, NEW r, NEW e, NEW kind, kind \notin c.on
    PROVE  RefNearest(c, r, kind, e) = "none"
<1> DEFINE of(d) == Matcher(c, kind, d, e)
           ref == {d \in Asked(c, r, kind, e) : of(d) # "none"}
<1>1. RefNearest(c, r, kind, e)
        = IF ref = {} THEN "none"
          ELSE of(CHOOSE d \in ref : \A x \in ref : Len(x) <= Len(d))
  BY DEF RefNearest, Asked, Enclosing
<1>2. \A d : of(d) = "none"
  BY NothingSaid
<1>3. ref = {}
  <2> HIDE DEF of
  <2> QED BY <1>2
<1> QED BY <1>1, <1>3

LEMMA GitExact ==
    ASSUME NEW c, NEW r, NEW chain, NEW e, Judged(c, r, chain, e), NEW kind \in GitKinds
    PROVE  Nearest(c, chain, kind, e)
             = IF InGit(c, e) THEN RefNearest(c, r, kind, e) ELSE "none"
<1>1. kind \in c.on => "gitignore" \in c.on
  BY ConfigAssumption DEF Judged, GitKinds
<1>2. CASE kind \notin c.on
  BY <1>2, NearestOff, RefOff
<1>3. CASE kind \in c.on /\ InGit(c, e)
  BY <1>1, <1>3, NearestExact
<1>4. CASE kind \in c.on /\ ~InGit(c, e)
  <2>1. ~AnyGit(c, chain)
    BY <1>1, <1>4, AnyGitExact DEF InGit
  <2> QED BY <1>4, <2>1, NearestOff
<1> QED BY <1>2, <1>3, <1>4

LEMMA OutermostExact ==
    ASSUME NEW c, NEW r, NEW chain, NEW e, Judged(c, r, chain, e)
    PROVE  Outermost(c, AnyGit(c, chain), e) = Outermost(c, InGit(c, e), e)
<1>1. CASE "global" \in c.on
  <2>1. "gitignore" \in c.on
    BY <1>1, ConfigAssumption DEF Judged
  <2>2. AnyGit(c, chain) <=> InGit(c, e)
    BY <2>1, AnyGitExact DEF InGit
  <2> QED BY <2>2 DEF Outermost
<1>2. CASE "global" \notin c.on
  <2>1. Matcher(c, "global", Cwd, e) = "none"
    BY <1>2, NothingSaid
  <2> QED BY <2>1 DEF Outermost
<1> QED BY <1>1, <1>2

\* Of an entry below a root the matchers that the walk holds say what the
\* documentation says of its path.
LEMMA JudgedExactly ==
    ASSUME NEW c, NEW r, NEW chain, NEW e, Judged(c, r, chain, e)
    PROVE  MatchedIgnore(c, chain, e) = RefIgnore(c, r, e)
<1>1. /\ Nearest(c, chain, "custom", e) = RefNearest(c, r, "custom", e)
      /\ Nearest(c, chain, "ignore", e) = RefNearest(c, r, "ignore", e)
  <2>1. "custom" \notin GitKinds /\ "ignore" \notin GitKinds
    BY DEF GitKinds
  <2> QED BY <2>1, NearestExact
<1>2. /\ Nearest(c, chain, "gitignore", e)
           = IF InGit(c, e) THEN RefNearest(c, r, "gitignore", e) ELSE "none"
      /\ Nearest(c, chain, "exclude", e)
           = IF InGit(c, e) THEN RefNearest(c, r, "exclude", e) ELSE "none"
  <2>1. "gitignore" \in GitKinds /\ "exclude" \in GitKinds
    BY DEF GitKinds
  <2> QED BY <2>1, GitExact
<1>3. Outermost(c, AnyGit(c, chain), e) = Outermost(c, InGit(c, e), e)
  BY OutermostExact
<1> DEFINE git(kind) == IF InGit(c, e) THEN RefNearest(c, r, kind, e) ELSE "none"
<1>4. RefIgnore(c, r, e)
        = Or[RefNearest(c, r, "custom", e), Or[RefNearest(c, r, "ignore", e),
          Or[git("gitignore"), Or[git("exclude"), Outermost(c, InGit(c, e), e)]]]]
  BY DEF RefIgnore, InGit
<1>5. MatchedIgnore(c, chain, e)
        = Or[Nearest(c, chain, "custom", e), Or[Nearest(c, chain, "ignore", e),
          Or[Nearest(c, chain, "gitignore", e), Or[Nearest(c, chain, "exclude", e),
          Outermost(c, AnyGit(c, chain), e)]]]]
  BY DEF MatchedIgnore
<1> QED BY <1>1, <1>2, <1>3, <1>4, <1>5

-----------------------------------------------------------------------------
(* The parents of a root.                                                  *)

RootNode == [dir |-> NoPath, abs |-> TRUE, base |-> NoPath, git |-> FALSE]

LEMMA RootChainIs ==
    /\ RootChain \in Seq({RootNode}) /\ Len(RootChain) = 1
    /\ RootChain[1] = RootNode
    /\ ~RootChain[1].git /\ RootChain[1].abs /\ RootChain[1].dir = NoPath
    /\ RootChain[1].base = NoPath
<1>1. RootChain = <<RootNode>>
  BY DEF RootChain, RootNode
<1>2. RootNode.dir = NoPath /\ RootNode.abs /\ ~RootNode.git /\ RootNode.base = NoPath
  BY DEF RootNode
<1> HIDE DEF RootNode
<1> QED BY <1>1, <1>2

\* The directory at a place above the root, the highest first, and the chain
\* down to it, given the chain down to the one above.
Parent(root, i) == SubSeq(root, 1, i - 1)
Deeper(c, held, known, root, chain, i) ==
    IF Alive(known, held, Parent(root, i)) THEN known[Parent(root, i)]
    ELSE Append(chain, ParentNode(c, root, Parent(root, i)))
Grows(c, held, known, root, f, i) ==
    f[i] = IF i = 0 THEN RootChain ELSE Deeper(c, held, known, root, f[i - 1], i)

LEMMA GrowsSome ==
    ASSUME NEW c, NEW held, NEW known, NEW root, NEW n \in Nat, NEW k \in 0 .. n
    PROVE  \E f : \A i \in 0 .. k : Grows(c, held, known, root, f, i)
<1> DEFINE Adds(f, i) == Grows(c, held, known, root, f, i)
           Has(j) == \E f : \A i \in 0 .. j : Adds(f, i)
           Bad == {j \in 0 .. n : ~Has(j)}
<1>2. Has(0)
  <2> DEFINE f == [i \in {0} |-> RootChain]
  <2>1. \A i \in 0 .. 0 : i = 0
    OBVIOUS
  <2>2. f[0] = RootChain
    OBVIOUS
  <2> HIDE DEF f
  <2>3. Adds(f, 0)
    BY ONLY <2>2 DEF Grows
  <2> HIDE DEF Adds
  <2> QED BY <2>1, <2>3
<1>3. ASSUME NEW j \in 0 .. n, j # n, Has(j) PROVE Has(j + 1)
  <2>1. PICK f : \A i \in 0 .. j : Adds(f, i)
    BY <1>3
  <2> DEFINE x == Deeper(c, held, known, root, f[j], j + 1)
             g == [i \in 0 .. (j + 1) |-> IF i = j + 1 THEN x ELSE f[i]]
  <2>2. j \in Nat /\ j + 1 \in 1 .. n /\ j + 1 # 0 /\ (j + 1) - 1 = j
    BY <1>3
  <2>3. g[j + 1] = x /\ \A i \in 0 .. j : g[i] = f[i]
    <3> HIDE DEF x
    <3> QED BY ONLY <2>2
  <2> HIDE DEF g
  <2>4. Adds(g, j + 1)
    <3>1. g[j] = f[j]
      BY <2>2, <2>3
    <3> QED BY ONLY <2>2, <2>3, <3>1 DEF Grows
  <2>5. ASSUME NEW i \in 0 .. j PROVE Adds(g, i)
    <3>1. i # 0 => i - 1 \in 0 .. j
      BY <2>2
    <3>2. g[i] = f[i] /\ (i # 0 => g[i - 1] = f[i - 1])
      BY ONLY <2>3, <3>1, i \in 0 .. j
    <3>3. Adds(f, i)
      BY <2>1
    <3> QED BY ONLY <3>2, <3>3 DEF Grows
  <2>6. \A i \in 0 .. (j + 1) : i = j + 1 \/ i \in 0 .. j
    BY <2>2
  <2> HIDE DEF Adds
  <2> QED BY <2>4, <2>5, <2>6
<1> HIDE DEF Has
<1>4. ASSUME Bad # {} PROVE FALSE
  <2>0. Bad \in SUBSET Nat
    OBVIOUS
  <2>1. PICK j \in Bad : \A y \in Bad : j <= y
    <3> HIDE DEF Bad
    <3> QED BY <1>4, <2>0, LeastIn
  <2>2. j # 0
    BY <1>2, <2>1
  <2>3. j - 1 \in 0 .. n /\ j - 1 # n /\ j - 1 \notin Bad /\ (j - 1) + 1 = j
    BY <2>1, <2>2
  <2>4. Has(j - 1)
    BY <2>3
  <2>5. Has((j - 1) + 1)
    BY <1>3, <2>3, <2>4
  <2> QED BY <2>1, <2>3, <2>5
<1>5. Has(k)
  BY <1>4
<1> QED BY <1>5 DEF Has

\* What add_parents answers, with a function for its loop over the parents.
Grown(c, held, known, root, f) ==
    LET dirs == {Parent(root, i) : i \in 1 .. Len(root)}
    IN  /\ f[0] = RootChain
        /\ \A i \in 1 .. Len(root) :
             f[i] = Deeper(c, held, known, root, f[i - 1], i)
        /\ AddParents(c, held, known, root).ig = f[Len(root)]
        /\ AddParents(c, held, known, root).compiled =
             [d \in DOMAIN known \cup dirs |->
                IF d \in dirs THEN f[Len(d) + 1] ELSE known[d]]
LEMMA AddParentsIs ==
    ASSUME NEW c, NEW held, NEW known, NEW root \in Seq(Names), NeedsParents(c)
    PROVE  \E f : Grown(c, held, known, root, f)
<1> DEFINE n == Len(root)
           Next1(f, i) == IF i = 0 THEN RootChain
                          ELSE IF Alive(known, held, Parent(root, i))
                          THEN known[Parent(root, i)]
                          ELSE Append(f[i - 1], ParentNode(c, root, Parent(root, i)))
           Adds(f) == f = [i \in 0 .. n |-> Next1(f, i)]
           built == CHOOSE f : Adds(f)
<1>1. n \in Nat
  OBVIOUS
<1>2. /\ AddParents(c, held, known, root).ig = built[n]
      /\ AddParents(c, held, known, root).compiled =
           [d \in DOMAIN known \cup {Parent(root, i) : i \in 1 .. n} |->
              IF d \in {Parent(root, i) : i \in 1 .. n}
              THEN built[Len(d) + 1] ELSE known[d]]
  BY DEF AddParents, Parent
<1>3. PICK f : \A i \in 0 .. n : f[i] = Next1(f, i)
  <2>1. n \in 0 .. n
    BY <1>1
  <2> HIDE DEF n
  <2>2. \E f : \A i \in 0 .. n : Grows(c, held, known, root, f, i)
    BY ONLY <1>1, <2>1, GrowsSome
  <2> QED BY ONLY <2>2 DEF Grows, Deeper
<1>4. \E g : Adds(g)
  <2> DEFINE g == [i \in 0 .. n |-> f[i]]
  <2>1. \A i \in 0 .. n : g[i] = f[i]
    OBVIOUS
  <2>2. \A i \in 0 .. n : Next1(g, i) = Next1(f, i)
    <3>1. TAKE i \in 0 .. n
    <3>2. i # 0 => i - 1 \in 0 .. n
      BY <1>1
    <3>3. i # 0 => g[i - 1] = f[i - 1]
      BY ONLY <2>1, <3>2
    <3> HIDE DEF g
    <3> QED BY ONLY <3>3
  <2>3. g = [i \in 0 .. n |-> f[i]]
    OBVIOUS
  <2> HIDE DEF Next1, g, n
  <2> QED BY <1>3, <2>2, <2>3
<1>5. Adds(built)
  <2> HIDE DEF Adds
  <2> QED BY <1>4
<1> HIDE DEF built
<1>6. \A i \in 0 .. n : built[i] = Next1(built, i)
  <2> HIDE DEF Next1, n
  <2> QED BY <1>5
<1>7. built[0] = RootChain
      /\ \A i \in 1 .. n : built[i] = Deeper(c, held, known, root, built[i - 1], i)
  <2>1. 0 \in 0 .. n /\ \A i \in 1 .. n : i \in 0 .. n /\ i # 0
    BY <1>1
  <2> HIDE DEF n
  <2> QED BY ONLY <1>6, <2>1 DEF Deeper
<1>8. Grown(c, held, known, root, built)
  <2> HIDE DEF n
  <2> QED BY <1>2, <1>7 DEF Grown, n
<1> QED BY <1>8

LEMMA ParentIs ==
    ASSUME NEW root \in Seq(Names), NEW i \in 1 .. Len(root)
    PROVE  /\ Parent(root, i) = Cut(root, i - 1)
           /\ Parent(root, i) \in Seq(Names) /\ Len(Parent(root, i)) = i - 1
           /\ Within(Parent(root, i), root) /\ Parent(root, i) # root
           /\ \A j \in 0 .. i - 1 : Cut(Parent(root, i), j) = Cut(root, j)
<1>1. Len(root) \in Nat /\ i - 1 \in 0 .. Len(root) /\ i - 1 # Len(root)
  OBVIOUS
<1>2. Parent(root, i) = Cut(root, i - 1)
  BY DEF Parent, Cut
<1>3. /\ Cut(root, i - 1) \in Seq(Names) /\ Len(Cut(root, i - 1)) = i - 1
      /\ Within(Cut(root, i - 1), root)
  BY <1>1, CutIs, WithinCut
<1>4. \A j \in 0 .. i - 1 : Cut(Cut(root, i - 1), j) = Cut(root, j)
  BY <1>1, CutCut
<1> QED BY <1>1, <1>2, <1>3, <1>4

LEMMA DeeperCached ==
    ASSUME NEW c, NEW held, NEW known, Known(c, known),
           NEW root \in Seq(Names), root \in RootsOf(c) \cap Dirs,
           "exclude" \in c.on => "gitignore" \in c.on,
           NEW i \in 1 .. Len(root), NEW chain,
           IF i = 1 THEN chain = RootChain ELSE Cached(c, Parent(root, i - 1), chain)
    PROVE  Cached(c, Parent(root, i), Deeper(c, held, known, root, chain, i))
<1> DEFINE d == Parent(root, i)
           node == ParentNode(c, root, d)
           new == Append(chain, node)
<1>1. /\ d = Cut(root, i - 1) /\ d \in Seq(Names) /\ Len(d) = i - 1
      /\ Within(d, root) /\ d # root
      /\ \A j \in 0 .. i - 1 : Cut(d, j) = Cut(root, j)
      /\ i \in Nat \ {0}
  <2>1. i \in Nat \ {0}
    OBVIOUS
  <2> QED BY <2>1, ParentIs
<1>2. /\ chain \in Seq(ToSet(chain)) /\ Len(chain) = i
      /\ chain[1].dir = NoPath /\ chain[1].abs /\ ~chain[1].git
      /\ \A j \in 2 .. i : /\ chain[j].dir = Cut(root, j - 2)
                           /\ chain[j].abs
                           /\ chain[j].git <=> IsRepo(c, chain[j].dir)
  <2>1. CASE i = 1
    <3>1. chain \in Seq(ToSet(chain))
      BY <2>1, RootChainIs, AsSeq
    <3> QED BY <2>1, <3>1, RootChainIs
  <2>2. CASE i # 1
    <3>1. i - 1 \in 1 .. Len(root)
      BY <1>1, <2>2
    <3>2. /\ Len(Parent(root, i - 1)) = i - 2
          /\ \A j \in 0 .. i - 2 : Cut(Parent(root, i - 1), j) = Cut(root, j)
      <4>1. (i - 1) - 1 = i - 2
        BY <1>1
      <4> QED BY <3>1, <4>1, ParentIs
    <3>3. Cached(c, Parent(root, i - 1), chain)
      BY <2>2
    <3>4. /\ chain \in Seq(ToSet(chain)) /\ Len(chain) = (i - 2) + 2
          /\ Upper(c, chain, Parent(root, i - 1), (i - 2) + 2)
      BY <3>2, <3>3 DEF Cached
    <3>5. (i - 2) + 2 = i /\ \A j \in 2 .. i : j - 2 \in 0 .. i - 2
      BY <1>1
    <3> QED BY <3>2, <3>4, <3>5 DEF Upper
  <2> QED BY <2>1, <2>2
<1>3. node.dir = d /\ node.abs /\ node.base = root /\ (node.git <=> IsRepo(c, d))
  BY DEF ParentNode, IsRepo
<1> HIDE DEF node
<1>4. /\ new \in Seq(ToSet(chain) \cup {node}) /\ Len(new) = i + 1
      /\ \A j \in 1 .. i : new[j] = chain[j]
      /\ Last(new) = node
  <2>1. chain \in Seq(ToSet(chain) \cup {node})
    BY <1>2
  <2> QED BY <1>2, <2>1, AppendIs
<1> HIDE DEF new
<1>5. new \in Seq(ToSet(new))
  BY <1>4, AsSeq
<1>6. new[i + 1] = node
  BY <1>4 DEF Last
<1>7. Upper(c, new, d, i + 1)
  <2>1. 1 \in 1 .. i
    BY <1>1
  <2>2. new[1].dir = NoPath /\ new[1].abs /\ ~new[1].git
    BY <1>2, <1>4, <2>1
  <2>3. ASSUME NEW j \in 2 .. (i + 1)
        PROVE  /\ new[j].dir = Cut(d, j - 2) /\ new[j].abs
               /\ new[j].git <=> IsRepo(c, new[j].dir)
    <3>1. CASE j = i + 1
      <4>1. j - 2 = Len(d)
        BY <1>1, <3>1
      <4>2. Cut(d, Len(d)) = d
        BY <1>1, CutAll
      <4> QED BY <1>3, <1>6, <3>1, <4>1, <4>2
    <3>2. CASE j # i + 1
      <4>1. j \in 2 .. i /\ j \in 1 .. i /\ j - 2 \in 0 .. i - 1
        BY <1>1, <3>2
      <4> QED BY <1>1, <1>2, <1>4, <4>1
    <3> QED BY <3>1, <3>2
  <2> QED BY <2>2, <2>3 DEF Upper
<1>8. Cached(c, d, new)
  <2>1. Len(new) = Len(d) + 2 /\ Len(d) + 2 = i + 1
    BY <1>1, <1>4
  <2>2. Last(new).base = root
    BY <1>3, <1>4
  <2> QED BY <1>1, <1>5, <1>7, <2>1, <2>2 DEF Cached
<1>9. CASE Alive(known, held, d)
  <2>1. d \in DOMAIN known
    BY <1>9 DEF Alive
  <2>2. Cached(c, d, known[d])
    BY <2>1 DEF Known
  <2> QED BY <1>9, <2>2 DEF Deeper
<1>10. CASE ~Alive(known, held, d)
  BY <1>8, <1>10 DEF Deeper, new, node
<1> QED BY <1>9, <1>10

LEMMA FrontPath ==
    ASSUME NEW root \in Seq(Names), root # <<>>
    PROVE  /\ Front(root) = Parent(root, Len(root)) /\ Len(root) \in 1 .. Len(root)
           /\ Len(root) \in Nat \ {0}
BY DEF Front, Parent

\* The walk of a root begins with the matchers of the directories above it.
LEMMA ParentsExact ==
    ASSUME NEW c \in Configs, NEW held, NEW known, Known(c, known),
           NEW root, root \in RootsOf(c) \cap Dirs
    PROVE  /\ ChainIs(c, root, AddParents(c, held, known, root).ig, Front(root))
           /\ Known(c, AddParents(c, held, known, root).compiled)
<1> DEFINE added == AddParents(c, held, known, root)
           n == Len(root)
           q == Front(root)
<1>1. root \in Seq(Names) /\ root # <<>>
  BY ConfigAssumption, TreePath DEF Paths
<1>2. /\ q = Parent(root, n) /\ n \in 1 .. n /\ n \in Nat \ {0}
      /\ q \in Seq(Names) /\ Len(q) = n - 1 /\ Within(q, root)
  BY <1>1, FrontPath, FrontIs
<1>3. "exclude" \in c.on => "gitignore" \in c.on
  BY ConfigAssumption
<1>4. CASE ~NeedsParents(c)
  <2>1. added.ig = RootChain /\ added.compiled = known
    BY <1>4 DEF AddParents
  <2>2. Above(c, root) = 1 /\ Above(c, root) + Len(q) + 1 - Len(root) = 1
    BY <1>2, <1>4 DEF Above
  <2>3. \A i \in 1 .. 1 : i = 1
    OBVIOUS
  <2>4. RootChain \in Seq(ToSet(RootChain))
    BY RootChainIs, AsSeq
  <2>5. Upper(c, RootChain, root, 1)
    BY RootChainIs DEF Upper
  <2>6. \A i \in 1 .. 1 : BaseOK(c, root, RootChain[i].base)
    BY <1>4, <2>3, RootChainIs DEF BaseOK
  <2>7. ChainIs(c, root, RootChain, q)
    BY <2>2, <2>4, <2>5, <2>6, RootChainIs DEF ChainIs
  <2> QED BY <2>1, <2>7
<1>5. CASE NeedsParents(c)
  <2> DEFINE dirs == {Parent(root, i) : i \in 1 .. n}
  <2>1. PICK f : /\ f[0] = RootChain
                 /\ \A i \in 1 .. n : f[i] = Deeper(c, held, known, root, f[i - 1], i)
                 /\ added.ig = f[n]
                 /\ added.compiled = [d \in DOMAIN known \cup dirs |->
                          IF d \in dirs THEN f[Len(d) + 1] ELSE known[d]]
    <3>1. PICK f : Grown(c, held, known, root, f)
      BY <1>1, <1>5, AddParentsIs
    <3> QED BY <3>1 DEF Grown
  <2> DEFINE Good(i) == Cached(c, Parent(root, i), f[i])
             Bad == {i \in 1 .. n : ~Good(i)}
  <2>2. ASSUME NEW i \in 1 .. n, i # 1 => Good(i - 1) PROVE Good(i)
    <3>1. IF i = 1 THEN f[i - 1] = RootChain ELSE Cached(c, Parent(root, i - 1), f[i - 1])
      BY <2>1, <2>2
    <3>2. f[i] = Deeper(c, held, known, root, f[i - 1], i)
      BY <2>1
    <3>3. Cached(c, Parent(root, i), Deeper(c, held, known, root, f[i - 1], i))
      BY <1>1, <1>3, <3>1, DeeperCached
    <3> QED BY <3>2, <3>3
  <2>3. ASSUME Bad # {} PROVE FALSE
    <3>1. Bad \in SUBSET Nat
      BY <1>2
    <3>2. PICK i \in Bad : \A y \in Bad : i <= y
      <4> HIDE DEF Bad
      <4> QED BY <2>3, <3>1, LeastIn
    <3>3. i \in 1 .. n /\ ~Good(i) /\ i \in Nat
      BY <1>2, <3>2
    <3>4. i # 1 => i - 1 \in 1 .. n /\ i - 1 \notin Bad
      BY <1>2, <3>2, <3>3
    <3> HIDE DEF Good
    <3>5. i # 1 => Good(i - 1)
      BY <3>4
    <3> QED BY <2>2, <3>3, <3>5
  <2>4. \A i \in 1 .. n : Good(i)
    <3> HIDE DEF Good
    <3> QED BY <2>3
  <2>5. Cached(c, q, f[n])
    BY <1>2, <2>4
  <2>6. ChainIs(c, root, f[n], q)
    <3> DEFINE chain == f[n]
    <3>1. /\ chain \in Seq(ToSet(chain)) /\ Len(chain) = Len(q) + 2
          /\ Upper(c, chain, q, Len(q) + 2)
          /\ Last(chain).base \in RootsOf(c) \cap Dirs /\ Within(q, Last(chain).base)
      BY <2>5 DEF Cached
    <3>2. /\ Above(c, root) = n + 1 /\ Len(q) + 2 = n + 1
          /\ Above(c, root) + Len(q) + 1 - Len(root) = n + 1
      BY <1>2, <1>5 DEF Above
    <3> HIDE DEF chain
    <3>3. Upper(c, chain, root, n + 1)
      <4>1. ASSUME NEW i \in 2 .. (n + 1) PROVE chain[i].dir = Cut(root, i - 2)
        <5>1. i - 2 \in 0 .. (n - 1)
          BY <1>2
        <5>2. \A j \in 0 .. (n - 1) : Cut(Parent(root, n), j) = Cut(root, j)
          BY <1>1, <1>2, ParentIs
        <5>3. Cut(q, i - 2) = Cut(root, i - 2)
          BY <1>2, <5>1, <5>2
        <5> QED BY <3>1, <3>2, <5>3 DEF Upper
      <4> QED BY <3>1, <3>2, <4>1 DEF Upper
    <3>4. BaseOK(c, root, chain[n + 1].base)
      BY <1>5, <3>1, <3>2 DEF BaseOK, Last
    <3>5. \A i \in (n + 1) .. (n + 1) : i = n + 1
      BY <1>2
    <3>6. (n + 1) + 1 .. (n + 1) = {}
      BY <1>2
    <3>7. ChainIs(c, root, chain, q)
      BY <3>1, <3>2, <3>3, <3>4, <3>5, <3>6 DEF ChainIs
    <3> QED BY <3>7 DEF chain
  <2>7. Known(c, added.compiled)
    <3> DEFINE new == added.compiled
    <3>1. DOMAIN new = DOMAIN known \cup dirs
      BY <2>1
    <3>2. ASSUME NEW d \in dirs PROVE d \in Paths /\ Cached(c, d, new[d])
      <4>1. PICK i \in 1 .. n : d = Parent(root, i)
        OBVIOUS
      <4>2. d \in Paths /\ Len(d) = i - 1
        BY <1>1, <4>1, ParentIs DEF Paths
      <4>3. Len(d) + 1 = i
        BY <1>2, <4>2
      <4>4. new[d] = f[i]
        BY <2>1, <4>3
      <4> QED BY <2>4, <4>1, <4>2, <4>4
    <3>3. ASSUME NEW d \in DOMAIN known, d \notin dirs
          PROVE  d \in Paths /\ Cached(c, d, new[d])
      <4>1. new[d] = known[d]
        BY <2>1, <3>3
      <4> QED BY <4>1 DEF Known
    <3> HIDE DEF new, dirs
    <3> QED BY <3>1, <3>2, <3>3 DEF Known, new
  <2> QED BY <2>1, <2>6, <2>7
<1> QED BY <1>4, <1>5

-----------------------------------------------------------------------------
(* Where the walk of a root is, one step of walkdir or of the events after *)
(* another.                                                                *)

LEMMA ListsIs ==
    ASSUME NEW c, NEW d \in Dirs, NEW x \in Lists(c, d)
    PROVE  /\ x \in Paths \ {<<>>} /\ Front(x) = d /\ Len(x) = Len(d) + 1
           /\ Within(d, x) /\ x \in Lists(c, Front(x))
           /\ IF x \in Tree THEN x # Stdin ELSE Last(x) = Trouble /\ Lists(c, d) = {x}
<1>1. d \in Seq(Names) /\ d \in Tree
  BY ConfigAssumption, TreePath DEF Paths
<1>2. CASE d \in c.unreadable
  <2>1. x = Append(d, Trouble) /\ Lists(c, d) = {x}
    BY <1>2 DEF Lists
  <2>2. Trouble \in Names
    BY DEF Names
  <2>3. /\ x \in Seq(Names) \ {<<>>} /\ Len(x) = Len(d) + 1
        /\ Front(x) = d /\ Last(x) = Trouble
    BY <1>1, <2>1, <2>2, AppendIs
  <2>4. Within(d, x)
    BY <2>3, FrontIs
  <2>5. x \notin Tree
    BY <2>3, PathAssumption
  <2> QED BY <2>1, <2>3, <2>4, <2>5 DEF Paths
<1>3. CASE d \notin c.unreadable
  <2>1. x \in Tree \ {Stdin} /\ Front(x) = d
    BY <1>3 DEF Lists, Children
  <2>2. x \in Seq(Names) \ {<<>>}
    BY <2>1, TreePath DEF Paths
  <2>3. Within(d, x) /\ Len(d) = Len(x) - 1 /\ Len(x) \in Nat
    BY <2>1, <2>2, FrontIs
  <2> QED BY <2>1, <2>2, <2>3 DEF Paths
<1> QED BY <1>2, <1>3

\* What waits goes on waiting.
LEMMA WaitsOn ==
    ASSUME NEW c, NEW r, NEW lists, NEW it, NEW seen, NEW stem, NEW j, NEW x,
           Waits(c, r, lists, it, seen, stem, j, x),
           NEW lists2, NEW it2, NEW seen2, NEW stem2,
           ~(HoldsDir(it) /\ j = Len(lists)), ~(HoldsDir(it2) /\ j = Len(lists2)),
           x \notin Tree => lists2[j] = {x},
           seen \subseteq seen2, Within(Front(x), stem2)
    PROVE  Waits(c, r, lists2, it2, seen2, stem2, j, x)
BY DEF Waits

\* The types of a place.
LEMMA PlaceTypes ==
    ASSUME NEW c, NEW r \in Tree, NEW lists \in Seq(SUBSET Paths), NEW it, NEW n \in Nat,
           NEW chain, NEW seen, NEW met, NEW q,
           PlaceOf(c, r, lists, it, n, chain, seen, met, q)
    PROVE  /\ r \in Seq(Names) \ {<<>>} /\ Len(r) \in Nat \ {0}
           /\ q \in Seq(Names) /\ Len(q) = Len(r) - 1 + n
           /\ Len(lists) \in Nat /\ DOMAIN lists = 1 .. Len(lists)
           /\ Cut(q, Len(r) - 1 + n) = q
           /\ Front(r) \in Seq(Names) /\ Len(Front(r)) = Len(r) - 1
<1>1. r \in Seq(Names) \ {<<>>}
  BY TreePath DEF Paths
<1>2. Len(r) \in Nat \ {0} /\ Front(r) \in Seq(Names) /\ Len(Front(r)) = Len(r) - 1
  BY <1>1, FrontIs
<1>3. q \in Seq(Names) /\ Len(q) = Len(r) - 1 + n
  BY DEF PlaceOf, Trail, Paths
<1>4. Cut(q, Len(r) - 1 + n) = q
  BY <1>3, CutAll
<1>5. Len(lists) \in Nat /\ DOMAIN lists = 1 .. Len(lists)
  OBVIOUS
<1> QED BY <1>1, <1>2, <1>3, <1>4, <1>5

\* Listings are written at their end only.
LEMMA Innermost ==
    ASSUME NEW lists \in Seq(SUBSET Paths), lists # <<>>, NEW set \in SUBSET Paths
    PROVE  LET kept == Append(Front(lists), set)
           IN  /\ kept \in Seq(SUBSET Paths) /\ Len(kept) = Len(lists)
               /\ kept # <<>>
               /\ kept[Len(lists)] = set
               /\ \A j \in 1 .. Len(lists) - 1 : kept[j] = lists[j]
<1> DEFINE front == Front(lists)
           kept == Append(front, set)
<1>1. /\ front \in Seq(SUBSET Paths) /\ Len(front) = Len(lists) - 1
      /\ Len(lists) \in Nat \ {0}
      /\ \A j \in 1 .. Len(lists) - 1 : front[j] = lists[j]
  BY FrontIs
<1> HIDE DEF front
<1>2. /\ kept \in Seq(SUBSET Paths) \ {<<>>} /\ Len(kept) = Len(front) + 1
      /\ Last(kept) = set /\ \A j \in 1 .. Len(front) : kept[j] = front[j]
  BY <1>1, AppendIs
<1> HIDE DEF kept
<1>3. Len(kept) = Len(lists)
  BY <1>1, <1>2
<1>4. kept[Len(lists)] = set
  BY <1>2, <1>3 DEF Last
<1>5. \A j \in 1 .. Len(lists) - 1 : kept[j] = lists[j]
  BY <1>1, <1>2
<1> QED BY <1>2, <1>3, <1>4, <1>5 DEF kept, front

\* walkdir reports an entry.
Reports(c, lists, e, fails, lists2, it, met, met2) ==
    LET rest == Append(Front(lists), Last(lists) \ {e})
    IN  /\ e \in Last(lists)
        /\ fails <=> Last(e) = Trouble \/ e \in c.bad
        /\ lists2 = IF e \in Dirs /\ ~fails THEN Append(rest, Lists(c, e)) ELSE rest
        /\ it = IF Last(e) = Trouble THEN Failure(e, Len(lists) - 2)
                ELSE IF e \in c.bad THEN Failure(e, Len(lists) - 1)
                ELSE Entry(e, Len(lists) - 1)
        /\ met2 = IF fails THEN met ELSE met \cup {e}
LEMMA PullPlace ==
    ASSUME NEW c \in Configs, NEW r \in Tree, r # Stdin,
           NEW lists \in Seq(SUBSET Paths), lists # <<>>, NEW n \in Nat,
           NEW chain, NEW seen, NEW met, NEW q,
           PlaceOf(c, r, lists, NoItem, n, chain, seen, met, q),
           NEW e, NEW fails \in BOOLEAN, NEW lists2, NEW it, NEW met2,
           Reports(c, lists, e, fails, lists2, it, met, met2)
    PROVE  /\ lists2 \in Seq(SUBSET Paths)
           /\ PlaceOf(c, r, lists2, it, n, chain, seen, met2, q)
<1> DEFINE k == Len(r)
           m == Len(lists)
           l == IF Last(e) = Trouble THEN m - 2 ELSE m - 1
           rest == Append(Front(lists), Last(lists) \ {e})
<1>0. /\ e \in Last(lists)
      /\ fails <=> Last(e) = Trouble \/ e \in c.bad
      /\ lists2 = IF e \in Dirs /\ ~fails THEN Append(rest, Lists(c, e)) ELSE rest
      /\ it = IF Last(e) = Trouble THEN Failure(e, m - 2)
              ELSE IF e \in c.bad THEN Failure(e, m - 1) ELSE Entry(e, m - 1)
      /\ met2 = IF fails THEN met ELSE met \cup {e}
  BY DEF Reports
<1>0a. rest = Append(Front(lists), Last(lists) \ {e})
  OBVIOUS
<1> HIDE DEF rest
<1>1. /\ r \in Seq(Names) \ {<<>>} /\ k \in Nat \ {0}
      /\ q \in Seq(Names) /\ Len(q) = k - 1 + n
      /\ m \in Nat \ {0} /\ DOMAIN lists = 1 .. m
      /\ Cut(q, k - 1 + n) = q
  <2>1. m # 0
    OBVIOUS
  <2> QED BY <2>1, PlaceTypes
<1>2. ASSUME NEW j \in 1 .. m, NEW x \in lists[j]
      PROVE  /\ Waits(c, r, lists, NoItem, seen, q, j, x)
             /\ x \in Seq(Names) \ {<<>>} /\ Len(x) = k + j - 1
             /\ Within(Front(x), q) /\ Within(r, x)
             /\ Front(x) \in Seq(Names) /\ Len(Front(x)) = k + j - 2
             /\ x \notin Tree => lists[j] = {x}
  <2>1. Stays(NoItem, n) = n
    BY DEF Stays
  <2>2. Waits(c, r, lists, NoItem, seen, q, j, x)
    BY <1>1, <2>1 DEF PlaceOf
  <2>3. ~HoldsDir(NoItem)
    BY DEF HoldsDir, NoItem
  <2>4. x \in Seq(Names) \ {<<>>} /\ Len(x) = k + j - 1 /\ Within(Front(x), q)
        /\ (x \notin Tree => lists[j] = {x}) /\ Within(r, x)
    BY <2>2, <2>3 DEF Waits, Paths
  <2>5. Front(x) \in Seq(Names) /\ Len(Front(x)) = Len(x) - 1
    BY <2>4, FrontIs
  <2>6. Len(Front(x)) = k + j - 2
    BY <1>1, <2>4, <2>5
  <2> QED BY <2>2, <2>4, <2>5, <2>6
<1>3. m \in 1 .. m /\ e \in lists[m] /\ Last(lists) \ {e} = lists[m] \ {e}
      /\ lists[m] \ {e} \in SUBSET Paths
  <2>1. Last(lists) = lists[m]
    BY DEF Last
  <2>2. m \in 1 .. m
    BY <1>1
  <2> QED BY <1>0, <1>1, <2>1, <2>2
<1>4. /\ rest \in Seq(SUBSET Paths) /\ Len(rest) = m /\ rest # <<>>
      /\ rest[m] = lists[m] \ {e}
      /\ \A j \in 1 .. m - 1 : rest[j] = lists[j]
  <2> HIDE DEF m
  <2> QED BY <1>0a, <1>3, Innermost DEF m
<1>5. /\ e \in Seq(Names) \ {<<>>} /\ Len(e) = k + m - 1
      /\ Within(Front(e), q) /\ Len(Front(e)) = k + m - 2 /\ Within(r, e)
      /\ e \notin Tree => lists[m] = {e}
      /\ IF e \in Tree THEN e # Stdin ELSE Last(e) = Trouble /\ m > 1
      /\ m = 1 <=> e = r
  <2>1. Waits(c, r, lists, NoItem, seen, q, m, e)
    BY <1>2, <1>3
  <2> QED BY <1>2, <1>3, <2>1 DEF Waits
<1>6. m - 1 <= n
  <2>1. k + m - 2 <= k - 1 + n
    BY <1>1, <1>5 DEF Within
  <2> QED BY <1>1, <2>1
<1>7. e \in Tree <=> Last(e) # Trouble
  BY <1>5, PathAssumption
<1>8. l \in 0 .. n /\ k - 1 + l \in 0 .. Len(q)
  <2>1. Last(e) = Trouble => m > 1
    BY <1>5, <1>7
  <2> QED BY <1>1, <1>6, <2>1
<1>8a. /\ l \in Nat /\ m - 2 <= l /\ (Last(e) # Trouble => l = m - 1)
       /\ m \in Nat \ {0} /\ k \in Nat \ {0}
  <2>1. l \in Nat
    BY <1>8
  <2>2. l = m - 1 \/ (l = m - 2 /\ Last(e) = Trouble)
    OBVIOUS
  <2> HIDE DEF l, m, k
  <2> QED BY ONLY <1>1, <2>1, <2>2
<1>8b. it = IF Last(e) = Trouble \/ e \in c.bad THEN Failure(e, l) ELSE Entry(e, l)
  BY <1>0
<1> HIDE DEF l
<1>9. ASSUME NEW j \in 1 .. m, NEW x \in rest[j]
      PROVE  /\ x \in lists[j] /\ j - 1 <= l
             /\ x \notin Tree => rest[j] = {x}
  <2>1. CASE j = m
    <3>1. x \in lists[m] /\ x # e
      BY <1>4, <2>1
    <3>2. lists[m] # {x} /\ lists[m] # {e}
      BY <1>3, <3>1
    <3>3. x \in Tree /\ e \in Tree
      BY <1>2, <1>3, <1>5, <3>1, <3>2
    <3>4. l = m - 1
      BY <1>7, <1>8a, <3>3
    <3>5. j - 1 <= l
      BY ONLY <1>8a, <2>1, <3>4
    <3>6. x \notin Tree => rest[j] = {x}
      BY <3>3
    <3> QED BY <2>1, <3>1, <3>5, <3>6
  <2>2. CASE j # m
    <3>1. j \in 1 .. m - 1 /\ j - 1 <= l
      BY ONLY <1>8a, <2>2, j \in 1 .. m
    <3>2. rest[j] = lists[j]
      BY <1>4, <3>1
    <3>3. x \notin Tree => lists[j] = {x}
      BY <1>2, <3>2
    <3> QED BY <3>1, <3>2, <3>3
  <2> QED BY <2>1, <2>2
<1> DEFINE stem == Cut(q, k - 1 + l)
<1>10. stem \in Seq(Names) /\ Len(stem) = k - 1 + l /\ Within(stem, q)
  BY <1>1, <1>8, CutIs, WithinCut
<1>11. ASSUME NEW j \in 1 .. m, NEW x \in rest[j]
       PROVE  Within(Front(x), stem)
  <2>1. x \in lists[j] /\ j - 1 <= l
    BY <1>9
  <2>2. Within(Front(x), q) /\ Len(Front(x)) = k + j - 2
    BY <1>2, <2>1
  <2>3. Len(Front(x)) \in Nat /\ Len(stem) \in Nat /\ Len(Front(x)) <= Len(stem)
    <3>1. j \in Nat /\ j >= 1
      BY ONLY <1>8a, j \in 1 .. m
    <3> HIDE DEF stem, k, m
    <3> QED BY ONLY <1>8a, <1>10, <2>1, <2>2, <3>1
  <2> HIDE DEF stem
  <2> QED BY <1>1, <1>10, <2>2, <2>3, WithinBoth
<1>12. it # NoItem /\ it.depth = l /\ it.path = e /\ Stays(it, n) = l
       /\ it = IF Last(e) = Trouble \/ e \in c.bad THEN Failure(e, l) ELSE Entry(e, l)
  <2>1. it = IF Last(e) = Trouble \/ e \in c.bad THEN Failure(e, l) ELSE Entry(e, l)
    BY <1>8b
  <2>2. /\ Failure(e, l).depth = l /\ Failure(e, l).path = e /\ Failure(e, l).kind = "error"
        /\ Entry(e, l).depth = l /\ Entry(e, l).path = e /\ Entry(e, l).kind = "entry"
        /\ NoItem.kind = "none"
    BY DEF Failure, Entry, NoItem
  <2>3. it # NoItem
    BY <2>1, <2>2
  <2> QED BY <2>1, <2>2, <2>3 DEF Stays
<1>13. HoldsDir(it) <=> e \in Dirs /\ ~fails
  <2>1. it.kind = IF fails THEN "error" ELSE "entry"
    BY <1>0, <1>12 DEF Failure, Entry
  <2> QED BY <1>12, <2>1 DEF HoldsDir
<1> HIDE DEF m, k, stem
<1>14. CASE e \in Dirs /\ ~fails
  <2> DEFINE all == Lists(c, e)
  <2>0. lists2 = Append(rest, all)
    BY <1>0, <1>14
  <2>1. all \in SUBSET Paths
    BY <1>14, ListsIs
  <2> HIDE DEF all
  <2>2. /\ lists2 \in Seq(SUBSET Paths) \ {<<>>} /\ Len(lists2) = m + 1
        /\ lists2[m + 1] = all
        /\ \A j \in 1 .. m : lists2[j] = rest[j]
    <3>0. rest \in Seq(SUBSET Paths)
      BY <1>4
    <3>1. /\ Append(rest, all) \in Seq(SUBSET Paths) \ {<<>>}
          /\ Len(Append(rest, all)) = Len(rest) + 1
          /\ Last(Append(rest, all)) = all
          /\ \A j \in 1 .. Len(rest) : Append(rest, all)[j] = rest[j]
      BY ONLY <3>0, <2>1, AppendIs
    <3> QED BY <1>4, <2>0, <3>1 DEF Last
  <2>3. ASSUME NEW j \in 1 .. m, NEW x \in lists2[j]
        PROVE  Waits(c, r, lists2, it, seen, stem, j, x)
    <3>1. x \in rest[j] /\ j # Len(lists2) /\ lists2[j] = rest[j]
      BY <1>1, <2>2
    <3>2. x \in lists[j] /\ (x \notin Tree => rest[j] = {x})
      BY <1>9, <3>1
    <3>3. Waits(c, r, lists, NoItem, seen, q, j, x)
      BY <1>2, <3>2
    <3>4. ~HoldsDir(NoItem)
      BY DEF HoldsDir, NoItem
    <3>5. x \notin Tree => lists2[j] = {x}
      BY <3>1, <3>2
    <3>6. Within(Front(x), stem)
      BY <1>11, <3>1
    <3>7. ~(HoldsDir(it) /\ j = Len(lists2)) /\ seen \subseteq seen
      BY <3>1
    <3> QED BY ONLY <3>3, <3>4, <3>5, <3>6, <3>7, WaitsOn
  <2>4. ASSUME NEW x \in lists2[m + 1]
        PROVE  Waits(c, r, lists2, it, seen, stem, m + 1, x)
    <3>1. /\ x \in Paths \ {<<>>} /\ Front(x) = e /\ Len(x) = Len(e) + 1
          /\ Within(e, x) /\ x \in Lists(c, Front(x))
          /\ IF x \in Tree THEN x # Stdin ELSE Last(x) = Trouble /\ Lists(c, e) = {x}
      BY <1>14, <2>2, ListsIs DEF all
    <3>2. Len(x) = k + (m + 1) - 1 /\ m + 1 > 1 /\ m + 1 # 1
      BY <1>1, <1>5, <3>1
    <3>3. Within(r, x)
      <4>1. x \in Seq(Names) /\ Len(r) \in Nat /\ Len(e) \in Nat
        BY <1>1, <1>5, <3>1 DEF Paths, k
      <4> QED BY <1>5, <3>1, <4>1, WithinTrans
    <3>4. x # r
      BY <1>1, <3>2 DEF k
    <3>5. HoldsDir(it) /\ m + 1 = Len(lists2) /\ it.path = e
      BY <1>12, <1>13, <1>14, <2>2
    <3> QED BY <2>2, <3>1, <3>2, <3>3, <3>4, <3>5 DEF Waits, k, all
  <2>5. \A j \in DOMAIN lists2 : \A x \in lists2[j] :
          Waits(c, r, lists2, it, seen, stem, j, x)
    <3>1. DOMAIN lists2 = 1 .. (m + 1)
      BY <2>2
    <3>2. \A j \in 1 .. (m + 1) : j = m + 1 \/ j \in 1 .. m
      BY <1>1
    <3> QED BY <2>3, <2>4, <3>1, <3>2
  <2>6. Holds(c, r, lists2, it, n, met2, q)
    <3>1. it = Entry(e, l) /\ e \notin c.bad /\ Last(e) # Trouble /\ e \in met2
      BY <1>0, <1>12, <1>14
    <3>2. e \in Tree \ {Stdin} /\ l = m - 1
      BY <1>5, <1>7, <3>1 DEF l
    <3>3. Len(e) = Len(r) + l /\ Len(lists2) = l + 2 /\ lists2[l + 2] = Lists(c, e)
      <4>1. k + m - 1 = k + l /\ m + 1 = l + 2
        BY <1>1, <3>2
      <4> QED BY <1>5, <2>2, <4>1 DEF k, all
    <3> QED BY <1>5, <1>8, <1>12, <2>2, <3>1, <3>2, <3>3 DEF Holds
  <2>7. r \in Dirs
    <3>1. ~(r \notin Dirs /\ m <= 1 /\ e \in Dirs)
      <4>1. m <= 1 => e = r
        BY <1>1, <1>5
      <4> QED BY <4>1
    <3> QED BY <1>14, <3>1 DEF PlaceOf, m
  <2>8. Trail(r, q, n) /\ ChainIs(c, r, chain, q)
    BY <2>7 DEF PlaceOf
  <2>9. stem = Cut(q, Len(r) - 1 + Stays(it, n))
    BY <1>12 DEF stem, k
  <2>10. PlaceOf(c, r, lists2, it, n, chain, seen, met2, q)
    BY ONLY <2>5, <2>6, <2>7, <2>8, <2>9 DEF PlaceOf
  <2> QED BY <2>2, <2>10
<1>15. CASE ~(e \in Dirs /\ ~fails)
  <2>1. lists2 = rest
    BY <1>0, <1>15
  <2>2. ASSUME NEW j \in 1 .. m, NEW x \in rest[j]
        PROVE  Waits(c, r, rest, it, seen, stem, j, x)
    <3>2. x \in lists[j] /\ (x \notin Tree => rest[j] = {x})
      BY <1>9
    <3>3. Waits(c, r, lists, NoItem, seen, q, j, x)
      BY <1>2, <3>2
    <3>4. ~HoldsDir(NoItem) /\ ~HoldsDir(it)
      BY <1>13, <1>15 DEF HoldsDir, NoItem
    <3>6. Within(Front(x), stem)
      BY <1>11
    <3>7. seen \subseteq seen
      OBVIOUS
    <3> QED BY ONLY <3>2, <3>3, <3>4, <3>6, <3>7, WaitsOn
  <2>3. DOMAIN rest = 1 .. m
    BY <1>4
  <2>4. Holds(c, r, rest, it, n, met2, q)
    <3>1. CASE fails
      <4>1. it = Failure(e, l)
        BY <1>0, <1>12, <3>1
      <4> QED BY <1>4, <1>8, <1>12, <4>1 DEF Holds
    <3>2. CASE ~fails
      <4>1. it = Entry(e, l) /\ e \notin c.bad /\ Last(e) # Trouble /\ e \in met2
            /\ e \notin Dirs
        BY <1>0, <1>12, <1>15, <3>2
      <4>2. e \in Tree \ {Stdin} /\ l = m - 1
        BY <1>5, <1>7, <4>1 DEF l
      <4>3. Len(e) = Len(r) + l
        BY <1>1, <1>5, <4>2 DEF k
      <4> QED BY <1>4, <1>5, <1>8, <1>12, <4>1, <4>2, <4>3 DEF Holds
    <3> QED BY <3>1, <3>2
  <2>5. r \notin Dirs => n = 0 /\ Len(rest) <= 1
    BY <1>4 DEF PlaceOf, m
  <2>8. Trail(r, q, n) /\ (r \in Dirs => ChainIs(c, r, chain, q))
    BY DEF PlaceOf
  <2>9. stem = Cut(q, Len(r) - 1 + Stays(it, n))
    BY <1>12 DEF stem, k
  <2>10. PlaceOf(c, r, rest, it, n, chain, seen, met2, q)
    BY ONLY <2>2, <2>3, <2>4, <2>5, <2>8, <2>9 DEF PlaceOf
  <2> QED BY <1>4, <2>1, <2>10
<1> QED BY <1>14, <1>15

\* walkdir leaves a listing.
LEMMA LeavePlace ==
    ASSUME NEW c, NEW r \in Tree,
           NEW lists \in Seq(SUBSET Paths), lists # <<>>, NEW n \in Nat,
           NEW chain, NEW seen, NEW met, NEW q,
           PlaceOf(c, r, lists, NoItem, n, chain, seen, met, q)
    PROVE  /\ Front(lists) \in Seq(SUBSET Paths)
           /\ PlaceOf(c, r, Front(lists), NoItem, n, chain, seen, met, q)
<1> DEFINE front == Front(lists)
           stem == Cut(q, Len(r) - 1 + Stays(NoItem, n))
<1>1. Len(lists) \in Nat /\ DOMAIN lists = 1 .. Len(lists)
  OBVIOUS
<1>2. /\ front \in Seq(SUBSET Paths) /\ Len(front) = Len(lists) - 1
      /\ \A j \in 1 .. Len(lists) - 1 : front[j] = lists[j]
  BY FrontIs
<1> HIDE DEF front
<1>3. DOMAIN front = 1 .. Len(lists) - 1
  BY <1>2
<1>4. ~HoldsDir(NoItem)
  BY DEF HoldsDir, NoItem
<1>5. ASSUME NEW j \in DOMAIN front, NEW x \in front[j]
      PROVE  Waits(c, r, front, NoItem, seen, stem, j, x)
  <2>1. j \in DOMAIN lists /\ front[j] = lists[j]
    BY <1>1, <1>2, <1>3
  <2>2. Waits(c, r, lists, NoItem, seen, stem, j, x)
    BY <2>1 DEF PlaceOf
  <2>3. (x \notin Tree => front[j] = {x}) /\ Within(Front(x), stem) /\ seen \subseteq seen
    BY <1>4, <2>1, <2>2 DEF Waits
  <2> QED BY ONLY <1>4, <2>2, <2>3, WaitsOn
<1>6. Holds(c, r, front, NoItem, n, met, q)
  BY DEF Holds
<1>7. Trail(r, q, n)
      /\ IF r \in Dirs THEN ChainIs(c, r, chain, q) ELSE n = 0 /\ Len(front) <= 1
  BY <1>1, <1>2 DEF PlaceOf
<1>8. PlaceOf(c, r, front, NoItem, n, chain, seen, met, q)
  BY ONLY <1>5, <1>6, <1>7 DEF PlaceOf
<1> QED BY <1>2, <1>8 DEF front

\* An entry that is not a directory, or an error, has been dealt with.
LEMMA DonePlace ==
    ASSUME NEW c, NEW r \in Tree,
           NEW lists \in Seq(SUBSET Paths), NEW n \in Nat, NEW it,
           NEW chain, NEW seen, NEW met, NEW q,
           PlaceOf(c, r, lists, it, n, chain, seen, met, q),
           it # NoItem, it.depth = n, ~HoldsDir(it),
           NEW seen2, seen \subseteq seen2
    PROVE  PlaceOf(c, r, lists, NoItem, n, chain, seen2, met, q)
<1> DEFINE stem == Cut(q, Len(r) - 1 + n)
<1>1. Stays(it, n) = n /\ Stays(NoItem, n) = n
  BY DEF Stays
<1>2. ~HoldsDir(NoItem)
  BY DEF HoldsDir, NoItem
<1>3. ASSUME NEW j \in DOMAIN lists, NEW x \in lists[j]
      PROVE  Waits(c, r, lists, NoItem, seen2, stem, j, x)
  <2>1. Waits(c, r, lists, it, seen, stem, j, x)
    BY <1>1 DEF PlaceOf
  <2>2. (x \notin Tree => lists[j] = {x}) /\ Within(Front(x), stem)
    BY <2>1 DEF Waits
  <2> QED BY ONLY <1>2, <2>1, <2>2, ~HoldsDir(it), seen \subseteq seen2, WaitsOn
<1>4. Holds(c, r, lists, NoItem, n, met, q)
  BY DEF Holds
<1>5. Trail(r, q, n)
      /\ IF r \in Dirs THEN ChainIs(c, r, chain, q) ELSE n = 0 /\ Len(lists) <= 1
  BY DEF PlaceOf
<1> QED BY ONLY <1>1, <1>3, <1>4, <1>5 DEF PlaceOf

\* The chain of the directory above.
LEMMA ChainShorter ==
    ASSUME NEW c, NEW r \in Seq(Names), r # <<>>, NEW chain,
           NEW q \in Seq(Names), Len(q) >= Len(r), ChainIs(c, r, chain, q)
    PROVE  Len(chain) > 1 /\ ChainIs(c, r, Front(chain), Front(q))
<1> DEFINE k == Len(r)
           top == Above(c, r)
           size == top + Len(q) + 1 - k
           up == Front(chain)
           p == Front(q)
<1>1. k \in Nat \ {0} /\ Len(q) \in Nat
  OBVIOUS
<1>2. top \in Nat \ {0}
  BY <1>1 DEF Above
<1>3. /\ chain \in Seq(ToSet(chain)) /\ Len(chain) = size
      /\ Upper(c, chain, r, top)
      /\ \A i \in top .. size : BaseOK(c, r, chain[i].base)
      /\ \A i \in top + 1 .. size :
             /\ chain[i].dir = Cut(q, k + i - top - 1)
             /\ ~chain[i].abs
             /\ chain[i].git <=> IsRepo(c, chain[i].dir)
  BY DEF ChainIs
<1>4. size \in Nat /\ size > top
  BY <1>1, <1>2
<1>5. chain # <<>> /\ q # <<>>
  BY <1>1, <1>2, <1>3, <1>4
<1>6. /\ up \in Seq(ToSet(chain)) /\ Len(up) = size - 1
      /\ \A i \in 1 .. size - 1 : up[i] = chain[i]
  BY <1>3, <1>5, FrontIs
<1>7. p \in Seq(Names) /\ Len(p) = Len(q) - 1 /\ p = Cut(q, Len(q) - 1)
  BY <1>5, FrontIs
<1>8. size - 1 = top + Len(p) + 1 - k
  BY <1>1, <1>2, <1>7
<1> HIDE DEF up, p
<1>9. up \in Seq(ToSet(up))
  BY <1>6, AsSeq
<1>10. Upper(c, up, r, top)
  <2>1. 1 \in 1 .. size - 1 /\ \A i \in 2 .. top : i \in 1 .. size - 1
    BY <1>2, <1>4
  <2>2. up[1] = chain[1] /\ \A i \in 2 .. top : up[i] = chain[i]
    BY ONLY <1>6, <2>1
  <2> QED BY ONLY <1>3, <2>2 DEF Upper
<1>11. ASSUME NEW i \in top .. size - 1 PROVE BaseOK(c, r, up[i].base)
  <2>1. i \in 1 .. size - 1 /\ i \in top .. size
    BY <1>2, <1>4
  <2> QED BY <1>3, <1>6, <2>1
<1>12. ASSUME NEW i \in top + 1 .. size - 1
       PROVE  /\ up[i].dir = Cut(p, k + i - top - 1)
              /\ ~up[i].abs
              /\ up[i].git <=> IsRepo(c, up[i].dir)
  <2>1. i \in 1 .. size - 1 /\ i \in top + 1 .. size
    BY <1>2, <1>4
  <2>2. k + i - top - 1 \in 0 .. Len(q) - 1 /\ Len(q) - 1 \in 0 .. Len(q)
    BY <1>1, <1>2
  <2>3. Cut(p, k + i - top - 1) = Cut(q, k + i - top - 1)
    BY ONLY <1>7, <2>2, q \in Seq(Names), CutCut
  <2>4. up[i] = chain[i]
    BY <1>6, <2>1
  <2> QED BY ONLY <1>3, <2>1, <2>3, <2>4
<1>13. ChainIs(c, r, up, p)
  BY <1>6, <1>8, <1>9, <1>10, <1>11, <1>12 DEF ChainIs
<1> QED BY <1>2, <1>3, <1>4, <1>13 DEF up, p

\* A directory is left: there is a matcher to drop.
LEMMA ExitPlace ==
    ASSUME NEW c, NEW r \in Tree,
           NEW lists \in Seq(SUBSET Paths), NEW n \in Nat, NEW it,
           NEW chain, NEW seen, NEW met, NEW q,
           PlaceOf(c, r, lists, it, n, chain, seen, met, q),
           IF it = NoItem THEN lists = <<>> /\ n > 0 ELSE it.depth < n
    PROVE  /\ n - 1 \in Nat /\ Len(chain) > 1 /\ Front(q) \in Paths
           /\ PlaceOf(c, r, lists, it, n - 1, Front(chain), seen, met, Front(q))
<1> DEFINE k == Len(r)
           p == Front(q)
           stem == Cut(q, k - 1 + Stays(it, n))
<1>1. /\ r \in Seq(Names) \ {<<>>} /\ k \in Nat \ {0}
      /\ q \in Seq(Names) /\ Len(q) = k - 1 + n
  BY PlaceTypes
<1>2. Holds(c, r, lists, it, n, met, q)
  BY DEF PlaceOf
<1>3. it # NoItem => it.depth \in 0 .. n
  BY <1>2 DEF Holds
<1>4. n - 1 \in Nat /\ n > 0
  BY <1>3
<1>5. r \in Dirs /\ ChainIs(c, r, chain, q)
  BY <1>4 DEF PlaceOf
<1>6. Len(chain) > 1 /\ ChainIs(c, r, Front(chain), p)
  <2>1. Len(q) >= Len(r)
    BY <1>1, <1>4
  <2> QED BY <1>1, <1>5, <2>1, ChainShorter
<1>7. /\ p \in Seq(Names) /\ Len(p) = k - 1 + n - 1 /\ p = Cut(q, k - 1 + n - 1)
      /\ Within(p, q)
  <2>1. q # <<>>
    BY <1>1, <1>4
  <2>2. /\ p \in Seq(Names) /\ Len(p) = Len(q) - 1 /\ p = Cut(q, Len(q) - 1)
        /\ Within(p, q)
    BY <1>1, <2>1, FrontIs
  <2> QED BY <1>1, <1>4, <2>2
<1> HIDE DEF p, k
\* A beginning of q that is no longer than p is a beginning of p.
<1>8. ASSUME NEW x \in Seq(Names), Within(x, q), Len(x) <= Len(p)
      PROVE  Within(x, p)
  <2>1. Len(x) \in Nat /\ Len(p) \in Nat
    BY <1>7
  <2> QED BY ONLY <1>1, <1>7, <1>8, <2>1, WithinBoth
<1>9. Front(r) \in Seq(Names) /\ Len(Front(r)) = k - 1
  BY <1>1, FrontIs DEF k
<1>10. Trail(r, p, n - 1)
  <2>1. Within(Front(r), q) /\ Within(r, q)
    BY <1>4 DEF PlaceOf, Trail
  <2>2. Within(Front(r), p)
    BY <1>1, <1>4, <1>7, <1>8, <1>9, <2>1
  <2>3. n - 1 > 0 => Within(r, p)
    <3>1. n - 1 > 0 => Len(r) <= Len(p)
      BY <1>1, <1>4, <1>7 DEF k
    <3> QED BY <1>1, <1>8, <2>1, <3>1
  <2>4. Len(p) = Len(r) - 1 + (n - 1)
    BY <1>1, <1>4, <1>7 DEF k
  <2> QED BY <1>7, <2>2, <2>3, <2>4 DEF Trail, Paths
<1>11. Holds(c, r, lists, it, n - 1, met, p)
  <2>1. CASE it = NoItem
    BY <2>1 DEF Holds
  <2>2. CASE it # NoItem
    <3>1. lists # <<>> /\ it.depth \in 0 .. n - 1
      BY <1>2, <1>3, <1>4, <2>2 DEF Holds
    <3>2. CASE it = Failure(it.path, it.depth)
      BY <3>1, <3>2 DEF Holds
    <3>3. CASE it # Failure(it.path, it.depth)
      <4>1. /\ it = Entry(it.path, it.depth)
            /\ it.path \in Tree \ {Stdin} /\ it.path \in met
            /\ it.path \notin c.bad
            /\ Len(it.path) = Len(r) + it.depth
            /\ Within(r, it.path)
            /\ Within(Front(it.path), q)
            /\ it.path \in Dirs =>
                 /\ Len(lists) = it.depth + 2
                 /\ lists[it.depth + 2] = Lists(c, it.path)
        BY <1>2, <2>2, <3>3 DEF Holds
      <4>2. Front(it.path) \in Seq(Names) /\ Len(Front(it.path)) = Len(it.path) - 1
        BY <4>1, TreePath, FrontIs DEF Paths
      <4>3. Len(Front(it.path)) <= Len(p)
        BY <1>1, <1>4, <1>7, <3>1, <4>1, <4>2 DEF k
      <4>4. Within(Front(it.path), p)
        BY <1>8, <4>1, <4>2, <4>3
      <4> QED BY ONLY <3>1, <4>1, <4>4 DEF Holds
    <3> QED BY <3>2, <3>3
  <2> QED BY <2>1, <2>2
<1>12. ASSUME NEW j \in DOMAIN lists, NEW x \in lists[j]
       PROVE  Waits(c, r, lists, it, seen, Cut(p, k - 1 + Stays(it, n - 1)), j, x)
  <2>1. it # NoItem
    BY <1>12
  <2>2. Stays(it, n) = it.depth /\ Stays(it, n - 1) = it.depth /\ it.depth \in 0 .. n - 1
    BY <1>3, <1>4, <2>1 DEF Stays
  <2>3. k - 1 + it.depth \in 0 .. (k - 1 + n - 1) /\ k - 1 + n - 1 \in 0 .. Len(q)
    BY <1>1, <1>4, <2>2
  <2>4. Cut(p, k - 1 + it.depth) = Cut(q, k - 1 + it.depth)
    BY ONLY <1>1, <1>7, <2>3, CutCut
  <2>5. Waits(c, r, lists, it, seen, stem, j, x)
    BY DEF PlaceOf, k
  <2> QED BY <2>2, <2>4, <2>5
<1>13. PlaceOf(c, r, lists, it, n - 1, Front(chain), seen, met, p)
  BY ONLY <1>5, <1>6, <1>10, <1>11, <1>12 DEF PlaceOf, k
<1> QED BY <1>4, <1>6, <1>7, <1>13 DEF p, Paths

\* The chain of a directory that is entered.
LEMMA ChainLonger ==
    ASSUME NEW c \in Configs, NEW r \in Seq(Names), r # <<>>, NEW chain,
           NEW p \in Seq(Names), Len(p) >= Len(r), ChainIs(c, r, chain, Front(p))
    PROVE  ChainIs(c, r, AddChild(c, chain, p), p)
<1> DEFINE k == Len(r)
           q == Front(p)
           top == Above(c, r)
           size == top + Len(q) + 1 - k
           new == AddChild(c, chain, p)
           node == [dir |-> p, abs |-> FALSE, base |-> Last(chain).base,
                    git |-> /\ c.require_git /\ c.on \cap GitKinds # {}
                            /\ p \in c.repos]
<1>1. k \in Nat \ {0} /\ Len(p) \in Nat
  OBVIOUS
<1>2. top \in Nat \ {0}
  BY <1>1 DEF Above
<1>3. q \in Seq(Names) /\ Len(q) = Len(p) - 1 /\ q = Cut(p, Len(p) - 1)
  <2>1. p # <<>>
    BY <1>1
  <2> QED BY <2>1, FrontIs
<1> HIDE DEF q
<1>4. /\ chain \in Seq(ToSet(chain)) /\ Len(chain) = size
      /\ Upper(c, chain, r, top)
      /\ \A i \in top .. size : BaseOK(c, r, chain[i].base)
      /\ \A i \in top + 1 .. size :
             /\ chain[i].dir = Cut(q, k + i - top - 1)
             /\ ~chain[i].abs
             /\ chain[i].git <=> IsRepo(c, chain[i].dir)
  BY DEF ChainIs, q
<1>5. size \in Nat /\ size >= top /\ size \in 1 .. size /\ size \in top .. size
  BY <1>1, <1>2, <1>3
<1>6. new = Append(chain, node)
  BY DEF AddChild
<1>7. node.dir = p /\ ~node.abs /\ node.base = chain[size].base
      /\ (node.git <=> IsRepo(c, p))
  <2>1. c.on \cap GitKinds # {} <=> "gitignore" \in c.on
    BY ConfigAssumption DEF GitKinds
  <2>2. node.git <=> IsRepo(c, p)
    BY <2>1 DEF IsRepo
  <2>3. node.base = chain[size].base
    BY <1>4 DEF Last
  <2> QED BY <2>2, <2>3
<1> HIDE DEF node, new
<1>8. /\ new \in Seq(ToSet(chain) \cup {node}) /\ Len(new) = size + 1
      /\ \A i \in 1 .. size : new[i] = chain[i]
      /\ new[size + 1] = node
  <2>1. chain \in Seq(ToSet(chain) \cup {node})
    BY <1>4
  <2>2. /\ new \in Seq(ToSet(chain) \cup {node}) /\ Len(new) = Len(chain) + 1
        /\ \A i \in 1 .. Len(chain) : new[i] = chain[i]
        /\ Last(new) = node
    BY <1>6, <2>1, AppendIs
  <2> QED BY <1>4, <2>2 DEF Last
<1>9. new \in Seq(ToSet(new))
  BY <1>8, AsSeq
<1>10. Upper(c, new, r, top)
  <2>1. 1 \in 1 .. size /\ \A i \in 2 .. top : i \in 1 .. size
    BY <1>2, <1>5
  <2>2. new[1] = chain[1] /\ \A i \in 2 .. top : new[i] = chain[i]
    BY ONLY <1>8, <2>1
  <2> QED BY ONLY <1>4, <2>2 DEF Upper
<1>11. ASSUME NEW i \in top .. size + 1 PROVE BaseOK(c, r, new[i].base)
  <2>1. CASE i = size + 1
    BY <1>4, <1>5, <1>7, <1>8, <2>1
  <2>2. CASE i # size + 1
    <3>1. i \in 1 .. size /\ i \in top .. size
      BY <1>2, <1>5, <2>2
    <3> QED BY <1>4, <1>8, <3>1
  <2> QED BY <2>1, <2>2
<1>12. ASSUME NEW i \in top + 1 .. size + 1
       PROVE  /\ new[i].dir = Cut(p, k + i - top - 1)
              /\ ~new[i].abs
              /\ new[i].git <=> IsRepo(c, new[i].dir)
  <2>1. CASE i = size + 1
    <3>1. k + i - top - 1 = Len(p)
      <4>1. i = top + (Len(p) - 1) + 1 - k + 1
        BY <1>3, <2>1
      <4> QED BY ONLY <1>1, <1>2, <4>1, SMTT(20)
    <3>2. Cut(p, Len(p)) = p
      BY CutAll
    <3> QED BY <1>7, <1>8, <2>1, <3>1, <3>2
  <2>2. CASE i # size + 1
    <3>1. i \in 1 .. size /\ i \in top + 1 .. size
      BY <1>2, <1>5, <2>2
    <3>2. k + i - top - 1 \in 0 .. Len(p) - 1 /\ Len(p) - 1 \in 0 .. Len(p)
      <4>1. size = top + (Len(p) - 1) + 1 - k
        BY <1>3
      <4>2. i \in Int /\ top + 1 <= i /\ i <= top + Len(p) - k /\ k - 1 <= Len(p)
        BY <1>1, <1>2, <1>5, <3>1, <4>1
      <4> QED BY ONLY <1>1, <1>2, <4>2
    <3>3. Cut(q, k + i - top - 1) = Cut(p, k + i - top - 1)
      BY ONLY <1>3, <3>2, p \in Seq(Names), CutCut
    <3>4. new[i] = chain[i]
      BY <1>8, <3>1
    <3> QED BY ONLY <1>4, <3>1, <3>3, <3>4
  <2> QED BY <2>1, <2>2
<1>13. size + 1 = top + Len(p) + 1 - k
  BY <1>1, <1>2, <1>3
<1>14. ChainIs(c, r, new, p)
  BY <1>8, <1>9, <1>10, <1>11, <1>12, <1>13 DEF ChainIs
<1> QED BY <1>14 DEF new

\* A directory is entered, whether it is shown or what it lists is dropped.
Enters(lists, lists2, seen, seen2, p) ==
    \/ lists2 = lists /\ seen2 = seen \cup {p}
    \/ lists2 = Front(lists) /\ seen2 = seen
LEMMA EnterPlace ==
    ASSUME NEW c \in Configs, NEW r \in Tree,
           NEW lists \in Seq(SUBSET Paths), NEW n \in Nat, NEW it,
           NEW chain, NEW seen, NEW met, NEW q,
           PlaceOf(c, r, lists, it, n, chain, seen, met, q),
           HoldsDir(it), it.depth = n,
           NEW lists2, NEW seen2, Enters(lists, lists2, seen, seen2, it.path)
    PROVE  /\ lists2 \in Seq(SUBSET Paths) /\ it.path \in Paths
           /\ Front(it.path) = q
           /\ PlaceOf(c, r, lists2, NoItem, n + 1, AddChild(c, chain, it.path),
                      seen2, met, it.path)
<1> DEFINE k == Len(r)
           p == it.path
           m == Len(lists)
           new == AddChild(c, chain, p)
<1>1. /\ r \in Seq(Names) \ {<<>>} /\ k \in Nat \ {0}
      /\ q \in Seq(Names) /\ Len(q) = k - 1 + n /\ Cut(q, k - 1 + n) = q
      /\ m \in Nat /\ DOMAIN lists = 1 .. m
      /\ Front(r) \in Seq(Names) /\ Len(Front(r)) = k - 1
  BY PlaceTypes
<1>2. it # NoItem /\ it.kind = "entry" /\ p \in Dirs
  BY DEF HoldsDir, NoItem
<1>3. /\ lists # <<>> /\ it.depth \in 0 .. n
      /\ p \in Tree /\ Len(p) = k + it.depth
      /\ Within(r, p) /\ Within(Front(p), q)
      /\ m = it.depth + 2
  <2>1. it # Failure(it.path, it.depth)
    BY <1>2 DEF Failure
  <2>2. Holds(c, r, lists, it, n, met, q)
    BY DEF PlaceOf
  <2> QED BY <1>2, <2>1, <2>2 DEF Holds
<1>4. it.depth = n
  BY <1>3
<1>5. p \in Seq(Names) \ {<<>>} /\ Front(p) \in Seq(Names) /\ Len(Front(p)) = Len(p) - 1
      /\ Within(Front(p), p)
  BY <1>3, TreePath, FrontIs DEF Paths
<1>6. Front(p) = q
  <2>1. Within(q, q) /\ Len(q) \in Nat
    BY <1>1, WithinSelf
  <2>2. Len(Front(p)) = Len(q) /\ Len(Front(p)) \in Nat /\ Len(Front(p)) <= Len(q)
    BY <1>1, <1>3, <1>4, <1>5
  <2>3. Within(Front(p), q) /\ q \in Seq(Names)
    BY <1>1, <1>3
  <2> QED BY ONLY <2>1, <2>2, <2>3, WithinBoth
<1>7. m = n + 2 /\ r \in Dirs /\ ChainIs(c, r, chain, q)
  <2>1. m = n + 2 /\ ~(m <= 1)
    BY <1>3, <1>4
  <2> QED BY <2>1 DEF PlaceOf
<1>8. ChainIs(c, r, new, p)
  <2>1. Len(p) >= Len(r)
    BY <1>1, <1>3
  <2> QED BY <1>1, <1>5, <1>6, <1>7, <2>1, ChainLonger
<1> HIDE DEF new
<1>9. Trail(r, p, n + 1)
  <2>1. Len(p) = k - 1 + (n + 1)
    BY <1>1, <1>3, <1>4
  <2>2. Within(Front(r), p)
    <3>1. r \in Seq(Names) \ {<<>>} /\ Len(r) \in Nat
      BY <1>1
    <3>2. Within(Front(r), r) /\ Len(Front(r)) \in Nat
      BY ONLY <1>1, <3>1, FrontIs
    <3> QED BY ONLY <1>3, <1>5, <3>1, <3>2, WithinTrans
  <2> QED BY <1>3, <1>5, <2>1, <2>2 DEF Trail, Paths
<1>10. Cut(p, k - 1 + Stays(NoItem, n + 1)) = p /\ Stays(it, n) = n
  <2>1. k - 1 + Stays(NoItem, n + 1) = Len(p)
    BY <1>1, <1>3, <1>4 DEF Stays
  <2> QED BY <1>2, <1>4, <1>5, <2>1, CutAll DEF Stays
<1>11. ~HoldsDir(NoItem)
  BY DEF HoldsDir, NoItem
<1>12. ASSUME NEW j \in 1 .. m, j # m, NEW x \in lists[j], lists2[j] = lists[j]
       PROVE  Waits(c, r, lists2, NoItem, seen2, p, j, x)
  <2>1. Waits(c, r, lists, it, seen, q, j, x)
    BY <1>1, <1>10 DEF PlaceOf
  <2>2. ~(HoldsDir(it) /\ j = Len(lists)) /\ ~(HoldsDir(NoItem) /\ j = Len(lists2))
    BY <1>11, <1>12
  <2>3. (x \notin Tree => lists2[j] = {x}) /\ Within(Front(x), q) /\ x \in Paths \ {<<>>}
    BY <1>12, <2>1, <2>2 DEF Waits
  <2>4. Within(Front(x), p)
    <3>0. x \in Seq(Names) \ {<<>>}
      BY <2>3 DEF Paths
    <3>0a. Front(x) \in Seq(Names)
      BY ONLY <3>0, FrontIs
    <3>1. Front(x) \in Seq(Names) /\ Len(Front(x)) \in Nat /\ Len(q) \in Nat
      BY ONLY <3>0a, <1>1
    <3>2. Within(q, p)
      BY <1>5, <1>6
    <3> QED BY ONLY <1>5, <2>3, <3>1, <3>2, WithinTrans
  <2>5. seen \subseteq seen2
    BY DEF Enters
  <2> QED BY ONLY <2>1, <2>2, <2>3, <2>4, <2>5, WaitsOn
<1>13. Holds(c, r, lists2, NoItem, n + 1, met, p)
  BY DEF Holds
<1>14. CASE lists2 = lists /\ seen2 = seen \cup {p}
  <2>1. ASSUME NEW x \in lists[m], m \in 1 .. m
        PROVE  Waits(c, r, lists, NoItem, seen2, p, m, x)
    <3>1. Waits(c, r, lists, it, seen, q, m, x)
      BY <1>1, <1>10, <2>1 DEF PlaceOf
    <3>2. Front(x) = p /\ Within(p, p) /\ p \in seen2 \cap Dirs
      BY <1>2, <1>5, <1>14, <3>1, WithinSelf DEF Waits
    <3> QED BY <1>11, <3>1, <3>2 DEF Waits
  <2>2. \A j \in DOMAIN lists : \A x \in lists[j] :
          Waits(c, r, lists, NoItem, seen2, p, j, x)
    BY <1>1, <1>12, <1>14, <2>1
  <2>3. PlaceOf(c, r, lists2, NoItem, n + 1, new, seen2, met, p)
    BY ONLY <1>7, <1>8, <1>9, <1>10, <1>13, <1>14, <2>2 DEF PlaceOf
  <2> QED BY <1>4, <1>5, <1>6, <1>14, <2>3 DEF new, Paths
<1>15. CASE lists2 = Front(lists) /\ seen2 = seen
  <2>1. /\ lists2 \in Seq(SUBSET Paths) /\ Len(lists2) = m - 1
        /\ \A j \in 1 .. m - 1 : lists2[j] = lists[j]
    BY <1>3, <1>15, FrontIs
  <2>2. DOMAIN lists2 = 1 .. m - 1
    BY ONLY <2>1
  <2>2a. \A j \in 1 .. m - 1 : j \in 1 .. m /\ j # m
    <3> HIDE DEF m
    <3> QED BY ONLY <1>1
  <2>3. \A j \in DOMAIN lists2 : \A x \in lists2[j] :
          Waits(c, r, lists2, NoItem, seen2, p, j, x)
    BY <1>12, <2>1, <2>2, <2>2a
  <2>4. PlaceOf(c, r, lists2, NoItem, n + 1, new, seen2, met, p)
    BY ONLY <1>7, <1>8, <1>9, <1>10, <1>13, <2>3 DEF PlaceOf
  <2> QED BY <1>4, <1>5, <1>6, <2>1, <2>4 DEF new, Paths
<1> QED BY <1>14, <1>15 DEF Enters

\* walkdir has been given a root.
LEMMA FirstPlace ==
    ASSUME NEW c, NEW r \in Tree, r # Stdin, NEW chain, NEW seen, NEW met,
           r \in Dirs => ChainIs(c, r, chain, Front(r))
    PROVE  /\ <<{r}>> \in Seq(SUBSET Paths) /\ Front(r) \in Paths
           /\ PlaceOf(c, r, <<{r}>>, NoItem, 0, chain, seen, met, Front(r))
<1> DEFINE q == Front(r)
           lists == <<{r}>>
<1>1. /\ r \in Seq(Names) \ {<<>>} /\ Len(r) \in Nat \ {0}
      /\ q \in Seq(Names) /\ Len(q) = Len(r) - 1
      /\ Within(r, r)
  BY TreePath, FrontIs, WithinSelf DEF Paths
<1>2. Within(q, q) /\ Cut(q, Len(q)) = q
  BY <1>1, WithinSelf, CutAll
<1>3. lists \in Seq(SUBSET Paths) /\ Len(lists) = 1 /\ DOMAIN lists = {1} /\ lists[1] = {r}
  <2>1. {r} \in SUBSET Paths
    BY <1>1 DEF Paths
  <2> QED BY <2>1
<1> HIDE DEF lists
<1>4. ~HoldsDir(NoItem) /\ Stays(NoItem, 0) = 0
  BY DEF HoldsDir, NoItem, Stays
<1>5. Trail(r, q, 0)
  BY <1>1, <1>2 DEF Trail, Paths
<1>6. Waits(c, r, lists, NoItem, seen, q, 1, r)
  BY <1>1, <1>2, <1>4 DEF Waits, Paths
<1>7. Cut(q, Len(r) - 1 + Stays(NoItem, 0)) = q
  BY <1>1, <1>2, <1>4
<1>8. Holds(c, r, lists, NoItem, 0, met, q)
  BY DEF Holds
<1>9. PlaceOf(c, r, lists, NoItem, 0, chain, seen, met, q)
  BY <1>3, <1>5, <1>6, <1>7, <1>8 DEF PlaceOf
<1> QED BY <1>1, <1>3, <1>9 DEF lists, Paths

-----------------------------------------------------------------------------
(* Every step keeps the invariant.                                         *)

LEMMA RootIs ==
    ASSUME WalkInv, next \in 2 .. Len(config.roots) + 1
    PROVE  Root \in RootsOf(config) /\ Root \in Tree /\ next - 1 \in 1 .. Len(config.roots)
<1>1. config \in Configs /\ config.roots \in Seq(Tree) /\ next \in Nat
  BY PathAssumption DEF WalkInv
<1>2. next - 1 \in 1 .. Len(config.roots)
  <2>1. Len(config.roots) \in Nat
    BY <1>1
  <2> QED BY <1>1, <2>1
<1>3. Root \in RootsOf(config) /\ Root \in Tree
  BY <1>1, <1>2 DEF Root, RootsOf, ToSet
<1> QED BY <1>2, <1>3

LEMMA AtPlace ==
    ASSUME WalkInv, ~Resting
    PROVE  /\ config \in Configs /\ open \in Seq(SUBSET Paths) /\ depth \in Nat
           /\ Known(config, compiled)
           /\ next \in 2 .. Len(config.roots) + 1 /\ Root # Stdin
           /\ Root \in RootsOf(config) /\ Root \in Tree
           /\ \E q \in Paths : Place(q)
BY RootIs DEF WalkInv

\* What the caller is given is shown, of whatever root.
LEMMA GivenNow ==
    /\ given' = given => shown' = shown
    /\ \A i, e : given' = given \cup {<<i, e>>} => shown' = shown \cup {e}
<1>1. given' = given => shown' = shown
  BY DEF shown
<1>2. ASSUME NEW i, NEW e, given' = given \cup {<<i, e>>}
      PROVE  shown' = shown \cup {e}
  <2>1. <<i, e>>[2] = e
    OBVIOUS
  <2>2. ASSUME NEW x \in shown' PROVE x \in shown \cup {e}
    <3>1. PICK g \in given' : x = g[2]
      BY <2>2 DEF shown
    <3>2. g \in given \/ g = <<i, e>>
      BY <1>2, <3>1
    <3>3. CASE g \in given
      BY <3>1, <3>3 DEF shown
    <3>4. CASE g = <<i, e>>
      BY <3>1, <3>4, <2>1
    <3> QED
      BY <3>2, <3>3, <3>4
  <2>3. ASSUME NEW x \in shown \cup {e} PROVE x \in shown'
    <3>1. CASE x = e
      <4>1. <<i, e>> \in given'
        BY <1>2
      <4> QED
        BY <4>1, <3>1, <2>1 DEF shown
    <3>2. CASE x \in shown
      <4>1. PICK g \in given : x = g[2]
        BY <3>2 DEF shown
      <4>2. g \in given'
        BY <1>2, <4>1
      <4> QED
        BY <4>1, <4>2 DEF shown
    <3> QED
      BY <2>3, <3>1, <3>2
  <2> QED
    BY <2>2, <2>3
<1> QED
  BY <1>1, <1>2

LEMMA StillAt ==
    ASSUME WalkInv, ~Resting, UNCHANGED <<input, next>>,
           open' \in Seq(SUBSET Paths), depth' \in Nat, compiled' = compiled,
           NEW q \in Paths,
           PlaceOf(config, Root, open', item', depth', ig', shown', pulled', q)
    PROVE  WalkInv'
<1>1. config' = config /\ promise' = promise /\ next' = next /\ Root' = Root
  BY DEF input, Root
<1>2. next \in 2 .. Len(config.roots) + 1 /\ Root # Stdin
  BY AtPlace
<1>3. Place(q)'
  BY <1>1 DEF Place
<1>4. /\ config' \in Configs /\ promise' = Promise(config')
      /\ next' \in 0 .. Len(config'.roots) + 2
      /\ Known(config', compiled')
  BY <1>1 DEF WalkInv
<1>5. \E p \in Paths : Place(p)'
  BY <1>3
<1> QED BY <1>1, <1>2, <1>4, <1>5 DEF WalkInv

LEMMA WalkInit ==
    ASSUME Init PROVE WalkInv
<1>1. config \in Configs /\ config.roots \in Seq(Tree)
  BY PathAssumption DEF Init
<1>2. next \in 0 .. Len(config.roots) + 2
  BY <1>1 DEF Init
<1>3. Known(config, compiled)
  <2>1. DOMAIN compiled = {}
    BY DEF Init
  <2> QED BY <2>1 DEF Known
<1>4. Resting /\ open \in Seq(SUBSET Paths) /\ depth \in Nat
  BY DEF Init, Resting
<1> QED BY <1>1, <1>2, <1>3, <1>4 DEF Init, WalkInv

LEMMA WalkBuild ==
    ASSUME WalkInv, Build PROVE WalkInv'
<1>1. Len(config.roots) \in Nat /\ next' = 1
  BY PathAssumption DEF WalkInv, Build
<1>2. Resting
  BY DEF WalkInv, Build
<1>3. /\ config' = config /\ promise' = promise /\ depth' = depth /\ open' = open
      /\ item' = item /\ compiled' = compiled
  BY DEF Build, input, treeVars, igVars
<1>4. Resting'
  BY <1>2, <1>3 DEF Resting
<1>5. next' \in 0 .. Len(config'.roots) + 2
  BY <1>1, <1>3
<1> QED BY <1>3, <1>4, <1>5 DEF WalkInv

LEMMA WalkNoMoreRoots ==
    ASSUME WalkInv, NoMoreRoots PROVE WalkInv'
<1>1. Len(config.roots) \in Nat /\ next' = next + 1 /\ next = Len(config.roots) + 1
  BY PathAssumption DEF WalkInv, NoMoreRoots
<1>2. /\ config' = config /\ promise' = promise /\ depth' = depth /\ open' = open
      /\ item' = item /\ compiled' = compiled
  BY DEF NoMoreRoots, input, treeVars, igVars
<1>3. Resting'
  BY <1>2 DEF Resting, NoMoreRoots
<1>4. next' \in 0 .. Len(config'.roots) + 2
  BY <1>1, <1>2
<1> QED BY <1>2, <1>3, <1>4 DEF WalkInv

LEMMA WalkNextRoot ==
    ASSUME WalkInv, NextRoot PROVE WalkInv'
<1> DEFINE r == config.roots[next]
           added == IF r \in Dirs THEN AddParents(config, ig, compiled, r)
                    ELSE [ig |-> RootChain, compiled |-> compiled]
<1>1. /\ config \in Configs /\ config.roots \in Seq(Tree) /\ Len(config.roots) \in Nat
      /\ next \in 1 .. Len(config.roots) /\ next' = next + 1
  BY PathAssumption DEF WalkInv, NextRoot
<1>2. r \in Tree /\ r \in RootsOf(config)
  BY <1>1 DEF RootsOf, ToSet
<1>3. /\ config' = config /\ promise' = promise /\ depth' = 0 /\ depth = 0
      /\ item' = NoItem /\ pulled' = pulled /\ open = <<>>
  BY DEF NextRoot, input
<1>4. next' \in 2 .. Len(config.roots) + 1 /\ next' \in 0 .. Len(config.roots) + 2
      /\ next' - 1 = next
  BY <1>1
<1>5. Root' = r
  BY <1>3, <1>4 DEF Root
<1>6. CASE r = Stdin
  <2>1. open' = open /\ compiled' = compiled
    BY <1>6 DEF NextRoot, igVars
  <2>2. Resting'
    BY <1>3, <2>1 DEF Resting
  <2> QED BY <1>3, <1>4, <2>1, <2>2 DEF WalkInv
<1>7. CASE r # Stdin
  <2>1. /\ open' = <<{r}>> /\ ig' = added.ig /\ compiled' = added.compiled
        /\ shown' = shown
    BY <1>7, GivenNow DEF NextRoot
  <2>2. Known(config, compiled)
    BY DEF WalkInv
  <2>3. /\ r \in Dirs => ChainIs(config, r, ig', Front(r))
        /\ Known(config, compiled')
    <3>1. CASE r \in Dirs
      <4>1. r \in RootsOf(config) \cap Dirs
        BY <1>2, <3>1
      <4>2. /\ ChainIs(config, r, AddParents(config, ig, compiled, r).ig, Front(r))
            /\ Known(config, AddParents(config, ig, compiled, r).compiled)
        BY ONLY <1>1, <2>2, <4>1, ParentsExact
      <4> QED BY <2>1, <3>1, <4>2
    <3>2. CASE r \notin Dirs
      BY <2>1, <2>2, <3>2
    <3> QED BY <3>1, <3>2
  <2> HIDE DEF r, added
  <2>4. /\ <<{r}>> \in Seq(SUBSET Paths) /\ Front(r) \in Paths
        /\ PlaceOf(config, r, <<{r}>>, NoItem, 0, ig', shown', pulled', Front(r))
    BY ONLY <1>2, <1>7, <2>3, FirstPlace
  <2>5. PICK q \in Paths :
          PlaceOf(config, r, <<{r}>>, NoItem, 0, ig', shown', pulled', q)
    BY <2>4
  <2>6. \E p \in Paths : Place(p)'
    <3>1. Place(q)'
      BY <1>3, <1>5, <2>1, <2>5 DEF Place
    <3> QED BY <3>1
  <2>7. open' \in Seq(SUBSET Paths) /\ depth' \in Nat
    BY <1>3, <2>1, <2>4
  <2> QED BY <1>3, <1>4, <1>5, <1>7, <2>3, <2>6, <2>7 DEF WalkInv
<1> QED BY <1>6, <1>7

LEMMA WalkPull ==
    ASSUME Regular(config), WalkInv, Pull PROVE WalkInv'
<1>1. item = NoItem /\ open # <<>> /\ ~Resting
  BY DEF Pull, Resting
<1>2. PICK q \in Paths : Place(q)
  BY <1>1, AtPlace
<1>3. /\ config \in Configs /\ open \in Seq(SUBSET Paths) /\ depth \in Nat
      /\ Root # Stdin /\ Root \in Tree
  BY <1>1, AtPlace
<1>4. Len(open) \in Nat \ {0}
  BY <1>1, <1>3
<1>5. PICK e \in Last(open) :
        LET rest == Append(Front(open), Last(open) \ {e})
            fails == Last(e) = Trouble \/ e \in config.bad
        IN  /\ open' = IF e \in Dirs /\ ~fails THEN Append(rest, Listing(e)) ELSE rest
            /\ item' = CASE Last(e) = Trouble -> Failure(e, Level - 1)
                         [] e \in config.bad -> Failure(e, Level)
                         [] Level < config.min_depth /\ ~fails -> NoItem
                         [] OTHER -> Entry(e, Level)
            /\ pulled' = IF fails THEN pulled ELSE pulled \cup {e}
  BY DEF Pull
<1> DEFINE rest == Append(Front(open), Last(open) \ {e})
           fails == Last(e) = Trouble \/ e \in config.bad
<1>6. /\ open' = IF e \in Dirs /\ ~fails THEN Append(rest, Lists(config, e)) ELSE rest
      /\ pulled' = IF fails THEN pulled ELSE pulled \cup {e}
  BY <1>5 DEF Listing, Lists
<1>7. item' = IF Last(e) = Trouble THEN Failure(e, Len(open) - 2)
              ELSE IF e \in config.bad THEN Failure(e, Len(open) - 1)
              ELSE Entry(e, Len(open) - 1)
  <2>1. Level = Len(open) - 1 /\ Level - 1 = Len(open) - 2 /\ ~(Level < config.min_depth)
    BY <1>4 DEF Level, Regular
  <2>2. Last(e) = Trouble => e \notin config.bad
    <3>1. config.bad \subseteq Tree
      BY <1>3, ConfigAssumption
    <3> QED BY <3>1, PathAssumption
  <2> HIDE DEF rest
  <2> QED BY <1>5, <2>1, <2>2
<1>8. UNCHANGED <<input, next, depth, igVars, shown>>
  BY GivenNow DEF Pull
<1>9. fails \in BOOLEAN
  OBVIOUS
<1> HIDE DEF rest
<1>10. rest = Append(Front(open), Last(open) \ {e})
  BY DEF rest
<1>11. PlaceOf(config, Root, open, NoItem, depth, ig, shown, pulled, q)
  BY <1>1, <1>2 DEF Place
<1>12. /\ open' \in Seq(SUBSET Paths)
       /\ PlaceOf(config, Root, open', item', depth, ig, shown, pulled', q)
  <2>1. PICK f \in BOOLEAN : f <=> fails
    BY <1>9
  <2>2. /\ open' = IF e \in Dirs /\ ~f THEN Append(rest, Lists(config, e)) ELSE rest
        /\ pulled' = IF f THEN pulled ELSE pulled \cup {e}
    BY <1>6, <2>1
  <2>3. Reports(config, open, e, f, open', item', pulled, pulled')
    BY <1>7, <1>10, <2>1, <2>2 DEF Reports
  <2> QED BY ONLY <1>1, <1>3, <1>11, <2>3, PullPlace
<1> QED BY <1>1, <1>3, <1>8, <1>12, StillAt DEF igVars

LEMMA WalkLeave ==
    ASSUME WalkInv, Leave PROVE WalkInv'
<1>1. item = NoItem /\ open # <<>> /\ ~Resting
  BY DEF Leave, Resting
<1>2. PICK q \in Paths : Place(q)
  BY <1>1, AtPlace
<1>3. open \in Seq(SUBSET Paths) /\ depth \in Nat /\ Root \in Tree
  BY <1>1, AtPlace
<1>4. /\ Front(open) \in Seq(SUBSET Paths)
      /\ PlaceOf(config, Root, Front(open), NoItem, depth, ig, shown, pulled, q)
  BY <1>1, <1>2, <1>3, LeavePlace DEF Place
<1>5. open' = Front(open) /\ UNCHANGED <<input, next, item, depth, igVars, pulled, shown>>
  BY GivenNow DEF Leave
<1> QED BY <1>1, <1>3, <1>4, <1>5, StillAt DEF igVars

LEMMA WalkExit ==
    ASSUME WalkInv, LeavesDir
    PROVE  /\ ~Resting /\ Len(ig) > 1 /\ depth - 1 \in Nat
           /\ Exit => WalkInv'
<1>1. depth \in Nat
  BY DEF WalkInv
<1>2. ~Resting
  <2>1. ASSUME Resting PROVE FALSE
    BY <2>1 DEF Resting, LeavesDir, ItemDepth
  <2> QED BY <2>1
<1>3. PICK q \in Paths : Place(q)
  BY <1>2, AtPlace
<1>4. open \in Seq(SUBSET Paths) /\ Root \in Tree
  BY <1>2, AtPlace
<1>5. IF item = NoItem THEN open = <<>> /\ depth > 0 ELSE item.depth < depth
  BY <1>1 DEF LeavesDir, ItemDepth
<1>6. /\ depth - 1 \in Nat /\ Len(ig) > 1 /\ Front(q) \in Paths
      /\ PlaceOf(config, Root, open, item, depth - 1, Front(ig), shown, pulled, Front(q))
  BY <1>1, <1>3, <1>4, <1>5, ExitPlace DEF Place
<1>7. ASSUME Exit PROVE WalkInv'
  <2>1. /\ depth' = depth - 1 /\ ig' = Front(ig)
        /\ UNCHANGED <<input, next, open, item, compiled, pulled, shown>>
    BY <1>7, GivenNow DEF Exit
  <2> QED BY <1>2, <1>4, <1>6, <2>1, StillAt
<1> QED BY <1>2, <1>6, <1>7

\* The depth of what is held back, when no directory is left.
LEMMA ReadyDepth ==
    ASSUME WalkInv, item # NoItem, ~LeavesDir
    PROVE  ~Resting /\ item.depth = depth
<1>1. ~Resting
  BY DEF Resting
<1>2. PICK q \in Paths : Place(q)
  BY <1>1, AtPlace
<1>3. item.depth \in 0 .. depth /\ depth \in Nat
  BY <1>1, <1>2, AtPlace DEF Place, PlaceOf, Holds
<1>4. ~(item.depth < depth)
  BY DEF LeavesDir, ItemDepth
<1> QED BY <1>1, <1>3, <1>4

LEMMA WalkDirEvent ==
    ASSUME Regular(config), WalkInv, DirEvent PROVE WalkInv'
<1>1. /\ item.kind = "entry" /\ item.path \in Dirs /\ ~LeavesDir
      /\ item # NoItem /\ ~Resting /\ HoldsDir(item)
  BY DEF DirEvent, Ready, NoItem, Resting, HoldsDir
<1>2. PICK q \in Paths : Place(q)
  BY <1>1, AtPlace
<1>3. config \in Configs /\ open \in Seq(SUBSET Paths) /\ depth \in Nat /\ Root \in Tree
  BY <1>1, AtPlace
<1>4. item.depth = depth
  BY <1>1, ReadyDepth
<1>5. SkipEntry(item.path) \in {"keep", "skip"}
  <2>1. item.path \notin config.unclear
    BY <1>1 DEF Regular
  <2> QED BY <2>1 DEF SkipEntry
<1>6. /\ ig' = AddChild(config, ig, item.path)
      /\ \/ open' = open /\ shown' = shown \cup {item.path}
         \/ open' = Front(open) /\ shown' = shown
      /\ depth' = item.depth + 1 /\ item' = NoItem
      /\ UNCHANGED <<input, next, compiled, pulled>>
  BY <1>5, GivenNow DEF DirEvent, ChainAfter, OpenAfter, Given
<1>7. /\ open' \in Seq(SUBSET Paths) /\ item.path \in Paths
      /\ PlaceOf(config, Root, open', NoItem, depth + 1, ig', shown', pulled, item.path)
  <2>1. PlaceOf(config, Root, open, item, depth, ig, shown, pulled, q)
    BY <1>2 DEF Place
  <2>3. Enters(open, open', shown, shown', item.path)
    BY <1>6 DEF Enters
  <2>2. /\ open' \in Seq(SUBSET Paths) /\ item.path \in Paths
        /\ PlaceOf(config, Root, open', NoItem, depth + 1,
                   AddChild(config, ig, item.path), shown', pulled, item.path)
    BY ONLY <1>1, <1>3, <1>4, <2>1, <2>3, EnterPlace
  <2> QED BY <1>6, <2>2
<1>8. depth' \in Nat /\ depth' = depth + 1
  BY <1>3, <1>4, <1>6
<1>9. PICK p \in Paths :
        PlaceOf(config, Root, open', NoItem, depth + 1, ig', shown', pulled, p)
  BY <1>7
<1> QED BY <1>1, <1>6, <1>7, <1>8, <1>9, StillAt

LEMMA WalkDone ==
    ASSUME WalkInv, item # NoItem, ~LeavesDir, ~HoldsDir(item),
           depth' = item.depth, item' = NoItem, shown \subseteq shown',
           UNCHANGED <<input, next, open, igVars, pulled>>
    PROVE  WalkInv'
<1>1. ~Resting /\ item.depth = depth
  BY ReadyDepth
<1>2. PICK q \in Paths : Place(q)
  BY <1>1, AtPlace
<1>3. open \in Seq(SUBSET Paths) /\ depth \in Nat /\ Root \in Tree
  BY <1>1, AtPlace
<1>4. PlaceOf(config, Root, open, NoItem, depth, ig, shown', pulled, q)
  <2>1. PlaceOf(config, Root, open, item, depth, ig, shown, pulled, q)
    BY <1>2 DEF Place
  <2> QED BY <1>1, <1>3, <2>1, DonePlace
<1> QED BY <1>1, <1>3, <1>4, StillAt DEF igVars

LEMMA WalkStep ==
    ASSUME Regular(config), WalkInv, [Next]_vars PROVE WalkInv'
<1>1. CASE Build
  BY <1>1, WalkBuild
<1>2. CASE Pull
  BY <1>2, WalkPull
<1>3. CASE Leave
  BY <1>3, WalkLeave
<1>4. CASE NextRoot
  BY <1>4, WalkNextRoot
<1>5. CASE Exit
  BY <1>5, WalkExit DEF Exit
<1>6. CASE DirEvent
  BY <1>6, WalkDirEvent
<1>7. CASE FileEvent
  <2>1. item # NoItem /\ ~LeavesDir /\ ~HoldsDir(item)
    BY <1>7 DEF FileEvent, Ready, NoItem, HoldsDir
  <2>2. shown \subseteq shown'
    BY <1>7, GivenNow DEF FileEvent, Given
  <2> QED BY <1>7, <2>1, <2>2, WalkDone DEF FileEvent
<1>8. CASE ErrorEvent
  <2>1. item # NoItem /\ ~LeavesDir /\ ~HoldsDir(item)
    BY <1>8 DEF ErrorEvent, Ready, NoItem, HoldsDir
  <2>2. shown \subseteq shown'
    BY <1>8, GivenNow DEF ErrorEvent
  <2> QED BY <1>8, <2>1, <2>2, WalkDone DEF ErrorEvent
<1>9. CASE NoMoreRoots
  BY <1>9, WalkNoMoreRoots
<1>10. CASE UNCHANGED vars
  BY <1>10, GivenNow DEF vars, input, treeVars, igVars, WalkInv, Resting, Place, Root
<1>11. CASE End
  BY <1>10, <1>11 DEF End
<1> QED BY <1>1, <1>2, <1>3, <1>4, <1>5, <1>6, <1>7, <1>8, <1>9, <1>10, <1>11 DEF Next

-----------------------------------------------------------------------------
(* The verdict.                                                            *)

\* An entry lies below one root only.
LEMMA RootOfIs ==
    ASSUME NEW c \in Configs, Regular(c), NEW r, r \in RootsOf(c), NEW e \in Tree, Within(r, e)
    PROVE  RootOf(c, e) = r
<1>1. \A s \in RootsOf(c) : s \in Seq(Names) \ {<<>>} /\ Len(s) \in Nat
  <2>1. \A s \in RootsOf(c) : s \in Tree
    BY ConfigAssumption
  <2>2. ASSUME NEW s \in RootsOf(c) PROVE s \in Seq(Names) \ {<<>>}
    BY <2>1, TreePath DEF Paths
  <2> QED BY <2>2
<1>2. e \in Seq(Names)
  BY TreePath DEF Paths
<1>3. IsPrefix(r, e)
  BY <1>1, WithinIsPrefix
<1>4. ASSUME NEW s \in RootsOf(c), IsPrefix(s, e) PROVE s = r
  <2>1. Within(s, e)
    BY <1>1, <1>4, WithinIsPrefix
  <2>2. s \in Seq(Names) /\ Len(s) \in Nat /\ Len(r) \in Nat /\ r \in Seq(Names)
    BY <1>1
  <2>3. CASE Len(s) <= Len(r)
    <3>1. Within(s, r)
      BY ONLY <1>2, <2>1, <2>2, <2>3, Within(r, e), WithinBoth
    <3> QED BY <2>2, <3>1, WithinIsPrefix DEF Regular
  <2>4. CASE Len(r) <= Len(s)
    <3>1. Within(r, s)
      BY ONLY <1>2, <2>1, <2>2, <2>4, Within(r, e), WithinBoth
    <3> QED BY <2>2, <3>1, WithinIsPrefix DEF Regular
  <2> QED BY <2>2, <2>3, <2>4
<1> QED BY <1>3, <1>4 DEF RootOf

\* What is held back when it is going to be dealt with.
LEMMA ReadyEntry ==
    ASSUME WalkInv, Ready("entry")
    PROVE  /\ ~Resting /\ item.depth = depth /\ depth \in Nat
           /\ config \in Configs /\ open # <<>>
           /\ Root \in RootsOf(config) /\ Root \in Tree /\ Root # Stdin
           /\ item.path \in Tree \ {Stdin} /\ item.path \in pulled
           /\ item.path \notin config.bad
           /\ Within(Root, item.path)
           /\ Len(item.path) = Len(Root) + depth
           /\ depth = 0 => item.path = Root
           /\ depth > 0 => /\ item.path # Root /\ Root \in Dirs
                           /\ ChainIs(config, Root, ig, Front(item.path))
           /\ item.path \in Dirs => /\ Len(open) = depth + 2
                                    /\ Last(open) = Lists(config, item.path)
<1> DEFINE r == Root
           p == item.path
<1>1. item # NoItem /\ ~LeavesDir /\ item.kind = "entry"
  BY DEF Ready, NoItem
<1>2. ~Resting /\ item.depth = depth
  BY <1>1, ReadyDepth
<1>3. /\ config \in Configs /\ open \in Seq(SUBSET Paths) /\ depth \in Nat
      /\ r \in RootsOf(config) /\ r \in Tree /\ r # Stdin
  BY <1>2, AtPlace
<1>4. PICK q \in Paths : PlaceOf(config, r, open, item, depth, ig, shown, pulled, q)
  BY <1>2, AtPlace DEF Place
<1>5. /\ open # <<>> /\ p \in Tree \ {Stdin} /\ p \in pulled /\ p \notin config.bad
      /\ Len(p) = Len(r) + depth /\ Within(r, p) /\ Within(Front(p), q)
      /\ p \in Dirs => /\ Len(open) = depth + 2
                       /\ open[depth + 2] = Lists(config, p)
  <2>1. item # Failure(p, item.depth)
    BY <1>1 DEF Failure
  <2>2. Holds(config, r, open, item, depth, pulled, q)
    BY <1>4 DEF PlaceOf
  <2> QED BY <1>1, <1>2, <2>1, <2>2 DEF Holds
<1>6. r \in Seq(Names) /\ Len(r) \in Nat \ {0} /\ q \in Seq(Names) /\ Len(q) = Len(r) - 1 + depth
  BY <1>3, <1>4, PlaceTypes
<1>7. p \in Seq(Names) \ {<<>>}
  BY <1>5, TreePath DEF Paths
<1>8. p \in Seq(Names) /\ Front(p) \in Seq(Names) /\ Len(Front(p)) = Len(p) - 1
  BY ONLY <1>7, FrontIs
<1>9. ASSUME depth = 0 PROVE p = r
  <2>1. Within(p, p) /\ Len(p) = Len(r)
    BY <1>3, <1>5, <1>6, <1>8, <1>9, WithinSelf
  <2> QED BY <1>5, <1>6, <1>8, <2>1, WithinBoth
<1>10. ASSUME depth > 0
       PROVE  p # r /\ r \in Dirs /\ ChainIs(config, r, ig, Front(p))
  <2>1. r \in Dirs /\ ChainIs(config, r, ig, q)
    BY <1>3, <1>4, <1>10 DEF PlaceOf
  <2>2. p # r
    <3>1. Len(p) # Len(r)
      BY <1>3, <1>5, <1>6, <1>10
    <3> QED BY <3>1
  <2>3. Front(p) = q
    <3>1. Within(q, q) /\ Len(Front(p)) = Len(q) /\ Len(q) \in Nat /\ Len(Front(p)) \in Nat
      BY <1>3, <1>5, <1>6, <1>8, WithinSelf
    <3>2. Len(Front(p)) <= Len(q)
      BY ONLY <3>1
    <3> QED BY ONLY <1>5, <1>6, <1>8, <3>1, <3>2, WithinBoth
  <2> QED BY <2>1, <2>2, <2>3
<1>11. p \in Dirs => Last(open) = Lists(config, p)
  BY <1>5 DEF Last
<1> QED BY <1>2, <1>3, <1>5, <1>9, <1>10, <1>11

LEMMA VerdictNow ==
    ASSUME WalkInv, Regular(config), Apart(config)
    PROVE  VerdictExact
<1>1. SUFFICES ASSUME Candidate
               PROVE  MatchedIgnore(config, ig, item.path)
                        = RefIgnore(config, RootOf(config, item.path), item.path)
  BY DEF VerdictExact
<1>2. Ready("entry") /\ item.depth > 0
  BY <1>1 DEF Candidate
<1>3. /\ config \in Configs /\ Root \in RootsOf(config) \cap Dirs /\ item.path \in Tree
      /\ Within(Root, item.path) /\ item.path # Root
      /\ ChainIs(config, Root, ig, Front(item.path))
  BY <1>2, ReadyEntry
<1>4. Judged(config, Root, ig, item.path)
  BY <1>3 DEF Judged
<1>5. RootOf(config, item.path) = Root
  BY <1>3, RootOfIs
<1>6. MatchedIgnore(config, ig, item.path) = RefIgnore(config, Root, item.path)
  BY <1>4, JudgedExactly
<1> QED BY <1>5, <1>6

LEMMA SameConfig ==
    ASSUME [Next]_vars PROVE config' = config /\ promise' = promise
BY DEF Next, vars, input, Build, Pull, Leave, NextRoot, Exit, DirEvent, FileEvent,
       ErrorEvent, NoMoreRoots, End

\* At each step of Walk::next and of walkdir, the listings, the depth and the
\* chain are those of one directory and the directories above it.
THEOREM SerialPlace == Regular(config) /\ Spec => []WalkInv
<1> DEFINE Inv == Regular(config) /\ WalkInv
<1>1. Regular(config) /\ Init => Inv
  BY WalkInit
<1>2. Inv /\ [Next]_vars => Inv'
  BY WalkStep, SameConfig
<1>3. Inv => WalkInv
  OBVIOUS
<1> QED BY <1>1, <1>2, <1>3, PTL DEF Spec

\* Whatever has been pushed, popped, skipped and cached before, matched_ignore
\* says of an entry what the documentation says of its path.
THEOREM SerialVerdictCorrect ==
    Regular(config) /\ Apart(config) /\ Spec => []VerdictExact
<1> DEFINE Inv == Regular(config) /\ Apart(config) /\ WalkInv
<1>1. Regular(config) /\ Apart(config) /\ Init => Inv
  BY WalkInit
<1>2. Inv /\ [Next]_vars => Inv'
  BY WalkStep, SameConfig
<1>3. Inv => VerdictExact
  BY VerdictNow
<1> QED BY <1>1, <1>2, <1>3, PTL DEF Spec

\* When Walk::next leaves a directory, the matcher that it drops has a parent:
\* the code unwraps it.
ParentThere == LeavesDir => Len(ig) > 1
\* The unwrap in Walk::next does not fail.
THEOREM SerialUnwrapCorrect == Regular(config) /\ Spec => []ParentThere
<1>1. WalkInv => ParentThere
  BY WalkExit DEF ParentThere
<1> QED BY <1>1, SerialPlace, PTL

-----------------------------------------------------------------------------
(* What is asked for.                                                      *)

LEMMA PromiseShape ==
    ASSUME NEW c
    PROVE  /\ Promise(c).wanted = {e \in Walked(c) \ (c.bad \cup (c.unclear \ RootsOf(c))) :
                                       ~Skipped(c, e)}
           /\ Promise(c).yields = [d \in Tree |->
                 IF d \in (Dirs \cap Walked(c)) \ c.unreadable
                 THEN {e \in Children(d) \cap Promise(c).wanted :
                          DepthOf(c, e) <= c.max_depth}
                 ELSE {}]
           /\ Promise(c).shows = {e \in Walked(c) : DepthOf(c, e) >= c.min_depth}
BY DEF Promise

LEMMA WantedIs ==
    ASSUME NEW c \in Configs, Regular(c), NEW r, r \in RootsOf(c), NEW e \in Tree, Within(r, e)
    PROVE  /\ e \in Walked(c) /\ e \in Promise(c).shows
           /\ e \in Promise(c).wanted <=>
                e \notin c.bad /\ e \notin c.unclear \ RootsOf(c) /\ ~Skipped(c, e)
           /\ DepthOf(c, e) = Len(e) - Len(r)
<1>1. r \in Tree
  BY ConfigAssumption
<1>2. r \in Seq(Names) /\ e \in Seq(Names)
  BY <1>1, TreePath DEF Paths
<1>3. IsPrefix(r, e)
  BY <1>2, WithinIsPrefix
<1>4. e \in Walked(c)
  BY <1>3 DEF Walked
<1>5. DepthOf(c, e) = Len(e) - Len(r)
  BY RootOfIs DEF DepthOf
<1>6. DepthOf(c, e) >= c.min_depth
  <2>1. Len(r) \in Nat /\ Len(e) \in Nat /\ Len(r) <= Len(e)
    BY <1>2 DEF Within
  <2>2. c.min_depth = 0
    BY DEF Regular
  <2> QED BY <1>5, <2>1, <2>2
<1>7. e \in Promise(c).shows
  BY <1>4, <1>6, PromiseShape
<1>8. e \in Promise(c).wanted <=>
                e \notin c.bad /\ e \notin c.unclear \ RootsOf(c) /\ ~Skipped(c, e)
  <2>1. Promise(c).wanted = {x \in Walked(c) \ (c.bad \cup (c.unclear \ RootsOf(c))) :
                                ~Skipped(c, x)}
    BY PromiseShape
  <2>2. e \in Promise(c).wanted <=>
           e \in Walked(c) \ (c.bad \cup (c.unclear \ RootsOf(c))) /\ ~Skipped(c, e)
    BY ONLY <2>1
  <2> QED BY ONLY <1>4, <2>2
<1> QED BY <1>4, <1>5, <1>7, <1>8

LEMMA YieldsIs ==
    ASSUME NEW c \in Configs
    PROVE  /\ Promise(c).wanted \subseteq Tree \ c.bad
           /\ Promise(c).shows \subseteq Tree
           /\ Promise(c).yields \in [Tree -> SUBSET Tree]
           /\ \A d \in Tree : \A y \in Promise(c).yields[d] :
                /\ d \in Dirs \ c.unreadable
                /\ y \in Tree \ {Stdin} /\ y # <<>> /\ Front(y) = d
                /\ y \in Promise(c).wanted
                /\ DepthOf(c, y) <= c.max_depth
<1>1. Promise(c).wanted \subseteq Tree \ c.bad /\ Promise(c).shows \subseteq Tree
  <2>1. Walked(c) \subseteq Tree
    BY DEF Walked
  <2>2. Promise(c).wanted = {e \in Walked(c) \ (c.bad \cup (c.unclear \ RootsOf(c))) :
                                ~Skipped(c, e)}
    BY PromiseShape
  <2>3. Promise(c).shows = {e \in Walked(c) : DepthOf(c, e) >= c.min_depth}
    BY PromiseShape
  <2> QED BY <2>1, <2>2, <2>3
<1>2. \A d \in Tree : Promise(c).yields[d] =
                 IF d \in (Dirs \cap Walked(c)) \ c.unreadable
                 THEN {e \in Children(d) \cap Promise(c).wanted :
                          DepthOf(c, e) <= c.max_depth}
                 ELSE {}
  BY PromiseShape
<1>3. \A d \in Tree : \A y \in Promise(c).yields[d] :
                /\ d \in Dirs \ c.unreadable
                /\ y \in Tree \ {Stdin} /\ y # <<>> /\ Front(y) = d
                /\ y \in Promise(c).wanted
                /\ DepthOf(c, y) <= c.max_depth
  BY <1>2 DEF Children
<1>4. Promise(c).yields \in [Tree -> SUBSET Tree]
  <2>1. \A d \in Tree : Promise(c).yields[d] \in SUBSET Tree
    BY <1>3
  <2>2. Promise(c).yields = [d \in Tree |-> Promise(c).yields[d]]
    BY PromiseShape
  <2> QED BY <2>1, <2>2
<1> QED BY <1>1, <1>3, <1>4

\* A root that can be read is wanted.
LEMMA RootsWanted ==
    ASSUME NEW c \in Configs, Regular(c), NEW r, r \in RootsOf(c)
    PROVE  r \in Tree /\ r \in Promise(c).shows /\ (r \notin c.bad <=> r \in Promise(c).wanted)
<1>1. r \in Tree
  BY ConfigAssumption
<1>2. Within(r, r)
  BY <1>1, TreePath, WithinSelf DEF Paths
<1>3. ~Skipped(c, r)
  BY DEF Skipped
<1> QED BY <1>1, <1>2, <1>3, WantedIs

\* What waits in walkdir's listings.
LEMMA WaitingIs ==
    ASSUME WalkInv, NEW j \in 1 .. Len(open), NEW e, e \in open[j]
    PROVE  /\ ~Resting /\ config \in Configs
           /\ Root \in RootsOf(config) /\ Root \in Tree
           /\ e \in Paths \ {<<>>} /\ Len(e) = Len(Root) + j - 1
           /\ Len(Root) \in Nat \ {0}
           /\ Within(Root, e)
           /\ IF e \in Tree THEN e # Stdin ELSE Last(e) = Trouble
           /\ e \notin Tree => j > 1
           /\ j = 1 <=> e = Root
           /\ IF HoldsDir(item) /\ j = Len(open) THEN Front(e) = item.path
              ELSE j > 1 => Front(e) \in shown \cap Dirs
           /\ j > 1 => e \in Lists(config, Front(e))
<1>1. open \in Seq(SUBSET Paths)
  BY DEF WalkInv
<1>2. open # <<>> /\ j \in DOMAIN open
  BY <1>1
<1>3. ~Resting
  BY <1>2 DEF Resting
<1>4. config \in Configs /\ Root \in RootsOf(config) /\ Root \in Tree
  BY <1>3, AtPlace
<1>5. PICK q \in Paths : Place(q)
  BY <1>3, AtPlace
<1>6. Waits(config, Root, open, item, shown,
            Cut(q, Len(Root) - 1 + Stays(item, depth)), j, e)
  BY <1>2, <1>5 DEF Place, PlaceOf
<1>7. Len(Root) \in Nat \ {0}
  BY <1>4, TreePath DEF Paths
<1>8. /\ e \in Paths \ {<<>>} /\ Len(e) = Len(Root) + j - 1
      /\ Within(Root, e)
      /\ IF e \in Tree THEN e # Stdin ELSE Last(e) = Trouble
      /\ e \notin Tree => j > 1
      /\ j = 1 <=> e = Root
      /\ IF HoldsDir(item) /\ j = Len(open) THEN Front(e) = item.path
         ELSE j > 1 => Front(e) \in shown \cap Dirs
      /\ e \in Lists(config, Front(e)) \/ e = Root
  BY <1>6 DEF Waits
<1> QED BY <1>3, <1>4, <1>7, <1>8

\* An entry is skipped if and only if it is not wanted.
LEMMA SkipExact ==
    ASSUME WalkInv, Regular(config), Apart(config), Filtered(config), Ready("entry")
    PROVE  /\ SkipEntry(item.path) = "keep" <=> item.path \in promise.wanted
           /\ item.path \in promise.shows
<1> DEFINE p == item.path
           c == config
           verdict == ShouldSkipEntry(c, RefIgnore(c, RootOf(c, p), p), p)
<1>1. /\ item.depth = depth /\ depth \in Nat /\ c \in Configs
      /\ Root \in RootsOf(c) /\ p \in Tree /\ p \notin c.bad /\ Within(Root, p)
      /\ depth = 0 => p = Root
      /\ depth > 0 => p # Root
  BY ReadyEntry
<1>2. /\ p \in Promise(c).shows
      /\ p \in Promise(c).wanted <=>
           p \notin c.bad /\ p \notin c.unclear \ RootsOf(c) /\ ~Skipped(c, p)
  BY <1>1, WantedIs
<1>3. promise = Promise(c)
  BY DEF WalkInv
<1>4. CASE depth = 0
  <2>1. SkipEntry(p) = "keep"
    BY <1>1, <1>4 DEF SkipEntry
  <2>2. ~Skipped(c, p) /\ p \in RootsOf(c)
    BY <1>1, <1>4 DEF Skipped
  <2> QED BY <1>1, <1>2, <1>3, <2>1, <2>2
<1>5. CASE depth # 0
  <2>1. Candidate /\ depth > 0 /\ item.depth # 0
    BY <1>1, <1>5 DEF Candidate
  <2>2. MatchedIgnore(c, ig, p) = RefIgnore(c, RootOf(c, p), p)
    BY <2>1, VerdictNow DEF VerdictExact
  <2>3. p \notin RootsOf(c)
    <3>1. Root \in Seq(Names)
      BY <1>1, ConfigAssumption, TreePath DEF Paths
    <3>2. IsPrefix(Root, p)
      BY <1>1, <3>1, WithinIsPrefix
    <3> QED BY <1>1, <2>1, <3>2 DEF Regular
  <2>4. SkipEntry(p) =
          IF verdict THEN "skip"
          ELSE IF p \in c.unclear THEN "error"
          ELSE IF p \in c.stdout THEN "skip"
          ELSE IF c.limited /\ p \notin Dirs
               THEN IF p \in c.big THEN "skip" ELSE "keep"
          ELSE IF p \in c.rejected THEN "skip"
          ELSE "keep"
    BY <2>1, <2>2 DEF SkipEntry
  <2>5. Skipped(c, p) <=> verdict \/ p \in c.stdout \/ (c.limited /\ p \in c.big \ Dirs)
                          \/ p \in c.rejected
    BY <2>3 DEF Skipped
  <2>6. c.limited /\ p \notin Dirs => p \notin c.rejected
    BY DEF Filtered
  <2> HIDE DEF verdict
  <2>7. SkipEntry(p) = "keep" <=> p \notin c.unclear /\ ~Skipped(c, p)
    BY <2>4, <2>5, <2>6
  <2> QED BY <1>1, <1>2, <1>3, <2>3, <2>7
<1> QED BY <1>4, <1>5

-----------------------------------------------------------------------------
(* Everything that is wanted is shown, and nothing else.                   *)

Tame(c) == Regular(c) /\ Apart(c) /\ Filtered(c)

\* What the walk has reached, for its caller.
Found == IF next = 0 THEN {} ELSE promise.wanted \cap (RootsOf(config) \cup pulled)
AbstractStep == [Abstract!Next]_(Abstract!vars)

LEMMA Idle ==
    ASSUME config' = config, promise' = promise, Found' = Found, shown' = shown,
           Finished' = Finished
    PROVE  AbstractStep
BY DEF AbstractStep, Abstract!vars, Abstract!request, Found

LEMMA ShownKept ==
    ASSUME ShownInv, config' = config, promise' = promise, open' = open, shown' = shown,
           pulled' = pulled, item.kind = "entry" => item' = item, next' # 0,
           \A i \in DOMAIN config.roots : i < next' => i < next
    PROVE  ShownInv'
<1>1. NothingYet'
  BY DEF NothingYet
<1>2. OnlyFound'
  BY DEF ShownInv, OnlyFound
<1>3. AllShown'
  BY DEF ShownInv, AllShown, Held
<1>4. AllListed'
  BY DEF ShownInv, AllListed
<1>5. RootsMet'
  BY DEF ShownInv, RootsMet, RootMet
<1> QED BY <1>1, <1>2, <1>3, <1>4, <1>5 DEF ShownInv

LEMMA ShownInit ==
    ASSUME Init PROVE ShownInv /\ Abstract!Init
<1>1. ShownInv
  <2>1. NothingYet /\ OnlyFound /\ AllShown /\ AllListed
    BY DEF Init, NothingYet, OnlyFound, AllShown, AllListed, shown
  <2>2. DOMAIN config.roots \subseteq Nat \ {0} /\ next = 0
    BY PathAssumption DEF Init
  <2>3. RootsMet
    BY <2>2 DEF RootsMet
  <2> QED BY <2>1, <2>3 DEF ShownInv
<1>2. config \in Configs /\ promise = Promise(config) /\ Len(config.roots) \in Nat
      /\ next = 0 /\ shown = {}
  BY PathAssumption DEF Init, shown
<1>3. ~Finished
  BY <1>2 DEF Finished
<1>4. promise.shows \subseteq Tree /\ promise.yields \in [Tree -> SUBSET Tree]
  BY <1>2, YieldsIs
<1>5. RootsOf(config) \ config.bad \subseteq Tree
  BY <1>2, ConfigAssumption
<1> QED BY <1>1, <1>2, <1>3, <1>4, <1>5 DEF Abstract!Init, Abstract!RequestOK

\* Nothing is finished while a root is walked or roots are left.
LEMMA NotFinished ==
    ASSUME WalkInv, ~Resting \/ next \in 0 .. Len(config.roots) + 1
    PROVE  ~Finished
<1>1. Len(config.roots) \in Nat /\ next \in Nat
  BY PathAssumption DEF WalkInv
<1>2. next <= Len(config.roots) + 1
  BY <1>1, AtPlace
<1> QED BY <1>1, <1>2 DEF Finished

LEMMA ShownBuild ==
    ASSUME WalkInv, ShownInv, Regular(config), Build
    PROVE  ShownInv' /\ AbstractStep
<1>1. next = 0 /\ next' = 1 /\ pulled = {} /\ shown = {}
      /\ config' = config /\ promise' = promise /\ open' = open /\ shown' = shown
      /\ pulled' = pulled /\ item' = item
  BY GivenNow DEF Build, input, treeVars, ShownInv, NothingYet
<1>2. config \in Configs /\ promise = Promise(config)
      /\ Len(config.roots) \in Nat \ {0} /\ DOMAIN config.roots = 1 .. Len(config.roots)
  <2>1. config \in Configs /\ promise = Promise(config)
    BY DEF WalkInv
  <2>2. config.roots \in Seq(Tree) /\ config.roots # <<>>
    BY <2>1, ConfigAssumption, PathAssumption
  <2> QED BY <2>1, <2>2
<1>3. ShownInv'
  <2>1. \A i \in DOMAIN config.roots : i < next' => i < next
    BY <1>1, <1>2
  <2> QED BY <1>1, <2>1, ShownKept
<1>4. Found = {} /\ Found' = RootsOf(config) \ config.bad
  <2>1. promise.wanted \cap RootsOf(config) = RootsOf(config) \ config.bad
    BY <1>2, RootsWanted
  <2> QED BY <1>1, <2>1 DEF Found
<1>5. ~Finished /\ ~Finished'
  BY <1>1, <1>2 DEF Finished
<1>6. Abstract!Begin
  <2>1. Finished' = Finished
    BY <1>5 DEF Finished
  <2> HIDE DEF Found
  <2>2. shown' = shown
    BY <1>1
  <2>3. Found = {} /\ Found' = RootsOf(config) \ config.bad
    BY <1>4
  <2> QED BY <2>1, <2>2, <2>3 DEF Abstract!Begin, Found
<1>7. UNCHANGED Abstract!request
  BY <1>1 DEF Abstract!request
<1> QED BY <1>3, <1>5, <1>6, <1>7 DEF AbstractStep, Abstract!Next

LEMMA ShownNoMoreRoots ==
    ASSUME WalkInv, ShownInv, Regular(config), NoMoreRoots
    PROVE  ShownInv' /\ AbstractStep
<1>1. /\ next = Len(config.roots) + 1 /\ next' = next + 1
      /\ config' = config /\ promise' = promise /\ open' = open /\ shown' = shown
      /\ pulled' = pulled /\ item' = item
      /\ open = <<>> /\ item = NoItem
  BY GivenNow DEF NoMoreRoots, input, treeVars
<1>2. config \in Configs /\ promise = Promise(config)
      /\ Len(config.roots) \in Nat /\ DOMAIN config.roots = 1 .. Len(config.roots)
  BY PathAssumption DEF WalkInv
<1>3. ShownInv'
  <2>1. \A i \in DOMAIN config.roots : i < next' => i < next
    BY <1>1, <1>2
  <2>2. next' # 0
    BY <1>1, <1>2
  <2> QED BY <1>1, <2>1, <2>2, ShownKept
<1>4. ~Finished /\ Finished' /\ next # 0 /\ Found' = Found
  BY <1>1, <1>2 DEF Finished, Found
<1>5. \A e \in promise.wanted \cap pulled : e \in shown
  BY <1>1 DEF ShownInv, AllShown, Held, NoItem
<1>6. ASSUME NEW r \in RootsOf(config) PROVE r \in config.bad \/ r \in pulled \cup shown
  <2>1. PICK i \in DOMAIN config.roots : r = config.roots[i]
    BY <1>2 DEF RootsOf, ToSet
  <2>2. i < next
    BY <1>1, <1>2
  <2> QED BY <1>1, <2>1, <2>2 DEF ShownInv, RootsMet, RootMet
<1>7. promise.wanted \subseteq Tree \ config.bad
  BY <1>2, YieldsIs
<1>8. Found = promise.wanted \cap (RootsOf(config) \cup pulled) /\ Found \subseteq shown
  <2>1. Found = promise.wanted \cap (RootsOf(config) \cup pulled)
    BY <1>4 DEF Found
  <2>2. ASSUME NEW e \in Found PROVE e \in shown
    <3>1. CASE e \in pulled
      BY <1>5, <2>1, <3>1
    <3>2. CASE e \in RootsOf(config)
      BY <1>5, <1>6, <1>7, <2>1, <3>2
    <3> QED BY <2>1, <3>1, <3>2
  <2> QED BY <2>1, <2>2
<1>9. Abstract!Exhausted
  <2>1. RootsOf(config) \ config.bad \subseteq Found
    BY <1>2, <1>8, RootsWanted
  <2>2. ASSUME NEW e \in Found PROVE promise.yields[e] \subseteq Found
    <3>1. e \in Tree
      BY <1>7, <1>8
    <3>2. ASSUME NEW y \in promise.yields[e] PROVE y \in Found
      <4>1. y \in promise.wanted
        BY <1>2, <3>1, YieldsIs
      <4>2. y \in pulled
        BY <1>1, <1>8 DEF ShownInv, AllListed
      <4> QED BY <1>8, <4>1, <4>2
    <3> QED BY <3>2
  <2>3. \A e \in Found : Abstract!Handled(e)
    BY <1>8 DEF Abstract!Handled
  <2> QED BY <2>1, <2>2, <2>3 DEF Abstract!Exhausted, Found
<1>10. Abstract!Finish
  BY <1>1, <1>4, <1>9 DEF Abstract!Finish, Found
<1>11. UNCHANGED Abstract!request
  BY <1>1 DEF Abstract!request
<1> QED BY <1>3, <1>4, <1>10, <1>11 DEF AbstractStep, Abstract!Next

LEMMA Running ==
    ASSUME WalkInv, ~Resting, config' = config, next' = next
    PROVE  next # 0 /\ ~Finished /\ Finished' = Finished
<1>1. ~Finished /\ next # 0
  BY NotFinished, AtPlace
<1>2. ~Finished'
  BY <1>1 DEF Finished
<1> QED BY <1>1, <1>2 DEF Finished

\* The visitor is called.
LEMMA Visits ==
    ASSUME config' = config, promise' = promise, Found' = Found, Finished' = Finished,
           ~Finished, NEW e \in Tree, e \in Found, e \in promise.shows,
           shown' = shown \cup {e}
    PROVE  AbstractStep
<1>1. CASE e \in shown
  <2>1. shown' = shown
    BY <1>1
  <2> QED BY <2>1, Idle
<1>2. CASE e \notin shown
  <2>1. Abstract!Visit(e)
    BY <1>2 DEF Abstract!Visit, Found
  <2>2. \E x \in Tree : Abstract!Visit(x)
    BY <2>1
  <2>3. UNCHANGED Abstract!request
    BY DEF Abstract!request
  <2> QED BY <2>2, <2>3 DEF AbstractStep, Abstract!Next
<1> QED BY <1>1, <1>2

LEMMA ShownPull ==
    ASSUME WalkInv, ShownInv, Tame(config), Pull
    PROVE  ShownInv' /\ AbstractStep
<1> DEFINE m == Len(open)
           c == config
<1>1. /\ item = NoItem /\ open # <<>> /\ ~TooDeep /\ ~Resting
      /\ UNCHANGED <<input, next, depth, igVars, shown>>
      /\ config' = config /\ promise' = promise /\ next' = next /\ shown' = shown
  BY GivenNow DEF Pull, Resting, input
<1>2. /\ c \in Configs /\ promise = Promise(c) /\ open \in Seq(SUBSET Paths)
      /\ c.max_depth \in Nat
  BY ConfigAssumption DEF WalkInv
<1>3. m \in Nat \ {0} /\ m \in 1 .. m /\ DOMAIN open = 1 .. m
  BY <1>1, <1>2
<1>4. PICK e \in Last(open) :
        LET rest == Append(Front(open), Last(open) \ {e})
            fails == Last(e) = Trouble \/ e \in config.bad
        IN  /\ open' = IF e \in Dirs /\ ~fails THEN Append(rest, Listing(e)) ELSE rest
            /\ item' = CASE Last(e) = Trouble -> Failure(e, Level - 1)
                         [] e \in config.bad -> Failure(e, Level)
                         [] Level < config.min_depth /\ ~fails -> NoItem
                         [] OTHER -> Entry(e, Level)
            /\ pulled' = IF fails THEN pulled ELSE pulled \cup {e}
  BY DEF Pull
<1> DEFINE rest == Append(Front(open), Last(open) \ {e})
           fails == Last(e) = Trouble \/ e \in config.bad
<1>5. /\ open' = IF e \in Dirs /\ ~fails THEN Append(rest, Listing(e)) ELSE rest
      /\ pulled' = IF fails THEN pulled ELSE pulled \cup {e}
  BY <1>4
<1>6. ~fails => item' = Entry(e, Level)
  <2>1. ~(Level < config.min_depth)
    <3>1. Level = m - 1 /\ config.min_depth = 0
      BY DEF Level, Tame, Regular
    <3> QED BY <1>3, <3>1
  <2> HIDE DEF rest
  <2> QED BY <1>4, <2>1
<1>7. e \in open[m] /\ Last(open) = open[m] /\ open[m] \in SUBSET Paths
  <2>1. open[m] \in SUBSET Paths
    BY <1>2, <1>3
  <2> QED BY <2>1 DEF Last
<1>8. /\ Root \in RootsOf(c) /\ Root \in Tree
      /\ Len(e) = Len(Root) + m - 1 /\ Len(Root) \in Nat \ {0} /\ Within(Root, e)
      /\ e \in Tree => e # Stdin
      /\ e \in Paths \ {<<>>}
      /\ e \notin Tree => Last(e) = Trouble
      /\ m = 1 <=> e = Root
      /\ m > 1 => Front(e) \in shown \cap Dirs /\ e \in Lists(c, Front(e))
  <2>1. ~HoldsDir(item)
    BY <1>1 DEF HoldsDir, NoItem
  <2> QED BY <1>3, <1>7, <2>1, WaitingIs
<1>9. ~fails => e \in Tree
  BY <1>8
<1>10. /\ rest \in Seq(SUBSET Paths) /\ Len(rest) = m /\ rest # <<>>
       /\ rest[m] = open[m] \ {e}
       /\ \A j \in 1 .. m - 1 : rest[j] = open[j]
  <2>1. open[m] \ {e} \in SUBSET Paths
    BY <1>7
  <2> QED BY <1>1, <1>2, <1>7, <2>1, Innermost
<1> HIDE DEF rest
\* What waited still does, but for e.
<1>11. /\ open' # <<>>
       /\ \A j \in 1 .. m : j \in DOMAIN open' /\ open[j] \ {e} \subseteq open'[j]
  <2>1. \A j \in 1 .. m : j \in DOMAIN rest /\ open[j] \ {e} \subseteq rest[j]
    BY <1>3, <1>10
  <2>2. CASE open' = rest
    BY <1>10, <2>1, <2>2
  <2>3. CASE open' # rest
    <3>1. open' = Append(rest, Listing(e)) /\ e \in Dirs
      BY <1>5, <2>3
    <3>2. Listing(e) \in SUBSET Paths
      <4>1. Listing(e) = Lists(c, e)
        BY DEF Listing, Lists
      <4> QED BY <3>1, <4>1, ListsIs
    <3>3. /\ open' \in Seq(SUBSET Paths) \ {<<>>} /\ Len(open') = Len(rest) + 1
          /\ \A j \in 1 .. Len(rest) : open'[j] = rest[j]
      BY <1>10, <3>1, <3>2, AppendIs
    <3>4. DOMAIN open' = 1 .. (m + 1)
      BY <1>10, <3>3
    <3>5. \A j \in 1 .. m : j \in DOMAIN open'
      BY <1>3, <3>4
    <3> QED BY <1>10, <2>1, <3>3, <3>5
  <2> QED BY <2>2, <2>3
<1> HIDE DEF m
\* A path of the tree that is gone from where it waited has been met.
<1>12. ASSUME NEW y \in Tree, y = e PROVE y \in config.bad \cup pulled'
  <2>1. Last(y) # Trouble
    BY PathAssumption
  <2> QED BY <1>5, <1>12, <2>1
<1> HIDE DEF fails
<1>13. pulled \subseteq pulled'
  BY <1>5
<1>14. next # 0 /\ ~Finished /\ Finished' = Finished
  BY <1>1, Running
<1>15. ShownInv'
  <2>1. NothingYet'
    BY <1>1, <1>14 DEF NothingYet
  <2>2. OnlyFound'
    BY <1>1, <1>13 DEF ShownInv, OnlyFound
  <2>3. AllShown'
    <3>1. ASSUME NEW x \in promise.wanted, x \in pulled'
          PROVE  x \in shown \/ (item'.kind = "entry" /\ item'.path = x)
      <4>1. CASE x \in pulled
        BY <1>1, <4>1 DEF ShownInv, AllShown, Held, NoItem
      <4>2. CASE x \notin pulled
        <5>1. ~fails /\ x = e
          BY <1>5, <3>1, <4>2
        <5> QED BY <1>6, <5>1 DEF Entry
      <4> QED BY <4>1, <4>2
    <3> QED BY <1>1, <3>1 DEF AllShown, Held
  <2>4. AllListed'
    <3>1. ASSUME NEW d \in shown, NEW y \in promise.yields[d]
          PROVE  y \in pulled' \/ \E j \in DOMAIN open' : y \in open'[j]
      <4>1. CASE y \in pulled
        BY <1>13, <4>1
      <4>2. CASE y \notin pulled
        <5>1. PICK j \in DOMAIN open : y \in open[j]
          BY <4>2 DEF ShownInv, AllListed
        <5>2. d \in Tree
          BY <1>2, YieldsIs DEF ShownInv, OnlyFound
        <5>3. y \in Tree /\ y \notin config.bad
          BY <1>2, <5>2, YieldsIs
        <5>4. CASE y = e
          BY <1>12, <5>3, <5>4
        <5>5. CASE y # e
          BY <1>3, <1>11, <5>1, <5>5
        <5> QED BY <5>4, <5>5
      <4> QED BY <4>1, <4>2
    <3> QED BY <1>1, <3>1 DEF AllListed
  <2>5. RootsMet'
    <3>1. ASSUME NEW i \in DOMAIN config.roots, i < next, NEW r, r = config.roots[i]
          PROVE  \/ r \in config.bad \cup pulled' \cup shown
                 \/ open' # <<>> /\ r \in open'[1]
      <4>1. RootMet(r)
        BY <3>1 DEF ShownInv, RootsMet
      <4>2. r \in Tree
        BY <1>2, <3>1, PathAssumption
      <4>3. 1 \in 1 .. m
        BY <1>3
      <4>4. CASE r = e
        BY <1>12, <4>2, <4>4
      <4>5. CASE r # e
        BY <1>11, <1>13, <4>1, <4>3, <4>5 DEF RootMet
      <4> QED BY <4>4, <4>5
    <3> QED BY <1>1, <3>1 DEF RootsMet, RootMet
  <2> QED BY <2>1, <2>2, <2>3, <2>4, <2>5 DEF ShownInv
<1>16. Found = promise.wanted \cap (RootsOf(c) \cup pulled)
       /\ Found' = promise.wanted \cap (RootsOf(c) \cup pulled')
  BY <1>1, <1>14 DEF Found
<1>17. CASE Found' = Found
  <2>1. config' = config /\ promise' = promise /\ shown' = shown
    BY <1>1
  <2> QED BY ONLY <1>14, <1>15, <1>17, <2>1, Idle
<1>18. CASE Found' # Found
  <2>1. /\ ~fails /\ e \in promise.wanted /\ e \notin Found
        /\ Found' = Found \cup {e}
    BY <1>5, <1>16, <1>18
  <2>2. e \in Tree /\ e # Root
    BY <1>8, <1>9, <1>16, <2>1
  <2>3. m > 1 /\ Front(e) \in shown \cap Dirs /\ e \in Lists(c, Front(e))
    BY <1>3, <1>8, <2>2
  <2>4. Front(e) \in Found /\ Front(e) \in Tree
    <3>1. Front(e) \in Found
      BY <1>16, <2>3 DEF ShownInv, OnlyFound
    <3>2. Front(e) \in Tree
      BY <2>3, ConfigAssumption
    <3> QED BY <3>1, <3>2
  <2>5. e \in promise.yields[Front(e)]
    <3>1. e \in Children(Front(e)) /\ Front(e) \notin c.unreadable
      <4>1. Last(e) # Trouble /\ Trouble \in Names
        BY <2>2, PathAssumption DEF Names
      <4>2. Front(e) \in Seq(Names)
        BY <2>4, TreePath DEF Paths
      <4>3. Last(Append(Front(e), Trouble)) = Trouble
        BY <4>1, <4>2, AppendIs
      <4> QED BY <2>3, <4>1, <4>3 DEF Lists
    <3>2. DepthOf(c, e) <= c.max_depth
      <4>1. DepthOf(c, e) = Len(e) - Len(Root)
        BY <1>2, <1>8, <2>2, WantedIs DEF Tame
      <4>2. ~(m - 1 > c.max_depth)
        BY <1>1 DEF TooDeep, Level, m
      <4> QED BY <1>2, <1>3, <1>8, <4>1, <4>2
    <3>3. Front(e) \in Walked(c)
      <4>1. Front(e) \in Promise(c).wanted
        BY <1>2, <2>3 DEF ShownInv, OnlyFound
      <4> QED BY <4>1, PromiseShape
    <3>4. Promise(c).yields[Front(e)] =
                 IF Front(e) \in (Dirs \cap Walked(c)) \ c.unreadable
                 THEN {x \in Children(Front(e)) \cap Promise(c).wanted :
                          DepthOf(c, x) <= c.max_depth}
                 ELSE {}
      BY <2>4, PromiseShape
    <3> QED BY <1>2, <2>1, <2>3, <3>1, <3>2, <3>3, <3>4
  <2>6. Abstract!Find(Front(e), e)
    <3>1. Abstract!Handled(Front(e))
      BY <2>3 DEF Abstract!Handled
    <3>2. shown' = shown /\ Finished' = Finished
      BY <1>1, <1>14
    <3> QED BY <2>1, <2>4, <2>5, <3>1, <3>2 DEF Abstract!Find, Found
  <2>7. \E d \in Found : \E x \in promise.yields[d] : Abstract!Find(d, x)
    BY <2>4, <2>5, <2>6
  <2>8. UNCHANGED Abstract!request
    BY <1>1 DEF Abstract!request
  <2>9. ~Finished
    BY <1>14
  <2> QED BY ONLY <1>15, <2>7, <2>8, <2>9 DEF AbstractStep, Abstract!Next, Found
<1> QED BY <1>15, <1>17, <1>18

LEMMA ShownLeave ==
    ASSUME WalkInv, ShownInv, Tame(config), Leave
    PROVE  ShownInv' /\ AbstractStep
<1> DEFINE m == Len(open)
<1>1. /\ item = NoItem /\ open # <<>> /\ ~Resting
      /\ Last(open) = {} \/ TooDeep
      /\ open' = Front(open)
      /\ config' = config /\ promise' = promise /\ next' = next /\ shown' = shown
      /\ item' = item /\ pulled' = pulled
  BY GivenNow DEF Leave, Resting, input
<1>2. /\ config \in Configs /\ promise = Promise(config) /\ open \in Seq(SUBSET Paths)
      /\ config.max_depth \in Nat
  BY ConfigAssumption DEF WalkInv
<1>3. m \in Nat \ {0} /\ m \in 1 .. m /\ DOMAIN open = 1 .. m
  BY <1>1, <1>2
<1>4. /\ open' \in Seq(SUBSET Paths) /\ Len(open') = m - 1
      /\ \A j \in 1 .. m - 1 : open'[j] = open[j]
  BY <1>1, <1>2, FrontIs
<1>5. DOMAIN open' = 1 .. m - 1
  BY <1>4
<1>6. Last(open) = open[m]
  BY DEF Last
<1>7. next # 0 /\ ~Finished /\ Finished' = Finished
  BY <1>1, Running
\* Nothing that is asked for waits in a listing that is left.
<1>8. ASSUME NEW y \in open[m], y \in Tree PROVE DepthOf(config, y) > config.max_depth
  <2>1. TooDeep
    BY <1>1, <1>6, <1>8
  <2>2. m - 1 > config.max_depth
    BY <2>1 DEF TooDeep, Level
  <2>3. Root \in RootsOf(config) /\ Len(y) = Len(Root) + m - 1
        /\ Len(Root) \in Nat \ {0} /\ Within(Root, y)
    BY <1>3, WaitingIs
  <2>4. DepthOf(config, y) = Len(y) - Len(Root)
    BY <1>2, <1>8, <2>3, WantedIs DEF Tame
  <2> QED BY <1>2, <1>3, <2>2, <2>3, <2>4
<1>9. ASSUME NEW j \in 1 .. m, NEW y \in open[j], j # m
      PROVE  j \in DOMAIN open' /\ y \in open'[j]
  <2>1. j \in 1 .. m - 1
    BY <1>3, <1>9
  <2> QED BY <1>4, <1>5, <2>1
<1>10. ASSUME NEW y \in open[1] PROVE open' # <<>> /\ y \in open'[1]
  <2>1. m # 1
    <3>1. ASSUME m = 1 PROVE FALSE
      <4>1. TooDeep
        BY <1>1, <1>6, <1>10, <3>1
      <4> QED BY <1>2, <3>1, <4>1 DEF TooDeep, Level
    <3> QED BY <3>1
  <2>2. 1 \in 1 .. m
    BY <1>3
  <2>3. 1 \in DOMAIN open' /\ y \in open'[1]
    BY <1>9, <2>1, <2>2
  <2> QED BY <1>4, <2>3
<1> HIDE DEF m
<1>11. ShownInv'
  <2>1. NothingYet'
    BY <1>1, <1>7 DEF NothingYet
  <2>2. OnlyFound'
    BY <1>1 DEF ShownInv, OnlyFound
  <2>3. AllShown'
    BY <1>1 DEF ShownInv, AllShown, Held
  <2>4. AllListed'
    <3>1. ASSUME NEW d \in shown, NEW y \in promise.yields[d]
          PROVE  y \in pulled \/ \E j \in DOMAIN open' : y \in open'[j]
      <4>1. CASE y \in pulled
        BY <4>1
      <4>2. CASE y \notin pulled
        <5>1. PICK j \in DOMAIN open : y \in open[j]
          BY <4>2 DEF ShownInv, AllListed
        <5>2. d \in Tree
          BY <1>2, YieldsIs DEF ShownInv, OnlyFound
        <5>3. y \in Tree /\ DepthOf(config, y) <= config.max_depth
          BY <1>2, <5>2, YieldsIs
        <5>4. DepthOf(config, y) \in Int
          <6>1. j \in 1 .. Len(open)
            BY <1>3, <5>1 DEF m
          <6>2. Root \in RootsOf(config) /\ Len(Root) \in Nat \ {0} /\ Within(Root, y)
            BY <5>1, <6>1, WaitingIs
          <6>3. Len(y) \in Nat
            BY <5>3, TreePath DEF Paths
          <6> QED BY <1>2, <5>3, <6>2, <6>3, WantedIs DEF Tame
        <5>5. j # m
          BY <1>2, <1>8, <5>1, <5>3, <5>4
        <5> QED BY <1>3, <1>9, <5>1, <5>5
      <4> QED BY <4>1, <4>2
    <3> QED BY <1>1, <3>1 DEF AllListed
  <2>5. RootsMet'
    <3>1. ASSUME NEW i \in DOMAIN config.roots, i < next
          PROVE  \/ config.roots[i] \in config.bad \cup pulled \cup shown
                 \/ open' # <<>> /\ config.roots[i] \in open'[1]
      <4>1. RootMet(config.roots[i])
        BY <3>1 DEF ShownInv, RootsMet
      <4> QED BY <1>10, <4>1 DEF RootMet
    <3> QED BY <1>1, <3>1 DEF RootsMet, RootMet
  <2> QED BY <2>1, <2>2, <2>3, <2>4, <2>5 DEF ShownInv
<1>12. Found' = Found
  BY <1>1 DEF Found
<1> QED BY <1>1, <1>7, <1>11, <1>12, Idle

LEMMA ShownNextRoot ==
    ASSUME WalkInv, ShownInv, Tame(config), NextRoot
    PROVE  ShownInv' /\ AbstractStep
<1> DEFINE r == config.roots[next]
<1>1. /\ next \in 1 .. Len(config.roots) /\ next' = next + 1
      /\ config' = config /\ promise' = promise /\ item' = item /\ item = NoItem
      /\ pulled' = pulled /\ open = <<>>
      /\ IF r = Stdin THEN shown' = shown \cup {Stdin} /\ open' = open
         ELSE shown' = shown /\ open' = <<{r}>>
  BY GivenNow DEF NextRoot, input
<1>2. /\ config \in Configs /\ promise = Promise(config)
      /\ Len(config.roots) \in Nat /\ DOMAIN config.roots = 1 .. Len(config.roots)
  BY PathAssumption DEF WalkInv
<1>3. next # 0 /\ next' # 0 /\ ~Finished /\ ~Finished'
  BY <1>1, <1>2 DEF Finished
<1>4. r \in RootsOf(config)
  BY <1>1, <1>2 DEF RootsOf, ToSet
<1>5. r \in Tree /\ r \in promise.shows /\ (r \notin config.bad <=> r \in promise.wanted)
  BY <1>2, <1>4, RootsWanted DEF Tame
<1>6. r = Stdin => r \in promise.wanted
  <2>1. Stdin \notin config.bad
    BY <1>2, ConfigAssumption
  <2> QED BY <1>5, <2>1
<1> HIDE DEF r
<1>7. Found = promise.wanted \cap (RootsOf(config) \cup pulled) /\ Found' = Found
  BY <1>1, <1>3 DEF Found
<1>8. ShownInv'
  <2>1. NothingYet'
    BY <1>3 DEF NothingYet
  <2>2. OnlyFound'
    BY <1>1, <1>4, <1>6 DEF ShownInv, OnlyFound
  <2>3. AllShown'
    BY <1>1 DEF ShownInv, AllShown, Held, NoItem
  <2>4. AllListed'
    <3>1. \A y \in promise.yields[Stdin] : FALSE
      BY <1>2, YieldsIs, ConfigAssumption
    <3>2. \A d \in shown' : d \in shown \/ d = Stdin
      BY <1>1
    <3>3. \A d \in shown : \A y \in promise.yields[d] : y \in pulled
      BY <1>1 DEF ShownInv, AllListed
    <3> QED BY <1>1, <3>1, <3>2, <3>3 DEF AllListed
  <2>5. RootsMet'
    <3>1. ASSUME NEW i \in DOMAIN config.roots, i < next'
          PROVE  \/ config.roots[i] \in config.bad \cup pulled \cup shown'
                 \/ open' # <<>> /\ config.roots[i] \in open'[1]
      <4>1. CASE i = next
        BY <1>1, <4>1 DEF r
      <4>2. CASE i # next
        <5>1. i < next
          BY <1>1, <1>2, <3>1, <4>2
        <5>2. RootMet(config.roots[i])
          BY <5>1 DEF ShownInv, RootsMet
        <5> QED BY <1>1, <5>2 DEF RootMet
      <4> QED BY <4>1, <4>2
    <3> QED BY <1>1, <3>1 DEF RootsMet, RootMet
  <2> QED BY <2>1, <2>2, <2>3, <2>4, <2>5 DEF ShownInv
<1>9. Finished' = Finished
  BY <1>3 DEF Finished
<1>10. CASE r = Stdin
  <2>1. Stdin \in Tree /\ Stdin \in Found /\ Stdin \in promise.shows
    BY <1>4, <1>5, <1>6, <1>7, <1>10
  <2>2. shown' = shown \cup {Stdin} /\ config' = config /\ promise' = promise
    BY <1>1, <1>10
  <2> QED BY ONLY <1>3, <1>7, <1>8, <1>9, <2>1, <2>2, Visits
<1>11. CASE r # Stdin
  <2>1. shown' = shown /\ config' = config /\ promise' = promise
    BY <1>1, <1>11
  <2> QED BY ONLY <1>7, <1>8, <1>9, <2>1, Idle
<1> QED BY <1>10, <1>11

LEMMA ShownExit ==
    ASSUME WalkInv, ShownInv, Exit
    PROVE  ShownInv' /\ AbstractStep
<1>1. /\ config' = config /\ promise' = promise /\ next' = next /\ item' = item
      /\ pulled' = pulled /\ open' = open /\ shown' = shown
  BY GivenNow DEF Exit, input
<1>2. ~Resting
  BY WalkExit DEF Exit
<1>3. next # 0 /\ ~Finished /\ Finished' = Finished
  BY <1>1, <1>2, Running
<1>4. ShownInv'
  BY <1>1, <1>3, ShownKept
<1>5. Found' = Found
  BY <1>1 DEF Found
<1> QED BY <1>1, <1>3, <1>4, <1>5, Idle

LEMMA ShownErrorEvent ==
    ASSUME WalkInv, ShownInv, ErrorEvent
    PROVE  ShownInv' /\ AbstractStep
<1>1. /\ config' = config /\ promise' = promise /\ next' = next
      /\ item.kind = "error" /\ item # NoItem /\ ~LeavesDir
      /\ pulled' = pulled /\ open' = open /\ shown' = shown
  BY GivenNow DEF ErrorEvent, Ready, input, NoItem
<1>2. ~Resting
  BY <1>1 DEF Resting
<1>3. next # 0 /\ ~Finished /\ Finished' = Finished
  BY <1>1, <1>2, Running
<1>4. ShownInv'
  BY <1>1, <1>3, ShownKept
<1>5. Found' = Found
  BY <1>1 DEF Found
<1> QED BY <1>1, <1>3, <1>4, <1>5, Idle

LEMMA ShownFileEvent ==
    ASSUME WalkInv, ShownInv, Tame(config), FileEvent
    PROVE  ShownInv' /\ AbstractStep
<1> DEFINE p == item.path
<1>1. /\ Ready("entry") /\ p \notin Dirs /\ item'.kind = "none"
      /\ config' = config /\ promise' = promise /\ next' = next
      /\ pulled' = pulled /\ open' = open
      /\ shown' = IF SkipEntry(p) = "keep" THEN shown \cup {p} ELSE shown
  BY GivenNow DEF FileEvent, input, NoItem, Given
<1>2. ~Resting /\ p \in Tree /\ p \in pulled
  BY <1>1, ReadyEntry
<1>3. (SkipEntry(p) = "keep" <=> p \in promise.wanted) /\ p \in promise.shows
  BY <1>1, SkipExact DEF Tame
<1>4. config \in Configs /\ promise = Promise(config)
  BY DEF WalkInv
<1>5. next # 0 /\ ~Finished /\ Finished' = Finished
  BY <1>1, <1>2, Running
<1>6. Found = promise.wanted \cap (RootsOf(config) \cup pulled) /\ Found' = Found
  BY <1>1, <1>5 DEF Found
<1>7. shown' = IF p \in promise.wanted THEN shown \cup {p} ELSE shown
  BY <1>1, <1>3
<1> HIDE DEF p
<1>8. ShownInv'
  <2>1. NothingYet'
    BY <1>1, <1>5 DEF NothingYet
  <2>2. OnlyFound'
    BY <1>1, <1>2, <1>7 DEF ShownInv, OnlyFound
  <2>3. AllShown'
    <3>1. \A e \in promise.wanted \cap pulled : e \in shown \/ e = p
      BY DEF ShownInv, AllShown, Held, p
    <3> QED BY <1>1, <1>7, <3>1 DEF AllShown
  <2>4. AllListed'
    <3>1. \A y \in promise.yields[p] : FALSE
      BY <1>1, <1>2, <1>4, YieldsIs DEF p
    <3>2. \A d \in shown' : d \in shown \/ d = p
      BY <1>7
    <3> QED BY <1>1, <3>1, <3>2 DEF ShownInv, AllListed
  <2>5. RootsMet'
    <3>1. shown \subseteq shown'
      BY <1>7
    <3> QED BY <1>1, <3>1 DEF ShownInv, RootsMet, RootMet
  <2> QED BY <2>1, <2>2, <2>3, <2>4, <2>5 DEF ShownInv
<1>9. config' = config /\ promise' = promise
  BY <1>1
<1>10. CASE p \in promise.wanted
  <2>1. p \in Found /\ p \in promise.shows /\ p \in Tree /\ shown' = shown \cup {p}
    BY <1>2, <1>3, <1>6, <1>7, <1>10 DEF p
  <2> QED BY ONLY <1>5, <1>6, <1>8, <1>9, <2>1, Visits
<1>11. CASE p \notin promise.wanted
  <2>1. shown' = shown
    BY <1>7, <1>11
  <2> QED BY ONLY <1>5, <1>6, <1>8, <1>9, <2>1, Idle
<1> QED BY <1>10, <1>11

LEMMA ShownDirEvent ==
    ASSUME WalkInv, ShownInv, Tame(config), DirEvent
    PROVE  ShownInv' /\ AbstractStep
<1> DEFINE p == item.path
           m == Len(open)
<1>1. /\ Ready("entry") /\ p \in Dirs /\ item'.kind = "none"
      /\ config' = config /\ promise' = promise /\ next' = next
      /\ pulled' = pulled
      /\ open' = OpenAfter(SkipEntry(p))
      /\ shown' = IF SkipEntry(p) = "keep" THEN shown \cup {p} ELSE shown
  BY GivenNow DEF DirEvent, input, NoItem, Given
<1>2. /\ ~Resting /\ p \in Tree /\ p \in pulled /\ open # <<>>
      /\ m = depth + 2 /\ depth \in Nat
      /\ depth = 0 => p = Root
      /\ Last(open) = Lists(config, p)
  BY <1>1, ReadyEntry
<1>3. (SkipEntry(p) = "keep" <=> p \in promise.wanted) /\ p \in promise.shows
  BY <1>1, SkipExact DEF Tame
<1>4. SkipEntry(p) \in {"keep", "skip"}
  <2>1. p \notin config.unclear
    BY <1>1 DEF Tame, Regular
  <2> QED BY <2>1 DEF SkipEntry
<1>5. config \in Configs /\ promise = Promise(config) /\ open \in Seq(SUBSET Paths)
  BY DEF WalkInv
<1>6. next # 0 /\ ~Finished /\ Finished' = Finished
  BY <1>1, <1>2, Running
<1>7. Found = promise.wanted \cap (RootsOf(config) \cup pulled) /\ Found' = Found
  BY <1>1, <1>6 DEF Found
<1>8. IF p \in promise.wanted THEN shown' = shown \cup {p} /\ open' = open
      ELSE shown' = shown /\ open' = Front(open)
  BY <1>1, <1>3, <1>4 DEF OpenAfter
<1>9. m \in Nat /\ m > 1 /\ m \in 1 .. m /\ DOMAIN open = 1 .. m /\ Last(open) = open[m]
  BY <1>2, <1>5 DEF Last
<1>10. HoldsDir(item)
  BY <1>1 DEF HoldsDir, Ready
<1>11. p \notin promise.wanted =>
         /\ DOMAIN open' = 1 .. m - 1 /\ open' # <<>>
         /\ \A j \in 1 .. m - 1 : open'[j] = open[j]
  <2>1. /\ Front(open) \in Seq(SUBSET Paths) /\ Len(Front(open)) = m - 1
        /\ \A j \in 1 .. m - 1 : Front(open)[j] = open[j]
    BY <1>2, <1>5, FrontIs
  <2>2. DOMAIN Front(open) = 1 .. m - 1 /\ Front(open) # <<>>
    BY <1>9, <2>1
  <2> QED BY <1>8, <2>1, <2>2
<1>12. shown \subseteq promise.wanted
  BY DEF ShownInv, OnlyFound
\* A listing that is dropped has nothing that was asked for.
<1>13. ASSUME NEW d \in shown, NEW y \in promise.yields[d], y \in open[m]
       PROVE  d = p
  <2>1. d \in Tree
    BY <1>5, <1>12, YieldsIs
  <2>2. Front(y) = d
    BY <1>5, <2>1, YieldsIs
  <2>3. Front(y) = p
    BY <1>9, <1>10, <1>13, WaitingIs
  <2> QED BY <2>2, <2>3
<1>14. p \in promise.wanted => \A y \in promise.yields[p] : y \in open[m]
  <2>1. ASSUME NEW y \in promise.yields[p] PROVE y \in Lists(config, p)
    <3>1. p \notin config.unreadable /\ y \in Tree \ {Stdin} /\ y # <<>> /\ Front(y) = p
      BY <1>2, <1>5, YieldsIs
    <3> QED BY <3>1 DEF Lists, Children
  <2> QED BY <1>2, <1>9, <2>1
<1> HIDE DEF p, m
<1>15. ShownInv'
  <2>1. NothingYet'
    BY <1>1, <1>6 DEF NothingYet
  <2>2. OnlyFound'
    BY <1>1, <1>2, <1>8 DEF ShownInv, OnlyFound, p
  <2>3. AllShown'
    <3>1. \A e \in promise.wanted \cap pulled : e \in shown \/ e = p
      BY DEF ShownInv, AllShown, Held, p
    <3> QED BY <1>1, <1>8, <3>1 DEF AllShown
  <2>4. AllListed'
    <3>1. ASSUME NEW d \in shown, NEW y \in promise.yields[d]
          PROVE  y \in pulled \/ \E j \in DOMAIN open' : y \in open'[j]
      <4>1. CASE p \in promise.wanted
        BY <1>8, <4>1 DEF ShownInv, AllListed
      <4>2. CASE p \notin promise.wanted
        <5>1. CASE y \in pulled
          BY <5>1
        <5>2. CASE y \notin pulled
          <6>1. PICK j \in DOMAIN open : y \in open[j]
            BY <5>2 DEF ShownInv, AllListed
          <6>2. j # m
            BY <1>12, <1>13, <4>2, <6>1
          <6>3. j \in 1 .. m - 1
            BY <1>9, <6>1, <6>2
          <6> QED BY <1>11, <4>2, <6>1, <6>3
        <5> QED BY <5>1, <5>2
      <4> QED BY <4>1, <4>2
    <3>2. ASSUME p \in promise.wanted, NEW y \in promise.yields[p]
          PROVE  \E j \in DOMAIN open' : y \in open'[j]
      BY <1>8, <1>9, <1>14, <3>2
    <3>3. \A d \in shown' : d \in shown \/ (d = p /\ p \in promise.wanted)
      BY <1>8
    <3> QED BY <1>1, <3>1, <3>2, <3>3 DEF AllListed
  <2>5. RootsMet'
    <3>1. shown \subseteq shown' /\ open' # <<>> /\ open'[1] = open[1]
      <4>1. CASE p \in promise.wanted
        BY <1>2, <1>8, <4>1
      <4>2. CASE p \notin promise.wanted
        <5>1. 1 \in 1 .. m - 1
          BY <1>9
        <5> QED BY <1>8, <1>11, <4>2, <5>1
      <4> QED BY <4>1, <4>2
    <3> QED BY <1>1, <3>1 DEF ShownInv, RootsMet, RootMet
  <2> QED BY <2>1, <2>2, <2>3, <2>4, <2>5 DEF ShownInv
<1>16. config' = config /\ promise' = promise
  BY <1>1
<1>17. CASE p \in promise.wanted
  <2>1. p \in Found /\ p \in promise.shows /\ p \in Tree /\ shown' = shown \cup {p}
    BY <1>2, <1>3, <1>7, <1>8, <1>17 DEF p
  <2> QED BY ONLY <1>6, <1>7, <1>15, <1>16, <2>1, Visits
<1>18. CASE p \notin promise.wanted
  <2>1. shown' = shown
    BY <1>8, <1>18
  <2> QED BY ONLY <1>6, <1>7, <1>15, <1>16, <2>1, Idle
<1> QED BY <1>17, <1>18

LEMMA ShownStep ==
    ASSUME WalkInv, ShownInv, Tame(config), [Next]_vars
    PROVE  ShownInv' /\ AbstractStep
<1>1. CASE Build
  BY <1>1, ShownBuild DEF Tame
<1>2. CASE Pull
  BY <1>2, ShownPull
<1>3. CASE Leave
  BY <1>3, ShownLeave
<1>4. CASE NextRoot
  BY <1>4, ShownNextRoot
<1>5. CASE Exit
  BY <1>5, ShownExit
<1>6. CASE DirEvent
  BY <1>6, ShownDirEvent
<1>7. CASE FileEvent
  BY <1>7, ShownFileEvent
<1>8. CASE ErrorEvent
  BY <1>8, ShownErrorEvent
<1>9. CASE NoMoreRoots
  BY <1>9, ShownNoMoreRoots DEF Tame
<1>10. CASE UNCHANGED vars
  <2>1. /\ config' = config /\ promise' = promise /\ next' = next /\ item' = item
        /\ pulled' = pulled /\ open' = open /\ shown' = shown
    BY <1>10, GivenNow DEF vars, input, treeVars
  <2>2. ShownInv'
    BY <2>1 DEF ShownInv, NothingYet, OnlyFound, AllShown, Held, AllListed, RootsMet,
                RootMet
  <2>3. Found' = Found /\ Finished' = Finished
    BY <2>1 DEF Found, Finished
  <2> QED BY ONLY <2>1, <2>2, <2>3, Idle
<1>11. CASE End
  BY <1>10, <1>11 DEF End
<1> QED BY <1>1, <1>2, <1>3, <1>4, <1>5, <1>6, <1>7, <1>8, <1>9, <1>10, <1>11 DEF Next

-----------------------------------------------------------------------------
(* Once.  What waits, what is held back and what has been given of the     *)
(* current root do not lie on one another's way: no listing leads back.    *)

\* No two entries of listings lie on one way, and none is listed twice.
Separate(lists) ==
    \A j, k \in DOMAIN lists : \A e \in lists[j], x \in lists[k] :
        Within(e, x) => e = x /\ j = k
\* No given entry lies at or below e.
Ungiven(e) == \A x \in Paths : <<next - 1, x>> \in given => ~Within(e, x)
Ahead == \A j \in DOMAIN open : \A e \in open[j] :
            Ungiven(e) /\ (item.kind = "entry" => ~Within(e, item.path))
OnceTypes ==
    /\ config \in Configs /\ next \in Nat /\ open \in Seq(SUBSET Paths)
    /\ given \subseteq (1 .. next - 1) \X Paths
    /\ item.kind = "entry" => item.path \in Paths
    /\ open # <<>> \/ item # NoItem => next >= 2
OnceInv ==
    /\ OnceTypes /\ Separate(open) /\ Ahead
    /\ item.kind = "entry" => Ungiven(item.path)

\* What an entry lists lies below it.
Listed(e, new) == \A x \in new : Len(x) = Len(e) + 1 /\ Within(e, x)
\* An entry is taken from a listing, and what it lists may be added.
Taken(lists, m, e, new, lists2) ==
    \A j \in DOMAIN lists2 :
        \/ /\ j \in DOMAIN lists /\ lists2[j] \subseteq lists[j]
           /\ j = m => e \notin lists2[j]
        \/ j \notin DOMAIN lists /\ j = Len(lists) + 1 /\ lists2[j] \subseteq new

\* Taking an entry from a listing, and what it lists instead, keeps listings
\* separate, and leaves nothing on the way of that entry.
LEMMA PulledApart ==
    ASSUME NEW lists \in Seq(SUBSET Paths), Separate(lists),
           NEW m \in DOMAIN lists, NEW e \in lists[m], NEW new \in SUBSET Paths,
           Listed(e, new),
           NEW lists2 \in Seq(SUBSET Paths), Taken(lists, m, e, new, lists2)
    PROVE  /\ Separate(lists2)
           /\ \A j \in DOMAIN lists2 : \A x \in lists2[j] :
                /\ ~Within(x, e)
                /\ \E k \in DOMAIN lists : \E y \in lists[k] : Within(y, x)
<1>1. \A p \in Paths : p \in Seq(Names) /\ Len(p) \in Nat
  BY DEF Paths
<1>2. \A j \in DOMAIN lists : lists[j] \subseteq Paths
  OBVIOUS
<1>3. e \in Paths /\ Len(e) \in Nat
  BY <1>1, <1>2
<1>4. ASSUME NEW j \in DOMAIN lists2, NEW x \in lists2[j], x \notin new
      PROVE  j \in DOMAIN lists /\ x \in lists[j] /\ (j = m => x # e)
  BY <1>4 DEF Taken
<1>5. ASSUME NEW j \in DOMAIN lists2, NEW x \in lists2[j], x \notin new
      PROVE  ~Within(x, e) /\ ~Within(e, x) /\ x \in Paths
  <2>1. j \in DOMAIN lists /\ x \in lists[j] /\ ~(j = m /\ x = e)
    BY <1>4, <1>5
  <2> QED BY <2>1, <1>2 DEF Separate
<1>6. ASSUME NEW x \in new PROVE ~Within(x, e) /\ Within(e, x) /\ Len(x) = Len(e) + 1
  <2>1. Len(x) = Len(e) + 1 /\ Within(e, x)
    BY DEF Listed
  <2> QED BY <2>1, <1>3 DEF Within
<1>8. ASSUME NEW j \in DOMAIN lists2, NEW k \in DOMAIN lists2, NEW x \in lists2[j],
             NEW y \in lists2[k], Within(x, y)
      PROVE  x = y /\ j = k
  <2>1. x \in Paths /\ y \in Paths
    OBVIOUS
  <2>2. \A z \in new : z \notin UNION {lists[i] : i \in DOMAIN lists} \/ z = e
    <3>1. ASSUME NEW z \in new, NEW i \in DOMAIN lists, z \in lists[i] PROVE FALSE
      <4>1. Within(e, z) /\ ~Within(z, e)
        BY <1>6
      <4>2. e = z
        BY <3>1, <4>1 DEF Separate
      <4> QED BY <4>1, <4>2
    <3> QED BY <3>1
  <2>3. CASE x \in new /\ y \in new
    <3>1. x = y
      <4>1. Len(x) = Len(y) /\ Len(x) \in Nat /\ Len(y) \in Nat
        BY <2>1, <2>3, <1>1, <1>6
      <4>2. Within(y, y) /\ y \in Seq(Names)
        BY <2>1, <1>1, WithinSelf
      <4> QED BY ONLY <1>8, <4>1, <4>2, WithinBoth
    <3>2. j = Len(lists) + 1
      <4>1. x # e
        BY <1>6, <2>3, <1>3
      <4> QED BY <2>2, <2>3, <4>1 DEF Taken
    <3>3. k = Len(lists) + 1
      <4>1. y # e
        BY <1>6, <2>3, <1>3
      <4> QED BY <2>2, <2>3, <4>1 DEF Taken
    <3> QED BY <3>1, <3>2, <3>3
  <2>4. CASE x \in new /\ y \notin new
    <3>1. Within(e, x) /\ y \in Seq(Names) /\ Len(x) \in Nat
      BY <2>1, <2>4, <1>6, <1>1
    <3>2. Within(e, y)
      BY ONLY <1>3, <1>8, <3>1, WithinTrans
    <3> QED BY <3>2, <2>4, <1>5
  <2>5. CASE x \notin new /\ y \in new
    <3>1. /\ Len(y) = Len(e) + 1 /\ Within(e, y) /\ Within(y, y) /\ y \in Seq(Names)
          /\ Len(x) \in Nat /\ Len(y) \in Nat /\ ~Within(x, e)
      BY <2>1, <2>5, <1>1, <1>5, <1>6, WithinSelf
    <3>2. Len(x) <= Len(y)
      BY <1>8 DEF Within
    <3>3. CASE Len(x) = Len(y)
      <4>1. x = y
        BY ONLY <1>8, <3>1, <3>2, <3>3, WithinBoth
      <4> QED BY <4>1, <2>5
    <3>4. CASE Len(x) <= Len(e)
      <4>1. Within(x, e)
        BY ONLY <1>8, <1>3, <3>1, <3>4, WithinBoth
      <4> QED BY <4>1, <3>1
    <3> QED BY <3>1, <3>2, <3>3, <3>4, <1>3
  <2>6. CASE x \notin new /\ y \notin new
    <3>1. j \in DOMAIN lists /\ k \in DOMAIN lists /\ x \in lists[j] /\ y \in lists[k]
      BY <2>6, <1>4
    <3> QED BY <1>8, <3>1 DEF Separate
  <2> QED BY <2>3, <2>4, <2>5, <2>6
<1>9. Separate(lists2)
  BY <1>8 DEF Separate
<1>10. ASSUME NEW j \in DOMAIN lists2, NEW x \in lists2[j]
       PROVE  \E k \in DOMAIN lists : \E y \in lists[k] : Within(y, x)
  <2>1. CASE x \in new
    BY <2>1, <1>6
  <2>2. CASE x \notin new
    <3>1. j \in DOMAIN lists /\ x \in lists[j] /\ x \in Seq(Names)
      BY <2>2, <1>4, <1>1, <1>2
    <3>2. Within(x, x)
      BY <3>1, WithinSelf
    <3> QED BY <3>1, <3>2
  <2> QED BY <2>1, <2>2
<1>11. ASSUME NEW j \in DOMAIN lists2, NEW x \in lists2[j] PROVE ~Within(x, e)
  BY <1>5, <1>6
<1> QED BY <1>9, <1>10, <1>11

LEMMA OnceInit ==
    ASSUME Init PROVE OnceInv
<1>1. config \in Configs /\ next = 0 /\ open = <<>> /\ given = {} /\ item = NoItem
  BY DEF Init
<1>2. item.kind # "entry" /\ open \in Seq(SUBSET Paths) /\ DOMAIN open = {}
  BY <1>1 DEF NoItem
<1> QED BY <1>1, <1>2 DEF OnceInv, OnceTypes, Separate, Ahead

LEMMA OncePull ==
    ASSUME OnceInv, Pull PROVE OnceInv'
<1>1. /\ item = NoItem /\ open # <<>> /\ open \in Seq(SUBSET Paths) /\ next >= 2
      /\ config \in Configs /\ next \in Nat /\ given \subseteq (1 .. next - 1) \X Paths
      /\ Separate(open) /\ Ahead
  BY DEF Pull, OnceInv, OnceTypes
<1>2. /\ config' = config /\ next' = next /\ given' = given
  BY DEF Pull, input
<1>3. PICK e \in Last(open) :
        LET rest == Append(Front(open), Last(open) \ {e})
            fails == Last(e) = Trouble \/ e \in config.bad
        IN  /\ open' = IF e \in Dirs /\ ~fails THEN Append(rest, Listing(e)) ELSE rest
            /\ item' = CASE Last(e) = Trouble -> Failure(e, Level - 1)
                         [] e \in config.bad -> Failure(e, Level)
                         [] Level < config.min_depth /\ ~fails -> NoItem
                         [] OTHER -> Entry(e, Level)
  BY DEF Pull
<1> DEFINE m == Len(open)
           rest == Append(Front(open), Last(open) \ {e})
           new == IF e \in Dirs THEN Lists(config, e) ELSE {}
<1>4. /\ m \in DOMAIN open /\ m \in Nat \ {0} /\ DOMAIN open = 1 .. m
      /\ Last(open) = open[m] /\ open[m] \in SUBSET Paths
  <2>1. m \in Nat \ {0} /\ DOMAIN open = 1 .. m /\ Last(open) = open[m]
    BY <1>1 DEF Last
  <2>2. m \in DOMAIN open
    BY <2>1
  <2> QED BY <1>1, <2>1, <2>2
<1>5. /\ rest \in Seq(SUBSET Paths) /\ Len(rest) = m /\ rest # <<>>
      /\ rest[m] = open[m] \ {e}
      /\ \A j \in 1 .. m - 1 : rest[j] = open[j]
  BY <1>1, <1>4, Innermost
<1>6. e \in Paths /\ e \in open[m]
  BY <1>4
<1>7. new \in SUBSET Paths /\ Listed(e, new)
  BY ListsIs DEF Listed
<1>8. open' = rest \/ open' = Append(rest, new)
  BY <1>3 DEF Listing, Lists
<1> HIDE DEF rest, new, m
<1>9. open' \in Seq(SUBSET Paths)
  BY <1>5, <1>7, <1>8, AppendIs
<1>10. Taken(open, m, e, new, open')
  <2>1. \A j \in 1 .. m : j \in DOMAIN open /\ rest[j] \subseteq open[j] /\ (j = m => e \notin rest[j])
    BY <1>4, <1>5
  <2>2. CASE open' = rest
    <3>1. DOMAIN open' = 1 .. m
      BY <1>5, <2>2
    <3> QED BY <2>1, <2>2, <3>1 DEF Taken
  <2>3. CASE open' = Append(rest, new)
    <3>1. /\ Len(open') = m + 1 /\ open' \in Seq(SUBSET Paths) /\ Last(open') = new
          /\ \A j \in 1 .. m : open'[j] = rest[j]
      BY <1>5, <1>7, <2>3, AppendIs
    <3>2. DOMAIN open' = 1 .. m + 1 /\ open'[m + 1] = new
      BY <3>1 DEF Last
    <3>3. m = Len(open)
      BY DEF m
    <3>4. \A j \in 1 .. m + 1 : j \in 1 .. m \/ (j = m + 1 /\ j \notin DOMAIN open)
      <4>1. m \in Nat /\ DOMAIN open = 1 .. m
        BY <1>4
      <4> QED BY ONLY <4>1
    <3> QED BY <2>1, <3>1, <3>2, <3>3, <3>4 DEF Taken
  <2> QED BY <1>8, <2>2, <2>3
<1>11. PICK lists : lists = open'
  OBVIOUS
<1>12. /\ Separate(lists)
       /\ \A j \in DOMAIN lists : \A x \in lists[j] :
            /\ ~Within(x, e)
            /\ \E k \in DOMAIN open : \E y \in open[k] : Within(y, x)
  <2>1. Taken(open, m, e, new, lists)
    BY <1>10, <1>11
  <2>2. lists \in Seq(SUBSET Paths)
    BY <1>9, <1>11
  <2> QED BY ONLY <1>1, <1>4, <1>6, <1>7, <2>1, <2>2, PulledApart
<1>13. ASSUME NEW x \in Paths, NEW y \in Paths, Within(y, x), Ungiven(y) PROVE Ungiven(x)
  <2>1. ASSUME NEW g \in Paths, <<next - 1, g>> \in given, Within(x, g) PROVE FALSE
    <3>1. g \in Seq(Names) /\ Len(x) \in Nat /\ Len(y) \in Nat
      BY DEF Paths
    <3>2. Within(y, g)
      BY ONLY <1>13, <2>1, <3>1, WithinTrans
    <3> QED BY <1>13, <2>1, <3>2 DEF Ungiven
  <2> QED BY <2>1 DEF Ungiven
<1>14. ASSUME NEW j \in DOMAIN lists, NEW x \in lists[j] PROVE Ungiven(x) /\ x \in Paths
  <2>1. PICK k \in DOMAIN open : \E y \in open[k] : Within(y, x)
    BY <1>12
  <2>3. PICK y \in open[k] : Within(y, x)
    BY <2>1
  <2>2. y \in Paths /\ x \in Paths /\ Ungiven(y)
    BY <1>1, <1>9, <1>11 DEF Ahead
  <2> QED BY <2>3, <2>2, <1>13
<1>15. Ungiven(e)
  BY <1>1, <1>4 DEF Ahead
<1>16. \/ item' = NoItem
       \/ item'.kind = "error"
       \/ item'.kind = "entry" /\ item'.path = e
  BY <1>3 DEF Failure, Entry
<1>17. item'.kind = "entry" => item'.path = e
  BY <1>16 DEF NoItem
<1>18. \A x : Ungiven(x)' <=> \A g \in Paths : <<next - 1, g>> \in given => ~Within(x, g)
  BY <1>2 DEF Ungiven
<1>19. Ahead'
  BY <1>11, <1>12, <1>14, <1>17, <1>18 DEF Ahead, Ungiven
<1>20. item'.kind = "entry" => Ungiven(item.path)'
  BY <1>2, <1>15, <1>17 DEF Ungiven
<1>21. OnceTypes' /\ Separate(open)'
  BY <1>1, <1>2, <1>6, <1>9, <1>11, <1>12, <1>17 DEF OnceTypes
<1> QED BY <1>19, <1>20, <1>21 DEF OnceInv

\* Steps that list nothing more.
LEMMA OnceKept ==
    ASSUME OnceInv, config' = config, next' = next, item' = NoItem \/ item' = item,
           open' = open \/ (open # <<>> /\ open' = Front(open)),
           given' = given
    PROVE  OnceInv'
<1>1. /\ open \in Seq(SUBSET Paths) /\ OnceTypes /\ Separate(open) /\ Ahead
      /\ item.kind = "entry" => Ungiven(item.path)
  BY DEF OnceInv, OnceTypes
<1>2. /\ open' \in Seq(SUBSET Paths)
      /\ \A j \in DOMAIN open' : j \in DOMAIN open /\ open'[j] = open[j]
  <2>1. CASE open' = open
    BY <1>1, <2>1
  <2>2. CASE open # <<>> /\ open' = Front(open)
    <3>1. /\ open' \in Seq(SUBSET Paths) /\ Len(open') = Len(open) - 1
          /\ Len(open) \in Nat \ {0}
          /\ \A j \in 1 .. Len(open) - 1 : open'[j] = open[j]
      BY <1>1, <2>2, FrontIs
    <3> QED BY <1>1, <2>2, <3>1
  <2> QED BY <2>1, <2>2
<1>3. item'.kind = "entry" => item' = item
  BY DEF NoItem
<1>4. OnceTypes'
  BY <1>1, <1>2, <1>3 DEF OnceTypes
<1>5. Separate(open)'
  BY <1>1, <1>2 DEF Separate
<1>6. Ahead'
  BY <1>1, <1>2, <1>3 DEF Ahead, Ungiven
<1>7. item'.kind = "entry" => Ungiven(item.path)'
  BY <1>1, <1>3 DEF Ungiven
<1> QED BY <1>4, <1>5, <1>6, <1>7 DEF OnceInv

\* An entry is given, and nothing that waits lies on its way.
LEMMA OnceGiven ==
    ASSUME OnceInv, config' = config, next' = next, Ready("entry"),
           item' = NoItem, open' = open \/ (open # <<>> /\ open' = Front(open)),
           given' = given \cup {<<next - 1, item.path>>}
    PROVE  OnceInv'
<1>1. /\ open \in Seq(SUBSET Paths) /\ OnceTypes /\ Separate(open) /\ Ahead
      /\ item.kind = "entry" /\ item.path \in Paths /\ next >= 2 /\ next \in Nat
  BY DEF OnceInv, OnceTypes, Ready, NoItem
<1>2. /\ open' \in Seq(SUBSET Paths)
      /\ \A j \in DOMAIN open' : j \in DOMAIN open /\ open'[j] = open[j]
  <2>1. CASE open' = open
    BY <1>1, <2>1
  <2>2. CASE open # <<>> /\ open' = Front(open)
    <3>1. /\ open' \in Seq(SUBSET Paths) /\ Len(open') = Len(open) - 1
          /\ Len(open) \in Nat \ {0}
          /\ \A j \in 1 .. Len(open) - 1 : open'[j] = open[j]
      BY <1>1, <2>2, FrontIs
    <3> QED BY <1>1, <2>2, <3>1
  <2> QED BY <2>1, <2>2
<1>3. item'.kind # "entry"
  BY DEF NoItem
<1>4. given' \subseteq (1 .. next' - 1) \X Paths
  <2>1. next - 1 \in 1 .. next - 1 /\ given \subseteq (1 .. next - 1) \X Paths
    BY <1>1 DEF OnceTypes
  <2> QED BY <1>1, <2>1
<1>5. OnceTypes'
  BY <1>1, <1>2, <1>3, <1>4 DEF OnceTypes
<1>6. Separate(open)'
  BY <1>1, <1>2 DEF Separate
<1>7. Ahead'
  <2>1. ASSUME NEW j \in DOMAIN open', NEW e \in open'[j], NEW x \in Paths,
               <<next - 1, x>> \in given', Within(e, x)
        PROVE  FALSE
    <3>1. /\ Ungiven(e) /\ ~Within(e, item.path)
      BY <1>1, <1>2 DEF Ahead
    <3>2. <<next - 1, x>> \in given \/ x = item.path
      BY <2>1
    <3> QED BY <2>1, <3>1, <3>2 DEF Ungiven
  <2> QED BY <1>3, <2>1 DEF Ahead, Ungiven
<1> QED BY <1>3, <1>5, <1>6, <1>7 DEF OnceInv

\* The next root: it waits alone, and nothing has been given of it.
LEMMA OnceNextRoot ==
    ASSUME OnceInv, NextRoot PROVE OnceInv'
<1> DEFINE r == config.roots[next]
<1>1. /\ OnceTypes /\ config \in Configs /\ config.roots \in Seq(Tree)
      /\ next \in 1 .. Len(config.roots) /\ next' = next + 1
      /\ config' = config /\ item' = NoItem /\ item = NoItem /\ open = <<>>
  BY PathAssumption DEF NextRoot, OnceInv, OnceTypes, input
<1>2. next \in Nat /\ next >= 1 /\ next' \in Nat /\ next' >= 2 /\ next' - 1 = next
  <2>1. Len(config.roots) \in Nat
    BY <1>1
  <2> QED BY <1>1, <2>1
<1>3. r \in Paths
  BY <1>1, TreePath
<1>4. /\ given' = given \/ given' = given \cup {<<next, r>>}
      /\ open' = <<>> \/ open' = <<{r}>>
      /\ open' # <<>> => given' = given
  BY <1>1 DEF NextRoot
<1> HIDE DEF r
<1>5. given' \subseteq (1 .. next' - 1) \X Paths
  <2>1. given \subseteq (1 .. next - 1) \X Paths /\ 1 .. next - 1 \subseteq 1 .. next
        /\ next \in 1 .. next
    BY <1>1, <1>2 DEF OnceTypes
  <2>2. given' \subseteq (1 .. next) \X Paths
    BY <1>3, <1>4, <2>1
  <2> QED BY <1>2, <2>2
<1>6. /\ open' \in Seq(SUBSET Paths)
      /\ \A j \in DOMAIN open' : j = 1 /\ open' = <<{r}>> /\ open'[j] = {r}
  <2>1. CASE open' = <<>>
    BY <2>1
  <2>2. CASE open' = <<{r}>>
    <3>1. {r} \in SUBSET Paths
      BY <1>3
    <3>2. open' \in Seq(SUBSET Paths) /\ DOMAIN open' = {1} /\ open'[1] = {r}
      BY <2>2, <3>1
    <3> QED BY <2>2, <3>2
  <2> QED BY <1>4, <2>1, <2>2
<1>7. item'.kind # "entry"
  BY <1>1 DEF NoItem
<1>8. \A x : <<next, x>> \notin given
  <2>1. next \notin 1 .. next - 1
    BY <1>2
  <2> QED BY <1>1, <2>1 DEF OnceTypes
<1>9. OnceTypes'
  BY <1>1, <1>2, <1>5, <1>6, <1>7 DEF OnceTypes
<1>10. Separate(open)'
  BY <1>6 DEF Separate
<1>11. Ahead'
  <2>1. ASSUME NEW j \in DOMAIN open', NEW e \in open'[j], NEW x \in Paths
        PROVE  <<next' - 1, x>> \notin given'
    <3>1. given' = given
      BY <1>4, <1>6
    <3> QED BY <1>2, <1>8, <3>1
  <2> QED BY <1>7, <2>1 DEF Ahead, Ungiven
<1> QED BY <1>7, <1>9, <1>10, <1>11 DEF OnceInv

LEMMA OnceBetween ==
    ASSUME OnceInv, open = <<>>, item = NoItem, UNCHANGED <<config, open, item, given>>,
           next' = next + 1
    PROVE  OnceInv'
<1>1. OnceTypes /\ next \in Nat
  BY DEF OnceInv, OnceTypes
<1>2. item'.kind # "entry" /\ DOMAIN open' = {} /\ next' \in Nat
  BY <1>1 DEF NoItem
<1>3. 1 .. next - 1 \subseteq 1 .. next' - 1
  BY <1>1
<1>4. OnceTypes'
  BY <1>1, <1>2, <1>3 DEF OnceTypes
<1> QED BY <1>2, <1>4 DEF OnceInv, Separate, Ahead

LEMMA OnceStep ==
    ASSUME OnceInv, [Next]_vars PROVE OnceInv'
<1>1. CASE Build
  <2>1. item = NoItem /\ open = <<>>
    <3>1. next = 0 /\ OnceTypes
      BY <1>1 DEF Build, OnceInv
    <3> QED BY <3>1 DEF OnceTypes
  <2> QED BY <1>1, <2>1, OnceBetween DEF Build, input, treeVars
<1>2. CASE Pull
  BY <1>2, OncePull
<1>3. CASE Leave
  BY <1>3, OnceKept DEF Leave, input
<1>4. CASE NextRoot
  BY <1>4, OnceNextRoot
<1>5. CASE Exit
  BY <1>5, OnceKept DEF Exit, input
<1>6. CASE DirEvent
  <2>1. /\ Ready("entry") /\ item' = NoItem /\ config' = config /\ next' = next
        /\ given' = given \/ given' = given \cup {<<next - 1, item.path>>}
        /\ open' = open \/ open' = Front(open)
    BY <1>6 DEF DirEvent, Given, OpenAfter, input
  <2>2. open = <<>> => Front(open) = open
    BY DEF Front
  <2> QED BY ONLY OnceInv, <2>1, <2>2, OnceKept, OnceGiven
<1>7. CASE FileEvent
  BY <1>7, OnceKept, OnceGiven DEF FileEvent, Given, input
<1>8. CASE ErrorEvent
  BY <1>8, OnceKept DEF ErrorEvent, input
<1>9. CASE NoMoreRoots
  BY <1>9, OnceBetween DEF NoMoreRoots, input, treeVars
<1>10. CASE UNCHANGED vars
  BY <1>10, OnceKept DEF vars, input, treeVars
<1>11. CASE End
  BY <1>10, <1>11 DEF End
<1> QED BY <1>1, <1>2, <1>3, <1>4, <1>5, <1>6, <1>7, <1>8, <1>9, <1>10, <1>11 DEF Next

\* Walk::next returns no entry a second time while it walks a root: whatever
\* the tree, the rules, the filters and the order of the listings.
THEOREM SerialShownOnceCorrect == Spec => []ShownOnce
<1>1. Init => OnceInv
  BY OnceInit
<1>2. OnceInv /\ [Next]_vars => OnceInv'
  BY OnceStep
<1>3. OnceInv => ShownOnce
  <2>1. SUFFICES ASSUME OnceInv, Ready("entry"), <<next - 1, item.path>> \in given
                 PROVE  FALSE
    BY DEF ShownOnce
  <2>2. item.kind = "entry" /\ item.path \in Paths /\ Ungiven(item.path)
    BY <2>1 DEF OnceInv, OnceTypes, Ready
  <2>3. Within(item.path, item.path)
    BY <2>2, WithinSelf DEF Paths
  <2> QED BY <2>1, <2>2, <2>3 DEF Ungiven
<1> QED BY <1>1, <1>2, <1>3, PTL DEF Spec

\* Every step of Walk::next and of walkdir is one of the abstract walk or none:
\* nothing is shown that is to be skipped, nothing that is to be shown is
\* dropped with what else a listing held, and the iterator does not end early.
\* And while a root is walked nothing is shown again.
THEOREM SerialImplementsTreeWalk ==
    Regular(config) /\ Apart(config) /\ Filtered(config) /\ Spec =>
        Abstract!Safety /\ []ShownOnce
<1> DEFINE Inv == Tame(config) /\ WalkInv /\ ShownInv
<1>1. Tame(config) /\ Init => Inv /\ Abstract!Init
  BY WalkInit, ShownInit
<1>2. Inv /\ [Next]_vars => Inv' /\ AbstractStep
  <2>1. SUFFICES ASSUME Inv, [Next]_vars PROVE Inv' /\ AbstractStep
    OBVIOUS
  <2>2. ShownInv' /\ AbstractStep
    BY <2>1, ShownStep
  <2>3. WalkInv'
    BY <2>1, WalkStep DEF Tame
  <2>4. Tame(config)'
    BY <2>1, SameConfig
  <2> QED BY <2>2, <2>3, <2>4
<1>3. Regular(config) /\ Apart(config) /\ Filtered(config) => Tame(config)
  BY DEF Tame
<1>4. AbstractStep => [Abstract!Next]_(Abstract!vars)
  BY DEF AbstractStep
<1> QED BY <1>1, <1>2, <1>3, <1>4, SerialShownOnceCorrect, PTL DEF Spec, Abstract!Safety
=============================================================================
