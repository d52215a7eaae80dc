------------------------- MODULE CommandLineProofs -------------------------
(***************************************************************************)
(* Proofs about the command line: ripgrep is configured with what its      *)
(* arguments mean, flags that exclude each other are never both in effect, *)
(* and standard input is read once; for every command line, every          *)
(* configuration file and every text.                                      *)
(*                                                                         *)
(* The invariant reads the arguments from left to right.  The words before *)
(* the token being parsed followed by those after it are all the words     *)
(* (Reading), and the fields of LowArgs are what the words so far say      *)
(* (Exact, one part for each group of flags that undo one another).  What  *)
(* a flag does is first reduced to those fields (Effect), once for each    *)
(* flag of defs.rs; that the effect of a word keeps the claim is then      *)
(* shown for each part on its own.  Induction over a sequence is by its    *)
(* least counterexample (LeastIn).                                         *)
(***************************************************************************)
EXTENDS CommandLine, FiniteSetTheorems, WellFoundedInduction, TLAPS

-----------------------------------------------------------------------------
(* Where a flag was last given.                                            *)

\* A set of numbers has a least one.
LEMMA LeastIn ==
    ASSUME NEW S \in SUBSET Nat, S # {}
    PROVE  \E x \in S : \A y \in S : x <= y
<1>1. IsWellFoundedOn(OpToRel(<, Nat), Nat)
  BY NatLessThanWellFounded
<1>2. PICK x \in S : \A y \in S : ~(<<y, x>> \in OpToRel(<, Nat))
  BY <1>1, WFMin
<1>3. \A y \in Nat, z \in Nat : y < z => <<y, z>> \in OpToRel(<, Nat)
  BY DEF OpToRel
<1>4. ASSUME NEW y \in S PROVE x <= y
  <2>1. ~(y < x)
    BY <1>2, <1>3
  <2> QED BY <2>1
<1> QED BY <1>4

LEMMA MaxIs ==
    ASSUME NEW n \in Nat, NEW S \in SUBSET (0 .. n), S # {}
    PROVE  MaxOf(S) \in S /\ \A y \in S : y <= MaxOf(S)
<1> DEFINE D == {k \in 0 .. n : n - k \in S}
<1>1. ASSUME NEW y \in S PROVE n - y \in D
  <2>1. y \in 0 .. n /\ n - (n - y) = y
    OBVIOUS
  <2> QED BY <2>1
<1>2. D \in SUBSET Nat /\ D # {}
  <2>1. PICK y \in S : TRUE
    OBVIOUS
  <2>2. n - y \in D
    BY <1>1, <2>1
  <2>3. \A k \in D : k \in Nat
    OBVIOUS
  <2> HIDE DEF D
  <2> QED BY <2>2, <2>3
<1>3. PICK k \in D : \A j \in D : k <= j
  BY <1>2, LeastIn
<1>4. n - k \in S /\ \A y \in S : y <= n - k
  BY <1>1, <1>3
<1> QED BY <1>4 DEF MaxOf

LEMMA MaxOfTwo ==
    ASSUME NEW x \in Nat, NEW y \in Nat
    PROVE  MaxOf({x, y}) = IF x >= y THEN x ELSE y
<1>1. {x, y} \in SUBSET (0 .. (x + y)) /\ {x, y} # {} /\ x + y \in Nat
  OBVIOUS
<1>2. MaxOf({x, y}) \in {x, y} /\ \A z \in {x, y} : z <= MaxOf({x, y})
  BY <1>1, MaxIs
<1> QED BY <1>2

\* Of two sets, the one with the greater maximum.
LEMMA Exceeds ==
    ASSUME NEW n \in Nat, NEW X \in SUBSET (0 .. n), NEW Y \in SUBSET (0 .. n),
           X # {}, Y # {}
    PROVE  MaxOf(X) > MaxOf(Y) <=> \E x \in X : \A y \in Y : x > y
<1>1. MaxOf(X) \in X /\ \A y \in X : y <= MaxOf(X)
  BY MaxIs
<1>2. MaxOf(Y) \in Y /\ \A y \in Y : y <= MaxOf(Y)
  BY MaxIs
<1> DEFINE x == MaxOf(X)
           y == MaxOf(Y)
<1>3. /\ x \in X /\ \A z \in X : z <= x
      /\ y \in Y /\ \A z \in Y : z <= y
  BY <1>1, <1>2
<1> HIDE DEF x, y
<1>4. \A a \in X : a \in Nat
  OBVIOUS
<1>5. \A a \in Y : a \in Nat
  OBVIOUS
<1>6. x > y => \E a \in X : \A b \in Y : a > b
  BY <1>3, <1>4, <1>5
<1>7. (\E a \in X : \A b \in Y : a > b) => x > y
  BY <1>3, <1>4, <1>5
<1>8. x > y <=> \E a \in X : \A b \in Y : a > b
  BY <1>6, <1>7
<1> QED BY <1>8 DEF x, y

LEMMA IndexIn ==
    ASSUME NEW W, NEW ws \in Seq(W), NEW flags, NEW on
    PROVE  IndexOf(ws, flags, on) \in 0 .. Len(ws)
<1> DEFINE S == {0} \cup {i \in 1 .. Len(ws) : ws[i].flag \in flags /\ ws[i].on = on}
<1>1. Len(ws) \in Nat /\ S \in SUBSET (0 .. Len(ws)) /\ S # {}
  OBVIOUS
<1> HIDE DEF S
<1>2. MaxOf(S) \in S
  BY <1>1, MaxIs
<1> QED BY <1>1, <1>2 DEF IndexOf, S

LEMMA IndexAppend ==
    ASSUME NEW W, NEW ws \in Seq(W), NEW w \in W, NEW flags, NEW on
    PROVE  IndexOf(Append(ws, w), flags, on) =
             IF w.flag \in flags /\ w.on = on THEN Len(ws) + 1
             ELSE IndexOf(ws, flags, on)
<1> DEFINE n == Len(ws)
           more == Append(ws, w)
           P(s, i) == s[i].flag \in flags /\ s[i].on = on
           S == {0} \cup {i \in 1 .. n : P(ws, i)}
           T == {0} \cup {i \in 1 .. Len(more) : P(more, i)}
<1>1. /\ n \in Nat /\ Len(more) = n + 1 /\ more[n + 1] = w
      /\ \A i \in 1 .. n : more[i] = ws[i]
  OBVIOUS
<1> HIDE DEF n, more
<1>2. T = IF P(more, n + 1) THEN S \cup {n + 1} ELSE S
  BY <1>1
<1>3. S \in SUBSET (0 .. n) /\ S # {} /\ n + 1 \in Nat
  BY <1>1
<1>4. T \in SUBSET (0 .. (n + 1)) /\ T # {}
  BY <1>1
<1> HIDE DEF S, T
<1>5. MaxOf(T) \in T /\ \A y \in T : y <= MaxOf(T)
  BY <1>3, <1>4, MaxIs
<1>6. CASE P(more, n + 1)
  <2>1. n + 1 \in T /\ \A y \in T : y \in Nat /\ y <= n + 1
    BY <1>1, <1>2, <1>4, <1>6
  <2>2. MaxOf(T) = n + 1
    BY <1>3, <1>5, <2>1
  <2> QED BY <1>1, <1>6, <2>2 DEF IndexOf, T, n, more
<1>7. CASE ~P(more, n + 1)
  BY <1>1, <1>2, <1>7 DEF IndexOf, S, T, n, more
<1> QED BY <1>6, <1>7

\* The same of one flag.
LEMMA LastAppend ==
    ASSUME NEW W, NEW ws \in Seq(W), NEW w \in W, w.on \in BOOLEAN, NEW f
    PROVE  /\ On(ws, f) \in 0 .. Len(ws) /\ Off(ws, f) \in 0 .. Len(ws)
           /\ On(Append(ws, w), f) =
                IF w.flag = f /\ w.on THEN Len(ws) + 1 ELSE On(ws, f)
           /\ Off(Append(ws, w), f) =
                IF w.flag = f /\ ~w.on THEN Len(ws) + 1 ELSE Off(ws, f)
<1>1. On(ws, f) \in 0 .. Len(ws) /\ Off(ws, f) \in 0 .. Len(ws)
  BY IndexIn DEF On, Off
<1>2. (w.on = TRUE <=> w.on) /\ (w.on = FALSE <=> ~w.on)
  BY Zenon
<1>3. \A t : IndexOf(Append(ws, w), {f}, t) =
                IF w.flag \in {f} /\ w.on = t THEN Len(ws) + 1
                ELSE IndexOf(ws, {f}, t)
  BY IndexAppend
<1>4. On(Append(ws, w), f) =
        IF w.flag \in {f} /\ w.on = TRUE THEN Len(ws) + 1 ELSE On(ws, f)
  BY ONLY Zenon, <1>3 DEF On
<1>5. Off(Append(ws, w), f) =
        IF w.flag \in {f} /\ w.on = FALSE THEN Len(ws) + 1 ELSE Off(ws, f)
  BY ONLY Zenon, <1>3 DEF Off
<1> QED BY <1>1, <1>2, <1>4, <1>5

\* What is given last is at the end, and what is given before stays.
LEMMA AppendKeeps ==
    ASSUME NEW W, NEW ws \in Seq(W), NEW w \in W
    PROVE  /\ Append(ws, w) \in Seq(W) /\ Len(ws) \in Nat
           /\ Len(Append(ws, w)) = Len(ws) + 1
           /\ Append(ws, w)[Len(ws) + 1] = w
           /\ \A i \in 1 .. Len(ws) : Append(ws, w)[i] = ws[i]
OBVIOUS

LEMMA PreIn ==
    ASSUME NEW W, NEW ws \in Seq(W)
    PROVE  PreOn(ws) \in 0 .. Len(ws) /\ PreOn(ws) \in Nat
<1> DEFINE P(i) == ws[i].flag = "pre" /\ ws[i].on /\ ws[i].text # ""
           S == {0} \cup {i \in 1 .. Len(ws) : P(i)}
<1>1. Len(ws) \in Nat /\ PreOn(ws) = MaxOf(S)
  BY DEF PreOn
<1> HIDE DEF P
<1>2. S \in SUBSET (0 .. Len(ws)) /\ S # {}
  BY ONLY <1>1
<1> HIDE DEF S
<1>3. MaxOf(S) \in S
  BY <1>1, <1>2, MaxIs
<1>4. \A x \in 0 .. Len(ws) : x \in Nat
  OBVIOUS
<1> QED BY <1>1, <1>2, <1>3, <1>4

LEMMA PreAppend ==
    ASSUME NEW W, NEW ws \in Seq(W), NEW w \in W, w.on \in BOOLEAN
    PROVE  /\ PreOn(ws) \in 0 .. Len(ws)
           /\ PreOn(Append(ws, w)) =
                IF w.flag = "pre" /\ w.on /\ w.text # "" THEN Len(ws) + 1
                ELSE PreOn(ws)
<1> DEFINE n == Len(ws)
           more == Append(ws, w)
           P(s, i) == s[i].flag = "pre" /\ s[i].on /\ s[i].text # ""
           S == {0} \cup {i \in 1 .. n : P(ws, i)}
           T == {0} \cup {i \in 1 .. Len(more) : P(more, i)}
<1>1. /\ n \in Nat /\ Len(more) = n + 1 /\ more[n + 1] = w
      /\ \A i \in 1 .. n : more[i] = ws[i]
  OBVIOUS
<1> HIDE DEF n, more
<1>a. \A i \in 1 .. n : P(more, i) <=> P(ws, i)
  BY <1>1
<1>b. P(more, n + 1) <=> w.flag = "pre" /\ w.on /\ w.text # ""
  BY <1>1
<1> HIDE DEF P
<1>2. T = IF P(more, n + 1) THEN S \cup {n + 1} ELSE S
  BY <1>1, <1>a
<1>3. S \in SUBSET (0 .. n) /\ S # {} /\ n + 1 \in Nat
  BY <1>1
<1>4. T \in SUBSET (0 .. (n + 1)) /\ T # {}
  BY <1>1
<1> HIDE DEF S, T
<1>5. MaxOf(T) \in T /\ \A y \in T : y <= MaxOf(T)
  BY <1>3, <1>4, MaxIs
<1>6. MaxOf(S) \in S
  BY <1>1, <1>3, MaxIs
<1>7. PreOn(ws) \in 0 .. Len(ws)
  BY <1>3, <1>6 DEF PreOn, P, S, n
<1>8. CASE P(more, n + 1)
  <2>1. n + 1 \in T /\ \A y \in T : y \in Nat /\ y <= n + 1
    BY <1>1, <1>2, <1>4, <1>8
  <2>2. MaxOf(T) = n + 1
    BY <1>3, <1>5, <2>1
  <2> QED BY <1>1, <1>7, <1>8, <2>2, <1>b DEF PreOn, P, T, n, more
<1>9. CASE ~P(more, n + 1)
  BY <1>1, <1>2, <1>7, <1>9, <1>b DEF PreOn, P, S, T, n, more
<1> QED BY <1>8, <1>9

\* How often a flag is given in the first i words.
Times(ws, flag, i) == Cardinality({j \in 1 .. i : ws[j].flag = flag})

LEMMA TimeAppend ==
    ASSUME NEW W, NEW ws \in Seq(W), NEW w \in W, NEW f, NEW k \in Nat
    PROVE  /\ Times(ws, f, Len(ws)) \in Nat
           /\ Times(Append(ws, w), f, Len(ws) + 1) =
                Times(ws, f, Len(ws)) + (IF w.flag = f THEN 1 ELSE 0)
           /\ Time(ws, f, k) \in 0 .. Len(ws)
           /\ Time(Append(ws, w), f, k) =
                IF w.flag = f /\ Times(ws, f, Len(ws)) + 1 = k
                THEN Len(ws) + 1 ELSE Time(ws, f, k)
<1> DEFINE n == Len(ws)
           more == Append(ws, w)
           G(s, i) == {j \in 1 .. i : s[j].flag = f}
           P(s, i) == s[i].flag = f /\ Cardinality(G(s, i)) = k
           S == {0} \cup {i \in 1 .. n : P(ws, i)}
           T == {0} \cup {i \in 1 .. Len(more) : P(more, i)}
<1>1. /\ n \in Nat /\ Len(more) = n + 1 /\ more[n + 1] = w
      /\ \A i \in 1 .. n : more[i] = ws[i]
  OBVIOUS
<1> HIDE DEF n, more
<1>2. \A i \in 1 .. n : G(more, i) = G(ws, i)
  BY <1>1
<1>3. G(more, n + 1) = IF w.flag = f THEN G(ws, n) \cup {n + 1} ELSE G(ws, n)
  BY <1>1
<1>4. IsFiniteSet(G(ws, n)) /\ Cardinality(G(ws, n)) \in Nat
  <2>1. IsFiniteSet(1 .. n)
    BY <1>1, FS_Interval
  <2>2. IsFiniteSet(G(ws, n))
    BY <2>1, FS_Subset
  <2> QED BY <2>2, FS_CardinalityType
<1>5. n + 1 \notin G(ws, n)
  BY <1>1
<1> HIDE DEF G
<1>6. Cardinality(G(more, n + 1)) =
        Cardinality(G(ws, n)) + (IF w.flag = f THEN 1 ELSE 0)
  <2>1. Cardinality(G(ws, n) \cup {n + 1}) = Cardinality(G(ws, n)) + 1
    BY <1>4, <1>5, FS_AddElement
  <2> QED BY <1>3, <1>4, <2>1
<1>7. /\ \A i \in 1 .. n : P(more, i) <=> P(ws, i)
      /\ P(more, n + 1) <=> w.flag = f /\ Cardinality(G(ws, n)) + 1 = k
  BY <1>1, <1>2, <1>6
<1>8. Times(ws, f, n) = Cardinality(G(ws, n))
  BY DEF Times, G
<1>9. Times(more, f, n + 1) = Cardinality(G(more, n + 1))
  BY DEF Times, G
<1>10. Time(ws, f, k) = MaxOf(S)
  BY DEF Time, G, n
<1>11. Time(more, f, k) = MaxOf(T)
  BY DEF Time, G
<1> HIDE DEF P
<1>12. T = IF P(more, n + 1) THEN S \cup {n + 1} ELSE S
  BY <1>1, <1>7
<1>13. S \in SUBSET (0 .. n) /\ S # {} /\ n + 1 \in Nat
  BY <1>1
<1>14. T \in SUBSET (0 .. (n + 1)) /\ T # {}
  BY <1>1
<1> HIDE DEF S, T
<1>15. MaxOf(T) \in T /\ \A y \in T : y <= MaxOf(T)
  BY <1>13, <1>14, MaxIs
<1>16. MaxOf(S) \in S
  BY <1>1, <1>13, MaxIs
<1>17. Time(ws, f, k) \in 0 .. n
  BY <1>10, <1>13, <1>16
<1>18. Time(more, f, k) = IF P(more, n + 1) THEN n + 1 ELSE Time(ws, f, k)
  <2>1. \A y \in T : y \in Nat /\ y <= n + 1
    BY <1>13, <1>14
  <2>2. P(more, n + 1) => n + 1 \in T
    BY <1>12
  <2>3. P(more, n + 1) => MaxOf(T) = n + 1
    BY <1>13, <1>15, <2>1, <2>2
  <2> QED BY <2>3, <1>10, <1>11, <1>12
<1>19. /\ Times(ws, f, n) \in Nat
       /\ Times(more, f, n + 1) = Times(ws, f, n) + (IF w.flag = f THEN 1 ELSE 0)
       /\ Time(ws, f, k) \in 0 .. n
       /\ Time(more, f, k) =
            IF w.flag = f /\ Times(ws, f, n) + 1 = k THEN n + 1 ELSE Time(ws, f, k)
  BY <1>4, <1>6, <1>7, <1>8, <1>9, <1>17, <1>18
<1> QED BY <1>19 DEF n, more

-----------------------------------------------------------------------------
(* What the arguments mean, kept word by word.  Each part of the claim has  *)
(* the fields that stand for it after some words, what a flag does to them, *)
(* and that the one follows the other.                                      *)

\* The flags that cannot be negated.
AlwaysOn == {"null-data", "stop-on-nonmatch", "passthru", "before-context",
             "after-context", "context", "unrestricted", "no-config"}
            \cup (ModeFlags \ {"json"})

EndsExact(a, ws) ==
    /\ a.crlf \in BOOLEAN /\ a.null_data \in BOOLEAN
    /\ a.crlf <=> /\ On(ws, "crlf") > Off(ws, "crlf")
                  /\ On(ws, "crlf") > On(ws, "null-data")
    /\ a.null_data <=> On(ws, "null-data") > On(ws, "crlf")
EndsEffect(w, a, b) ==
    /\ b.crlf \in BOOLEAN /\ b.null_data \in BOOLEAN
    /\ w.flag \notin {"crlf", "null-data"} =>
         (b.crlf <=> a.crlf) /\ (b.null_data <=> a.null_data)
    /\ w.flag = "crlf" /\ w.on => b.crlf /\ ~b.null_data
    /\ w.flag = "crlf" /\ ~w.on => ~b.crlf /\ (b.null_data <=> a.null_data)
    /\ w.flag = "null-data" => ~b.crlf /\ b.null_data

LinesExact(a, ws) ==
    /\ a.multiline \in BOOLEAN /\ a.stop_on_nonmatch \in BOOLEAN
    /\ a.multiline <=> /\ On(ws, "multiline") > Off(ws, "multiline")
                       /\ On(ws, "multiline") > On(ws, "stop-on-nonmatch")
    /\ a.stop_on_nonmatch <=> On(ws, "stop-on-nonmatch") > On(ws, "multiline")
LinesEffect(w, a, b) ==
    /\ b.multiline \in BOOLEAN /\ b.stop_on_nonmatch \in BOOLEAN
    /\ w.flag \notin {"multiline", "stop-on-nonmatch"} =>
         /\ b.multiline <=> a.multiline
         /\ b.stop_on_nonmatch <=> a.stop_on_nonmatch
    /\ w.flag = "multiline" /\ w.on => b.multiline /\ ~b.stop_on_nonmatch
    /\ w.flag = "multiline" /\ ~w.on =>
         ~b.multiline /\ (b.stop_on_nonmatch <=> a.stop_on_nonmatch)
    /\ w.flag = "stop-on-nonmatch" => ~b.multiline /\ b.stop_on_nonmatch

PreLast(ws) ==
    /\ PreOn(ws) >= On(ws, "pre") /\ PreOn(ws) >= Off(ws, "pre")
    /\ PreOn(ws) > On(ws, "search-zip")
ReaderExact(a, ws) ==
    /\ a.search_zip \in BOOLEAN
    /\ a.search_zip <=> /\ On(ws, "search-zip") > Off(ws, "search-zip")
                        /\ On(ws, "search-zip") > PreOn(ws)
    /\ a.pre = IF PreLast(ws) THEN {ws[PreOn(ws)].text} ELSE {}
    /\ PreOn(ws) <= On(ws, "pre")
ReaderEffect(w, a, b) ==
    /\ b.search_zip \in BOOLEAN
    /\ w.flag \notin {"pre", "search-zip"} =>
         b.pre = a.pre /\ (b.search_zip <=> a.search_zip)
    /\ w.flag = "search-zip" /\ w.on => b.search_zip /\ b.pre = {}
    /\ w.flag = "search-zip" /\ ~w.on => ~b.search_zip /\ b.pre = a.pre
    /\ w.flag = "pre" /\ w.on /\ w.text = "" =>
         b.pre = {} /\ (b.search_zip <=> a.search_zip)
    /\ w.flag = "pre" /\ w.on /\ w.text # "" =>
         b.pre = {w.text} /\ ~b.search_zip
    /\ w.flag = "pre" /\ ~w.on =>
         b.pre = {} /\ (b.search_zip <=> a.search_zip)

\* What a side of the context was last given, if that was after --passthru.
Side(ws, flag) ==
    IF On(ws, flag) > On(ws, "passthru")
    THEN {Number[ws[On(ws, flag)].text]} ELSE {}
Sides == {"before-context", "after-context", "context"}
SidesOf(passthru, before, after, both) ==
    [passthru |-> passthru, before |-> before, after |-> after, both |-> both]
ContextExact(a, ws) ==
    \E passthru \in BOOLEAN :
        /\ a.context = SidesOf(passthru, Side(ws, "before-context"),
                               Side(ws, "after-context"), Side(ws, "context"))
        /\ passthru <=> \A f \in Sides : On(ws, "passthru") > On(ws, f)
ContextEffect(w, a, b) ==
    LET from == IF a.context.passthru THEN Unlimited ELSE a.context
        given == {Number[w.text]}
    IN  /\ w.flag \notin Sides \cup {"passthru"} => b.context = a.context
        /\ w.flag = "passthru" => b.context = SidesOf(TRUE, {}, {}, {})
        /\ w.flag = "before-context" =>
             b.context = [from EXCEPT !.before = given]
        /\ w.flag = "after-context" =>
             b.context = [from EXCEPT !.after = given]
        /\ w.flag = "context" => b.context = [from EXCEPT !.both = given]

\* What the last flag for a mode says.  It is what the flags mean unless a mode
\* that searches comes after one that does not.
LatestMode(ws) ==
    LET m == IndexOf(ws, ModeFlags, TRUE)
    IN  IF m = 0 THEN "Standard"
        ELSE IF ws[m].flag = "json" /\ Off(ws, "json") > m THEN "Standard"
        ELSE ModeOf(ws[m])
\* The last flag for a mode is --json, and no --no-json comes after it.
JSONLast(ws) ==
    LET m == IndexOf(ws, ModeFlags, TRUE)
    IN  m > 0 /\ ws[m].flag = "json" /\ ~(Off(ws, "json") > m)
ModeExact(a, ws) ==
    a.mode = LatestMode(ws) /\ (a.mode = "JSON" <=> JSONLast(ws))
ModeEffect(w, a, b) ==
    /\ w.flag \notin ModeFlags => b.mode = a.mode
    /\ w.flag \in ModeFlags /\ w.on =>
         b.mode = ModeOf(w) /\ (b.mode = "JSON" <=> w.flag = "json")
    /\ w.flag = "json" /\ ~w.on =>
         b.mode = IF a.mode = "JSON" THEN "Standard" ELSE a.mode

\* Some of the first indices is after all of the second.
Wins(X, Y) == \E x \in X : \A y \in Y : x > y
UFlags == {"no-ignore", "no-ignore-vcs", "no-ignore-dot", "hidden", "binary",
           "text", "unrestricted"}
First(ws, n) == Time(ws, "unrestricted", n)
IgnoreExact(a, ws) ==
    /\ a.unrestricted = Times(ws, "unrestricted", Len(ws))
    /\ a.no_ignore_vcs \in BOOLEAN /\ a.no_ignore_dot \in BOOLEAN
    /\ a.hidden \in BOOLEAN
    /\ a.no_ignore_vcs <=>
         Wins({On(ws, "no-ignore"), On(ws, "no-ignore-vcs"), First(ws, 1)},
              {Off(ws, "no-ignore"), Off(ws, "no-ignore-vcs")})
    /\ a.no_ignore_dot <=>
         Wins({On(ws, "no-ignore"), On(ws, "no-ignore-dot"), First(ws, 1)},
              {Off(ws, "no-ignore"), Off(ws, "no-ignore-dot")})
    /\ a.hidden <=> Wins({On(ws, "hidden"), First(ws, 2)}, {Off(ws, "hidden")})
BinaryExact(a, ws) ==
    a.binary =
      IF Wins({On(ws, "binary"), First(ws, 3)},
              {On(ws, "text"), Off(ws, "binary"), Off(ws, "text")})
      THEN "SearchAndSuppress"
      ELSE IF Wins({On(ws, "text")}, {Off(ws, "binary"), Off(ws, "text")})
      THEN "AsText" ELSE "Auto"
IgnoreEffect(w, a, b) ==
    /\ b.unrestricted = IF w.flag = "unrestricted" THEN a.unrestricted + 1
                        ELSE a.unrestricted
    /\ b.no_ignore_vcs \in BOOLEAN /\ b.no_ignore_dot \in BOOLEAN
    /\ b.hidden \in BOOLEAN
    /\ b.no_ignore_vcs <=>
         IF w.flag \in {"no-ignore", "no-ignore-vcs"} THEN w.on
         ELSE IF w.flag = "unrestricted" /\ a.unrestricted + 1 = 1 THEN TRUE
         ELSE a.no_ignore_vcs
    /\ b.no_ignore_dot <=>
         IF w.flag \in {"no-ignore", "no-ignore-dot"} THEN w.on
         ELSE IF w.flag = "unrestricted" /\ a.unrestricted + 1 = 1 THEN TRUE
         ELSE a.no_ignore_dot
    /\ b.hidden <=>
         IF w.flag = "hidden" THEN w.on
         ELSE IF w.flag = "unrestricted" /\ a.unrestricted + 1 = 2 THEN TRUE
         ELSE a.hidden
BinaryEffect(w, a, b) ==
    b.binary =
      IF w.flag = "binary" THEN IF w.on THEN "SearchAndSuppress" ELSE "Auto"
      ELSE IF w.flag = "text" THEN IF w.on THEN "AsText" ELSE "Auto"
      ELSE IF w.flag = "unrestricted" /\ a.unrestricted + 1 = 3
      THEN "SearchAndSuppress" ELSE a.binary

FileExact(a, ws) ==
    a.no_config \in BOOLEAN /\ (a.no_config <=> On(ws, "no-config") > 0)
FileEffect(w, a, b) ==
    /\ b.no_config \in BOOLEAN
    /\ b.no_config <=> w.flag = "no-config" \/ a.no_config

\* The sources of patterns, in the order they are given in.
SourcesExact(a) == \E X : a.patterns \in Seq(X)
SourcesEffect(a, b) ==
    b.patterns = a.patterns \/ \E x : b.patterns = Append(a.patterns, x)

\* The fields all this is about.
Relevant == {"crlf", "null_data", "multiline", "stop_on_nonmatch", "search_zip",
             "pre", "context", "mode", "unrestricted", "no_ignore_vcs",
             "no_ignore_dot", "hidden", "binary", "no_config", "patterns"}
Exact(a, ws) ==
    /\ Relevant \subseteq DOMAIN a
    /\ EndsExact(a, ws) /\ LinesExact(a, ws) /\ ReaderExact(a, ws)
    /\ ContextExact(a, ws) /\ ModeExact(a, ws) /\ IgnoreExact(a, ws)
    /\ BinaryExact(a, ws) /\ FileExact(a, ws) /\ SourcesExact(a)
Effect(w, a, b) ==
    /\ Relevant \subseteq DOMAIN b
    /\ w.on \in BOOLEAN /\ (w.flag \in AlwaysOn => w.on)
    /\ EndsEffect(w, a, b) /\ LinesEffect(w, a, b) /\ ReaderEffect(w, a, b)
    /\ ContextEffect(w, a, b) /\ ModeEffect(w, a, b) /\ IgnoreEffect(w, a, b)
    /\ BinaryEffect(w, a, b) /\ FileEffect(w, a, b) /\ SourcesEffect(a, b)

LEMMA EndsStep ==
    ASSUME NEW W, NEW ws \in Seq(W), NEW w \in W, w.on \in BOOLEAN,
           w.flag \in AlwaysOn => w.on, NEW a, NEW b,
           EndsExact(a, ws), EndsEffect(w, a, b)
    PROVE  EndsExact(b, Append(ws, w))
<1>1. /\ On(ws, "crlf") \in 0 .. Len(ws) /\ Off(ws, "crlf") \in 0 .. Len(ws)
      /\ On(ws, "null-data") \in 0 .. Len(ws) /\ Len(ws) \in Nat
  BY LastAppend, AppendKeeps
<1>2. /\ On(Append(ws, w), "crlf") =
           IF w.flag = "crlf" /\ w.on THEN Len(ws) + 1 ELSE On(ws, "crlf")
      /\ Off(Append(ws, w), "crlf") =
           IF w.flag = "crlf" /\ ~w.on THEN Len(ws) + 1 ELSE Off(ws, "crlf")
      /\ On(Append(ws, w), "null-data") =
           IF w.flag = "null-data" /\ w.on THEN Len(ws) + 1 ELSE On(ws, "null-data")
  BY LastAppend
<1>3. w.flag = "null-data" => w.on
  BY DEF AlwaysOn
<1>4. CASE w.flag \notin {"crlf", "null-data"}
  BY <1>2, <1>4 DEF EndsExact, EndsEffect
<1>5. CASE w.flag = "crlf" /\ w.on
  BY <1>1, <1>2, <1>5 DEF EndsExact, EndsEffect
<1>6. CASE w.flag = "crlf" /\ ~w.on
  BY <1>1, <1>2, <1>6 DEF EndsExact, EndsEffect
<1>7. CASE w.flag = "null-data"
  BY <1>1, <1>2, <1>3, <1>7 DEF EndsExact, EndsEffect
<1> QED BY <1>4, <1>5, <1>6, <1>7

LEMMA LinesStep ==
    ASSUME NEW W, NEW ws \in Seq(W), NEW w \in W, w.on \in BOOLEAN,
           w.flag \in AlwaysOn => w.on, NEW a, NEW b,
           LinesExact(a, ws), LinesEffect(w, a, b)
    PROVE  LinesExact(b, Append(ws, w))
<1>1. /\ On(ws, "multiline") \in 0 .. Len(ws)
      /\ Off(ws, "multiline") \in 0 .. Len(ws)
      /\ On(ws, "stop-on-nonmatch") \in 0 .. Len(ws) /\ Len(ws) \in Nat
  BY LastAppend, AppendKeeps
<1>2. /\ On(Append(ws, w), "multiline") =
           IF w.flag = "multiline" /\ w.on THEN Len(ws) + 1 ELSE On(ws, "multiline")
      /\ Off(Append(ws, w), "multiline") =
           IF w.flag = "multiline" /\ ~w.on THEN Len(ws) + 1 ELSE Off(ws, "multiline")
      /\ On(Append(ws, w), "stop-on-nonmatch") =
           IF w.flag = "stop-on-nonmatch" /\ w.on THEN Len(ws) + 1
           ELSE On(ws, "stop-on-nonmatch")
  BY LastAppend
<1>3. w.flag = "stop-on-nonmatch" => w.on
  BY DEF AlwaysOn
<1>4. CASE w.flag \notin {"multiline", "stop-on-nonmatch"}
  BY <1>2, <1>4 DEF LinesExact, LinesEffect
<1>5. CASE w.flag = "multiline" /\ w.on
  BY <1>1, <1>2, <1>5 DEF LinesExact, LinesEffect
<1>6. CASE w.flag = "multiline" /\ ~w.on
  BY <1>1, <1>2, <1>6 DEF LinesExact, LinesEffect
<1>7. CASE w.flag = "stop-on-nonmatch"
  BY <1>1, <1>2, <1>3, <1>7 DEF LinesExact, LinesEffect
<1> QED BY <1>4, <1>5, <1>6, <1>7

LEMMA ReaderStep ==
    ASSUME NEW W, NEW ws \in Seq(W), NEW w \in W, w.on \in BOOLEAN,
           NEW a, NEW b, ReaderExact(a, ws), ReaderEffect(w, a, b)
    PROVE  ReaderExact(b, Append(ws, w))
<1> DEFINE n == Len(ws)
           more == Append(ws, w)
<1>1. /\ On(ws, "search-zip") \in 0 .. n /\ Off(ws, "search-zip") \in 0 .. n
      /\ On(ws, "pre") \in 0 .. n /\ Off(ws, "pre") \in 0 .. n
      /\ PreOn(ws) \in 0 .. n /\ n \in Nat
  BY LastAppend, PreAppend, AppendKeeps
<1>2. /\ On(more, "search-zip") =
           IF w.flag = "search-zip" /\ w.on THEN n + 1 ELSE On(ws, "search-zip")
      /\ Off(more, "search-zip") =
           IF w.flag = "search-zip" /\ ~w.on THEN n + 1 ELSE Off(ws, "search-zip")
      /\ On(more, "pre") = IF w.flag = "pre" /\ w.on THEN n + 1 ELSE On(ws, "pre")
      /\ Off(more, "pre") = IF w.flag = "pre" /\ ~w.on THEN n + 1 ELSE Off(ws, "pre")
  BY LastAppend
<1>3. PreOn(more) = IF w.flag = "pre" /\ w.on /\ w.text # "" THEN n + 1 ELSE PreOn(ws)
  BY PreAppend
<1>4. /\ more[n + 1] = w
      /\ PreOn(ws) > On(ws, "search-zip") => more[PreOn(ws)] = ws[PreOn(ws)]
  BY <1>1, AppendKeeps
<1> SUFFICES ReaderExact(b, more)
  OBVIOUS
<1> HIDE DEF n, more
<1>5. /\ b.search_zip \in BOOLEAN /\ a.search_zip \in BOOLEAN
      /\ a.search_zip <=> /\ On(ws, "search-zip") > Off(ws, "search-zip")
                          /\ On(ws, "search-zip") > PreOn(ws)
      /\ a.pre = IF PreLast(ws) THEN {ws[PreOn(ws)].text} ELSE {}
      /\ PreOn(ws) <= On(ws, "pre")
  BY DEF ReaderExact, ReaderEffect
<1>6. CASE w.flag \notin {"pre", "search-zip"}
  <2>1. /\ PreOn(more) = PreOn(ws)
        /\ On(more, "pre") = On(ws, "pre") /\ Off(more, "pre") = Off(ws, "pre")
        /\ On(more, "search-zip") = On(ws, "search-zip")
        /\ Off(more, "search-zip") = Off(ws, "search-zip")
    BY <1>1, <1>2, <1>3, <1>6
  <2>2. b.pre = a.pre /\ (b.search_zip <=> a.search_zip)
    BY <1>6 DEF ReaderEffect
  <2>3. (PreLast(more) <=> PreLast(ws)) /\ (PreLast(ws) => more[PreOn(more)] = ws[PreOn(ws)])
    BY <1>1, <1>4, <2>1 DEF PreLast
  <2> QED
    BY ONLY <1>1, <1>5, <2>1, <2>2, <2>3 DEF ReaderExact
<1>7. CASE w.flag = "search-zip" /\ w.on
  <2>1. /\ PreOn(more) = PreOn(ws)
        /\ On(more, "pre") = On(ws, "pre") /\ Off(more, "pre") = Off(ws, "pre")
        /\ On(more, "search-zip") = n + 1
        /\ Off(more, "search-zip") = Off(ws, "search-zip")
    BY <1>1, <1>2, <1>3, <1>7
  <2>2. b.search_zip /\ b.pre = {}
    BY <1>7 DEF ReaderEffect
  <2>3. ~PreLast(more)
    BY <1>1, <1>4, <2>1 DEF PreLast
  <2> QED
    BY ONLY <1>1, <1>5, <2>1, <2>2, <2>3 DEF ReaderExact
<1>8. CASE w.flag = "search-zip" /\ ~w.on
  <2>1. /\ PreOn(more) = PreOn(ws)
        /\ On(more, "pre") = On(ws, "pre") /\ Off(more, "pre") = Off(ws, "pre")
        /\ On(more, "search-zip") = On(ws, "search-zip")
        /\ Off(more, "search-zip") = n + 1
    BY <1>1, <1>2, <1>3, <1>8
  <2>2. ~b.search_zip /\ b.pre = a.pre
    BY <1>8 DEF ReaderEffect
  <2>3. (PreLast(more) <=> PreLast(ws)) /\ (PreLast(ws) => more[PreOn(more)] = ws[PreOn(ws)])
    BY <1>1, <1>4, <2>1 DEF PreLast
  <2>4. b.pre = IF PreLast(more) THEN {more[PreOn(more)].text} ELSE {}
    BY ONLY <1>5, <2>2, <2>3
  <2>5. ~(On(more, "search-zip") > Off(more, "search-zip"))
    BY ONLY <1>1, <2>1
  <2>6. PreOn(more) <= On(more, "pre")
    BY ONLY <1>5, <2>1
  <2> QED
    BY ONLY <1>5, <2>2, <2>4, <2>5, <2>6 DEF ReaderExact
<1>9. CASE w.flag = "pre" /\ w.on /\ w.text = ""
  <2>1. /\ PreOn(more) = PreOn(ws)
        /\ On(more, "pre") = n + 1 /\ Off(more, "pre") = Off(ws, "pre")
        /\ On(more, "search-zip") = On(ws, "search-zip")
        /\ Off(more, "search-zip") = Off(ws, "search-zip")
    BY <1>1, <1>2, <1>3, <1>9
  <2>2. b.pre = {} /\ (b.search_zip <=> a.search_zip)
    BY <1>9 DEF ReaderEffect
  <2>3. ~PreLast(more)
    BY <1>1, <1>4, <2>1 DEF PreLast
  <2> QED
    BY ONLY <1>1, <1>5, <2>1, <2>2, <2>3 DEF ReaderExact
<1>10. CASE w.flag = "pre" /\ w.on /\ w.text # ""
  <2>1. /\ PreOn(more) = n + 1
        /\ On(more, "pre") = n + 1 /\ Off(more, "pre") = Off(ws, "pre")
        /\ On(more, "search-zip") = On(ws, "search-zip")
        /\ Off(more, "search-zip") = Off(ws, "search-zip")
    BY <1>1, <1>2, <1>3, <1>10
  <2>2. b.pre = {w.text} /\ ~b.search_zip
    BY <1>10 DEF ReaderEffect
  <2>3. PreLast(more) /\ more[n + 1] = w
    BY <1>1, <1>4, <2>1 DEF PreLast
  <2> QED
    BY ONLY <1>1, <1>5, <2>1, <2>2, <2>3 DEF ReaderExact
<1>11. CASE w.flag = "pre" /\ ~w.on
  <2>1. /\ PreOn(more) = PreOn(ws)
        /\ On(more, "pre") = On(ws, "pre") /\ Off(more, "pre") = n + 1
        /\ On(more, "search-zip") = On(ws, "search-zip")
        /\ Off(more, "search-zip") = Off(ws, "search-zip")
    BY <1>1, <1>2, <1>3, <1>11
  <2>2. b.pre = {} /\ (b.search_zip <=> a.search_zip)
    BY <1>11 DEF ReaderEffect
  <2>3. ~PreLast(more)
    BY <1>1, <1>4, <2>1 DEF PreLast
  <2> QED
    BY ONLY <1>1, <1>5, <2>1, <2>2, <2>3 DEF ReaderExact
<1> QED BY <1>6, <1>7, <1>8, <1>9, <1>10, <1>11

LEMMA FileStep ==
    ASSUME NEW W, NEW ws \in Seq(W), NEW w \in W, w.on \in BOOLEAN,
           w.flag \in AlwaysOn => w.on, NEW a, NEW b,
           FileExact(a, ws), FileEffect(w, a, b)
    PROVE  FileExact(b, Append(ws, w))
<1>1. /\ On(ws, "no-config") \in 0 .. Len(ws) /\ Len(ws) \in Nat
      /\ On(Append(ws, w), "no-config") =
           IF w.flag = "no-config" /\ w.on THEN Len(ws) + 1 ELSE On(ws, "no-config")
  BY LastAppend, AppendKeeps
<1>2. CASE w.flag = "no-config"
  BY <1>1, <1>2 DEF FileExact, FileEffect, AlwaysOn
<1>3. CASE w.flag # "no-config"
  BY <1>1, <1>3 DEF FileExact, FileEffect
<1> QED BY <1>2, <1>3

LEMMA SideAppend ==
    ASSUME NEW W, NEW ws \in Seq(W), NEW w \in W, w.on \in BOOLEAN,
           w.flag \in AlwaysOn => w.on, NEW f \in Sides
    PROVE  Side(Append(ws, w), f) =
             IF w.flag = "passthru" THEN {}
             ELSE IF w.flag = f THEN {Number[w.text]} ELSE Side(ws, f)
<1> DEFINE n == Len(ws)
           more == Append(ws, w)
<1>1. f # "passthru" /\ (w.flag \in {f, "passthru"} => w.on)
  BY DEF Sides, AlwaysOn
<1>2. /\ n \in Nat /\ On(ws, f) \in 0 .. n /\ On(ws, "passthru") \in 0 .. n
      /\ On(more, f) = IF w.flag = f /\ w.on THEN n + 1 ELSE On(ws, f)
      /\ On(more, "passthru") =
           IF w.flag = "passthru" /\ w.on THEN n + 1 ELSE On(ws, "passthru")
  BY LastAppend, AppendKeeps
<1>3. more[n + 1] = w /\ \A i \in 1 .. n : more[i] = ws[i]
  BY AppendKeeps
<1> SUFFICES Side(more, f) = IF w.flag = "passthru" THEN {}
                             ELSE IF w.flag = f THEN {Number[w.text]} ELSE Side(ws, f)
  OBVIOUS
<1> HIDE DEF n, more
<1>4. CASE w.flag = "passthru"
  <2>1. ~(On(more, f) > On(more, "passthru"))
    BY ONLY <1>1, <1>2, <1>4
  <2> QED BY <1>4, <2>1 DEF Side
<1>5. CASE w.flag = f
  <2>1. On(more, f) = n + 1 /\ On(more, f) > On(more, "passthru")
    BY ONLY <1>1, <1>2, <1>5
  <2> QED BY <1>1, <1>3, <1>5, <2>1 DEF Side
<1>6. CASE w.flag \notin {f, "passthru"}
  <2>1. On(more, f) = On(ws, f) /\ On(more, "passthru") = On(ws, "passthru")
    BY <1>2, <1>6
  <2>2. On(ws, f) > On(ws, "passthru") => more[On(ws, f)] = ws[On(ws, f)]
    BY ONLY <1>2, <1>3
  <2> QED BY <1>6, <2>1, <2>2 DEF Side
<1> QED BY <1>4, <1>5, <1>6

LEMMA ContextStep ==
    ASSUME NEW W, NEW ws \in Seq(W), NEW w \in W, w.on \in BOOLEAN,
           w.flag \in AlwaysOn => w.on, NEW a, NEW b,
           ContextExact(a, ws), ContextEffect(w, a, b)
    PROVE  ContextExact(b, Append(ws, w))
<1> DEFINE more == Append(ws, w)
           old(f) == Side(ws, f)
           from == IF a.context.passthru THEN Unlimited ELSE a.context
           given == {Number[w.text]}
<1>1. PICK passthru \in BOOLEAN :
        /\ a.context = SidesOf(passthru, Side(ws, "before-context"),
                               Side(ws, "after-context"), Side(ws, "context"))
        /\ passthru <=> \A f \in Sides : On(ws, "passthru") > On(ws, f)
  BY DEF ContextExact
<1>2. \A f \in Sides : Side(more, f) =
             IF w.flag = "passthru" THEN {}
             ELSE IF w.flag = f THEN given ELSE old(f)
  BY SideAppend
<1>3. passthru => \A f \in Sides : old(f) = {}
  <2> SUFFICES ASSUME passthru, NEW f \in Sides PROVE old(f) = {}
    OBVIOUS
  <2>1. On(ws, "passthru") > On(ws, f)
    BY <1>1
  <2>2. On(ws, "passthru") \in Nat /\ On(ws, f) \in Nat
    BY LastAppend
  <2> QED BY <2>1, <2>2 DEF Side
<1>4. "before-context" \in Sides /\ "after-context" \in Sides /\ "context" \in Sides
  BY DEF Sides
<1>5. from = SidesOf(FALSE, old("before-context"), old("after-context"), old("context"))
  <2>1. CASE passthru
    <3>1. from = SidesOf(FALSE, {}, {}, {})
      BY <1>1, <2>1 DEF SidesOf, Unlimited, None
    <3> QED BY <1>3, <1>4, <2>1, <3>1
  <2>2. CASE ~passthru
    <3>1. ~a.context.passthru /\ passthru = FALSE
      BY <1>1, <2>2 DEF SidesOf
    <3> QED BY <1>1, <3>1
  <2> QED BY <2>1, <2>2
<1>6. \A f \in Sides : /\ On(ws, f) \in 0 .. Len(ws) /\ Len(ws) \in Nat
                       /\ On(more, f) = IF w.flag = f THEN Len(ws) + 1 ELSE On(ws, f)
  <2> TAKE f \in Sides
  <2>1. w.flag = f => w.on
    BY DEF Sides, AlwaysOn
  <2> QED BY <2>1, LastAppend, AppendKeeps
<1>7. /\ On(ws, "passthru") \in 0 .. Len(ws)
      /\ On(more, "passthru") = IF w.flag = "passthru" THEN Len(ws) + 1
                                ELSE On(ws, "passthru")
  <2>1. w.flag = "passthru" => w.on
    BY DEF AlwaysOn
  <2> QED BY <2>1, LastAppend
<1> SUFFICES ContextExact(b, more)
  OBVIOUS
<1>8. CASE w.flag = "passthru"
  <2>1. b.context = SidesOf(TRUE, Side(more, "before-context"),
                            Side(more, "after-context"), Side(more, "context"))
    BY <1>2, <1>4, <1>8 DEF ContextEffect
  <2>2. \A f \in Sides : On(more, "passthru") > On(more, f)
    <3>1. \A f \in Sides : f # "passthru"
      BY DEF Sides
    <3> HIDE DEF more
    <3> QED BY ONLY <1>6, <1>7, <1>8, <3>1
  <2> HIDE DEF more
  <2> QED BY ONLY <2>1, <2>2 DEF ContextExact
<1>9. ASSUME w.flag \in Sides
      PROVE  ~\A f \in Sides : On(more, "passthru") > On(more, f)
  <2>1. w.flag # "passthru"
    BY <1>9 DEF Sides
  <2> HIDE DEF more
  <2> QED BY ONLY <1>6, <1>7, <1>9, <2>1
<1>10. CASE w.flag \in Sides
  <2>1. b.context = SidesOf(FALSE, Side(more, "before-context"),
                            Side(more, "after-context"), Side(more, "context"))
    <3> DEFINE now(f) == IF w.flag = f THEN given ELSE old(f)
    <3>1. w.flag # "passthru"
      BY <1>10 DEF Sides
    <3>2. /\ Side(more, "before-context") = now("before-context")
          /\ Side(more, "after-context") = now("after-context")
          /\ Side(more, "context") = now("context")
      BY <1>2, <1>4, <3>1
    <3>3. b.context = SidesOf(FALSE, now("before-context"), now("after-context"),
                              now("context"))
      <4>1. /\ w.flag = "before-context" => b.context = [from EXCEPT !.before = given]
            /\ w.flag = "after-context" => b.context = [from EXCEPT !.after = given]
            /\ w.flag = "context" => b.context = [from EXCEPT !.both = given]
        BY DEF ContextEffect
      <4> HIDE DEF from, given, old
      <4>2. CASE w.flag = "before-context" BY ONLY <1>5, <4>1, <4>2 DEF SidesOf
      <4>3. CASE w.flag = "after-context" BY ONLY <1>5, <4>1, <4>3 DEF SidesOf
      <4>4. CASE w.flag = "context" BY ONLY <1>5, <4>1, <4>4 DEF SidesOf
      <4> QED BY <1>10, <4>2, <4>3, <4>4 DEF Sides
    <3> QED BY ONLY <3>2, <3>3
  <2> HIDE DEF more
  <2> QED BY ONLY <1>9, <1>10, <2>1 DEF ContextExact
<1>11. CASE w.flag \notin Sides \cup {"passthru"}
  <2>1. b.context = a.context
    BY <1>11 DEF ContextEffect
  <2>2. \A f \in Sides : Side(more, f) = old(f) /\ On(more, f) = On(ws, f)
    BY <1>2, <1>6, <1>11
  <2>3. On(more, "passthru") = On(ws, "passthru")
    BY <1>7, <1>11
  <2> HIDE DEF more
  <2> QED BY <1>1, <1>4, <2>1, <2>2, <2>3 DEF ContextExact
<1> QED BY <1>8, <1>10, <1>11

LEMMA ModeStep ==
    ASSUME NEW W, NEW ws \in Seq(W), NEW w \in W, w.on \in BOOLEAN,
           w.flag \in AlwaysOn => w.on, NEW a, NEW b,
           ModeExact(a, ws), ModeEffect(w, a, b)
    PROVE  ModeExact(b, Append(ws, w))
<1> DEFINE n == Len(ws)
           more == Append(ws, w)
           m == IndexOf(ws, ModeFlags, TRUE)
           last == IndexOf(more, ModeFlags, TRUE)
<1>1. /\ n \in Nat /\ more[n + 1] = w /\ \A i \in 1 .. n : more[i] = ws[i]
      /\ m \in 0 .. n
  <2>1. \A t : IndexOf(ws, ModeFlags, t) \in 0 .. n
    BY IndexIn
  <2>2. m \in 0 .. n
    BY ONLY Zenon, <2>1
  <2>3. n \in Nat /\ more[n + 1] = w /\ \A i \in 1 .. n : more[i] = ws[i]
    BY AppendKeeps
  <2> QED BY ONLY <2>2, <2>3
<1>2. last = IF w.flag \in ModeFlags /\ w.on THEN n + 1 ELSE m
  <2>1. \A t : IndexOf(more, ModeFlags, t) =
                 IF w.flag \in ModeFlags /\ w.on = t THEN n + 1
                 ELSE IndexOf(ws, ModeFlags, t)
    BY IndexAppend
  <2>2. last = IF w.flag \in ModeFlags /\ w.on = TRUE THEN n + 1 ELSE m
    BY ONLY Zenon, <2>1
  <2>3. w.on = TRUE <=> w.on
    BY Zenon
  <2> QED BY ONLY <2>2, <2>3
<1>3. /\ Off(ws, "json") \in 0 .. n
      /\ Off(more, "json") = IF w.flag = "json" /\ ~w.on THEN n + 1 ELSE Off(ws, "json")
  BY LastAppend
<1>4. w.flag \in ModeFlags \ {"json"} => w.on
  BY DEF AlwaysOn
<1>5. /\ a.mode = IF m = 0 THEN "Standard"
                  ELSE IF ws[m].flag = "json" /\ Off(ws, "json") > m THEN "Standard"
                  ELSE ModeOf(ws[m])
      /\ a.mode = "JSON" <=> m > 0 /\ ws[m].flag = "json" /\ ~(Off(ws, "json") > m)
  BY DEF ModeExact, LatestMode, JSONLast
<1> SUFFICES /\ b.mode = IF last = 0 THEN "Standard"
                         ELSE IF more[last].flag = "json" /\ Off(more, "json") > last
                         THEN "Standard" ELSE ModeOf(more[last])
             /\ b.mode = "JSON" <=> /\ last > 0 /\ more[last].flag = "json"
                                    /\ ~(Off(more, "json") > last)
  BY Zenon DEF ModeExact, LatestMode, JSONLast
<1>6. m > 0 => more[m] = ws[m]
  <2> HIDE DEF n, more, m
  <2> QED BY ONLY <1>1
<1> HIDE DEF n, more, m, last
<1>7. CASE w.flag \in ModeFlags /\ w.on
  <2>1. b.mode = ModeOf(w) /\ (b.mode = "JSON" <=> w.flag = "json")
    BY <1>7 DEF ModeEffect
  <2>2. last = n + 1 /\ last # 0 /\ last > 0 /\ more[last] = w
    BY ONLY <1>1, <1>2, <1>7
  <2>3. ~(Off(more, "json") > last)
    BY ONLY <1>1, <1>3, <1>7, <2>2
  <2> QED BY ONLY <2>1, <2>2, <2>3
<1>8. CASE w.flag = "json" /\ ~w.on
  <2>1. b.mode = IF a.mode = "JSON" THEN "Standard" ELSE a.mode
    BY <1>8 DEF ModeEffect
  <2>2. last = m /\ Off(more, "json") > last
    BY ONLY <1>1, <1>2, <1>3, <1>8
  <2>3. b.mode # "JSON"
    BY ONLY <2>1
  <2>4. m = 0 \/ m > 0
    BY ONLY <1>1
  <2>5. CASE m = 0
    BY ONLY <1>5, <2>1, <2>2, <2>3, <2>5
  <2>6. CASE m > 0 /\ ws[m].flag = "json"
    <3>1. b.mode = "Standard"
      BY ONLY <1>5, <2>1, <2>6
    <3> QED BY ONLY <1>6, <2>2, <2>3, <2>6, <3>1
  <2>7. CASE m > 0 /\ ws[m].flag # "json"
    <3>1. m # 0 /\ b.mode = ModeOf(ws[m])
      BY ONLY <1>1, <1>5, <2>1, <2>7
    <3> QED BY ONLY <1>6, <2>2, <2>3, <2>7, <3>1
  <2> QED BY <2>4, <2>5, <2>6, <2>7
<1>9. CASE w.flag \notin ModeFlags
  <2>1. b.mode = a.mode /\ last = m
    BY <1>2, <1>9 DEF ModeEffect
  <2>2. Off(more, "json") = Off(ws, "json")
    BY <1>3, <1>9 DEF ModeFlags
  <2>3. m = 0 \/ m > 0
    BY ONLY <1>1
  <2>4. CASE m = 0
    BY ONLY <1>5, <2>1, <2>2, <2>4
  <2>5. CASE m > 0
    BY ONLY <1>5, <1>6, <2>1, <2>2, <2>5
  <2> QED BY <2>3, <2>4, <2>5
<1>10. "json" \in ModeFlags
  BY DEF ModeFlags
<1> QED BY <1>4, <1>7, <1>8, <1>9, <1>10

\* A switch, given under two names or as the kth -u.
LEMMA SwitchStep ==
    ASSUME NEW W, NEW ws \in Seq(W), NEW w \in W, w.on \in BOOLEAN,
           w.flag \in AlwaysOn => w.on, NEW f, NEW g, NEW k \in Nat,
           "unrestricted" \notin {f, g}
    PROVE  Wins({On(Append(ws, w), f), On(Append(ws, w), g), First(Append(ws, w), k)},
                {Off(Append(ws, w), f), Off(Append(ws, w), g)})
             <=> IF w.flag \in {f, g} THEN w.on
                 ELSE \/ /\ w.flag = "unrestricted"
                         /\ Times(ws, "unrestricted", Len(ws)) + 1 = k
                      \/ Wins({On(ws, f), On(ws, g), First(ws, k)},
                              {Off(ws, f), Off(ws, g)})
<1> DEFINE n == Len(ws)
           more == Append(ws, w)
           u == Times(ws, "unrestricted", Len(ws))
<1>1. /\ n \in Nat
      /\ On(ws, f) \in 0 .. n /\ On(ws, g) \in 0 .. n
      /\ Off(ws, f) \in 0 .. n /\ Off(ws, g) \in 0 .. n
      /\ First(ws, k) \in 0 .. n
  BY AppendKeeps, LastAppend, TimeAppend DEF First
<1>2. /\ On(more, f) = IF w.flag = f /\ w.on THEN n + 1 ELSE On(ws, f)
      /\ On(more, g) = IF w.flag = g /\ w.on THEN n + 1 ELSE On(ws, g)
      /\ Off(more, f) = IF w.flag = f /\ ~w.on THEN n + 1 ELSE Off(ws, f)
      /\ Off(more, g) = IF w.flag = g /\ ~w.on THEN n + 1 ELSE Off(ws, g)
  BY LastAppend
<1>3. First(more, k) = IF w.flag = "unrestricted" /\ u + 1 = k THEN n + 1
                       ELSE First(ws, k)
  BY TimeAppend DEF First
<1> DEFINE X(s) == {On(s, f), On(s, g), First(s, k)}
           Y(s) == {Off(s, f), Off(s, g)}
<1> SUFFICES Wins(X(more), Y(more))
               <=> IF w.flag \in {f, g} THEN w.on
                   ELSE \/ w.flag = "unrestricted" /\ u + 1 = k
                        \/ Wins(X(ws), Y(ws))
  BY Zenon
<1> HIDE DEF n, more, u
<1>4. CASE w.flag \in {f, g} /\ w.on
  <2>1. n + 1 \in X(more)
    BY ONLY <1>2, <1>4
  <2>2. \A y \in Y(more) : n + 1 > y
    BY ONLY <1>1, <1>2, <1>4
  <2> HIDE DEF X, Y
  <2> QED BY ONLY <1>4, <2>1, <2>2 DEF Wins
<1>5. CASE w.flag \in {f, g} /\ ~w.on
  <2>1. n + 1 \in Y(more)
    BY ONLY <1>2, <1>5
  <2>2. w.flag # "unrestricted"
    BY <1>5
  <2>3. \A x \in X(more) : ~(x > n + 1)
    BY ONLY <1>1, <1>2, <1>3, <1>5, <2>2
  <2> HIDE DEF X, Y
  <2> QED BY ONLY <1>5, <2>1, <2>3 DEF Wins
<1>6. CASE w.flag \notin {f, g} /\ w.flag = "unrestricted" /\ u + 1 = k
  <2>1. n + 1 \in X(more)
    BY ONLY <1>3, <1>6
  <2>2. \A y \in Y(more) : n + 1 > y
    BY ONLY <1>1, <1>2, <1>6
  <2> HIDE DEF X, Y
  <2> QED BY ONLY <1>6, <2>1, <2>2 DEF Wins
<1>7. CASE w.flag \notin {f, g} /\ ~(w.flag = "unrestricted" /\ u + 1 = k)
  <2>1. X(more) = X(ws) /\ Y(more) = Y(ws)
    BY ONLY <1>2, <1>3, <1>7
  <2> HIDE DEF X, Y
  <2> QED BY ONLY <1>7, <2>1
<1> QED BY <1>4, <1>5, <1>6, <1>7

LEMMA IgnoreStep ==
    ASSUME NEW W, NEW ws \in Seq(W), NEW w \in W, w.on \in BOOLEAN,
           w.flag \in AlwaysOn => w.on, NEW a, NEW b,
           IgnoreExact(a, ws), IgnoreEffect(w, a, b)
    PROVE  IgnoreExact(b, Append(ws, w))
<1> DEFINE more == Append(ws, w)
           u == Times(ws, "unrestricted", Len(ws))
<1>1. /\ u \in Nat /\ a.unrestricted = u
      /\ Times(more, "unrestricted", Len(more)) =
           u + (IF w.flag = "unrestricted" THEN 1 ELSE 0)
  <2>1. Len(more) = Len(ws) + 1
    BY AppendKeeps
  <2>2. /\ u \in Nat
        /\ Times(more, "unrestricted", Len(ws) + 1) =
             u + (IF w.flag = "unrestricted" THEN 1 ELSE 0)
    BY TimeAppend
  <2> QED BY <2>1, <2>2 DEF IgnoreExact
<1>2. Wins({On(more, "no-ignore"), On(more, "no-ignore-vcs"), First(more, 1)},
           {Off(more, "no-ignore"), Off(more, "no-ignore-vcs")})
        <=> IF w.flag \in {"no-ignore", "no-ignore-vcs"} THEN w.on
            ELSE \/ w.flag = "unrestricted" /\ u + 1 = 1
                 \/ Wins({On(ws, "no-ignore"), On(ws, "no-ignore-vcs"), First(ws, 1)},
                         {Off(ws, "no-ignore"), Off(ws, "no-ignore-vcs")})
  BY SwitchStep
<1>3. Wins({On(more, "no-ignore"), On(more, "no-ignore-dot"), First(more, 1)},
           {Off(more, "no-ignore"), Off(more, "no-ignore-dot")})
        <=> IF w.flag \in {"no-ignore", "no-ignore-dot"} THEN w.on
            ELSE \/ w.flag = "unrestricted" /\ u + 1 = 1
                 \/ Wins({On(ws, "no-ignore"), On(ws, "no-ignore-dot"), First(ws, 1)},
                         {Off(ws, "no-ignore"), Off(ws, "no-ignore-dot")})
  BY SwitchStep
<1>4. Wins({On(more, "hidden"), First(more, 2)}, {Off(more, "hidden")})
        <=> IF w.flag = "hidden" THEN w.on
            ELSE \/ w.flag = "unrestricted" /\ u + 1 = 2
                 \/ Wins({On(ws, "hidden"), First(ws, 2)}, {Off(ws, "hidden")})
  <2>1. Wins({On(more, "hidden"), On(more, "hidden"), First(more, 2)},
             {Off(more, "hidden"), Off(more, "hidden")})
          <=> IF w.flag \in {"hidden", "hidden"} THEN w.on
              ELSE \/ w.flag = "unrestricted" /\ u + 1 = 2
                   \/ Wins({On(ws, "hidden"), On(ws, "hidden"), First(ws, 2)},
                           {Off(ws, "hidden"), Off(ws, "hidden")})
    BY SwitchStep
  <2>2. \A x, y : {x, x, y} = {x, y} /\ {x, x} = {x}
    OBVIOUS
  <2> QED BY <2>1, <2>2
<1> SUFFICES IgnoreExact(b, more)
  OBVIOUS
<1> HIDE DEF more, u
<1>5. /\ b.no_ignore_vcs \in BOOLEAN /\ b.no_ignore_dot \in BOOLEAN
      /\ b.hidden \in BOOLEAN
      /\ b.unrestricted = IF w.flag = "unrestricted" THEN a.unrestricted + 1
                          ELSE a.unrestricted
  BY DEF IgnoreEffect
<1>6. b.unrestricted = Times(more, "unrestricted", Len(more))
  BY ONLY <1>1, <1>5
<1>7. b.no_ignore_vcs <=>
        Wins({On(more, "no-ignore"), On(more, "no-ignore-vcs"), First(more, 1)},
             {Off(more, "no-ignore"), Off(more, "no-ignore-vcs")})
  BY <1>1, <1>2 DEF IgnoreExact, IgnoreEffect
<1>8. b.no_ignore_dot <=>
        Wins({On(more, "no-ignore"), On(more, "no-ignore-dot"), First(more, 1)},
             {Off(more, "no-ignore"), Off(more, "no-ignore-dot")})
  BY <1>1, <1>3 DEF IgnoreExact, IgnoreEffect
<1>9. b.hidden <=> Wins({On(more, "hidden"), First(more, 2)}, {Off(more, "hidden")})
  BY <1>1, <1>4 DEF IgnoreExact, IgnoreEffect
<1> QED BY <1>5, <1>6, <1>7, <1>8, <1>9 DEF IgnoreExact

LEMMA BinaryStep ==
    ASSUME NEW W, NEW ws \in Seq(W), NEW w \in W, w.on \in BOOLEAN,
           w.flag \in AlwaysOn => w.on, NEW a, NEW b,
           a.unrestricted = Times(ws, "unrestricted", Len(ws)),
           BinaryExact(a, ws), BinaryEffect(w, a, b)
    PROVE  BinaryExact(b, Append(ws, w))
<1> DEFINE n == Len(ws)
           more == Append(ws, w)
           X(s) == {On(s, "binary"), First(s, 3)}
           Y(s) == {On(s, "text"), Off(s, "binary"), Off(s, "text")}
           V(s) == {On(s, "text")}
           Z(s) == {Off(s, "binary"), Off(s, "text")}
<1>1. /\ n \in Nat
      /\ On(ws, "binary") \in 0 .. n /\ Off(ws, "binary") \in 0 .. n
      /\ On(ws, "text") \in 0 .. n /\ Off(ws, "text") \in 0 .. n
      /\ First(ws, 3) \in 0 .. n
  BY AppendKeeps, LastAppend, TimeAppend DEF First
<1>2. /\ On(more, "binary") =
           IF w.flag = "binary" /\ w.on THEN n + 1 ELSE On(ws, "binary")
      /\ On(more, "text") = IF w.flag = "text" /\ w.on THEN n + 1 ELSE On(ws, "text")
      /\ Off(more, "binary") =
           IF w.flag = "binary" /\ ~w.on THEN n + 1 ELSE Off(ws, "binary")
      /\ Off(more, "text") =
           IF w.flag = "text" /\ ~w.on THEN n + 1 ELSE Off(ws, "text")
  BY LastAppend
<1>3. First(more, 3) = IF w.flag = "unrestricted" /\ a.unrestricted + 1 = 3 THEN n + 1
                       ELSE First(ws, 3)
  BY TimeAppend DEF First
<1> SUFFICES b.binary = IF Wins(X(more), Y(more)) THEN "SearchAndSuppress"
                        ELSE IF Wins(V(more), Z(more)) THEN "AsText" ELSE "Auto"
  BY Zenon DEF BinaryExact
<1>4. a.binary = IF Wins(X(ws), Y(ws)) THEN "SearchAndSuppress"
                 ELSE IF Wins(V(ws), Z(ws)) THEN "AsText" ELSE "Auto"
  BY Zenon DEF BinaryExact
<1> HIDE DEF n, more
<1>5. CASE \/ w.flag = "binary" /\ w.on
           \/ w.flag = "unrestricted" /\ a.unrestricted + 1 = 3
  <2>1. n + 1 \in X(more)
    BY ONLY <1>2, <1>3, <1>5
  <2>2. \A y \in Y(more) : n + 1 > y
    BY ONLY <1>1, <1>2, <1>5
  <2>3. b.binary = "SearchAndSuppress"
    BY <1>5 DEF BinaryEffect
  <2> HIDE DEF X, Y, V, Z
  <2> QED BY ONLY <2>1, <2>2, <2>3 DEF Wins
<1>6. CASE w.flag \in {"binary", "text"} /\ ~w.on
  <2>1. n + 1 \in Y(more) /\ n + 1 \in Z(more)
    BY ONLY <1>2, <1>6
  <2>2. /\ \A x \in X(more) : ~(x > n + 1)
        /\ \A x \in V(more) : ~(x > n + 1)
    BY ONLY <1>1, <1>2, <1>3, <1>6
  <2>3. b.binary = "Auto"
    BY <1>6 DEF BinaryEffect
  <2> HIDE DEF X, Y, V, Z
  <2> QED BY ONLY <2>1, <2>2, <2>3 DEF Wins
<1>7. CASE w.flag = "text" /\ w.on
  <2>1. n + 1 \in Y(more) /\ n + 1 \in V(more)
    BY ONLY <1>2, <1>7
  <2>2. /\ \A x \in X(more) : ~(x > n + 1)
        /\ \A z \in Z(more) : n + 1 > z
    BY ONLY <1>1, <1>2, <1>3, <1>7
  <2>3. b.binary = "AsText"
    BY <1>7 DEF BinaryEffect
  <2> HIDE DEF X, Y, V, Z
  <2> QED BY ONLY <2>1, <2>2, <2>3 DEF Wins
<1>8. CASE /\ w.flag \notin {"binary", "text"}
           /\ ~(w.flag = "unrestricted" /\ a.unrestricted + 1 = 3)
  <2>1. X(more) = X(ws) /\ Y(more) = Y(ws) /\ V(more) = V(ws) /\ Z(more) = Z(ws)
    BY ONLY <1>2, <1>3, <1>8
  <2>2. b.binary = a.binary
    BY <1>8 DEF BinaryEffect
  <2> HIDE DEF X, Y, V, Z
  <2> QED BY ONLY <1>4, <2>1, <2>2
<1> QED BY <1>5, <1>6, <1>7, <1>8

\* So one word more changes the arguments as it changes what the words mean.
LEMMA SourcesStep ==
    ASSUME NEW a, NEW b, SourcesExact(a), SourcesEffect(a, b)
    PROVE  SourcesExact(b)
<1>1. PICK X : a.patterns \in Seq(X)
  BY DEF SourcesExact
<1>2. CASE b.patterns = a.patterns
  BY <1>1, <1>2 DEF SourcesExact
<1>3. ASSUME NEW x, b.patterns = Append(a.patterns, x) PROVE SourcesExact(b)
  <2>1. a.patterns \in Seq(X \cup {x})
    BY <1>1
  <2>2. b.patterns \in Seq(X \cup {x})
    BY <1>3, <2>1
  <2> QED BY <2>2 DEF SourcesExact
<1> QED BY <1>2, <1>3 DEF SourcesEffect

LEMMA WordStep ==
    ASSUME NEW W, NEW ws \in Seq(W), NEW w \in W, NEW a, NEW b,
           Exact(a, ws), Effect(w, a, b)
    PROVE  Exact(b, Append(ws, w))
<1>1. w.on \in BOOLEAN /\ (w.flag \in AlwaysOn => w.on) /\ Relevant \subseteq DOMAIN b
  BY DEF Effect
<1>2. EndsExact(b, Append(ws, w))
  BY <1>1, EndsStep DEF Exact, Effect
<1>3. LinesExact(b, Append(ws, w))
  BY <1>1, LinesStep DEF Exact, Effect
<1>4. ReaderExact(b, Append(ws, w))
  BY <1>1, ReaderStep DEF Exact, Effect
<1>5. ContextExact(b, Append(ws, w))
  BY <1>1, ContextStep DEF Exact, Effect
<1>6. ModeExact(b, Append(ws, w))
  BY <1>1, ModeStep DEF Exact, Effect
<1>7. IgnoreExact(b, Append(ws, w))
  BY <1>1, IgnoreStep DEF Exact, Effect
<1>8. BinaryExact(b, Append(ws, w))
  <2>1. a.unrestricted = Times(ws, "unrestricted", Len(ws))
    BY DEF Exact, IgnoreExact
  <2> QED BY <1>1, <2>1, BinaryStep DEF Exact, Effect
<1>9. FileExact(b, Append(ws, w))
  BY <1>1, FileStep DEF Exact, Effect
<1>10. SourcesExact(b)
  BY SourcesStep DEF Exact, Effect
<1> QED
  BY <1>1, <1>2, <1>3, <1>4, <1>5, <1>6, <1>7, <1>8, <1>9, <1>10 DEF Exact

-----------------------------------------------------------------------------
(* One step for each flag.                                                 *)

\* The flags whose negation is a switch although they take a value.
Negatable == {"context-separator", "encoding", "pre"}

\* The flags the fields above depend on.
Meaningful == {"crlf", "null-data", "multiline", "stop-on-nonmatch", "pre",
               "search-zip", "passthru", "before-context", "after-context",
               "context", "no-config", "file", "regexp"} \cup ModeFlags \cup UFlags

Decided(a) ==
    /\ Relevant \subseteq DOMAIN a
    /\ a.crlf \in BOOLEAN /\ a.null_data \in BOOLEAN /\ a.multiline \in BOOLEAN
    /\ a.stop_on_nonmatch \in BOOLEAN /\ a.search_zip \in BOOLEAN
    /\ a.no_ignore_vcs \in BOOLEAN /\ a.no_ignore_dot \in BOOLEAN
    /\ a.hidden \in BOOLEAN /\ a.no_config \in BOOLEAN

KeepsBut(a, b, fields) ==
    /\ Relevant \subseteq DOMAIN b
    /\ \A x \in Relevant \ fields : b[x] = a[x]

\* A flag has no effect on the fields it leaves alone.
LEMMA Frame ==
    ASSUME NEW a, NEW b, NEW w, NEW fields, Decided(a), KeepsBut(a, b, fields)
    PROVE  /\ Relevant \subseteq DOMAIN b
           /\ /\ w.flag \notin {"crlf", "null-data"}
              /\ {"crlf", "null_data"} \cap fields = {}
              => EndsEffect(w, a, b)
           /\ /\ w.flag \notin {"multiline", "stop-on-nonmatch"}
              /\ {"multiline", "stop_on_nonmatch"} \cap fields = {}
              => LinesEffect(w, a, b)
           /\ /\ w.flag \notin {"pre", "search-zip"}
              /\ {"pre", "search_zip"} \cap fields = {}
              => ReaderEffect(w, a, b)
           /\ w.flag \notin Sides \cup {"passthru"} /\ "context" \notin fields
              => ContextEffect(w, a, b)
           /\ w.flag \notin ModeFlags /\ "mode" \notin fields
              => ModeEffect(w, a, b)
           /\ /\ w.flag \notin {"no-ignore", "no-ignore-vcs", "no-ignore-dot",
                                "hidden", "unrestricted"}
              /\ {"unrestricted", "no_ignore_vcs", "no_ignore_dot", "hidden"}
                   \cap fields = {}
              => IgnoreEffect(w, a, b)
           /\ /\ w.flag \notin {"binary", "text", "unrestricted"}
              /\ "binary" \notin fields
              => BinaryEffect(w, a, b)
           /\ w.flag # "no-config" /\ "no_config" \notin fields
              => FileEffect(w, a, b)
           /\ "patterns" \notin fields => SourcesEffect(a, b)
<1> USE DEF KeepsBut, Relevant, Decided
<1>1. ASSUME w.flag \notin {"crlf", "null-data"},
             {"crlf", "null_data"} \cap fields = {}
      PROVE  EndsEffect(w, a, b)
  <2>1. b.crlf = a.crlf /\ b.null_data = a.null_data
    BY <1>1
  <2> QED BY <1>1, <2>1 DEF EndsEffect
<1>2. ASSUME w.flag \notin {"multiline", "stop-on-nonmatch"},
             {"multiline", "stop_on_nonmatch"} \cap fields = {}
      PROVE  LinesEffect(w, a, b)
  <2>1. b.multiline = a.multiline /\ b.stop_on_nonmatch = a.stop_on_nonmatch
    BY <1>2
  <2> QED BY <1>2, <2>1 DEF LinesEffect
<1>3. ASSUME w.flag \notin {"pre", "search-zip"},
             {"pre", "search_zip"} \cap fields = {}
      PROVE  ReaderEffect(w, a, b)
  <2>1. b.pre = a.pre /\ b.search_zip = a.search_zip
    BY <1>3
  <2> QED BY <1>3, <2>1 DEF ReaderEffect
<1>4. ASSUME w.flag \notin Sides \cup {"passthru"}, "context" \notin fields
      PROVE  ContextEffect(w, a, b)
  <2>1. b.context = a.context
    BY <1>4
  <2> QED BY <1>4, <2>1 DEF ContextEffect, Sides
<1>5. ASSUME w.flag \notin ModeFlags, "mode" \notin fields
      PROVE  ModeEffect(w, a, b)
  <2>1. b.mode = a.mode
    BY <1>5
  <2> QED BY <1>5, <2>1 DEF ModeEffect, ModeFlags
<1>6. ASSUME w.flag \notin {"no-ignore", "no-ignore-vcs", "no-ignore-dot",
                            "hidden", "unrestricted"},
             {"unrestricted", "no_ignore_vcs", "no_ignore_dot", "hidden"}
               \cap fields = {}
      PROVE  IgnoreEffect(w, a, b)
  <2>1. /\ b.unrestricted = a.unrestricted /\ b.no_ignore_vcs = a.no_ignore_vcs
        /\ b.no_ignore_dot = a.no_ignore_dot /\ b.hidden = a.hidden
    BY <1>6
  <2> QED BY <1>6, <2>1 DEF IgnoreEffect
<1>7. ASSUME w.flag \notin {"binary", "text", "unrestricted"}, "binary" \notin fields
      PROVE  BinaryEffect(w, a, b)
  <2>1. b.binary = a.binary
    BY <1>7
  <2> QED BY <1>7, <2>1 DEF BinaryEffect
<1>8. ASSUME w.flag # "no-config", "no_config" \notin fields
      PROVE  FileEffect(w, a, b)
  <2>1. b.no_config = a.no_config
    BY <1>8
  <2> QED BY <1>8, <2>1 DEF FileEffect
<1>9. Relevant \subseteq DOMAIN b
  OBVIOUS
<1>10. ASSUME "patterns" \notin fields PROVE SourcesEffect(a, b)
  BY <1>10 DEF SourcesEffect
<1> HIDE DEF KeepsBut, Relevant, Decided
<1> QED BY <1>1, <1>2, <1>3, <1>4, <1>5, <1>6, <1>7, <1>8, <1>9, <1>10

\* Nor does any other flag have one.
LEMMA OtherEffect ==
    ASSUME NEW a, NEW b, NEW w, Decided(a), KeepsBut(a, b, {}),
           w.on \in BOOLEAN, w.flag \notin Meaningful
    PROVE  Effect(w, a, b)
<1>1. /\ w.flag \notin {"crlf", "null-data"}
      /\ w.flag \notin {"multiline", "stop-on-nonmatch"}
      /\ w.flag \notin {"pre", "search-zip"}
      /\ w.flag \notin Sides \cup {"passthru"} /\ w.flag \notin ModeFlags
      /\ w.flag \notin {"no-ignore", "no-ignore-vcs", "no-ignore-dot", "hidden",
                        "unrestricted"}
      /\ w.flag \notin {"binary", "text", "unrestricted"} /\ w.flag # "no-config"
      /\ w.flag \notin AlwaysOn
  BY DEF Meaningful, UFlags, Sides, AlwaysOn
<1>2. \A s : s \cap {} = {} /\ s \notin {}
  OBVIOUS
<1>3. /\ Relevant \subseteq DOMAIN b
      /\ EndsEffect(w, a, b) /\ LinesEffect(w, a, b) /\ ReaderEffect(w, a, b)
  BY <1>1, <1>2, Frame
<1>4. /\ ContextEffect(w, a, b) /\ ModeEffect(w, a, b) /\ IgnoreEffect(w, a, b)
      /\ BinaryEffect(w, a, b) /\ FileEffect(w, a, b) /\ SourcesEffect(a, b)
  BY <1>1, <1>2, Frame
<1> QED BY <1>1, <1>3, <1>4 DEF Effect

\* The switches that change none of the fields: the updates in defs.rs that take
\* FlagValue::Switch.
LEMMA SwitchOthers ==
    ASSUME NEW a, Relevant \subseteq DOMAIN a, NEW yes \in BOOLEAN,
           NEW flag \in (Switches \cup Negatable) \ Meaningful
    PROVE  KeepsBut(a, SwitchUpdate(flag, yes, a), {})
<1> USE DEF KeepsBut, Relevant
<1>1. CASE flag = "auto-hybrid-regex" BY <1>1 DEF SwitchUpdate, AutoHybridRegex
<1>2. CASE flag = "block-buffered" BY <1>2 DEF SwitchUpdate, BlockBuffered
<1>3. CASE flag = "byte-offset" BY <1>3 DEF SwitchUpdate, ByteOffset
<1>4. CASE flag = "case-sensitive" BY <1>4 DEF SwitchUpdate, CaseSensitive
<1>5. CASE flag = "column" BY <1>5 DEF SwitchUpdate, Column
<1>6. CASE flag = "debug" BY <1>6 DEF SwitchUpdate, Debug
<1>7. CASE flag = "fixed-strings" BY <1>7 DEF SwitchUpdate, FixedStrings
<1>8. CASE flag = "follow" BY <1>8 DEF SwitchUpdate, Follow
<1>9. CASE flag = "git-blame" BY <1>9 DEF SwitchUpdate, GitBlame
<1>10. CASE flag = "no-git-blame" BY <1>10 DEF SwitchUpdate, NoGitBlame
<1>11. CASE flag = "glob-case-insensitive"
  BY <1>11 DEF SwitchUpdate, GlobCaseInsensitive
<1>12. CASE flag = "heading" BY <1>12 DEF SwitchUpdate, Heading
<1>13. CASE flag = "help" BY <1>13 DEF SwitchUpdate, Help
<1>14. CASE flag = "ignore-case" BY <1>14 DEF SwitchUpdate, IgnoreCase
<1>15. CASE flag = "ignore-file-case-insensitive"
  BY <1>15 DEF SwitchUpdate, IgnoreFileCaseInsensitive
<1>16. CASE flag = "include-zero" BY <1>16 DEF SwitchUpdate, IncludeZero
<1>17. CASE flag = "invert-match" BY <1>17 DEF SwitchUpdate, InvertMatch
<1>18. CASE flag = "line-buffered" BY <1>18 DEF SwitchUpdate, LineBuffered
<1>19. CASE flag = "line-number" BY <1>19 DEF SwitchUpdate, LineNumber
<1>20. CASE flag = "no-line-number" BY <1>20 DEF SwitchUpdate, LineNumberNo
<1>21. CASE flag = "line-regexp" BY <1>21 DEF SwitchUpdate, LineRegexp
<1>22. CASE flag = "max-columns-preview"
  BY <1>22 DEF SwitchUpdate, MaxColumnsPreview
<1>23. CASE flag = "mmap" BY <1>23 DEF SwitchUpdate, Mmap
<1>24. CASE flag = "multiline-dotall"
  BY <1>24 DEF SwitchUpdate, MultilineDotall
<1>25. CASE flag = "no-ignore-exclude"
  BY <1>25 DEF SwitchUpdate, NoIgnoreExclude
<1>26. CASE flag = "no-ignore-files" BY <1>26 DEF SwitchUpdate, NoIgnoreFiles
<1>27. CASE flag = "no-ignore-global" BY <1>27 DEF SwitchUpdate, NoIgnoreGlobal
<1>28. CASE flag = "no-ignore-messages"
  BY <1>28 DEF SwitchUpdate, NoIgnoreMessages
<1>29. CASE flag = "no-ignore-parent" BY <1>29 DEF SwitchUpdate, NoIgnoreParent
<1>30. CASE flag = "no-messages" BY <1>30 DEF SwitchUpdate, NoMessages
<1>31. CASE flag = "no-pcre2-unicode" BY <1>31 DEF SwitchUpdate, NoPcre2Unicode
<1>32. CASE flag = "no-require-git" BY <1>32 DEF SwitchUpdate, NoRequireGit
<1>33. CASE flag = "no-unicode" BY <1>33 DEF SwitchUpdate, NoUnicode
<1>34. CASE flag = "null" BY <1>34 DEF SwitchUpdate, Null
<1>35. CASE flag = "one-file-system" BY <1>35 DEF SwitchUpdate, OneFileSystem
<1>36. CASE flag = "only-matching" BY <1>36 DEF SwitchUpdate, OnlyMatching
<1>37. CASE flag = "pcre2" BY <1>37 DEF SwitchUpdate, PCRE2
<1>38. CASE flag = "pcre2-version" BY <1>38 DEF SwitchUpdate, PCRE2Version
<1>39. CASE flag = "pretty"
  <2>1. SwitchUpdate(flag, yes, a) = Pretty(a)
    BY <1>39 DEF SwitchUpdate
  <2>2. /\ DOMAIN Pretty(a) = DOMAIN a
        /\ \A x \in Relevant : Pretty(a)[x] = a[x]
    BY DEF Pretty
  <2> QED BY ONLY <2>1, <2>2, Relevant \subseteq DOMAIN a DEF KeepsBut
<1>40. CASE flag = "quiet" BY <1>40 DEF SwitchUpdate, Quiet
<1>41. CASE flag = "smart-case" BY <1>41 DEF SwitchUpdate, SmartCase
<1>42. CASE flag = "sort-files" BY <1>42 DEF SwitchUpdate, SortFiles
<1>43. CASE flag = "stats" BY <1>43 DEF SwitchUpdate, Stats
<1>44. CASE flag = "trace" BY <1>44 DEF SwitchUpdate, Trace
<1>45. CASE flag = "trim" BY <1>45 DEF SwitchUpdate, Trim
<1>46. CASE flag = "version" BY <1>46 DEF SwitchUpdate, Version
<1>47. CASE flag = "vimgrep" BY <1>47 DEF SwitchUpdate, Vimgrep
<1>48. CASE flag = "with-filename" BY <1>48 DEF SwitchUpdate, WithFilename
<1>49. CASE flag = "no-filename" BY <1>49 DEF SwitchUpdate, WithFilenameNo
<1>50. CASE flag = "word-regexp" BY <1>50 DEF SwitchUpdate, WordRegexp
<1>51. CASE flag = "context-separator"
  BY <1>51 DEF SwitchUpdate, ContextSeparatorOff
<1>52. CASE flag = "encoding" BY <1>52 DEF SwitchUpdate, EncodingOff
<1> QED
  BY <1>1, <1>2, <1>3, <1>4, <1>5, <1>6, <1>7, <1>8, <1>9, <1>10, <1>11,
     <1>12, <1>13, <1>14, <1>15, <1>16, <1>17, <1>18, <1>19, <1>20, <1>21,
     <1>22, <1>23, <1>24, <1>25, <1>26, <1>27, <1>28, <1>29, <1>30, <1>31,
     <1>32, <1>33, <1>34, <1>35, <1>36, <1>37, <1>38, <1>39, <1>40, <1>41,
     <1>42, <1>43, <1>44, <1>45, <1>46, <1>47, <1>48, <1>49, <1>50, <1>51,
     <1>52
     DEF Switches, Negatable, Valued, Meaningful, ModeFlags, UFlags

\* The flags with a value that change none: those that take FlagValue::Value.
LEMMA ValueOthers ==
    ASSUME NEW a, Relevant \subseteq DOMAIN a, NEW v,
           NEW flag \in Valued \ Meaningful
    PROVE  KeepsBut(a, ValueUpdate(flag, v, a), {})
<1> USE DEF KeepsBut, Relevant
<1>1. CASE flag = "color" BY <1>1 DEF ValueUpdate, Color
<1>2. CASE flag = "colors" BY <1>2 DEF ValueUpdate, Colors
<1>3. CASE flag = "context-separator" BY <1>3 DEF ValueUpdate, ContextSeparator
<1>4. CASE flag = "dfa-size-limit" BY <1>4 DEF ValueUpdate, DfaSizeLimit
<1>5. CASE flag = "encoding" BY <1>5 DEF ValueUpdate, Encoding
<1>6. CASE flag = "engine" BY <1>6 DEF ValueUpdate, Engine
<1>7. CASE flag = "field-context-separator"
  BY <1>7 DEF ValueUpdate, FieldContextSeparator
<1>8. CASE flag = "field-match-separator"
  BY <1>8 DEF ValueUpdate, FieldMatchSeparator
<1>9. CASE flag = "glob" BY <1>9 DEF ValueUpdate, Glob
<1>10. CASE flag = "hostname-bin" BY <1>10 DEF ValueUpdate, HostnameBin
<1>11. CASE flag = "hyperlink-format" BY <1>11 DEF ValueUpdate, HyperlinkFormat
<1>12. CASE flag = "iglob" BY <1>12 DEF ValueUpdate, IGlob
<1>13. CASE flag = "ignore-file" BY <1>13 DEF ValueUpdate, IgnoreFile
<1>14. CASE flag = "max-columns" BY <1>14 DEF ValueUpdate, MaxColumns
<1>15. CASE flag = "max-count" BY <1>15 DEF ValueUpdate, MaxCount
<1>16. CASE flag = "max-depth" BY <1>16 DEF ValueUpdate, MaxDepth
<1>17. CASE flag = "max-filesize" BY <1>17 DEF ValueUpdate, MaxFilesize
<1>18. CASE flag = "path-separator" BY <1>18 DEF ValueUpdate, PathSeparator
<1>19. CASE flag = "pre-glob" BY <1>19 DEF ValueUpdate, PreGlob
<1>20. CASE flag = "regex-size-limit" BY <1>20 DEF ValueUpdate, RegexSizeLimit
<1>21. CASE flag = "replace" BY <1>21 DEF ValueUpdate, Replace
<1>22. CASE flag = "sort" BY <1>22 DEF ValueUpdate, Sort
<1>23. CASE flag = "sortr" BY <1>23 DEF ValueUpdate, Sortr
<1>24. CASE flag = "threads" BY <1>24 DEF ValueUpdate, Threads
<1>25. CASE flag = "type" BY <1>25 DEF ValueUpdate, Type
<1>26. CASE flag = "type-add" BY <1>26 DEF ValueUpdate, TypeAdd
<1>27. CASE flag = "type-clear" BY <1>27 DEF ValueUpdate, TypeClear
<1>28. CASE flag = "type-not" BY <1>28 DEF ValueUpdate, TypeNot
<1> QED
  BY <1>1, <1>2, <1>3, <1>4, <1>5, <1>6, <1>7, <1>8, <1>9, <1>10, <1>11,
     <1>12, <1>13, <1>14, <1>15, <1>16, <1>17, <1>18, <1>19, <1>20, <1>21,
     <1>22, <1>23, <1>24, <1>25, <1>26, <1>27, <1>28
     DEF Switches, Negatable, Valued, Meaningful, ModeFlags, UFlags

\* A flag has only the effect on the fields it changes to be checked.
LEMMA EndsOnly ==
    ASSUME NEW a, NEW b, NEW w, Decided(a), w.on \in BOOLEAN,
           w.flag \in AlwaysOn => w.on, w.flag \in {"crlf", "null-data"},
           KeepsBut(a, b, {"crlf", "null_data"}), EndsEffect(w, a, b)
    PROVE  Effect(w, a, b)
<1> DEFINE fields == {"crlf", "null_data"}
<1>1. KeepsBut(a, b, fields)
  OBVIOUS
<1>2. /\ {"multiline", "stop_on_nonmatch"} \cap fields = {}
      /\ {"pre", "search_zip"} \cap fields = {}
      /\ "context" \notin fields
      /\ "mode" \notin fields
      /\ {"unrestricted", "no_ignore_vcs", "no_ignore_dot", "hidden"} \cap fields = {}
      /\ "binary" \notin fields
      /\ "no_config" \notin fields
      /\ "patterns" \notin fields
  OBVIOUS
<1>3. /\ w.flag \notin {"multiline", "stop-on-nonmatch"}
      /\ w.flag \notin {"pre", "search-zip"}
      /\ w.flag \notin Sides \cup {"passthru"}
      /\ w.flag \notin ModeFlags
      /\ w.flag \notin {"no-ignore", "no-ignore-vcs", "no-ignore-dot", "hidden",
                        "unrestricted"}
      /\ w.flag \notin {"binary", "text", "unrestricted"}
      /\ w.flag # "no-config"
  BY DEF Sides, ModeFlags
<1> HIDE DEF fields
<1>4. /\ Relevant \subseteq DOMAIN b
      /\ LinesEffect(w, a, b) /\ ReaderEffect(w, a, b) /\ ContextEffect(w, a, b)
      /\ ModeEffect(w, a, b) /\ IgnoreEffect(w, a, b) /\ BinaryEffect(w, a, b)
      /\ FileEffect(w, a, b)
      /\ SourcesEffect(a, b)
  BY <1>1, <1>2, <1>3, Frame
<1> QED BY <1>4 DEF Effect

LEMMA LinesOnly ==
    ASSUME NEW a, NEW b, NEW w, Decided(a), w.on \in BOOLEAN,
           w.flag \in AlwaysOn => w.on, w.flag \in {"multiline", "stop-on-nonmatch"},
           KeepsBut(a, b, {"multiline", "stop_on_nonmatch"}), LinesEffect(w, a, b)
    PROVE  Effect(w, a, b)
<1> DEFINE fields == {"multiline", "stop_on_nonmatch"}
<1>1. KeepsBut(a, b, fields)
  OBVIOUS
<1>2. /\ {"crlf", "null_data"} \cap fields = {}
      /\ {"pre", "search_zip"} \cap fields = {}
      /\ "context" \notin fields
      /\ "mode" \notin fields
      /\ {"unrestricted", "no_ignore_vcs", "no_ignore_dot", "hidden"} \cap fields = {}
      /\ "binary" \notin fields
      /\ "no_config" \notin fields
      /\ "patterns" \notin fields
  OBVIOUS
<1>3. /\ w.flag \notin {"crlf", "null-data"}
      /\ w.flag \notin {"pre", "search-zip"}
      /\ w.flag \notin Sides \cup {"passthru"}
      /\ w.flag \notin ModeFlags
      /\ w.flag \notin {"no-ignore", "no-ignore-vcs", "no-ignore-dot", "hidden",
                        "unrestricted"}
      /\ w.flag \notin {"binary", "text", "unrestricted"}
      /\ w.flag # "no-config"
  BY DEF Sides, ModeFlags
<1> HIDE DEF fields
<1>4. /\ Relevant \subseteq DOMAIN b
      /\ EndsEffect(w, a, b) /\ ReaderEffect(w, a, b) /\ ContextEffect(w, a, b)
      /\ ModeEffect(w, a, b) /\ IgnoreEffect(w, a, b) /\ BinaryEffect(w, a, b)
      /\ FileEffect(w, a, b)
      /\ SourcesEffect(a, b)
  BY <1>1, <1>2, <1>3, Frame
<1> QED BY <1>4 DEF Effect

LEMMA ReaderOnly ==
    ASSUME NEW a, NEW b, NEW w, Decided(a), w.on \in BOOLEAN,
           w.flag \in AlwaysOn => w.on, w.flag \in {"pre", "search-zip"},
           KeepsBut(a, b, {"pre", "search_zip"}), ReaderEffect(w, a, b)
    PROVE  Effect(w, a, b)
<1> DEFINE fields == {"pre", "search_zip"}
<1>1. KeepsBut(a, b, fields)
  OBVIOUS
<1>2. /\ {"crlf", "null_data"} \cap fields = {}
      /\ {"multiline", "stop_on_nonmatch"} \cap fields = {}
      /\ "context" \notin fields
      /\ "mode" \notin fields
      /\ {"unrestricted", "no_ignore_vcs", "no_ignore_dot", "hidden"} \cap fields = {}
      /\ "binary" \notin fields
      /\ "no_config" \notin fields
      /\ "patterns" \notin fields
  OBVIOUS
<1>3. /\ w.flag \notin {"crlf", "null-data"}
      /\ w.flag \notin {"multiline", "stop-on-nonmatch"}
      /\ w.flag \notin Sides \cup {"passthru"}
      /\ w.flag \notin ModeFlags
      /\ w.flag \notin {"no-ignore", "no-ignore-vcs", "no-ignore-dot", "hidden",
                        "unrestricted"}
      /\ w.flag \notin {"binary", "text", "unrestricted"}
      /\ w.flag # "no-config"
  BY DEF Sides, ModeFlags
<1> HIDE DEF fields
<1>4. /\ Relevant \subseteq DOMAIN b
      /\ EndsEffect(w, a, b) /\ LinesEffect(w, a, b) /\ ContextEffect(w, a, b)
      /\ ModeEffect(w, a, b) /\ IgnoreEffect(w, a, b) /\ BinaryEffect(w, a, b)
      /\ FileEffect(w, a, b)
      /\ SourcesEffect(a, b)
  BY <1>1, <1>2, <1>3, Frame
<1> QED BY <1>4 DEF Effect

LEMMA ContextOnly ==
    ASSUME NEW a, NEW b, NEW w, Decided(a), w.on \in BOOLEAN,
           w.flag \in AlwaysOn => w.on, w.flag \in Sides \cup {"passthru"},
           KeepsBut(a, b, {"context"}), ContextEffect(w, a, b)
    PROVE  Effect(w, a, b)
<1> DEFINE fields == {"context"}
<1>1. KeepsBut(a, b, fields)
  OBVIOUS
<1>2. /\ {"crlf", "null_data"} \cap fields = {}
      /\ {"multiline", "stop_on_nonmatch"} \cap fields = {}
      /\ {"pre", "search_zip"} \cap fields = {}
      /\ "mode" \notin fields
      /\ {"unrestricted", "no_ignore_vcs", "no_ignore_dot", "hidden"} \cap fields = {}
      /\ "binary" \notin fields
      /\ "no_config" \notin fields
      /\ "patterns" \notin fields
  OBVIOUS
<1>3. /\ w.flag \notin {"crlf", "null-data"}
      /\ w.flag \notin {"multiline", "stop-on-nonmatch"}
      /\ w.flag \notin {"pre", "search-zip"}
      /\ w.flag \notin ModeFlags
      /\ w.flag \notin {"no-ignore", "no-ignore-vcs", "no-ignore-dot", "hidden",
                        "unrestricted"}
      /\ w.flag \notin {"binary", "text", "unrestricted"}
      /\ w.flag # "no-config"
  BY DEF Sides, ModeFlags
<1> HIDE DEF fields
<1>4. /\ Relevant \subseteq DOMAIN b
      /\ EndsEffect(w, a, b) /\ LinesEffect(w, a, b) /\ ReaderEffect(w, a, b)
      /\ ModeEffect(w, a, b) /\ IgnoreEffect(w, a, b) /\ BinaryEffect(w, a, b)
      /\ FileEffect(w, a, b)
      /\ SourcesEffect(a, b)
  BY <1>1, <1>2, <1>3, Frame
<1> QED BY <1>4 DEF Effect

LEMMA ModeOnly ==
    ASSUME NEW a, NEW b, NEW w, Decided(a), w.on \in BOOLEAN,
           w.flag \in AlwaysOn => w.on, w.flag \in ModeFlags,
           KeepsBut(a, b, {"mode"}), ModeEffect(w, a, b)
    PROVE  Effect(w, a, b)
<1> DEFINE fields == {"mode"}
<1>1. KeepsBut(a, b, fields)
  OBVIOUS
<1>2. /\ {"crlf", "null_data"} \cap fields = {}
      /\ {"multiline", "stop_on_nonmatch"} \cap fields = {}
      /\ {"pre", "search_zip"} \cap fields = {}
      /\ "context" \notin fields
      /\ {"unrestricted", "no_ignore_vcs", "no_ignore_dot", "hidden"} \cap fields = {}
      /\ "binary" \notin fields
      /\ "no_config" \notin fields
      /\ "patterns" \notin fields
  OBVIOUS
<1>3. /\ w.flag \notin {"crlf", "null-data"}
      /\ w.flag \notin {"multiline", "stop-on-nonmatch"}
      /\ w.flag \notin {"pre", "search-zip"}
      /\ w.flag \notin Sides \cup {"passthru"}
      /\ w.flag \notin {"no-ignore", "no-ignore-vcs", "no-ignore-dot", "hidden",
                        "unrestricted"}
      /\ w.flag \notin {"binary", "text", "unrestricted"}
      /\ w.flag # "no-config"
  BY DEF Sides, ModeFlags
<1> HIDE DEF fields
<1>4. /\ Relevant \subseteq DOMAIN b
      /\ EndsEffect(w, a, b) /\ LinesEffect(w, a, b) /\ ReaderEffect(w, a, b)
      /\ ContextEffect(w, a, b) /\ IgnoreEffect(w, a, b)
      /\ BinaryEffect(w, a, b) /\ FileEffect(w, a, b)
      /\ SourcesEffect(a, b)
  BY <1>1, <1>2, <1>3, Frame
<1> QED BY <1>4 DEF Effect

LEMMA IgnoreOnly ==
    ASSUME NEW a, NEW b, NEW w, Decided(a), w.on \in BOOLEAN,
           w.flag \in AlwaysOn => w.on,
           w.flag \in {"no-ignore", "no-ignore-vcs", "no-ignore-dot", "hidden"},
           KeepsBut(a, b, {"no_ignore_vcs", "no_ignore_dot", "hidden"}),
           IgnoreEffect(w, a, b)
    PROVE  Effect(w, a, b)
<1> DEFINE fields == {"no_ignore_vcs", "no_ignore_dot", "hidden"}
<1>1. KeepsBut(a, b, fields)
  OBVIOUS
<1>2. /\ {"crlf", "null_data"} \cap fields = {}
      /\ {"multiline", "stop_on_nonmatch"} \cap fields = {}
      /\ {"pre", "search_zip"} \cap fields = {}
      /\ "context" \notin fields
      /\ "mode" \notin fields
      /\ "binary" \notin fields
      /\ "no_config" \notin fields
      /\ "patterns" \notin fields
  OBVIOUS
<1>3. /\ w.flag \notin {"crlf", "null-data"}
      /\ w.flag \notin {"multiline", "stop-on-nonmatch"}
      /\ w.flag \notin {"pre", "search-zip"}
      /\ w.flag \notin Sides \cup {"passthru"}
      /\ w.flag \notin ModeFlags
      /\ w.flag \notin {"binary", "text", "unrestricted"}
      /\ w.flag # "no-config"
  BY DEF Sides, ModeFlags
<1> HIDE DEF fields
<1>4. /\ Relevant \subseteq DOMAIN b
      /\ EndsEffect(w, a, b) /\ LinesEffect(w, a, b) /\ ReaderEffect(w, a, b)
      /\ ContextEffect(w, a, b) /\ ModeEffect(w, a, b) /\ BinaryEffect(w, a, b)
      /\ FileEffect(w, a, b)
      /\ SourcesEffect(a, b)
  BY <1>1, <1>2, <1>3, Frame
<1> QED BY <1>4 DEF Effect

LEMMA BinaryOnly ==
    ASSUME NEW a, NEW b, NEW w, Decided(a), w.on \in BOOLEAN,
           w.flag \in AlwaysOn => w.on, w.flag \in {"binary", "text"},
           KeepsBut(a, b, {"binary"}), BinaryEffect(w, a, b)
    PROVE  Effect(w, a, b)
<1> DEFINE fields == {"binary"}
<1>1. KeepsBut(a, b, fields)
  OBVIOUS
<1>2. /\ {"crlf", "null_data"} \cap fields = {}
      /\ {"multiline", "stop_on_nonmatch"} \cap fields = {}
      /\ {"pre", "search_zip"} \cap fields = {}
      /\ "context" \notin fields
      /\ "mode" \notin fields
      /\ {"unrestricted", "no_ignore_vcs", "no_ignore_dot", "hidden"} \cap fields = {}
      /\ "no_config" \notin fields
      /\ "patterns" \notin fields
  OBVIOUS
<1>3. /\ w.flag \notin {"crlf", "null-data"}
      /\ w.flag \notin {"multiline", "stop-on-nonmatch"}
      /\ w.flag \notin {"pre", "search-zip"}
      /\ w.flag \notin Sides \cup {"passthru"}
      /\ w.flag \notin ModeFlags
      /\ w.flag \notin {"no-ignore", "no-ignore-vcs", "no-ignore-dot", "hidden",
                        "unrestricted"}
      /\ w.flag # "no-config"
  BY DEF Sides, ModeFlags
<1> HIDE DEF fields
<1>4. /\ Relevant \subseteq DOMAIN b
      /\ EndsEffect(w, a, b) /\ LinesEffect(w, a, b) /\ ReaderEffect(w, a, b)
      /\ ContextEffect(w, a, b) /\ ModeEffect(w, a, b) /\ IgnoreEffect(w, a, b)
      /\ FileEffect(w, a, b)
      /\ SourcesEffect(a, b)
  BY <1>1, <1>2, <1>3, Frame
<1> QED BY <1>4 DEF Effect

LEMMA FileOnly ==
    ASSUME NEW a, NEW b, NEW w, Decided(a), w.on \in BOOLEAN,
           w.flag \in AlwaysOn => w.on, w.flag = "no-config",
           KeepsBut(a, b, {"no_config"}), FileEffect(w, a, b)
    PROVE  Effect(w, a, b)
<1> DEFINE fields == {"no_config"}
<1>1. KeepsBut(a, b, fields)
  OBVIOUS
<1>2. /\ {"crlf", "null_data"} \cap fields = {}
      /\ {"multiline", "stop_on_nonmatch"} \cap fields = {}
      /\ {"pre", "search_zip"} \cap fields = {}
      /\ "context" \notin fields
      /\ "mode" \notin fields
      /\ {"unrestricted", "no_ignore_vcs", "no_ignore_dot", "hidden"} \cap fields = {}
      /\ "binary" \notin fields
      /\ "patterns" \notin fields
  OBVIOUS
<1>3. /\ w.flag \notin {"crlf", "null-data"}
      /\ w.flag \notin {"multiline", "stop-on-nonmatch"}
      /\ w.flag \notin {"pre", "search-zip"}
      /\ w.flag \notin Sides \cup {"passthru"}
      /\ w.flag \notin ModeFlags
      /\ w.flag \notin {"no-ignore", "no-ignore-vcs", "no-ignore-dot", "hidden",
                        "unrestricted"}
      /\ w.flag \notin {"binary", "text", "unrestricted"}
  BY DEF Sides, ModeFlags
<1> HIDE DEF fields
<1>4. /\ Relevant \subseteq DOMAIN b
      /\ EndsEffect(w, a, b) /\ LinesEffect(w, a, b) /\ ReaderEffect(w, a, b)
      /\ ContextEffect(w, a, b) /\ ModeEffect(w, a, b) /\ IgnoreEffect(w, a, b)
      /\ BinaryEffect(w, a, b)
      /\ SourcesEffect(a, b)
  BY <1>1, <1>2, <1>3, Frame
<1> QED BY <1>4 DEF Effect

\* Each switch has the effect of its word: update, in each impl Flag of
LEMMA SourcesOnly ==
    ASSUME NEW a, NEW b, NEW w, Decided(a), w.on \in BOOLEAN,
           w.flag \in {"file", "regexp"}, KeepsBut(a, b, {"patterns"}),
           SourcesEffect(a, b)
    PROVE  Effect(w, a, b)
<1> DEFINE fields == {"patterns"}
<1>1. KeepsBut(a, b, fields)
  OBVIOUS
<1>2. /\ {"crlf", "null_data"} \cap fields = {}
      /\ {"multiline", "stop_on_nonmatch"} \cap fields = {}
      /\ {"pre", "search_zip"} \cap fields = {}
      /\ "context" \notin fields
      /\ "mode" \notin fields
      /\ {"unrestricted", "no_ignore_vcs", "no_ignore_dot", "hidden"} \cap fields = {}
      /\ "binary" \notin fields
      /\ "no_config" \notin fields
  OBVIOUS
<1>3. /\ w.flag \notin {"crlf", "null-data"}
      /\ w.flag \notin {"multiline", "stop-on-nonmatch"}
      /\ w.flag \notin {"pre", "search-zip"}
      /\ w.flag \notin Sides \cup {"passthru"}
      /\ w.flag \notin ModeFlags
      /\ w.flag \notin {"no-ignore", "no-ignore-vcs", "no-ignore-dot", "hidden",
                        "unrestricted"}
      /\ w.flag \notin {"binary", "text", "unrestricted"}
      /\ w.flag # "no-config" /\ w.flag \notin AlwaysOn
  BY DEF Sides, ModeFlags, AlwaysOn
<1> HIDE DEF fields
<1>4. /\ Relevant \subseteq DOMAIN b
      /\ EndsEffect(w, a, b) /\ LinesEffect(w, a, b) /\ ReaderEffect(w, a, b)
      /\ ContextEffect(w, a, b) /\ ModeEffect(w, a, b) /\ IgnoreEffect(w, a, b)
      /\ BinaryEffect(w, a, b) /\ FileEffect(w, a, b)
  BY <1>1, <1>2, <1>3, Frame
<1> QED BY <1>3, <1>4 DEF Effect

\* defs.rs, given FlagValue::Switch.
LEMMA SwitchEffect ==
    ASSUME NEW a, Decided(a), a.unrestricted \in Nat, NEW yes \in BOOLEAN,
           NEW flag \in Switches \cup Negatable, NEW text,
           flag \in AlwaysOn => yes, flag \in Negatable => ~yes
    PROVE  Effect([flag |-> flag, on |-> yes, text |-> text], a,
                  SwitchUpdate(flag, yes, a))
<1> DEFINE w == [flag |-> flag, on |-> yes, text |-> text]
           b == SwitchUpdate(flag, yes, a)
<1>1. /\ w.flag = flag /\ (w.on <=> yes) /\ w.on \in BOOLEAN
      /\ w.flag \in AlwaysOn => w.on
  OBVIOUS
<1>2. \/ flag \notin Meaningful
      \/ flag \in {"binary", "count", "count-matches", "crlf", "files",
                   "files-with-matches", "files-without-match", "hidden", "json",
                   "multiline", "no-config", "no-ignore", "no-ignore-dot",
                   "no-ignore-vcs", "null-data", "passthru", "search-zip",
                   "stop-on-nonmatch", "text", "type-list", "unrestricted", "pre"}
  BY DEF Switches, Negatable, Meaningful, ModeFlags, UFlags
<1> SUFFICES Effect(w, a, b)
  OBVIOUS
<1>3. CASE flag \notin Meaningful
  <2>1. KeepsBut(a, b, {})
    BY <1>3, SwitchOthers DEF Decided
  <2> QED BY <1>1, <1>3, <2>1, OtherEffect
<1>4. CASE flag = "binary"
  <2>1. b = Binary(yes, a)
    BY <1>4 DEF SwitchUpdate
  <2>2. KeepsBut(a, b, {"binary"})
    BY ONLY <2>1, Decided(a) DEF KeepsBut, Relevant, Decided, Binary
  <2>3. /\ b.binary = IF yes THEN "SearchAndSuppress" ELSE "Auto"
    BY ONLY <2>1, Decided(a) DEF Relevant, Decided, Binary
  <2>4. BinaryEffect(w, a, b)
    BY <1>4, <1>1, <2>3 DEF BinaryEffect
  <2>5. w.flag \in {"binary", "text"}
    BY <1>4, <1>1
  <2> QED BY <1>1, <2>2, <2>4, <2>5, BinaryOnly
<1>5. CASE flag = "count"
  <2>1. b = Count(a)
    BY <1>5 DEF SwitchUpdate
  <2>2. KeepsBut(a, b, {"mode"})
    BY ONLY <2>1, Decided(a) DEF KeepsBut, Relevant, Decided, Count
  <2>3. /\ b.mode = "Count"
    BY ONLY <2>1, Decided(a) DEF Relevant, Decided, Count, ModeUpdate
  <2>4. ModeEffect(w, a, b)
    BY <1>5, <1>1, <2>3 DEF ModeEffect, ModeOf, ModeFlags
  <2>5. w.flag \in ModeFlags
    BY <1>5, <1>1 DEF ModeFlags
  <2> QED BY <1>1, <2>2, <2>4, <2>5, ModeOnly
<1>6. CASE flag = "count-matches"
  <2>1. b = CountMatches(a)
    BY <1>6 DEF SwitchUpdate
  <2>2. KeepsBut(a, b, {"mode"})
    BY ONLY <2>1, Decided(a) DEF KeepsBut, Relevant, Decided, CountMatches
  <2>3. /\ b.mode = "CountMatches"
    BY ONLY <2>1, Decided(a) DEF Relevant, Decided, CountMatches, ModeUpdate
  <2>4. ModeEffect(w, a, b)
    BY <1>6, <1>1, <2>3 DEF ModeEffect, ModeOf, ModeFlags
  <2>5. w.flag \in ModeFlags
    BY <1>6, <1>1 DEF ModeFlags
  <2> QED BY <1>1, <2>2, <2>4, <2>5, ModeOnly
<1>7. CASE flag = "crlf"
  <2>1. b = Crlf(yes, a)
    BY <1>7 DEF SwitchUpdate
  <2>2. KeepsBut(a, b, {"crlf", "null_data"})
    BY ONLY <2>1, Decided(a) DEF KeepsBut, Relevant, Decided, Crlf
  <2>3. /\ b.crlf = yes
        /\ b.null_data = (a.null_data /\ ~yes)
    BY ONLY <2>1, Decided(a) DEF Relevant, Decided, Crlf
  <2>4. b.crlf \in BOOLEAN /\ b.null_data \in BOOLEAN
    BY Zenon, <2>3 DEF Decided
  <2>5. EndsEffect(w, a, b)
    BY <1>7, <1>1, <2>3, <2>4 DEF EndsEffect
  <2>6. w.flag \in {"crlf", "null-data"}
    BY <1>7, <1>1
  <2> QED BY <1>1, <2>2, <2>5, <2>6, EndsOnly
<1>8. CASE flag = "files"
  <2>1. b = Files(a)
    BY <1>8 DEF SwitchUpdate
  <2>2. KeepsBut(a, b, {"mode"})
    BY ONLY <2>1, Decided(a) DEF KeepsBut, Relevant, Decided, Files
  <2>3. /\ b.mode = "Files"
    BY ONLY <2>1, Decided(a) DEF Relevant, Decided, Files, ModeUpdate
  <2>4. ModeEffect(w, a, b)
    BY <1>8, <1>1, <2>3 DEF ModeEffect, ModeOf, ModeFlags
  <2>5. w.flag \in ModeFlags
    BY <1>8, <1>1 DEF ModeFlags
  <2> QED BY <1>1, <2>2, <2>4, <2>5, ModeOnly
<1>9. CASE flag = "files-with-matches"
  <2>1. b = FilesWithMatches(a)
    BY <1>9 DEF SwitchUpdate
  <2>2. KeepsBut(a, b, {"mode"})
    BY ONLY <2>1, Decided(a) DEF KeepsBut, Relevant, Decided, FilesWithMatches
  <2>3. /\ b.mode = "FilesWithMatches"
    BY ONLY <2>1, Decided(a) DEF Relevant, Decided, FilesWithMatches, ModeUpdate
  <2>4. ModeEffect(w, a, b)
    BY <1>9, <1>1, <2>3 DEF ModeEffect, ModeOf, ModeFlags
  <2>5. w.flag \in ModeFlags
    BY <1>9, <1>1 DEF ModeFlags
  <2> QED BY <1>1, <2>2, <2>4, <2>5, ModeOnly
<1>10. CASE flag = "files-without-match"
  <2>1. b = FilesWithoutMatch(a)
    BY <1>10 DEF SwitchUpdate
  <2>2. KeepsBut(a, b, {"mode"})
    BY ONLY <2>1, Decided(a) DEF KeepsBut, Relevant, Decided, FilesWithoutMatch
  <2>3. /\ b.mode = "FilesWithoutMatch"
    BY ONLY <2>1, Decided(a) DEF Relevant, Decided, FilesWithoutMatch, ModeUpdate
  <2>4. ModeEffect(w, a, b)
    BY <1>10, <1>1, <2>3 DEF ModeEffect, ModeOf, ModeFlags
  <2>5. w.flag \in ModeFlags
    BY <1>10, <1>1 DEF ModeFlags
  <2> QED BY <1>1, <2>2, <2>4, <2>5, ModeOnly
<1>11. CASE flag = "hidden"
  <2>1. b = Hidden(yes, a)
    BY <1>11 DEF SwitchUpdate
  <2>2. KeepsBut(a, b, {"no_ignore_vcs", "no_ignore_dot", "hidden"})
    BY ONLY <2>1, Decided(a) DEF KeepsBut, Relevant, Decided, Hidden
  <2>3. /\ b.hidden = yes
        /\ b.no_ignore_vcs = a.no_ignore_vcs
        /\ b.no_ignore_dot = a.no_ignore_dot
        /\ b.unrestricted = a.unrestricted
    BY ONLY <2>1, Decided(a) DEF Relevant, Decided, Hidden
  <2>4. b.hidden \in BOOLEAN /\ b.no_ignore_vcs \in BOOLEAN /\ b.no_ignore_dot \in BOOLEAN
    BY Zenon, <2>3 DEF Decided
  <2>5. IgnoreEffect(w, a, b)
    BY <1>11, <1>1, <2>3, <2>4 DEF IgnoreEffect
  <2>6. w.flag \in {"no-ignore", "no-ignore-vcs", "no-ignore-dot", "hidden"}
    BY <1>11, <1>1
  <2> QED BY <1>1, <2>2, <2>5, <2>6, IgnoreOnly
<1>12. CASE flag = "json"
  <2>1. b = JSON(yes, a)
    BY <1>12 DEF SwitchUpdate
  <2>2. KeepsBut(a, b, {"mode"})
    BY ONLY <2>1, Decided(a) DEF KeepsBut, Relevant, Decided, JSON
  <2>3. /\ b.mode = IF yes THEN "JSON" ELSE IF a.mode = "JSON" THEN "Standard" ELSE a.mode
    BY ONLY <2>1, Decided(a) DEF Relevant, Decided, JSON, ModeUpdate
  <2>4. ModeEffect(w, a, b)
    BY <1>12, <1>1, <2>3 DEF ModeEffect, ModeOf, ModeFlags
  <2>5. w.flag \in ModeFlags
    BY <1>12, <1>1 DEF ModeFlags
  <2> QED BY <1>1, <2>2, <2>4, <2>5, ModeOnly
<1>13. CASE flag = "multiline"
  <2>1. b = Multiline(yes, a)
    BY <1>13 DEF SwitchUpdate
  <2>2. KeepsBut(a, b, {"multiline", "stop_on_nonmatch"})
    BY ONLY <2>1, Decided(a) DEF KeepsBut, Relevant, Decided, Multiline
  <2>3. /\ b.multiline = yes
        /\ b.stop_on_nonmatch = (a.stop_on_nonmatch /\ ~yes)
    BY ONLY <2>1, Decided(a) DEF Relevant, Decided, Multiline
  <2>4. b.multiline \in BOOLEAN /\ b.stop_on_nonmatch \in BOOLEAN
    BY Zenon, <2>3 DEF Decided
  <2>5. LinesEffect(w, a, b)
    BY <1>13, <1>1, <2>3, <2>4 DEF LinesEffect
  <2>6. w.flag \in {"multiline", "stop-on-nonmatch"}
    BY <1>13, <1>1
  <2> QED BY <1>1, <2>2, <2>5, <2>6, LinesOnly
<1>14. CASE flag = "no-config"
  <2>1. b = NoConfig(a)
    BY <1>14 DEF SwitchUpdate
  <2>2. KeepsBut(a, b, {"no_config"})
    BY ONLY <2>1, Decided(a) DEF KeepsBut, Relevant, Decided, NoConfig
  <2>3. /\ b.no_config = TRUE
    BY ONLY <2>1, Decided(a) DEF Relevant, Decided, NoConfig
  <2>4. b.no_config \in BOOLEAN
    BY Zenon, <2>3 DEF Decided
  <2>5. FileEffect(w, a, b)
    BY <1>14, <1>1, <2>3, <2>4 DEF FileEffect
  <2> QED BY <1>14, <1>1, <2>2, <2>5, FileOnly
<1>15. CASE flag = "no-ignore"
  <2>1. b = NoIgnore(yes, a)
    BY <1>15 DEF SwitchUpdate
  <2>2. KeepsBut(a, b, {"no_ignore_vcs", "no_ignore_dot", "hidden"})
    BY ONLY <2>1, Decided(a) DEF KeepsBut, Relevant, Decided, NoIgnore
  <2>3. /\ b.hidden = a.hidden
        /\ b.no_ignore_vcs = yes
        /\ b.no_ignore_dot = yes
        /\ b.unrestricted = a.unrestricted
    BY ONLY <2>1, Decided(a) DEF Relevant, Decided, NoIgnore
  <2>4. b.hidden \in BOOLEAN /\ b.no_ignore_vcs \in BOOLEAN /\ b.no_ignore_dot \in BOOLEAN
    BY Zenon, <2>3 DEF Decided
  <2>5. IgnoreEffect(w, a, b)
    BY <1>15, <1>1, <2>3, <2>4 DEF IgnoreEffect
  <2>6. w.flag \in {"no-ignore", "no-ignore-vcs", "no-ignore-dot", "hidden"}
    BY <1>15, <1>1
  <2> QED BY <1>1, <2>2, <2>5, <2>6, IgnoreOnly
<1>16. CASE flag = "no-ignore-dot"
  <2>1. b = NoIgnoreDot(yes, a)
    BY <1>16 DEF SwitchUpdate
  <2>2. KeepsBut(a, b, {"no_ignore_vcs", "no_ignore_dot", "hidden"})
    BY ONLY <2>1, Decided(a) DEF KeepsBut, Relevant, Decided, NoIgnoreDot
  <2>3. /\ b.hidden = a.hidden
        /\ b.no_ignore_vcs = a.no_ignore_vcs
        /\ b.no_ignore_dot = yes
        /\ b.unrestricted = a.unrestricted
    BY ONLY <2>1, Decided(a) DEF Relevant, Decided, NoIgnoreDot
  <2>4. b.hidden \in BOOLEAN /\ b.no_ignore_vcs \in BOOLEAN /\ b.no_ignore_dot \in BOOLEAN
    BY Zenon, <2>3 DEF Decided
  <2>5. IgnoreEffect(w, a, b)
    BY <1>16, <1>1, <2>3, <2>4 DEF IgnoreEffect
  <2>6. w.flag \in {"no-ignore", "no-ignore-vcs", "no-ignore-dot", "hidden"}
    BY <1>16, <1>1
  <2> QED BY <1>1, <2>2, <2>5, <2>6, IgnoreOnly
<1>17. CASE flag = "no-ignore-vcs"
  <2>1. b = NoIgnoreVcs(yes, a)
    BY <1>17 DEF SwitchUpdate
  <2>2. KeepsBut(a, b, {"no_ignore_vcs", "no_ignore_dot", "hidden"})
    BY ONLY <2>1, Decided(a) DEF KeepsBut, Relevant, Decided, NoIgnoreVcs
  <2>3. /\ b.hidden = a.hidden
        /\ b.no_ignore_vcs = yes
        /\ b.no_ignore_dot = a.no_ignore_dot
        /\ b.unrestricted = a.unrestricted
    BY ONLY <2>1, Decided(a) DEF Relevant, Decided, NoIgnoreVcs
  <2>4. b.hidden \in BOOLEAN /\ b.no_ignore_vcs \in BOOLEAN /\ b.no_ignore_dot \in BOOLEAN
    BY Zenon, <2>3 DEF Decided
  <2>5. IgnoreEffect(w, a, b)
    BY <1>17, <1>1, <2>3, <2>4 DEF IgnoreEffect
  <2>6. w.flag \in {"no-ignore", "no-ignore-vcs", "no-ignore-dot", "hidden"}
    BY <1>17, <1>1
  <2> QED BY <1>1, <2>2, <2>5, <2>6, IgnoreOnly
<1>18. CASE flag = "null-data"
  <2>1. b = NullData(a)
    BY <1>18 DEF SwitchUpdate
  <2>2. KeepsBut(a, b, {"crlf", "null_data"})
    BY ONLY <2>1, Decided(a) DEF KeepsBut, Relevant, Decided, NullData
  <2>3. /\ b.crlf = FALSE
        /\ b.null_data = TRUE
    BY ONLY <2>1, Decided(a) DEF Relevant, Decided, NullData
  <2>4. b.crlf \in BOOLEAN /\ b.null_data \in BOOLEAN
    BY Zenon, <2>3 DEF Decided
  <2>5. EndsEffect(w, a, b)
    BY <1>18, <1>1, <2>3, <2>4 DEF EndsEffect
  <2>6. w.flag \in {"crlf", "null-data"}
    BY <1>18, <1>1
  <2> QED BY <1>1, <2>2, <2>5, <2>6, EndsOnly
<1>19. CASE flag = "passthru"
  <2>1. b = Passthru(a)
    BY <1>19 DEF SwitchUpdate
  <2>2. KeepsBut(a, b, {"context"})
    BY ONLY <2>1, Decided(a) DEF KeepsBut, Relevant, Decided, Passthru
  <2>3. /\ b.context = SidesOf(TRUE, {}, {}, {})
    BY ONLY <2>1, Decided(a) DEF Relevant, Decided, Passthru, SidesOf, None
  <2>4. ContextEffect(w, a, b)
    BY <1>19, <1>1, <2>3 DEF ContextEffect, Sides
  <2>5. w.flag \in Sides \cup {"passthru"}
    BY <1>19, <1>1 DEF Sides
  <2> QED BY <1>1, <2>2, <2>4, <2>5, ContextOnly
<1>20. CASE flag = "search-zip"
  <2>1. b = SearchZip(yes, a)
    BY <1>20 DEF SwitchUpdate
  <2>2. KeepsBut(a, b, {"pre", "search_zip"})
    BY ONLY <2>1, Decided(a) DEF KeepsBut, Relevant, Decided, SearchZip
  <2>3. /\ b.search_zip = yes
        /\ b.pre = IF yes THEN {} ELSE a.pre
    BY ONLY <2>1, Decided(a) DEF Relevant, Decided, SearchZip, None
  <2>4. b.search_zip \in BOOLEAN
    BY Zenon, <2>3 DEF Decided
  <2>5. ReaderEffect(w, a, b)
    BY <1>20, <1>1, <2>3, <2>4 DEF ReaderEffect
  <2>6. w.flag \in {"pre", "search-zip"}
    BY <1>20, <1>1
  <2> QED BY <1>1, <2>2, <2>5, <2>6, ReaderOnly
<1>21. CASE flag = "stop-on-nonmatch"
  <2>1. b = StopOnNonmatch(a)
    BY <1>21 DEF SwitchUpdate
  <2>2. KeepsBut(a, b, {"multiline", "stop_on_nonmatch"})
    BY ONLY <2>1, Decided(a) DEF KeepsBut, Relevant, Decided, StopOnNonmatch
  <2>3. /\ b.multiline = FALSE
        /\ b.stop_on_nonmatch = TRUE
    BY ONLY <2>1, Decided(a) DEF Relevant, Decided, StopOnNonmatch
  <2>4. b.multiline \in BOOLEAN /\ b.stop_on_nonmatch \in BOOLEAN
    BY Zenon, <2>3 DEF Decided
  <2>5. LinesEffect(w, a, b)
    BY <1>21, <1>1, <2>3, <2>4 DEF LinesEffect
  <2>6. w.flag \in {"multiline", "stop-on-nonmatch"}
    BY <1>21, <1>1
  <2> QED BY <1>1, <2>2, <2>5, <2>6, LinesOnly
<1>22. CASE flag = "text"
  <2>1. b = Text(yes, a)
    BY <1>22 DEF SwitchUpdate
  <2>2. KeepsBut(a, b, {"binary"})
    BY ONLY <2>1, Decided(a) DEF KeepsBut, Relevant, Decided, Text
  <2>3. /\ b.binary = IF yes THEN "AsText" ELSE "Auto"
    BY ONLY <2>1, Decided(a) DEF Relevant, Decided, Text
  <2>4. BinaryEffect(w, a, b)
    BY <1>22, <1>1, <2>3 DEF BinaryEffect
  <2>5. w.flag \in {"binary", "text"}
    BY <1>22, <1>1
  <2> QED BY <1>1, <2>2, <2>4, <2>5, BinaryOnly
<1>23. CASE flag = "type-list"
  <2>1. b = TypeList(a)
    BY <1>23 DEF SwitchUpdate
  <2>2. KeepsBut(a, b, {"mode"})
    BY ONLY <2>1, Decided(a) DEF KeepsBut, Relevant, Decided, TypeList
  <2>3. /\ b.mode = "Types"
    BY ONLY <2>1, Decided(a) DEF Relevant, Decided, TypeList, ModeUpdate
  <2>4. ModeEffect(w, a, b)
    BY <1>23, <1>1, <2>3 DEF ModeEffect, ModeOf, ModeFlags
  <2>5. w.flag \in ModeFlags
    BY <1>23, <1>1 DEF ModeFlags
  <2> QED BY <1>1, <2>2, <2>4, <2>5, ModeOnly
<1>24. CASE flag = "unrestricted"
  <2> DEFINE u == a.unrestricted + 1
             c == [a EXCEPT !.unrestricted = u]
  <2>1. b = CASE c.unrestricted = 1 -> NoIgnore(TRUE, c)
              [] c.unrestricted = 2 -> Hidden(TRUE, c)
              [] c.unrestricted = 3 -> Binary(TRUE, c)
              [] OTHER -> c
    BY <1>24 DEF SwitchUpdate, Unrestricted
  <2>2. c.unrestricted = u /\ u \in Nat /\ DOMAIN c = DOMAIN a
        /\ u = a.unrestricted + 1
        /\ \A x \in Relevant \ {"unrestricted"} : c[x] = a[x]
    BY ONLY Decided(a), a.unrestricted \in Nat DEF Decided, Relevant
  <2> HIDE DEF u, c
  <2> DEFINE one == NoIgnore(TRUE, c)
             two == Hidden(TRUE, c)
             three == Binary(TRUE, c)
  <2>3. /\ u = 1 => b = one
        /\ u = 2 => b = two
        /\ u = 3 => b = three
        /\ u \notin {1, 2, 3} => b = c
    <3>1. b = CASE u = 1 -> one [] u = 2 -> two [] u = 3 -> three [] OTHER -> c
      BY ONLY <2>1, <2>2
    <3> HIDE DEF one, two, three
    <3>2. CASE u = 1 BY ONLY <3>1, <3>2
    <3>3. CASE u = 2 BY ONLY <3>1, <3>3
    <3>4. CASE u = 3 BY ONLY <3>1, <3>4
    <3>5. CASE u \notin {1, 2, 3} BY ONLY <3>1, <3>5
    <3> QED BY <3>2, <3>3, <3>4, <3>5
  <2> DEFINE touched == {"unrestricted", "no_ignore_vcs", "no_ignore_dot", "hidden",
                         "binary"}
  <2>4. ASSUME u = 1
        PROVE  KeepsBut(a, b, touched) /\ IgnoreEffect(w, a, b) /\ BinaryEffect(w, a, b)
    <3>1. /\ KeepsBut(a, b, touched) /\ b.unrestricted = u
          /\ b.no_ignore_vcs = TRUE /\ b.no_ignore_dot = TRUE
          /\ b.hidden = a.hidden /\ b.binary = a.binary
      BY ONLY <2>2, <2>3, <2>4, Decided(a)
         DEF Decided, KeepsBut, Relevant, NoIgnore
    <3>2. b.no_ignore_vcs \in BOOLEAN /\ b.no_ignore_dot \in BOOLEAN
          /\ b.hidden \in BOOLEAN
      BY Zenon, <3>1 DEF Decided
    <3>3. IgnoreEffect(w, a, b) /\ BinaryEffect(w, a, b)
      BY <1>24, <1>1, <2>2, <2>4, <3>1, <3>2 DEF IgnoreEffect, BinaryEffect
    <3> QED BY <3>1, <3>3
  <2>5. ASSUME u = 2
        PROVE  KeepsBut(a, b, touched) /\ IgnoreEffect(w, a, b) /\ BinaryEffect(w, a, b)
    <3>1. /\ KeepsBut(a, b, touched) /\ b.unrestricted = u
          /\ b.no_ignore_vcs = a.no_ignore_vcs /\ b.no_ignore_dot = a.no_ignore_dot
          /\ b.hidden = TRUE /\ b.binary = a.binary
      BY ONLY <2>2, <2>3, <2>5, Decided(a)
         DEF Decided, KeepsBut, Relevant, Hidden
    <3>2. b.no_ignore_vcs \in BOOLEAN /\ b.no_ignore_dot \in BOOLEAN
          /\ b.hidden \in BOOLEAN
      BY Zenon, <3>1 DEF Decided
    <3>3. IgnoreEffect(w, a, b) /\ BinaryEffect(w, a, b)
      BY <1>24, <1>1, <2>2, <2>5, <3>1, <3>2 DEF IgnoreEffect, BinaryEffect
    <3> QED BY <3>1, <3>3
  <2>6. ASSUME u \notin {1, 2}
        PROVE  KeepsBut(a, b, touched) /\ IgnoreEffect(w, a, b) /\ BinaryEffect(w, a, b)
    <3>1. /\ KeepsBut(a, b, touched) /\ b.unrestricted = u
          /\ b.no_ignore_vcs = a.no_ignore_vcs /\ b.no_ignore_dot = a.no_ignore_dot
          /\ b.hidden = a.hidden
          /\ b.binary = IF u = 3 THEN "SearchAndSuppress" ELSE a.binary
      <4>1. CASE u = 3
        BY ONLY <2>2, <2>3, <4>1, Decided(a)
           DEF Decided, KeepsBut, Relevant, Binary
      <4>2. CASE u # 3
        BY ONLY <2>2, <2>3, <2>6, <4>2, Decided(a) DEF Decided, KeepsBut, Relevant
      <4> QED BY <4>1, <4>2
    <3>2. b.no_ignore_vcs \in BOOLEAN /\ b.no_ignore_dot \in BOOLEAN
          /\ b.hidden \in BOOLEAN
      BY Zenon, <3>1 DEF Decided
    <3>3. IgnoreEffect(w, a, b) /\ BinaryEffect(w, a, b)
      BY <1>24, <1>1, <2>2, <2>6, <3>1, <3>2 DEF IgnoreEffect, BinaryEffect
    <3> QED BY <3>1, <3>3
  <2>7. KeepsBut(a, b, touched) /\ IgnoreEffect(w, a, b) /\ BinaryEffect(w, a, b)
    BY <2>4, <2>5, <2>6
  <2>8. /\ {"crlf", "null_data"} \cap touched = {}
        /\ {"multiline", "stop_on_nonmatch"} \cap touched = {}
        /\ {"pre", "search_zip"} \cap touched = {}
        /\ "context" \notin touched /\ "mode" \notin touched
        /\ "no_config" \notin touched /\ "patterns" \notin touched
    OBVIOUS
  <2>9. /\ w.flag \notin {"crlf", "null-data"} /\ w.flag # "no-config"
        /\ w.flag \notin {"multiline", "stop-on-nonmatch"}
        /\ w.flag \notin {"pre", "search-zip"}
        /\ w.flag \notin Sides \cup {"passthru"} /\ w.flag \notin ModeFlags
    BY <1>24, <1>1 DEF Sides, ModeFlags
  <2> HIDE DEF touched
  <2>10. /\ Relevant \subseteq DOMAIN b
         /\ EndsEffect(w, a, b) /\ LinesEffect(w, a, b) /\ ReaderEffect(w, a, b)
         /\ ContextEffect(w, a, b) /\ ModeEffect(w, a, b) /\ FileEffect(w, a, b)
         /\ SourcesEffect(a, b)
    BY <2>7, <2>8, <2>9, Frame
  <2> QED BY <1>1, <2>7, <2>10 DEF Effect
<1>25. CASE flag = "pre"
  <2>1. b = PreOff(a)
    BY <1>25 DEF SwitchUpdate
  <2>2. KeepsBut(a, b, {"pre", "search_zip"})
    BY ONLY <2>1, Decided(a) DEF KeepsBut, Relevant, Decided, PreOff
  <2>3. /\ b.pre = {}
        /\ b.search_zip = a.search_zip
    BY ONLY <2>1, Decided(a) DEF Relevant, Decided, PreOff, None
  <2>4. b.search_zip \in BOOLEAN
    BY Zenon, <2>3 DEF Decided
  <2>5. ~yes
    BY <1>25 DEF Negatable
  <2>6. ReaderEffect(w, a, b)
    BY <1>25, <1>1, <2>3, <2>4, <2>5 DEF ReaderEffect
  <2>7. w.flag \in {"pre", "search-zip"}
    BY <1>25, <1>1
  <2> QED BY <1>1, <2>2, <2>6, <2>7, ReaderOnly
<1> QED
  BY <1>2, <1>3, <1>4, <1>5, <1>6, <1>7, <1>8, <1>9, <1>10, <1>11, <1>12,
     <1>13, <1>14, <1>15, <1>16, <1>17, <1>18, <1>19, <1>20, <1>21, <1>22,
     <1>23, <1>24, <1>25

\* Each flag with a value that is not refused has the effect of its word.
LEMMA ValueEffect ==
    ASSUME NEW a, Decided(a), NEW flag \in Valued, NEW v,
           ~ValueRefused(flag, v)
    PROVE  Effect([flag |-> flag, on |-> TRUE, text |-> v], a,
                  ValueUpdate(flag, v, a))
<1> DEFINE w == [flag |-> flag, on |-> TRUE, text |-> v]
           b == ValueUpdate(flag, v, a)
<1>1. w.flag = flag /\ w.on /\ w.on \in BOOLEAN /\ w.text = v
  BY Zenon
<1>2. \/ flag \notin Meaningful
      \/ flag \in {"after-context", "before-context", "context", "generate", "pre",
                   "file", "regexp"}
  BY DEF Valued, Meaningful, ModeFlags, UFlags
<1> SUFFICES Effect(w, a, b)
  OBVIOUS
<1>3. CASE flag \notin Meaningful
  <2>1. KeepsBut(a, b, {})
    BY <1>3, ValueOthers DEF Decided
  <2> HIDE DEF w, b
  <2> QED BY <1>1, <1>3, <2>1, OtherEffect
<1>4. CASE flag = "after-context"
  <2>1. b = AfterContext(v, a)
    BY <1>4 DEF ValueUpdate
  <2> HIDE DEF w, b
  <2>2. KeepsBut(a, b, {"context"})
    BY ONLY <2>1, Decided(a) DEF KeepsBut, Relevant, Decided, AfterContext
  <2>3. b.context = SetContext(a.context, "after", Number[v])
    BY ONLY <2>1, Decided(a) DEF Relevant, Decided, AfterContext
  <2>4. ContextEffect(w, a, b)
    BY <1>4, <1>1, <2>3 DEF ContextEffect, SetContext, Some, Sides
  <2>5. w.flag \in Sides \cup {"passthru"}
    BY <1>4, <1>1 DEF Sides
  <2> QED BY <1>1, <2>2, <2>4, <2>5, ContextOnly
<1>5. CASE flag = "before-context"
  <2>1. b = BeforeContext(v, a)
    BY <1>5 DEF ValueUpdate
  <2> HIDE DEF w, b
  <2>2. KeepsBut(a, b, {"context"})
    BY ONLY <2>1, Decided(a) DEF KeepsBut, Relevant, Decided, BeforeContext
  <2>3. b.context = SetContext(a.context, "before", Number[v])
    BY ONLY <2>1, Decided(a) DEF Relevant, Decided, BeforeContext
  <2>4. ContextEffect(w, a, b)
    BY <1>5, <1>1, <2>3 DEF ContextEffect, SetContext, Some, Sides
  <2>5. w.flag \in Sides \cup {"passthru"}
    BY <1>5, <1>1 DEF Sides
  <2> QED BY <1>1, <2>2, <2>4, <2>5, ContextOnly
<1>6. CASE flag = "context"
  <2>1. b = Context(v, a)
    BY <1>6 DEF ValueUpdate
  <2> HIDE DEF w, b
  <2>2. KeepsBut(a, b, {"context"})
    BY ONLY <2>1, Decided(a) DEF KeepsBut, Relevant, Decided, Context
  <2>3. b.context = SetContext(a.context, "both", Number[v])
    BY ONLY <2>1, Decided(a) DEF Relevant, Decided, Context
  <2>4. ContextEffect(w, a, b)
    BY <1>6, <1>1, <2>3 DEF ContextEffect, SetContext, Some, Sides
  <2>5. w.flag \in Sides \cup {"passthru"}
    BY <1>6, <1>1 DEF Sides
  <2> QED BY <1>1, <2>2, <2>4, <2>5, ContextOnly
<1>7. CASE flag = "generate"
  <2>1. b = Generate(v, a) /\ v \in GenerateModes
    BY <1>7 DEF ValueUpdate, ValueRefused
  <2> HIDE DEF w, b
  <2>2. KeepsBut(a, b, {"mode"})
    BY ONLY <2>1, Decided(a) DEF KeepsBut, Relevant, Decided, Generate
  <2>3. b.mode = v /\ v # "JSON"
    BY ONLY <2>1, Decided(a) DEF Relevant, Decided, Generate, ModeUpdate, GenerateModes
  <2>4. ModeEffect(w, a, b)
    BY <1>7, <1>1, <2>3 DEF ModeEffect, ModeOf, ModeFlags
  <2>5. w.flag \in ModeFlags
    BY <1>7, <1>1 DEF ModeFlags
  <2> QED BY <1>1, <2>2, <2>4, <2>5, ModeOnly
<1>8. CASE flag = "pre"
  <2>1. b = Pre(v, a)
    BY <1>8 DEF ValueUpdate
  <2> HIDE DEF w, b
  <2>2. KeepsBut(a, b, {"pre", "search_zip"})
    BY ONLY <2>1, Decided(a) DEF KeepsBut, Relevant, Decided, Pre
  <2>3. /\ b.pre = {v} \ {""}
        /\ b.search_zip = (a.search_zip /\ v = "")
    BY ONLY <2>1, Decided(a) DEF Relevant, Decided, Pre, Some
  <2>4. b.search_zip \in BOOLEAN
    BY Zenon, <2>3
  <2>5. IF v = "" THEN b.pre = {} ELSE b.pre = {v}
    BY <2>3
  <2>6. ReaderEffect(w, a, b)
    BY <1>8, <1>1, <2>3, <2>4, <2>5 DEF ReaderEffect
  <2>7. w.flag \in {"pre", "search-zip"}
    BY <1>8, <1>1
  <2> QED BY <1>1, <2>2, <2>6, <2>7, ReaderOnly
<1>9. CASE flag \in {"file", "regexp"}
  <2>1. b = File(v, a) \/ b = Regexp(v, a)
    BY <1>9 DEF ValueUpdate
  <2> HIDE DEF w, b
  <2>2. KeepsBut(a, b, {"patterns"})
    BY ONLY <2>1, Decided(a) DEF KeepsBut, Relevant, Decided, File, Regexp
  <2>3. \/ b.patterns = Append(a.patterns, <<"File", v>>)
        \/ b.patterns = Append(a.patterns, <<"Regexp", v>>)
    BY ONLY <2>1, Decided(a) DEF Relevant, Decided, File, Regexp
  <2>4. SourcesEffect(a, b)
    BY <2>3 DEF SourcesEffect
  <2> QED BY <1>1, <1>9, <2>2, <2>4, SourcesOnly
<1> QED
  BY <1>2, <1>3, <1>4, <1>5, <1>6, <1>7, <1>8, <1>9

\* The names the parser knows: a name is negated in one way, and no name is
\* both a switch, a negation or a special flag and a flag with a value.
LEMMA NegationsAreSwitches ==
    \A n \in Negations : /\ n[2] \in Switches \cup Negatable
                         /\ n[2] \notin AlwaysOn
BY DEF Negations, Switches, Negatable, AlwaysOn, ModeFlags

LEMMA NegationIsUnique ==
    \A n \in Negations, m \in Negations : n[1] = m[1] => n = m
BY SMTT(60) DEF Negations

LEMMA NamesDiffer ==
    /\ Switches \cap NegatedNames = {} /\ Valued \cap NegatedNames = {}
    /\ Switches \cap Valued = {}
BY SMTT(60) DEF Negations, NegatedNames, Switches, Valued

LEMMA NegatableNames == Negatable \subseteq Valued
BY DEF Negatable, Valued

LEMMA SpecialNames ==
    \A x \in DOMAIN Specials : x \notin Valued \cup NegatedNames \cup Meaningful
BY DEF Specials, Negations, NegatedNames, Valued, Meaningful,
       ModeFlags, UFlags


-----------------------------------------------------------------------------
(* The words of the arguments, one token after the other.                  *)

\* The equation of the function in Words: what the words are from token i on.
Unfolds(tokens, f, i) ==
    f[i] = IF i > Len(tokens) THEN <<>>
           ELSE IF tokens[i] = DashDash THEN <<>>
           ELSE IF tokens[i].name = "" THEN f[i + 1]
           ELSE IF Takes(tokens[i]) /\ i < Len(tokens) THEN
             <<Word(tokens[i], Raw(tokens[i + 1]))>> \o f[i + 2]
           ELSE <<Word(tokens[i], OrElse(tokens[i].value, ""))>> \o f[i + 1]

\* From the last token back, such a function exists.
LEMMA UnfoldsFrom ==
    ASSUME NEW S, NEW tokens \in Seq(S), NEW k \in 0 .. (Len(tokens) + 1)
    PROVE  \E f : \A i \in (Len(tokens) + 2 - k) .. (Len(tokens) + 2) :
                    Unfolds(tokens, f, i)
<1> DEFINE n == Len(tokens)
           Has(j) == \E f : \A i \in (n + 2 - j) .. (n + 2) : Unfolds(tokens, f, i)
           Bad == {j \in 0 .. (n + 1) : ~Has(j)}
<1>1. n \in Nat
  OBVIOUS
<1>2. Has(0)
  <2> DEFINE f == [i \in {n + 2} |-> <<>>]
  <2>1. \A i \in (n + 2 - 0) .. (n + 2) : i = n + 2
    BY <1>1
  <2>2. f[n + 2] = <<>>
    OBVIOUS
  <2> HIDE DEF f
  <2>3. Unfolds(tokens, f, n + 2)
    <3>1. n + 2 > Len(tokens)
      BY <1>1
    <3> QED BY ONLY <2>2, <3>1 DEF Unfolds
  <2> QED BY <2>1, <2>3
<1>3. ASSUME NEW j \in 0 .. n, Has(j) PROVE Has(j + 1)
  <2>1. PICK f : \A i \in (n + 2 - j) .. (n + 2) : Unfolds(tokens, f, i)
    BY <1>3
  <2> DEFINE p == n + 1 - j
  <2>2. /\ p \in Int /\ p <= n + 1 /\ p + 1 = n + 2 - j
        /\ p = n + 2 - (j + 1)
    BY <1>1
  <2> HIDE DEF p
  <2> DEFINE x == IF p > Len(tokens) THEN <<>>
                  ELSE IF tokens[p] = DashDash THEN <<>>
                  ELSE IF tokens[p].name = "" THEN f[p + 1]
                  ELSE IF Takes(tokens[p]) /\ p < Len(tokens) THEN
                    <<Word(tokens[p], Raw(tokens[p + 1]))>> \o f[p + 2]
                  ELSE <<Word(tokens[p], OrElse(tokens[p].value, ""))>> \o f[p + 1]
             g == [i \in p .. (n + 3) |-> IF i = p THEN x ELSE f[i]]
  <2>3. /\ g[p] = x
        /\ \A i \in (p + 1) .. (n + 3) : g[i] = f[i]
    <3> HIDE DEF x, n
    <3> QED BY ONLY <1>1, <2>2
  <2>4. Unfolds(tokens, g, p)
    <3>1. /\ p + 1 \in (p + 1) .. (n + 3)
          /\ p < Len(tokens) => p + 2 \in (p + 1) .. (n + 3)
      BY ONLY <1>1, <2>2
    <3>2. /\ g[p + 1] = f[p + 1]
          /\ p < Len(tokens) => g[p + 2] = f[p + 2]
      <4> HIDE DEF g, n
      <4> QED BY ONLY <2>3, <3>1
    <3> HIDE DEF g, n
    <3> QED BY ONLY <2>3, <3>2 DEF Unfolds
  <2>5. ASSUME NEW i \in (p + 1) .. (n + 2) PROVE Unfolds(tokens, g, i)
    <3>1. Unfolds(tokens, f, i) /\ i \in Int /\ n = Len(tokens)
      BY <2>1, <2>2
    <3>2. /\ g[i] = f[i] /\ g[i + 1] = f[i + 1]
          /\ i < Len(tokens) => g[i + 2] = f[i + 2]
      <4>1. i \in (p + 1) .. (n + 3) /\ i + 1 \in (p + 1) .. (n + 3)
        BY ONLY <1>1, <2>2, i \in (p + 1) .. (n + 2)
      <4>2. i < Len(tokens) => i + 2 \in (p + 1) .. (n + 3)
        BY ONLY <1>1, <2>2, i \in (p + 1) .. (n + 2)
      <4> HIDE DEF g, n
      <4> QED BY ONLY <2>3, <4>1, <4>2
    <3> HIDE DEF g, n
    <3> QED BY ONLY <3>1, <3>2 DEF Unfolds
  <2>6. \A i \in (n + 2 - (j + 1)) .. (n + 2) : i = p \/ i \in (p + 1) .. (n + 2)
    BY ONLY <1>1, <2>2
  <2> HIDE DEF g
  <2> QED BY <2>4, <2>5, <2>6
<1> HIDE DEF Has
<1>4. ASSUME Bad # {} PROVE FALSE
  <2>0. Bad \in SUBSET Nat
    BY <1>1
  <2>1. PICK j \in Bad : \A y \in Bad : j <= y
    <3> HIDE DEF Bad
    <3> QED BY <1>4, <2>0, LeastIn
  <2>2. j # 0
    BY <1>2, <2>1
  <2>3. j - 1 \in 0 .. n /\ j - 1 \notin Bad
    BY <1>1, <2>1, <2>2
  <2>4. Has(j - 1)
    BY <1>1, <2>3
  <2>5. Has((j - 1) + 1)
    BY <1>3, <2>3, <2>4
  <2> QED BY <1>1, <2>1, <2>5
<1>5. Has(k)
  BY <1>1, <1>4
<1> QED BY <1>5 DEF Has


\* The function in Words.
From(tokens) ==
    LET from[i \in 1..(Len(tokens) + 2)] ==
          IF i > Len(tokens) THEN <<>>
          ELSE IF tokens[i] = DashDash THEN <<>>
          ELSE IF tokens[i].name = "" THEN from[i + 1]
          ELSE IF Takes(tokens[i]) /\ i < Len(tokens) THEN
            <<Word(tokens[i], Raw(tokens[i + 1]))>> \o from[i + 2]
          ELSE <<Word(tokens[i], OrElse(tokens[i].value, ""))>> \o from[i + 1]
    IN  from

LEMMA WordsFrom == \A tokens : Words(tokens) = From(tokens)[1]
BY DEF Words, From

LEMMA FromUnfolds ==
    ASSUME NEW S, NEW tokens \in Seq(S)
    PROVE  \A i \in 1 .. (Len(tokens) + 2) : Unfolds(tokens, From(tokens), i)
<1> DEFINE n == Len(tokens)
           Next1(f, i) ==
             IF i > Len(tokens) THEN <<>>
             ELSE IF tokens[i] = DashDash THEN <<>>
             ELSE IF tokens[i].name = "" THEN f[i + 1]
             ELSE IF Takes(tokens[i]) /\ i < Len(tokens) THEN
               <<Word(tokens[i], Raw(tokens[i + 1]))>> \o f[i + 2]
             ELSE <<Word(tokens[i], OrElse(tokens[i].value, ""))>> \o f[i + 1]
           Reads(f) == f = [i \in 1 .. (n + 2) |-> Next1(f, i)]
<1>1. n \in Nat
  OBVIOUS
<1>2. \A f, i : Unfolds(tokens, f, i) <=> f[i] = Next1(f, i)
  BY DEF Unfolds
<1>3. PICK f : \A i \in 1 .. (n + 2) : Unfolds(tokens, f, i)
  <2>1. n + 1 \in 0 .. (n + 1) /\ n + 2 - (n + 1) = 1
    BY <1>1
  <2> QED BY <2>1, UnfoldsFrom
<1> DEFINE g == [i \in 1 .. (n + 2) |-> f[i]]
<1>4. \A i \in 1 .. (n + 2) : g[i] = f[i]
  OBVIOUS
<1>5. \A i \in 1 .. (n + 2) : Next1(g, i) = Next1(f, i)
  <2>1. TAKE i \in 1 .. (n + 2)
  <2>2. i \in Int /\ n = Len(tokens)
    BY <1>1
  <2>3. i <= n => /\ i + 1 \in 1 .. (n + 2) /\ i + 2 \in 1 .. (n + 2)
    BY <1>1
  <2>4. i <= n => g[i + 1] = f[i + 1] /\ g[i + 2] = f[i + 2]
    BY ONLY <1>4, <2>3
  <2>5. ~(i > n) => i <= n
    BY <1>1, <2>2
  <2> HIDE DEF g, n
  <2> QED BY ONLY <2>2, <2>4, <2>5
<1>6. Reads(g)
  <2> HIDE DEF Next1
  <2>1. \A i \in 1 .. (n + 2) : f[i] = Next1(f, i)
    BY <1>2, <1>3
  <2>2. g = [i \in 1 .. (n + 2) |-> f[i]]
    OBVIOUS
  <2> HIDE DEF g, n
  <2> QED BY ONLY <2>1, <2>2, <1>5
<1>7. From(tokens) = CHOOSE h : Reads(h)
  BY DEF From
<1>8. Reads(From(tokens))
  <2> HIDE DEF Reads
  <2> QED BY <1>6, <1>7
<1>9. \A i \in 1 .. (n + 2) : From(tokens)[i] = Next1(From(tokens), i)
  <2> HIDE DEF Next1, n
  <2> QED BY <1>8
<1> HIDE DEF Next1
<1> QED BY <1>2, <1>9

\* All the words there may be.
WordsOf(tokens) ==
    LET is == 1 .. Len(tokens)
    IN  {Word(tokens[i], v) : i \in is,
           v \in {Raw(tokens[j]) : j \in is}
                 \cup {OrElse(tokens[j].value, "") : j \in is}}

LEMMA WordsIn ==
    ASSUME NEW tokens
    PROVE  /\ \A i \in 1 .. Len(tokens), j \in 1 .. Len(tokens) :
                Word(tokens[i], Raw(tokens[j])) \in WordsOf(tokens)
           /\ \A i \in 1 .. Len(tokens) :
                Word(tokens[i], OrElse(tokens[i].value, "")) \in WordsOf(tokens)
<1> DEFINE n == Len(tokens)
           W == WordsOf(tokens)
<1> DEFINE V == {Raw(tokens[j]) : j \in 1 .. n}
                  \cup {OrElse(tokens[j].value, "") : j \in 1 .. n}
<1>1. \A j \in 1 .. n : Raw(tokens[j]) \in V /\ OrElse(tokens[j].value, "") \in V
  OBVIOUS
<1>2. W = {Word(tokens[i], v) : i \in 1 .. n, v \in V}
  BY DEF WordsOf
<1>3. \A i \in 1 .. n, v \in V : Word(tokens[i], v) \in W
  <2> HIDE DEF V, n
  <2> QED BY ONLY <1>2
<1> HIDE DEF V, W, n
<1>4. ASSUME NEW i \in 1 .. n, NEW j \in 1 .. n
      PROVE  Word(tokens[i], Raw(tokens[j])) \in W
  BY ONLY <1>1, <1>3
<1>5. ASSUME NEW i \in 1 .. n
      PROVE  Word(tokens[i], OrElse(tokens[i].value, "")) \in W
  BY ONLY <1>1, <1>3
<1> QED BY <1>4, <1>5 DEF n, W

LEMMA FromSeq ==
    ASSUME NEW S, NEW tokens \in Seq(S)
    PROVE  \A i \in 1 .. (Len(tokens) + 2) : From(tokens)[i] \in Seq(WordsOf(tokens))
<1> DEFINE n == Len(tokens)
           f == From(tokens)
           W == WordsOf(tokens)
           Has(k) == f[n + 2 - k] \in Seq(W)
           Bad == {k \in 0 .. (n + 1) : ~Has(k)}
<1>1. n \in Nat /\ \A i \in 1 .. (n + 2) : Unfolds(tokens, f, i)
  BY FromUnfolds
<1>2. /\ \A i \in 1 .. n, j \in 1 .. n : Word(tokens[i], Raw(tokens[j])) \in W
      /\ \A i \in 1 .. n : Word(tokens[i], OrElse(tokens[i].value, "")) \in W
  BY WordsIn
<1>3. \A s \in Seq(W), w \in W : <<w>> \o s \in Seq(W)
  OBVIOUS
<1>4. <<>> \in Seq(W)
  OBVIOUS
<1>5. ASSUME Bad # {} PROVE FALSE
  <2>0. Bad \in SUBSET Nat
    BY <1>1
  <2>1. PICK k \in Bad : \A y \in Bad : k <= y
    <3> HIDE DEF Bad
    <3> QED BY <1>5, <2>0, LeastIn
  <2> DEFINE i == n + 2 - k
  <2>2. k \in 0 .. (n + 1) /\ i \in 1 .. (n + 2) /\ k = n + 2 - i
    BY <1>1, <2>1
  <2>3. f[i] \notin Seq(W)
    BY <2>1
  <2>4. \A j \in 0 .. (n + 1) : j < k => Has(j)
    <3>1. TAKE j \in 0 .. (n + 1)
    <3>2. HAVE j < k
    <3>3. j \notin Bad
      BY <1>1, <2>1, <2>2, <3>2
    <3> QED BY <3>3
  <2> HIDE DEF i
  <2>5. i <= n => f[i + 1] \in Seq(W) /\ f[i + 2] \in Seq(W)
    <3>1. SUFFICES ASSUME i <= n PROVE f[i + 1] \in Seq(W) /\ f[i + 2] \in Seq(W)
      OBVIOUS
    <3>2. /\ k - 1 \in 0 .. (n + 1) /\ k - 2 \in 0 .. (n + 1)
          /\ k - 1 < k /\ k - 2 < k
          /\ n + 2 - (k - 1) = i + 1 /\ n + 2 - (k - 2) = i + 2
      <4> HIDE DEF n
      <4> QED BY ONLY <1>1, <2>2, <3>1
    <3>3. Has(k - 1) /\ Has(k - 2)
      <4> HIDE DEF Has, n
      <4> QED BY ONLY <2>4, <3>2
    <3> HIDE DEF f, n, W
    <3> QED BY <3>2, <3>3
  <2>6. Unfolds(tokens, f, i)
    BY <1>1, <2>2
  <2>7. ~(i > n) => i \in 1 .. n /\ i <= n
    BY <1>1, <2>2
  <2>8. i < n => i + 1 \in 1 .. n
    BY <1>1, <2>2
  <2>9. n = Len(tokens)
    OBVIOUS
  <2> HIDE DEF f, W, n
  <2>10. f[i] \in Seq(W)
    BY ONLY <1>2, <1>3, <1>4, <2>5, <2>6, <2>7, <2>8, <2>9 DEF Unfolds
  <2> QED BY <2>3, <2>10
<1>6. ASSUME NEW i \in 1 .. (n + 2) PROVE f[i] \in Seq(W)
  <2>1. n + 2 - i \in 0 .. (n + 1) /\ n + 2 - (n + 2 - i) = i
    BY <1>1
  <2>2. n + 2 - i \notin Bad
    <3> HIDE DEF Bad
    <3> QED BY <1>5
  <2>3. Has(n + 2 - i)
    BY <2>1, <2>2
  <2> HIDE DEF f, W, n
  <2> QED BY <2>1, <2>3
<1> QED BY <1>6


-----------------------------------------------------------------------------
(* What the fields are before the first word, and what follows from them.   *)

\* Nothing is given in no words.
LEMMA NoWords ==
    /\ \A f : On(<<>>, f) = 0 /\ Off(<<>>, f) = 0
    /\ \A f, k : Time(<<>>, f, k) = 0
    /\ \A flags, on : IndexOf(<<>>, flags, on) = 0
    /\ PreOn(<<>>) = 0
    /\ \A f : Times(<<>>, f, 0) = 0
<1>1. MaxOf({0}) = 0
  <2>1. {0} \in SUBSET (0 .. 0) /\ {0} # {} /\ 0 \in Nat
    OBVIOUS
  <2> QED BY <2>1, MaxIs
<1>2. Len(<<>>) = 0
  OBVIOUS
<1>3. \A flags, on : IndexOf(<<>>, flags, on) = 0
  <2>1. TAKE flags, on
  <2>2. {0} \cup {i \in 1 .. 0 : <<>>[i].flag \in flags /\ <<>>[i].on = on} = {0}
    OBVIOUS
  <2> QED BY ONLY <1>1, <1>2, <2>2 DEF IndexOf
<1>4. \A f, k : Time(<<>>, f, k) = 0
  <2>1. TAKE f, k
  <2> DEFINE nth(i) == <<>>[i].flag = f
                       /\ Cardinality({j \in 1..i : <<>>[j].flag = f}) = k
  <2>2. {0} \cup {i \in 1 .. 0 : nth(i)} = {0}
    <3> HIDE DEF nth
    <3> QED OBVIOUS
  <2>3. Time(<<>>, f, k) = MaxOf({0} \cup {i \in 1 .. Len(<<>>) : nth(i)})
    BY DEF Time
  <2> HIDE DEF nth
  <2> QED BY ONLY <1>1, <1>2, <2>2, <2>3
<1>5. PreOn(<<>>) = 0
  <2>1. {0} \cup {i \in 1 .. 0 : <<>>[i].flag = "pre" /\ <<>>[i].on
                                  /\ <<>>[i].text # ""} = {0}
    OBVIOUS
  <2> QED BY ONLY <1>1, <1>2, <2>1 DEF PreOn
<1>6. \A f : Times(<<>>, f, 0) = 0
  <2>1. TAKE f
  <2>2. {j \in 1 .. 0 : <<>>[j].flag = f} = {}
    OBVIOUS
  <2> QED BY <2>2, FS_EmptySet DEF Times
<1>7. \A f : On(<<>>, f) = 0 /\ Off(<<>>, f) = 0
  BY <1>3 DEF On, Off
<1> QED BY <1>3, <1>4, <1>5, <1>6, <1>7

\* So the arguments of a ripgrep that is given none are exact
\* (LowArgs::default).
LEMMA DefaultExact == Exact(Default, <<>>)
<1>1. Relevant \subseteq DOMAIN Default
  BY DEF Relevant, Default
<1>a. \A x : x = FALSE => ~x /\ x \in BOOLEAN
  BY Zenon
<1>b. /\ Default.crlf = FALSE /\ Default.null_data = FALSE
      /\ Default.multiline = FALSE /\ Default.stop_on_nonmatch = FALSE
      /\ Default.search_zip = FALSE /\ Default.no_ignore_vcs = FALSE
      /\ Default.no_ignore_dot = FALSE /\ Default.hidden = FALSE
      /\ Default.no_config = FALSE
  BY DEF Default
<1>2. /\ ~Default.crlf /\ Default.crlf \in BOOLEAN
      /\ ~Default.null_data /\ Default.null_data \in BOOLEAN
      /\ ~Default.multiline /\ Default.multiline \in BOOLEAN
      /\ ~Default.stop_on_nonmatch /\ Default.stop_on_nonmatch \in BOOLEAN
      /\ ~Default.search_zip /\ Default.search_zip \in BOOLEAN
      /\ ~Default.no_ignore_vcs /\ Default.no_ignore_vcs \in BOOLEAN
      /\ ~Default.no_ignore_dot /\ Default.no_ignore_dot \in BOOLEAN
      /\ ~Default.hidden /\ Default.hidden \in BOOLEAN
      /\ ~Default.no_config /\ Default.no_config \in BOOLEAN
  BY ONLY Zenon, <1>a, <1>b
<1>3. /\ Default.mode = "Standard" /\ Default.unrestricted = 0
      /\ Default.binary = "Auto" /\ Default.pre = {}
      /\ Default.context = Unlimited
  BY DEF Default, None
<1>4. /\ On(<<>>, "crlf") = 0 /\ Off(<<>>, "crlf") = 0 /\ On(<<>>, "null-data") = 0
      /\ On(<<>>, "multiline") = 0 /\ Off(<<>>, "multiline") = 0
      /\ On(<<>>, "stop-on-nonmatch") = 0 /\ On(<<>>, "search-zip") = 0
      /\ Off(<<>>, "search-zip") = 0 /\ On(<<>>, "pre") = 0 /\ Off(<<>>, "pre") = 0
      /\ PreOn(<<>>) = 0 /\ On(<<>>, "no-config") = 0
  BY NoWords
<1>5. EndsExact(Default, <<>>) /\ LinesExact(Default, <<>>)
  BY <1>2, <1>4 DEF EndsExact, LinesExact
<1>6. ReaderExact(Default, <<>>) /\ FileExact(Default, <<>>)
  BY ONLY <1>2, <1>3, <1>4 DEF ReaderExact, PreLast, FileExact
<1>7. ContextExact(Default, <<>>)
  <2>1. \A f : Side(<<>>, f) = {}
    BY NoWords DEF Side
  <2>2. Default.context = SidesOf(FALSE, Side(<<>>, "before-context"),
                            Side(<<>>, "after-context"), Side(<<>>, "context"))
    BY ONLY <1>3, <2>1 DEF SidesOf, Unlimited, None
  <2>3. ~ \A f \in Sides : On(<<>>, "passthru") > On(<<>>, f)
    BY NoWords DEF Sides
  <2> QED BY <2>2, <2>3 DEF ContextExact
<1>8. ModeExact(Default, <<>>)
  BY <1>3, NoWords DEF ModeExact, LatestMode, JSONLast
<1>9. \A x \in {0}, y \in {0} : ~(x > y)
  OBVIOUS
<1>10. \A f, k : First(<<>>, k) = 0 /\ On(<<>>, f) = 0 /\ Off(<<>>, f) = 0
  BY NoWords DEF First
<1>11. IgnoreExact(Default, <<>>)
  <2>1. Times(<<>>, "unrestricted", Len(<<>>)) = 0
    BY NoWords
  <2> QED BY ONLY <1>2, <1>3, <1>10, <2>1 DEF IgnoreExact, Wins
<1>12. BinaryExact(Default, <<>>)
  BY ONLY <1>3, <1>10 DEF BinaryExact, Wins
<1>13. SourcesExact(Default)
  <2>1. Default.patterns = <<>> /\ <<>> \in Seq({})
    BY DEF Default
  <2> QED BY <2>1 DEF SourcesExact
<1> QED BY <1>1, <1>5, <1>6, <1>7, <1>8, <1>11, <1>12, <1>13 DEF Exact

\* The fields have values, whatever the words.
LEMMA ExactDecided ==
    ASSUME NEW W, NEW ws \in Seq(W), NEW a, Exact(a, ws)
    PROVE  Decided(a) /\ a.unrestricted \in Nat
<1>1. Decided(a)
  BY DEF Exact, Decided, EndsExact, LinesExact, ReaderExact, IgnoreExact,
         FileExact
<1>2. IsFiniteSet({j \in 1 .. Len(ws) : ws[j].flag = "unrestricted"})
  <2>1. IsFiniteSet(1 .. Len(ws))
    BY FS_Interval
  <2> QED BY <2>1, FS_Subset
<1>3. Times(ws, "unrestricted", Len(ws)) \in Nat
  BY <1>2, FS_CardinalityType DEF Times
<1> QED BY <1>1, <1>3 DEF Exact, IgnoreExact

\* What changes no field keeps the claim.
LEMMA ExactKept ==
    ASSUME NEW ws, NEW a, NEW b, Exact(a, ws), KeepsBut(a, b, {})
    PROVE  Exact(b, ws)
<1>1. \A x \in Relevant : b[x] = a[x]
  BY DEF KeepsBut
<1>2. /\ b.crlf = a.crlf /\ b.null_data = a.null_data
      /\ b.multiline = a.multiline /\ b.stop_on_nonmatch = a.stop_on_nonmatch
      /\ b.search_zip = a.search_zip /\ b.pre = a.pre /\ b.context = a.context
      /\ b.mode = a.mode /\ b.unrestricted = a.unrestricted
      /\ b.no_ignore_vcs = a.no_ignore_vcs /\ b.no_ignore_dot = a.no_ignore_dot
      /\ b.hidden = a.hidden /\ b.binary = a.binary /\ b.no_config = a.no_config
      /\ b.patterns = a.patterns
  BY ONLY <1>1 DEF Relevant
<1>3. Relevant \subseteq DOMAIN b
  BY DEF KeepsBut
<1>4. EndsExact(b, ws) /\ LinesExact(b, ws) /\ ReaderExact(b, ws)
  BY <1>2 DEF Exact, EndsExact, LinesExact, ReaderExact
<1>5. ContextExact(b, ws) /\ ModeExact(b, ws) /\ FileExact(b, ws)
  BY <1>2 DEF Exact, ContextExact, ModeExact, FileExact
<1>6. IgnoreExact(b, ws) /\ BinaryExact(b, ws) /\ SourcesExact(b)
  BY <1>2 DEF Exact, IgnoreExact, BinaryExact, SourcesExact
<1> QED BY <1>3, <1>4, <1>5, <1>6 DEF Exact


\* The last of several flags is the last of each.
LEMMA IndexExceeds ==
    ASSUME NEW W, NEW ws \in Seq(W), NEW flags, NEW on, NEW x \in Nat
    PROVE  x > IndexOf(ws, flags, on) <=>
             x > 0 /\ \A f \in flags : x > IndexOf(ws, {f}, on)
<1> DEFINE n == Len(ws)
           S(F) == {0} \cup {i \in 1 .. n : ws[i].flag \in F /\ ws[i].on = on}
<1>1. \A F : S(F) \in SUBSET (0 .. n) /\ S(F) # {} /\ n \in Nat /\ 0 \in S(F)
  OBVIOUS
<1>2. \A F : IndexOf(ws, F, on) = MaxOf(S(F))
  BY DEF IndexOf
<1>3. \A f \in flags : S({f}) \subseteq S(flags)
  OBVIOUS
<1>4. \A i \in S(flags) : i = 0 \/ \E f \in flags : i \in S({f})
  OBVIOUS
<1> HIDE DEF S
<1>5. \A F : MaxOf(S(F)) \in S(F) /\ \A y \in S(F) : y <= MaxOf(S(F))
  BY <1>1, MaxIs
<1>6. \A F : \A y \in S(F) : y \in Nat
  BY <1>1
<1>7. ASSUME x > MaxOf(S(flags)) PROVE x > 0 /\ \A f \in flags : x > MaxOf(S({f}))
  <2>1. \A y \in S(flags) : x > y
    BY <1>5, <1>6, <1>7
  <2>2. \A f \in flags : MaxOf(S({f})) \in S(flags)
    BY <1>3, <1>5
  <2> QED BY <2>1, <2>2, <1>1
<1>8. ASSUME x > 0, \A f \in flags : x > MaxOf(S({f})) PROVE x > MaxOf(S(flags))
  <2>1. MaxOf(S(flags)) \in S(flags)
    BY <1>5
  <2>2. CASE MaxOf(S(flags)) = 0
    BY <2>2, <1>8
  <2>3. ASSUME NEW f \in flags, MaxOf(S(flags)) \in S({f}) PROVE x > MaxOf(S(flags))
    <3>1. x > MaxOf(S({f})) /\ MaxOf(S({f})) \in S({f})
      BY <1>5, <1>8
    <3>2. MaxOf(S(flags)) <= MaxOf(S({f}))
      BY <1>5, <2>3
    <3>3. MaxOf(S(flags)) \in Nat /\ MaxOf(S({f})) \in Nat
      BY <1>6, <2>1, <3>1
    <3> QED BY <3>1, <3>2, <3>3
  <2> QED BY <1>4, <2>1, <2>2, <2>3
<1> QED BY <1>2, <1>7, <1>8

LEMMA OnIn ==
    ASSUME NEW W, NEW ws \in Seq(W)
    PROVE  /\ Len(ws) \in Nat
           /\ \A f : On(ws, f) \in 0 .. Len(ws) /\ Off(ws, f) \in 0 .. Len(ws)
           /\ \A f : On(ws, f) \in Nat /\ Off(ws, f) \in Nat
<1>1. \A f : On(ws, f) \in 0 .. Len(ws) /\ Off(ws, f) \in 0 .. Len(ws)
  BY IndexIn DEF On, Off
<1>2. \A x \in 0 .. Len(ws) : x \in Nat
  OBVIOUS
<1> QED BY <1>1, <1>2

LEMMA Same ==
    ASSUME NEW x \in BOOLEAN, NEW y \in BOOLEAN, x <=> y
    PROVE  x = y
BY Zenon

LEMMA EndsAgree ==
    ASSUME NEW W, NEW ws \in Seq(W), NEW a, EndsExact(a, ws), LinesExact(a, ws)
    PROVE  /\ a.crlf =
                (On(ws, "crlf") > MaxOf({Off(ws, "crlf"), On(ws, "null-data")}))
           /\ a.null_data = (On(ws, "null-data") > On(ws, "crlf"))
           /\ a.multiline =
                (On(ws, "multiline") >
                   MaxOf({Off(ws, "multiline"), On(ws, "stop-on-nonmatch")}))
           /\ a.stop_on_nonmatch = (On(ws, "stop-on-nonmatch") > On(ws, "multiline"))
<1>1. /\ On(ws, "crlf") \in Nat /\ Off(ws, "crlf") \in Nat
      /\ On(ws, "null-data") \in Nat /\ On(ws, "multiline") \in Nat
      /\ Off(ws, "multiline") \in Nat /\ On(ws, "stop-on-nonmatch") \in Nat
  BY OnIn
<1>2. \A x, y, z \in Nat : x > MaxOf({y, z}) <=> x > y /\ x > z
  BY MaxOfTwo
<1>3. a.crlf <=> On(ws, "crlf") > MaxOf({Off(ws, "crlf"), On(ws, "null-data")})
  BY <1>1, <1>2 DEF EndsExact
<1>4. a.null_data <=> On(ws, "null-data") > On(ws, "crlf")
  BY <1>1 DEF EndsExact
<1>5. a.multiline <=>
        On(ws, "multiline") > MaxOf({Off(ws, "multiline"), On(ws, "stop-on-nonmatch")})
  BY <1>1, <1>2 DEF LinesExact
<1>6. a.stop_on_nonmatch <=> On(ws, "stop-on-nonmatch") > On(ws, "multiline")
  BY <1>1 DEF LinesExact
<1>7. /\ a.crlf \in BOOLEAN /\ a.null_data \in BOOLEAN
      /\ a.multiline \in BOOLEAN /\ a.stop_on_nonmatch \in BOOLEAN
  BY DEF EndsExact, LinesExact
<1> QED BY ONLY <1>3, <1>4, <1>5, <1>6, <1>7


LEMMA ReaderAgree ==
    ASSUME NEW W, NEW ws \in Seq(W), NEW a, ReaderExact(a, ws)
    PROVE  /\ a.search_zip = (On(ws, "search-zip") >
                                MaxOf({Off(ws, "search-zip"), PreOn(ws)}))
           /\ a.pre =
                IF PreOn(ws) = Latest(ws, "pre") /\ PreOn(ws) > On(ws, "search-zip")
                THEN Some(ws[PreOn(ws)].text) ELSE None
<1>1. /\ On(ws, "search-zip") \in Nat /\ Off(ws, "search-zip") \in Nat
      /\ On(ws, "pre") \in Nat /\ Off(ws, "pre") \in Nat
  BY OnIn
<1>2. PreOn(ws) \in Nat
  BY PreIn
<1>3. Latest(ws, "pre") = IF On(ws, "pre") >= Off(ws, "pre")
                          THEN On(ws, "pre") ELSE Off(ws, "pre")
  BY <1>1, MaxOfTwo DEF Latest
<1>4. PreOn(ws) <= On(ws, "pre")
  BY DEF ReaderExact
<1>5. PreLast(ws) <=> PreOn(ws) = Latest(ws, "pre")
                      /\ PreOn(ws) > On(ws, "search-zip")
  BY <1>1, <1>2, <1>3, <1>4 DEF PreLast
<1>6. a.pre = IF PreLast(ws) THEN {ws[PreOn(ws)].text} ELSE {}
  BY DEF ReaderExact
<1>7. a.pre = IF PreOn(ws) = Latest(ws, "pre") /\ PreOn(ws) > On(ws, "search-zip")
              THEN Some(ws[PreOn(ws)].text) ELSE None
  BY ONLY <1>5, <1>6 DEF Some, None
<1>8. MaxOf({Off(ws, "search-zip"), PreOn(ws)}) =
        IF Off(ws, "search-zip") >= PreOn(ws) THEN Off(ws, "search-zip") ELSE PreOn(ws)
  BY <1>1, <1>2, MaxOfTwo
<1>9. a.search_zip <=> On(ws, "search-zip") >
                         MaxOf({Off(ws, "search-zip"), PreOn(ws)})
  BY <1>1, <1>2, <1>8 DEF ReaderExact
<1>10. a.search_zip \in BOOLEAN
  BY DEF ReaderExact
<1> QED BY ONLY <1>7, <1>9, <1>10

LEMMA ContextAgree ==
    ASSUME NEW W, NEW ws \in Seq(W), NEW a, ContextExact(a, ws)
    PROVE  /\ a.context.passthru = (On(ws, "passthru") >
                IndexOf(ws, {"before-context", "after-context", "context"}, TRUE))
           /\ ~a.context.passthru =>
                /\ Before(a.context) = ExpectedSide(ws, "before-context")
                /\ After(a.context) = ExpectedSide(ws, "after-context")
<1>1. PICK passthru \in BOOLEAN :
        /\ a.context = SidesOf(passthru, Side(ws, "before-context"),
                               Side(ws, "after-context"), Side(ws, "context"))
        /\ passthru <=> \A f \in Sides : On(ws, "passthru") > On(ws, f)
  BY DEF ContextExact
<1>2. \A f : On(ws, f) \in Nat
  BY OnIn
<1>3. On(ws, "passthru") > IndexOf(ws, Sides, TRUE) <=>
        \A f \in Sides : On(ws, "passthru") > On(ws, f)
  <2>1. On(ws, "passthru") > IndexOf(ws, Sides, TRUE) <=>
          /\ On(ws, "passthru") > 0
          /\ \A f \in Sides : On(ws, "passthru") > IndexOf(ws, {f}, TRUE)
    BY <1>2, IndexExceeds
  <2>2. \A f : IndexOf(ws, {f}, TRUE) = On(ws, f)
    BY DEF On
  <2>3. (\A f \in Sides : On(ws, "passthru") > On(ws, f)) => On(ws, "passthru") > 0
    BY <1>2 DEF Sides
  <2> QED BY ONLY <2>1, <2>2, <2>3
<1>4. /\ a.context.passthru = passthru
      /\ a.context.before = Side(ws, "before-context")
      /\ a.context.after = Side(ws, "after-context")
      /\ a.context.both = Side(ws, "context")
  BY ONLY <1>1 DEF SidesOf
<1>5. passthru = (On(ws, "passthru") > IndexOf(ws, Sides, TRUE))
  <2> DEFINE y == On(ws, "passthru") > IndexOf(ws, Sides, TRUE)
  <2>1. y \in BOOLEAN
    OBVIOUS
  <2>2. passthru <=> y
    BY <1>1, <1>3
  <2> HIDE DEF y
  <2>3. passthru = y
    BY ONLY <1>1, <2>1, <2>2, Same
  <2> QED BY <2>3 DEF y
<1>6. \A f : OrElse(Side(ws, f), OrElse(Side(ws, "context"), 0)) = ExpectedSide(ws, f)
  <2>1. TAKE f
  <2>2. \A x, d : OrElse({x}, d) = x /\ OrElse({}, d) = d
    BY DEF OrElse, None
  <2>3. \A g : Side(ws, g) = IF On(ws, g) > On(ws, "passthru")
                             THEN {Number[ws[On(ws, g)].text]} ELSE {}
    BY DEF Side
  <2>4. OrElse(Side(ws, "context"), 0) =
          IF On(ws, "context") > On(ws, "passthru")
          THEN Number[ws[On(ws, "context")].text] ELSE 0
    BY ONLY <2>2, <2>3
  <2>5. \A d : OrElse(Side(ws, f), d) =
          IF On(ws, f) > On(ws, "passthru") THEN Number[ws[On(ws, f)].text] ELSE d
    BY ONLY <2>2, <2>3
  <2> QED BY ONLY <2>4, <2>5 DEF ExpectedSide
<1>7. /\ Before(a.context) = ExpectedSide(ws, "before-context")
      /\ After(a.context) = ExpectedSide(ws, "after-context")
  BY ONLY <1>4, <1>6 DEF Before, After
<1>8. Sides = {"before-context", "after-context", "context"}
  BY DEF Sides
<1>9. a.context.passthru = (On(ws, "passthru") >
        IndexOf(ws, {"before-context", "after-context", "context"}, TRUE))
  BY ONLY <1>4, <1>5, <1>8
<1> QED BY ONLY <1>7, <1>9


LEMMA FirstIn ==
    ASSUME NEW W, NEW ws \in Seq(W), NEW k
    PROVE  First(ws, k) \in 0 .. Len(ws) /\ First(ws, k) \in Nat
<1> DEFINE P(i) == ws[i].flag = "unrestricted"
                   /\ Cardinality({j \in 1..i : ws[j].flag = "unrestricted"}) = k
           S == {0} \cup {i \in 1 .. Len(ws) : P(i)}
<1>1. Len(ws) \in Nat
  OBVIOUS
<1>2. First(ws, k) = MaxOf(S)
  BY DEF First, Time
<1> HIDE DEF P
<1>3. S \in SUBSET (0 .. Len(ws)) /\ S # {}
  BY ONLY <1>1
<1> HIDE DEF S
<1>4. MaxOf(S) \in S
  BY <1>1, <1>3, MaxIs
<1>5. \A x \in 0 .. Len(ws) : x \in Nat
  OBVIOUS
<1> QED BY <1>2, <1>3, <1>4, <1>5

LEMMA SwitchAgree ==
    ASSUME NEW W, NEW ws \in Seq(W), NEW flags, flags # {}, NEW k
    PROVE  ExpectedSwitch(ws, flags, k) <=>
             Wins({On(ws, f) : f \in flags} \cup {First(ws, k)},
                  {Off(ws, f) : f \in flags})
<1> DEFINE X == {On(ws, f) : f \in flags} \cup {First(ws, k)}
           Y == {Off(ws, f) : f \in flags}
<1>1. /\ Len(ws) \in Nat /\ First(ws, k) \in 0 .. Len(ws)
      /\ \A f : On(ws, f) \in 0 .. Len(ws) /\ Off(ws, f) \in 0 .. Len(ws)
  BY OnIn, FirstIn
<1>2. X \in SUBSET (0 .. Len(ws)) /\ Y \in SUBSET (0 .. Len(ws))
  BY ONLY <1>1
<1>3. X # {} /\ Y # {}
  OBVIOUS
<1>4. ExpectedSwitch(ws, flags, k) <=> MaxOf(X) > MaxOf(Y)
  BY DEF ExpectedSwitch, First
<1> HIDE DEF X, Y
<1>5. ExpectedSwitch(ws, flags, k) <=> Wins(X, Y)
  BY <1>1, <1>2, <1>3, <1>4, Exceeds DEF Wins
<1> QED BY <1>5 DEF X, Y

LEMMA IgnoreAgree ==
    ASSUME NEW W, NEW ws \in Seq(W), NEW a, IgnoreExact(a, ws)
    PROVE  /\ a.no_ignore_vcs = ExpectedSwitch(ws, {"no-ignore", "no-ignore-vcs"}, 1)
           /\ a.no_ignore_dot = ExpectedSwitch(ws, {"no-ignore", "no-ignore-dot"}, 1)
           /\ a.hidden = ExpectedSwitch(ws, {"hidden"}, 2)
<1>3. \A f, g, k : ExpectedSwitch(ws, {f, g}, k) <=>
        Wins({On(ws, f), On(ws, g), First(ws, k)}, {Off(ws, f), Off(ws, g)})
  <2>1. TAKE f, g, k
  <2>2. {f, g} # {}
    OBVIOUS
  <2>3. ExpectedSwitch(ws, {f, g}, k) <=>
          Wins({On(ws, h) : h \in {f, g}} \cup {First(ws, k)},
               {Off(ws, h) : h \in {f, g}})
    BY <2>2, SwitchAgree
  <2>4. {On(ws, h) : h \in {f, g}} \cup {First(ws, k)}
          = {On(ws, f), On(ws, g), First(ws, k)}
    OBVIOUS
  <2>5. {Off(ws, h) : h \in {f, g}} = {Off(ws, f), Off(ws, g)}
    OBVIOUS
  <2> QED BY ONLY <2>3, <2>4, <2>5
<1>4. \A f, k : ExpectedSwitch(ws, {f}, k) <=>
        Wins({On(ws, f), First(ws, k)}, {Off(ws, f)})
  <2>1. TAKE f, k
  <2>2. {f} # {}
    OBVIOUS
  <2>3. ExpectedSwitch(ws, {f}, k) <=>
          Wins({On(ws, h) : h \in {f}} \cup {First(ws, k)},
               {Off(ws, h) : h \in {f}})
    BY <2>2, SwitchAgree
  <2>4. {On(ws, h) : h \in {f}} \cup {First(ws, k)} = {On(ws, f), First(ws, k)}
    OBVIOUS
  <2>5. {Off(ws, h) : h \in {f}} = {Off(ws, f)}
    OBVIOUS
  <2> QED BY ONLY <2>3, <2>4, <2>5
<1>5. /\ a.no_ignore_vcs <=> ExpectedSwitch(ws, {"no-ignore", "no-ignore-vcs"}, 1)
      /\ a.no_ignore_dot <=> ExpectedSwitch(ws, {"no-ignore", "no-ignore-dot"}, 1)
      /\ a.hidden <=> ExpectedSwitch(ws, {"hidden"}, 2)
  BY <1>3, <1>4 DEF IgnoreExact
<1>6. /\ a.no_ignore_vcs \in BOOLEAN /\ a.no_ignore_dot \in BOOLEAN
      /\ a.hidden \in BOOLEAN
  BY DEF IgnoreExact
<1>7. \A flags, k : ExpectedSwitch(ws, flags, k) \in BOOLEAN
  BY DEF ExpectedSwitch
<1> HIDE DEF ExpectedSwitch
<1> QED BY ONLY <1>5, <1>6, <1>7, Same

LEMMA BinaryAgree ==
    ASSUME NEW W, NEW ws \in Seq(W), NEW a, BinaryExact(a, ws)
    PROVE  a.binary = ExpectedBinary(ws)
<1> DEFINE b == On(ws, "binary")
           t == On(ws, "text")
           u == First(ws, 3)
           c == Off(ws, "binary")
           d == Off(ws, "text")
           auto == MaxOf({c, d})
<1>1. b \in Nat /\ t \in Nat /\ u \in Nat /\ c \in Nat /\ d \in Nat
  BY OnIn, FirstIn
<1>2. a.binary = IF Wins({b, u}, {t, c, d}) THEN "SearchAndSuppress"
                 ELSE IF Wins({t}, {c, d}) THEN "AsText" ELSE "Auto"
  BY DEF BinaryExact
<1>3. ExpectedBinary(ws) =
        IF MaxOf({b, u}) > MaxOf({t, auto}) THEN "SearchAndSuppress"
        ELSE IF t > auto THEN "AsText" ELSE "Auto"
  BY DEF ExpectedBinary, First
<1> HIDE DEF b, t, u, c, d
<1>4. auto = IF c >= d THEN c ELSE d
  BY <1>1, MaxOfTwo
<1>5. auto \in Nat
  BY <1>1, <1>4
<1> HIDE DEF auto
<1>6. MaxOf({b, u}) = (IF b >= u THEN b ELSE u)
      /\ MaxOf({t, auto}) = (IF t >= auto THEN t ELSE auto)
  BY <1>1, <1>5, MaxOfTwo
<1>7. Wins({b, u}, {t, c, d}) <=> MaxOf({b, u}) > MaxOf({t, auto})
  BY ONLY <1>1, <1>4, <1>6 DEF Wins
<1>8. Wins({t}, {c, d}) <=> t > auto
  BY ONLY <1>1, <1>4 DEF Wins
<1> QED BY ONLY <1>2, <1>3, <1>7, <1>8

LEMMA IndexLast ==
    ASSUME NEW W, NEW ws \in Seq(W), NEW flags, NEW on
    PROVE  /\ IndexOf(ws, flags, on) # 0 => ws[IndexOf(ws, flags, on)].flag \in flags
           /\ IndexOf(ws, flags, on) # 0 => ws[IndexOf(ws, flags, on)].on = on
           /\ \A i \in 1 .. Len(ws) :
                ws[i].flag \in flags /\ ws[i].on = on => i <= IndexOf(ws, flags, on)
<1> DEFINE S == {0} \cup {i \in 1 .. Len(ws) : ws[i].flag \in flags /\ ws[i].on = on}
           k == IndexOf(ws, flags, on)
<1>1. Len(ws) \in Nat /\ S \in SUBSET (0 .. Len(ws)) /\ S # {}
  OBVIOUS
<1>2. k = MaxOf(S)
  BY DEF IndexOf
<1> HIDE DEF S, k
<1>3. k \in S /\ \A y \in S : y <= k
  BY <1>1, <1>2, MaxIs
<1>4. \A i \in 1 .. Len(ws) : ws[i].flag \in flags /\ ws[i].on = on => i \in S
  BY DEF S
<1>5. k # 0 => ws[k].flag \in flags /\ ws[k].on = on
  BY <1>3 DEF S
<1> QED BY <1>3, <1>4, <1>5 DEF k

\* The last of the modes decides, unless it should not have.
LEMMA ModeAgree ==
    ASSUME NEW W, NEW ws \in Seq(W), ~Overtaken(ws)
    PROVE  LatestMode(ws) = ExpectedMode(ws)
<1> DEFINE n == IndexOf(ws, OtherModeFlags, TRUE)
           m == IndexOf(ws, ModeFlags, TRUE)
<1>1. m \in 0 .. Len(ws) /\ n \in 0 .. Len(ws)
  BY IndexIn
<1>2. n # 0 => ws[n].flag \in OtherModeFlags /\ ws[n].on = TRUE
  BY IndexLast
<1>3. \A i \in 1 .. Len(ws) :
        ws[i].flag \in ModeFlags /\ ws[i].on = TRUE => i <= m
  BY IndexLast
<1>4. n # 0 => ~(m > n)
  BY DEF Overtaken
<1>5. CASE n = 0
  BY <1>5 DEF LatestMode, ExpectedMode
<1>6. CASE n # 0
  <2> HIDE DEF n, m
  <2>1. ws[n].flag \in ModeFlags /\ n \in 1 .. Len(ws)
    BY <1>1, <1>2, <1>6 DEF OtherModeFlags, ModeFlags
  <2>2. n = m
    BY <1>1, <1>2, <1>3, <1>4, <1>6, <2>1
  <2>3. ws[m].flag # "json" /\ m # 0
    BY <1>2, <1>6, <2>2 DEF OtherModeFlags
  <2> QED BY <1>6, <2>2, <2>3 DEF LatestMode, ExpectedMode, n, m
<1> QED BY <1>5, <1>6

\* The arguments mean what the reference says they mean.
LEMMA ExactAgree ==
    ASSUME NEW W, NEW ws \in Seq(W), NEW a, Exact(a, ws)
    PROVE  Agree(a, ws)
<1>1. /\ a.crlf =
           (On(ws, "crlf") > MaxOf({Off(ws, "crlf"), On(ws, "null-data")}))
      /\ a.null_data = (On(ws, "null-data") > On(ws, "crlf"))
      /\ a.multiline =
           (On(ws, "multiline") >
              MaxOf({Off(ws, "multiline"), On(ws, "stop-on-nonmatch")}))
      /\ a.stop_on_nonmatch = (On(ws, "stop-on-nonmatch") > On(ws, "multiline"))
  BY EndsAgree DEF Exact
<1>2. /\ a.search_zip = (On(ws, "search-zip") >
                           MaxOf({Off(ws, "search-zip"), PreOn(ws)}))
      /\ a.pre =
           IF PreOn(ws) = Latest(ws, "pre") /\ PreOn(ws) > On(ws, "search-zip")
           THEN Some(ws[PreOn(ws)].text) ELSE None
  BY ReaderAgree DEF Exact
<1>3. /\ a.context.passthru = (On(ws, "passthru") >
           IndexOf(ws, {"before-context", "after-context", "context"}, TRUE))
      /\ ~a.context.passthru =>
           /\ Before(a.context) = ExpectedSide(ws, "before-context")
           /\ After(a.context) = ExpectedSide(ws, "after-context")
  BY ContextAgree DEF Exact
<1>4. ~Overtaken(ws) => a.mode = ExpectedMode(ws)
  BY ModeAgree DEF Exact, ModeExact
<1>5. /\ a.no_ignore_vcs = ExpectedSwitch(ws, {"no-ignore", "no-ignore-vcs"}, 1)
      /\ a.no_ignore_dot = ExpectedSwitch(ws, {"no-ignore", "no-ignore-dot"}, 1)
      /\ a.hidden = ExpectedSwitch(ws, {"hidden"}, 2)
  BY IgnoreAgree DEF Exact
<1>6. a.binary = ExpectedBinary(ws)
  BY BinaryAgree DEF Exact
<1> QED BY ONLY <1>1, <1>2, <1>3, <1>4, <1>5, <1>6 DEF Agree

\* And no two flags that exclude each other are both in effect.
Exclusive(a) ==
    /\ ~(a.crlf /\ a.null_data)
    /\ ~(a.pre # None /\ a.search_zip)
    /\ ~(a.multiline /\ a.stop_on_nonmatch)
LEMMA ExactExclusive ==
    ASSUME NEW W, NEW ws \in Seq(W), NEW a, Exact(a, ws)
    PROVE  Exclusive(a)
<1>1. \A f : On(ws, f) \in Nat
  BY OnIn
<1>2. PreOn(ws) \in Nat
  BY PreIn
<1>3. ~(a.crlf /\ a.null_data)
  BY <1>1 DEF Exact, EndsExact
<1>4. ~(a.multiline /\ a.stop_on_nonmatch)
  BY <1>1 DEF Exact, LinesExact
<1>5. ~(a.pre # {} /\ a.search_zip)
  BY <1>1, <1>2 DEF Exact, ReaderExact, PreLast
<1> QED BY <1>3, <1>4, <1>5 DEF Exclusive, None


-----------------------------------------------------------------------------
(* The file's lines.                                                       *)

LEMMA LinesFrom ==
    ASSUME NEW S, NEW lines \in Seq(S), NEW k \in 0 .. Len(lines)
    PROVE  \E f : \A i \in 0 .. k :
             f[i] = IF i = 0 THEN <<>>
                    ELSE IF lines[i] = Comment THEN f[i - 1]
                    ELSE Append(f[i - 1], lines[i])
<1> DEFINE n == Len(lines)
           Reads(f, i) == f[i] = IF i = 0 THEN <<>>
                                 ELSE IF lines[i] = Comment THEN f[i - 1]
                                 ELSE Append(f[i - 1], lines[i])
           Has(j) == \E f : \A i \in 0 .. j : Reads(f, i)
           Bad == {j \in 0 .. n : ~Has(j)}
<1>1. n \in Nat
  OBVIOUS
<1>2. Has(0)
  <2> DEFINE f == [i \in {0} |-> <<>>]
  <2>1. \A i \in 0 .. 0 : i = 0
    OBVIOUS
  <2>2. f[0] = <<>>
    OBVIOUS
  <2> HIDE DEF f
  <2> QED BY <2>1, <2>2
<1>3. ASSUME NEW j \in 0 .. n, j # n, Has(j) PROVE Has(j + 1)
  <2>1. PICK f : \A i \in 0 .. j : Reads(f, i)
    BY <1>3
  <2> DEFINE x == IF lines[j + 1] = Comment THEN f[j] ELSE Append(f[j], lines[j + 1])
             g == [i \in 0 .. (j + 1) |-> IF i = j + 1 THEN x ELSE f[i]]
  <2>2. j \in Nat /\ j + 1 \in 1 .. n /\ j + 1 # 0 /\ (j + 1) - 1 = j
    BY <1>1, <1>3
  <2>3. g[j + 1] = x /\ \A i \in 0 .. j : g[i] = f[i]
    <3> HIDE DEF x
    <3> QED BY ONLY <2>2
  <2> HIDE DEF g
  <2>4. Reads(g, j + 1)
    <3>1. g[j] = f[j]
      BY <2>2, <2>3
    <3> QED BY ONLY <2>2, <2>3, <3>1
  <2>5. ASSUME NEW i \in 0 .. j PROVE Reads(g, i)
    <3>1. i # 0 => i - 1 \in 0 .. j
      BY <2>2
    <3>2. g[i] = f[i] /\ (i # 0 => g[i - 1] = f[i - 1])
      BY ONLY <2>3, <3>1, i \in 0 .. j
    <3>3. Reads(f, i)
      BY <2>1
    <3> QED BY ONLY <3>2, <3>3
  <2>6. \A i \in 0 .. (j + 1) : i = j + 1 \/ i \in 0 .. j
    BY <2>2
  <2> HIDE DEF Reads
  <2> QED BY <2>4, <2>5, <2>6
<1> HIDE DEF Has
<1>4. ASSUME Bad # {} PROVE FALSE
  <2>0. Bad \in SUBSET Nat
    BY <1>1
  <2>1. PICK j \in Bad : \A y \in Bad : j <= y
    <3> HIDE DEF Bad
    <3> QED BY <1>4, <2>0, LeastIn
  <2>2. j # 0
    BY <1>2, <2>1
  <2>3. j - 1 \in 0 .. n /\ j - 1 # n /\ j - 1 \notin Bad /\ (j - 1) + 1 = j
    BY <1>1, <2>1, <2>2
  <2>4. Has(j - 1)
    BY <1>1, <2>3
  <2>5. Has((j - 1) + 1)
    BY <1>3, <2>3, <2>4
  <2> QED BY <2>1, <2>3, <2>5
<1>5. Has(k)
  BY <1>1, <1>4
<1> QED BY <1>5 DEF Has

LEMMA ConfigArgsSeq ==
    ASSUME NEW S, NEW lines \in Seq(S)
    PROVE  ConfigArgs(lines) \in Seq(S)
<1> DEFINE n == Len(lines)
           Next1(f, i) == IF i = 0 THEN <<>>
                          ELSE IF lines[i] = Comment THEN f[i - 1]
                          ELSE Append(f[i - 1], lines[i])
           Reads(f) == f = [i \in 0 .. n |-> Next1(f, i)]
           args == CHOOSE f : Reads(f)
<1>1. n \in Nat
  OBVIOUS
<1>2. ConfigArgs(lines) = args[n]
  BY DEF ConfigArgs
<1>3. PICK f : \A i \in 0 .. n : f[i] = Next1(f, i)
  <2>1. n \in 0 .. n
    BY <1>1
  <2> QED BY <2>1, LinesFrom
<1>4. \E g : Reads(g)
  <2> DEFINE g == [i \in 0 .. n |-> f[i]]
  <2>1. \A i \in 0 .. n : g[i] = f[i]
    OBVIOUS
  <2>2. \A i \in 0 .. n : Next1(g, i) = Next1(f, i)
    <3>1. TAKE i \in 0 .. n
    <3>2. i # 0 => i - 1 \in 0 .. n
      BY <1>1
    <3>3. i # 0 => g[i - 1] = f[i - 1]
      BY ONLY <2>1, <3>2
    <3> HIDE DEF g
    <3> QED BY ONLY <3>3
  <2>3. g = [i \in 0 .. n |-> f[i]]
    OBVIOUS
  <2> HIDE DEF Next1, g, n
  <2> QED BY <1>3, <2>2, <2>3
<1>5. Reads(args)
  <2> HIDE DEF Reads
  <2> QED BY <1>4
<1> HIDE DEF args
<1>6. \A i \in 0 .. n : args[i] = Next1(args, i)
  <2> HIDE DEF Next1, n
  <2> QED BY <1>5
<1> DEFINE Bad == {i \in 0 .. n : args[i] \notin Seq(S)}
<1>7. ASSUME Bad # {} PROVE FALSE
  <2>0. Bad \in SUBSET Nat
    BY <1>1
  <2>1. PICK j \in Bad : \A y \in Bad : j <= y
    <3> HIDE DEF Bad
    <3> QED BY <1>7, <2>0, LeastIn
  <2>2. j \in 0 .. n /\ args[j] \notin Seq(S) /\ j \in Nat
    BY <2>1
  <2>3. j # 0
    <3>1. 0 \in 0 .. n
      BY <1>1
    <3>2. args[0] = Next1(args, 0)
      <4> HIDE DEF Next1, n
      <4> QED BY <1>6, <3>1
    <3>3. args[0] = <<>>
      BY ONLY <3>2
    <3>4. <<>> \in Seq(S)
      OBVIOUS
    <3> QED BY ONLY <2>2, <3>3, <3>4
  <2>4. j - 1 \in 0 .. n /\ j - 1 \notin Bad
    BY <1>1, <2>1, <2>2, <2>3
  <2>5. args[j - 1] \in Seq(S)
    BY <2>4
  <2>6. lines[j] \in S
    BY <2>2, <2>3
  <2>7. Append(args[j - 1], lines[j]) \in Seq(S)
    BY <2>5, <2>6
  <2>8. args[j] = Next1(args, j)
    <3> HIDE DEF Next1, n
    <3>1. \A i \in 0 .. n : args[i] = Next1(args, i)
      BY <1>6
    <3>2. j \in 0 .. n
      BY <2>2
    <3> QED BY ONLY <3>1, <3>2
  <2> QED BY ONLY <2>2, <2>3, <2>5, <2>7, <2>8
<1>8. n \in 0 .. n
  BY <1>1
<1> QED BY <1>2, <1>7, <1>8


-----------------------------------------------------------------------------
(* Reading the tokens.  After some of them the words read so far and those *)
(* of the tokens left are all the words, and the arguments are exact for   *)
(* the words read.                                                         *)

Left(tokens, left, p) ==
    /\ p \in 1 .. (Len(tokens) + 1) /\ Len(left) = Len(tokens) + 1 - p
    /\ \A i \in 1 .. Len(left) : left[i] = tokens[p - 1 + i]
Reading(tokens, left, dashed, a, ws) ==
    /\ ws \in Seq(WordsOf(tokens)) /\ Exact(a, ws)
    /\ \E p : /\ Left(tokens, left, p)
              /\ Words(tokens) = ws \o (IF dashed THEN <<>> ELSE From(tokens)[p])

LEMMA ReadNone ==
    ASSUME NEW S, NEW tokens \in Seq(S)
    PROVE  Reading(tokens, tokens, FALSE, Default, <<>>)
<1>1. Left(tokens, tokens, 1)
  BY DEF Left
<1>2. Len(tokens) \in Nat
  OBVIOUS
<1>3. From(tokens)[1] \in Seq(WordsOf(tokens))
  BY <1>2, FromSeq
<1>4. Words(tokens) = <<>> \o From(tokens)[1] /\ <<>> \in Seq(WordsOf(tokens))
  BY <1>3, WordsFrom
<1> QED BY <1>1, <1>4, DefaultExact DEF Reading

LEMMA LeftTail ==
    ASSUME NEW S, NEW tokens \in Seq(S), NEW left \in Seq(S), left # <<>>,
           NEW p, Left(tokens, left, p)
    PROVE  /\ Left(tokens, Tail(left), p + 1)
           /\ p \in 1 .. Len(tokens) /\ Head(left) = tokens[p]
           /\ Len(left) > 1 <=> p < Len(tokens)
           /\ ~(p > Len(tokens))
           /\ \A i \in {p, p + 1, p + 2} : i \in 1 .. (Len(tokens) + 2)
<1> DEFINE n == Len(tokens)
           m == Len(left)
<1>1. n \in Nat /\ m \in Nat /\ m # 0 /\ Len(Tail(left)) = m - 1
  OBVIOUS
<1>2. p \in 1 .. (n + 1) /\ m = n + 1 - p
  BY DEF Left
<1>3. \A i \in 1 .. (m - 1) : Tail(left)[i] = left[i + 1]
  OBVIOUS
<1>4. \A i \in 1 .. m : left[i] = tokens[p - 1 + i]
  BY DEF Left
<1>5. Head(left) = left[1]
  OBVIOUS
<1> HIDE DEF n, m
<1>6. /\ p \in 1 .. n /\ p + 1 \in 1 .. (n + 1) /\ m - 1 = n + 1 - (p + 1)
      /\ m > 1 <=> p < n
      /\ ~(p > n)
      /\ \A i \in {p, p + 1, p + 2} : i \in 1 .. (n + 2)
  BY ONLY <1>1, <1>2
<1>7. \A i \in 1 .. (m - 1) : Tail(left)[i] = tokens[(p + 1) - 1 + i]
  <2>1. TAKE i \in 1 .. (m - 1)
  <2>2. i + 1 \in 1 .. m /\ p - 1 + (i + 1) = (p + 1) - 1 + i
    BY ONLY <1>1, <1>2, i \in 1 .. (m - 1)
  <2>3. left[i + 1] = tokens[p - 1 + (i + 1)]
    BY ONLY <1>4, <2>2
  <2> QED BY ONLY <1>3, <2>2, <2>3, i \in 1 .. (m - 1)
<1>8. 1 \in 1 .. m /\ p - 1 + 1 = p
  BY ONLY <1>1, <1>2
<1>9. Head(left) = tokens[p]
  BY ONLY <1>4, <1>5, <1>8
<1>10. Left(tokens, Tail(left), p + 1)
  BY <1>1, <1>6, <1>7 DEF Left, n
<1> QED BY <1>6, <1>9, <1>10 DEF n, m

\* A text, and whatever comes after --, is no word.
LEMMA ReadPlain ==
    ASSUME NEW S, NEW tokens \in Seq(S), NEW left \in Seq(S), left # <<>>,
           NEW dashed \in BOOLEAN, NEW a, NEW b, NEW ws,
           Reading(tokens, left, dashed, a, ws),
           dashed \/ Head(left).name = "", KeepsBut(a, b, {})
    PROVE  Reading(tokens, Tail(left), dashed, b, ws)
<1>1. PICK p : /\ Left(tokens, left, p)
               /\ Words(tokens) = ws \o (IF dashed THEN <<>> ELSE From(tokens)[p])
  BY DEF Reading
<1>2. /\ Left(tokens, Tail(left), p + 1)
      /\ p \in 1 .. Len(tokens) /\ Head(left) = tokens[p]
      /\ ~(p > Len(tokens)) /\ p \in 1 .. (Len(tokens) + 2)
  BY <1>1, LeftTail
<1>3. Exact(b, ws)
  BY ExactKept DEF Reading
<1>4. ASSUME ~dashed PROVE From(tokens)[p] = From(tokens)[p + 1]
  <2>1. Unfolds(tokens, From(tokens), p)
    BY <1>2, FromUnfolds
  <2>2. DashDash.name = "--"
    BY DEF DashDash, Flag
  <2>3. tokens[p].name = "" /\ tokens[p] # DashDash
    BY <1>2, <1>4, <2>2
  <2> QED BY ONLY <1>2, <2>1, <2>3 DEF Unfolds
<1>5. Words(tokens) = ws \o (IF dashed THEN <<>> ELSE From(tokens)[p + 1])
  BY ONLY <1>1, <1>4
<1> QED BY <1>2, <1>3, <1>5 DEF Reading

LEMMA ReadDashes ==
    ASSUME NEW S, NEW tokens \in Seq(S), NEW left \in Seq(S), left # <<>>,
           NEW a, NEW ws, Reading(tokens, left, FALSE, a, ws),
           Head(left) = DashDash
    PROVE  Reading(tokens, Tail(left), TRUE, a, ws)
<1>1. PICK p : /\ Left(tokens, left, p)
               /\ Words(tokens) = ws \o From(tokens)[p]
  BY DEF Reading
<1>2. /\ Left(tokens, Tail(left), p + 1)
      /\ p \in 1 .. Len(tokens) /\ Head(left) = tokens[p]
      /\ ~(p > Len(tokens)) /\ p \in 1 .. (Len(tokens) + 2)
  BY <1>1, LeftTail
<1>3. From(tokens)[p] = <<>>
  <2>1. Unfolds(tokens, From(tokens), p)
    BY <1>2, FromUnfolds
  <2> QED BY ONLY <1>2, <2>1, Head(left) = DashDash DEF Unfolds
<1> QED BY <1>1, <1>2, <1>3 DEF Reading

LEMMA AppendMore ==
    ASSUME NEW W, NEW ws \in Seq(W), NEW w \in W, NEW s \in Seq(W)
    PROVE  /\ Append(ws, w) \in Seq(W)
           /\ ws \o (<<w>> \o s) = Append(ws, w) \o s
<1>1. Append(ws, w) \in Seq(W)
  OBVIOUS
<1>2. ws \o <<w>> = Append(ws, w)
  OBVIOUS
<1>3. ws \o (<<w>> \o s) = (ws \o <<w>>) \o s
  OBVIOUS
<1> QED BY <1>1, <1>2, <1>3

\* A flag is a word, with the next token if that is its value.
LEMMA ReadFlag ==
    ASSUME NEW S, NEW tokens \in Seq(S), NEW left \in Seq(S), left # <<>>,
           NEW a, NEW b, NEW ws, Reading(tokens, left, FALSE, a, ws),
           Head(left).name \notin {"", "--"},
           ~(Takes(Head(left)) /\ Len(left) > 1),
           Effect(Word(Head(left), OrElse(Head(left).value, "")), a, b)
    PROVE  \E more : Reading(tokens, Tail(left), FALSE, b, more)
<1>1. PICK p : /\ Left(tokens, left, p)
               /\ Words(tokens) = ws \o From(tokens)[p]
  BY DEF Reading
<1>2. /\ Left(tokens, Tail(left), p + 1)
      /\ p \in 1 .. Len(tokens) /\ Head(left) = tokens[p]
      /\ Len(left) > 1 <=> p < Len(tokens)
      /\ ~(p > Len(tokens)) /\ p \in 1 .. (Len(tokens) + 2)
      /\ p + 1 \in 1 .. (Len(tokens) + 2)
  BY <1>1, LeftTail
<1> DEFINE w == Word(tokens[p], OrElse(tokens[p].value, ""))
           W == WordsOf(tokens)
<1>4. From(tokens)[p] = <<w>> \o From(tokens)[p + 1]
  <2>1. Unfolds(tokens, From(tokens), p)
    BY <1>2, FromUnfolds
  <2>2. DashDash.name = "--"
    BY DEF DashDash, Flag
  <2>3. /\ tokens[p].name # "" /\ tokens[p] # DashDash
        /\ ~(Takes(tokens[p]) /\ p < Len(tokens))
    BY <1>2, <2>2
  <2> QED BY ONLY <1>2, <2>1, <2>3 DEF Unfolds
<1>5. w \in W
  BY <1>2, WordsIn
<1>6. ws \in Seq(W) /\ Exact(a, ws)
  BY DEF Reading
<1>7. From(tokens)[p + 1] \in Seq(W)
  BY <1>2, FromSeq
<1>8. Effect(w, a, b)
  BY <1>2
<1> HIDE DEF w, W
<1>9. Exact(b, Append(ws, w))
  BY ONLY <1>5, <1>6, <1>8, WordStep
<1>10. /\ Append(ws, w) \in Seq(W)
       /\ ws \o (<<w>> \o From(tokens)[p + 1]) = Append(ws, w) \o From(tokens)[p + 1]
  <2> DEFINE s == From(tokens)[p + 1]
  <2>1. s \in Seq(W)
    BY <1>7
  <2> HIDE DEF s
  <2>2. Append(ws, w) \in Seq(W) /\ ws \o (<<w>> \o s) = Append(ws, w) \o s
    BY ONLY <1>5, <1>6, <2>1, AppendMore
  <2> QED BY <2>2 DEF s
<1>11. Reading(tokens, Tail(left), FALSE, b, Append(ws, w))
  BY <1>1, <1>2, <1>4, <1>9, <1>10 DEF Reading, W
<1> QED BY <1>11


LEMMA SecondLeft ==
    ASSUME NEW S, NEW s \in Seq(S), Len(s) > 1
    PROVE  Tail(s) \in Seq(S) /\ Tail(s) # <<>> /\ Head(Tail(s)) = s[2]
<1>1. s # <<>> /\ Len(s) \in Nat
  OBVIOUS
<1>2. Tail(s) \in Seq(S) /\ Len(Tail(s)) = Len(s) - 1
  BY <1>1
<1>3. Len(Tail(s)) # 0
  BY <1>1, <1>2
<1>4. Tail(s) # <<>>
  BY <1>2, <1>3
<1>5. Head(Tail(s)) = Tail(s)[1]
  BY <1>2, <1>4
<1>6. Tail(s)[1] = s[2]
  BY <1>1
<1> QED BY <1>2, <1>4, <1>5, <1>6

LEMMA ReadValue ==
    ASSUME NEW S, NEW tokens \in Seq(S), NEW left \in Seq(S), left # <<>>,
           NEW a, NEW b, NEW ws, Reading(tokens, left, FALSE, a, ws),
           Head(left).name \notin {"", "--"}, Takes(Head(left)), Len(left) > 1,
           Effect(Word(Head(left), Raw(left[2])), a, b)
    PROVE  \E more : Reading(tokens, Tail(Tail(left)), FALSE, b, more)
<1>1. PICK p : /\ Left(tokens, left, p)
               /\ Words(tokens) = ws \o From(tokens)[p]
  BY DEF Reading
<1>2. /\ Left(tokens, Tail(left), p + 1)
      /\ p \in 1 .. Len(tokens) /\ Head(left) = tokens[p]
      /\ p < Len(tokens)
      /\ ~(p > Len(tokens)) /\ p \in 1 .. (Len(tokens) + 2)
      /\ p + 2 \in 1 .. (Len(tokens) + 2)
  BY <1>1, LeftTail
<1>3. Tail(left) \in Seq(S) /\ Tail(left) # <<>> /\ Head(Tail(left)) = left[2]
  BY SecondLeft
<1>4. /\ Left(tokens, Tail(Tail(left)), (p + 1) + 1)
      /\ p + 1 \in 1 .. Len(tokens) /\ left[2] = tokens[p + 1]
  <2> DEFINE later == Tail(left)
             q == p + 1
  <2>1. later \in Seq(S) /\ later # <<>> /\ Left(tokens, later, q)
    BY <1>2, <1>3
  <2>2. Head(later) = left[2]
    BY <1>3
  <2> HIDE DEF later, q
  <2>3. /\ Left(tokens, Tail(later), q + 1)
        /\ q \in 1 .. Len(tokens) /\ Head(later) = tokens[q]
    BY ONLY <2>1, LeftTail, tokens \in Seq(S)
  <2>4. q \in 1 .. Len(tokens) /\ left[2] = tokens[q]
    BY <2>2, <2>3
  <2> QED BY <2>3, <2>4 DEF later, q
<1>5. (p + 1) + 1 = p + 2
  <2>1. Len(tokens) \in Nat
    BY ONLY tokens \in Seq(S)
  <2> QED BY ONLY <1>2, <2>1
<1> DEFINE w == Word(tokens[p], Raw(tokens[p + 1]))
           W == WordsOf(tokens)
           s == From(tokens)[p + 2]
<1>6. From(tokens)[p] = <<w>> \o s
  <2>1. Unfolds(tokens, From(tokens), p)
    BY <1>2, FromUnfolds
  <2>2. DashDash.name = "--"
    BY DEF DashDash, Flag
  <2>3. /\ tokens[p].name # "" /\ tokens[p] # DashDash
        /\ Takes(tokens[p]) /\ p < Len(tokens)
    BY <1>2, <2>2
  <2> QED BY ONLY <1>2, <2>1, <2>3 DEF Unfolds
<1>7. w \in W
  BY <1>2, <1>4, WordsIn
<1>8. ws \in Seq(W) /\ Exact(a, ws)
  BY DEF Reading
<1>9. s \in Seq(W)
  BY <1>2, FromSeq
<1>10. Effect(w, a, b)
  BY <1>2, <1>4
<1> HIDE DEF w, W, s
<1>11. Exact(b, Append(ws, w))
  BY ONLY <1>7, <1>8, <1>10, WordStep
<1>12. Append(ws, w) \in Seq(W) /\ ws \o (<<w>> \o s) = Append(ws, w) \o s
  BY ONLY <1>7, <1>8, <1>9, AppendMore
<1>13. Words(tokens) = Append(ws, w) \o s
  BY ONLY <1>1, <1>6, <1>12
<1>14. Reading(tokens, Tail(Tail(left)), FALSE, b, Append(ws, w))
  BY <1>4, <1>5, <1>11, <1>12, <1>13 DEF Reading, W, s
<1> QED BY <1>14

\* When no token is left all the words have been read.
LEMMA ReadAll ==
    ASSUME NEW S, NEW tokens \in Seq(S), NEW dashed \in BOOLEAN, NEW a, NEW ws,
           Reading(tokens, <<>>, dashed, a, ws)
    PROVE  Words(tokens) \in Seq(WordsOf(tokens)) /\ Exact(a, Words(tokens))
<1>1. PICK p : /\ Left(tokens, <<>>, p)
               /\ Words(tokens) = ws \o (IF dashed THEN <<>> ELSE From(tokens)[p])
  BY DEF Reading
<1>2. From(tokens)[p] = <<>>
  <2> DEFINE n == Len(tokens)
  <2>1. n \in Nat /\ p \in 1 .. (n + 1) /\ 0 = n + 1 - p
    BY <1>1 DEF Left
  <2>2. p \in 1 .. (n + 2) /\ p > n
    <3> HIDE DEF n
    <3> QED BY ONLY <2>1
  <2>3. Unfolds(tokens, From(tokens), p)
    BY <2>2, FromUnfolds
  <2> QED BY <2>2, <2>3 DEF Unfolds
<1>3. ws \in Seq(WordsOf(tokens)) /\ Exact(a, ws)
  BY DEF Reading
<1>4. ws \o <<>> = ws
  BY <1>3
<1> QED BY ONLY <1>1, <1>2, <1>3, <1>4

\* At no point do flags that exclude each other hold.
LEMMA ReadSound ==
    ASSUME NEW tokens, NEW left, NEW dashed, NEW a, NEW ws,
           Reading(tokens, left, dashed, a, ws)
    PROVE  Exclusive(a) /\ Decided(a) /\ a.unrestricted \in Nat
<1>1. ws \in Seq(WordsOf(tokens)) /\ Exact(a, ws)
  BY DEF Reading
<1> QED BY <1>1, ExactExclusive, ExactDecided

-----------------------------------------------------------------------------
(* The parser.                                                             *)

\* What arguments are made of.
Arguments == UNION {g.tokens \cup ToSet(g.last) : g \in Groups}

Reads(tokens) == \E ws : Reading(tokens, rest, ended, low, ws)
\* The arguments of this pass.
Args == IF pass = "cli" THEN cli ELSE FinalArgs
\* The arguments that count: without the file's if --no-config says so.
Counted == (IF On(Words(cli), "no-config") > 0 THEN <<>> ELSE ConfigArgs(config))
           \o cli
IInv ==
    /\ config \in Seq(Arguments) /\ cli \in Seq(Arguments)
    /\ rest \in Seq(Arguments) /\ ended \in BOOLEAN
    /\ Exclusive(low)
    /\ pass \in {"cli", "both", "done"}
    /\ pass # "done" => Reads(Args)
    /\ pass = "both" => Counted = FinalArgs
    /\ pass = "done" /\ outcome \in {"parsing", "configured"} =>
         rest = <<>> /\ Exact(low, Words(Counted))
    /\ outcome # "parsing" => pass = "done"

LEMMA InitExact == Init => IInv
<1> SUFFICES ASSUME Init PROVE IInv
  OBVIOUS
<1>1. PICK g \in Groups : \E n \in 0..g.max :
         \E s \in [1..n -> g.tokens], k \in 0..n :
            config = SubSeq(s, 1, k) /\ cli = SubSeq(s, k + 1, n) \o g.last
  BY DEF Init
<1>2. PICK n \in 0..g.max : \E s \in [1..n -> g.tokens], k \in 0..n :
            config = SubSeq(s, 1, k) /\ cli = SubSeq(s, k + 1, n) \o g.last
  BY <1>1
<1>3. PICK s \in [1..n -> g.tokens], k \in 0..n :
            config = SubSeq(s, 1, k) /\ cli = SubSeq(s, k + 1, n) \o g.last
  BY <1>2
<1>4. g.tokens \subseteq Arguments /\ ToSet(g.last) \subseteq Arguments
  BY DEF Arguments
<1>5. g.max \in Nat /\ g.last \in Seq(ToSet(g.last))
  BY CommandLineAssumption
<1>6. n \in Nat /\ k \in Nat /\ k <= n
  BY <1>5
<1>7. \A i \in 1 .. n : s[i] \in Arguments
  BY <1>4
<1>8. SubSeq(s, 1, k) \in Seq(Arguments)
  BY <1>6, <1>7
<1>9. SubSeq(s, k + 1, n) \in Seq(Arguments)
  BY <1>6, <1>7
<1>10. g.last \in Seq(Arguments)
  BY <1>4, <1>5
<1>11. config \in Seq(Arguments) /\ cli \in Seq(Arguments)
  BY ONLY <1>3, <1>8, <1>9, <1>10
<1>12. Reading(cli, cli, FALSE, Default, <<>>)
  BY <1>11, ReadNone
<1>13. Reads(cli) /\ Exclusive(low)
  BY <1>12, ReadSound DEF Reads, Init
<1> QED BY <1>11, <1>13 DEF IInv, Init, Args


\* The word of a name, and of a negated name.
LEMMA WordOf ==
    ASSUME NEW t, NEW v
    PROVE  /\ t.name \notin NegatedNames =>
                Word(t, v) = [flag |-> t.name, on |-> TRUE, text |-> v]
           /\ \A n \in Negations : n[1] = t.name =>
                Word(t, v) = [flag |-> n[2], on |-> FALSE, text |-> v]
<1>1. ASSUME t.name \notin NegatedNames
      PROVE  Word(t, v) = [flag |-> t.name, on |-> TRUE, text |-> v]
  <2>1. (t.name \notin NegatedNames) = TRUE
    BY <1>1
  <2> HIDE DEF NegatedNames
  <2> QED BY ONLY <1>1, <2>1 DEF Word
<1>2. ASSUME NEW n \in Negations, n[1] = t.name
      PROVE  Word(t, v) = [flag |-> n[2], on |-> FALSE, text |-> v]
  <2>1. t.name \in NegatedNames
    BY <1>2 DEF NegatedNames
  <2>2. (t.name \notin NegatedNames) = FALSE
    BY <2>1
  <2>3. (CHOOSE m \in Negations : m[1] = t.name) = n
    BY <1>2, NegationIsUnique
  <2> HIDE DEF NegatedNames, Negations
  <2> QED BY ONLY <2>1, <2>2, <2>3 DEF Word
<1> QED BY <1>1, <1>2

LEMMA ArgsSeq ==
    ASSUME config \in Seq(Arguments), cli \in Seq(Arguments)
    PROVE  FinalArgs \in Seq(Arguments) /\ Args \in Seq(Arguments)
<1>1. ConfigArgs(config) \in Seq(Arguments)
  BY ConfigArgsSeq
<1>2. FinalArgs \in Seq(Arguments)
  BY <1>1 DEF FinalArgs
<1> QED BY <1>2 DEF Args

\* Tokens that are read leave the rest of the claim as it is.
LEMMA ParseStep ==
    ASSUME IInv, Parsing, UNCHANGED <<input, pass, outcome>>,
           rest' \in Seq(Arguments), ended' \in BOOLEAN,
           \E more : Reading(Args, rest', ended', low', more)
    PROVE  IInv'
<1>1. /\ config' = config /\ cli' = cli /\ pass' = pass /\ outcome' = outcome
  BY DEF input
<1>2. Args' = Args /\ FinalArgs' = FinalArgs /\ Counted' = Counted
  BY <1>1 DEF Args, FinalArgs, Counted
<1>3. PICK more : Reading(Args, rest', ended', low', more)
  OBVIOUS
<1>4. Reads(Args)'
  BY <1>2, <1>3 DEF Reads
<1>5. Exclusive(low')
  BY <1>3, ReadSound
<1>6. pass # "done"
  BY DEF IInv, Parsing
<1> QED BY <1>1, <1>2, <1>4, <1>5, <1>6 DEF IInv, Parsing

\* One step for each action that reads a token.
LEMMA ReadingStep ==
    ASSUME IInv,
           EndOfFlags \/ Positional \/ SpecialFlag \/ SwitchFlag \/ NegatedFlag
             \/ ValueFlag
    PROVE  IInv'
<1> DEFINE t == Head(rest)
<1>1. /\ Parsing /\ UNCHANGED <<input, pass, outcome>>
      /\ rest # <<>> /\ outcome = "parsing"
  BY DEF EndOfFlags, Positional, SpecialFlag, SwitchFlag, NegatedFlag,
         ValueFlag, AtFlag, Parsing
<1>2. /\ rest \in Seq(Arguments) /\ ended \in BOOLEAN /\ Args \in Seq(Arguments)
      /\ Tail(rest) \in Seq(Arguments)
  BY <1>1, ArgsSeq DEF IInv
<1>3. pass # "done"
  BY <1>1 DEF IInv
<1>4. PICK ws : Reading(Args, rest, ended, low, ws)
  BY <1>3 DEF IInv, Reads
<1>5. Decided(low) /\ low.unrestricted \in Nat
  BY <1>4, ReadSound
<1>6. Relevant \subseteq DOMAIN low
  BY <1>5 DEF Decided
<1>7. CASE EndOfFlags
  <2>1. ended = FALSE /\ ended' = TRUE /\ rest' = Tail(rest) /\ t = DashDash
        /\ low' = low
    BY <1>2, <1>7 DEF EndOfFlags
  <2>2. Reading(Args, Tail(rest), TRUE, low, ws)
    BY <1>1, <1>2, <1>4, <2>1, ReadDashes
  <2> QED BY <1>1, <1>2, <2>1, <2>2, ParseStep
<1>8. CASE Positional
  <2>1. /\ ended \/ t.name = ""
        /\ low' = [low EXCEPT !.positional = Append(@, Raw(t))]
        /\ rest' = Tail(rest) /\ ended' = ended
    BY <1>8 DEF Positional
  <2>2. KeepsBut(low, low', {})
    BY ONLY <1>6, <2>1 DEF KeepsBut, Relevant
  <2>3. Reading(Args, Tail(rest), ended, low', ws)
    BY <1>1, <1>2, <1>4, <2>1, <2>2, ReadPlain
  <2> QED BY <1>1, <1>2, <2>1, <2>3, ParseStep
<1>9. ASSUME ~ended, t.name \notin {"", "--"}, t.value = None,
             t.name \notin Valued, ended' = ended, rest' = Tail(rest),
             Effect(Word(t, ""), low, low')
      PROVE  IInv'
  <2>1. ended = FALSE
    BY <1>2, <1>9
  <2>2. ~(Takes(t) /\ Len(rest) > 1)
    BY <1>9 DEF Takes
  <2>3. OrElse(t.value, "") = ""
    BY <1>9 DEF OrElse
  <2>4. \E more : Reading(Args, Tail(rest), FALSE, low', more)
    BY <1>1, <1>2, <1>4, <1>9, <2>1, <2>2, <2>3, ReadFlag
  <2> QED BY <1>1, <1>2, <1>9, <2>1, <2>4, ParseStep
<1>10. CASE SpecialFlag
  <2>1. /\ ~ended /\ t.name \notin {"", "--"} /\ t.value = None
        /\ t.name \in DOMAIN Specials
        /\ low' = [low EXCEPT !.special = Some(Specials[t.name])]
        /\ rest' = Tail(rest) /\ ended' = ended
    BY <1>10 DEF SpecialFlag, AtFlag
  <2>2. KeepsBut(low, low', {})
    BY ONLY <1>6, <2>1 DEF KeepsBut, Relevant
  <2>3. t.name \notin Valued /\ t.name \notin NegatedNames /\ t.name \notin Meaningful
    BY <2>1, SpecialNames
  <2>4. Word(t, "") = [flag |-> t.name, on |-> TRUE, text |-> ""]
    BY <2>3, WordOf
  <2>5. Word(t, "").flag = t.name /\ Word(t, "").on \in BOOLEAN
    <3>1. /\ [flag |-> t.name, on |-> TRUE, text |-> ""].flag = t.name
          /\ [flag |-> t.name, on |-> TRUE, text |-> ""].on \in BOOLEAN
      BY Zenon
    <3> QED BY ONLY <2>4, <3>1
  <2>6. Effect(Word(t, ""), low, low')
    BY <1>5, <2>2, <2>3, <2>5, OtherEffect
  <2> QED BY <1>9, <2>1, <2>3, <2>6
<1>11. CASE SwitchFlag
  <2>1. /\ ~ended /\ t.name \notin {"", "--"} /\ t.value = None
        /\ t.name \in Switches
        /\ low' = SwitchUpdate(t.name, TRUE, low)
        /\ rest' = Tail(rest) /\ ended' = ended
    BY <1>11 DEF SwitchFlag, AtFlag
  <2>2. t.name \notin Valued /\ t.name \notin NegatedNames /\ t.name \notin Negatable
    BY <2>1, NamesDiffer, NegatableNames
  <2>3. Word(t, "") = [flag |-> t.name, on |-> TRUE, text |-> ""]
    BY <2>2, WordOf
  <2>4. Effect([flag |-> t.name, on |-> TRUE, text |-> ""], low,
               SwitchUpdate(t.name, TRUE, low))
    BY <1>5, <2>1, <2>2, SwitchEffect
  <2>5. Effect(Word(t, ""), low, low')
    BY ONLY <2>1, <2>3, <2>4
  <2> QED BY <1>9, <2>1, <2>2, <2>5
<1>12. CASE NegatedFlag
  <2>1. /\ ~ended /\ t.name \notin {"", "--"} /\ t.value = None
        /\ rest' = Tail(rest) /\ ended' = ended
    BY <1>12 DEF NegatedFlag, AtFlag
  <2>2. PICK n \in Negations : n[1] = t.name /\ low' = SwitchUpdate(n[2], FALSE, low)
    BY <1>12 DEF NegatedFlag
  <2>3. t.name \in NegatedNames
    BY <2>2 DEF NegatedNames
  <2>4. t.name \notin Valued
    BY <2>3, NamesDiffer
  <2>5. Word(t, "") = [flag |-> n[2], on |-> FALSE, text |-> ""]
    BY <2>2, WordOf
  <2>6. n[2] \in Switches \cup Negatable /\ n[2] \notin AlwaysOn
    BY NegationsAreSwitches
  <2>7. Effect([flag |-> n[2], on |-> FALSE, text |-> ""], low,
               SwitchUpdate(n[2], FALSE, low))
    BY <1>5, <2>6, SwitchEffect
  <2>8. Effect(Word(t, ""), low, low')
    BY ONLY <2>2, <2>5, <2>7
  <2> QED BY <1>9, <2>1, <2>4, <2>8
<1>13. CASE ValueFlag
  <2>1. /\ ended = FALSE /\ t.name \notin {"", "--"} /\ t.name \in Valued
        /\ HasValue(rest) /\ ~ValueRefused(t.name, ValueOf(rest))
        /\ low' = ValueUpdate(t.name, ValueOf(rest), low)
        /\ rest' = AfterValue(rest) /\ ended' = FALSE
    BY <1>2, <1>13 DEF ValueFlag, AtFlag
  <2>2. t.name \notin NegatedNames
    BY <2>1, NamesDiffer
  <2>3. Effect([flag |-> t.name, on |-> TRUE, text |-> ValueOf(rest)], low, low')
    BY <1>5, <2>1, ValueEffect
  <2>4. Word(t, ValueOf(rest)) = [flag |-> t.name, on |-> TRUE, text |-> ValueOf(rest)]
    BY <2>2, WordOf
  <2>5. Effect(Word(t, ValueOf(rest)), low, low')
    BY ONLY <2>3, <2>4
  <2>6. rest[1] = t
    BY <1>1, <1>2
  <2>7. CASE t.value # None
    <3>1. rest' = Tail(rest)
      BY <2>1, <2>6, <2>7 DEF AfterValue
    <3>2. OrElse(t.value, "") = ValueOf(rest)
      BY <2>6, <2>7 DEF OrElse, ValueOf, The
    <3>3. ~(Takes(t) /\ Len(rest) > 1)
      BY <2>7 DEF Takes
    <3>4. \E more : Reading(Args, Tail(rest), FALSE, low', more)
      BY <1>1, <1>2, <1>4, <2>1, <2>5, <3>2, <3>3, ReadFlag
    <3> QED BY <1>1, <1>2, <2>1, <3>1, <3>4, ParseStep
  <2>8. CASE t.value = None
    <3>1. Takes(t) /\ Len(rest) > 1
      BY <2>1, <2>6, <2>8 DEF Takes, HasValue
    <3>2. ValueOf(rest) = Raw(rest[2]) /\ rest' = Tail(Tail(rest))
      BY <2>1, <2>6, <2>8 DEF ValueOf, AfterValue
    <3>3. Tail(Tail(rest)) \in Seq(Arguments)
      BY <1>2, <3>1, SecondLeft
    <3>4. \E more : Reading(Args, Tail(Tail(rest)), FALSE, low', more)
      BY <1>1, <1>2, <1>4, <2>1, <2>5, <3>1, <3>2, ReadValue
    <3> QED BY <1>1, <2>1, <3>2, <3>3, <3>4, ParseStep
  <2> QED BY <2>7, <2>8
<1> QED BY <1>7, <1>8, <1>10, <1>11, <1>12, <1>13


\* The end of a pass, and the conversion.
LEMMA PassStep ==
    ASSUME IInv, BadFlag \/ FirstPassEnds \/ SecondPassEnds \/ Convert
    PROVE  IInv'
<1>1. /\ config' = config /\ cli' = cli /\ outcome = "parsing"
  BY DEF BadFlag, FirstPassEnds, SecondPassEnds, Convert, AtFlag, Parsing, input
<1>2. FinalArgs' = FinalArgs /\ Counted' = Counted
  BY <1>1 DEF FinalArgs, Counted
<1>3. /\ config \in Seq(Arguments) /\ cli \in Seq(Arguments)
      /\ rest \in Seq(Arguments) /\ ended \in BOOLEAN /\ Exclusive(low)
      /\ FinalArgs \in Seq(Arguments) /\ Args \in Seq(Arguments)
  BY ArgsSeq DEF IInv
<1>4. CASE BadFlag
  <2>1. /\ outcome' = "error" /\ pass' = "done" /\ rest' = rest
        /\ ended' = ended /\ low' = low
    BY <1>4 DEF BadFlag
  <2> QED BY <1>1, <1>3, <2>1 DEF IInv
<1>5. ASSUME pass # "done", rest = <<>>
      PROVE  Words(Args) \in Seq(WordsOf(Args)) /\ Exact(low, Words(Args))
  <2>1. PICK ws : Reading(Args, <<>>, ended, low, ws)
    BY <1>5 DEF IInv, Reads
  <2> QED BY <1>3, <2>1, ReadAll
<1>6. CASE FirstPassEnds
  <2>1. pass = "cli" /\ rest = <<>> /\ Args = cli
    BY <1>6 DEF FirstPassEnds, Args
  <2>2. Exact(low, Words(cli))
    BY <1>5, <2>1
  <2>3. /\ low.no_config <=> On(Words(cli), "no-config") > 0
    BY <2>2 DEF Exact, FileExact
  <2>4. CASE low.special # None
    <3>1. /\ outcome' = "special" /\ pass' = "done" /\ rest' = rest
          /\ ended' = ended /\ low' = low
      BY <1>6, <2>4 DEF FirstPassEnds
    <3> QED BY <1>1, <1>3, <3>1 DEF IInv
  <2>5. CASE low.special = None /\ (low.no_config \/ ConfigArgs(config) = <<>>)
    <3>1. /\ outcome' = outcome /\ pass' = "done" /\ rest' = rest
          /\ ended' = ended /\ low' = low
      BY <1>6, <2>5 DEF FirstPassEnds
    <3>2. <<>> \o cli = cli
      BY <1>3
    <3>3. Counted = cli
      BY ONLY <2>3, <2>5, <3>2 DEF Counted
    <3> QED BY <1>1, <1>2, <1>3, <2>1, <2>2, <3>1, <3>3 DEF IInv
  <2>6. CASE low.special = None /\ ~(low.no_config \/ ConfigArgs(config) = <<>>)
    <3>1. /\ outcome' = outcome /\ pass' = "both" /\ rest' = FinalArgs
          /\ ended' = FALSE /\ low' = Default
      BY <1>6, <2>6 DEF FirstPassEnds
    <3>2. Counted = FinalArgs
      BY ONLY <2>3, <2>6 DEF Counted, FinalArgs
    <3>3. Reading(FinalArgs, FinalArgs, FALSE, Default, <<>>)
      BY <1>3, ReadNone
    <3>4. Args' = FinalArgs
      BY <1>2, <3>1 DEF Args
    <3>5. Reads(Args)'
      BY <3>1, <3>3, <3>4 DEF Reads
    <3>6. Exclusive(low')
      BY <3>1, <3>3, ReadSound
    <3> QED BY <1>1, <1>2, <1>3, <3>1, <3>2, <3>5, <3>6 DEF IInv
  <2> QED BY <2>4, <2>5, <2>6
<1>7. CASE SecondPassEnds
  <2>1. /\ pass = "both" /\ rest = <<>> /\ pass' = "done" /\ rest' = rest
        /\ ended' = ended /\ low' = low /\ outcome' = outcome
    BY <1>7 DEF SecondPassEnds
  <2>2. Args = FinalArgs /\ Counted = FinalArgs
    BY <2>1 DEF Args, IInv
  <2>3. Exact(low, Words(FinalArgs))
    BY <1>5, <2>1, <2>2
  <2> QED BY <1>1, <1>2, <1>3, <2>1, <2>2, <2>3 DEF IInv
<1>8. CASE Convert
  <2>1. /\ pass = "done" /\ pass' = pass /\ rest' = rest
        /\ ended' = ended /\ low' = low
    BY <1>8 DEF Convert
  <2>2. rest = <<>> /\ Exact(low, Words(Counted))
    BY <1>1, <2>1 DEF IInv
  <2> QED BY <1>1, <1>2, <1>3, <2>1, <2>2 DEF IInv
<1> QED BY <1>4, <1>6, <1>7, <1>8

LEMMA StepExact == IInv /\ [Next]_vars => IInv'
<1> SUFFICES ASSUME IInv, [Next]_vars PROVE IInv'
  OBVIOUS
<1>1. CASE EndOfFlags \/ Positional \/ SpecialFlag \/ SwitchFlag \/ NegatedFlag
             \/ ValueFlag
  BY <1>1, ReadingStep
<1>2. CASE BadFlag \/ FirstPassEnds \/ SecondPassEnds \/ Convert
  BY <1>2, PassStep
<1>3. CASE UNCHANGED vars
  BY <1>3 DEF IInv, vars, Reads, Args, FinalArgs, Counted
<1> QED BY <1>1, <1>2, <1>3 DEF Next, Done

\* Whatever is on the command line and in the configuration file, and at every
\* point of both passes, \r\n and NUL are not both the line terminator, no
\* preprocessor is set beside -z, and multi-line search is not combined with
\* stop-on-nonmatch: Crlf, NullData, Pre, SearchZip, Multiline and
\* StopOnNonmatch in defs.rs each undo the other.
THEOREM FlagsExclude == Spec => []NeverBoth
<1>1. IInv => NeverBoth
  BY DEF IInv, Exclusive, NeverBoth
<1>2. QED
  BY InitExact, StepExact, <1>1, PTL DEF Spec

\* Whatever is on the command line and in the configuration file, ripgrep is
\* configured with what the file's flags followed by the command line's mean,
\* read off the whole sequence: the last flag wins, -A and -B win over -C, each
\* -u means what it is documented to, a flag that undoes another leaves nothing
\* of it, and --no-config counts only on the command line (parse_low in
\* parse.rs and every update in defs.rs).  A mode that does not search wins over
\* those that do, but for a sequence in which one of these comes after it: there
\* Mode::update does not do what its comments say.
THEOREM OverridesCorrect == Spec => []OverridesExact
<1>1. IInv => OverridesExact
  <2> SUFFICES ASSUME IInv, outcome = "configured"
               PROVE  Agree(low, Words(Counted))
    BY DEF OverridesExact, Counted
  <2>1. Exact(low, Words(Counted))
    BY DEF IInv
  <2>2. Counted \in Seq(Arguments)
    <3>1. ConfigArgs(config) \in Seq(Arguments) /\ cli \in Seq(Arguments)
      BY ConfigArgsSeq DEF IInv
    <3> QED BY <3>1 DEF Counted
  <2>3. Words(Counted) \in Seq(WordsOf(Counted))
    <3>1. 1 \in 1 .. (Len(Counted) + 2)
      BY <2>2
    <3>2. From(Counted)[1] \in Seq(WordsOf(Counted))
      BY <2>2, <3>1, FromSeq
    <3> QED BY <3>2, WordsFrom
  <2> QED BY <2>1, <2>3, ExactAgree
<1>2. QED
  BY InitExact, StepExact, <1>1, PTL DEF Spec


-----------------------------------------------------------------------------
(* Standard input.                                                         *)

\* What Patterns starts from.
NoSource(a) == [ok |-> TRUE, patterns |-> <<>>, stdin |-> FALSE,
                paths |-> a.positional]

\* The equation of the function in Patterns, and that there is such a function.
Accumulates(f, sources, none, i) ==
    f[i] = IF i = 0 THEN none ELSE AddSource(f[i - 1], sources[i])
LEMMA SourcesFrom ==
    ASSUME NEW X, NEW sources \in Seq(X), NEW none, NEW k \in 0 .. Len(sources)
    PROVE  \E f : \A i \in 0 .. k : Accumulates(f, sources, none, i)
<1> DEFINE n == Len(sources)
           Adds(f, i) == f[i] = IF i = 0 THEN none
                                ELSE AddSource(f[i - 1], sources[i])
           Has(j) == \E f : \A i \in 0 .. j : Adds(f, i)
           Bad == {j \in 0 .. n : ~Has(j)}
<1>1. n \in Nat
  OBVIOUS
<1>2. Has(0)
  <2> DEFINE f == [i \in {0} |-> none]
  <2>1. \A i \in 0 .. 0 : i = 0
    OBVIOUS
  <2>2. f[0] = none
    OBVIOUS
  <2> HIDE DEF f
  <2> QED BY <2>1, <2>2
<1>3. ASSUME NEW j \in 0 .. n, j # n, Has(j) PROVE Has(j + 1)
  <2>1. PICK f : \A i \in 0 .. j : Adds(f, i)
    BY <1>3
  <2> DEFINE x == AddSource(f[j], sources[j + 1])
             g == [i \in 0 .. (j + 1) |-> IF i = j + 1 THEN x ELSE f[i]]
  <2>2. j \in Nat /\ j + 1 \in 1 .. n /\ j + 1 # 0 /\ (j + 1) - 1 = j
    BY <1>1, <1>3
  <2>3. g[j + 1] = x /\ \A i \in 0 .. j : g[i] = f[i]
    <3> HIDE DEF x
    <3> QED BY ONLY <2>2
  <2> HIDE DEF g
  <2>4. Adds(g, j + 1)
    <3>1. g[j] = f[j]
      BY <2>2, <2>3
    <3> QED BY ONLY <2>2, <2>3, <3>1
  <2>5. ASSUME NEW i \in 0 .. j PROVE Adds(g, i)
    <3>1. i # 0 => i - 1 \in 0 .. j
      BY <2>2
    <3>2. g[i] = f[i] /\ (i # 0 => g[i - 1] = f[i - 1])
      BY ONLY <2>3, <3>1, i \in 0 .. j
    <3>3. Adds(f, i)
      BY <2>1
    <3> QED BY ONLY <3>2, <3>3
  <2>6. \A i \in 0 .. (j + 1) : i = j + 1 \/ i \in 0 .. j
    BY <2>2
  <2> HIDE DEF Adds
  <2> QED BY <2>4, <2>5, <2>6
<1> HIDE DEF Has
<1>4. ASSUME Bad # {} PROVE FALSE
  <2>0. Bad \in SUBSET Nat
    BY <1>1
  <2>1. PICK j \in Bad : \A y \in Bad : j <= y
    <3> HIDE DEF Bad
    <3> QED BY <1>4, <2>0, LeastIn
  <2>2. j # 0
    BY <1>2, <2>1
  <2>3. j - 1 \in 0 .. n /\ j - 1 # n /\ j - 1 \notin Bad /\ (j - 1) + 1 = j
    BY <1>1, <2>1, <2>2
  <2>4. Has(j - 1)
    BY <1>1, <2>3
  <2>5. Has((j - 1) + 1)
    BY <1>3, <2>3, <2>4
  <2> QED BY <2>1, <2>3, <2>5
<1>5. Has(k)
  BY <1>1, <1>4
<1> QED BY <1>5 DEF Has, Accumulates

\* The source that is standard input.
Stdin == <<"File", "-">>

\* Adding a source: a refusal stands, standard input once read stays read, and
\* to read it again is refused.
LEMMA AddSourceOnce ==
    ASSUME NEW acc, NEW source,
           {"ok", "patterns", "stdin"} \subseteq DOMAIN acc,
           acc.ok \in BOOLEAN, acc.stdin \in BOOLEAN
    PROVE  LET next == AddSource(acc, source)
           IN  /\ {"ok", "patterns", "stdin"} \subseteq DOMAIN next
               /\ next.ok \in BOOLEAN /\ next.stdin \in BOOLEAN
               /\ next.ok => acc.ok
               /\ acc.stdin => next.stdin
               /\ next.ok /\ source = Stdin => next.stdin /\ ~acc.stdin
<1> DEFINE next == AddSource(acc, source)
           refused == \/ source[2] \notin DOMAIN PatternFiles
                      \/ source[2] = "-" /\ acc.stdin
<1>1. CASE source[1] = "Regexp"
  <2>1. next = [acc EXCEPT !.patterns = AddPattern(@, source[2])]
    BY <1>1 DEF AddSource
  <2> HIDE DEF next
  <2>2. next.ok = acc.ok /\ next.stdin = acc.stdin /\ DOMAIN next = DOMAIN acc
    BY ONLY <2>1
  <2>3. source # Stdin
    BY <1>1 DEF Stdin
  <2> QED BY <2>2, <2>3 DEF next
<1>2. CASE source[1] # "Regexp" /\ refused
  <2>1. next = [acc EXCEPT !.ok = FALSE]
    BY <1>2 DEF AddSource
  <2> HIDE DEF next, refused
  <2>2. next.ok = FALSE /\ next.stdin = acc.stdin /\ DOMAIN next = DOMAIN acc
    BY ONLY <2>1, {"ok", "patterns", "stdin"} \subseteq DOMAIN acc
  <2>3. ~next.ok /\ next.ok \in BOOLEAN
    BY Zenon, <2>2
  <2> QED BY <2>2, <2>3 DEF next
<1>3. CASE source[1] # "Regexp" /\ ~refused
  <2> DEFINE more == FoldLeft(AddPattern, acc.patterns, PatternFiles[source[2]])
  <2>1. next = [acc EXCEPT !.patterns = more,
                           !.stdin = @ \/ source[2] = "-"]
    BY <1>3 DEF AddSource
  <2> HIDE DEF next, more
  <2>2. /\ next.ok = acc.ok /\ DOMAIN next = DOMAIN acc
        /\ next.stdin = (acc.stdin \/ source[2] = "-")
    BY ONLY <2>1, {"ok", "patterns", "stdin"} \subseteq DOMAIN acc
  <2>3. next.stdin \in BOOLEAN /\ (next.stdin <=> acc.stdin \/ source[2] = "-")
    BY Zenon, <2>2
  <2>4. source = Stdin => source[2] = "-" /\ ~acc.stdin
    BY <1>3 DEF Stdin
  <2> QED BY <2>2, <2>3, <2>4 DEF next
<1> QED BY <1>1, <1>2, <1>3

\* A list of sources that is accepted names standard input at most once.
LEMMA StdinOnce ==
    ASSUME NEW a, NEW X, a.patterns \in Seq(X), Searches(a), a.patterns # <<>>,
           Patterns(a).ok
    PROVE  \A i \in 1 .. Len(a.patterns), j \in 1 .. Len(a.patterns) :
             a.patterns[i] = Stdin /\ a.patterns[j] = Stdin => i = j
<1> DEFINE sources == a.patterns
           n == Len(sources)
           none == NoSource(a)
           Next1(f, i) == IF i = 0 THEN none ELSE AddSource(f[i - 1], sources[i])
           Adds(f) == f = [i \in 0 .. n |-> Next1(f, i)]
           read == CHOOSE f : Adds(f)
<1>1. n \in Nat
  OBVIOUS
<1>2. Patterns(a) = read[n]
  BY DEF Patterns, NoSource
<1>3. PICK f : \A i \in 0 .. n : f[i] = Next1(f, i)
  <2>1. Len(sources) \in 0 .. Len(sources) /\ sources \in Seq(X) /\ n = Len(sources)
    BY <1>1
  <2> HIDE DEF sources, none, n
  <2>2. \E f : \A i \in 0 .. n : Accumulates(f, sources, none, i)
    BY ONLY <2>1, SourcesFrom
  <2> QED BY ONLY <2>2 DEF Accumulates
<1>4. \E g : Adds(g)
  <2> DEFINE g == [i \in 0 .. n |-> f[i]]
  <2>1. \A i \in 0 .. n : g[i] = f[i]
    OBVIOUS
  <2>2. \A i \in 0 .. n : Next1(g, i) = Next1(f, i)
    <3>1. TAKE i \in 0 .. n
    <3>2. i # 0 => i - 1 \in 0 .. n
      BY <1>1
    <3>3. i # 0 => g[i - 1] = f[i - 1]
      BY ONLY <2>1, <3>2
    <3> HIDE DEF g
    <3> QED BY ONLY <3>3
  <2>3. g = [i \in 0 .. n |-> f[i]]
    OBVIOUS
  <2> HIDE DEF Next1, g, n
  <2> QED BY <1>3, <2>2, <2>3
<1>5. Adds(read)
  <2> HIDE DEF Adds
  <2> QED BY <1>4
<1> HIDE DEF read
<1>6. \A i \in 0 .. n : read[i] = Next1(read, i)
  <2> HIDE DEF Next1, n
  <2> QED BY <1>5
<1>7. read[0] = none /\ \A i \in 1 .. n : read[i] = AddSource(read[i - 1], sources[i])
  <2>1. 0 \in 0 .. n /\ \A i \in 1 .. n : i \in 0 .. n /\ i # 0
    BY <1>1
  <2> HIDE DEF n, none
  <2> QED BY ONLY <1>6, <2>1
<1>8. none.ok /\ ~none.stdin /\ none.ok \in BOOLEAN /\ none.stdin \in BOOLEAN
      /\ {"ok", "patterns", "stdin"} \subseteq DOMAIN none
  <2>1. none.ok = TRUE /\ none.stdin = FALSE
    BY DEF NoSource
  <2>2. {"ok", "patterns", "stdin"} \subseteq DOMAIN none
    BY DEF NoSource
  <2> HIDE DEF none
  <2> QED BY Zenon, <2>1, <2>2
<1> HIDE DEF sources, n, none, Next1, Adds
<1> DEFINE Good(i) == /\ {"ok", "patterns", "stdin"} \subseteq DOMAIN read[i]
                      /\ read[i].ok \in BOOLEAN /\ read[i].stdin \in BOOLEAN
           Bad == {i \in 0 .. n : ~Good(i)}
<1>9. ASSUME Bad # {} PROVE FALSE
  <2>0. Bad \in SUBSET Nat
    BY <1>1
  <2>1. PICK i \in Bad : \A y \in Bad : i <= y
    <3> HIDE DEF Bad
    <3> QED BY <1>9, <2>0, LeastIn
  <2>2. i \in 0 .. n /\ ~Good(i)
    BY <2>1
  <2>3. i # 0
    BY <1>7, <1>8, <2>2
  <2>4. i \in 1 .. n /\ i - 1 \in 0 .. n /\ i - 1 \notin Bad
    BY <1>1, <2>1, <2>2, <2>3
  <2>5. Good(i - 1)
    BY <2>4
  <2>6. read[i] = AddSource(read[i - 1], sources[i])
    BY <1>7, <2>4
  <2>7. Good(i)
    BY ONLY <2>5, <2>6, AddSourceOnce
  <2> QED BY <2>2, <2>7
<1>10. ASSUME NEW i \in 1 .. n
       PROVE  /\ read[i].ok => read[i - 1].ok
              /\ read[i - 1].stdin => read[i].stdin
              /\ read[i].ok /\ sources[i] = Stdin => read[i].stdin /\ ~read[i - 1].stdin
  <2>1. i - 1 \in 0 .. n /\ i - 1 \notin Bad
    BY <1>1, <1>9
  <2>2. Good(i - 1)
    BY <2>1
  <2>3. read[i] = AddSource(read[i - 1], sources[i])
    BY <1>7
  <2> QED BY ONLY <2>2, <2>3, AddSourceOnce
<1>11. \A i \in 0 .. n : read[i].ok
  <2> DEFINE Refused == {k \in 0 .. n : ~read[n - k].ok}
  <2>1. ASSUME Refused # {} PROVE FALSE
    <3>0. Refused \in SUBSET Nat
      OBVIOUS
    <3>1. PICK k \in Refused : \A y \in Refused : k <= y
      <4> HIDE DEF Refused
      <4> QED BY <2>1, <3>0, LeastIn
    <3>2. k \in 0 .. n /\ ~read[n - k].ok
      BY <3>1
    <3>3. k # 0
      <4>1. n - 0 = n
        BY <1>1
      <4> QED BY <1>2, <3>2, <4>1 DEF sources, n
    <3>4. /\ k - 1 \in 0 .. n /\ k - 1 \notin Refused /\ n - k + 1 \in 1 .. n
          /\ n - (k - 1) = n - k + 1 /\ (n - k + 1) - 1 = n - k
      BY <1>1, <3>1, <3>2, <3>3
    <3>5. read[n - k + 1].ok
      BY <3>4
    <3>6. read[(n - k + 1) - 1].ok
      BY ONLY <1>10, <3>4, <3>5
    <3> QED BY <3>2, <3>4, <3>6
  <2>2. ASSUME NEW i \in 0 .. n PROVE read[i].ok
    <3>1. n - i \in 0 .. n /\ n - (n - i) = i
      BY ONLY <1>1, i \in 0 .. n
    <3>2. n - i \notin Refused
      <4> HIDE DEF Refused
      <4> QED BY ONLY <2>1
    <3> QED BY <3>1, <3>2
  <2> QED BY <2>2
<1>12. ASSUME NEW i \in 1 .. n, NEW j \in 1 .. n, i < j,
              sources[i] = Stdin, sources[j] = Stdin
       PROVE  FALSE
  <2> DEFINE Unread == {m \in i .. n : ~read[m].stdin}
  <2>1. i \in Nat /\ j - 1 \in i .. n /\ i \in 0 .. n /\ j \in 0 .. n
    BY <1>1, <1>12
  <2>2. read[i].stdin
    BY <1>10, <1>11, <1>12, <2>1
  <2>3. ASSUME Unread # {} PROVE FALSE
    <3>0. Unread \in SUBSET Nat
      <4>1. \A m \in i .. n : m \in Nat
        BY ONLY <1>1, <2>1
      <4> QED BY ONLY <4>1
    <3>1. PICK m \in Unread : \A y \in Unread : m <= y
      <4> HIDE DEF Unread
      <4> QED BY <2>3, <3>0, LeastIn
    <3>2. m \in i .. n /\ ~read[m].stdin
      BY <3>1
    <3>3. m # i
      BY <2>2, <3>2
    <3>4. m \in 1 .. n /\ m - 1 \in i .. n /\ m - 1 \notin Unread
      BY <1>1, <2>1, <3>1, <3>2, <3>3
    <3>5. read[m - 1].stdin
      BY <3>4
    <3> QED BY <1>10, <3>2, <3>4, <3>5
  <2>4. read[j - 1].stdin
    BY <2>1, <2>3
  <2>5. ~read[j - 1].stdin
    BY <1>10, <1>11, <1>12, <2>1
  <2> QED BY <2>4, <2>5
<1>13. \A i \in 1 .. n, j \in 1 .. n :
         sources[i] = Stdin /\ sources[j] = Stdin => i = j
  <2>1. \A i \in 1 .. n, j \in 1 .. n : i = j \/ i < j \/ j < i
    BY <1>1
  <2> QED BY <1>12, <2>1
<1> QED BY <1>13 DEF n, sources

\* Whatever is on the command line and in the configuration file: of a ripgrep
\* that goes on to search, standard input is read for patterns at most once and
\* is not searched as well, and there is somewhere to search
\* (Patterns::from_low_args and Paths::from_low_args in hiargs.rs).
THEOREM StdinReadOnceCorrect == Spec => []StdinReadOnce
<1> DEFINE Converted == outcome = "configured" => Paths(low).ok
<1>1. Init => Converted
  BY DEF Init
<1>2. Converted /\ [Next]_vars => Converted'
  <2> SUFFICES ASSUME Converted, [Next]_vars PROVE Converted'
    OBVIOUS
  <2>1. CASE Convert
    <3>1. low' = low /\ env' = env
      BY <2>1 DEF Convert, input
    <3>2. outcome' = "configured" => Paths(low).ok
      BY <2>1 DEF Convert
    <3>3. Paths(low)' = Paths(low)
      BY <3>1 DEF Paths, Patterns, UseCwd, Searches, FinalMode
    <3> QED BY <3>2, <3>3
  <2>2. CASE BadFlag
    BY <2>2 DEF BadFlag
  <2>3. CASE FirstPassEnds \/ SecondPassEnds \/ EndOfFlags \/ Positional
             \/ SpecialFlag \/ SwitchFlag \/ NegatedFlag \/ ValueFlag
    <3>1. outcome' # "configured"
      BY <2>3 DEF FirstPassEnds, SecondPassEnds, EndOfFlags, Positional,
                  SpecialFlag, SwitchFlag, NegatedFlag, ValueFlag, AtFlag, Parsing
    <3> QED BY <3>1
  <2>4. CASE UNCHANGED vars
    <3>1. low' = low /\ env' = env /\ outcome' = outcome
      BY <2>4 DEF vars
    <3>2. Paths(low)' = Paths(low)
      BY <3>1 DEF Paths, Patterns, UseCwd, Searches, FinalMode
    <3> QED BY <3>1, <3>2
  <2> QED BY <2>1, <2>2, <2>3, <2>4 DEF Next, Done
<1>3. IInv /\ Converted => StdinReadOnce
  <2> SUFFICES ASSUME IInv, outcome = "configured", low.mode \in SearchModes,
                      Paths(low).ok
               PROVE  /\ HiArgs(low).stdinPatterns =>
                           "-" \notin ToSet(HiArgs(low).paths)
                      /\ Cardinality({i \in DOMAIN low.patterns :
                                        low.patterns[i] = <<"File", "-">>}) <= 1
                      /\ HiArgs(low).paths # <<>>
    BY DEF StdinReadOnce
  <2> DEFINE p == Patterns(low)
             given == p.paths # <<>>
             cwd == UseCwd(low, p.stdin)
  <2>1. /\ HiArgs(low).paths = Paths(low).paths
        /\ HiArgs(low).stdinPatterns = p.stdin
    BY DEF HiArgs
  <2>2. /\ Paths(low).paths = IF given THEN p.paths
                              ELSE IF cwd THEN <<"./">> ELSE <<"-">>
        /\ Paths(low).ok = (p.ok /\ ~(given /\ p.stdin /\ "-" \in ToSet(p.paths)))
    BY DEF Paths
  <2>3. p.ok /\ ~(given /\ p.stdin /\ "-" \in ToSet(p.paths))
    BY <2>2
  <2>4. p.stdin => cwd
    BY DEF UseCwd
  <2> HIDE DEF p, cwd
  <2>5. Paths(low).paths # <<>>
    BY ONLY <2>2
  <2>6. p.stdin => "-" \notin ToSet(Paths(low).paths)
    <3>1. "-" \notin ToSet(<<"./">>)
      BY DEF ToSet
    <3> QED BY ONLY <2>2, <2>3, <2>4, <3>1
  <2>7. Searches(low)
    BY DEF Searches, FinalMode, SearchModes
  <2>8. PICK X : low.patterns \in Seq(X)
    BY DEF IInv, Exact, SourcesExact
  <2> DEFINE S == {i \in DOMAIN low.patterns : low.patterns[i] = Stdin}
  <2>9. \A i \in S, j \in S : i = j
    <3>1. CASE low.patterns = <<>>
      BY <3>1
    <3>2. CASE low.patterns # <<>>
      <4>1. \A i \in 1 .. Len(low.patterns), j \in 1 .. Len(low.patterns) :
              low.patterns[i] = Stdin /\ low.patterns[j] = Stdin => i = j
        BY <2>3, <2>7, <2>8, <3>2, StdinOnce DEF p
      <4>2. DOMAIN low.patterns = 1 .. Len(low.patterns)
        BY <2>8
      <4> QED BY ONLY <4>1, <4>2
    <3> QED BY <3>1, <3>2
  <2>10. Cardinality(S) <= 1
    <3> HIDE DEF S
    <3>1. CASE S = {}
      BY <3>1, FS_EmptySet
    <3>2. CASE S # {}
      <4>1. PICK i \in S : TRUE
        BY <3>2
      <4>2. S = {i}
        BY <2>9, <4>1
      <4> QED BY <4>2, FS_Singleton
    <3> QED BY <3>1, <3>2
  <2> QED BY <2>1, <2>5, <2>6, <2>10 DEF S, Stdin
<1>4. QED
  BY InitExact, StepExact, <1>1, <1>2, <1>3, PTL DEF Spec
=============================================================================
