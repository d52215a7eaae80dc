----------------------------- MODULE MCSearcher -----------------------------
(* Small instances of the three search strategies for TLC.                 *)
EXTENDS MultiLine

CONSTANTS MaxLines, MaxContext, Limits, MaxHits

Upto(n, lines) == UNION {[1 .. k -> lines] : k \in 0 .. n}
Texts == Upto(MaxLines, [m : BOOLEAN, bin : {FALSE}])
BinaryTexts == Upto(MaxLines - 1, Line)

Contexts == [before : 0 .. MaxContext, after : 0 .. MaxContext, passthru : {FALSE}]
            \cup [before : {0}, after : {0}, passthru : {TRUE}]
Conf(c, l, i, s, d, f, x, r) ==
    [before |-> c.before, after |-> c.after, passthru |-> c.passthru, limit |-> l,
     invert |-> i, stop_on_nonmatch |-> s, detection |-> d, fast |-> f, slice |-> x,
     multi |-> FALSE, terminated |-> TRUE, refusing |-> r]
AllConfigs ==
    {Conf(c, l, i, s, d, f, x, r) : c \in Contexts, l \in Limits \cup {NoLimit},
        i \in BOOLEAN, s \in BOOLEAN, d \in {"none", "quit", "convert"},
        f \in BOOLEAN, x \in BOOLEAN, r \in BOOLEAN}
With(inputs, configs) == [input : inputs, config : configs, hits : {<<>>}]

\* Inverted searches do otherwise than the documentation says if there is a
\* limit (LimitCases), and on the fast path if they are to stop at a
\* non-matching line or the sink refuses a call.
Sound(c) == c.invert => c.limit = NoLimit /\ ~(c.fast /\ (c.stop_on_nonmatch \/ c.refusing))
TextCases ==
    With(Texts, {c \in AllConfigs : Sound(c) /\ c.detection = "none" /\ ~c.refusing})
BinaryCases ==
    With(BinaryTexts, {c \in AllConfigs : /\ Sound(c) /\ c.detection # "none" /\ c.refusing
                                          /\ c.limit \in {1, NoLimit} /\ c.before = c.after})

\* Multi-line searches: every way in which at most MaxHits matches may lie in
\* a text.  A line matches by itself if a match lies within it.
Placements(end) ==
    UNION {{h \in [d -> 0 .. end] : \A s \in d : s <= h[s]} :
              d \in {e \in SUBSET (0 .. end) : Cardinality(e) <= MaxHits}}
LineOf(h, p, end) ==
    [m |-> \E s \in DOMAIN h : 2 * p <= s /\ s < 2 * p + 2 /\ h[s] <= 2 * p + 2,
     bin |-> FALSE]
MultiConf(c, l, i, t, d, r) ==
    [Conf(c, l, i, FALSE, d, FALSE, TRUE, r) EXCEPT !.multi = TRUE, !.terminated = t]

\* A sink that refuses the last match is still told of the lines after it, and
\* a match behind the last line has a context although it is not shown.
MultiSound(c) == /\ c.invert => c.limit = NoLimit
                 /\ c.refusing => c.after = 0 /\ ~c.passthru
MultiConfigs ==
    {c \in {MultiConf(x, l, i, t, "none", r) : x \in Contexts, l \in Limits \cup {NoLimit},
                i \in BOOLEAN, t \in BOOLEAN, r \in BOOLEAN} : MultiSound(c)}
Lies(n, c, h) ==
    /\ n = 0 => c.terminated
    /\ \A s \in DOMAIN h :
          /\ h[s] <= 2 * n - (IF c.terminated THEN 0 ELSE 1)
          /\ c.terminated /\ c.before > 0 => s < 2 * n
MultiCases ==
    {[input |-> [p \in 1 .. x[1] |-> LineOf(x[3], p - 1, 2 * x[1])],
      config |-> x[2], hits |-> x[3]] :
        x \in {<<n, c, h>> \in (0 .. MaxLines - 1) \X MultiConfigs
                                \X Placements(2 * (MaxLines - 1)) : Lies(n, c, h)}}

\* Some of the lines binary.
MultiBinaryCases ==
    {[input |-> [p \in 1 .. 3 |-> [m |-> FALSE, bin |-> p \in b]],
      config |-> MultiConf([before |-> 1, after |-> 0, passthru |-> FALSE],
                           NoLimit, FALSE, TRUE, d, TRUE),
      hits |-> h] :
        b \in SUBSET (1 .. 3), d \in {"quit", "convert"},
        h \in {g \in Placements(6) : \A s \in DOMAIN g : g[s] > s /\ s % 2 = 0}}

SoundCases == TextCases \cup BinaryCases \cup MultiCases \cup MultiBinaryCases

LimitCases ==
    With(Texts, {c \in AllConfigs : /\ c.invert /\ c.limit = 1 /\ ~c.passthru
                                    /\ c.detection = "none"
                                    /\ ~c.stop_on_nonmatch /\ ~c.refusing})
=============================================================================
