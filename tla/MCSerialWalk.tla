---------------------------- MODULE MCSerialWalk ----------------------------
(* Small instances of SerialWalk for TLC.                                  *)
EXTENDS SerialWalk

(* /w is the current directory.  The roots are among the directories /w/a  *)
(* and /w/b and the file /w/f.                                             *)
W == <<"w">>
A == <<"w", "a">>
AX == A \o <<"x">>
D == A \o <<"d">>
DX == D \o <<"x">>
DH == D \o <<".h">>
B == <<"w", "b">>
BX == B \o <<"x">>
F == <<"w", "f">>
Dash == <<"-">>
TheDirs == {A, D, B}
TheTree == TheDirs \cup {AX, DX, DH, BX, F, Dash}
Dotted == {".h"}

Rule(kind, dir, target, anchored, verdict) ==
    [kind |-> kind, dir |-> dir, target |-> target, anchored |-> anchored,
     verdict |-> verdict]

NameRules == {Rule(k, d, t, FALSE, v) :
    k \in {"ignore", "gitignore", "exclude"}, d \in {W, A, D},
    t \in {<<"x">>}, v \in {"ignore", "whitelist"}} \ {
    Rule("exclude", A, <<"x">>, FALSE, v) : v \in {"ignore", "whitelist"}}
PathRules ==
    UNION {{Rule(k, <<>>, DX, TRUE, "ignore"), Rule(k, W, <<"a", "d", "x">>, TRUE, "ignore"),
            Rule(k, A, <<"d", "x">>, TRUE, "whitelist"), Rule(k, D, <<"x">>, TRUE, "whitelist"),
            Rule(k, A, <<"d">>, TRUE, "ignore"), Rule(k, W, <<"d">>, FALSE, "ignore")} :
           k \in {"custom", "gitignore"}}
OtherRules ==
    {Rule(k, W, <<"x">>, FALSE, v) : k \in {"global", "explicit", "override", "types"},
                                     v \in {"ignore", "whitelist"}}
    \cup {Rule("explicit", W, <<"a", "d", "x">>, TRUE, "ignore"),
          Rule("global", W, <<".h">>, FALSE, "whitelist")}
AllRules == NameRules \cup PathRules \cup OtherRules
\* One or two rules, of different files.
SmallSets(S) == {{r, s} : <<r, s>> \in
    {p \in S \X S : p[1] = p[2] \/ p[1].kind # p[2].kind \/ p[1].dir # p[2].dir}}

Plain == [on |-> RuleKinds, parents |-> TRUE, require_git |-> TRUE, hidden |-> TRUE,
          rules |-> {}, repos |-> {W}, roots |-> <<A>>, min_depth |-> 0, max_depth |-> 3,
          stdout |-> {}, unclear |-> {}, limited |-> FALSE, big |-> {},
          rejected |-> {}, bad |-> {}, unreadable |-> {}]

\* Rules that meet, within and across kinds and repositories.
RuleConfigs ==
    {[Plain EXCEPT !.rules = rs, !.repos = g] :
        rs \in SmallSets(AllRules), g \in {{W, D}}}
    \cup {[Plain EXCEPT !.rules = rs, !.repos = {}] :
        rs \in SmallSets({r \in AllRules : r.kind \in {"gitignore", "global"}})}

\* Every choice of options.
Off == {{}, {"custom"}, {"ignore"}, {"exclude"}, {"global"}, {"custom", "ignore"},
        GitKinds \cup {"global"}, RuleKinds}
OptionConfigs ==
    {[Plain EXCEPT !.rules = rs, !.on = RuleKinds \ off, !.parents = p,
                   !.require_git = q, !.repos = g] :
        rs \in {{Rule("gitignore", W, <<"x">>, FALSE, "ignore"),
                 Rule("custom", D, <<"x">>, FALSE, "whitelist")},
                {Rule("exclude", W, <<"d">>, FALSE, "ignore"),
                 Rule("global", W, <<"x">>, FALSE, "ignore")}},
        off \in Off,
        p \in BOOLEAN, q \in BOOLEAN, g \in {{}, {W}, {A}}}

\* Several roots, and everything that is not a matter of rules.
XRule == Rule("ignore", W, <<"x">>, FALSE, "ignore")
DRule == Rule("gitignore", A, <<"d">>, TRUE, "ignore")
WalkConfigs ==
    {[Plain EXCEPT !.rules = rs, !.roots = r, !.bad = b, !.unreadable = u,
                   !.max_depth = m] :
        rs \in {{}, {XRule}, {DRule}}, r \in {<<A, B>>, <<B, A>>, <<A, F, B>>, <<Dash, B, A>>, <<F, A>>,
            <<A, Dash>>, <<B, A, B>>},
        b \in {{}, {AX}, {D}, {F}}, u \in {{}, {D}, {A}}, m \in 0 .. 2}
FilterConfigs ==
    {[Plain EXCEPT !.rules = rs, !.stdout = o, !.unclear = c, !.limited = l,
                   !.big = g, !.rejected = j, !.hidden = h] :
        rs \in {{}, {DRule}}, o \in {{}, {AX}, {DX}}, c \in {{}, {DH}},
        l \in BOOLEAN, g \in {{}, {AX, DX, D}}, j \in {{}, {D}, {DX}, {AX, D}},
        h \in BOOLEAN}
DepthConfigs ==
    {[Plain EXCEPT !.rules = rs, !.min_depth = m, !.max_depth = n, !.roots = <<A, B>>] :
        rs \in {{}, {XRule}}, m \in 0 .. 2, n \in 2 .. 3}

\* Left out, because the code does otherwise: a filter and a size limit at
\* once (skip_entry never asks the filter then, walk.rs:1079), anchored rules of a parent that two roots share
\* (SharedParents), and rules above the depth at which a walk begins.
Sound(c) == c.limited => c.rejected \subseteq Dirs
AllConfigs ==
    UNION {RuleConfigs, OptionConfigs, WalkConfigs, DepthConfigs,
           {c \in FilterConfigs : Sound(c)}}

SharedParents ==
    {[Plain EXCEPT !.roots = <<A, B>>,
                   !.rules = {Rule("gitignore", W, <<"b", "x">>, TRUE, "ignore")}]}
=============================================================================
