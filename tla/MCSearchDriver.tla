--------------------------- MODULE MCSearchDriver ---------------------------
(* Small instances of SearchDriver and BlamedSearch for TLC.               *)
EXTENDS BlamedSearch

CONSTANTS w1, w2, r1, r2, r3

TheResults == {r1, r2, r3}
Mix(a, b, c) == [r \in TheResults |-> CASE r = r1 -> a [] r = r2 -> b [] r = r3 -> c]

\* Every combination of three kinds, up to the order of the results, which
\* the walk does not fix anyway.
KindOrder == <<"walkerr", "dir", "match", "nomatch", "searcherr">>
KindMixes == {Mix(KindOrder[t[1]], KindOrder[t[2]], KindOrder[t[3]]) :
                 t \in {u \in (1..5) \X (1..5) \X (1..5) :
                           u[1] <= u[2] /\ u[2] <= u[3]}}

Arg(m, q, s, i, e) == [mode |-> m, quiet |-> q, stats |-> s, implicit |-> i,
                       messages |-> e, blame |-> FALSE]
SearchArgs == {Arg(m, q, s, TRUE, TRUE) :
                  m \in {"search", "search_parallel"}, q \in BOOLEAN, s \in BOOLEAN}
              \cup {Arg("hopeless", FALSE, FALSE, TRUE, TRUE),
                    Arg("search_parallel", FALSE, FALSE, FALSE, FALSE)}
FilesArgs == {Arg(m, q, FALSE, TRUE, e) :
                 m \in {"files", "files_parallel"}, q \in BOOLEAN, e \in BOOLEAN}
\* With blame, a file is named twice.
BlameArgs == {[Arg(m, FALSE, FALSE, FALSE, FALSE) EXCEPT !.blame = TRUE] :
                 m \in {"search", "search_parallel"}}
ThePaths == [r \in TheResults |-> IF r = r3 THEN r3 ELSE r1]
AllArgs == SearchArgs \cup FilesArgs \cup BlameArgs
=============================================================================
