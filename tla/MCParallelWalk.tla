--------------------------- MODULE MCParallelWalk ---------------------------
(* A small tree for model-checking ParallelWalk.  The root top has trouble *)
(* with its parents' ignore files and holds a directory sub and something  *)
(* that cannot be read, broken.  sub holds a directory odd whose device    *)
(* cannot be determined, a directory inner whose file deep is too deep,    *)
(* and a file unwanted that is ignored.  The root sealed cannot be listed, *)
(* and the root absent cannot be opened.                                   *)
EXTENDS ParallelWalk, TLC

CONSTANTS absent, top, sealed, sub, inner, deep, odd, broken, unwanted

TheRoots == <<top, sealed>>
TheChildren == (top :> {sub, broken}) @@ (sub :> {odd, inner, unwanted})
                 @@ (inner :> {deep}) @@ (odd :> {}) @@ (sealed :> {})
TheDepth == [e \in Entries |->
    CASE e \in {top, sealed} -> 0 [] e \in {sub, broken} -> 1
      [] e \in {odd, inner, unwanted} -> 2 [] e = deep -> 3]
=============================================================================
