------------------------------ MODULE TreeWalk ------------------------------
(***************************************************************************)
(* What a recursive directory walk of crates/ignore promises its caller,   *)
(* whatever visits the tree: one thread with an explicit stack or several  *)
(* threads that steal directories from each other.                         *)
(*                                                                         *)
(* An entry is found when it is a root or when the listing of a found      *)
(* directory yields it; every found entry is shown to the visitor, unless  *)
(* it is too shallow.  The visitor may prune a directory or stop the walk. *)
(* The walk may only return when nothing is left to show or the visitor    *)
(* has asked it to stop.                                                   *)
(*                                                                         *)
(* A call with an entry that was shown before changes nothing here.  That  *)
(* there is none is said of each walk where it can be seen                 *)
(* (VisitedAtMostOnce in ParallelWalk, ShownOnce in SerialWalk).           *)
(***************************************************************************)
EXTENDS Naturals

CONSTANT Entries  \* every file and directory of the tree

\* What the caller asks for; it does not change.
VARIABLES
    top,          \* the entries the caller names
    yields,       \* yields[d]: the entries a listing of d leads the walk to
    shown         \* the entries the visitor is to see (not below min_depth)

VARIABLES
    found,        \* entries the walk has reached
    visited,      \* entries the visitor has been called with
    pruned,       \* entries whose listing the visitor declined
    stopped,      \* the visitor returned Quit
    finished      \* the call has returned

request == <<top, yields, shown>>
vars == <<request, found, visited, pruned, stopped, finished>>

RequestOK ==
    /\ top \subseteq Entries /\ shown \subseteq Entries
    /\ yields \in [Entries -> SUBSET Entries]

TypeOK ==
    /\ RequestOK
    /\ found \subseteq Entries
    /\ visited \subseteq found
    /\ pruned \subseteq visited
    /\ stopped \in BOOLEAN
    /\ finished \in BOOLEAN

\* An entry the visitor has been shown, or never will be.
Handled(e) == e \in visited \/ e \notin shown

Init ==
    /\ RequestOK
    /\ found = {}
    /\ visited = {}
    /\ pruned = {}
    /\ stopped = FALSE
    /\ finished = FALSE

\* All the roots are queued before any of them is visited.
Begin ==
    /\ found = {}
    /\ found' = top
    /\ UNCHANGED <<visited, pruned, stopped, finished>>

\* The visitor sees e, and may prune it or stop the walk by its answer.
Visit(e) ==
    /\ e \in found \ visited
    /\ e \in shown
    /\ visited' = visited \cup {e}
    /\ pruned' \in {pruned, pruned \cup {e}}
    /\ stopped' \in {stopped, TRUE}
    /\ UNCHANGED <<found, finished>>

\* The listing of d yields c.
Find(d, c) ==
    /\ d \in found /\ Handled(d) /\ d \notin pruned
    /\ c \in yields[d] \ found
    /\ found' = found \cup {c}
    /\ UNCHANGED <<visited, pruned, stopped, finished>>

\* The visitor is called with an error and answers Quit; if no thread is
\* running yet, the call returns at once.
StopOnError ==
    /\ stopped' = TRUE
    /\ finished' \in BOOLEAN
    /\ UNCHANGED <<found, visited, pruned>>

\* Nothing is left to show or to list.
Exhausted ==
    /\ top \subseteq found
    /\ \A e \in found :
         /\ Handled(e)
         /\ e \in pruned \/ yields[e] \subseteq found

Finish ==
    /\ stopped \/ Exhausted
    /\ finished' = TRUE
    /\ UNCHANGED <<found, visited, pruned, stopped>>

Next ==
    /\ ~finished
    /\ \/ Begin
       \/ \E e \in Entries : Visit(e)
       \/ \E d \in found : \E c \in yields[d] : Find(d, c)
       \/ StopOnError
       \/ Finish
    /\ UNCHANGED request

Safety == Init /\ [][Next]_vars
Spec == Safety /\ WF_vars(Next)

-----------------------------------------------------------------------------
\* Every walk returns.
Returns == <>finished
=============================================================================
