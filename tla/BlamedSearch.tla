---------------------------- MODULE BlamedSearch ----------------------------
(***************************************************************************)
(* The search drivers with the column of git blame: the cache of           *)
(* crates/cli/src/blame.rs, which the printers of all workers share.       *)
(*                                                                         *)
(* A line that is printed asks the cache for its file.  The cache is       *)
(* locked to look and locked again to insert, but not while git runs, so   *)
(* workers that search the same file, named twice on the command line, may *)
(* both run it.  git may fail for reasons that pass.  To a line it is all  *)
(* one whether the file has no entry, an empty one or one without the line. *)
(***************************************************************************)
EXTENDS SearchDriver

CONSTANTS
    PathOf,         \* the paths of the results as they were named
    LinesShown      \* the lines that are printed of a file with matches

ASSUME BlameAssumption == DOMAIN PathOf = Results /\ LinesShown \in Nat

VARIABLES
    cache,          \* of a path: what git has said, if it has an entry
    asking,         \* where in get_blame a worker is
    answers,        \* what the lines of a result have got
    git_runs        \* how often git was started for a path

blameVars == <<cache, asking, answers, git_runs>>
allVars == <<vars, blameVars>>

Paths == {PathOf[r] : r \in Results}
PathAt(w) == PathOf[current[w]]

BlameInit ==
    /\ Init
    /\ cache = [p \in Paths |-> "absent"]
    /\ asking = [w \in Workers |-> "nothing"]
    /\ answers = [r \in Results |-> <<>>]
    /\ git_runs = [p \in Paths |-> 0]

Blames == args.blame /\ SearchMode /\ ~args.quiet

Answer(p) == IF cache[p] = "blamed" THEN "blamed" ELSE "none"
Answered(w) ==
    /\ answers' = [answers EXCEPT ![current[w]] = Append(@, Answer(PathAt(w)))]
    /\ asking' = [asking EXCEPT ![w] = "nothing"]

\* write_git_blame asks for a line, and get_blame looks into the cache.
Ask(w) ==
    /\ Alive /\ pc[w] = "search" /\ asking[w] = "nothing" /\ Blames
    /\ kind[current[w]] \in {"match", "searcherr"}
    /\ Len(answers[current[w]]) < LinesShown
    /\ IF cache[PathAt(w)] # "absent" THEN Answered(w)
       ELSE asking' = [asking EXCEPT ![w] = "git"] /\ UNCHANGED answers
    /\ UNCHANGED <<vars, cache, git_runs>>

\* fetch_file_blame runs git and inserts what it says.
EntryOfSuccess(says) ==    \* mutant: a failure leaves no entry
    IF says = "blamed" THEN "blamed" ELSE "absent"
Entry(says) == says

Fetch(w) ==
    /\ Alive /\ asking[w] = "git"
    /\ \E says \in {"blamed", "empty"} :
          cache' = [cache EXCEPT ![PathAt(w)] = Entry(says)]
    /\ git_runs' = [git_runs EXCEPT ![PathAt(w)] = @ + 1]
    /\ asking' = [asking EXCEPT ![w] = "again"]
    /\ UNCHANGED <<vars, answers>>

AskAgain(w) ==
    /\ Alive /\ asking[w] = "again"
    /\ Answered(w)
    /\ UNCHANGED <<vars, cache, git_runs>>

\* A search goes on only when its line has been printed, and has come to its
\* end when all its lines have been.
LinesAnswered(w) ==
    Blames /\ pc[w] = "search" =>
        /\ asking[w] = "nothing"
        /\ HasMatch(w) /\ pc'[w] = "store" =>
              Len(answers[current[w]]) = LinesShown

BlamedWorker(w) ==
    \/ Ask(w) \/ Fetch(w) \/ AskAgain(w)
    \/ Worker(w) /\ LinesAnswered(w) /\ UNCHANGED blameVars

BlamedNext ==
    \/ \E w \in Workers : BlamedWorker(w)
    \/ (PrintPath \/ PrinterEnds \/ Main \/ Gone) /\ UNCHANGED blameVars

\* As in SearchDriver; git comes to its end.
BlamedSpec ==
    /\ BlameInit /\ [][BlamedNext]_allVars
    /\ \A w \in Workers : WF_allVars(BlamedWorker(w))
    /\ WF_allVars((PrintPath \/ PrinterEnds) /\ UNCHANGED blameVars)
    /\ WF_allVars(Main /\ UNCHANGED blameVars)

-----------------------------------------------------------------------------
(* What the cache promises: "avoid repeated git blame calls for the same   *)
(* file" (blame.rs:12), "so we don't keep trying" (blame.rs:102).          *)

\* git is run at most once for every time a file is searched, and the lines
\* of one file are all with blame or all without, except that two workers that
\* search the file at once may meet different answers of git.
BlameConsistent ==
    /\ \A p \in Paths :
          git_runs[p] <= IF Serial THEN 1
                         ELSE Cardinality({r \in Results : PathOf[r] = p})
    /\ \A r, s \in Results :
          PathOf[r] = PathOf[s] /\ (Serial \/ git_runs[PathOf[r]] <= 1) =>
             \A i \in DOMAIN answers[r], j \in DOMAIN answers[s] :
                answers[r][i] = answers[s][j]
=============================================================================
