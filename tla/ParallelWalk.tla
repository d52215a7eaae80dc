---------------------------- MODULE ParallelWalk ----------------------------
(***************************************************************************)
(* The parallel directory walker, crates/ignore/src/walk.rs:               *)
(* WalkParallel::visit, its work-stealing Stack and its Workers.           *)
(*                                                                         *)
(* The main thread reports the roots it cannot open, deals the others to   *)
(* the workers' deques, spawns the workers and joins them.  A worker pops  *)
(* its own deque (last in, first out); when that is empty it steals a      *)
(* batch from the front of another's.  It shows the entry to the visitor   *)
(* and pushes what the directory's listing yields.  A worker that finds    *)
(* no work leaves active_workers; the one that brings the counter to zero  *)
(* sends Quit, and every worker that receives Quit passes it on and stops. *)
(*                                                                         *)
(* The deques are crossbeam-deque's: each operation is atomic, except that *)
(* a batch leaves the victim in one step and reaches the thief's deque in  *)
(* a later one, and that a steal from a deque that others have touched in  *)
(* the meantime may answer Retry, which Stack::steal takes for a failure.  *)
(***************************************************************************)
EXTENDS Integers, Sequences, FiniteSets

CONSTANTS
    Threads,        \* number of workers
    Entries,        \* every file and directory of the tree
    Dirs,           \* those that are directories, and no symlinks
    Roots,          \* the roots that can be opened, in order
    BadRoots,       \* the roots that cannot
    Children,       \* Children[d]: what the listing of d returns
    Depth,          \* Depth[e]: 0 for a root
    MinDepth, MaxDepth,
    Ignored,        \* entries that a matcher, stdout, a size or a filter skips
    BadEntries,     \* children that cannot be read, resolved or loop
    ParentErr,      \* roots with an error in a parent's ignore file
    DeviceErr,      \* directories whose device cannot be determined
    OffDevice,      \* directories on another file system than their root
    Unreadable,     \* directories that cannot be listed
    VisitorResults, \* the answers the visitor may give
    Quit            \* Message::Quit

Workers == 0 .. (Threads - 1)
RootSet == {Roots[i] : i \in 1 .. Len(Roots)}

ASSUME ThreadsAssumption == Threads \in Nat \ {0}

ASSUME TreeAssumption ==
    /\ Dirs \subseteq Entries
    /\ Quit \notin Entries
    /\ Children \in [Dirs -> SUBSET Entries]
    /\ \A c, d \in Dirs : c # d => Children[c] \cap Children[d] = {}
    /\ \A d \in Dirs : Children[d] \cap RootSet = {}
    /\ \A d \in Dirs : IsFiniteSet(Children[d])

ASSUME RootsAssumption ==
    /\ Roots \in Seq(Entries)
    /\ \A i, j \in 1 .. Len(Roots) : Roots[i] = Roots[j] => i = j

ASSUME DepthAssumption ==
    /\ Depth \in [Entries -> Nat]
    /\ MinDepth \in Nat /\ MaxDepth \in Nat
    /\ \A r \in RootSet : Depth[r] = 0
    /\ \A d \in Dirs : \A c \in Children[d] : Depth[c] = Depth[d] + 1

ASSUME FaultsAssumption ==
    /\ Ignored \subseteq Entries /\ BadEntries \subseteq Entries
    /\ ParentErr \subseteq Dirs \cap RootSet
    /\ DeviceErr \subseteq Dirs /\ OffDevice \subseteq Dirs \ RootSet
    /\ Unreadable \subseteq Dirs
    /\ VisitorResults \subseteq {"Continue", "Skip", "Quit"}
    /\ VisitorResults # {}

VARIABLES
    mainpc,         \* "roots", then "join", then "returned"; or "quit"
    pc,             \* pc[w]: where worker w is
    deque,          \* deque[w]: its deque; thieves take from the front
    hand,           \* hand[w]: what it holds: loot, a message or its work
    offset,         \* offset[w]: how far its scan of the stealers is
    stale,          \* stale[w]: the deque it is stealing from was touched
    idle,           \* idle[w]: it has deactivated itself
    active_workers,
    quit_now,
    todo,           \* todo[w]: entries of the listing it still has to handle
    status,         \* status[e]: "unsent", "sent" or "finished"
    visits,         \* visits[e]: how often the visitor was given e
    pruned,         \* directories for which it answered Skip
    errs            \* <<stage, entry>>: errors the visitor was given

mainVars == <<mainpc>>
dequeVars == <<deque, hand, offset, stale>>
endVars == <<idle, active_workers, quit_now>>
treeVars == <<todo, status, visits, pruned, errs>>
vars == <<mainpc, pc, dequeVars, endVars, treeVars>>

-----------------------------------------------------------------------------
(* Stack                                                                   *)

\* Stack::new_for_each_thread: the roots in reverse, dealt round-robin.
\* (Definitions marked "mutant" are plausible mistakes that the code does not
\* make; the runs find each of them.)
InitialDequeAll(w) ==    \* mutant: every stack starts with all the roots
    [i \in 1 .. Len(Roots) |-> Roots[Len(Roots) + 1 - i]]
InitialDequeFewer(w) ==    \* mutant: the last round is not dealt
    [i \in 1 .. (Len(Roots) - w) \div Threads |->
        Roots[Len(Roots) - w - (i - 1) * Threads]]
InitialDeque(w) ==
    LET n == Len(Roots)
    IN  [i \in 1 .. ((n - w + Threads - 1) \div Threads) |->
            Roots[n - w - (i - 1) * Threads]]

\* The deque that the thief w tries next: index + 1, ..., then wrapping.
Victim(w) == (w + offset[w]) % Threads

\* How many items a batch may take from a deque of length n.
BatchLimit(n) == ((n - 1) \div 2) + 1

\* What a batch of k leaves behind, and what of it goes to the thief's deque.
Left(q, k) == SubSeq(q, k + 1, Len(q))
Surplus(loot) == SubSeq(loot, 1, Len(loot) - 1)

\* Someone else's operation on deque v: w's own flag is for w to reset.
Touched(v, w) ==
    [x \in Workers |-> IF x = w THEN FALSE
                       ELSE \/ stale[x]
                            \/ pc[x] = "steal" /\ offset[x] < Threads
                               /\ Victim(x) = v]

\* Where recv returns to: the inner loop of get_work is left through
\* activate_worker, the call before the loop is followed by the flag check.
AfterRecvIdle(w) == "activate"    \* mutant: called for active workers too
AfterRecv(w) == IF idle[w] THEN "activate" ELSE "check"

PopOwn(w) ==
    /\ pc[w] = "pop" /\ deque[w] # <<>>
    /\ hand' = [hand EXCEPT ![w] = <<deque[w][Len(deque[w])]>>]
    /\ deque' = [deque EXCEPT ![w] = SubSeq(@, 1, Len(@) - 1)]
    /\ stale' = Touched(w, w)
    /\ pc' = [pc EXCEPT ![w] = AfterRecv(w)]
    /\ UNCHANGED <<mainVars, offset, endVars, treeVars>>

PopEmpty(w) ==
    /\ pc[w] = "pop" /\ deque[w] = <<>>
    /\ pc' = [pc EXCEPT ![w] = "steal"]
    /\ UNCHANGED <<mainVars, dequeVars, endVars, treeVars>>

\* steal_batch_and_pop, first half: k items leave the victim's front.
StealTake(w) ==
    /\ pc[w] = "steal" /\ offset[w] < Threads
    /\ LET v == Victim(w)
       IN  /\ deque[v] # <<>>
           /\ \E k \in 1 .. BatchLimit(Len(deque[v])) :
                /\ hand' = [hand EXCEPT ![w] = SubSeq(deque[v], 1, k)]
                /\ deque' = [deque EXCEPT ![v] = Left(@, k)]
           /\ stale' = Touched(v, w)
    /\ offset' = [offset EXCEPT ![w] = 1]
    /\ pc' = [pc EXCEPT ![w] = "publish"]
    /\ UNCHANGED <<mainVars, endVars, treeVars>>

\* Second half: all but the last are pushed onto the thief's own deque.
Publish(w) ==
    /\ pc[w] = "publish"
    /\ deque' = [deque EXCEPT ![w] = @ \o Surplus(hand[w])]
    /\ hand' = [hand EXCEPT ![w] = <<@[Len(@)]>>]
    /\ stale' = Touched(w, w)
    /\ pc' = [pc EXCEPT ![w] = AfterRecv(w)]
    /\ UNCHANGED <<mainVars, offset, endVars, treeVars>>

\* Empty, or Retry: either way the scan goes on to the next stealer.
StealFail(w) ==
    /\ pc[w] = "steal" /\ offset[w] < Threads
    /\ deque[Victim(w)] = <<>> \/ stale[w]
    /\ offset' = [offset EXCEPT ![w] = @ + 1]
    /\ stale' = [stale EXCEPT ![w] = FALSE]
    /\ UNCHANGED <<mainVars, pc, deque, hand, endVars, treeVars>>

\* recv returns None: an idle worker sleeps and tries again.
RecvNone(w) ==
    /\ pc[w] = "steal" /\ offset[w] = Threads
    /\ offset' = [offset EXCEPT ![w] = 1]
    /\ pc' = [pc EXCEPT ![w] = IF idle[w] THEN "pop" ELSE "check"]
    /\ UNCHANGED <<mainVars, deque, hand, stale, endVars, treeVars>>

-----------------------------------------------------------------------------
(* get_work                                                                *)

IsQuitNowNever == FALSE    \* mutant: the flag is not looked at
IsQuitNow == quit_now

\* run_one shows an entry that is no directory, or reports the errors of
\* add_parents and of the device check before it shows a directory.
FirstStageNoParents(e) == "visit"    \* mutant: errors forgotten
FirstStage(e) ==
    CASE e \in ParentErr -> "parents"
      [] e \in DeviceErr \ ParentErr -> "device"
      [] OTHER -> "visit"

\* The flag is clear and there is work: get_work returns it to run_one.
TakeWork(w) ==
    /\ pc[w] = "check" /\ ~IsQuitNow
    /\ hand[w] # <<>> /\ hand[w] # <<Quit>>
    /\ pc' = [pc EXCEPT ![w] = FirstStage(hand[w][1])]
    /\ UNCHANGED <<mainVars, dequeVars, endVars, treeVars>>

\* The flag turns whatever was received into Quit.
TakeQuit(w) ==
    /\ pc[w] = "check"
    /\ IsQuitNow \/ hand[w] = <<Quit>>
    /\ hand' = [hand EXCEPT ![w] = <<>>]
    /\ pc' = [pc EXCEPT ![w] = "sendQuit"]
    /\ UNCHANGED <<mainVars, deque, offset, stale, endVars, treeVars>>

TakeNone(w) ==
    /\ pc[w] = "check" /\ ~IsQuitNow
    /\ hand[w] = <<>>
    /\ pc' = [pc EXCEPT ![w] = "deactivate"]
    /\ UNCHANGED <<mainVars, dequeVars, endVars, treeVars>>

\* deactivate_worker: the last active worker sends Quit, the others wait.
Deactivate(w) ==
    /\ pc[w] = "deactivate"
    /\ active_workers' = active_workers - 1
    /\ idle' = [idle EXCEPT ![w] = TRUE]
    /\ pc' = [pc EXCEPT ![w] = IF active_workers = 1 THEN "sendQuit" ELSE "pop"]
    /\ UNCHANGED <<mainVars, dequeVars, quit_now, treeVars>>

\* activate_worker, after a message has been received and not before.
Activate(w) ==
    /\ pc[w] = "activate"
    /\ active_workers' = active_workers + 1
    /\ idle' = [idle EXCEPT ![w] = FALSE]
    /\ pc' = [pc EXCEPT ![w] = "check"]
    /\ UNCHANGED <<mainVars, dequeVars, quit_now, treeVars>>

WithoutQuit(q) == q    \* mutant: the message is not passed on
WithQuit(q) == Append(q, Quit)

\* send_quit: pass the message on, then stop.
SendQuit(w) ==
    /\ pc[w] = "sendQuit"
    /\ deque' = [deque EXCEPT ![w] = WithQuit(@)]
    /\ stale' = Touched(w, w)
    /\ pc' = [pc EXCEPT ![w] = "done"]
    /\ UNCHANGED <<mainVars, hand, offset, endVars, treeVars>>

-----------------------------------------------------------------------------
(* run_one, generate_work.  WorkOf(w) is the work the worker runs.         *)

WorkOf(w) == hand[w][1]

ShouldVisitDeeper(e) == Depth[e] > MinDepth    \* mutant: off by one
ShouldVisit(e) == Depth[e] >= MinDepth

\* Whether the entry is a directory whose listing is to be followed.
Descends(d) == d \in Dirs \ (OffDevice \cup DeviceErr)

AfterVisitNoSkip(e, r) ==    \* mutant: Skip taken for Continue
    IF r = "Quit" THEN "setQuit"
    ELSE IF Descends(e) /\ e \notin Unreadable THEN "gen" ELSE "pop"

\* Where run_one goes after the visitor answered r for entry e.
AfterVisit(e, r) ==
    CASE r = "Quit" -> "setQuit"
      [] r # "Quit" /\ (r = "Skip" \/ ~Descends(e)) -> "pop"
      [] r = "Continue" /\ Descends(e) /\ e \in Unreadable -> "list"
      [] r = "Continue" /\ Descends(e) /\ e \notin Unreadable ->
            IF Depth[e] >= MaxDepth THEN "pop" ELSE "gen"

\* Worker w continues at p; its work is done unless p is a stage of run_one.
Proceed(w, p) ==
    /\ pc' = [pc EXCEPT ![w] = p]
    /\ hand' = [hand EXCEPT ![w] = IF p = "pop" THEN <<>> ELSE @]
    /\ status' = IF p = "pop" THEN [status EXCEPT ![WorkOf(w)] = "finished"]
                              ELSE status

\* The visitor is given an error of the given stage of e.
ReportError(stage, e) == errs' = errs \cup {<<stage, e>>}

\* Work::add_parents failed; run_one goes on unless the visitor quits.
AddParentsError(w) ==
    /\ pc[w] = "parents"
    /\ ReportError("parents", WorkOf(w))
    /\ \E r \in VisitorResults :
         pc' = [pc EXCEPT ![w] =
                  CASE r = "Quit" -> "setQuit"
                    [] r # "Quit" /\ WorkOf(w) \in DeviceErr -> "device"
                    [] OTHER -> "visit"]
    /\ UNCHANGED <<mainVars, dequeVars, endVars, todo, status, visits, pruned>>

\* is_same_file_system failed; the directory is shown but not entered.
DeviceError(w) ==
    /\ pc[w] = "device"
    /\ ReportError("device", WorkOf(w))
    /\ \E r \in VisitorResults :
         pc' = [pc EXCEPT ![w] = IF r = "Quit" THEN "setQuit" ELSE "visit"]
    /\ UNCHANGED <<mainVars, dequeVars, endVars, todo, status, visits, pruned>>

\* The visitor's answer decides how run_one goes on.
VisitEntry(w) ==
    /\ pc[w] = "visit"
    /\ LET e == WorkOf(w)
       IN  \E r \in IF ShouldVisit(e) THEN VisitorResults ELSE {"Continue"} :
             /\ Proceed(w, AfterVisit(e, r))
             /\ visits' = IF ShouldVisit(e) THEN [visits EXCEPT ![e] = @ + 1]
                                            ELSE visits
             /\ pruned' = IF r = "Skip" THEN pruned \cup {e} ELSE pruned
             /\ todo' = [todo EXCEPT ![w] = IF AfterVisit(e, r) = "gen"
                                            THEN Children[e] ELSE @]
    /\ UNCHANGED <<mainVars, deque, offset, stale, endVars, errs>>

\* read_dir had failed: reported after the directory itself was shown.
ListError(w) ==
    /\ pc[w] = "list"
    /\ ReportError("list", WorkOf(w))
    /\ \E r \in VisitorResults :
         Proceed(w, IF r = "Quit" THEN "setQuit" ELSE "pop")
    /\ UNCHANGED <<mainVars, deque, offset, stale, endVars, todo, visits, pruned>>

\* generate_work on an entry that should not be skipped: send it.
GenerateSend(w) ==
    /\ pc[w] = "gen"
    /\ \E c \in todo[w] \ (BadEntries \cup Ignored) :
         /\ todo' = [todo EXCEPT ![w] = @ \ {c}]
         /\ deque' = [deque EXCEPT ![w] = Append(@, c)]
         /\ status' = [status EXCEPT ![c] = "sent"]
    /\ stale' = Touched(w, w)
    /\ UNCHANGED <<mainVars, pc, hand, offset, endVars, visits, pruned, errs>>

\* generate_work on an entry that is skipped.
GenerateSkip(w) ==
    /\ pc[w] = "gen"
    /\ \E c \in (todo[w] \cap Ignored) \ BadEntries :
         todo' = [todo EXCEPT ![w] = @ \ {c}]
    /\ UNCHANGED <<mainVars, pc, dequeVars, endVars, status, visits, pruned, errs>>

\* generate_work on an entry that cannot be read: only Quit ends the loop.
GenerateError(w) ==
    /\ pc[w] = "gen"
    /\ \E c \in todo[w] \cap BadEntries, r \in VisitorResults :
         /\ ReportError("entry", c)
         /\ todo' = [todo EXCEPT ![w] = IF r = "Quit" THEN {} ELSE @ \ {c}]
         /\ pc' = [pc EXCEPT ![w] = IF r = "Quit" THEN "setQuit" ELSE "gen"]
    /\ UNCHANGED <<mainVars, dequeVars, endVars, status, visits, pruned>>

\* The listing is exhausted.
GenerateDone(w) ==
    /\ pc[w] = "gen" /\ todo[w] = {}
    /\ Proceed(w, "pop")
    /\ UNCHANGED <<mainVars, deque, offset, stale, endVars,
                   todo, visits, pruned, errs>>

\* Worker::run: run_one returned Quit.
SetQuitNow(w) ==
    /\ pc[w] = "setQuit"
    /\ quit_now' = TRUE
    /\ hand' = [hand EXCEPT ![w] = <<>>]
    /\ pc' = [pc EXCEPT ![w] = "pop"]
    /\ UNCHANGED <<mainVars, deque, offset, stale, idle, active_workers, treeVars>>

-----------------------------------------------------------------------------
(* WalkParallel::visit                                                     *)

Init ==
    /\ mainpc = "roots"
    /\ pc = [w \in Workers |-> "unborn"]
    /\ deque = [w \in Workers |-> <<>>]
    /\ hand = [w \in Workers |-> <<>>]
    /\ offset = [w \in Workers |-> 1]
    /\ stale = [w \in Workers |-> FALSE]
    /\ idle = [w \in Workers |-> FALSE]
    /\ active_workers = Threads
    /\ quit_now = FALSE
    /\ todo = [w \in Workers |-> {}]
    /\ status = [e \in Entries |-> "unsent"]
    /\ visits = [e \in Entries |-> 0]
    /\ pruned = {}
    /\ errs = {}

\* A root that cannot be opened: visit returns at once if the visitor quits.
MainRootError ==
    /\ mainpc = "roots"
    /\ \E b \in BadRoots, r \in VisitorResults :
         /\ <<"root", b>> \notin errs
         /\ ReportError("root", b)
         /\ mainpc' = IF r = "Quit" THEN "quit" ELSE "roots"
    /\ UNCHANGED <<pc, dequeVars, endVars, todo, status, visits, pruned>>

AllRootsTried == \A b \in BadRoots : <<"root", b>> \in errs

\* No root, no worker.  A worker that has been spawned but not yet scheduled
\* is one at "pop".
MainSpawn ==
    /\ mainpc = "roots" /\ AllRootsTried
    /\ mainpc' = IF Roots = <<>> THEN "returned" ELSE "join"
    /\ deque' = [w \in Workers |-> InitialDeque(w)]
    /\ status' = [e \in Entries |-> IF e \in RootSet THEN "sent" ELSE "unsent"]
    /\ pc' = [w \in Workers |-> IF Roots = <<>> THEN "unborn" ELSE "pop"]
    /\ UNCHANGED <<hand, offset, stale, endVars, todo, visits, pruned, errs>>

MainJoin ==
    /\ mainpc = "join"
    /\ \A w \in Workers : pc[w] = "done"
    /\ mainpc' = "returned"
    /\ UNCHANGED <<pc, dequeVars, endVars, treeVars>>

MainStep == MainRootError \/ MainSpawn \/ MainJoin

StackStep(w) ==
    \/ PopOwn(w) \/ PopEmpty(w) \/ StealTake(w) \/ Publish(w)
    \/ StealFail(w) \/ RecvNone(w)

GetWorkStep(w) ==
    \/ TakeWork(w) \/ TakeQuit(w) \/ TakeNone(w)
    \/ Deactivate(w) \/ Activate(w) \/ SendQuit(w)

RunStep(w) ==
    \/ AddParentsError(w) \/ DeviceError(w) \/ VisitEntry(w) \/ ListError(w)
    \/ GenerateSend(w) \/ GenerateSkip(w) \/ GenerateError(w)
    \/ GenerateDone(w) \/ SetQuitNow(w)

WorkerStep(w) == StackStep(w) \/ GetWorkStep(w) \/ RunStep(w)

Returned == mainpc \in {"returned", "quit"}

\* The call has returned; nothing more happens.
Terminated == Returned /\ UNCHANGED vars

Next ==
    \/ MainStep
    \/ \E w \in Workers : WorkerStep(w)
    \/ Terminated

\* The threads are scheduled fairly and the visitor always returns.
Fairness ==
    /\ WF_vars(MainStep)
    /\ \A w \in Workers : WF_vars(WorkerStep(w))

SafeSpec == Init /\ [][Next]_vars
Spec == SafeSpec /\ Fairness

-----------------------------------------------------------------------------
(* Properties                                                              *)

RunStages == {"parents", "device", "visit", "list", "gen", "setQuit"}
PCs == RunStages \cup {"unborn", "pop", "steal", "publish", "check",
                       "deactivate", "activate", "sendQuit", "done"}
Messages == Entries \cup {Quit}

\* The type of every variable.
TypeOK ==
    /\ mainpc \in {"roots", "join", "returned", "quit"}
    /\ pc \in [Workers -> PCs]
    /\ deque \in [Workers -> Seq(Messages)]
    /\ hand \in [Workers -> Seq(Messages)]
    /\ offset \in [Workers -> 1 .. Threads]
    /\ stale \in [Workers -> BOOLEAN]
    /\ idle \in [Workers -> BOOLEAN]
    /\ active_workers \in 0 .. Threads
    /\ quit_now \in BOOLEAN
    /\ todo \in [Workers -> SUBSET Entries]
    /\ status \in [Entries -> {"unsent", "sent", "finished"}]
    /\ visits \in [Entries -> Nat]
    /\ pruned \subseteq Entries

\* The visitor has answered Quit, whether or not the flag is up yet.
VisitorQuit ==
    \/ quit_now
    \/ mainpc = "quit"
    \/ \E w \in Workers : pc[w] = "setQuit"

\* However the deques are raided, no entry is shown to the visitor twice
\* (Stack::pop, Stack::steal, Worker::run_one).
VisitedAtMostOnce == \A e \in Entries : visits[e] <= 1

\* The messages that worker w holds, in its deque or in its hand.
Held(w) == {deque[w][i] : i \in 1 .. Len(deque[w])}
             \cup {hand[w][i] : i \in 1 .. Len(hand[w])}

\* Unless the walk was stopped, work that has been sent and not finished is
\* held by a worker that has not left get_work for good: termination by
\* deactivate_worker never strands an entry in the deque of a dead thread.
NoStrandedWork ==
    mainpc = "join" /\ ~quit_now =>
        \A e \in Entries : status[e] = "sent" =>
            \E w \in Workers : pc[w] # "done" /\ e \in Held(w)

\* deactivate_worker and activate_worker keep the counter equal to the number
\* of workers outside the idle loop, so fetch_sub never wraps below zero and
\* zero is reached at most by the last of them.
ActiveWorkersExact ==
    active_workers = Cardinality({w \in Workers : ~idle[w]})

\* The directories whose listing is followed, unless the visitor prunes them.
Listed == {d \in Dirs \ (Unreadable \cup OffDevice \cup DeviceErr) :
             Depth[d] < MaxDepth}

\* If the walk returns without having been stopped, every error on the way to
\* a shown or listed entry has been given to the visitor.
EveryErrorReported ==
    mainpc = "returned" /\ ~quit_now =>
        \A e \in Entries : status[e] # "unsent" =>
            /\ e \in ParentErr => <<"parents", e>> \in errs
            /\ e \in DeviceErr => <<"device", e>> \in errs
            /\ e \in Unreadable \ (pruned \cup OffDevice \cup DeviceErr)
                 => <<"list", e>> \in errs
            /\ e \in Listed \ pruned
                 => \A c \in Children[e] \cap BadEntries :
                       <<"entry", c>> \in errs

\* Once quit_now is up, no worker starts another piece of work: each one ends
\* at most the run_one it is in (the priority channel of get_work).
NoWorkAfterQuit ==
    [][quit_now => \A w \in Workers :
         pc'[w] \in RunStages => pc[w] \in RunStages]_vars

\* The walk as its caller sees it.
WalkYields == [e \in Entries |->
    IF e \in Listed THEN Children[e] \ (BadEntries \cup Ignored) ELSE {}]

Abstract == INSTANCE TreeWalk WITH
    top <- RootSet,
    yields <- WalkYields,
    shown <- {e \in Entries : Depth[e] >= MinDepth},
    found <- {e \in Entries : status[e] # "unsent"},
    visited <- {e \in Entries : visits[e] > 0},
    stopped <- VisitorQuit,
    finished <- Returned

\* The work-stealing walk implements the walk its callers rely on: nothing is
\* shown unasked, nothing is left out, and it returns.
ImplementsTreeWalk == Abstract!Spec
=============================================================================
