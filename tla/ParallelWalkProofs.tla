------------------------- MODULE ParallelWalkProofs -------------------------
(***************************************************************************)
(* Theorems about ParallelWalk, for every tree, every number of workers    *)
(* and every visitor.  The first part ties each worker's state to where it *)
(* is, which gives the types and the counter of active workers.            *)
(*                                                                         *)
(* The second part shows that no entry is shown twice, none is stranded,   *)
(* no error is lost, no work is started after quit, and that every step is *)
(* one that TreeWalk allows.  The argument is about ownership: an entry    *)
(* that has been sent is in one place only, a deque or a hand (OnePlace);  *)
(* until it has been shown it has left no trace (FreshUntouched); while it *)
(* is being listed its children are either sent or on the worker's list    *)
(* (StageInv); once it is finished, all that was to be said about it has   *)
(* been said (Settled).                                                    *)
(***************************************************************************)
EXTENDS ParallelWalk, FiniteSetTheorems, SequenceTheorems, TLAPS

-----------------------------------------------------------------------------
(* The shape of a worker's state: what it holds and whether it counts as   *)
(* active at each point of its program.                                    *)

Resting == {"unborn", "pop", "steal", "deactivate", "sendQuit", "done"}
Busy == RunStages \cup {"unborn", "check", "deactivate"}

HandShape(w) ==
    /\ pc[w] \in Resting => hand[w] = <<>>
    /\ pc[w] = "publish" => Len(hand[w]) \in Nat \ {0}
    /\ pc[w] = "activate" => Len(hand[w]) = 1
    /\ pc[w] = "check" => Len(hand[w]) \in {0, 1}
    /\ pc[w] \in RunStages => Len(hand[w]) = 1 /\ hand[w][1] \in Entries
    /\ todo[w] # {} => pc[w] = "gen"

\* A worker calls deactivate_worker only while active and activate_worker only
\* while idle.
IdleShape(w) ==
    /\ pc[w] = "activate" => idle[w]
    /\ pc[w] \in Busy => ~idle[w]

\* Before the workers are spawned none of them does anything.
SpawnShape == mainpc = "roots" => \A w \in Workers : pc[w] = "unborn"

ShapeInv ==
    /\ TypeOK
    /\ ActiveWorkersExact
    /\ SpawnShape
    /\ \A w \in Workers : HandShape(w) /\ IdleShape(w)

-----------------------------------------------------------------------------
(* Facts about the operators.                                              *)

LEMMA WorkersFinite == IsFiniteSet(Workers) /\ Cardinality(Workers) = Threads
BY ThreadsAssumption, FS_Interval DEF Workers

\* One worker joins or leaves a set of workers.
LEMMA AddWorker ==
    ASSUME NEW S \in SUBSET Workers, NEW w \in Workers
    PROVE  /\ IsFiniteSet(S) /\ Cardinality(S) \in 0 .. Threads
           /\ w \notin S => Cardinality(S \cup {w}) = Cardinality(S) + 1
           /\ w \in S => Cardinality(S \ {w}) = Cardinality(S) - 1
<1>1. IsFiniteSet(S) /\ Cardinality(S) <= Threads
  BY WorkersFinite, FS_Subset
<1>2. Cardinality(S) \in Nat
  BY <1>1, FS_CardinalityType
<1>3. w \notin S => Cardinality(S \cup {w}) = Cardinality(S) + 1
  BY <1>1, FS_AddElement
<1>4. w \in S => Cardinality(S \ {w}) = Cardinality(S) - 1
  BY <1>1, FS_RemoveElement
<1>5. Cardinality(S) \in 0 .. Threads
  BY <1>1, <1>2, ThreadsAssumption
<1> QED
  BY <1>1, <1>3, <1>4, <1>5

\* A batch and what it leaves are sequences of messages.
LEMMA SplitType ==
    ASSUME NEW q \in Seq(Messages), NEW k \in 1 .. Len(q)
    PROVE  /\ SubSeq(q, 1, k) \in Seq(Messages)
           /\ Len(SubSeq(q, 1, k)) = k
           /\ Left(q, k) \in Seq(Messages)
BY DEF Left

LEMMA SurplusType ==
    ASSUME NEW q \in Seq(Messages), Len(q) # 0
    PROVE  Surplus(q) \in Seq(Messages)
BY DEF Surplus

LEMMA BatchLimitBound ==
    ASSUME NEW n \in Nat \ {0}
    PROVE  BatchLimit(n) \in 1 .. n
BY DEF BatchLimit

\* The steal scan stays within the stealers.
LEMMA VictimType ==
    ASSUME NEW w \in Workers, offset \in [Workers -> 1 .. Threads]
    PROVE  Victim(w) \in Workers
<1>1. offset[w] \in Nat /\ w \in Nat
  BY DEF Workers
<1> QED
  BY <1>1, ThreadsAssumption DEF Victim, Workers

LEMMA TouchedType ==
    ASSUME NEW v, NEW w, stale \in [Workers -> BOOLEAN]
    PROVE  Touched(v, w) \in [Workers -> BOOLEAN]
BY DEF Touched

\* The position in Roots of the i-th message dealt to worker w.
LEMMA DealIndex ==
    ASSUME NEW n \in Nat, NEW T \in Nat \ {0}, NEW w \in 0 .. (T - 1),
           NEW i \in 1 .. ((n - w + T - 1) \div T)
    PROVE  n - w - (i - 1) * T \in 1 .. n
<1> DEFINE x == n - w + T - 1
           m == x \div T
<1>1. x \in Nat /\ m \in Int
  OBVIOUS
<1>2. m * T <= x
  BY <1>1
<1>3. i \in Int /\ 1 <= i /\ i <= m
  OBVIOUS
<1> HIDE DEF m
<1>4. (i - 1) * T <= (m - 1) * T
  BY <1>1, <1>3
<1>5. (m - 1) * T <= n - w - 1
  BY <1>1, <1>2
<1>6. (i - 1) * T \in Nat
  BY <1>3
<1> QED
  BY <1>4, <1>5, <1>6, <1>1

LEMMA InitialDequeType ==
    ASSUME NEW w \in Workers
    PROVE  InitialDeque(w) \in Seq(Messages)
<1>1. Len(Roots) \in Nat /\ w \in 0 .. (Threads - 1)
  BY RootsAssumption DEF Workers
<1>2. (Len(Roots) - w + Threads - 1) \div Threads \in Nat
  BY <1>1, ThreadsAssumption
<1>3. \A i \in 1 .. ((Len(Roots) - w + Threads - 1) \div Threads) :
        Roots[Len(Roots) - w - (i - 1) * Threads] \in Messages
  BY <1>1, DealIndex, ThreadsAssumption, RootsAssumption DEF Messages
<1> QED
  BY <1>2, <1>3 DEF InitialDeque

\* Where the stages of run_one lead.
LEMMA StageTypes ==
    ASSUME NEW e \in Entries, NEW r \in {"Continue", "Skip", "Quit"}
    PROVE  /\ FirstStage(e) \in RunStages
           /\ AfterVisit(e, r) \in RunStages \cup {"pop"}
BY DEF FirstStage, AfterVisit, RunStages

-----------------------------------------------------------------------------
(* ShapeInv is inductive.                                                  *)

LEMMA ShapeInit == Init => ShapeInv
<1> SUFFICES ASSUME Init PROVE ShapeInv
  OBVIOUS
<1>1. TypeOK
  <2>1. <<>> \in Seq(Messages)
    BY EmptySeq
  <2>2. 1 \in 1 .. Threads /\ Threads \in 0 .. Threads
    BY ThreadsAssumption
  <2> QED BY <2>1, <2>2 DEF Init, TypeOK, PCs
<1>2. ActiveWorkersExact
  <2>1. {w \in Workers : ~idle[w]} = Workers
    BY DEF Init
  <2> QED BY <2>1, WorkersFinite DEF Init, ActiveWorkersExact
<1>3. SpawnShape
  BY DEF Init, SpawnShape
<1>4. \A w \in Workers : HandShape(w) /\ IdleShape(w)
  BY DEF Init, HandShape, IdleShape, Resting, Busy, RunStages
<1> QED BY <1>1, <1>2, <1>3, <1>4 DEF ShapeInv

\* The main thread's steps.
LEMMA ShapeMain == ShapeInv /\ MainStep => ShapeInv'
<1> SUFFICES ASSUME ShapeInv, MainStep PROVE ShapeInv'
  OBVIOUS
<1> USE DEF ShapeInv
<1>1. CASE MainRootError
  BY <1>1 DEF MainRootError, TypeOK, ActiveWorkersExact, SpawnShape, HandShape,
     IdleShape, dequeVars, endVars
<1>2. CASE MainJoin
  BY <1>2 DEF MainJoin, TypeOK, ActiveWorkersExact, SpawnShape, HandShape,
     IdleShape, dequeVars, endVars, treeVars
<1>3. CASE MainSpawn
  <2>1. TypeOK'
    <3>1. deque' \in [Workers -> Seq(Messages)]
      BY <1>3, InitialDequeType DEF MainSpawn
    <3> QED BY <1>3, <3>1 DEF MainSpawn, TypeOK, endVars, PCs
  <2>2. ActiveWorkersExact'
    BY <1>3 DEF MainSpawn, ActiveWorkersExact, endVars
  <2>3. SpawnShape'
    BY <1>3 DEF MainSpawn, SpawnShape
  <2>4. \A w \in Workers : HandShape(w)' /\ IdleShape(w)'
    BY <1>3 DEF MainSpawn, HandShape, IdleShape, SpawnShape, Resting, Busy,
       RunStages, endVars
  <2> QED BY <2>1, <2>2, <2>3, <2>4
<1> QED BY <1>1, <1>2, <1>3 DEF MainStep

\* The steps that leave the activity of the workers alone.
LEMMA ShapeStack ==
    ASSUME ShapeInv, NEW w \in Workers, StackStep(w)
    PROVE  ShapeInv'
<1> USE DEF ShapeInv
<1>1. SpawnShape' /\ mainpc # "roots"
  BY DEF SpawnShape, StackStep, PopOwn, PopEmpty, StealTake, Publish, StealFail,
     RecvNone, mainVars, TypeOK
<1>2. ActiveWorkersExact'
  BY DEF ActiveWorkersExact, StackStep, PopOwn, PopEmpty, StealTake, Publish,
     StealFail, RecvNone, endVars
<1>3. CASE PopOwn(w)
  <2>1. deque[w] \in Seq(Messages) /\ Len(deque[w]) \in Nat \ {0}
    BY <1>3, EmptySeq DEF PopOwn, TypeOK
  <2>2. SubSeq(deque[w], 1, Len(deque[w]) - 1) \in Seq(Messages)
    BY <2>1
  <2>3. <<deque[w][Len(deque[w])]>> \in Seq(Messages)
    BY <2>1
  <2>4. TypeOK'
    BY <1>3, <2>2, <2>3 DEF PopOwn, TypeOK, mainVars, endVars, treeVars,
       Touched, AfterRecv, PCs
  <2>5. \A x \in Workers : HandShape(x)' /\ IdleShape(x)'
    BY <1>3, <2>3 DEF PopOwn, TypeOK, endVars, treeVars, AfterRecv, HandShape,
       IdleShape, Resting, Busy, RunStages
  <2> QED BY <1>1, <1>2, <2>4, <2>5
<1>4. CASE PopEmpty(w)
  BY <1>1, <1>2, <1>4 DEF PopEmpty, TypeOK, mainVars, dequeVars, endVars,
     treeVars, PCs, HandShape, IdleShape, Resting, Busy, RunStages
<1>5. CASE StealTake(w)
  <2> DEFINE v == Victim(w)
  <2>1. v \in Workers /\ deque[v] \in Seq(Messages)
    BY VictimType DEF TypeOK
  <2>2. Len(deque[v]) \in Nat \ {0}
    BY <1>5, <2>1, EmptySeq DEF StealTake
  <2>3. PICK k \in 1 .. BatchLimit(Len(deque[v])) :
          /\ hand' = [hand EXCEPT ![w] = SubSeq(deque[v], 1, k)]
          /\ deque' = [deque EXCEPT ![v] = Left(@, k)]
    BY <1>5 DEF StealTake
  <2>4. k \in 1 .. Len(deque[v])
    BY <2>2, <2>3, BatchLimitBound
  <2>5. /\ SubSeq(deque[v], 1, k) \in Seq(Messages)
        /\ Len(SubSeq(deque[v], 1, k)) = k
        /\ Left(deque[v], k) \in Seq(Messages)
    BY <2>1, <2>4, SplitType
  <2> HIDE DEF v
  <2>6. TypeOK'
    <3>1. stale' \in [Workers -> BOOLEAN]
      BY <1>5, TouchedType DEF StealTake, TypeOK
    <3>2. 1 \in 1 .. Threads
      BY ThreadsAssumption
    <3> QED BY <1>5, <2>1, <2>3, <2>5, <3>1, <3>2 DEF StealTake, TypeOK,
          mainVars, endVars, treeVars, PCs
  <2>7. \A x \in Workers : HandShape(x)' /\ IdleShape(x)'
    BY <1>5, <2>3, <2>4, <2>5 DEF StealTake, TypeOK, endVars, treeVars,
       HandShape, IdleShape, Resting, Busy, RunStages
  <2> QED BY <1>1, <1>2, <2>6, <2>7
<1>6. CASE Publish(w)
  <2>1. hand[w] \in Seq(Messages) /\ Len(hand[w]) \in Nat \ {0}
    BY <1>6 DEF Publish, TypeOK, HandShape
  <2>2. Surplus(hand[w]) \in Seq(Messages)
    BY <2>1, SurplusType
  <2>3. deque[w] \o Surplus(hand[w]) \in Seq(Messages)
    BY <2>2 DEF TypeOK
  <2>4. <<hand[w][Len(hand[w])]>> \in Seq(Messages)
    BY <2>1
  <2>5. TypeOK'
    BY <1>6, <2>3, <2>4 DEF Publish, TypeOK, mainVars, endVars, treeVars,
       Touched, AfterRecv, PCs
  <2>6. \A x \in Workers : HandShape(x)' /\ IdleShape(x)'
    BY <1>6, <2>4 DEF Publish, TypeOK, endVars, treeVars, AfterRecv, HandShape,
       IdleShape, Resting, Busy, RunStages
  <2> QED BY <1>1, <1>2, <2>5, <2>6
<1>7. CASE StealFail(w)
  BY <1>1, <1>2, <1>7, ThreadsAssumption DEF StealFail, TypeOK, mainVars,
     endVars, treeVars, HandShape, IdleShape
<1>8. CASE RecvNone(w)
  BY <1>1, <1>2, <1>8, ThreadsAssumption, EmptySeq DEF RecvNone, TypeOK, PCs,
     mainVars, endVars, treeVars, HandShape, IdleShape, Resting, Busy, RunStages
<1> QED BY <1>3, <1>4, <1>5, <1>6, <1>7, <1>8 DEF StackStep

LEMMA ShapeGetWork ==
    ASSUME ShapeInv, NEW w \in Workers, GetWorkStep(w)
    PROVE  ShapeInv'
<1> USE DEF ShapeInv
<1>1. SpawnShape' /\ mainpc # "roots"
  BY DEF SpawnShape, GetWorkStep, TakeWork, TakeQuit, TakeNone, Deactivate,
     Activate, SendQuit, mainVars, TypeOK
<1>2. CASE TakeWork(w)
  <2>1. hand[w][1] \in Entries
    <3>1. hand[w] \in Seq(Messages) /\ Len(hand[w]) \in {0, 1}
      BY <1>2 DEF TakeWork, TypeOK, HandShape
    <3>2. Len(hand[w]) = 1 /\ hand[w] = <<hand[w][1]>>
      BY <1>2, <3>1, EmptySeq DEF TakeWork
    <3> QED BY <1>2, <3>1, <3>2 DEF TakeWork, Messages
  <2>2. FirstStage(hand[w][1]) \in {"parents", "device", "visit"}
    BY DEF FirstStage
  <2>3. TypeOK'
    BY <1>2, <2>2 DEF TakeWork, TypeOK, mainVars, dequeVars, endVars, treeVars,
       PCs, RunStages
  <2>4. Len(hand[w]) = 1
    BY <1>2, EmptySeq DEF TakeWork, TypeOK, HandShape
  <2>5. \A x \in Workers : HandShape(x)' /\ IdleShape(x)'
    BY <1>2, <2>1, <2>2, <2>4 DEF TakeWork, TypeOK, dequeVars, endVars, treeVars,
       HandShape, IdleShape, Resting, Busy, RunStages
  <2> QED BY <1>1, <1>2, <2>3, <2>5 DEF TakeWork, endVars, ActiveWorkersExact
<1>3. CASE TakeQuit(w)
  BY <1>1, <1>3, EmptySeq DEF TakeQuit, TypeOK, mainVars, endVars, treeVars, PCs,
     HandShape, IdleShape, Resting, Busy, RunStages, ActiveWorkersExact
<1>4. CASE TakeNone(w)
  BY <1>1, <1>4 DEF TakeNone, TypeOK, mainVars, dequeVars, endVars, treeVars, PCs,
     HandShape, IdleShape, Resting, Busy, RunStages, ActiveWorkersExact
<1>5. CASE Deactivate(w)
  <2> DEFINE S == {x \in Workers : ~idle[x]}
  <2>1. ~idle[w] /\ w \in S
    BY <1>5 DEF Deactivate, IdleShape, Busy
  <2>2. {x \in Workers : ~idle'[x]} = S \ {w}
    BY <1>5 DEF Deactivate, TypeOK
  <2>3. Cardinality(S \ {w}) = Cardinality(S) - 1
    BY <2>1, AddWorker
  <2>4. Cardinality(S \ {w}) \in 0 .. Threads
    BY AddWorker
  <2>5. ActiveWorkersExact' /\ active_workers' \in 0 .. Threads
    BY <1>5, <2>2, <2>3, <2>4 DEF Deactivate, ActiveWorkersExact
  <2>6. TypeOK'
    BY <1>5, <2>5 DEF Deactivate, TypeOK, mainVars, dequeVars, treeVars, PCs
  <2>7. \A x \in Workers : HandShape(x)' /\ IdleShape(x)'
    BY <1>5 DEF Deactivate, TypeOK, dequeVars, treeVars, HandShape, IdleShape,
       Resting, Busy, RunStages
  <2> QED BY <1>1, <2>5, <2>6, <2>7
<1>6. CASE Activate(w)
  <2> DEFINE S == {x \in Workers : ~idle[x]}
  <2>1. idle[w] /\ w \notin S
    BY <1>6 DEF Activate, IdleShape
  <2>2. {x \in Workers : ~idle'[x]} = S \cup {w}
    BY <1>6 DEF Activate, TypeOK
  <2>3. Cardinality(S \cup {w}) = Cardinality(S) + 1
    BY <2>1, AddWorker
  <2>4. Cardinality(S \cup {w}) \in 0 .. Threads
    BY <2>2, AddWorker
  <2>5. ActiveWorkersExact' /\ active_workers' \in 0 .. Threads
    BY <1>6, <2>2, <2>3, <2>4 DEF Activate, ActiveWorkersExact
  <2>6. TypeOK'
    BY <1>6, <2>5 DEF Activate, TypeOK, mainVars, dequeVars, treeVars, PCs
  <2>7. \A x \in Workers : HandShape(x)' /\ IdleShape(x)'
    BY <1>6 DEF Activate, TypeOK, dequeVars, treeVars, HandShape, IdleShape,
       Resting, Busy, RunStages
  <2> QED BY <1>1, <2>5, <2>6, <2>7
<1>7. CASE SendQuit(w)
  <2>1. WithQuit(deque[w]) \in Seq(Messages)
    BY DEF WithQuit, TypeOK, Messages
  <2>2. TypeOK'
    BY <1>7, <2>1, TouchedType DEF SendQuit, TypeOK, mainVars, endVars, treeVars, PCs
  <2>3. \A x \in Workers : HandShape(x)' /\ IdleShape(x)'
    BY <1>7 DEF SendQuit, TypeOK, endVars, treeVars, HandShape, IdleShape,
       Resting, Busy, RunStages
  <2> QED BY <1>1, <1>7, <2>2, <2>3 DEF SendQuit, endVars, ActiveWorkersExact
<1> QED BY <1>2, <1>3, <1>4, <1>5, <1>6, <1>7 DEF GetWorkStep

\* Proceed keeps the shape of a worker that goes on to one of the later stages.
LEMMA ShapeProceed ==
    ASSUME ShapeInv, NEW w \in Workers, pc[w] \in RunStages,
           NEW p \in {"setQuit", "list", "gen", "pop"}, Proceed(w, p),
           \A x \in Workers \ {w} : todo'[x] = todo[x],
           p # "gen" => todo'[w] = {},
           UNCHANGED idle
    PROVE  /\ pc' \in [Workers -> PCs]
           /\ hand' \in [Workers -> Seq(Messages)]
           /\ status' \in [Entries -> {"unsent", "sent", "finished"}]
           /\ \A x \in Workers : HandShape(x)' /\ IdleShape(x)'
<1> USE DEF ShapeInv
<1>1. <<>> \in Seq(Messages)
  BY EmptySeq
<1>2. Len(hand[w]) = 1 /\ WorkOf(w) \in Entries
  BY DEF HandShape, WorkOf
<1>3. pc' \in [Workers -> PCs]
  BY DEF Proceed, TypeOK, PCs, RunStages
<1>4. hand' \in [Workers -> Seq(Messages)]
  BY <1>1 DEF Proceed, TypeOK
<1>5. status' \in [Entries -> {"unsent", "sent", "finished"}]
  BY <1>2 DEF Proceed, TypeOK
<1>6. \A x \in Workers : HandShape(x)' /\ IdleShape(x)'
  BY <1>2 DEF Proceed, TypeOK, HandShape, IdleShape, Resting, Busy, RunStages,
     WorkOf
<1> QED BY <1>3, <1>4, <1>5, <1>6

LEMMA ShapeRun ==
    ASSUME ShapeInv, NEW w \in Workers, RunStep(w)
    PROVE  ShapeInv'
<1> USE DEF ShapeInv
<1>1. pc[w] \in RunStages /\ Len(hand[w]) = 1 /\ WorkOf(w) \in Entries
  BY DEF RunStep, AddParentsError, DeviceError, VisitEntry, ListError,
     GenerateSend, GenerateSkip, GenerateError, GenerateDone, SetQuitNow,
     RunStages, HandShape, WorkOf
<1>2. SpawnShape' /\ mainpc # "roots" /\ mainpc' = mainpc
  BY <1>1 DEF SpawnShape, RunStep, AddParentsError, DeviceError, VisitEntry,
     ListError, GenerateSend, GenerateSkip, GenerateError, GenerateDone,
     SetQuitNow, mainVars, RunStages
<1>3. ActiveWorkersExact' /\ UNCHANGED <<idle, active_workers>>
  BY DEF ActiveWorkersExact, RunStep, AddParentsError, DeviceError, VisitEntry,
     ListError, GenerateSend, GenerateSkip, GenerateError, GenerateDone,
     SetQuitNow, endVars
<1>4. CASE AddParentsError(w)
  BY <1>1, <1>2, <1>3, <1>4 DEF AddParentsError, TypeOK, mainVars, dequeVars,
     endVars, PCs, RunStages, HandShape, IdleShape, Resting, Busy
<1>5. CASE DeviceError(w)
  BY <1>1, <1>2, <1>3, <1>5 DEF DeviceError, TypeOK, mainVars, dequeVars,
     endVars, PCs, RunStages, HandShape, IdleShape, Resting, Busy
<1>6. CASE VisitEntry(w)
  <2> DEFINE e == WorkOf(w)
  <2>1. PICK r \in {"Continue", "Skip", "Quit"} :
          /\ Proceed(w, AfterVisit(e, r))
          /\ visits' = IF ShouldVisit(e) THEN [visits EXCEPT ![e] = @ + 1]
                                         ELSE visits
          /\ pruned' = IF r = "Skip" THEN pruned \cup {e} ELSE pruned
          /\ todo' = [todo EXCEPT ![w] = IF AfterVisit(e, r) = "gen"
                                         THEN Children[e] ELSE @]
    BY <1>6, FaultsAssumption DEF VisitEntry
  <2>2. AfterVisit(e, r) \in {"setQuit", "list", "gen", "pop"}
    BY DEF AfterVisit
  <2>3. AfterVisit(e, r) = "gen" => Children[e] \subseteq Entries
    BY <1>1, TreeAssumption DEF AfterVisit, Descends
  <2>4. todo[w] = {}
    BY <1>6 DEF VisitEntry, HandShape
  <2>5. /\ \A x \in Workers \ {w} : todo'[x] = todo[x]
        /\ AfterVisit(e, r) # "gen" => todo'[w] = {}
        /\ todo' \in [Workers -> SUBSET Entries]
    BY <2>1, <2>3, <2>4 DEF TypeOK
  <2>6. visits' \in [Entries -> Nat] /\ pruned' \subseteq Entries
    BY <1>1, <2>1 DEF TypeOK
  <2>7. /\ pc' \in [Workers -> PCs]
        /\ hand' \in [Workers -> Seq(Messages)]
        /\ status' \in [Entries -> {"unsent", "sent", "finished"}]
        /\ \A x \in Workers : HandShape(x)' /\ IdleShape(x)'
    BY <1>1, <1>3, <2>1, <2>2, <2>5, ShapeProceed
  <2> QED BY <1>2, <1>3, <1>6, <2>5, <2>6, <2>7 DEF VisitEntry, TypeOK, endVars
<1>7. CASE ListError(w)
  <2>1. PICK p \in {"setQuit", "pop"} : Proceed(w, p)
    BY <1>7 DEF ListError
  <2>2. todo[w] = {}
    BY <1>7 DEF ListError, HandShape
  <2>3. /\ pc' \in [Workers -> PCs]
        /\ hand' \in [Workers -> Seq(Messages)]
        /\ status' \in [Entries -> {"unsent", "sent", "finished"}]
        /\ \A x \in Workers : HandShape(x)' /\ IdleShape(x)'
    BY <1>1, <1>3, <1>7, <2>1, <2>2, ShapeProceed DEF ListError
  <2> QED BY <1>2, <1>3, <1>7, <2>3 DEF ListError, TypeOK, endVars
<1>8. CASE GenerateSend(w)
  <2>1. PICK c \in todo[w] :
          /\ todo' = [todo EXCEPT ![w] = @ \ {c}]
          /\ deque' = [deque EXCEPT ![w] = Append(@, c)]
          /\ status' = [status EXCEPT ![c] = "sent"]
    BY <1>8 DEF GenerateSend
  <2>2. Append(deque[w], c) \in Seq(Messages)
    BY DEF TypeOK, Messages
  <2>3. TypeOK'
    <3>1. stale' \in [Workers -> BOOLEAN]
      BY <1>8, TouchedType DEF GenerateSend, TypeOK
    <3>2. todo' \in [Workers -> SUBSET Entries]
      BY <2>1 DEF TypeOK
    <3>3. status' \in [Entries -> {"unsent", "sent", "finished"}]
      BY <2>1 DEF TypeOK
    <3>4. deque' \in [Workers -> Seq(Messages)]
      BY <2>1, <2>2 DEF TypeOK
    <3> QED BY <1>8, <3>1, <3>2, <3>3, <3>4 DEF GenerateSend, TypeOK, mainVars,
          endVars
  <2>4. \A x \in Workers : HandShape(x)' /\ IdleShape(x)'
    BY <1>8, <2>1 DEF GenerateSend, TypeOK, endVars, HandShape, IdleShape
  <2> QED BY <1>2, <1>3, <2>3, <2>4
<1>9. CASE GenerateSkip(w)
  BY <1>2, <1>3, <1>9 DEF GenerateSkip, TypeOK, mainVars, dequeVars, endVars,
     HandShape, IdleShape
<1>10. CASE GenerateError(w)
  <2>1. TypeOK'
    BY <1>10 DEF GenerateError, TypeOK, mainVars, dequeVars, endVars, PCs, RunStages
  <2>2. \A x \in Workers : HandShape(x)' /\ IdleShape(x)'
    BY <1>1, <1>10 DEF GenerateError, TypeOK, dequeVars, endVars, HandShape,
       IdleShape, Resting, Busy, RunStages
  <2> QED BY <1>2, <1>3, <2>1, <2>2
<1>11. CASE GenerateDone(w)
  <2>1. Proceed(w, "pop") /\ todo' = todo /\ todo[w] = {}
    BY <1>11 DEF GenerateDone
  <2>2. /\ pc' \in [Workers -> PCs]
        /\ hand' \in [Workers -> Seq(Messages)]
        /\ status' \in [Entries -> {"unsent", "sent", "finished"}]
        /\ \A x \in Workers : HandShape(x)' /\ IdleShape(x)'
    BY <1>1, <1>3, <2>1, ShapeProceed
  <2> QED BY <1>2, <1>3, <1>11, <2>2 DEF GenerateDone, TypeOK, endVars
<1>12. CASE SetQuitNow(w)
  <2>1. TypeOK'
    BY <1>12, EmptySeq DEF SetQuitNow, TypeOK, mainVars, treeVars, PCs
  <2>2. \A x \in Workers : HandShape(x)' /\ IdleShape(x)'
    BY <1>1, <1>12, EmptySeq DEF SetQuitNow, TypeOK, treeVars, HandShape,
       IdleShape, Resting, Busy, RunStages
  <2> QED BY <1>2, <1>3, <2>1, <2>2
<1> QED BY <1>4, <1>5, <1>6, <1>7, <1>8, <1>9, <1>10, <1>11, <1>12 DEF RunStep

LEMMA ShapeNext == ShapeInv /\ [Next]_vars => ShapeInv'
<1> SUFFICES ASSUME ShapeInv, [Next]_vars PROVE ShapeInv'
  OBVIOUS
<1>1. CASE UNCHANGED vars
  BY <1>1 DEF vars, mainVars, dequeVars, endVars, treeVars, ShapeInv, TypeOK,
     ActiveWorkersExact, SpawnShape, HandShape, IdleShape
<1>2. CASE MainStep
  BY <1>2, ShapeMain
<1>3. ASSUME NEW w \in Workers, WorkerStep(w) PROVE ShapeInv'
  BY <1>3, ShapeStack, ShapeGetWork, ShapeRun DEF WorkerStep
<1> QED BY <1>1, <1>2, <1>3 DEF Next, Terminated

\* Every variable keeps its type; in particular active_workers never wraps
\* below zero nor exceeds the number of workers (Worker::deactivate_worker).
THEOREM TypeCorrect == SafeSpec => []TypeOK
<1>1. ShapeInv => TypeOK
  BY DEF ShapeInv
<1> QED BY <1>1, ShapeInit, ShapeNext, PTL DEF SafeSpec

\* The counter of get_work is always the number of workers that are not in the
\* idle loop (deactivate_worker, activate_worker).
THEOREM ActiveWorkersCorrect == SafeSpec => []ActiveWorkersExact
<1>1. ShapeInv => ActiveWorkersExact
  BY DEF ShapeInv
<1> QED BY <1>1, ShapeInit, ShapeNext, PTL DEF SafeSpec

-----------------------------------------------------------------------------
(* Ownership.                                                              *)

Contents(q) == {q[i] : i \in 1 .. Len(q)}

\* Quit is passed on and may be held several times; entries may not.
Distinct(q) == \A i, j \in 1 .. Len(q) : q[i] = q[j] /\ q[i] # Quit => i = j
Apart(p, q) == Contents(p) \cap Contents(q) \subseteq {Quit}

OnePlace ==
    /\ \A w \in Workers : Distinct(deque[w]) /\ Distinct(hand[w])
    /\ \A v, w \in Workers : Apart(deque[v], hand[w])
    /\ \A v, w \in Workers : v # w => /\ Apart(deque[v], deque[w])
                                      /\ Apart(hand[v], hand[w])

HeldSent == \A w \in Workers : \A e \in Held(w) \cap Entries : status[e] = "sent"

\* The stages of run_one that follow the visitor's answer.
Late == {"list", "gen", "setQuit"}

\* An entry nobody has looked at: unsent, or waiting for its visit.
Waits(e, w) ==
    \/ e \in Contents(deque[w])
    \/ pc[w] \notin Late /\ e \in Contents(hand[w])
Fresh(e) == status[e] = "unsent" \/ \E w \in Workers : Waits(e, w)

FreshUntouched == \A e \in Entries : Fresh(e) =>
    /\ visits[e] = 0
    /\ e \notin pruned
    /\ e \in Dirs => \A c \in Children[e] : status[c] = "unsent"

\* What has been reported of e once a worker has come to each stage.
ParentsTold(e) == e \in ParentErr => <<"parents", e>> \in errs
DeviceTold(e) == e \in DeviceErr => <<"device", e>> \in errs
ListTold(e) == e \in Unreadable => <<"list", e>> \in errs

\* A child of a listed directory that the worker has dealt with.
Dealt(c) ==
    /\ c \in BadEntries => <<"entry", c>> \in errs
    /\ c \notin BadEntries \cup Ignored => status[c] # "unsent"

Shown(e) == visits[e] > 0 \/ Depth[e] < MinDepth

StageInv(w) ==
    /\ pc[w] \in {"device", "visit", "list", "gen"} => ParentsTold(WorkOf(w))
    /\ pc[w] \in {"visit", "list", "gen"} => DeviceTold(WorkOf(w))
    /\ pc[w] \in {"list", "gen"} => Shown(WorkOf(w)) /\ WorkOf(w) \notin pruned
    /\ pc[w] = "list" => WorkOf(w) \in Unreadable
    /\ pc[w] = "gen" =>
         /\ WorkOf(w) \in Listed
         /\ todo[w] \subseteq Children[WorkOf(w)]
         /\ \A c \in todo[w] : status[c] = "unsent"
         /\ \A c \in Children[WorkOf(w)] \ todo[w] : Dealt(c)

\* All that run_one owes a directory or file it has finished.
Settled(e) ==
    /\ ParentsTold(e) /\ DeviceTold(e) /\ Shown(e)
    /\ e \in pruned \cup OffDevice \cup DeviceErr \/ ListTold(e)
    /\ e \in Listed \ pruned => \A c \in Children[e] : Dealt(c)

FinishedSettled == \A e \in Entries : status[e] = "finished" => Settled(e)

\* Until quit_now is up nothing that was sent is lost.
NothingLost == ~quit_now => \A e \in Entries :
    status[e] = "sent" => \E w \in Workers : e \in Held(w)

\* Until quit_now is up, Quit is the only message of a dead worker's deque and
\* travels alone.
QuitAlone(w) ==
    /\ pc[w] \in {"steal", "publish", "deactivate", "sendQuit"} => deque[w] = <<>>
    /\ pc[w] = "check" /\ hand[w] = <<>> => deque[w] = <<>>
    /\ pc[w] = "done" => deque[w] \in {<<>>, <<Quit>>}
    /\ pc[w] # "done" => Quit \notin Contents(deque[w])
    /\ Quit \in Contents(hand[w]) => hand[w] = <<Quit>> /\ deque[w] = <<>>

\* What the main thread knows of its workers, and when there are any.
MainInv ==
    /\ mainpc \in {"roots", "quit"} \/ Roots = <<>> =>
          /\ \A w \in Workers : pc[w] = "unborn" /\ deque[w] = <<>>
          /\ \A e \in Entries : status[e] = "unsent"
          /\ ~quit_now
    /\ mainpc = "returned" /\ Roots # <<>> => \A w \in Workers : pc[w] = "done"
    /\ mainpc = "join" => Roots # <<>>
    /\ mainpc \notin {"roots", "quit"} => \A r \in RootSet : status[r] # "unsent"

OwnInv ==
    /\ OnePlace /\ HeldSent /\ FreshUntouched /\ MainInv
    /\ VisitedAtMostOnce
    /\ NothingLost /\ (~quit_now => \A w \in Workers : QuitAlone(w))
    /\ \A w \in Workers : StageInv(w)
    /\ FinishedSettled
    /\ \A e \in Entries : visits[e] > 0 => status[e] # "unsent"
-----------------------------------------------------------------------------
(* Facts about the operators.                                              *)

\* A message as a sequence of its own, as pop leaves it in the hand.
LEMMA Single ==
    ASSUME NEW m
    PROVE  /\ Contents(<<m>>) = {m} /\ Contents(<<>>) = {}
           /\ Distinct(<<m>>) /\ Distinct(<<>>)
BY DEF Contents, Distinct

\* A batch (steal_batch_and_pop) and what it leaves share out the deque.
LEMMA SplitContents ==
    ASSUME NEW q \in Seq(Messages), NEW k \in 0 .. Len(q)
    PROVE  LET p == SubSeq(q, 1, k)
               r == SubSeq(q, k + 1, Len(q))
           IN  /\ Contents(q) = Contents(p) \cup Contents(r)
               /\ Distinct(q) => Distinct(p) /\ Distinct(r) /\ Apart(r, p)
<1> DEFINE p == SubSeq(q, 1, k)
           r == SubSeq(q, k + 1, Len(q))
<1>1. /\ k \in Nat /\ Len(q) \in Nat
      /\ Len(p) = k /\ Len(r) = Len(q) - k
      /\ \A i \in 1 .. k : p[i] = q[i]
      /\ \A i \in 1 .. (Len(q) - k) : r[i] = q[k + i]
  OBVIOUS
<1> HIDE DEF p, r
<1>2. Contents(q) = Contents(p) \cup Contents(r)
  <2>1. ASSUME NEW i \in 1 .. Len(q)
        PROVE  q[i] \in Contents(p) \cup Contents(r)
    <3>1. CASE i <= k
      BY <1>1, <3>1 DEF Contents
    <3>2. CASE i > k
      <4>1. i - k \in 1 .. Len(r) /\ r[i - k] = q[i]
        BY <1>1, <3>2
      <4> QED BY <4>1 DEF Contents
    <3> QED BY <3>1, <3>2, <1>1
  <2>2. Contents(p) \subseteq Contents(q) /\ Contents(r) \subseteq Contents(q)
    BY <1>1 DEF Contents
  <2> QED BY <2>1, <2>2 DEF Contents
<1>3. Distinct(q) => Distinct(p) /\ Distinct(r)
  BY SMTT(30), <1>1 DEF Distinct
<1>4. Distinct(q) => Apart(r, p)
  BY <1>1 DEF Distinct, Apart, Contents
<1> QED BY <1>2, <1>3, <1>4 DEF p, r

\* Taking the last message, as the owner's pop and the end of a steal do.
LEMMA LastContents ==
    ASSUME NEW q \in Seq(Messages), q # <<>>
    PROVE  LET p == SubSeq(q, 1, Len(q) - 1)
               m == q[Len(q)]
           IN  /\ m \in Messages
               /\ Contents(q) = Contents(p) \cup {m}
               /\ Distinct(q) => Distinct(p) /\ Apart(p, <<m>>)
<1> DEFINE p == SubSeq(q, 1, Len(q) - 1)
           m == q[Len(q)]
<1>1. /\ Len(q) \in Nat \ {0} /\ m \in Messages
      /\ Len(p) = Len(q) - 1
      /\ \A i \in 1 .. (Len(q) - 1) : p[i] = q[i]
  <2>1. Len(q) \in Nat \ {0}
    BY EmptySeq
  <2>2. m \in Messages
    BY <2>1, ElementOfSeq
  <2>3. ASSUME NEW k \in 0 .. Len(q)
        PROVE  /\ Len(SubSeq(q, 1, k)) = k
               /\ \A i \in 1 .. k : SubSeq(q, 1, k)[i] = q[i]
    OBVIOUS
  <2>4. Len(q) - 1 \in 0 .. Len(q)
    BY <2>1
  <2> QED BY <2>1, <2>2, <2>3, <2>4
<1> HIDE DEF p
<1>2. Contents(q) = Contents(p) \cup {m}
  BY <1>1 DEF Contents
<1>3. Distinct(q) => Distinct(p) /\ Apart(p, <<m>>)
  BY <1>1, Single DEF Contents, Distinct, Apart
<1> QED BY <1>1, <1>2, <1>3 DEF p

\* Appending, as publishing a batch or pushing an entry does.
LEMMA ConcatContents ==
    ASSUME NEW p \in Seq(Messages), NEW q \in Seq(Messages)
    PROVE  /\ Contents(p \o q) = Contents(p) \cup Contents(q)
           /\ Distinct(p) /\ Distinct(q) /\ Apart(p, q) => Distinct(p \o q)
<1>1. /\ Len(p) \in Nat /\ Len(q) \in Nat
      /\ Len(p \o q) = Len(p) + Len(q)
      /\ \A i \in 1 .. (Len(p) + Len(q)) :
            (p \o q)[i] = IF i <= Len(p) THEN p[i] ELSE q[i - Len(p)]
  OBVIOUS
<1> DEFINE r == p \o q
<1> HIDE DEF r
<1>2. Contents(r) = Contents(p) \cup Contents(q)
  <2>1. ASSUME NEW i \in 1 .. Len(q) PROVE q[i] \in Contents(r)
    <3>1. Len(p) + i \in 1 .. Len(r) /\ r[Len(p) + i] = q[i]
      BY <1>1 DEF r
    <3> QED BY <3>1 DEF Contents
  <2>2. ASSUME NEW i \in 1 .. Len(p) PROVE p[i] \in Contents(r)
    BY <1>1 DEF Contents, r
  <2>3. ASSUME NEW i \in 1 .. Len(r)
        PROVE  r[i] \in Contents(p) \cup Contents(q)
    BY <1>1 DEF Contents, r
  <2> QED BY <2>1, <2>2, <2>3 DEF Contents
<1>3. Distinct(p) /\ Distinct(q) /\ Apart(p, q) => Distinct(r)
  <2> SUFFICES ASSUME Distinct(p), Distinct(q), Apart(p, q),
                      NEW i \in 1 .. Len(r), NEW j \in 1 .. Len(r),
                      r[i] = r[j], r[i] # Quit
               PROVE  i = j
    BY DEF Distinct
  <2>1. CASE i <= Len(p) /\ j <= Len(p)
    BY <1>1, <2>1 DEF Distinct, r
  <2>2. CASE i > Len(p) /\ j > Len(p)
    <3>1. i - Len(p) \in 1 .. Len(q) /\ j - Len(p) \in 1 .. Len(q)
      BY <1>1, <2>2 DEF r
    <3>2. q[i - Len(p)] = q[j - Len(p)] /\ q[i - Len(p)] # Quit
      BY <1>1, <2>2 DEF r
    <3> QED BY <1>1, <3>1, <3>2 DEF Distinct, r
  <2>3. \A x \in 1 .. Len(p), y \in 1 .. Len(q) : p[x] = q[y] => p[x] = Quit
    BY DEF Apart, Contents
  <2>4. ~(i <= Len(p) /\ j > Len(p))
    <3> SUFFICES ASSUME i <= Len(p), j > Len(p) PROVE FALSE
      OBVIOUS
    <3>1. i \in 1 .. Len(p) /\ j - Len(p) \in 1 .. Len(q)
      BY <1>1 DEF r
    <3>2. p[i] = q[j - Len(p)] /\ p[i] # Quit
      BY <1>1 DEF r
    <3> QED BY <2>3, <3>1, <3>2
  <2>5. ~(j <= Len(p) /\ i > Len(p))
    <3> SUFFICES ASSUME j <= Len(p), i > Len(p) PROVE FALSE
      OBVIOUS
    <3>1. j \in 1 .. Len(p) /\ i - Len(p) \in 1 .. Len(q)
      BY <1>1 DEF r
    <3>2. p[j] = q[i - Len(p)] /\ p[j] # Quit
      BY <1>1 DEF r
    <3> QED BY <2>3, <3>1, <3>2
  <2> QED BY <1>1, <2>1, <2>2, <2>4, <2>5 DEF r
<1> QED BY <1>2, <1>3 DEF r

\* A push by the worker that generates work (Worker::send).
LEMMA AppendContents ==
    ASSUME NEW q \in Seq(Messages), NEW m \in Messages
    PROVE  /\ Contents(Append(q, m)) = Contents(q) \cup {m}
           /\ Distinct(q) /\ (m = Quit \/ m \notin Contents(q))
                => Distinct(Append(q, m))
<1>1. Append(q, m) = q \o <<m>> /\ <<m>> \in Seq(Messages)
  BY AppendIsConcat
<1>2. m = Quit \/ m \notin Contents(q) => Apart(q, <<m>>)
  BY Single DEF Apart
<1> QED BY <1>1, <1>2, ConcatContents, Single

-----------------------------------------------------------------------------
(* Messages move between one deque and one hand.                           *)

\* Worker w's hand and worker v's deque exchange messages: nothing is copied,
\* nothing but Quit is made.
Moves(v, w) ==
    /\ \A x \in Workers \ {v} : deque'[x] = deque[x]
    /\ \A x \in Workers \ {w} : hand'[x] = hand[x]
    /\ Distinct(deque'[v]) /\ Distinct(hand'[w]) /\ Apart(deque'[v], hand'[w])
    /\ Contents(deque'[v]) \cup Contents(hand'[w])
         \subseteq Contents(deque[v]) \cup Contents(hand[w]) \cup {Quit}

\* ... and nothing is lost.
Keeps(v, w) ==
    Contents(deque[v]) \cup Contents(hand[w])
      \subseteq Contents(deque'[v]) \cup Contents(hand'[w]) \cup {Quit}

\* Stack::push, pop and steal, get_work and send_quit only move messages; only
\* quit_now makes get_work drop one.
LEMMA WorkMoves ==
    ASSUME ShapeInv, OnePlace, NEW w \in Workers, StackStep(w) \/ GetWorkStep(w)
    PROVE  \E v \in Workers : Moves(v, w) /\ (~quit_now => Keeps(v, w))
<1> USE DEF ShapeInv
<1>1. /\ \A x \in Workers : deque[x] \in Seq(Messages) /\ hand[x] \in Seq(Messages)
      /\ Quit \in Messages
      /\ deque \in [Workers -> Seq(Messages)] /\ hand \in [Workers -> Seq(Messages)]
  BY DEF TypeOK, Messages
<1>2. \A x \in Workers : Distinct(deque[x]) /\ Distinct(hand[x])
  BY DEF OnePlace
<1>3. \A x, y \in Workers : Apart(deque[x], hand[y])
  BY DEF OnePlace
<1>4. CASE PopOwn(w)
  <2> DEFINE q == deque[w]
             p == SubSeq(q, 1, Len(q) - 1)
             m == q[Len(q)]
  <2>1. hand[w] = <<>> /\ q # <<>>
    BY <1>4 DEF PopOwn, HandShape, Resting
  <2>2. deque'[w] = p /\ hand'[w] = <<m>>
    BY <1>1, <1>4 DEF PopOwn
  <2>3. /\ \A x \in Workers \ {w} : deque'[x] = deque[x]
        /\ \A x \in Workers \ {w} : hand'[x] = hand[x]
    BY <1>1, <1>4 DEF PopOwn
  <2>4. Contents(q) = Contents(p) \cup {m} /\ Distinct(p) /\ Apart(p, <<m>>)
    BY <1>1, <1>2, <2>1, LastContents
  <2> HIDE DEF p, q, m
  <2>5. Contents(q) = Contents(deque[w])
    BY DEF q
  <2> QED BY <2>1, <2>2, <2>3, <2>4, <2>5, Single DEF Moves, Keeps
<1>5. CASE StealTake(w)
  <2> DEFINE v == Victim(w)
             q == deque[v]
  <2>1. v \in Workers
    BY VictimType DEF TypeOK
  <2>2. Len(q) \in Nat \ {0}
    BY <1>1, <1>5, <2>1, EmptySeq DEF StealTake
  <2>3. PICK k \in 1 .. BatchLimit(Len(q)) :
          /\ hand' = [hand EXCEPT ![w] = SubSeq(q, 1, k)]
          /\ deque' = [deque EXCEPT ![v] = Left(@, k)]
    BY <1>5 DEF StealTake
  <2>4. k \in 0 .. Len(q)
    BY <2>2, <2>3, BatchLimitBound
  <2> DEFINE p == SubSeq(q, 1, k)
             r == SubSeq(q, k + 1, Len(q))
  <2>5. hand[w] = <<>>
    BY <1>5 DEF StealTake, HandShape, Resting
  <2>6. /\ hand'[w] = p /\ deque'[v] = r
        /\ \A x \in Workers \ {v} : deque'[x] = deque[x]
        /\ \A x \in Workers \ {w} : hand'[x] = hand[x]
    BY <1>1, <2>1, <2>3 DEF Left
  <2>7. /\ Contents(q) = Contents(p) \cup Contents(r)
        /\ Distinct(p) /\ Distinct(r) /\ Apart(r, p)
    BY <1>1, <1>2, <2>1, <2>4, SplitContents
  <2> HIDE DEF p, r, v
  <2> QED BY <2>1, <2>5, <2>6, <2>7, Single DEF Moves, Keeps
<1>6. CASE Publish(w)
  <2> DEFINE h == hand[w]
             p == Surplus(h)
             m == h[Len(h)]
  <2>1. h \in Seq(Messages) /\ h # <<>>
    BY <1>1, <1>6 DEF Publish, HandShape
  <2>2. p \in Seq(Messages)
    BY <2>1, EmptySeq, SurplusType
  <2>3. deque'[w] = deque[w] \o p /\ hand'[w] = <<m>>
    BY <1>1, <1>6 DEF Publish
  <2>4. /\ \A x \in Workers \ {w} : deque'[x] = deque[x]
        /\ \A x \in Workers \ {w} : hand'[x] = hand[x]
    BY <1>1, <1>6 DEF Publish
  <2>5. Contents(h) = Contents(p) \cup {m} /\ Distinct(p) /\ Apart(p, <<m>>)
    BY <1>2, <2>1, LastContents DEF Surplus
  <2>6. Apart(deque[w], h)
    BY <1>3
  <2> HIDE DEF p, m, h
  <2>7. /\ Contents(deque[w] \o p) = Contents(deque[w]) \cup Contents(p)
        /\ Distinct(deque[w] \o p)
    <3>1. Apart(deque[w], p)
      BY <2>5, <2>6 DEF Apart
    <3> QED BY <1>1, <1>2, <2>2, <2>5, <3>1, ConcatContents
  <2>8. Apart(deque[w] \o p, <<m>>)
    BY <2>5, <2>6, <2>7, Single DEF Apart
  <2> QED BY <2>3, <2>4, <2>5, <2>7, <2>8, Single DEF Moves, Keeps, h
<1>7. CASE SendQuit(w)
  <2>1. hand[w] = <<>>
    BY <1>7 DEF SendQuit, HandShape, Resting
  <2>2. /\ deque'[w] = Append(deque[w], Quit) /\ hand' = hand
        /\ \A x \in Workers \ {w} : deque'[x] = deque[x]
    BY <1>1, <1>7 DEF SendQuit, WithQuit
  <2>3. /\ Contents(deque'[w]) = Contents(deque[w]) \cup {Quit}
        /\ Distinct(deque'[w])
    BY <1>1, <1>2, <2>2, AppendContents
  <2> QED BY <1>2, <2>1, <2>2, <2>3, Single DEF Moves, Keeps, Apart
<1>8. CASE TakeQuit(w)
  <2>1. /\ hand'[w] = <<>> /\ deque' = deque
        /\ \A x \in Workers \ {w} : hand'[x] = hand[x]
        /\ quit_now \/ hand[w] = <<Quit>>
    BY <1>1, <1>8 DEF TakeQuit, IsQuitNow
  <2> QED BY <1>2, <2>1, Single DEF Moves, Keeps, Apart
<1>9. CASE UNCHANGED <<deque, hand>>
  BY <1>2, <1>3, <1>9 DEF Moves, Keeps
<1> QED BY <1>4, <1>5, <1>6, <1>7, <1>8, <1>9 DEF StackStep, GetWorkStep,
     PopEmpty, StealFail, RecvNone, TakeWork, TakeNone, Deactivate, Activate,
     dequeVars

\* However a step moves messages, every entry stays in one place.
LEMMA MovesOnePlace ==
    ASSUME OnePlace, NEW v \in Workers, NEW w \in Workers, Moves(v, w)
    PROVE  OnePlace'
<1>1. \A x \in Workers : Distinct(deque'[x]) /\ Distinct(hand'[x])
  BY DEF OnePlace, Moves
<1>2. \A x \in Workers \ {v} : Apart(deque'[x], deque'[v]) /\ Apart(deque'[x], hand'[w])
  BY DEF OnePlace, Moves, Apart
<1>3. \A x \in Workers \ {w} : Apart(hand'[x], hand'[w]) /\ Apart(deque'[v], hand'[x])
  BY DEF OnePlace, Moves, Apart
<1>4. \A x \in Workers \ {v}, y \in Workers \ {w} : Apart(deque'[x], hand'[y])
  BY DEF OnePlace, Moves
<1>5. \A x, y \in Workers \ {v} : x # y => Apart(deque'[x], deque'[y])
  BY DEF OnePlace, Moves
<1>6. \A x, y \in Workers \ {w} : x # y => Apart(hand'[x], hand'[y])
  BY DEF OnePlace, Moves
<1>7. \A x, y \in Workers : Apart(deque'[x], hand'[y])
  BY <1>2, <1>3, <1>4 DEF Moves
<1>8. \A x, y \in Workers : x # y => Apart(deque'[x], deque'[y])
  BY <1>2, <1>5 DEF Apart
<1>9. \A x, y \in Workers : x # y => Apart(hand'[x], hand'[y])
  BY <1>3, <1>6 DEF Apart
<1> QED BY <1>1, <1>7, <1>8, <1>9 DEF OnePlace

\* The holders of an entry before and after messages have moved.
LEMMA MovesHeld ==
    ASSUME NEW v \in Workers, NEW w \in Workers, NEW e \in Entries, Moves(v, w)
    PROVE  /\ \A x \in Workers : e \in Held(x)' => \E y \in Workers : e \in Held(y)
           /\ Keeps(v, w) => \A y \in Workers :
                 e \in Held(y) => \E x \in Workers : e \in Held(x)'
<1>1. e # Quit
  BY TreeAssumption
<1>2. \A x \in Workers :
        /\ Held(x) = Contents(deque[x]) \cup Contents(hand[x])
        /\ Held(x)' = Contents(deque'[x]) \cup Contents(hand'[x])
  BY DEF Held, Contents
<1> QED BY <1>1, <1>2 DEF Moves, Keeps

\* While worker w searches for work or ends, an entry that waits has waited
\* before: nothing returns from the hand of one that has visited it.
LEMMA MovesWaits ==
    ASSUME NEW v \in Workers, NEW w \in Workers, NEW e \in Entries, Moves(v, w),
           pc[w] \notin Late, \A x \in Workers \ {w} : pc'[x] = pc[x],
           NEW x \in Workers, Waits(e, x)'
    PROVE  \E y \in Workers : Waits(e, y)
<1>1. e # Quit
  BY TreeAssumption
<1>2. CASE e \in Contents(deque'[x])
  BY <1>1, <1>2 DEF Moves, Waits
<1>3. CASE pc'[x] \notin Late /\ e \in Contents(hand'[x])
  BY <1>1, <1>3 DEF Moves, Waits
<1> QED BY <1>2, <1>3 DEF Waits

\* A worker that is running has been spawned by a main thread that joins it.
LEMMA Running ==
    ASSUME ShapeInv, MainInv, NEW w \in Workers, pc[w] \notin {"unborn", "done"}
    PROVE  mainpc = "join" /\ Roots # <<>>
BY DEF ShapeInv, TypeOK, MainInv

\* Where get_work and recv may be, and that they leave the tree alone.
WorkPCs == {"pop", "steal", "publish", "check", "deactivate", "activate", "sendQuit"}

\* What a step of get_work and of the idle loop leaves alone: the tree's books,
\* the main thread and the other workers (Worker::get_work, recv, send_quit).
LEMMA WorkFrame ==
    ASSUME ShapeInv, NEW w \in Workers, StackStep(w) \/ GetWorkStep(w)
    PROVE  /\ UNCHANGED <<mainpc, quit_now, todo, status, visits, pruned, errs>>
           /\ \A x \in Workers \ {w} : pc'[x] = pc[x]
           /\ pc[w] \in WorkPCs
           /\ pc'[w] \in WorkPCs \cup {"parents", "device", "visit", "done"}
           /\ pc'[w] \in {"parents", "device", "visit"} =>
                 pc'[w] = FirstStage(WorkOf(w)) /\ WorkOf(w)' = WorkOf(w)
<1> USE DEF ShapeInv, TypeOK, mainVars, dequeVars, endVars, treeVars, WorkPCs
<1>1. CASE StackStep(w)
  BY <1>1 DEF StackStep, PopOwn, PopEmpty, StealTake, Publish, StealFail, RecvNone,
     AfterRecv
<1>2. CASE TakeWork(w)
  <2>1. FirstStage(hand[w][1]) \in {"parents", "device", "visit"}
    BY DEF FirstStage
  <2> QED BY <1>2, <2>1 DEF TakeWork, WorkOf
<1>3. CASE GetWorkStep(w) /\ ~TakeWork(w)
  BY <1>3 DEF GetWorkStep, TakeQuit, TakeNone, Deactivate, Activate, SendQuit
<1> QED BY <1>1, <1>2, <1>3

\* Until quit_now is up, Quit stays alone.
LEMMA WorkQuitAlone ==
    ASSUME ShapeInv, ~quit_now, \A x \in Workers : QuitAlone(x),
           NEW w \in Workers, StackStep(w) \/ GetWorkStep(w)
    PROVE  \A x \in Workers : QuitAlone(x)'
<1> USE DEF ShapeInv
<1>1. /\ \A x \in Workers : deque[x] \in Seq(Messages) /\ hand[x] \in Seq(Messages)
      /\ deque \in [Workers -> Seq(Messages)] /\ hand \in [Workers -> Seq(Messages)]
      /\ pc \in [Workers -> PCs] /\ Quit \in Messages
  BY DEF TypeOK, Messages
<1>2. CASE PopOwn(w)
  <2> DEFINE q == deque[w]
             p == SubSeq(q, 1, Len(q) - 1)
             m == q[Len(q)]
  <2>1. deque'[w] = p /\ hand'[w] = <<m>>
    BY <1>1, <1>2 DEF PopOwn
  <2>2. Contents(q) = Contents(p) \cup {m}
    BY <1>1, <1>2, LastContents DEF PopOwn
  <2>3. Quit \notin Contents(q)
    BY <1>2 DEF PopOwn, QuitAlone
  <2> HIDE DEF p, m, q
  <2>4. pc'[w] \in {"activate", "check"} /\ <<m>> # <<>>
    BY <1>1, <1>2 DEF PopOwn, AfterRecv
  <2>5. QuitAlone(w)'
    BY <2>1, <2>2, <2>3, <2>4, Single DEF QuitAlone
  <2>6. \A x \in Workers \ {w} : QuitAlone(x)'
    BY <1>1, <1>2 DEF PopOwn, QuitAlone
  <2> QED BY <2>5, <2>6
<1>3. CASE StealTake(w)
  <2>1. PICK v \in Workers : v = Victim(w)
    BY VictimType DEF TypeOK
  <2> DEFINE q == deque[v]
  <2>2. Len(q) \in Nat \ {0}
    BY <1>1, <1>3, <2>1, EmptySeq DEF StealTake
  <2>3. PICK k \in 1 .. BatchLimit(Len(q)) :
          /\ hand' = [hand EXCEPT ![w] = SubSeq(q, 1, k)]
          /\ deque' = [deque EXCEPT ![v] = Left(@, k)]
    BY <1>3, <2>1 DEF StealTake
  <2>4. k \in 0 .. Len(q) /\ k # 0
    BY <2>2, <2>3, BatchLimitBound
  <2> DEFINE p == SubSeq(q, 1, k)
             r == SubSeq(q, k + 1, Len(q))
  <2>5. Contents(q) = Contents(p) \cup Contents(r)
    BY <1>1, <2>1, <2>4, SplitContents
  <2>6. deque[w] = <<>> /\ v # w
    BY <1>3, <2>1, <2>2 DEF StealTake, QuitAlone
  <2>7. /\ hand'[w] = p /\ deque'[v] = r /\ deque'[w] = <<>>
        /\ pc'[w] = "publish" /\ pc'[v] = pc[v] /\ hand'[v] = hand[v]
        /\ \A x \in Workers \ {v, w} :
             deque'[x] = deque[x] /\ pc'[x] = pc[x] /\ hand'[x] = hand[x]
    <3>1. pc' = [pc EXCEPT ![w] = "publish"]
      BY <1>3 DEF StealTake
    <3>2. Left(deque[v], k) = r
      BY DEF Left
    <3>3. deque'[v] = r /\ hand'[w] = p
      BY <1>1, <2>1, <2>3, <3>2
    <3> HIDE DEF p, r
    <3>4. /\ pc'[w] = "publish"
          /\ \A x \in Workers \ {w} : pc'[x] = pc[x] /\ hand'[x] = hand[x]
      BY <1>1, <2>3, <3>1
    <3>5. \A x \in Workers \ {v} : deque'[x] = deque[x]
      BY <1>1, <2>3
    <3> QED BY <2>1, <2>6, <3>3, <3>4, <3>5
  <2>8. Quit \in Contents(q) => q = <<Quit>>
    BY <2>1, <2>2 DEF QuitAlone
  <2>9. q = <<Quit>> => p = <<Quit>> /\ r = <<>>
    <3> SUFFICES ASSUME q = <<Quit>> PROVE p = <<Quit>> /\ r = <<>>
      OBVIOUS
    <3>1. k = 1 /\ Len(q) = 1
      BY <2>4
    <3>2. SubSeq(q, 1, Len(q)) = q
      BY <1>1, <2>1, SubSeqFull
    <3>3. SubSeq(q, 2, 1) = <<>>
      BY SubSeqEmpty
    <3> QED BY <3>1, <3>2, <3>3
  <2>10. q # <<>>
    BY <2>2
  <2> HIDE DEF p, r
  <2>11. QuitAlone(w)'
    BY <2>5, <2>7, <2>8, <2>9, Single DEF QuitAlone
  <2>12. QuitAlone(v)'
    <3>1. QuitAlone(v)
      BY <2>1
    <3>2. CASE Quit \in Contents(q)
      BY <2>1, <2>7, <2>8, <2>9, <2>10, <3>1, <3>2, Single DEF QuitAlone
    <3>3. CASE Quit \notin Contents(q)
      <4>1. pc[v] \notin {"steal", "publish", "deactivate", "sendQuit", "done"}
            /\ ~(pc[v] = "check" /\ hand[v] = <<>>)
            /\ Quit \notin Contents(hand[v])
        BY <2>1, <2>10, <3>1, <3>3, Single DEF QuitAlone
      <4> QED BY <2>5, <2>7, <3>3, <4>1 DEF QuitAlone
    <3> QED BY <3>2, <3>3
  <2>13. \A x \in Workers \ {v, w} : QuitAlone(x)'
    BY <2>7 DEF QuitAlone
  <2> QED BY <2>11, <2>12, <2>13
<1>4. CASE Publish(w)
  <2> DEFINE h == hand[w]
             p == Surplus(h)
             m == h[Len(h)]
  <2>1. h \in Seq(Messages) /\ h # <<>> /\ deque[w] = <<>>
    BY <1>1, <1>4 DEF Publish, HandShape, QuitAlone
  <2>2. p \in Seq(Messages)
    BY <2>1, EmptySeq, SurplusType
  <2>3. deque'[w] = p /\ hand'[w] = <<m>> /\ pc'[w] \in {"activate", "check"}
    <3>1. deque'[w] = <<>> \o p
      BY <1>1, <1>4, <2>1 DEF Publish
    <3>2. <<>> \o p = p
      BY <2>2, ConcatEmptySeq
    <3> QED BY <1>1, <1>4, <3>1, <3>2 DEF Publish, AfterRecv
  <2>4. Contents(h) = Contents(p) \cup {m}
    BY <2>1, LastContents DEF Surplus
  <2>5. Quit \in Contents(h) => h = <<Quit>>
    BY DEF QuitAlone
  <2>6. h = <<Quit>> => p = <<>>
    BY DEF Surplus
  <2> HIDE DEF p, m, h
  <2>7. <<m>> # <<>>
    OBVIOUS
  <2>8. QuitAlone(w)'
    BY <2>3, <2>4, <2>5, <2>6, <2>7, Single DEF QuitAlone
  <2>9. \A x \in Workers \ {w} : QuitAlone(x)'
    BY <1>1, <1>4 DEF Publish, QuitAlone
  <2> QED BY <2>8, <2>9
<1>5. CASE SendQuit(w)
  <2>1. deque[w] = <<>> /\ hand[w] = <<>>
    BY <1>5 DEF SendQuit, QuitAlone, HandShape, Resting
  <2>2. deque'[w] = <<Quit>> /\ hand' = hand /\ pc'[w] = "done"
    BY <1>1, <1>5, <2>1 DEF SendQuit, WithQuit
  <2>3. QuitAlone(w)'
    BY <2>1, <2>2, Single DEF QuitAlone
  <2>4. \A x \in Workers \ {w} : QuitAlone(x)'
    BY <1>1, <1>5 DEF SendQuit, QuitAlone
  <2> QED BY <2>3, <2>4
<1>6. CASE TakeQuit(w)
  <2>1. hand[w] = <<Quit>>
    BY <1>6 DEF TakeQuit, IsQuitNow
  <2>2. deque[w] = <<>>
    BY <2>1, Single DEF QuitAlone
  <2>3. /\ \A x \in Workers : deque'[x] = deque[x]
        /\ hand'[w] = <<>> /\ pc'[w] = "sendQuit"
        /\ \A x \in Workers \ {w} : hand'[x] = hand[x] /\ pc'[x] = pc[x]
    BY <1>1, <1>6 DEF TakeQuit
  <2> QED BY <2>2, <2>3, Single DEF QuitAlone
<1>7. CASE UNCHANGED <<deque, hand>>
  <2>1. ASSUME NEW x \in Workers \ {w} PROVE QuitAlone(x)'
    BY <1>7, WorkFrame DEF QuitAlone
  <2>2. QuitAlone(w) /\ HandShape(w)
    OBVIOUS
  <2>3. CASE PopEmpty(w)
    BY <1>1, <1>7, <2>2, <2>3 DEF PopEmpty, QuitAlone
  <2>4. CASE StealFail(w)
    BY <1>7, <2>2, <2>4 DEF StealFail, QuitAlone
  <2>5. CASE RecvNone(w)
    BY <1>1, <1>7, <2>2, <2>5 DEF RecvNone, QuitAlone
  <2>6. CASE TakeWork(w)
    <3>1. pc'[w] \in {"parents", "device", "visit"}
      BY <1>1, <2>6 DEF TakeWork, FirstStage
    <3> QED BY <1>7, <2>2, <2>6, <3>1 DEF TakeWork, QuitAlone
  <2>7. CASE TakeNone(w)
    BY <1>1, <1>7, <2>2, <2>7 DEF TakeNone, QuitAlone
  <2>8. CASE Deactivate(w)
    BY <1>1, <1>7, <2>2, <2>8 DEF Deactivate, QuitAlone
  <2>9. CASE Activate(w)
    <3>1. Len(hand[w]) = 1 /\ Len(<<>>) = 0
      BY <2>2, <2>9 DEF Activate, HandShape
    <3>2. hand[w] # <<>>
      BY <3>1
    <3> QED BY <1>1, <1>7, <2>2, <2>9, <3>2 DEF Activate, QuitAlone
  <2>10. QuitAlone(w)'
    BY <1>2, <1>3, <1>4, <1>5, <1>6, <2>3, <2>4, <2>5, <2>6, <2>7, <2>8, <2>9
       DEF StackStep, GetWorkStep
  <2> QED BY <2>1, <2>10
<1> QED BY <1>2, <1>3, <1>4, <1>5, <1>6, <1>7 DEF StackStep, GetWorkStep,
     PopEmpty, StealFail, RecvNone, TakeWork, TakeNone, Deactivate, Activate,
     dequeVars

\* A worker's search for work, and its end, keep the ownership invariant.
LEMMA OwnWork ==
    ASSUME ShapeInv, OwnInv, NEW w \in Workers, StackStep(w) \/ GetWorkStep(w)
    PROVE  OwnInv'
<1>1. /\ UNCHANGED <<mainpc, quit_now, todo, status, visits, pruned, errs>>
      /\ \A x \in Workers \ {w} : pc'[x] = pc[x]
      /\ pc[w] \in WorkPCs
      /\ pc'[w] \in WorkPCs \cup {"parents", "device", "visit", "done"}
      /\ pc'[w] \in {"parents", "device", "visit"} =>
            pc'[w] = FirstStage(WorkOf(w)) /\ WorkOf(w)' = WorkOf(w)
  BY WorkFrame
<1>2. mainpc = "join" /\ Roots # <<>>
  BY <1>1, Running DEF OwnInv, WorkPCs
<1>3. PICK v \in Workers : Moves(v, w) /\ (~quit_now => Keeps(v, w))
  BY WorkMoves DEF OwnInv
<1>4. pc[w] \notin Late
  BY <1>1 DEF WorkPCs, Late
<1>5. OnePlace'
  BY <1>3, MovesOnePlace DEF OwnInv
<1>6. HeldSent'
  <2> SUFFICES ASSUME NEW x \in Workers, NEW e \in Held(x)' \cap Entries
               PROVE  status'[e] = "sent"
    BY DEF HeldSent
  <2>1. \E y \in Workers : e \in Held(y)
    BY <1>3, MovesHeld
  <2> QED BY <1>1, <2>1 DEF OwnInv, HeldSent
<1>7. FreshUntouched'
  <2> SUFFICES ASSUME NEW e \in Entries, Fresh(e)'
               PROVE  /\ visits'[e] = 0 /\ e \notin pruned'
                      /\ e \in Dirs => \A c \in Children[e] : status'[c] = "unsent"
    BY DEF FreshUntouched
  <2>1. Fresh(e)
    <3>1. ASSUME NEW x \in Workers, Waits(e, x)'
          PROVE  \E y \in Workers : Waits(e, y)
      BY <1>1, <1>3, <1>4, <3>1, MovesWaits
    <3> QED BY <1>1, <3>1 DEF Fresh
  <2> QED BY <1>1, <2>1 DEF OwnInv, FreshUntouched
<1>8. MainInv'
  BY <1>1, <1>2 DEF OwnInv, MainInv
<1>9. NothingLost'
  <2> SUFFICES ASSUME ~quit_now, NEW e \in Entries, status[e] = "sent"
               PROVE  \E x \in Workers : e \in Held(x)'
    BY <1>1 DEF NothingLost
  <2>1. PICK y \in Workers : e \in Held(y)
    BY DEF OwnInv, NothingLost
  <2> QED BY <1>3, <2>1, MovesHeld
<1>10. ~quit_now' => \A x \in Workers : QuitAlone(x)'
  BY <1>1, WorkQuitAlone DEF OwnInv
<1>11. \A x \in Workers : StageInv(x)'
  <2>1. ASSUME NEW x \in Workers \ {w} PROVE StageInv(x)'
    <3>1. StageInv(x) /\ hand'[x] = hand[x]
      BY <1>3 DEF OwnInv, Moves
    <3> QED BY <1>1, <3>1 DEF StageInv, ParentsTold, DeviceTold, Shown, Dealt, WorkOf
  <2>2. StageInv(w)'
    BY <1>1 DEF StageInv, ParentsTold, DeviceTold, FirstStage, WorkPCs
  <2> QED BY <2>1, <2>2
<1>12. FinishedSettled'
  BY <1>1 DEF OwnInv, FinishedSettled, Settled, ParentsTold, DeviceTold, ListTold,
     Shown, Dealt
<1>13. VisitedAtMostOnce' /\ \A e \in Entries : visits'[e] > 0 => status'[e] # "unsent"
  BY <1>1 DEF OwnInv, VisitedAtMostOnce
<1> QED BY <1>5, <1>6, <1>7, <1>8, <1>9, <1>10, <1>11, <1>12, <1>13 DEF OwnInv

-----------------------------------------------------------------------------
(* run_one and generate_work.                                              *)

\* What a worker knows of the entry it works on: it holds it alone.
LEMMA WorkAlone ==
    ASSUME ShapeInv, OwnInv, NEW w \in Workers, pc[w] \in RunStages
    PROVE  /\ WorkOf(w) \in Entries /\ WorkOf(w) # Quit
           /\ hand[w] = <<WorkOf(w)>> /\ Contents(hand[w]) = {WorkOf(w)}
           /\ status[WorkOf(w)] = "sent"
           /\ \A x \in Workers : WorkOf(w) \notin Contents(deque[x])
           /\ \A x \in Workers \ {w} : WorkOf(w) \notin Contents(hand[x])
           /\ \A x \in Workers \ {w} : pc[x] \in RunStages => WorkOf(x) # WorkOf(w)
<1>1. /\ Len(hand[w]) = 1 /\ hand[w][1] \in Entries /\ hand[w] \in Seq(Messages)
  BY DEF ShapeInv, TypeOK, HandShape
<1>2. hand[w] = <<WorkOf(w)>> /\ WorkOf(w) \in Entries /\ WorkOf(w) # Quit
  BY <1>1, TreeAssumption DEF WorkOf
<1>3. Contents(hand[w]) = {WorkOf(w)}
  BY <1>2, Single
<1>4. status[WorkOf(w)] = "sent"
  BY <1>2, <1>3 DEF OwnInv, HeldSent, Held, Contents
<1>5. /\ \A x \in Workers : WorkOf(w) \notin Contents(deque[x])
      /\ \A x \in Workers \ {w} : WorkOf(w) \notin Contents(hand[x])
  BY <1>2, <1>3 DEF OwnInv, OnePlace, Apart
<1>6. ASSUME NEW x \in Workers \ {w}, pc[x] \in RunStages
      PROVE  WorkOf(x) # WorkOf(w)
  <2>1. Len(hand[x]) = 1
    BY <1>6 DEF ShapeInv, HandShape
  <2>2. WorkOf(x) \in Contents(hand[x])
    BY <2>1 DEF Contents, WorkOf
  <2> QED BY <1>5, <2>2
<1> QED BY <1>2, <1>3, <1>4, <1>5, <1>6

\* What a step of run_one leaves alone, and which way the rest can go.
RunFrame(w) ==
    /\ mainpc' = mainpc
    /\ \A x \in Workers \ {w} : /\ pc'[x] = pc[x] /\ hand'[x] = hand[x]
                                /\ todo'[x] = todo[x] /\ deque'[x] = deque[x]
    /\ pc'[w] \in RunStages \cup {"pop"}
    /\ pc[w] \in Late \cup {"visit"} => pc'[w] \in Late \cup {"pop"}
    /\ hand'[w] = IF pc'[w] = "pop" THEN <<>> ELSE hand[w]
    /\ errs \subseteq errs' /\ pruned \subseteq pruned'
    /\ pruned' \subseteq pruned \cup {WorkOf(w)}
    /\ \A e \in Entries : visits'[e] \in Nat /\ visits'[e] >= visits[e]
    /\ \A e \in Entries \ {WorkOf(w)} : visits'[e] = visits[e]
    /\ pc[w] # "visit" => UNCHANGED <<visits, pruned>>

\* The steps that send nothing: at most the work itself is finished.
SendsNothing(w) ==
    /\ \A x \in Workers : deque'[x] = deque[x]
    /\ \A e \in Entries \ {WorkOf(w)} : status'[e] = status[e]
    /\ pc'[w] = "pop" /\ ~quit_now' => status'[WorkOf(w)] = "finished"
    /\ status'[WorkOf(w)] \in {"sent", "finished"}
    /\ status'[WorkOf(w)] = "finished" => pc'[w] = "pop"

\* The step that sends c.
Sends(w, c) ==
    /\ c \in todo[w] \ (BadEntries \cup Ignored)
    /\ pc[w] = "gen" /\ pc' = pc /\ hand' = hand
    /\ deque'[w] = Append(deque[w], c)
    /\ status' = [status EXCEPT ![c] = "sent"]
    /\ todo'[w] = todo[w] \ {c}
    /\ UNCHANGED <<visits, pruned, errs, quit_now>>

\* After run_one a worker goes back for work or, if the visitor said Quit, to
\* quit_now (Worker::run).
LEMMA ProceedFrame ==
    ASSUME ShapeInv, OwnInv, NEW w \in Workers, pc[w] \in RunStages,
           NEW p \in {"setQuit", "list", "gen", "pop"}, Proceed(w, p)
    PROVE  /\ \A x \in Workers \ {w} : pc'[x] = pc[x] /\ hand'[x] = hand[x]
           /\ pc'[w] = p
           /\ hand'[w] = IF p = "pop" THEN <<>> ELSE hand[w]
           /\ status'[WorkOf(w)] = IF p = "pop" THEN "finished" ELSE "sent"
           /\ \A e \in Entries \ {WorkOf(w)} : status'[e] = status[e]
BY WorkAlone DEF ShapeInv, TypeOK, Proceed

\* What a step of run_one leaves alone: the other workers, the main thread, the
\* counter, and every message but the one it sends (Worker::run_one).
LEMMA RunFrames ==
    ASSUME ShapeInv, OwnInv, NEW w \in Workers, RunStep(w)
    PROVE  /\ pc[w] \in RunStages /\ RunFrame(w)
           /\ SendsNothing(w) \/ \E c \in Entries : Sends(w, c)
<1>1. pc[w] \in RunStages
  BY DEF RunStep, AddParentsError, DeviceError, VisitEntry, ListError,
     GenerateSend, GenerateSkip, GenerateError, GenerateDone, SetQuitNow, RunStages
<1>2. WorkOf(w) \in Entries /\ status[WorkOf(w)] = "sent"
  BY <1>1, WorkAlone
<1>3. /\ pc \in [Workers -> PCs] /\ hand \in [Workers -> Seq(Messages)]
      /\ todo \in [Workers -> SUBSET Entries] /\ deque \in [Workers -> Seq(Messages)]
      /\ status \in [Entries -> {"unsent", "sent", "finished"}]
      /\ visits \in [Entries -> Nat]
  BY DEF ShapeInv, TypeOK
<1> USE DEF mainVars, dequeVars, endVars, treeVars, RunFrame, SendsNothing, Late
<1>4. CASE AddParentsError(w)
  BY <1>1, <1>2, <1>3, <1>4 DEF AddParentsError, ReportError, RunStages
<1>5. CASE DeviceError(w)
  BY <1>1, <1>2, <1>3, <1>5 DEF DeviceError, ReportError, RunStages
<1>6. CASE VisitEntry(w)
  <2> DEFINE e == WorkOf(w)
  <2>1. PICK r \in {"Continue", "Skip", "Quit"} :
          /\ Proceed(w, AfterVisit(e, r))
          /\ visits' = IF ShouldVisit(e) THEN [visits EXCEPT ![e] = @ + 1]
                                         ELSE visits
          /\ pruned' = IF r = "Skip" THEN pruned \cup {e} ELSE pruned
          /\ todo' = [todo EXCEPT ![w] = IF AfterVisit(e, r) = "gen"
                                         THEN Children[e] ELSE @]
    BY <1>6, FaultsAssumption DEF VisitEntry
  <2>2. AfterVisit(e, r) \in {"setQuit", "list", "gen", "pop"}
    BY DEF AfterVisit
  <2>3. /\ \A x \in Workers \ {w} : pc'[x] = pc[x] /\ hand'[x] = hand[x]
        /\ pc'[w] = AfterVisit(e, r)
        /\ hand'[w] = IF pc'[w] = "pop" THEN <<>> ELSE hand[w]
        /\ status'[e] = IF pc'[w] = "pop" THEN "finished" ELSE "sent"
        /\ \A f \in Entries \ {e} : status'[f] = status[f]
    BY <1>1, <2>1, <2>2, ProceedFrame
  <2>4. /\ \A f \in Entries : visits'[f] \in Nat /\ visits'[f] >= visits[f]
        /\ \A f \in Entries \ {e} : visits'[f] = visits[f]
    BY <1>2, <1>3, <2>1
  <2>5. /\ mainpc' = mainpc /\ deque' = deque /\ errs' = errs
        /\ pruned \subseteq pruned' /\ pruned' \subseteq pruned \cup {e}
        /\ \A x \in Workers \ {w} : todo'[x] = todo[x]
        /\ pc[w] = "visit"
    BY <1>3, <1>6, <2>1 DEF VisitEntry
  <2> HIDE DEF e
  <2> QED BY <1>1, <2>2, <2>3, <2>4, <2>5 DEF RunStages, e
<1>7. CASE ListError(w)
  <2>1. PICK p \in {"setQuit", "pop"} : Proceed(w, p)
    BY <1>7 DEF ListError
  <2> QED BY <1>1, <1>3, <1>7, <2>1, ProceedFrame DEF ListError, ReportError, RunStages
<1>8. CASE GenerateDone(w)
  BY <1>1, <1>3, <1>8, ProceedFrame DEF GenerateDone, RunStages
<1>9. CASE GenerateSend(w)
  <2>1. PICK c \in todo[w] \ (BadEntries \cup Ignored) :
          /\ todo' = [todo EXCEPT ![w] = @ \ {c}]
          /\ deque' = [deque EXCEPT ![w] = Append(@, c)]
          /\ status' = [status EXCEPT ![c] = "sent"]
    BY <1>9 DEF GenerateSend
  <2>2. c \in Entries
    BY <1>3
  <2>3. Sends(w, c)
    BY <1>3, <1>9, <2>1 DEF GenerateSend, Sends
  <2>4. RunFrame(w)
    BY <1>1, <1>3, <1>9, <2>1 DEF GenerateSend, RunStages
  <2> QED BY <1>1, <2>2, <2>3, <2>4
<1>10. CASE GenerateSkip(w)
  BY <1>1, <1>2, <1>3, <1>10 DEF GenerateSkip, RunStages
<1>11. CASE GenerateError(w)
  BY <1>1, <1>2, <1>3, <1>11 DEF GenerateError, ReportError, RunStages
<1>12. CASE SetQuitNow(w)
  BY <1>1, <1>2, <1>3, <1>12 DEF SetQuitNow, RunStages
<1> QED BY <1>4, <1>5, <1>6, <1>7, <1>8, <1>9, <1>10, <1>11, <1>12 DEF RunStep

\* The placement of messages after a step that sends nothing.
LEMMA RunPlaces ==
    ASSUME ShapeInv, OwnInv, NEW w \in Workers, pc[w] \in RunStages,
           RunFrame(w), SendsNothing(w)
    PROVE  /\ OnePlace' /\ HeldSent' /\ FreshUntouched'
           /\ ~quit_now' /\ ~quit_now => NothingLost'
<1> DEFINE e == WorkOf(w)
<1>1. /\ e \in Entries /\ e # Quit
      /\ hand[w] = <<e>> /\ Contents(hand[w]) = {e} /\ status[e] = "sent"
      /\ \A x \in Workers : e \notin Contents(deque[x])
      /\ \A x \in Workers \ {w} : e \notin Contents(hand[x])
  BY WorkAlone
<1>2. \A x \in Workers :
        /\ Held(x) = Contents(deque[x]) \cup Contents(hand[x])
        /\ Held(x)' = Contents(deque'[x]) \cup Contents(hand'[x])
  BY DEF Held, Contents
<1>3. Moves(w, w)
  BY <1>1, Single DEF OwnInv, OnePlace, RunFrame, SendsNothing, Moves, Apart
<1>4. /\ \A x \in Workers \ {w} : Held(x)' = Held(x)
      /\ Held(w)' = Contents(deque[w]) \cup (IF pc'[w] = "pop" THEN {} ELSE {e})
  <2>1. Contents(hand'[w]) = IF pc'[w] = "pop" THEN {} ELSE {e}
    BY <1>1, Single DEF RunFrame
  <2> QED BY <1>2, <2>1 DEF RunFrame, SendsNothing
<1>5. \A x \in Workers \ {w} : e \notin Held(x)'
  BY <1>1, <1>2, <1>4
<1> HIDE DEF e
<1>6. HeldSent'
  <2> SUFFICES ASSUME NEW x \in Workers, NEW f \in Held(x)' \cap Entries
               PROVE  status'[f] = "sent"
    BY DEF HeldSent
  <2>1. CASE f = e
    <3>1. pc'[w] # "pop"
      BY <1>1, <1>4, <1>5, <2>1
    <3> QED BY <2>1, <3>1 DEF SendsNothing, e
  <2>2. CASE f # e
    <3>1. f \in Held(x)
      BY <1>2, <1>4, <2>2
    <3>2. status[f] = "sent"
      BY <3>1 DEF OwnInv, HeldSent
    <3> QED BY <2>2, <3>2 DEF SendsNothing, e
  <2> QED BY <2>1, <2>2
<1>7. ASSUME NEW f \in Entries, NEW x \in Workers, Waits(f, x)'
      PROVE  Waits(f, x) /\ ~(f = e /\ pc'[w] \in Late \cup {"pop"})
  <2>1. CASE x = w
    <3>1. \/ f \in Contents(deque[w])
          \/ pc'[w] \notin Late /\ f \in Contents(hand'[w])
      BY <1>7, <2>1 DEF Waits, SendsNothing
    <3>2. CASE f \in Contents(deque[w])
      BY <1>1, <2>1, <3>2 DEF Waits
    <3>3. CASE pc'[w] \notin Late /\ f \in Contents(hand'[w])
      <4>1. pc'[w] # "pop"
        BY <3>3, Single DEF RunFrame
      <4>2. pc[w] \notin Late /\ f \in Contents(hand[w])
        BY <3>3, <4>1 DEF RunFrame
      <4> QED BY <2>1, <3>3, <4>1, <4>2 DEF Waits
    <3> QED BY <3>1, <3>2, <3>3
  <2>2. CASE x # w
    BY <1>1, <1>7, <2>2 DEF Waits, RunFrame, SendsNothing
  <2> QED BY <2>1, <2>2
<1>8. ASSUME NEW f \in Entries, Fresh(f)'
      PROVE  Fresh(f) /\ ~(f = e /\ pc'[w] \in Late \cup {"pop"})
  BY <1>1, <1>7, <1>8 DEF Fresh, SendsNothing, e
<1>9. FreshUntouched'
  <2> SUFFICES ASSUME NEW f \in Entries, Fresh(f)'
               PROVE  /\ visits'[f] = 0 /\ f \notin pruned'
                      /\ f \in Dirs => \A c \in Children[f] : status'[c] = "unsent"
    BY DEF FreshUntouched
  <2>1. Fresh(f) /\ ~(f = e /\ pc'[w] \in Late \cup {"pop"})
    BY <1>8
  <2>2. /\ visits[f] = 0 /\ f \notin pruned
        /\ f \in Dirs => \A c \in Children[f] : status[c] = "unsent"
    BY <2>1 DEF OwnInv, FreshUntouched
  <2>3. visits'[f] = 0 /\ f \notin pruned'
    BY <2>1, <2>2 DEF RunFrame, e
  <2>4. ASSUME f \in Dirs, NEW c \in Children[f] PROVE status'[c] = "unsent"
    <3>1. c \in Entries /\ c # e
      BY <1>1, <2>2, <2>4, TreeAssumption
    <3> QED BY <2>2, <2>4, <3>1 DEF SendsNothing, e
  <2> QED BY <2>3, <2>4
<1>10. ASSUME ~quit_now', ~quit_now PROVE NothingLost'
  <2> SUFFICES ASSUME NEW f \in Entries, status'[f] = "sent"
               PROVE  \E x \in Workers : f \in Held(x)'
    BY DEF NothingLost
  <2>1. status[f] = "sent"
    BY <1>1 DEF SendsNothing, e
  <2>2. PICK y \in Workers : f \in Held(y)
    BY <1>10, <2>1 DEF OwnInv, NothingLost
  <2>3. CASE f = e
    <3>1. pc'[w] # "pop"
      BY <1>10, <2>3 DEF SendsNothing, e
    <3> QED BY <1>4, <2>3, <3>1
  <2>4. CASE f # e
    <3>1. f \in Held(y)'
      BY <1>1, <1>2, <1>4, <2>2, <2>4
    <3> QED BY <3>1
  <2> QED BY <2>3, <2>4
<1> QED BY <1>3, <1>6, <1>9, <1>10, MovesOnePlace DEF OwnInv

\* The placement of messages after an entry has been pushed.
LEMMA SendPlaces ==
    ASSUME ShapeInv, OwnInv, NEW w \in Workers, NEW c \in Entries,
           RunFrame(w), Sends(w, c)
    PROVE  /\ OnePlace' /\ HeldSent' /\ FreshUntouched'
           /\ ~quit_now => NothingLost'
<1> DEFINE e == WorkOf(w)
<1>1. /\ e \in Entries /\ status[e] = "sent"
      /\ \A x \in Workers : e \notin Contents(deque[x])
      /\ \A x \in Workers \ {w} : e \notin Contents(hand[x])
  BY WorkAlone DEF Sends, RunStages
<1>2. \A x \in Workers :
        /\ Held(x) = Contents(deque[x]) \cup Contents(hand[x])
        /\ Held(x)' = Contents(deque'[x]) \cup Contents(hand'[x])
  BY DEF Held, Contents
<1>3. status[c] = "unsent" /\ e \in Dirs /\ c \in Children[e] /\ c # Quit
  BY TreeAssumption DEF OwnInv, StageInv, Sends, Listed
<1>4. \A x \in Workers : c \notin Contents(deque[x]) /\ c \notin Contents(hand[x])
  BY <1>2, <1>3 DEF OwnInv, HeldSent
<1>5. /\ Contents(deque'[w]) = Contents(deque[w]) \cup {c} /\ Distinct(deque'[w])
      /\ \A x \in Workers \ {w} : deque'[x] = deque[x]
      /\ hand' = hand /\ pc' = pc
  <2>1. deque[w] \in Seq(Messages) /\ c \in Messages /\ Distinct(deque[w])
    BY DEF ShapeInv, TypeOK, OwnInv, OnePlace, Messages
  <2>2. deque'[w] = Append(deque[w], c) /\ pc' = pc /\ hand' = hand
    BY DEF Sends
  <2>3. \A x \in Workers \ {w} : deque'[x] = deque[x]
    BY DEF RunFrame
  <2>4. /\ Contents(Append(deque[w], c)) = Contents(deque[w]) \cup {c}
        /\ Distinct(Append(deque[w], c))
    BY <1>4, <2>1, AppendContents
  <2> QED BY <2>2, <2>3, <2>4
<1>6. \A f \in Entries : status'[f] = IF f = c THEN "sent" ELSE status[f]
  BY DEF Sends, ShapeInv, TypeOK
<1> HIDE DEF e
<1>7. OnePlace'
  <2>1. \A x \in Workers : Distinct(deque'[x]) /\ Distinct(hand'[x])
    BY <1>5 DEF OwnInv, OnePlace
  <2>2. \A x, y \in Workers : Apart(deque'[x], hand'[y])
    BY <1>4, <1>5 DEF OwnInv, OnePlace, Apart
  <2>3. \A x, y \in Workers : x # y => Apart(deque'[x], deque'[y])
    BY <1>4, <1>5 DEF OwnInv, OnePlace, Apart
  <2>4. \A x, y \in Workers : x # y => Apart(hand'[x], hand'[y])
    BY <1>5 DEF OwnInv, OnePlace
  <2> QED BY <2>1, <2>2, <2>3, <2>4 DEF OnePlace
<1>8. \A x \in Workers : Held(x)' = Held(x) \cup (IF x = w THEN {c} ELSE {})
  BY <1>2, <1>5
<1>9. HeldSent'
  BY <1>6, <1>8 DEF OwnInv, HeldSent
<1>10. FreshUntouched'
  <2> SUFFICES ASSUME NEW f \in Entries, Fresh(f)'
               PROVE  /\ visits'[f] = 0 /\ f \notin pruned'
                      /\ f \in Dirs => \A d \in Children[f] : status'[d] = "unsent"
    BY DEF FreshUntouched
  <2>1. Fresh(f)
    <3>1. CASE f = c
      BY <1>3, <3>1 DEF Fresh
    <3>2. CASE f # c
      BY <1>5, <1>6, <3>2 DEF Fresh, Waits
    <3> QED BY <3>1, <3>2
  <2>2. /\ visits[f] = 0 /\ f \notin pruned
        /\ f \in Dirs => \A d \in Children[f] : status[d] = "unsent"
    BY <2>1 DEF OwnInv, FreshUntouched
  <2>3. f # e
    <3>1. ~Fresh(e)
      BY <1>1 DEF Fresh, Waits, Sends, Late
    <3> QED BY <2>1, <3>1
  <2>4. ASSUME f \in Dirs, NEW d \in Children[f] PROVE status'[d] = "unsent"
    <3>1. d \in Entries /\ d # c
      BY <1>3, <2>3, <2>4, TreeAssumption
    <3> QED BY <1>6, <2>2, <2>4, <3>1
  <2> QED BY <2>2, <2>4 DEF Sends
<1>11. ASSUME ~quit_now PROVE NothingLost'
  BY <1>6, <1>8, <1>11 DEF OwnInv, NothingLost
<1> QED BY <1>7, <1>9, <1>10, <1>11

\* What is settled stays settled, and what other workers are at stays true.
LEMMA RunElsewhere ==
    ASSUME ShapeInv, OwnInv, NEW w \in Workers, pc[w] \in RunStages, RunFrame(w),
           SendsNothing(w) \/ \E c \in Entries : Sends(w, c)
    PROVE  /\ \A x \in Workers \ {w} : StageInv(x)'
           /\ \A f \in Entries : Settled(f) => Settled(f)'
           /\ \A f \in Entries : status[f] # "unsent" => status'[f] # "unsent"
           /\ \A f \in Entries : Dealt(f) => Dealt(f)'
           /\ \A x \in Workers \ {w}, c \in Entries :
                 pc[x] = "gen" /\ c \in todo[x] => status'[c] = "unsent"
<1> DEFINE e == WorkOf(w)
<1>1. /\ e \in Entries /\ status[e] = "sent"
      /\ \A x \in Workers \ {w} : pc[x] \in RunStages => WorkOf(x) # e
  BY WorkAlone
<1>2. \A f \in Entries : status[f] # "unsent" => status'[f] # "unsent"
  BY <1>1 DEF SendsNothing, Sends, ShapeInv, TypeOK
<1>3. \A f \in Entries : Dealt(f) => Dealt(f)'
  BY <1>2 DEF Dealt, RunFrame
<1>4. \A f \in Entries : Shown(f) => Shown(f)'
  <2> SUFFICES ASSUME NEW f \in Entries, visits[f] > 0 PROVE visits'[f] > 0
    BY DEF Shown
  <2>1. visits[f] \in Nat /\ visits'[f] \in Nat /\ visits'[f] >= visits[f]
    BY DEF RunFrame, ShapeInv, TypeOK
  <2> QED BY <2>1
<1>5. ASSUME NEW f \in Entries, Settled(f) PROVE Settled(f)'
  <2>1. f \in Listed => Children[f] \subseteq Entries
    BY TreeAssumption DEF Listed
  <2> QED BY <1>3, <1>4, <1>5, <2>1 DEF Settled, ParentsTold, DeviceTold, ListTold,
            RunFrame
<1>6. ASSUME NEW x \in Workers \ {w}, NEW c \in Entries, pc[x] = "gen", c \in todo[x]
      PROVE  status'[c] = "unsent"
  <2>1. status[c] = "unsent" /\ c \in Children[WorkOf(x)] /\ WorkOf(x) \in Dirs
    BY <1>6 DEF OwnInv, StageInv, Listed
  <2>2. CASE SendsNothing(w)
    BY <1>1, <2>1, <2>2 DEF SendsNothing
  <2>3. ASSUME NEW d \in Entries, Sends(w, d) PROVE status'[c] = "unsent"
    <3>1. e \in Dirs /\ d \in Children[e]
      BY <2>3 DEF OwnInv, StageInv, Listed, Sends
    <3>2. WorkOf(x) # e
      BY <1>1, <1>6 DEF RunStages
    <3>3. c # d
      BY <2>1, <3>1, <3>2, TreeAssumption
    <3> QED BY <2>1, <2>3, <3>3 DEF Sends, ShapeInv, TypeOK
  <2> QED BY <2>2, <2>3
<1>7. ASSUME NEW x \in Workers \ {w} PROVE StageInv(x)'
  <2>1. /\ StageInv(x) /\ WorkOf(x)' = WorkOf(x)
        /\ pc'[x] = pc[x] /\ todo'[x] = todo[x]
    BY DEF OwnInv, RunFrame, WorkOf
  <2>2. pc[x] \in RunStages => WorkOf(x) \in Entries /\ WorkOf(x) # e
    BY <1>1, WorkAlone
  <2>3. pc[x] = "gen" => Children[WorkOf(x)] \subseteq Entries
    BY <2>1, TreeAssumption DEF StageInv, Listed
  <2>4. todo[x] \subseteq Entries
    BY DEF ShapeInv, TypeOK
  <2> DEFINE g == WorkOf(x)
  <2>5. /\ ParentsTold(g) /\ g \in ParentErr => <<"parents", g>> \in errs'
        /\ DeviceTold(g) /\ g \in DeviceErr => <<"device", g>> \in errs'
    BY DEF ParentsTold, DeviceTold, RunFrame
  <2>6. pc[x] \in {"list", "gen"} =>
          (visits'[g] > 0 \/ Depth[g] < MinDepth) /\ g \notin pruned'
    BY <1>4, <2>1, <2>2 DEF StageInv, Shown, RunFrame, RunStages
  <2>7. pc[x] = "gen" =>
          /\ \A c \in todo[x] : status'[c] = "unsent"
          /\ \A c \in Children[g] \ todo[x] : Dealt(c)'
    BY <1>3, <1>6, <2>1, <2>3, <2>4 DEF StageInv
  <2> QED BY <2>1, <2>5, <2>6, <2>7 DEF StageInv, ParentsTold, DeviceTold, Shown
<1> QED BY <1>2, <1>3, <1>5, <1>6, <1>7

\* The stage a worker comes to in run_one, and the books it closes.
LEMMA RunStage ==
    ASSUME ShapeInv, OwnInv, NEW w \in Workers, RunStep(w),
           NEW e \in Entries, e = WorkOf(w)
    PROVE  /\ StageInv(w)'
           /\ status'[e] = "finished" => Settled(e)'
<1>1. /\ pc[w] \in RunStages /\ RunFrame(w)
      /\ e \in Entries /\ status[e] = "sent" /\ e = WorkOf(w)
  BY RunFrames, WorkAlone
<1>2. /\ pc \in [Workers -> PCs] /\ todo \in [Workers -> SUBSET Entries]
      /\ status \in [Entries -> {"unsent", "sent", "finished"}]
      /\ visits \in [Entries -> Nat] /\ hand \in [Workers -> Seq(Messages)]
  BY DEF ShapeInv, TypeOK
<1>3. StageInv(w)
  BY DEF OwnInv
<1>4. pc'[w] # "pop" => WorkOf(w)' = e
  BY <1>1 DEF RunFrame, WorkOf
<1>5. /\ \A f \in Entries : Dealt(f) => Dealt(f)'
      /\ \A f \in Entries : status[f] # "unsent" => status'[f] # "unsent"
  BY <1>1, RunFrames, RunElsewhere
<1>6. e \in Dirs => Children[e] \subseteq Entries
  BY TreeAssumption
<1>7. CASE AddParentsError(w)
  <2>1. pc'[w] \in {"setQuit", "visit"} \cup (IF e \in DeviceErr THEN {"device"} ELSE {})
        /\ (e \in DeviceErr => pc'[w] # "visit")
    BY <1>2, <1>7 DEF AddParentsError
  <2>2. status'[e] = "sent" /\ <<"parents", e>> \in errs'
    BY <1>1, <1>7 DEF AddParentsError, ReportError
  <2> QED BY <1>4, <2>1, <2>2 DEF StageInv, ParentsTold, DeviceTold
<1>8. CASE DeviceError(w)
  <2>1. pc'[w] \in {"setQuit", "visit"}
    BY <1>2, <1>8 DEF DeviceError
  <2>2. status'[e] = "sent" /\ <<"device", e>> \in errs' /\ ParentsTold(e)
    BY <1>1, <1>3, <1>8 DEF DeviceError, ReportError, StageInv
  <2> QED BY <1>1, <1>4, <2>1, <2>2 DEF StageInv, ParentsTold, DeviceTold, RunFrame
<1>9. CASE VisitEntry(w)
  <2>1. PICK r \in IF ShouldVisit(e) THEN VisitorResults ELSE {"Continue"} :
          /\ Proceed(w, AfterVisit(e, r))
          /\ visits' = IF ShouldVisit(e) THEN [visits EXCEPT ![e] = @ + 1]
                                         ELSE visits
          /\ pruned' = IF r = "Skip" THEN pruned \cup {e} ELSE pruned
          /\ todo' = [todo EXCEPT ![w] = IF AfterVisit(e, r) = "gen"
                                         THEN Children[e] ELSE @]
    BY <1>9 DEF VisitEntry
  <2>2. r \in {"Continue", "Skip", "Quit"}
    BY <2>1, FaultsAssumption
  <2>3. pc'[w] = AfterVisit(e, r) /\ AfterVisit(e, r) \in {"setQuit", "list", "gen", "pop"}
    BY <1>2, <2>1, <2>2 DEF Proceed, AfterVisit
  <2>4. ParentsTold(e) /\ DeviceTold(e) /\ pc[w] = "visit" /\ errs' = errs
    BY <1>3, <1>9 DEF VisitEntry, StageInv
  <2>5. visits'[e] > 0 \/ Depth[e] < MinDepth
    <3>1. visits[e] \in Nat /\ Depth[e] \in Nat /\ MinDepth \in Nat
      BY <1>1, <1>2, DepthAssumption
    <3> QED BY <1>1, <1>2, <2>1, <3>1 DEF ShouldVisit
  <2>6. Fresh(e)
    BY <1>1, <2>4, WorkAlone DEF Fresh, Waits, Late
  <2>7. e \notin pruned /\ (e \in Dirs => \A c \in Children[e] : status[c] = "unsent")
    BY <1>1, <2>6 DEF OwnInv, FreshUntouched
  <2>8. CASE pc'[w] = "setQuit"
    BY <1>1, <2>1, <2>3, <2>8 DEF StageInv, Proceed
  <2>9. CASE pc'[w] = "list"
    <3>1. e \in Unreadable /\ r = "Continue"
      BY <2>2, <2>3, <2>9 DEF AfterVisit
    <3>2. status'[e] = "sent"
      BY <1>1, <2>1, <2>3, <2>9 DEF Proceed
    <3> QED BY <1>4, <2>1, <2>4, <2>5, <2>7, <2>9, <3>1, <3>2 DEF StageInv,
          ParentsTold, DeviceTold, Shown
  <2>10. CASE pc'[w] = "gen"
    <3>1. e \in Dirs \ (Unreadable \cup OffDevice \cup DeviceErr) /\ r = "Continue"
          /\ ~(Depth[e] >= MaxDepth)
      BY <2>2, <2>3, <2>10 DEF AfterVisit, Descends
    <3>2. e \in Listed
      <4>1. Depth[e] \in Nat /\ MaxDepth \in Nat
        BY <1>1, DepthAssumption
      <4> QED BY <3>1, <4>1 DEF Listed
    <3>3. todo'[w] = Children[e] /\ status' = status
      BY <1>2, <2>1, <2>3, <2>10 DEF Proceed
    <3> QED BY <1>1, <1>4, <2>1, <2>4, <2>5, <2>7, <2>10, <3>1, <3>2, <3>3
         DEF StageInv, ParentsTold, DeviceTold, Shown
  <2>11. CASE pc'[w] = "pop"
    <3>1. \/ r = "Skip" /\ e \in pruned'
          \/ r = "Continue" /\ e \notin Listed /\ (e \in Unreadable => ~Descends(e))
      <4>1. Depth[e] \in Nat /\ MaxDepth \in Nat
        BY <1>1, DepthAssumption
      <4> QED BY <2>1, <2>2, <2>3, <2>11, <4>1 DEF AfterVisit, Descends, Listed
    <3>2. e \in pruned' \cup OffDevice \cup DeviceErr \/ e \notin Unreadable
      BY <3>1, FaultsAssumption DEF Descends
    <3>3. Settled(e)'
      BY <2>4, <2>5, <3>1, <3>2 DEF Settled, ParentsTold, DeviceTold, ListTold,
         Shown
    <3> QED BY <2>11, <3>3 DEF StageInv
  <2> QED BY <2>3, <2>8, <2>9, <2>10, <2>11
<1>10. CASE ListError(w)
  <2>1. PICK r \in VisitorResults : Proceed(w, IF r = "Quit" THEN "setQuit" ELSE "pop")
    BY <1>10 DEF ListError
  <2>2. /\ <<"list", e>> \in errs' /\ errs \subseteq errs'
        /\ UNCHANGED <<visits, pruned>>
    BY <1>1, <1>10 DEF ListError, ReportError
  <2>3. CASE pc'[w] = "setQuit"
    BY <1>1, <1>2, <2>1, <2>3 DEF StageInv, Proceed
  <2>4. CASE pc'[w] = "pop"
    <3>1. ParentsTold(e) /\ DeviceTold(e) /\ Shown(e) /\ e \in Unreadable
      BY <1>1, <1>3, <1>10 DEF ListError, StageInv
    <3>2. Settled(e)'
      BY <2>2, <3>1 DEF Settled, ParentsTold, DeviceTold, ListTold, Shown, Listed
    <3> QED BY <2>4, <3>2 DEF StageInv
  <2>5. pc'[w] \in {"setQuit", "pop"}
    BY <1>2, <2>1 DEF Proceed
  <2> QED BY <2>3, <2>4, <2>5
<1>11. CASE GenerateDone(w)
  <2>1. /\ pc'[w] = "pop" /\ todo[w] = {}
        /\ UNCHANGED <<visits, pruned, errs>>
    BY <1>2, <1>11 DEF GenerateDone, Proceed
  <2>2. /\ ParentsTold(e) /\ DeviceTold(e) /\ Shown(e) /\ e \in Listed
        /\ \A c \in Children[e] : Dealt(c)
    BY <1>1, <1>3, <1>11, <2>1 DEF GenerateDone, StageInv
  <2>3. \A c \in Children[e] : Dealt(c)'
    BY <1>5, <1>6, <2>2 DEF Listed
  <2>4. Settled(e)'
    BY <2>1, <2>2, <2>3 DEF Settled, ParentsTold, DeviceTold, ListTold, Shown, Listed
  <2> QED BY <2>1, <2>4 DEF StageInv
<1>12. CASE pc[w] = "gen" /\ pc'[w] = "gen"
  <2>1. /\ ParentsTold(e) /\ DeviceTold(e) /\ Shown(e) /\ e \notin pruned
        /\ e \in Listed /\ todo[w] \subseteq Children[e]
        /\ \A c \in todo[w] : status[c] = "unsent"
        /\ \A c \in Children[e] \ todo[w] : Dealt(c)
    BY <1>1, <1>3, <1>12 DEF StageInv
  <2>2. UNCHANGED <<visits, pruned>> /\ errs \subseteq errs'
    BY <1>1, <1>12 DEF RunFrame
  <2>3. PICK c \in todo[w] : /\ todo'[w] = todo[w] \ {c} /\ Dealt(c)'
                            /\ \A d \in Entries \ {c} : status'[d] = status[d]
    <3>1. CASE GenerateSend(w)
      BY <1>2, <3>1 DEF GenerateSend, Dealt
    <3>2. CASE GenerateSkip(w)
      BY <1>2, <3>2 DEF GenerateSkip, Dealt
    <3>3. CASE GenerateError(w)
      <4>1. PICK c \in todo[w] \cap BadEntries, r \in VisitorResults :
              /\ ReportError("entry", c)
              /\ todo' = [todo EXCEPT ![w] = IF r = "Quit" THEN {} ELSE @ \ {c}]
              /\ pc' = [pc EXCEPT ![w] = IF r = "Quit" THEN "setQuit" ELSE "gen"]
        BY <3>3 DEF GenerateError
      <4>2. r # "Quit" /\ status' = status
        BY <1>2, <1>12, <3>3, <4>1 DEF GenerateError
      <4> QED BY <1>2, <4>1, <4>2 DEF Dealt, ReportError
    <3> QED BY <1>12, <3>1, <3>2, <3>3, <1>2 DEF RunStep, AddParentsError,
         DeviceError, VisitEntry, ListError, GenerateDone, SetQuitNow, Proceed
  <2>4. status'[e] = "sent"
    <3>1. e # c
      BY <1>1, <2>1, <2>3
    <3> QED BY <1>1, <2>3, <3>1
  <2>5. \A d \in Children[e] \ todo'[w] : Dealt(d)'
    BY <1>5, <1>6, <2>1, <2>3 DEF Listed
  <2>6. \A d \in todo'[w] : status'[d] = "unsent"
    BY <1>2, <2>1, <2>3
  <2> QED BY <1>1, <1>4, <1>12, <2>1, <2>2, <2>3, <2>4, <2>5, <2>6
       DEF StageInv, ParentsTold, DeviceTold, Shown
<1>13. CASE pc[w] = "gen" /\ pc'[w] = "setQuit"
  <2>1. SendsNothing(w) /\ status'[e] # "finished"
    <3>1. SendsNothing(w)
      BY <1>13, RunFrames DEF Sends
    <3> QED BY <1>1, <1>13, <3>1 DEF SendsNothing
  <2> QED BY <1>13, <2>1 DEF StageInv
<1>14. CASE SetQuitNow(w)
  BY <1>1, <1>2, <1>14 DEF SetQuitNow, StageInv, treeVars
<1>15. CASE GenerateSend(w) \/ GenerateSkip(w) \/ GenerateError(w)
  BY <1>2, <1>12, <1>13, <1>15 DEF GenerateSend, GenerateSkip, GenerateError
<1> QED BY <1>7, <1>8, <1>9, <1>10, <1>11, <1>14, <1>15 DEF RunStep

\* run_one keeps Quit apart from entries.
LEMMA RunQuitAlone ==
    ASSUME ShapeInv, OwnInv, NEW w \in Workers, RunStep(w), ~quit_now
    PROVE  \A x \in Workers : QuitAlone(x)'
<1>1. /\ pc[w] \in RunStages /\ RunFrame(w)
      /\ SendsNothing(w) \/ \E c \in Entries : Sends(w, c)
  BY RunFrames
<1>2. \A x \in Workers : QuitAlone(x)
  BY DEF OwnInv
<1>3. ASSUME NEW x \in Workers \ {w} PROVE QuitAlone(x)'
  BY <1>1, <1>2 DEF QuitAlone, RunFrame
<1>4. Quit \notin Contents(deque'[w])
  <2>1. Quit \notin Contents(deque[w])
    BY <1>1, <1>2 DEF QuitAlone, RunStages
  <2>2. CASE SendsNothing(w)
    BY <2>1, <2>2 DEF SendsNothing
  <2>3. ASSUME NEW c \in Entries, Sends(w, c) PROVE Quit \notin Contents(deque'[w])
    <3>1. deque[w] \in Seq(Messages) /\ c \in Messages /\ c # Quit
      BY TreeAssumption DEF ShapeInv, TypeOK, Messages
    <3> QED BY <2>1, <2>3, <3>1, AppendContents DEF Sends
  <2> QED BY <1>1, <2>2, <2>3
<1>5. Quit \notin Contents(hand'[w])
  <2>1. Contents(hand[w]) = {WorkOf(w)} /\ WorkOf(w) # Quit
    BY <1>1, WorkAlone
  <2> QED BY <1>1, <2>1, Single DEF RunFrame
<1>6. QuitAlone(w)'
  BY <1>1, <1>4, <1>5 DEF QuitAlone, RunFrame, RunStages
<1> QED BY <1>3, <1>6

\* The visitor sees an entry that no worker has shown it before.
LEMMA RunVisits ==
    ASSUME ShapeInv, OwnInv, NEW w \in Workers, RunStep(w)
    PROVE  \A e \in Entries : visits'[e] <= 1
<1> DEFINE e == WorkOf(w)
<1>1. pc[w] \in RunStages /\ RunFrame(w) /\ e \in Entries
  BY RunFrames, WorkAlone
<1>2. /\ visits \in [Entries -> Nat]
      /\ \A f \in Entries : visits[f] \in Nat /\ visits[f] <= 1
  BY DEF ShapeInv, TypeOK, OwnInv, VisitedAtMostOnce
<1>3. CASE pc[w] # "visit"
  BY <1>1, <1>2, <1>3 DEF RunFrame
<1>4. CASE pc[w] = "visit"
  <2>1. Fresh(e)
    BY <1>1, <1>4, WorkAlone DEF Fresh, Waits, Late
  <2>2. visits[e] = 0
    BY <1>1, <2>1 DEF OwnInv, FreshUntouched
  <2>3. VisitEntry(w)
    BY <1>4 DEF RunStep, AddParentsError, DeviceError, ListError, GenerateSend,
       GenerateSkip, GenerateError, GenerateDone, SetQuitNow
  <2>4. visits' = [visits EXCEPT ![e] = 1] \/ visits' = visits
    BY <1>1, <2>2, <2>3 DEF VisitEntry, ShapeInv, TypeOK
  <2> QED BY <1>1, <1>2, <2>4
<1> QED BY <1>3, <1>4

\* Every step of run_one keeps the ownership invariant.
LEMMA OwnRun ==
    ASSUME ShapeInv, OwnInv, NEW w \in Workers, RunStep(w)
    PROVE  OwnInv'
<1> DEFINE e == WorkOf(w)
<1>1. /\ pc[w] \in RunStages /\ RunFrame(w)
      /\ SendsNothing(w) \/ \E c \in Entries : Sends(w, c)
  BY RunFrames
<1>2. e \in Entries /\ status[e] = "sent"
  BY <1>1, WorkAlone
<1>3. mainpc = "join" /\ mainpc' = "join" /\ Roots # <<>>
  BY <1>1, Running DEF OwnInv, RunFrame, RunStages
<1>4. quit_now => quit_now'
  BY DEF RunStep, AddParentsError, DeviceError, VisitEntry, ListError, GenerateSend,
     GenerateSkip, GenerateError, GenerateDone, SetQuitNow, endVars
<1>5. OnePlace' /\ HeldSent' /\ FreshUntouched' /\ NothingLost'
  <2>1. quit_now' => NothingLost'
    BY DEF NothingLost
  <2>2. CASE SendsNothing(w)
    BY <1>1, <1>4, <2>1, <2>2, RunPlaces
  <2>3. ASSUME NEW c \in Entries, Sends(w, c)
        PROVE  OnePlace' /\ HeldSent' /\ FreshUntouched' /\ NothingLost'
    BY <1>1, <2>1, <2>3, SendPlaces DEF Sends
  <2> QED BY <1>1, <2>2, <2>3
<1>6. /\ \A x \in Workers \ {w} : StageInv(x)'
      /\ \A f \in Entries : Settled(f) => Settled(f)'
      /\ \A f \in Entries : status[f] # "unsent" => status'[f] # "unsent"
  BY <1>1, RunElsewhere
<1>7. StageInv(w)'
  BY <1>2, RunStage
<1>8. FinishedSettled'
  <2> SUFFICES ASSUME NEW f \in Entries, status'[f] = "finished"
               PROVE  Settled(f)'
    BY DEF FinishedSettled
  <2>1. CASE f = e
    BY <2>1, RunStage
  <2>2. CASE f # e
    <3>1. status[f] = "finished"
      BY <1>1, <2>2 DEF SendsNothing, Sends, ShapeInv, TypeOK
    <3> QED BY <1>6, <3>1 DEF OwnInv, FinishedSettled
  <2> QED BY <2>1, <2>2
<1>9. MainInv'
  <2>1. RootSet \subseteq Entries
    BY RootsAssumption DEF RootSet
  <2> QED BY <1>3, <1>6, <2>1 DEF OwnInv, MainInv
<1>10. \A f \in Entries : visits'[f] > 0 => status'[f] # "unsent"
  <2> SUFFICES ASSUME NEW f \in Entries, visits'[f] > 0 PROVE status[f] # "unsent"
    BY <1>6
  <2>1. CASE f = e
    BY <1>2, <2>1
  <2>2. CASE f # e
    BY <1>1, <2>2 DEF RunFrame, OwnInv
  <2> QED BY <2>1, <2>2
<1>11. VisitedAtMostOnce'
  BY RunVisits DEF VisitedAtMostOnce
<1>12. ~quit_now' => \A x \in Workers : QuitAlone(x)'
  BY <1>4, RunQuitAlone
<1> QED BY <1>5, <1>6, <1>7, <1>8, <1>9, <1>10, <1>11, <1>12 DEF OwnInv

-----------------------------------------------------------------------------
(* WalkParallel::visit deals the roots.                                    *)

\* No position of Roots is dealt twice ...
LEMMA DealInjective ==
    ASSUME NEW n \in Nat, NEW T \in Nat \ {0},
           NEW v \in 0 .. (T - 1), NEW w \in 0 .. (T - 1),
           NEW i \in Nat \ {0}, NEW j \in Nat \ {0},
           n - v - (i - 1) * T = n - w - (j - 1) * T
    PROVE  v = w /\ i = j
<1> DEFINE a == (i - 1) * T
           b == (j - 1) * T
<1>1. a \in Int /\ b \in Int /\ v + a = w + b
  OBVIOUS
<1>2. ASSUME i < j PROVE FALSE
  <2>1. i <= j - 1
    BY <1>2
  <2>2. i * T <= (j - 1) * T
    BY <2>1
  <2>3. i * T = a + T
    OBVIOUS
  <2> QED BY <1>1, <2>2, <2>3
<1>3. ASSUME j < i PROVE FALSE
  <2>1. j <= i - 1
    BY <1>3
  <2>2. j * T <= (i - 1) * T
    BY <2>1
  <2>3. j * T = b + T
    OBVIOUS
  <2> QED BY <1>1, <2>2, <2>3
<1>4. i = j
  BY <1>2, <1>3
<1> QED BY <1>1, <1>4

\* ... and none is left out.
LEMMA DealSurjective ==
    ASSUME NEW n \in Nat, NEW T \in Nat \ {0}, NEW k \in 1 .. n
    PROVE  \E w \in 0 .. (T - 1) : \E i \in 1 .. ((n - w + T - 1) \div T) :
              n - w - (i - 1) * T = k
<1> DEFINE m == n - k
           w == m % T
           a == m \div T
<1>1. m \in Nat /\ w \in 0 .. (T - 1) /\ a \in Nat /\ m = a * T + w
  BY Z3
<1>2. n - w - ((a + 1) - 1) * T = k
  BY <1>1
<1>3. a + 1 <= (n - w + T - 1) \div T
  <2> DEFINE x == n - w + T - 1
  <2>1. x = (a + 1) * T + (k - 1) /\ x \in Nat
    BY <1>1
  <2> HIDE DEF a, w
  <2>2. (a + 1) * T <= x
    BY <1>1, <2>1
  <2> DEFINE y == (n - w + T - 1) \div T
  <2>3. y \in Int /\ x < (y + 1) * T
    BY <1>1, <2>1
  <2> HIDE DEF y, x
  <2>4. ASSUME y < a + 1 PROVE FALSE
    <3>1. y + 1 <= a + 1
      BY <1>1, <2>3, <2>4
    <3>2. (y + 1) * T <= (a + 1) * T
      BY <1>1, <2>3, <3>1
    <3> QED BY <1>1, <2>1, <2>2, <2>3, <3>2
  <2> QED BY <1>1, <2>3, <2>4 DEF y
<1>4. a + 1 \in 1 .. ((n - w + T - 1) \div T)
  BY <1>1, <1>3
<1> QED BY <1>1, <1>2, <1>4

\* Every root is in one deque, once, and nothing else is.
LEMMA InitialContents ==
    /\ \A w \in Workers : Distinct(InitialDeque(w))
    /\ \A v, w \in Workers : v # w => Apart(InitialDeque(v), InitialDeque(w))
    /\ \A w \in Workers : Contents(InitialDeque(w)) \subseteq RootSet
    /\ \A r \in RootSet : \E w \in Workers : r \in Contents(InitialDeque(w))
<1> DEFINE n == Len(Roots)
           m(w) == (n - w + Threads - 1) \div Threads
           at(w, i) == n - w - (i - 1) * Threads
<1>1. n \in Nat /\ Threads \in Nat \ {0} /\ \A w \in Workers : w \in 0 .. (Threads - 1)
  BY RootsAssumption, ThreadsAssumption DEF Workers
<1>2. ASSUME NEW w \in Workers
      PROVE  /\ m(w) \in Nat /\ Len(InitialDeque(w)) = m(w)
             /\ \A i \in 1 .. m(w) : /\ InitialDeque(w)[i] = Roots[at(w, i)]
                                     /\ at(w, i) \in 1 .. n
  <2>1. m(w) \in Nat
    BY <1>1
  <2>2. \A i \in 1 .. m(w) : at(w, i) \in 1 .. n
    BY <1>1, DealIndex
  <2>3. InitialDeque(w) = [i \in 1 .. m(w) |-> Roots[at(w, i)]]
    BY DEF InitialDeque
  <2> HIDE DEF m, at, n
  <2> QED BY <2>1, <2>2, <2>3
<1>3. ASSUME NEW v \in Workers, NEW w \in Workers,
             NEW i \in 1 .. m(v), NEW j \in 1 .. m(w),
             InitialDeque(v)[i] = InitialDeque(w)[j]
      PROVE  v = w /\ i = j
  <2>1. at(v, i) = at(w, j)
    BY SMTT(30), <1>2, <1>3, RootsAssumption
  <2>2. i \in Nat \ {0} /\ j \in Nat \ {0}
    BY <1>2
  <2>3. n - v - (i - 1) * Threads = n - w - (j - 1) * Threads
    BY <2>1
  <2>4. /\ n \in Nat /\ Threads \in Nat \ {0}
        /\ v \in 0 .. (Threads - 1) /\ w \in 0 .. (Threads - 1)
    BY <1>1
  <2> HIDE DEF n
  <2>5. \A a, b \in 0 .. (Threads - 1), x, y \in Nat \ {0} :
          n - a - (x - 1) * Threads = n - b - (y - 1) * Threads => a = b /\ x = y
    BY <2>4, DealInjective
  <2> QED BY <2>2, <2>3, <2>4, <2>5
<1>4. \A w \in Workers : Distinct(InitialDeque(w))
  BY <1>2, <1>3 DEF Distinct
<1>5. \A v, w \in Workers : v # w => Apart(InitialDeque(v), InitialDeque(w))
  BY <1>2, <1>3 DEF Apart, Contents
<1>6. \A w \in Workers : Contents(InitialDeque(w)) \subseteq RootSet
  BY <1>2 DEF Contents, RootSet
<1>7. ASSUME NEW r \in RootSet PROVE \E w \in Workers : r \in Contents(InitialDeque(w))
  <2>1. PICK k \in 1 .. n : r = Roots[k]
    BY DEF RootSet
  <2>2. PICK w \in 0 .. (Threads - 1) : \E i \in 1 .. m(w) : at(w, i) = k
    BY <1>1, DealSurjective
  <2>3. w \in Workers
    BY <2>2 DEF Workers
  <2> QED BY <1>2, <2>1, <2>2, <2>3 DEF Contents
<1> QED BY <1>4, <1>5, <1>6, <1>7

\* No worker has been spawned, nothing has been sent: WalkParallel::visit's start.
LEMMA OwnInit == Init => OwnInv
<1> SUFFICES ASSUME Init PROVE OwnInv
  OBVIOUS
<1>1. /\ mainpc = "roots" /\ ~quit_now /\ pruned = {}
      /\ \A w \in Workers : pc[w] = "unborn" /\ deque[w] = <<>> /\ hand[w] = <<>>
      /\ \A e \in Entries : status[e] = "unsent" /\ visits[e] = 0
  BY DEF Init
<1>2. OnePlace /\ HeldSent
  <2>1. \A w \in Workers : Held(w) = Contents(deque[w]) \cup Contents(hand[w])
    BY DEF Held, Contents
  <2> QED BY <1>1, <2>1, Single DEF OnePlace, Apart, HeldSent
<1>3. FreshUntouched
  BY <1>1, TreeAssumption DEF FreshUntouched
<1>4. MainInv /\ VisitedAtMostOnce /\ NothingLost /\ FinishedSettled
  BY <1>1 DEF MainInv, VisitedAtMostOnce, NothingLost, FinishedSettled
<1>5. \A w \in Workers : QuitAlone(w) /\ StageInv(w)
  BY <1>1, Single DEF QuitAlone, StageInv
<1> QED BY <1>1, <1>2, <1>3, <1>4, <1>5 DEF OwnInv

\* The main thread keeps the ownership invariant: it deals each root to one
\* deque (Stack::new_for_each_thread) and joins workers that have given up all.
LEMMA OwnMain == ShapeInv /\ OwnInv /\ MainStep => OwnInv'
<1> SUFFICES ASSUME ShapeInv, OwnInv, MainStep PROVE OwnInv'
  OBVIOUS
<1>1. CASE MainRootError
  <2>1. /\ UNCHANGED <<pc, deque, hand, quit_now, todo, status, visits, pruned>>
        /\ mainpc = "roots" /\ mainpc' \in {"quit", "roots"}
        /\ errs \subseteq errs'
    BY <1>1 DEF MainRootError, dequeVars, endVars, ReportError
  <2>2. OnePlace' /\ HeldSent' /\ FreshUntouched' /\ VisitedAtMostOnce' /\ NothingLost'
    BY <2>1 DEF OwnInv, OnePlace, HeldSent, Held, FreshUntouched, Fresh, Waits,
       VisitedAtMostOnce, NothingLost
  <2>3. MainInv'
    BY <2>1 DEF OwnInv, MainInv
  <2>4. FinishedSettled'
    BY <2>1 DEF OwnInv, FinishedSettled, MainInv
  <2>5. \A w \in Workers : pc[w] = "unborn"
    BY <2>1 DEF OwnInv, MainInv
  <2>6. \A w \in Workers : StageInv(w)' /\ (~quit_now => QuitAlone(w)')
    BY <2>1, <2>5 DEF OwnInv, StageInv, QuitAlone
  <2> QED BY <2>1, <2>2, <2>3, <2>4, <2>6 DEF OwnInv
<1>2. CASE MainJoin
  <2>1. /\ UNCHANGED <<pc, deque, hand, quit_now, todo, status, visits, pruned, errs>>
        /\ mainpc = "join" /\ mainpc' = "returned"
        /\ \A w \in Workers : pc[w] = "done"
    BY <1>2 DEF MainJoin, dequeVars, endVars, treeVars
  <2>2. MainInv'
    BY <2>1 DEF OwnInv, MainInv
  <2> QED BY <2>1, <2>2 DEF OwnInv, OnePlace, HeldSent, Held, FreshUntouched, Fresh,
       Waits, VisitedAtMostOnce, NothingLost, FinishedSettled, Settled, StageInv,
       QuitAlone, ParentsTold, DeviceTold, ListTold, Shown, Dealt, WorkOf
<1>3. CASE MainSpawn
  <2>1. /\ mainpc = "roots"
        /\ UNCHANGED <<hand, quit_now, todo, visits, pruned, errs>>
        /\ mainpc' = IF Roots = <<>> THEN "returned" ELSE "join"
        /\ \A w \in Workers : deque'[w] = InitialDeque(w)
        /\ \A e \in Entries : status'[e] = IF e \in RootSet THEN "sent" ELSE "unsent"
        /\ \A w \in Workers : pc'[w] = IF Roots = <<>> THEN "unborn" ELSE "pop"
    BY <1>3 DEF MainSpawn, endVars
  <2>2. /\ \A w \in Workers : hand[w] = <<>> /\ pc[w] = "unborn"
        /\ \A e \in Entries : status[e] = "unsent"
        /\ ~quit_now
    BY <2>1 DEF OwnInv, MainInv, ShapeInv, HandShape, Resting
  <2>3. \A e \in Entries : visits[e] = 0 /\ e \notin pruned
    BY <2>2 DEF OwnInv, FreshUntouched, Fresh
  <2>4. RootSet \subseteq Entries /\ Quit \notin RootSet
    BY RootsAssumption, TreeAssumption DEF RootSet
  <2>5. Roots = <<>> => RootSet = {} /\ \A w \in Workers : InitialDeque(w) = <<>>
    <3> SUFFICES ASSUME Roots = <<>>
                 PROVE  RootSet = {} /\ \A w \in Workers : InitialDeque(w) = <<>>
      OBVIOUS
    <3>1. RootSet = {}
      BY EmptySeq DEF RootSet
    <3>2. ASSUME NEW w \in Workers PROVE InitialDeque(w) = <<>>
      <4>1. InitialDeque(w) \in Seq(Messages) /\ Contents(InitialDeque(w)) = {}
        BY <3>1, InitialDequeType, InitialContents
      <4>2. ~(Len(InitialDeque(w)) \in Nat \ {0})
        <5>1. Len(InitialDeque(w)) \in Nat \ {0} =>
                InitialDeque(w)[1] \in Contents(InitialDeque(w))
          BY DEF Contents
        <5> QED BY <4>1, <5>1
      <4> QED BY <4>1, <4>2, EmptySeq
    <3> QED BY <3>1, <3>2
  <2>6. OnePlace'
    <3>1. \A w \in Workers : Distinct(deque'[w]) /\ Distinct(hand'[w])
      BY <2>1, <2>2, InitialContents, Single
    <3>2. \A v, w \in Workers : Apart(deque'[v], hand'[w]) /\ Apart(hand'[v], hand'[w])
      BY <2>1, <2>2, Single DEF Apart
    <3>3. \A v, w \in Workers : v # w => Apart(deque'[v], deque'[w])
      BY <2>1, InitialContents
    <3> QED BY <3>1, <3>2, <3>3 DEF OnePlace
  <2>7. \A w \in Workers : Held(w)' = Contents(InitialDeque(w))
    <3>1. \A w \in Workers : Held(w)' = Contents(deque'[w]) \cup Contents(hand'[w])
      BY DEF Held, Contents
    <3> QED BY <2>1, <2>2, <3>1, Single
  <2>8. HeldSent'
    BY <2>1, <2>7, InitialContents DEF HeldSent
  <2>9. FreshUntouched'
    <3>1. \A d \in Dirs : \A c \in Children[d] : c \in Entries /\ c \notin RootSet
      BY TreeAssumption
    <3> QED BY <2>1, <2>3, <3>1 DEF FreshUntouched
  <2>10. MainInv'
    BY <2>1, <2>2, <2>4, <2>5 DEF MainInv
  <2>11. NothingLost'
    BY <2>1, <2>7, InitialContents DEF NothingLost
  <2>12. VisitedAtMostOnce' /\ FinishedSettled'
         /\ \A e \in Entries : visits'[e] > 0 => status'[e] # "unsent"
    BY <2>1, <2>3 DEF VisitedAtMostOnce, FinishedSettled
  <2>13. \A w \in Workers : StageInv(w)'
    BY <2>1 DEF StageInv
  <2>14. \A w \in Workers : QuitAlone(w)'
    BY <2>1, <2>2, <2>4, InitialContents, Single DEF QuitAlone
  <2> QED BY <2>6, <2>8, <2>9, <2>10, <2>11, <2>12, <2>13, <2>14 DEF OwnInv
<1> QED BY <1>1, <1>2, <1>3 DEF MainStep

\* Every step of the walk keeps the ownership invariant (WalkParallel::visit).
LEMMA OwnNext == ShapeInv /\ OwnInv /\ [Next]_vars => OwnInv'
<1> SUFFICES ASSUME ShapeInv, OwnInv, [Next]_vars PROVE OwnInv'
  OBVIOUS
<1>1. CASE UNCHANGED vars
  BY <1>1 DEF vars, mainVars, dequeVars, endVars, treeVars, OwnInv, OnePlace, HeldSent,
     Held, FreshUntouched, Fresh, Waits, MainInv, VisitedAtMostOnce, NothingLost,
     QuitAlone, FinishedSettled, Settled, StageInv, ParentsTold, DeviceTold, ListTold,
     Shown, Dealt, WorkOf
<1>2. CASE MainStep
  BY <1>2, OwnMain
<1>3. ASSUME NEW w \in Workers, WorkerStep(w) PROVE OwnInv'
  BY <1>3, OwnWork, OwnRun DEF WorkerStep
<1> QED BY <1>1, <1>2, <1>3 DEF Next, Terminated

\* The ownership invariant holds throughout every walk (WalkParallel::visit).
LEMMA OwnAlways == SafeSpec => [](ShapeInv /\ OwnInv)
<1>1. Init => ShapeInv /\ OwnInv
  BY ShapeInit, OwnInit
<1>2. ShapeInv /\ OwnInv /\ [Next]_vars => (ShapeInv /\ OwnInv)'
  BY ShapeNext, OwnNext
<1> QED BY <1>1, <1>2, PTL DEF SafeSpec

-----------------------------------------------------------------------------
(* The properties of the runs.                                             *)

\* However the deques are raided, no entry is shown to the visitor twice
\* (Stack::pop, Stack::steal, Worker::run_one).
THEOREM VisitedAtMostOnceCorrect == SafeSpec => []VisitedAtMostOnce
<1>1. OwnInv => VisitedAtMostOnce
  BY DEF OwnInv
<1> QED BY <1>1, OwnAlways, PTL

\* Termination by counting active workers and passing Quit on never leaves an
\* entry with a dead worker (deactivate_worker, send_quit).
THEOREM NoStrandedWorkCorrect == SafeSpec => []NoStrandedWork
<1>1. ShapeInv /\ OwnInv => NoStrandedWork
  <2> SUFFICES ASSUME ShapeInv, OwnInv, ~quit_now,
                      NEW e \in Entries, status[e] = "sent"
               PROVE  \E w \in Workers : pc[w] # "done" /\ e \in Held(w)
    BY DEF NoStrandedWork
  <2>1. PICK w \in Workers : e \in Held(w)
    BY DEF OwnInv, NothingLost
  <2>2. pc[w] # "done"
    <3> SUFFICES ASSUME pc[w] = "done" PROVE FALSE
      OBVIOUS
    <3>1. hand[w] = <<>> /\ deque[w] \in {<<>>, <<Quit>>}
      BY DEF ShapeInv, HandShape, Resting, OwnInv, QuitAlone
    <3>2. e \in {Quit}
      BY <2>1, <3>1, Single DEF Held, Contents
    <3> QED BY <3>2, TreeAssumption
  <2> QED BY <2>1, <2>2
<1> QED BY <1>1, OwnAlways, PTL

\* If the walk was not stopped, every entry it reached is finished when the
\* main thread has joined its workers.
LEMMA AllFinished ==
    ASSUME ShapeInv, OwnInv, ~quit_now, \A w \in Workers : pc[w] = "done",
           NEW e \in Entries, status[e] # "unsent"
    PROVE  status[e] = "finished" /\ Settled(e)
<1>1. \A w \in Workers : hand[w] = <<>> /\ deque[w] \in {<<>>, <<Quit>>}
  BY DEF ShapeInv, HandShape, Resting, OwnInv, QuitAlone
<1>2. status[e] # "sent"
  <2> SUFFICES ASSUME NEW w \in Workers, e \in Held(w) PROVE FALSE
    BY DEF OwnInv, NothingLost
  <2>1. e \in {Quit}
    BY <1>1, Single DEF Held, Contents
  <2> QED BY <2>1, TreeAssumption
<1> QED BY <1>2 DEF ShapeInv, TypeOK, OwnInv, FinishedSettled

\* A walk that ran to its end has told its visitor of every error it met
\* (run_one, generate_work, add_parents).
THEOREM EveryErrorReportedCorrect == SafeSpec => []EveryErrorReported
<1>1. ShapeInv /\ OwnInv => EveryErrorReported
  <2> SUFFICES ASSUME ShapeInv, OwnInv, mainpc = "returned", ~quit_now,
                      NEW e \in Entries, status[e] # "unsent"
               PROVE  /\ e \in ParentErr => <<"parents", e>> \in errs
                      /\ e \in DeviceErr => <<"device", e>> \in errs
                      /\ e \in Unreadable \ (pruned \cup OffDevice \cup DeviceErr)
                           => <<"list", e>> \in errs
                      /\ e \in Listed \ pruned
                           => \A c \in Children[e] \cap BadEntries :
                                 <<"entry", c>> \in errs
    BY DEF EveryErrorReported
  <2>1. \A w \in Workers : pc[w] = "done"
    BY DEF OwnInv, MainInv
  <2>2. Settled(e)
    BY <2>1, AllFinished
  <2> QED BY <2>2 DEF Settled, ParentsTold, DeviceTold, ListTold, Dealt
<1> QED BY <1>1, OwnAlways, PTL

\* A worker's step does not move another worker.
LEMMA OthersKeepPlace ==
    ASSUME ShapeInv, NEW x \in Workers, NEW w \in Workers \ {x}, WorkerStep(x)
    PROVE  pc'[w] = pc[w]
<1>1. pc \in [Workers -> PCs]
  BY DEF ShapeInv, TypeOK
<1>2. CASE RunStep(x)
  BY <1>1, <1>2 DEF RunStep, AddParentsError, DeviceError, VisitEntry, ListError,
     GenerateSend, GenerateSkip, GenerateError, GenerateDone, SetQuitNow, Proceed
<1> QED BY <1>2, WorkFrame DEF WorkerStep

\* Once quit_now is up a worker may end the run_one it is in, but get_work
\* hands it nothing more (the priority channel of get_work).
THEOREM NoWorkAfterQuitCorrect == SafeSpec => NoWorkAfterQuit
<1>1. ASSUME ShapeInv, [Next]_vars, quit_now, NEW w \in Workers,
             pc'[w] \in RunStages
      PROVE  pc[w] \in RunStages
  <2>1. CASE UNCHANGED vars
    BY <1>1, <2>1 DEF vars
  <2>2. CASE MainStep
    BY <1>1, <2>2 DEF MainStep, MainRootError, MainSpawn, MainJoin, RunStages
  <2>3. ASSUME NEW x \in Workers, WorkerStep(x) PROVE pc[w] \in RunStages
    <3>1. CASE w = x /\ (StackStep(x) \/ GetWorkStep(x))
      <4>1. ~TakeWork(x)
        BY <1>1 DEF TakeWork, IsQuitNow
      <4>2. pc \in [Workers -> PCs]
        BY <1>1 DEF ShapeInv, TypeOK
      <4> QED BY <1>1, <3>1, <4>1, <4>2 DEF StackStep, PopOwn, PopEmpty, StealTake,
           Publish, StealFail, RecvNone, AfterRecv, GetWorkStep, TakeQuit, TakeNone,
           Deactivate, Activate, SendQuit, RunStages, dequeVars
    <3>2. CASE w = x /\ RunStep(x)
      BY <3>2 DEF RunStep, AddParentsError, DeviceError, VisitEntry, ListError,
         GenerateSend, GenerateSkip, GenerateError, GenerateDone, SetQuitNow, RunStages
    <3>3. CASE w # x
      BY <1>1, <2>3, <3>3, OthersKeepPlace
    <3> QED BY <2>3, <3>1, <3>2, <3>3 DEF WorkerStep
  <2> QED BY <1>1, <2>1, <2>2, <2>3 DEF Next, Terminated
<1>2. ShapeInv /\ [Next]_vars =>
        [quit_now => \A w \in Workers :
           pc'[w] \in RunStages => pc[w] \in RunStages]_vars
  BY <1>1
<1> QED BY <1>2, OwnAlways, PTL DEF SafeSpec, NoWorkAfterQuit
-----------------------------------------------------------------------------
(* The work-stealing walk does nothing that TreeWalk, the walk its callers *)
(* rely on, would not do.  That the walk returns is a liveness property,   *)
(* which TLC checks.                                                       *)

\* The state of TreeWalk that a state of ParallelWalk stands for.
Found == {e \in Entries : status[e] # "unsent"}
Visited == {e \in Entries : visits[e] > 0}
InView == {e \in Entries : Depth[e] >= MinDepth}

\* One step of TreeWalk, or none.
AbstractStep == Abstract!Next \/ UNCHANGED Abstract!vars

\* What the walk's caller sees of quit_now and of run's return are two flags.
LEMMA TwoFlags ==
    /\ VisitorQuit \in BOOLEAN /\ VisitorQuit' \in BOOLEAN
    /\ Returned \in BOOLEAN /\ Returned' \in BOOLEAN
<1>1. VisitorQuit \in BOOLEAN
  BY Zenon DEF VisitorQuit
<1>2. VisitorQuit' \in BOOLEAN
  BY Zenon DEF VisitorQuit
<1>3. Returned \in BOOLEAN
  BY DEF Returned
<1>4. Returned' \in BOOLEAN
  BY DEF Returned
<1> QED BY <1>1, <1>2, <1>3, <1>4

\* Steps that show and find nothing: the visitor may have asked to stop.
LEMMA QuietStep ==
    ASSUME mainpc = "join", mainpc' = "join",
           Found' = Found, Visited' = Visited, pruned' = pruned,
           VisitorQuit => VisitorQuit'
    PROVE  AbstractStep
<1>1. ~Returned /\ ~Returned'
  BY DEF Returned
<1>4. /\ VisitorQuit \in BOOLEAN /\ VisitorQuit' \in BOOLEAN
      /\ Returned \in BOOLEAN /\ Returned' \in BOOLEAN
  BY TwoFlags
<1>2. CASE VisitorQuit'
  <2>2. VisitorQuit' = TRUE
    BY <1>2, <1>4, Zenon
  <2>1. Abstract!StopOnError
    BY <1>4, <2>2 DEF Abstract!StopOnError, Found, Visited
  <2> QED BY <1>1, <2>1 DEF AbstractStep, Abstract!Next, Abstract!request
<1>3. CASE ~VisitorQuit'
  <2>1. VisitorQuit' = VisitorQuit /\ Returned' = Returned
    BY <1>1, <1>3, <1>4, Zenon
  <2> QED BY <2>1 DEF AbstractStep, Abstract!vars, Abstract!request, Found, Visited
<1> QED BY <1>2, <1>3

\* A request to stop is not forgotten.
LEMMA QuitStays ==
    ASSUME ShapeInv, OwnInv, NEW w \in Workers, WorkerStep(w)
    PROVE  VisitorQuit => VisitorQuit'
<1> SUFFICES ASSUME VisitorQuit PROVE VisitorQuit'
  OBVIOUS
<1>1. pc[w] \notin {"unborn", "done"}
  BY WorkFrame, RunFrames DEF WorkerStep, WorkPCs, RunStages
<1>2. mainpc = "join"
  BY <1>1, Running DEF OwnInv
<1>3. pc \in [Workers -> PCs]
  BY DEF ShapeInv, TypeOK
<1>4. CASE StackStep(w) \/ GetWorkStep(w)
  <2>1. \A x \in Workers : pc[x] = "setQuit" => pc'[x] = "setQuit"
    BY <1>4, WorkFrame DEF WorkPCs
  <2> QED BY <1>2, <1>4, <2>1, WorkFrame DEF VisitorQuit
<1>5. CASE SetQuitNow(w)
  BY <1>5 DEF SetQuitNow, VisitorQuit
<1>6. CASE RunStep(w) /\ ~SetQuitNow(w)
  <2>1. pc[w] # "setQuit" /\ quit_now' = quit_now
    BY <1>6 DEF RunStep, AddParentsError, DeviceError, VisitEntry, ListError,
       GenerateSend, GenerateSkip, GenerateError, GenerateDone, endVars
  <2>2. \A x \in Workers \ {w} : pc'[x] = pc[x]
    BY OthersKeepPlace DEF WorkerStep
  <2> QED BY <1>2, <2>1, <2>2 DEF VisitorQuit
<1> QED BY <1>4, <1>5, <1>6 DEF WorkerStep

\* The search for work is not visible to the caller.
LEMMA WorkRefines ==
    ASSUME ShapeInv, OwnInv, NEW w \in Workers, StackStep(w) \/ GetWorkStep(w)
    PROVE  AbstractStep
<1>1. /\ UNCHANGED <<mainpc, status, visits, pruned>>
      /\ pc[w] \notin {"unborn", "done"}
  BY WorkFrame DEF WorkPCs
<1>2. mainpc = "join"
  BY <1>1, Running DEF OwnInv
<1> QED BY <1>1, <1>2, QuitStays, QuietStep DEF WorkerStep, Found, Visited

\* The visitor's call is TreeWalk's Visit, unless the entry is too shallow.
LEMMA VisitRefines ==
    ASSUME ShapeInv, OwnInv, NEW w \in Workers, VisitEntry(w)
    PROVE  AbstractStep
<1>0. PICK e \in Entries : e = WorkOf(w)
  BY WorkAlone DEF VisitEntry, RunStages
<1>1. /\ e \in Entries /\ status[e] = "sent" /\ pc[w] = "visit"
      /\ pc[w] \in RunStages /\ RunFrame(w) /\ SendsNothing(w)
  BY <1>0, WorkAlone, RunFrames DEF VisitEntry, RunStep, RunStages, Sends
<1>2. mainpc = "join" /\ mainpc' = "join"
  BY <1>1, Running DEF OwnInv, RunFrame, RunStages
<1>3. VisitorQuit => VisitorQuit'
  BY QuitStays DEF WorkerStep, RunStep
<1>4. Found' = Found
  BY <1>0, <1>1 DEF Found, SendsNothing
<1>5. visits[e] = 0
  BY <1>0, <1>1, WorkAlone DEF OwnInv, FreshUntouched, Fresh, Waits, Late
<1>6. PICK r \in IF ShouldVisit(e) THEN VisitorResults ELSE {"Continue"} :
        /\ Proceed(w, AfterVisit(e, r))
        /\ visits' = IF ShouldVisit(e) THEN [visits EXCEPT ![e] = @ + 1] ELSE visits
        /\ pruned' = IF r = "Skip" THEN pruned \cup {e} ELSE pruned
  BY <1>0 DEF VisitEntry
<1>7. visits \in [Entries -> Nat]
  BY DEF ShapeInv, TypeOK
<1>8. CASE ~ShouldVisit(e)
  BY <1>2, <1>3, <1>4, <1>6, <1>8, QuietStep DEF Visited
<1>9. CASE ShouldVisit(e)
  <2>1. Visited' = Visited \cup {e} /\ e \in InView
    BY <1>1, <1>5, <1>6, <1>7, <1>9 DEF Visited, InView, ShouldVisit
  <2>2. e \in Found \ Visited
    BY <1>1, <1>5 DEF Found, Visited
  <2>3. pruned' \in {pruned, pruned \cup {e}}
    BY <1>6
  <2>4. VisitorQuit' = VisitorQuit \/ VisitorQuit' = TRUE
    BY <1>3, TwoFlags, Zenon
  <2>5. ~Returned /\ ~Returned'
    BY <1>2 DEF Returned
  <2>7. Returned' = Returned
    BY <2>5, TwoFlags, Zenon
  <2>6. Abstract!Visit(e)
    BY <1>4, <2>1, <2>2, <2>3, <2>4, <2>7 DEF Abstract!Visit, Found, Visited, InView
  <2>8. \E x \in Entries : Abstract!Visit(x)
    BY <2>6
  <2> QED BY <2>5, <2>8 DEF AbstractStep, Abstract!Next, Abstract!request
<1> QED BY <1>8, <1>9

\* Pushing a child is TreeWalk's Find: its directory has been shown.
LEMMA SendRefines ==
    ASSUME ShapeInv, OwnInv, NEW w \in Workers, NEW c \in Entries,
           GenerateSend(w), RunFrame(w), Sends(w, c)
    PROVE  AbstractStep
<1> DEFINE d == WorkOf(w)
<1>1. /\ d \in Entries /\ status[d] = "sent" /\ d \in Listed /\ d \notin pruned
      /\ Shown(d) /\ status[c] = "unsent" /\ c \in Children[d]
  BY WorkAlone DEF OwnInv, StageInv, Sends, RunStages
<1>2. mainpc = "join" /\ mainpc' = "join"
  BY Running DEF OwnInv, RunFrame, Sends
<1>3. ~Returned /\ Returned' = Returned
  BY <1>2 DEF Returned
<1>4. VisitorQuit' = VisitorQuit
  BY <1>2 DEF Sends, VisitorQuit
<1>5. Found' = Found \cup {c} /\ c \notin Found /\ d \in Found
  BY <1>1 DEF Found, Sends, ShapeInv, TypeOK
<1>6. Visited' = Visited /\ pruned' = pruned
  BY DEF Visited, Sends
<1>7. c \in WalkYields[d]
  BY <1>1 DEF WalkYields, Sends
<1>8. d \in Visited \/ d \notin InView
  BY <1>1, DepthAssumption DEF Visited, InView, Shown
<1> HIDE DEF d
<1>9. Abstract!Find(d, c)
  BY <1>1, <1>3, <1>4, <1>5, <1>6, <1>7, <1>8 DEF Abstract!Find, Abstract!Handled,
     Found, Visited, InView
<1> QED BY <1>3, <1>5, <1>7, <1>9 DEF AbstractStep, Abstract!Next, Abstract!request, Found

\* Every step of run_one is one of TreeWalk's (Worker::run_one).
LEMMA RunRefines ==
    ASSUME ShapeInv, OwnInv, NEW w \in Workers, RunStep(w)
    PROVE  AbstractStep
<1>1. /\ pc[w] \in RunStages /\ RunFrame(w)
      /\ SendsNothing(w) \/ \E c \in Entries : Sends(w, c)
  BY RunFrames
<1>2. CASE VisitEntry(w)
  BY <1>2, VisitRefines
<1>3. CASE SendsNothing(w) /\ ~VisitEntry(w)
  <2>1. pc[w] # "visit"
    BY <1>3 DEF RunStep, AddParentsError, DeviceError, ListError, GenerateSend,
       GenerateSkip, GenerateError, GenerateDone, SetQuitNow
  <2>2. mainpc = "join" /\ mainpc' = "join"
    BY <1>1, Running DEF OwnInv, RunFrame, RunStages
  <2>3. WorkOf(w) \in Entries /\ status[WorkOf(w)] = "sent"
    BY <1>1, WorkAlone
  <2>4. Found' = Found
    BY <1>3, <2>3 DEF Found, SendsNothing
  <2>5. Visited' = Visited /\ pruned' = pruned
    BY <1>1, <2>1 DEF Visited, RunFrame
  <2> QED BY <2>2, <2>4, <2>5, QuitStays, QuietStep DEF WorkerStep
<1>4. CASE ~SendsNothing(w)
  <2>1. PICK c \in Entries : Sends(w, c)
    BY <1>1, <1>4
  <2>2. GenerateSend(w)
    <3>1. deque' # deque
      <4>1. deque[w] \in Seq(Messages) /\ c \in Messages
        BY DEF ShapeInv, TypeOK, Messages
      <4>2. Len(Append(deque[w], c)) # Len(deque[w])
        BY <4>1
      <4> QED BY <2>1, <4>2 DEF Sends
    <3> QED BY <2>1, <3>1 DEF Sends, RunStep, AddParentsError, DeviceError, VisitEntry,
         ListError, GenerateSkip, GenerateError, GenerateDone, SetQuitNow, dequeVars
  <2> QED BY <1>1, <2>1, <2>2, SendRefines
<1> QED BY <1>2, <1>3, <1>4

\* The main thread: a root that cannot be opened, the deal, the join.
LEMMA MainRefines ==
    ASSUME ShapeInv, OwnInv, MainStep
    PROVE  AbstractStep
<1>1. CASE MainRootError
  <2>1. /\ mainpc = "roots" /\ mainpc' \in {"quit", "roots"}
        /\ UNCHANGED <<pc, quit_now, status, visits, pruned>>
    BY <1>1 DEF MainRootError, endVars
  <2>2. ~Returned /\ Found' = Found /\ Visited' = Visited
    BY <2>1 DEF Returned, Found, Visited
  <2>3. CASE mainpc' = "quit"
    <3>1. VisitorQuit' = TRUE /\ Returned' = TRUE
      BY <2>3 DEF VisitorQuit, Returned
    <3>2. Abstract!StopOnError
      BY <2>1, <2>2, <3>1 DEF Abstract!StopOnError, Found, Visited
    <3> QED BY <2>2, <3>2 DEF AbstractStep, Abstract!Next, Abstract!request
  <2>4. CASE mainpc' = "roots"
    <3>1. VisitorQuit' = VisitorQuit /\ Returned' = Returned
      BY <2>1, <2>4 DEF VisitorQuit, Returned
    <3> QED BY <2>1, <2>2, <3>1 DEF AbstractStep, Abstract!vars, Abstract!request,
         Found, Visited
  <2> QED BY <2>1, <2>3, <2>4
<1>2. CASE MainSpawn
  <2>1. /\ mainpc = "roots" /\ UNCHANGED <<quit_now, visits, pruned>>
        /\ mainpc' = IF Roots = <<>> THEN "returned" ELSE "join"
        /\ \A e \in Entries : status'[e] = IF e \in RootSet THEN "sent" ELSE "unsent"
        /\ \A w \in Workers : pc'[w] = IF Roots = <<>> THEN "unborn" ELSE "pop"
    BY <1>2 DEF MainSpawn, endVars
  <2>2. ~Returned /\ ~VisitorQuit /\ Found = {}
    BY <2>1 DEF Returned, VisitorQuit, Found, OwnInv, MainInv
  <2>3. VisitorQuit' = VisitorQuit
    <3>1. ~VisitorQuit'
      BY <2>1, <2>2 DEF VisitorQuit
    <3> QED BY <2>2, <3>1, TwoFlags, Zenon
  <2>4. Found' = RootSet
    BY <2>1, RootsAssumption DEF Found, RootSet
  <2>5. Visited' = Visited
    BY <2>1 DEF Visited
  <2>6. CASE Roots # <<>>
    <3>3. ~Returned'
      BY <2>1, <2>6 DEF Returned
    <3>1. Returned' = Returned
      BY <2>2, <3>3, TwoFlags, Zenon
    <3>2. Abstract!Begin
      BY <2>1, <2>2, <2>3, <2>4, <2>5, <3>1 DEF Abstract!Begin, Found, Visited
    <3> QED BY <2>2, <3>2 DEF AbstractStep, Abstract!Next, Abstract!request
  <2>7. CASE Roots = <<>>
    <3>1. RootSet = {} /\ Returned' = TRUE
      BY <2>1, <2>7, EmptySeq DEF RootSet, Returned
    <3>2. Abstract!Exhausted
      BY <2>2, <3>1 DEF Abstract!Exhausted, Found
    <3>3. Abstract!Finish
      BY <2>1, <2>2, <2>3, <2>4, <2>5, <3>1, <3>2 DEF Abstract!Finish, Found, Visited
    <3> QED BY <2>2, <3>3 DEF AbstractStep, Abstract!Next, Abstract!request
  <2> QED BY <2>6, <2>7
<1>3. CASE MainJoin
  <2>1. /\ mainpc = "join" /\ mainpc' = "returned"
        /\ UNCHANGED <<pc, quit_now, status, visits, pruned>>
        /\ \A w \in Workers : pc[w] = "done"
    BY <1>3 DEF MainJoin, endVars, treeVars
  <2>2. ~Returned /\ Returned' = TRUE /\ VisitorQuit' = VisitorQuit
    BY <2>1 DEF Returned, VisitorQuit
  <2>3. Found' = Found /\ Visited' = Visited
    BY <2>1 DEF Found, Visited
  <2>4. ASSUME ~VisitorQuit PROVE Abstract!Exhausted
    <3>1. ~quit_now
      BY <2>4 DEF VisitorQuit
    <3>2. RootSet \subseteq Found
      BY <2>1, RootsAssumption DEF OwnInv, MainInv, Found, RootSet
    <3>3. ASSUME NEW e \in Found
          PROVE  /\ e \in Visited \/ e \notin InView
                 /\ e \in pruned \/ WalkYields[e] \subseteq Found
      <4>1. Settled(e) /\ e \in Entries
        BY <2>1, <3>1, AllFinished DEF Found
      <4>2. e \in Visited \/ e \notin InView
        BY <4>1, DepthAssumption DEF Settled, Shown, Visited, InView
      <4>3. CASE e \in Listed /\ e \notin pruned
        <5>1. \A c \in Children[e] : c \in Entries /\ Dealt(c)
          BY <4>1, <4>3, TreeAssumption DEF Settled, Listed
        <5> QED BY <4>1, <4>2, <4>3, <5>1 DEF WalkYields, Dealt, Found
      <4>4. CASE e \notin Listed \/ e \in pruned
        BY <4>1, <4>2, <4>4 DEF WalkYields
      <4> QED BY <4>3, <4>4
    <3> QED BY <3>2, <3>3 DEF Abstract!Exhausted, Abstract!Handled, Found, Visited, InView
  <2>5. Abstract!Finish
    BY <2>1, <2>2, <2>3, <2>4 DEF Abstract!Finish, Found, Visited
  <2> QED BY <2>2, <2>5 DEF AbstractStep, Abstract!Next, Abstract!request
<1> QED BY <1>1, <1>2, <1>3 DEF MainStep

\* A walk that has not begun has found and shown nothing (WalkParallel::visit).
LEMMA InitRefines == Init => Abstract!Init
<1> SUFFICES ASSUME Init PROVE Abstract!Init
  OBVIOUS
<1>1. /\ mainpc = "roots" /\ ~quit_now /\ pruned = {}
      /\ \A w \in Workers : pc[w] = "unborn"
      /\ \A e \in Entries : status[e] = "unsent" /\ visits[e] = 0
  BY DEF Init
<1>2. Found = {} /\ Visited = {}
  BY <1>1 DEF Found, Visited
<1>3. VisitorQuit = FALSE /\ Returned = FALSE
  BY <1>1 DEF VisitorQuit, Returned
<1>4. RootSet \subseteq Entries /\ InView \subseteq Entries
  BY RootsAssumption DEF RootSet, InView
<1>5. WalkYields \in [Entries -> SUBSET Entries]
  BY TreeAssumption DEF WalkYields, Listed
<1> QED BY <1>1, <1>2, <1>3, <1>4, <1>5 DEF Abstract!Init, Abstract!RequestOK,
     Found, Visited, InView

\* Every step of the walk is one of TreeWalk's, or is not seen by its caller
\* (WalkParallel::visit).
LEMMA NextRefines == ShapeInv /\ OwnInv /\ [Next]_vars => [Abstract!Next]_(Abstract!vars)
<1> SUFFICES ASSUME ShapeInv, OwnInv, [Next]_vars PROVE AbstractStep
  BY DEF AbstractStep
<1>1. CASE UNCHANGED vars
  BY <1>1 DEF vars, mainVars, endVars, treeVars, AbstractStep, Abstract!vars,
     Abstract!request, VisitorQuit, Returned
<1>2. CASE MainStep
  BY <1>2, MainRefines
<1>3. ASSUME NEW w \in Workers, WorkerStep(w) PROVE AbstractStep
  BY <1>3, WorkRefines, RunRefines DEF WorkerStep
<1> QED BY <1>1, <1>2, <1>3 DEF Next, Terminated

\* The parallel walk's every step is one of the walk that visit promises:
\* nothing is shown unasked or twice, nothing is left out by a walk that was
\* not stopped, and it returns only then (WalkParallel::visit).
THEOREM WalkImplementsTreeWalk == SafeSpec => Abstract!Safety
<1> QED BY InitRefines, NextRefines, OwnAlways, PTL DEF SafeSpec, Abstract!Safety
=============================================================================
