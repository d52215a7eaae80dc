------------------------- MODULE SearchDriverProofs -------------------------
(***************************************************************************)
(* What the drivers of crates/core/main.rs guarantee for every set of      *)
(* threads, every tree and every command line: the exit status does not    *)
(* depend on the schedule, no match is printed twice or forgotten, and a   *)
(* broken pipe is no error.  The column of git blame changes none of it.   *)
(*                                                                         *)
(* The invariant follows each result of the walk from its delivery to      *)
(* stdout, and says what the flags of the program know of it.              *)
(***************************************************************************)
EXTENDS BlamedSearch, FiniteSetTheorems, SequenceTheorems, TLAPS

PCs == {"idle", "message", "printmessage", "search", "store", "count", "print",
        "decide", "quit", "found", "write", "send"}
MainPCs == {"walk", "nothing", "report", "join", "failed", "status", "exit"}

TypeInv ==
    /\ args \in ArgChoices /\ kind \in KindChoices
    /\ pending \subseteq Results /\ stopped \in BOOLEAN
    /\ pc \in [Workers -> PCs] /\ current \in [Workers -> Results]
    /\ buffer \in [Workers -> SUBSET Results]
    /\ matched \in BOOLEAN /\ searched \in BOOLEAN /\ errored \in BOOLEAN
    /\ stats \in Nat
    /\ channel \in Seq(Results)
    /\ printer \in {"none", "running", "done", "BrokenPipe", "Other"}
    /\ report \in Nat
    /\ printed \in [Results -> Nat]
    /\ trouble \subseteq {"BrokenPipe", "Other", "stderr"}
    /\ mainpc \in MainPCs /\ status \in {0, 1, 2, NoStatus}

\* Where a result may be on its way.
Contents(q) == {q[i] : i \in 1 .. Len(q)}
Distinct(q) == \A i, j \in 1 .. Len(q) : q[i] = q[j] => i = j
Busy(w) == pc[w] # "idle"
At(w, r, places) == current[w] = r /\ pc[w] \in places
Unprinted(w) ==
    \/ pc[w] \in {"search", "found", "write", "send"}
    \/ ~Serial /\ pc[w] \in {"store", "count", "print"}

\* A result that has been delivered is in one place at a time.
PlaceInv ==
    /\ \A w \in Workers : Busy(w) =>
         /\ w \in Threads /\ current[w] \notin pending
         /\ mainpc \in {"walk", "exit"} /\ args.mode # "hopeless"
         /\ current[w] \notin Contents(channel)
    /\ \A v, w \in Workers :
         Busy(v) /\ Busy(w) /\ current[v] = current[w] => v = w
    /\ Distinct(channel)
    /\ \A r \in Contents(channel) :
         r \notin pending /\ IsHaystack(r) /\ printed[r] = 0
    /\ channel # <<>> => args.mode = "files_parallel"
    /\ args.mode = "hopeless" => pending = Results

\* What a worker knows of the result it works on.
StageInv(w) ==
    /\ pc[w] \in {"search", "store", "count", "print", "printmessage", "decide"} =>
         SearchMode
    /\ pc[w] \in {"search", "store", "count", "print"} => IsHaystack(current[w])
    /\ pc[w] \in {"store", "count", "print"} => kind[current[w]] # "searcherr"
    /\ pc[w] = "print" => ~Serial
    /\ pc[w] \in {"found", "write", "send"} => FilesMode /\ IsHaystack(current[w])
    /\ pc[w] = "write" => Serial
    /\ pc[w] = "send" => ~Serial
    /\ ~Serial /\ pc[w] = "search" => buffer[w] = {}
    /\ ~Serial /\ pc[w] \in {"store", "count", "print"} => buffer[w] = Lines(w)
    /\ Unprinted(w) => printed[current[w]] = 0

\* What is on stdout.
PrintInv ==
    \A r \in Results :
        /\ printed[r] <= 1
        /\ r \in pending => printed[r] = 0
        /\ printed[r] = 1 =>
             /\ ~args.quiet \/ FilesMode
             /\ r \in Matches \/ (args.mode = "search" /\ kind[r] = "searcherr")

\* What the flags say of the results that have been delivered.
FlagInv ==
    /\ errored => Faulty \/ "Other" \in trouble
    /\ matched => Matches # {} /\ args.mode # "hopeless"
    /\ searched => Haystacks # {}
    /\ SearchMode /\ ~searched => \A r \in Results \ pending : ~IsHaystack(r)
    /\ SearchMode /\ ~searched =>
         ~stopped /\ \A w \in Workers : pc[w] \in {"idle", "message"}
    /\ \A r \in Results \ pending : kind[r] = "walkerr" => errored
    /\ \A r \in Results \ pending : SearchMode /\ kind[r] = "searcherr" =>
         errored \/ \E w \in Workers : At(w, r, {"search"})

\* The same if stdout and stderr work: a match is known, printed and counted,
\* or some worker is about to see to it.
CleanInv ==
    trouble = {} =>
        /\ stopped \/ (\E w \in Workers : pc[w] = "quit") => matched /\ QuitAfterMatch
        /\ \A r \in Matches \ pending :
             matched \/ \E w \in Workers : At(w, r, {"search", "store", "found"})
        /\ ~args.quiet => \A r \in Matches \ pending :
             \/ printed[r] = 1
             \/ r \in Contents(channel)
             \/ \E w \in Workers : current[w] = r /\ Unprinted(w)

\* The searches that have been counted.
Searched == {r \in Results : kind[r] \in {"match", "nomatch"}}
Counted == {r \in Searched \ pending :
              \A w \in Workers : ~At(w, r, {"search", "store", "count"})}
CountInv ==
    trouble = {} /\ SearchMode /\ args.stats => stats = Cardinality(Counted)

\* What the main thread and the print thread know.
MainInv ==
    /\ status # NoStatus <=> mainpc = "exit"
    /\ mainpc = "failed" => "Other" \in trouble
    /\ printer = "none" <=> args.mode # "files_parallel"
    /\ printer \in {"BrokenPipe", "Other"} => printer \in trouble
    /\ printer = "done" => channel = <<>> /\ mainpc # "walk"
    /\ mainpc = "join" => args.mode = "files_parallel"
    /\ mainpc \in {"nothing", "report"} => SearchMode
    /\ status = 2 => errored \/ "stderr" \in trouble \/ "Other" \in trouble
    /\ trouble = {} =>
         /\ mainpc # "walk" /\ args.mode # "hopeless" =>
              /\ pending = {} \/ stopped
              /\ SearchMode /\ args.implicit /\ ~searched => errored
         /\ mainpc = "exit" => status = ExitStatus
         /\ mainpc \in {"status", "exit"} =>
              /\ args.mode = "files_parallel" => printer = "done"
              /\ SearchMode /\ args.stats => report = stats
         /\ mainpc # "walk" => \A w \in Workers : ~Busy(w)

Inv == /\ TypeInv /\ PlaceInv /\ (\A w \in Workers : StageInv(w)) /\ PrintInv
       /\ FlagInv /\ CleanInv /\ CountInv /\ MainInv
-----------------------------------------------------------------------------
(* Facts about the operators.                                              *)

\* The command line and the tree are what they are.
LEMMA InputType ==
    ASSUME TypeInv
    PROVE  /\ args.mode \in Modes /\ kind \in [Results -> Kinds]
           /\ args.quiet \in BOOLEAN /\ args.stats \in BOOLEAN
           /\ args.implicit \in BOOLEAN /\ args.messages \in BOOLEAN
<1>1. args \in Args /\ kind \in [Results -> Kinds]
  BY DriverAssumption DEF TypeInv
<1> QED BY <1>1 DEF Args

\* ... and stay what they are.
LEMMA SameInput ==
    ASSUME UNCHANGED <<args, kind>>
    PROVE  /\ (SearchMode' <=> SearchMode) /\ (FilesMode' <=> FilesMode)
           /\ (Serial' <=> Serial) /\ Threads' = Threads
           /\ (QuitAfterMatch' <=> QuitAfterMatch)
           /\ \A r : IsHaystack(r)' <=> IsHaystack(r)
           /\ Haystacks' = Haystacks /\ Matches' = Matches /\ Searched' = Searched
           /\ (Faulty' <=> Faulty)
<1>1. /\ (SearchMode' <=> SearchMode) /\ (FilesMode' <=> FilesMode)
      /\ (Serial' <=> Serial) /\ Threads' = Threads
      /\ (QuitAfterMatch' <=> QuitAfterMatch)
      /\ \A r : IsHaystack(r)' <=> IsHaystack(r)
      /\ Searched' = Searched
  BY DEF SearchMode, FilesMode, Serial, Threads, QuitAfterMatch, IsHaystack, Searched
<1>2. Haystacks' = Haystacks
  BY <1>1 DEF Haystacks
<1>3. Matches' = Matches
  BY <1>1, <1>2 DEF Matches
<1>4. Faulty' <=> Faulty
  BY <1>1, <1>2 DEF Faulty
<1> QED BY <1>1, <1>2, <1>3, <1>4

\* Sending a path puts it behind those in the channel.
LEMMA AppendContents ==
    ASSUME NEW q \in Seq(Results), NEW r \in Results
    PROVE  /\ Append(q, r) \in Seq(Results) /\ Append(q, r) # <<>>
           /\ Contents(Append(q, r)) = Contents(q) \cup {r}
           /\ Distinct(q) /\ r \notin Contents(q) => Distinct(Append(q, r))
<1>1. /\ Len(q) \in Nat /\ Append(q, r) \in Seq(Results)
      /\ Len(Append(q, r)) = Len(q) + 1
      /\ \A i \in 1 .. Len(q) : Append(q, r)[i] = q[i]
      /\ Append(q, r)[Len(q) + 1] = r
  OBVIOUS
<1>2. Append(q, r) # <<>>
  BY <1>1
<1>3. Contents(Append(q, r)) = Contents(q) \cup {r}
  <2>1. \A i \in 1 .. (Len(q) + 1) : i \in 1 .. Len(q) \/ i = Len(q) + 1
    BY <1>1
  <2>2. \A i \in 1 .. Len(q) : i \in 1 .. (Len(q) + 1)
    BY <1>1
  <2>3. Len(q) + 1 \in 1 .. (Len(q) + 1)
    BY <1>1
  <2> QED BY <1>1, <2>1, <2>2, <2>3 DEF Contents
<1>4. ASSUME Distinct(q), r \notin Contents(q) PROVE Distinct(Append(q, r))
  BY <1>1, <1>4 DEF Distinct, Contents
<1> QED BY <1>1, <1>2, <1>3, <1>4

\* The print thread takes the path that has waited longest.
LEMMA HeadContents ==
    ASSUME NEW q \in Seq(Results), q # <<>>
    PROVE  /\ Head(q) \in Results /\ Tail(q) \in Seq(Results)
           /\ Contents(q) = Contents(Tail(q)) \cup {Head(q)}
           /\ Distinct(q) => Distinct(Tail(q)) /\ Head(q) \notin Contents(Tail(q))
<1>1. /\ Len(q) \in Nat \ {0} /\ Tail(q) \in Seq(Results)
      /\ Len(Tail(q)) = Len(q) - 1
      /\ \A i \in 1 .. (Len(q) - 1) : Tail(q)[i] = q[i + 1]
      /\ Head(q) = q[1] /\ Head(q) \in Results
  OBVIOUS
<1>2. Contents(q) = Contents(Tail(q)) \cup {Head(q)}
  <2>1. \A i \in 1 .. Len(q) : i = 1 \/ (i - 1 \in 1 .. (Len(q) - 1) /\ (i - 1) + 1 = i)
    BY <1>1
  <2>2. \A i \in 1 .. (Len(q) - 1) : i + 1 \in 1 .. Len(q)
    BY <1>1
  <2>3. 1 \in 1 .. Len(q)
    BY <1>1
  <2> QED BY <1>1, <2>1, <2>2, <2>3 DEF Contents
<1>3. ASSUME Distinct(q) PROVE Distinct(Tail(q)) /\ Head(q) \notin Contents(Tail(q))
  <2>1. \A i \in 1 .. (Len(q) - 1) : i + 1 \in 1 .. Len(q) /\ i + 1 # 1 /\ 1 \in 1 .. Len(q)
    BY <1>1
  <2>2. Head(q) \notin Contents(Tail(q))
    BY <1>1, <1>3, <2>1 DEF Contents, Distinct
  <2>3. Distinct(Tail(q))
    BY <1>1, <1>3, <2>1 DEF Distinct
  <2> QED BY <2>2, <2>3
<1> QED BY <1>1, <1>2, <1>3

\* Results that can be counted can be counted up to a number.
LEMMA CountedFinite ==
    /\ IsFiniteSet(Counted) /\ Cardinality(Counted) \in Nat
    /\ IsFiniteSet(Searched) /\ Cardinality(Searched) \in Nat
    /\ NoReport \in Nat
<1>1. Counted \subseteq Results /\ Searched \subseteq Results /\ IsFiniteSet(Results)
  BY DriverAssumption DEF Counted, Searched
<1>2. Cardinality(Results) \in Nat
  BY <1>1, FS_CardinalityType
<1> QED BY <1>1, <1>2, FS_Subset, FS_CardinalityType DEF NoReport
-----------------------------------------------------------------------------
(* What steps of one thread leave to the others.                           *)

\* A worker that does not move, and whose result is not printed meanwhile,
\* knows what it knew.
LEMMA OtherStage ==
    ASSUME UNCHANGED <<args, kind>>, NEW v \in Workers, StageInv(v),
           pc'[v] = pc[v], current'[v] = current[v], buffer'[v] = buffer[v],
           Busy(v) => printed'[current[v]] = printed[current[v]]
    PROVE  StageInv(v)'
<1>1. Lines(v)' = Lines(v)
  BY DEF Lines, HasMatch
<1>2. Unprinted(v)' <=> Unprinted(v)
  BY SameInput DEF Unprinted
<1>3. Unprinted(v) => printed'[current[v]] = printed[current[v]]
  BY DEF Unprinted, Busy
<1> QED BY <1>1, <1>2, <1>3, SameInput DEF StageInv

\* Any thread may end the process, or the main thread report its failure, when
\* stdout or stderr has failed.
LEMMA ExitKeeps ==
    ASSUME Inv, UNCHANGED <<input, walkVars, workerVars, flagVars, stats, channel,
                            printer, report, printed>>,
           trouble \subseteq trouble', trouble' # {},
           trouble' \subseteq {"BrokenPipe", "Other", "stderr"},
           mainpc' = "exit", status' \in {0, 2},
           status' = 2 => "stderr" \in trouble' \/ "Other" \in trouble'
    PROVE  Inv'
<1> USE DEF Inv, input, walkVars, workerVars, flagVars
<1>1. TypeInv'
  BY DEF TypeInv, MainPCs
<1>2. PlaceInv'
  BY SameInput DEF PlaceInv, Busy
<1>3. \A w \in Workers : StageInv(w)'
  BY OtherStage
<1>4. PrintInv'
  BY SameInput DEF PrintInv
<1>5. FlagInv'
  BY SameInput DEF FlagInv, At
<1>6. CleanInv' /\ CountInv'
  BY DEF CleanInv, CountInv
<1>7. MainInv'
  <2>1. status' # NoStatus /\ mainpc' # "failed" /\ mainpc' # "join"
        /\ mainpc' \notin {"nothing", "report"} /\ mainpc' # "walk"
    BY DEF NoStatus
  <2>2. /\ printer' = "none" <=> args'.mode # "files_parallel"
        /\ printer' \in {"BrokenPipe", "Other"} => printer' \in trouble'
        /\ printer' = "done" => channel' = <<>>
    BY DEF MainInv
  <2> QED BY <2>1, <2>2 DEF MainInv
<1> QED BY <1>1, <1>2, <1>3, <1>4, <1>5, <1>6, <1>7

\* What most steps of a worker leave alone: it goes on to p, still with the
\* result that it has, and may print that, but no other.
WorkerFrame(w, p) ==
    /\ UNCHANGED <<args, kind, pending, current, channel, searched, printer,
                   report, status>>
    /\ pc' = [pc EXCEPT ![w] = p]
    /\ buffer' \in [Workers -> SUBSET Results]
    /\ \A v \in Workers \ {w} : buffer'[v] = buffer[v]
    /\ printed' \in [Results -> Nat]
    /\ \A r \in Results \ {current[w]} : printed'[r] = printed[r]
    /\ stats' \in Nat
    /\ matched' \in BOOLEAN /\ errored' \in BOOLEAN /\ stopped' \in BOOLEAN
    /\ trouble \subseteq trouble' /\ trouble' \subseteq {"BrokenPipe", "Other", "stderr"}
    /\ mainpc' = mainpc \/ (mainpc' = "failed" /\ Serial /\ p = "idle"
                                               /\ "Other" \in trouble')

\* How such a step may change the flags.
FlagsKept(w, p) ==
    /\ pc[w] = "message" => p = "idle"
    /\ errored => errored'
    /\ errored' => errored \/ Faulty \/ "Other" \in trouble'
    /\ pc[w] = "search" => errored' \/ p = "search" \/ kind[current[w]] # "searcherr"
    /\ matched => matched'
    /\ matched' => matched \/ Matches # {}
    /\ stopped => stopped'
    /\ stopped' => stopped \/ pc[w] = "quit"

\* What it has to see to if stdout and stderr work.
MatchKept(w, p) ==
    trouble' = {} =>
        /\ p = "quit" => matched' /\ QuitAfterMatch
        /\ pc[w] \in {"search", "store", "found"} /\ current[w] \in Matches =>
              matched' \/ p \in {"search", "store", "found"}
        /\ Unprinted(w) /\ current[w] \in Matches /\ ~args.quiet =>
              \/ printed'[current[w]] = 1
              \/ p \in {"search", "found", "write", "send"}
              \/ ~Serial /\ p \in {"store", "count", "print"}
        /\ printed[current[w]] = 1 => printed'[current[w]] = 1

\* What it may have printed.
PrintKept(w) ==
    \/ printed'[current[w]] = printed[current[w]]
    \/ /\ printed[current[w]] = 0 /\ printed'[current[w]] = 1
       /\ ~args.quiet \/ FilesMode
       /\ current[w] \in Matches
            \/ (args.mode = "search" /\ kind[current[w]] = "searcherr")

\* Such a step keeps the invariant.
LEMMA WorkerKeeps ==
    ASSUME Inv, Alive, NEW w \in Workers, Busy(w), NEW p \in PCs,
           WorkerFrame(w, p), FlagsKept(w, p), MatchKept(w, p), PrintKept(w),
           StageInv(w)', CountInv'
    PROVE  Inv'
<1> USE DEF Inv
<1>1. /\ pc \in [Workers -> PCs] /\ pc' \in [Workers -> PCs] /\ pc'[w] = p
      /\ \A v \in Workers \ {w} : pc'[v] = pc[v]
      /\ UNCHANGED <<args, kind, pending, current, channel, searched, printer,
                     report, status>>
      /\ current[w] \in Results
  BY DEF WorkerFrame, TypeInv
<1>2. TypeInv'
  <2>1. mainpc' \in MainPCs
    BY DEF TypeInv, WorkerFrame, MainPCs
  <2> QED BY <1>1, <2>1 DEF TypeInv, WorkerFrame
<1>3. /\ \A v \in Workers : Busy(v)' => Busy(v)
      /\ w \in Threads /\ current[w] \notin pending /\ current[w] \notin Contents(channel)
      /\ mainpc = "walk" /\ args.mode # "hopeless"
      /\ \A v \in Workers \ {w} : Busy(v) => current[v] # current[w]
  <2>1. mainpc = "walk"
    BY DEF PlaceInv, MainInv, Alive
  <2> QED BY <1>1, <2>1 DEF PlaceInv, Busy
<1>4. \A r \in Results \ {current[w]} : printed'[r] = printed[r]
  BY DEF WorkerFrame
<1>5. mainpc' # mainpc => \A v \in Workers : ~Busy(v)'
  <2>1. ASSUME mainpc' # mainpc, NEW v \in Workers, Busy(v)' PROVE FALSE
    <3>1. Serial /\ p = "idle"
      BY <2>1 DEF WorkerFrame
    <3>2. Busy(v) /\ v # w
      BY <1>1, <1>3, <2>1, <3>1 DEF Busy
    <3> QED BY <1>3, <3>1, <3>2 DEF PlaceInv, Threads
  <2> QED BY <2>1
<1>6. PlaceInv'
  <2>1. /\ \A v \in Workers : Busy(v)' =>
             /\ v \in Threads /\ current[v] \notin pending
             /\ args.mode # "hopeless" /\ current[v] \notin Contents(channel)
        /\ \A v \in Workers : Busy(v)' => mainpc' \in {"walk", "exit"}
    BY <1>3, <1>5 DEF PlaceInv
  <2>2. \A v, u \in Workers : Busy(v)' /\ Busy(u)' /\ current[v] = current[u] => v = u
    BY <1>3 DEF PlaceInv
  <2>3. \A r \in Contents(channel) :
             r \notin pending /\ IsHaystack(r) /\ printed'[r] = 0
    <3>1. Contents(channel) \subseteq Results
      BY DEF TypeInv, Contents
    <3> QED BY <1>3, <1>4, <3>1 DEF PlaceInv
  <2>4. Distinct(channel) /\ (channel # <<>> => args.mode = "files_parallel")
        /\ (args.mode = "hopeless" => pending = Results)
    BY DEF PlaceInv
  <2> QED BY <1>1, <2>1, <2>2, <2>3, <2>4, SameInput DEF PlaceInv
<1>7. \A v \in Workers : StageInv(v)'
  <2>1. ASSUME NEW v \in Workers, v # w PROVE StageInv(v)'
    <3>1. buffer'[v] = buffer[v] /\ current'[v] = current[v] /\ pc'[v] = pc[v]
      BY <1>1, <2>1 DEF WorkerFrame
    <3>2. Busy(v) => printed'[current[v]] = printed[current[v]]
      BY <1>3, <1>4, <2>1 DEF TypeInv
    <3> QED BY <1>1, <3>1, <3>2, OtherStage
  <2> QED BY <2>1
<1>8. PrintInv'
  <2>1. ASSUME NEW r \in Results, r # current[w]
        PROVE  /\ printed'[r] <= 1
               /\ r \in pending => printed'[r] = 0
               /\ printed'[r] = 1 =>
                    /\ ~args.quiet \/ FilesMode
                    /\ r \in Matches \/ (args.mode = "search" /\ kind[r] = "searcherr")
    BY <1>4, <2>1 DEF PrintInv
  <2>2. /\ printed'[current[w]] <= 1
        /\ current[w] \in pending => printed'[current[w]] = 0
        /\ printed'[current[w]] = 1 =>
             /\ ~args.quiet \/ FilesMode
             /\ current[w] \in Matches
                  \/ (args.mode = "search" /\ kind[current[w]] = "searcherr")
    BY <1>1, <1>3 DEF PrintInv, PrintKept
  <2> QED BY <1>1, <2>1, <2>2, SameInput DEF PrintInv
<1>9. FlagInv'
  <2>1. errored' => Faulty \/ "Other" \in trouble'
    BY DEF FlagInv, FlagsKept, WorkerFrame
  <2>2. matched' => Matches # {} /\ args.mode # "hopeless"
    BY <1>3 DEF FlagInv, FlagsKept
  <2>3. SearchMode /\ ~searched => ~stopped' /\ \A v \in Workers : pc'[v] \in {"idle", "message"}
    <3>1. SearchMode /\ ~searched => pc[w] = "message" /\ ~stopped
      BY DEF FlagInv, Busy
    <3>2. SearchMode /\ ~searched => p = "idle" /\ ~stopped'
      BY <3>1 DEF FlagsKept
    <3> QED BY <1>1, <3>2 DEF FlagInv
  <2>4. \A r \in Results \ pending : kind[r] = "walkerr" => errored'
    BY DEF FlagInv, FlagsKept
  <2>5. \A r \in Results \ pending : SearchMode /\ kind[r] = "searcherr" =>
           errored' \/ \E v \in Workers : current[v] = r /\ pc'[v] = "search"
    <3>1. SUFFICES ASSUME NEW r \in Results \ pending, SearchMode, kind[r] = "searcherr",
                          ~errored'
                   PROVE  \E v \in Workers : current[v] = r /\ pc'[v] = "search"
      OBVIOUS
    <3>2. PICK v \in Workers : current[v] = r /\ pc[v] = "search"
      BY <3>1 DEF FlagInv, FlagsKept, At
    <3>3. pc'[v] = "search"
      BY <1>1, <3>1, <3>2 DEF FlagsKept
    <3> QED BY <3>2, <3>3
  <2>6. /\ SearchMode /\ ~searched => \A r \in Results \ pending : ~IsHaystack(r)
        /\ searched => Haystacks # {}
    BY DEF FlagInv
  <2> QED BY <1>1, <2>1, <2>2, <2>3, <2>4, <2>5, <2>6, SameInput DEF FlagInv, At
<1>10. CleanInv'
  <2>1. SUFFICES ASSUME trouble' = {} PROVE CleanInv'
    BY DEF CleanInv
  <2>2. trouble = {}
    BY <2>1 DEF WorkerFrame
  <2>3. stopped' \/ (\E v \in Workers : pc'[v] = "quit") => matched' /\ QuitAfterMatch
    <3>1. stopped \/ (\E v \in Workers : pc[v] = "quit") => matched /\ QuitAfterMatch
      BY <2>2 DEF CleanInv
    <3>2. p = "quit" => matched' /\ QuitAfterMatch
      BY <2>1 DEF MatchKept
    <3>3. stopped' => stopped \/ pc[w] = "quit"
      BY DEF FlagsKept
    <3>4. matched => matched'
      BY DEF FlagsKept
    <3>5. (\E v \in Workers : pc'[v] = "quit") => p = "quit" \/ \E v \in Workers : pc[v] = "quit"
      BY <1>1
    <3> QED BY <3>1, <3>2, <3>3, <3>4, <3>5
  <2>4. \A r \in Matches \ pending :
          matched' \/ \E v \in Workers : current[v] = r /\ pc'[v] \in {"search", "store", "found"}
    <3>1. SUFFICES ASSUME NEW r \in Matches \ pending, ~matched'
                   PROVE  \E v \in Workers : current[v] = r
                                /\ pc'[v] \in {"search", "store", "found"}
      OBVIOUS
    <3>2. PICK v \in Workers : current[v] = r /\ pc[v] \in {"search", "store", "found"}
      BY <2>2, <3>1 DEF CleanInv, FlagsKept, At
    <3>3. pc'[v] \in {"search", "store", "found"}
      BY <1>1, <2>1, <3>1, <3>2 DEF MatchKept
    <3> QED BY <3>2, <3>3
  <2>5. ASSUME ~args.quiet, NEW r \in Matches \ pending
        PROVE  \/ printed'[r] = 1
               \/ r \in Contents(channel)
               \/ \E v \in Workers : current[v] = r /\ Unprinted(v)'
    <3>0. r \in Results
      BY DEF Matches, Haystacks
    <3>1. CASE printed[r] = 1
      BY <1>4, <2>1, <3>0, <3>1 DEF MatchKept
    <3>2. CASE r \in Contents(channel)
      BY <3>2
    <3>3. ASSUME NEW v \in Workers, current[v] = r, Unprinted(v)
          PROVE  printed'[r] = 1 \/ Unprinted(v)'
      <4>1. CASE v = w
        <5>1. \/ printed'[current[w]] = 1
              \/ p \in {"search", "found", "write", "send"}
              \/ ~Serial /\ p \in {"store", "count", "print"}
          BY <2>1, <2>5, <3>3, <4>1 DEF MatchKept
        <5> QED BY <1>1, <3>3, <4>1, <5>1, SameInput DEF Unprinted
      <4>2. CASE v # w
        BY <1>1, <3>3, <4>2, SameInput DEF Unprinted
      <4> QED BY <4>1, <4>2
    <3> QED BY <2>2, <2>5, <3>1, <3>2, <3>3 DEF CleanInv
  <2> QED BY <1>1, <2>3, <2>4, <2>5, SameInput DEF CleanInv, At
<1>11. MainInv'
  <2>1. /\ status' = NoStatus /\ mainpc' \in {"walk", "failed"} /\ status' # 2
        /\ mainpc' = "failed" => "Other" \in trouble'
    BY <1>1, <1>3 DEF Alive, WorkerFrame, NoStatus
  <2>2. /\ printer' = "none" <=> args'.mode # "files_parallel"
        /\ printer' \in {"BrokenPipe", "Other"} => printer' \in trouble'
        /\ printer' # "done"
    BY <1>1, <1>3 DEF MainInv, WorkerFrame
  <2> QED BY <2>1, <2>2 DEF MainInv
<1> QED BY <1>2, <1>6, <1>7, <1>8, <1>9, <1>10, <1>11
-----------------------------------------------------------------------------
(* The steps of a worker.                                                  *)

\* A step that does not finish a search leaves the count as it is.
LEMMA SameCount ==
    ASSUME Inv, NEW w \in Workers, NEW p \in PCs,
           UNCHANGED <<args, kind, pending, current, stats>>,
           pc' = [pc EXCEPT ![w] = p], trouble \subseteq trouble',
           p \in {"search", "store", "count"} => pc[w] \in {"search", "store", "count"},
           pc[w] \in {"search", "store", "count"} /\ trouble' = {} =>
               \/ p \in {"search", "store", "count"}
               \/ kind[current[w]] = "searcherr"
    PROVE  CountInv'
<1>1. SUFFICES ASSUME trouble' = {}, SearchMode, args.stats
               PROVE  stats = Cardinality(Counted)'
  BY SameInput DEF CountInv
<1>2. stats = Cardinality(Counted)
  BY <1>1 DEF Inv, CountInv
<1>3. /\ pc'[w] = p /\ \A v \in Workers \ {w} : pc'[v] = pc[v]
  BY DEF Inv, TypeInv
<1>4. \A r \in Searched : kind[r] # "searcherr"
  BY DEF Searched
<1>5. ASSUME NEW r \in Searched, NEW v \in Workers
      PROVE  At(v, r, {"search", "store", "count"})'
                <=> At(v, r, {"search", "store", "count"})
  <2>1. CASE v = w
    BY <1>1, <1>3, <1>4, <2>1 DEF At
  <2>2. CASE v # w
    BY <1>3, <2>2 DEF At
  <2> QED BY <2>1, <2>2
<1>6. Counted' = Counted
  <2>1. Searched' = Searched
    BY SameInput
  <2> QED BY <1>5, <2>1 DEF Counted
<1> QED BY <1>2, <1>6

\* A write of what is at most the worker's own result.
LEMMA WriteOne ==
    ASSUME TypeInv, NEW w \in Workers, NEW S, S = {} \/ S = {current[w]}, Write(S)
    PROVE  /\ printed' \in [Results -> Nat]
           /\ \A r \in Results \ {current[w]} : printed'[r] = printed[r]
           /\ S = {} => printed'[current[w]] = printed[current[w]]
           /\ S # {} => printed'[current[w]] = printed[current[w]] + 1
           /\ trouble' = trouble
<1>1. printed' = [r \in Results |-> printed[r] + (IF r \in S THEN 1 ELSE 0)]
      /\ trouble' = trouble
  BY DEF Write
<1>2. printed \in [Results -> Nat] /\ current[w] \in Results
  BY DEF TypeInv
<1> QED BY <1>1, <1>2

\* A write that fails is remembered.
LEMMA WriteFailsType ==
    ASSUME TypeInv, NEW f \in Failures, WriteFails(f)
    PROVE  /\ trouble \subseteq trouble' /\ f \in trouble' /\ trouble' # {}
           /\ trouble' \subseteq {"BrokenPipe", "Other", "stderr"}
           /\ printed' = printed
  BY DEF TypeInv, WriteFails, Failures

\* Messages are written while nothing else happens, or end the process.
LEMMA MessageKeeps ==
    ASSUME Inv, NEW w \in Workers, Message(w)
    PROVE  Inv'
<1>1. CASE \E f \in Failures : Complain(f)
  <2>1. PICK f \in Failures : Complain(f)
    BY <1>1
  <2>2. UNCHANGED <<input, walkVars, workerVars, flagVars, stats, channel,
                    printer, report, printed>>
    <3>1. status' # status
      BY <2>1 DEF Message, Complain, Exit, ComplaintStatus, Alive, NoStatus
    <3> QED BY <3>1 DEF Message, workerVars, mainVars
  <2>3. /\ trouble \subseteq trouble' /\ trouble' # {}
        /\ trouble' \subseteq {"BrokenPipe", "Other", "stderr"}
        /\ mainpc' = "exit" /\ status' \in {0, 2} /\ "stderr" \in trouble'
    BY <2>1 DEF Complain, Exit, ComplaintStatus, Inv, TypeInv
  <2> QED BY <2>2, <2>3, ExitKeeps
<1>2. CASE ~ \E f \in Failures : Complain(f)
  <2> DEFINE p == IF pc[w] = "message" THEN "idle" ELSE "decide"
  <2>1. /\ Alive /\ pc[w] \in {"message", "printmessage"}
        /\ pc' = [pc EXCEPT ![w] = p] /\ p \in PCs
        /\ UNCHANGED <<args, kind, pending, stopped, current, buffer, matched,
                       searched, errored, stats, channel, printer, report,
                       printed, trouble, mainpc, status>>
    BY <1>2 DEF Message, Goto, input, walkVars, flagVars, mainVars, PCs
  <2>2. WorkerFrame(w, p) /\ FlagsKept(w, p) /\ MatchKept(w, p) /\ PrintKept(w)
    <3>1. TypeInv
      BY DEF Inv
    <3>2. WorkerFrame(w, p)
      BY <2>1, <3>1 DEF WorkerFrame, TypeInv
    <3>3. FlagsKept(w, p) /\ PrintKept(w)
      BY <2>1 DEF FlagsKept, PrintKept
    <3>4. MatchKept(w, p)
      BY <2>1 DEF MatchKept, Unprinted
    <3> QED BY <3>2, <3>3, <3>4
  <2>3. StageInv(w)'
    <3>1. pc'[w] = p /\ (p = "decide" => SearchMode)
      BY <2>1 DEF Inv, TypeInv, StageInv
    <3> QED BY <2>1, <3>1, SameInput DEF StageInv, Unprinted
  <2>4. CountInv'
    BY <2>1, SameCount
  <2> QED BY <2>1, <2>2, <2>3, <2>4, WorkerKeeps DEF Busy
<1> QED BY <1>1, <1>2

\* A search that fails raises the flag.
LEMMA SearchFailsKeeps ==
    ASSUME Inv, NEW w \in Workers, SearchFails(w)
    PROVE  Inv'
<1>1. /\ Alive /\ pc[w] = "search" /\ kind[current[w]] = "searcherr"
      /\ errored' = TRUE /\ pc' = [pc EXCEPT ![w] = "message"] /\ "message" \in PCs
      /\ UNCHANGED <<args, kind, pending, stopped, current, matched, searched,
                     stats, channel, printer, report, mainpc, status>>
  BY DEF SearchFails, Goto, SetErrored, input, walkVars, mainVars, PCs
<1>2. /\ TypeInv /\ current[w] \in Results /\ printed[current[w]] = 0
      /\ SearchMode /\ args.mode # "hopeless"
      /\ trouble \subseteq {"BrokenPipe", "Other", "stderr"}
  BY <1>1 DEF Inv, TypeInv, StageInv, Unprinted, SearchMode
<1>3. /\ \A r \in Results \ {current[w]} : printed'[r] = printed[r]
      /\ printed' \in [Results -> Nat] /\ trouble' = trouble
      /\ buffer' \in [Workers -> SUBSET Results]
      /\ \A v \in Workers \ {w} : buffer'[v] = buffer[v]
      /\ printed'[current[w]] = printed[current[w]] \/
           (Serial /\ ~args.quiet /\ printed'[current[w]] = 1)
  <2>1. CASE Serial
    <3>1. PICK S \in {{}, {current[w]}} : Write(IF args.quiet THEN {} ELSE S)
      BY <2>1 DEF SearchFails
    <3>2. buffer' = buffer
      BY <2>1 DEF SearchFails
    <3>3. /\ \A r \in Results \ {current[w]} : printed'[r] = printed[r]
          /\ printed' \in [Results -> Nat] /\ trouble' = trouble
          /\ printed'[current[w]] = printed[current[w]] \/
               (~args.quiet /\ printed'[current[w]] = 1)
      <4>1. CASE args.quiet \/ S = {}
        BY <1>2, <3>1, <4>1, WriteOne
      <4>2. CASE ~args.quiet /\ S = {current[w]}
        BY <1>2, <3>1, <4>2, WriteOne
      <4> QED BY <3>1, <4>1, <4>2
    <3> QED BY <1>2, <2>1, <3>2, <3>3 DEF TypeInv
  <2>2. CASE ~Serial
    <3>1. PICK S \in {{}, {current[w]}} :
              buffer' = [buffer EXCEPT ![w] = @ \cup S] /\ UNCHANGED outVars
      BY <2>2 DEF SearchFails
    <3>2. buffer \in [Workers -> SUBSET Results] /\ printed \in [Results -> Nat]
      BY <1>2 DEF TypeInv
    <3> QED BY <1>2, <3>1, <3>2 DEF outVars
  <2> QED BY <2>1, <2>2
<1>4. Faulty
  BY <1>1, <1>2 DEF Faulty
<1>5. WorkerFrame(w, "message")
  BY <1>1, <1>2, <1>3 DEF WorkerFrame, TypeInv
<1>6. FlagsKept(w, "message")
  BY <1>1, <1>4 DEF FlagsKept
<1>7. MatchKept(w, "message")
  <2>1. current[w] \notin Matches
    BY <1>1, <1>2 DEF Matches, SearchMode, FilesMode
  <2> QED BY <1>2, <2>1 DEF MatchKept
<1>8. PrintKept(w)
  <2>1. Serial => args.mode = "search"
    BY <1>2 DEF Serial, SearchMode
  <2> QED BY <1>1, <1>2, <1>3, <2>1 DEF PrintKept
<1>9. StageInv(w)'
  <2>1. pc'[w] = "message"
    BY <1>1, <1>2 DEF TypeInv
  <2> QED BY <2>1 DEF StageInv, Unprinted
<1>10. CountInv'
  BY <1>1, <1>3, SameCount
<1> QED BY <1>1, <1>5, <1>6, <1>7, <1>8, <1>9, <1>10, WorkerKeeps DEF Busy

\* Lines are at most those of the worker's result, and those only of a match.
LEMMA LinesType ==
    ASSUME NEW w \in Workers, SearchMode
    PROVE  /\ Lines(w) = {} \/ Lines(w) = {current[w]}
           /\ Lines(w) # {} => ~args.quiet
           /\ current[w] \in Matches /\ ~args.quiet => Lines(w) # {}
           /\ Lines(w) # {} /\ current[w] \in Results => current[w] \in Matches
  BY DEF Lines, HasMatch, Matches, SearchMode, FilesMode

\* A search that ends in a thread of the walk leaves its lines in the buffer.
LEMMA SearchEndsKeeps ==
    ASSUME Inv, NEW w \in Workers, SearchEnds(w)
    PROVE  Inv'
<1>1. /\ Alive /\ pc[w] = "search" /\ kind[current[w]] # "searcherr" /\ ~Serial
      /\ pc' = [pc EXCEPT ![w] = "store"] /\ "store" \in PCs
      /\ buffer' = [buffer EXCEPT ![w] = @ \cup Lines(w)]
      /\ UNCHANGED <<args, kind, pending, stopped, current, matched, searched,
                     errored, stats, channel, printer, report, printed, trouble,
                     mainpc, status>>
  BY DEF SearchEnds, Goto, input, walkVars, flagVars, outVars, mainVars, PCs
<1>2. TypeInv /\ SearchMode /\ current[w] \in Results /\ buffer[w] = {}
      /\ IsHaystack(current[w]) /\ printed[current[w]] = 0
  BY <1>1 DEF Inv, TypeInv, StageInv, Unprinted
<1>3. buffer' \in [Workers -> SUBSET Results] /\ buffer'[w] = Lines(w)
      /\ \A v \in Workers \ {w} : buffer'[v] = buffer[v]
  <2>1. Lines(w) \subseteq Results
    BY <1>2, LinesType
  <2>2. buffer \in [Workers -> SUBSET Results]
    BY <1>2 DEF TypeInv
  <2> QED BY <1>1, <1>2, <2>1, <2>2
<1>4. WorkerFrame(w, "store") /\ PrintKept(w)
  BY <1>1, <1>2, <1>3 DEF WorkerFrame, TypeInv, PrintKept
<1>5. FlagsKept(w, "store") /\ MatchKept(w, "store")
  BY <1>1 DEF FlagsKept, MatchKept
<1>6. StageInv(w)'
  <2>1. pc'[w] = "store"
    BY <1>1, <1>2 DEF TypeInv
  <2>2. Lines(w)' = Lines(w)
    BY <1>1 DEF Lines, HasMatch
  <2> QED BY <1>1, <1>2, <1>3, <2>1, <2>2, SameInput DEF StageInv
<1>7. CountInv'
  BY <1>1, SameCount
<1> QED BY <1>1, <1>4, <1>5, <1>6, <1>7, WorkerKeeps DEF Busy

\* A search of the main thread has written them, or failed to.
LEMMA SearchEndsSeriallyKeeps ==
    ASSUME Inv, NEW w \in Workers, SearchEndsSerially(w)
    PROVE  Inv'
<1>1. /\ Alive /\ pc[w] = "search" /\ kind[current[w]] # "searcherr" /\ Serial
      /\ UNCHANGED <<args, kind, pending, stopped, current, buffer, matched,
                     searched, stats, channel, printer, report, mainpc, status>>
  BY DEF SearchEndsSerially, input, walkVars, mainVars
<1>2. TypeInv /\ SearchMode /\ current[w] \in Results
      /\ IsHaystack(current[w]) /\ printed[current[w]] = 0
      /\ trouble \subseteq {"BrokenPipe", "Other", "stderr"}
      /\ (Lines(w) = {} \/ Lines(w) = {current[w]})
  BY <1>1, LinesType DEF Inv, TypeInv, StageInv, Unprinted
<1>3. CASE Write(Lines(w)) /\ Goto(w, "store") /\ UNCHANGED errored
  <2>1. /\ pc' = [pc EXCEPT ![w] = "store"] /\ "store" \in PCs /\ errored' = errored
        /\ printed' \in [Results -> Nat] /\ trouble' = trouble
        /\ \A r \in Results \ {current[w]} : printed'[r] = printed[r]
        /\ Lines(w) = {} => printed'[current[w]] = 0
        /\ Lines(w) # {} => printed'[current[w]] = 1
    BY <1>2, <1>3, WriteOne DEF Goto, PCs
  <2>2. WorkerFrame(w, "store")
    BY <1>1, <1>2, <2>1 DEF WorkerFrame, TypeInv
  <2>3. FlagsKept(w, "store")
    BY <1>1, <2>1 DEF FlagsKept
  <2>4. MatchKept(w, "store") /\ PrintKept(w)
    BY <1>1, <1>2, <2>1, LinesType DEF MatchKept, PrintKept
  <2>5. StageInv(w)'
    <3>1. pc'[w] = "store"
      BY <1>2, <2>1 DEF TypeInv
    <3> QED BY <1>1, <1>2, <3>1, SameInput DEF StageInv, Unprinted
  <2>6. CountInv'
    BY <1>1, <2>1, SameCount
  <2> QED BY <1>1, <2>1, <2>2, <2>3, <2>4, <2>5, <2>6, WorkerKeeps DEF Busy
<1>4. ASSUME NEW f \in Failures, WriteFails(f),
             errored' = IF f = "BrokenPipe" THEN errored ELSE SetErrored,
             Goto(w, IF f = "BrokenPipe" THEN "quit" ELSE "message")
      PROVE  Inv'
  <2> DEFINE p == IF f = "BrokenPipe" THEN "quit" ELSE "message"
  <2>1. /\ trouble \subseteq trouble' /\ f \in trouble' /\ trouble' # {}
        /\ trouble' \subseteq {"BrokenPipe", "Other", "stderr"}
        /\ printed' = printed
    BY <1>2, <1>4, WriteFailsType
  <2>2. /\ pc' = [pc EXCEPT ![w] = p] /\ p \in PCs /\ p \in {"quit", "message"}
        /\ errored => errored'
        /\ errored' => errored \/ "Other" \in trouble'
        /\ errored' \in BOOLEAN
    BY <1>2, <1>4, <2>1 DEF Goto, PCs, SetErrored, Failures, TypeInv
  <2>3. WorkerFrame(w, p)
    BY <1>1, <1>2, <2>1, <2>2 DEF WorkerFrame, TypeInv
  <2>4. FlagsKept(w, p)
    BY <1>1, <2>2 DEF FlagsKept
  <2>5. MatchKept(w, p) /\ PrintKept(w)
    BY <2>1 DEF MatchKept, PrintKept
  <2>6. StageInv(w)'
    <3>1. pc'[w] \in {"quit", "message"}
      BY <1>2, <2>2 DEF TypeInv
    <3> QED BY <3>1 DEF StageInv, Unprinted
  <2>7. CountInv'
    BY <2>1 DEF CountInv
  <2> QED BY <1>1, <2>2, <2>3, <2>4, <2>5, <2>6, <2>7, WorkerKeeps DEF Busy
<1> QED BY <1>3, <1>4 DEF SearchEndsSerially

\* A match becomes known.
LEMMA StoreMatchedKeeps ==
    ASSUME Inv, NEW w \in Workers, StoreMatched(w)
    PROVE  Inv'
<1>1. /\ Alive /\ pc[w] = "store" /\ matched' = (matched \/ HasMatch(w))
      /\ pc' = [pc EXCEPT ![w] = "count"] /\ "count" \in PCs
      /\ UNCHANGED <<args, kind, pending, stopped, current, buffer, searched,
                     errored, stats, channel, printer, report, printed, trouble,
                     mainpc, status>>
  BY DEF StoreMatched, MatchedAfter, Goto, input, walkVars, outVars, mainVars, PCs
<1>2. TypeInv /\ SearchMode /\ current[w] \in Results
  BY <1>1 DEF Inv, TypeInv, StageInv
<1>3. HasMatch(w) <=> current[w] \in Matches
  BY <1>2 DEF HasMatch, Matches, SearchMode, FilesMode
<1>4. WorkerFrame(w, "count") /\ PrintKept(w)
  BY <1>1, <1>2 DEF WorkerFrame, TypeInv, PrintKept
<1>5. FlagsKept(w, "count") /\ MatchKept(w, "count")
  BY <1>1, <1>3 DEF FlagsKept, MatchKept, Unprinted
<1>6. StageInv(w)'
  <2>1. pc'[w] = "count"
    BY <1>1, <1>2 DEF TypeInv
  <2>2. Lines(w)' = Lines(w)
    BY <1>1 DEF Lines, HasMatch
  <2> QED BY <1>1, <1>2, <2>1, <2>2, SameInput DEF StageInv, Unprinted, Inv
<1>7. CountInv'
  BY <1>1, SameCount
<1> QED BY <1>1, <1>4, <1>5, <1>6, <1>7, WorkerKeeps DEF Busy

\* The count goes up by one when the search leaves its counting.
LEMMA AddStatsKeeps ==
    ASSUME Inv, NEW w \in Workers, AddStats(w)
    PROVE  Inv'
<1> DEFINE p == IF Serial THEN "decide" ELSE "print"
<1>1. /\ Alive /\ pc[w] = "count" /\ stats' = IF args.stats THEN stats + 1 ELSE stats
      /\ pc' = [pc EXCEPT ![w] = p] /\ p \in PCs
      /\ UNCHANGED <<args, kind, pending, stopped, current, buffer, matched, searched,
                     errored, channel, printer, report, printed, trouble, mainpc, status>>
  BY DEF AddStats, Goto, input, walkVars, flagVars, outVars, mainVars, PCs
<1>2. /\ TypeInv /\ SearchMode /\ current[w] \in Results /\ stats \in Nat
      /\ IsHaystack(current[w]) /\ kind[current[w]] # "searcherr"
      /\ current[w] \notin pending
  BY <1>1 DEF Inv, TypeInv, StageInv, PlaceInv, Busy
<1>3. WorkerFrame(w, p) /\ PrintKept(w)
  BY <1>1, <1>2 DEF WorkerFrame, TypeInv, PrintKept
<1>4. FlagsKept(w, p) /\ MatchKept(w, p)
  BY <1>1 DEF FlagsKept, MatchKept, Unprinted
<1>5. pc'[w] = p /\ \A v \in Workers \ {w} : pc'[v] = pc[v]
  BY <1>1, <1>2 DEF TypeInv
<1>6. StageInv(w)'
  <2>1. Lines(w)' = Lines(w)
    BY <1>1 DEF Lines, HasMatch
  <2> QED BY <1>1, <1>2, <1>5, <2>1, SameInput DEF StageInv, Unprinted, Inv
<1>7. CountInv'
  <2>1. SUFFICES ASSUME trouble = {}, SearchMode, args.stats
                 PROVE  stats' = Cardinality(Counted)'
    BY <1>1, SameInput DEF CountInv
  <2>2. stats = Cardinality(Counted) /\ stats' = stats + 1
    BY <1>1, <2>1 DEF Inv, CountInv
  <2>3. current[w] \in Searched \ pending
    BY <1>2 DEF Searched, IsHaystack
  <2>4. \A r \in Searched : At(w, r, {"search", "store", "count"}) <=> r = current[w]
    BY <1>1 DEF At
  <2>5. \A v \in Workers \ {w} : ~At(v, current[w], {"search", "store", "count"})
    BY <1>1 DEF Inv, PlaceInv, At, Busy
  <2>6. /\ \A r \in Searched : ~At(w, r, {"search", "store", "count"})'
        /\ \A r \in Searched, v \in Workers \ {w} :
              At(v, r, {"search", "store", "count"})'
                 <=> At(v, r, {"search", "store", "count"})
    BY <1>1, <1>5 DEF At
  <2>7. current[w] \notin Counted /\ Counted' = Counted \cup {current[w]}
    <3>1. Searched' = Searched /\ pending' = pending
      BY <1>1, SameInput
    <3>2. current[w] \notin Counted
      BY <2>4 DEF Counted
    <3>3. \A r \in Searched \ pending :
             (\A v \in Workers : ~At(v, r, {"search", "store", "count"})')
               <=> r = current[w] \/ \A v \in Workers : ~At(v, r, {"search", "store", "count"})
      BY <2>4, <2>5, <2>6
    <3> QED BY <2>3, <3>1, <3>2, <3>3 DEF Counted
  <2> QED BY <2>2, <2>7, CountedFinite, FS_AddElement
<1> QED BY <1>1, <1>3, <1>4, <1>6, <1>7, WorkerKeeps DEF Busy

\* The lines in the buffer are written, or the failure is dealt with.
LEMMA PrintBufferKeeps ==
    ASSUME Inv, NEW w \in Workers, PrintBuffer(w)
    PROVE  Inv'
<1>1. /\ Alive /\ pc[w] = "print"
      /\ UNCHANGED <<args, kind, pending, stopped, current, buffer, matched,
                     searched, stats, channel, printer, report, mainpc, status>>
  BY DEF PrintBuffer, input, walkVars, mainVars
<1>2. TypeInv /\ SearchMode /\ current[w] \in Results /\ ~Serial
      /\ IsHaystack(current[w]) /\ printed[current[w]] = 0 /\ buffer[w] = Lines(w)
      /\ trouble \subseteq {"BrokenPipe", "Other", "stderr"}
      /\ (Lines(w) = {} \/ Lines(w) = {current[w]})
  <2>1. SearchMode /\ ~Serial /\ IsHaystack(current[w]) /\ printed[current[w]] = 0
    BY <1>1 DEF Inv, StageInv, Unprinted
  <2>2. buffer[w] = Lines(w)
    BY <1>1, <2>1 DEF Inv, StageInv
  <2> QED BY <2>1, <2>2, LinesType DEF Inv, TypeInv
<1>3. CASE Write(buffer[w]) /\ Goto(w, "decide") /\ UNCHANGED errored
  <2>1. /\ pc' = [pc EXCEPT ![w] = "decide"] /\ "decide" \in PCs /\ errored' = errored
        /\ printed' \in [Results -> Nat] /\ trouble' = trouble
        /\ \A r \in Results \ {current[w]} : printed'[r] = printed[r]
        /\ Lines(w) = {} => printed'[current[w]] = 0
        /\ Lines(w) # {} => printed'[current[w]] = 1
    BY <1>2, <1>3, WriteOne DEF Goto, PCs
  <2>2. WorkerFrame(w, "decide")
    BY <1>1, <1>2, <2>1 DEF WorkerFrame, TypeInv
  <2>3. FlagsKept(w, "decide")
    BY <1>1, <2>1 DEF FlagsKept
  <2>4. MatchKept(w, "decide") /\ PrintKept(w)
    BY <1>1, <1>2, <2>1, LinesType DEF MatchKept, PrintKept
  <2>5. StageInv(w)'
    <3>1. pc'[w] = "decide"
      BY <1>2, <2>1 DEF TypeInv
    <3> QED BY <1>1, <1>2, <3>1, SameInput DEF StageInv, Unprinted
  <2>6. CountInv'
    BY <1>1, <2>1, SameCount
  <2> QED BY <1>1, <2>1, <2>2, <2>3, <2>4, <2>5, <2>6, WorkerKeeps DEF Busy
<1>4. ASSUME NEW f \in Failures, WriteFails(f), Goto(w, AfterFailure(f)),
             errored' = IF AfterFailure(f) = "quit" THEN errored ELSE SetErrored
      PROVE  Inv'
  <2> DEFINE p == AfterFailure(f)
  <2>1. /\ trouble \subseteq trouble' /\ f \in trouble' /\ trouble' # {}
        /\ trouble' \subseteq {"BrokenPipe", "Other", "stderr"}
        /\ printed' = printed
    BY <1>2, <1>4, WriteFailsType
  <2>2. /\ pc' = [pc EXCEPT ![w] = p] /\ p \in PCs /\ p \in {"quit", "printmessage"}
        /\ errored => errored'
        /\ errored' => errored \/ "Other" \in trouble'
        /\ errored' \in BOOLEAN
    BY <1>2, <1>4, <2>1 DEF Goto, PCs, SetErrored, Failures, TypeInv, AfterFailure
  <2> HIDE DEF p
  <2>3. WorkerFrame(w, p)
    BY <1>1, <1>2, <2>1, <2>2 DEF WorkerFrame, TypeInv
  <2>4. FlagsKept(w, p)
    BY <1>1, <2>2 DEF FlagsKept
  <2>5. MatchKept(w, p) /\ PrintKept(w)
    BY <2>1 DEF MatchKept, PrintKept
  <2>6. StageInv(w)'
    <3>1. pc'[w] \in {"quit", "printmessage"}
      BY <1>2, <2>2 DEF TypeInv
    <3> QED BY <1>1, <1>2, <3>1, SameInput DEF StageInv, Unprinted
  <2>7. CountInv'
    BY <2>1 DEF CountInv
  <2> QED BY <1>1, <2>2, <2>3, <2>4, <2>5, <2>6, <2>7, WorkerKeeps DEF Busy
<1> QED BY <1>3, <1>4 DEF PrintBuffer

\* A match that some worker has found makes the worker quit, or not.
LEMMA DecideKeeps ==
    ASSUME Inv, NEW w \in Workers, Decide(w)
    PROVE  Inv'
<1> DEFINE p == IF matched /\ QuitAfterMatch THEN "quit" ELSE "idle"
<1>1. /\ Alive /\ pc[w] = "decide"
      /\ pc' = [pc EXCEPT ![w] = p] /\ p \in PCs
      /\ UNCHANGED <<args, kind, pending, stopped, current, buffer, matched, searched,
                     errored, stats, channel, printer, report, printed, trouble,
                     mainpc, status>>
  BY DEF Decide, Goto, input, walkVars, flagVars, outVars, mainVars, PCs
<1>2. TypeInv
  BY DEF Inv
<1>3. WorkerFrame(w, p) /\ PrintKept(w)
  BY <1>1, <1>2 DEF WorkerFrame, TypeInv, PrintKept
<1>4. FlagsKept(w, p) /\ MatchKept(w, p)
  BY <1>1 DEF FlagsKept, MatchKept, Unprinted
<1>5. StageInv(w)'
  <2>1. pc'[w] \in {"quit", "idle"}
    BY <1>1, <1>2 DEF TypeInv
  <2> QED BY <2>1 DEF StageInv, Unprinted
<1>6. CountInv'
  BY <1>1, SameCount
<1> QED BY <1>1, <1>3, <1>4, <1>5, <1>6, WorkerKeeps DEF Busy

\* The walk is told to stop.
LEMMA QuitWalkKeeps ==
    ASSUME Inv, NEW w \in Workers, QuitWalk(w)
    PROVE  Inv'
<1>1. /\ Alive /\ pc[w] = "quit" /\ stopped' = TRUE
      /\ pc' = [pc EXCEPT ![w] = "idle"] /\ "idle" \in PCs
      /\ UNCHANGED <<args, kind, pending, current, buffer, matched, searched,
                     errored, stats, channel, printer, report, printed, trouble,
                     mainpc, status>>
  BY DEF QuitWalk, Goto, input, flagVars, outVars, mainVars, PCs
<1>2. TypeInv
  BY DEF Inv
<1>3. WorkerFrame(w, "idle") /\ PrintKept(w)
  BY <1>1, <1>2 DEF WorkerFrame, TypeInv, PrintKept
<1>4. FlagsKept(w, "idle") /\ MatchKept(w, "idle")
  BY <1>1 DEF FlagsKept, MatchKept, Unprinted
<1>5. StageInv(w)'
  <2>1. pc'[w] = "idle"
    BY <1>1, <1>2 DEF TypeInv
  <2> QED BY <2>1 DEF StageInv, Unprinted
<1>6. CountInv'
  BY <1>1, SameCount
<1> QED BY <1>1, <1>3, <1>4, <1>5, <1>6, WorkerKeeps DEF Busy

\* With --files every haystack is a match.
LEMMA FoundKeeps ==
    ASSUME Inv, NEW w \in Workers, Found(w)
    PROVE  Inv'
<1> DEFINE p == IF QuitAfterMatch THEN "quit" ELSE IF Serial THEN "write" ELSE "send"
<1>1. /\ Alive /\ pc[w] = "found" /\ matched' = TRUE
      /\ pc' = [pc EXCEPT ![w] = p] /\ p \in PCs
      /\ UNCHANGED <<args, kind, pending, stopped, current, buffer, searched,
                     errored, stats, channel, printer, report, printed, trouble,
                     mainpc, status>>
  BY DEF Found, Goto, input, walkVars, outVars, mainVars, PCs
<1>2. TypeInv /\ current[w] \in Results /\ FilesMode /\ IsHaystack(current[w])
      /\ current[w] \in Matches
  <2>1. current[w] \in Results /\ FilesMode /\ IsHaystack(current[w])
    BY <1>1 DEF Inv, TypeInv, StageInv
  <2> QED BY <2>1 DEF Inv, Matches, Haystacks
<1>3. WorkerFrame(w, p) /\ PrintKept(w)
  BY <1>1, <1>2 DEF WorkerFrame, TypeInv, PrintKept
<1>4. FlagsKept(w, p) /\ MatchKept(w, p)
  BY <1>1, <1>2 DEF FlagsKept, MatchKept, QuitAfterMatch
<1>5. StageInv(w)'
  <2>1. pc'[w] \in {"quit", "write", "send"} /\ (pc'[w] = "write" => Serial)
        /\ (pc'[w] = "send" => ~Serial)
    BY <1>1, <1>2 DEF TypeInv
  <2>2. printed[current[w]] = 0
    BY <1>1 DEF Inv, StageInv, Unprinted
  <2> QED BY <1>1, <1>2, <2>1, <2>2, SameInput DEF StageInv
<1>6. CountInv'
  BY <1>1, SameCount
<1> QED BY <1>1, <1>3, <1>4, <1>5, <1>6, WorkerKeeps DEF Busy

\* The main thread writes a path, leaves its loop or returns an error.
LEMMA WritePathKeeps ==
    ASSUME Inv, NEW w \in Workers, WritePath(w)
    PROVE  Inv'
<1>1. /\ Alive /\ pc[w] = "write"
      /\ UNCHANGED <<args, kind, pending, stopped, current, buffer, matched, searched,
                     errored, stats, channel, printer, report, status>>
  BY DEF WritePath, input, walkVars, flagVars
<1>2. TypeInv /\ FilesMode /\ current[w] \in Results /\ Serial
      /\ IsHaystack(current[w]) /\ printed[current[w]] = 0
      /\ trouble \subseteq {"BrokenPipe", "Other", "stderr"}
  BY <1>1 DEF Inv, TypeInv, StageInv, Unprinted
<1>3. current[w] \in Matches
  BY <1>2 DEF Matches, Haystacks
<1>4. CASE Write({current[w]}) /\ Goto(w, "idle") /\ UNCHANGED mainpc
  <2>1. /\ pc' = [pc EXCEPT ![w] = "idle"] /\ "idle" \in PCs /\ mainpc' = mainpc
        /\ printed' \in [Results -> Nat] /\ trouble' = trouble
        /\ \A r \in Results \ {current[w]} : printed'[r] = printed[r]
        /\ printed'[current[w]] = 1
    BY <1>2, <1>4, WriteOne DEF Goto, PCs
  <2>2. WorkerFrame(w, "idle")
    BY <1>1, <1>2, <2>1 DEF WorkerFrame, TypeInv
  <2>3. FlagsKept(w, "idle") /\ MatchKept(w, "idle") /\ PrintKept(w)
    BY <1>1, <1>2, <1>3, <2>1 DEF FlagsKept, MatchKept, PrintKept
  <2>4. StageInv(w)'
    <3>1. pc'[w] = "idle"
      BY <1>2, <2>1 DEF TypeInv
    <3> QED BY <3>1 DEF StageInv, Unprinted
  <2>5. CountInv'
    BY <1>1, <2>1, SameCount
  <2> QED BY <1>1, <2>1, <2>2, <2>3, <2>4, <2>5, WorkerKeeps DEF Busy
<1>5. ASSUME NEW f \in Failures, WriteFails(f),
             Goto(w, IF f = "BrokenPipe" THEN "quit" ELSE "idle"),
             mainpc' = IF f = "BrokenPipe" THEN mainpc ELSE "failed"
      PROVE  Inv'
  <2> DEFINE p == IF f = "BrokenPipe" THEN "quit" ELSE "idle"
  <2>1. /\ trouble \subseteq trouble' /\ f \in trouble' /\ trouble' # {}
        /\ trouble' \subseteq {"BrokenPipe", "Other", "stderr"}
        /\ printed' = printed
    BY <1>2, <1>5, WriteFailsType
  <2>2. /\ pc' = [pc EXCEPT ![w] = p] /\ p \in PCs /\ p \in {"quit", "idle"}
        /\ mainpc' = mainpc \/ (mainpc' = "failed" /\ p = "idle" /\ "Other" \in trouble')
    BY <1>5, <2>1 DEF Goto, PCs, Failures
  <2> HIDE DEF p
  <2>3. WorkerFrame(w, p)
    BY <1>1, <1>2, <2>1, <2>2 DEF WorkerFrame, TypeInv
  <2>4. FlagsKept(w, p)
    BY <1>1, <2>2 DEF FlagsKept
  <2>5. MatchKept(w, p) /\ PrintKept(w)
    BY <2>1 DEF MatchKept, PrintKept
  <2>6. StageInv(w)'
    <3>1. pc'[w] \in {"quit", "idle"}
      BY <1>2, <2>2 DEF TypeInv
    <3> QED BY <3>1 DEF StageInv, Unprinted
  <2>7. CountInv'
    BY <2>1 DEF CountInv
  <2> QED BY <1>1, <2>2, <2>3, <2>4, <2>5, <2>6, <2>7, WorkerKeeps DEF Busy
<1> QED BY <1>4, <1>5 DEF WritePath

\* A result goes to a worker, which reports it, drops it or searches it.
LEMMA DeliverKeeps ==
    ASSUME Inv, NEW w \in Workers, Deliver(w)
    PROVE  Inv'
<1>1. /\ Alive /\ mainpc = "walk" /\ args.mode # "hopeless"
      /\ w \in Threads /\ pc[w] = "idle"
      /\ UNCHANGED <<args, kind, stopped, matched, stats, channel, printer, report,
                     printed, trouble, mainpc, status>>
  BY DEF Deliver, input, outVars, mainVars
<1>2. PICK r \in pending :
         /\ pending' = pending \ {r}
         /\ current' = [current EXCEPT ![w] = r]
         /\ errored' = IF kind[r] = "walkerr" THEN SetErrored ELSE errored
         /\ searched' = (searched \/ (IsHaystack(r) /\ SearchMode))
         /\ buffer' = IF IsHaystack(r)
                      THEN [buffer EXCEPT ![w] = FreshBuffer(@)] ELSE buffer
         /\ Goto(w, CASE kind[r] = "walkerr" -> "message"
                      [] kind[r] = "dir" -> "idle"
                      [] IsHaystack(r) -> IF FilesMode THEN "found" ELSE "search")
  BY DEF Deliver
<1>3. /\ TypeInv /\ r \in Results /\ kind[r] \in Kinds /\ printed[r] = 0
      /\ r \notin Contents(channel) /\ (SearchMode \/ FilesMode)
      /\ ~(SearchMode /\ FilesMode)
  <2>1. TypeInv /\ r \in Results
    BY DEF Inv, TypeInv
  <2>2. kind[r] \in Kinds /\ (SearchMode \/ FilesMode) /\ ~(SearchMode /\ FilesMode)
    BY <1>1, <2>1, InputType DEF SearchMode, FilesMode, Modes
  <2> QED BY <2>1, <2>2 DEF Inv, PrintInv, PlaceInv
<1>4. PICK p \in {"message", "idle", "found", "search"} :
         /\ pc' = [pc EXCEPT ![w] = p]
         /\ kind[r] = "walkerr" <=> p = "message"
         /\ kind[r] = "dir" <=> p = "idle"
         /\ IsHaystack(r) <=> p \in {"found", "search"}
         /\ p = "found" => FilesMode
         /\ p = "search" => SearchMode
  BY <1>2, <1>3 DEF Goto, Kinds, IsHaystack
<1>5. /\ pc' \in [Workers -> PCs] /\ pc'[w] = p /\ current'[w] = r
      /\ current' \in [Workers -> Results]
      /\ \A v \in Workers \ {w} : pc'[v] = pc[v] /\ current'[v] = current[v]
  BY <1>2, <1>3, <1>4 DEF TypeInv, PCs
<1>6. /\ buffer' \in [Workers -> SUBSET Results]
      /\ \A v \in Workers \ {w} : buffer'[v] = buffer[v]
      /\ IsHaystack(r) => buffer'[w] = {}
  BY <1>2, <1>3 DEF TypeInv, FreshBuffer
<1>7. /\ errored' \in BOOLEAN
      /\ errored => errored'
      /\ errored' => errored \/ Faulty
      /\ kind[r] = "walkerr" => errored'
  BY <1>1, <1>2, <1>3 DEF SetErrored, Faulty, TypeInv
<1>8. TypeInv'
  <2>1. searched' \in BOOLEAN
    BY <1>2, <1>3 DEF TypeInv, SearchMode, IsHaystack
  <2> QED BY <1>1, <1>2, <1>3, <1>5, <1>6, <1>7, <2>1 DEF TypeInv
<1>9. PlaceInv'
  <2>1. \A v \in Workers \ {w} : Busy(v)' => Busy(v) /\ current[v] # r
    BY <1>2, <1>5 DEF Inv, PlaceInv, Busy
  <2>2. \A v \in Workers : Busy(v)' =>
             /\ v \in Threads /\ current'[v] \notin pending'
             /\ mainpc \in {"walk", "exit"} /\ args.mode # "hopeless"
             /\ current'[v] \notin Contents(channel)
    BY <1>1, <1>2, <1>3, <1>5, <2>1 DEF Inv, PlaceInv
  <2>3. \A v, u \in Workers :
             Busy(v)' /\ Busy(u)' /\ current'[v] = current'[u] => v = u
    BY <1>5, <2>1 DEF Inv, PlaceInv
  <2>4. /\ Distinct(channel) /\ (channel # <<>> => args.mode = "files_parallel")
        /\ \A q \in Contents(channel) :
             q \notin pending' /\ IsHaystack(q) /\ printed[q] = 0
    BY <1>2 DEF Inv, PlaceInv
  <2> QED BY <1>1, <2>2, <2>3, <2>4, SameInput DEF PlaceInv
<1>10. \A v \in Workers : StageInv(v)'
  <2>1. ASSUME NEW v \in Workers, v # w PROVE StageInv(v)'
    BY <1>1, <1>5, <1>6, <2>1, OtherStage DEF Inv
  <2>2. StageInv(w)'
    BY <1>1, <1>3, <1>4, <1>5, <1>6, SameInput DEF StageInv
  <2> QED BY <2>1, <2>2
<1>11. PrintInv'
  BY <1>1, <1>2, SameInput DEF Inv, PrintInv
<1>12. FlagInv'
  <2>1. /\ errored' => Faulty \/ "Other" \in trouble
        /\ matched => Matches # {} /\ args.mode # "hopeless"
    BY <1>7 DEF Inv, FlagInv
  <2>2. searched' => Haystacks # {}
    BY <1>2, <1>3 DEF Inv, FlagInv, Haystacks
  <2>3. SearchMode /\ ~searched' => \A q \in Results \ pending' : ~IsHaystack(q)
    BY <1>2 DEF Inv, FlagInv
  <2>4. SearchMode /\ ~searched' =>
           ~stopped /\ \A v \in Workers : pc'[v] \in {"idle", "message"}
    BY <1>2, <1>4, <1>5 DEF Inv, FlagInv
  <2>5. \A q \in Results \ pending' : kind[q] = "walkerr" => errored'
    BY <1>2, <1>7 DEF Inv, FlagInv
  <2>6. \A q \in Results \ pending' : SearchMode /\ kind[q] = "searcherr" =>
           errored' \/ \E v \in Workers : current'[v] = q /\ pc'[v] = "search"
    <3>1. SUFFICES ASSUME NEW q \in Results \ pending', SearchMode,
                          kind[q] = "searcherr", ~errored'
                   PROVE  \E v \in Workers : current'[v] = q /\ pc'[v] = "search"
      OBVIOUS
    <3>2. CASE q = r
      BY <1>3, <1>4, <1>5, <3>1, <3>2 DEF IsHaystack
    <3>3. CASE q # r
      <4>1. PICK v \in Workers : current[v] = q /\ pc[v] = "search"
        BY <1>2, <1>7, <3>1, <3>3 DEF Inv, FlagInv, At
      <4> QED BY <1>1, <1>5, <4>1
    <3> QED BY <3>2, <3>3
  <2> QED BY <1>1, <2>1, <2>2, <2>3, <2>4, <2>5, <2>6, SameInput DEF FlagInv, At
<1>13. CleanInv'
  <2>1. SUFFICES ASSUME trouble = {} PROVE CleanInv'
    BY <1>1 DEF CleanInv
  <2>2. stopped \/ (\E v \in Workers : pc'[v] = "quit") => matched /\ QuitAfterMatch
    BY <1>4, <1>5, <2>1 DEF Inv, CleanInv
  <2>3. \A q \in Matches \ pending' : q = r => IsHaystack(r)
    BY DEF Matches, Haystacks, IsHaystack
  <2>4. \A q \in Matches \ pending' :
          matched \/ \E v \in Workers : current'[v] = q /\ pc'[v] \in {"search", "store", "found"}
    <3>1. SUFFICES ASSUME NEW q \in Matches \ pending', ~matched
                   PROVE  \E v \in Workers : current'[v] = q
                                /\ pc'[v] \in {"search", "store", "found"}
      OBVIOUS
    <3>2. CASE q = r
      BY <1>4, <1>5, <2>3, <3>2
    <3>3. CASE q # r
      <4>1. PICK v \in Workers : current[v] = q /\ pc[v] \in {"search", "store", "found"}
        BY <1>2, <2>1, <3>1, <3>3 DEF Inv, CleanInv, At
      <4> QED BY <1>1, <1>5, <4>1
    <3> QED BY <3>2, <3>3
  <2>5. ASSUME ~args.quiet, NEW q \in Matches \ pending'
        PROVE  \/ printed[q] = 1
               \/ q \in Contents(channel)
               \/ \E v \in Workers : current'[v] = q /\ Unprinted(v)'
    <3>1. CASE q = r
      BY <1>4, <1>5, <2>3, <3>1 DEF Unprinted
    <3>2. CASE q # r
      <4>1. SUFFICES ASSUME NEW v \in Workers, current[v] = q, Unprinted(v)
                     PROVE  current'[v] = q /\ Unprinted(v)'
        BY <1>2, <2>1, <2>5, <3>2 DEF Inv, CleanInv
      <4>2. v # w
        BY <1>1, <4>1 DEF Unprinted
      <4> QED BY <1>1, <1>5, <4>1, <4>2, SameInput DEF Unprinted
    <3> QED BY <3>1, <3>2
  <2> QED BY <1>1, <2>2, <2>4, <2>5, SameInput DEF CleanInv, At
<1>14. CountInv'
  <2>1. SUFFICES ASSUME trouble = {}, SearchMode, args.stats
                 PROVE  stats = Cardinality(Counted)'
    BY <1>1, SameInput DEF CountInv
  <2>2. stats = Cardinality(Counted)
    BY <2>1 DEF Inv, CountInv
  <2>3. Searched' = Searched
    BY <1>1, SameInput
  <2>4. r \in Searched => At(w, r, {"search", "store", "count"})'
    <3>1. r \in Searched => p = "search"
      BY <1>3, <1>4, <2>1 DEF Searched, IsHaystack
    <3> QED BY <1>5, <3>1 DEF At
  <2>5. ASSUME NEW q \in Results, q # r, NEW v \in Workers
        PROVE  At(v, q, {"search", "store", "count"})'
                 <=> At(v, q, {"search", "store", "count"})
    <3>1. CASE v = w
      BY <1>1, <1>5, <2>5, <3>1 DEF At
    <3>2. CASE v # w
      BY <1>5, <3>2 DEF At
    <3> QED BY <3>1, <3>2
  <2>6. Searched \subseteq Results
    BY DEF Searched
  <2>7. Counted' = Counted
    BY <1>2, <2>3, <2>4, <2>5, <2>6 DEF Counted
  <2> QED BY <2>2, <2>7
<1>15. MainInv'
  BY <1>1 DEF Inv, MainInv, Alive, NoStatus
<1> QED BY <1>8, <1>9, <1>10, <1>11, <1>12, <1>13, <1>14, <1>15 DEF Inv

\* A path goes into the channel, unless the print thread has ended.
LEMMA SendKeeps ==
    ASSUME Inv, NEW w \in Workers, Send(w)
    PROVE  Inv'
<1>1. /\ Alive /\ pc[w] = "send"
      /\ UNCHANGED <<args, kind, pending, stopped, current, buffer, matched, searched,
                     errored, stats, printer, report, printed, trouble, mainpc, status>>
  BY DEF Send, input, walkVars, flagVars, outVars, mainVars
<1>2. /\ TypeInv /\ FilesMode /\ current[w] \in Results /\ ~Serial
      /\ IsHaystack(current[w]) /\ printed[current[w]] = 0
      /\ args.mode = "files_parallel" /\ ~SearchMode
  <2>1. TypeInv /\ FilesMode /\ ~Serial /\ current[w] \in Results
        /\ IsHaystack(current[w]) /\ printed[current[w]] = 0
    BY <1>1 DEF Inv, TypeInv, StageInv, Unprinted
  <2> QED BY <2>1 DEF FilesMode, Serial, SearchMode
<1>3. /\ mainpc = "walk" /\ current[w] \notin pending
      /\ current[w] \notin Contents(channel)
      /\ \A v \in Workers \ {w} : Busy(v) => current[v] # current[w]
  BY <1>1 DEF Inv, PlaceInv, Busy, MainInv, Alive
<1>4. CASE printer # "running"
  <2>1. pc' = [pc EXCEPT ![w] = "quit"] /\ "quit" \in PCs /\ channel' = channel
    BY <1>4 DEF Send, Goto, PCs
  <2>2. trouble # {}
    BY <1>2, <1>3, <1>4 DEF Inv, MainInv, TypeInv
  <2>3. WorkerFrame(w, "quit") /\ PrintKept(w)
    BY <1>1, <1>2, <2>1 DEF WorkerFrame, TypeInv, PrintKept
  <2>4. FlagsKept(w, "quit") /\ MatchKept(w, "quit")
    BY <1>1, <2>2 DEF FlagsKept, MatchKept
  <2>5. StageInv(w)'
    <3>1. pc'[w] = "quit"
      BY <1>2, <2>1 DEF TypeInv
    <3> QED BY <3>1 DEF StageInv, Unprinted
  <2>6. CountInv'
    BY <1>1, <2>2 DEF CountInv
  <2> QED BY <1>1, <2>1, <2>3, <2>4, <2>5, <2>6, WorkerKeeps DEF Busy
<1>5. CASE printer = "running"
  <2>1. channel' = Append(channel, current[w]) /\ pc' = [pc EXCEPT ![w] = "idle"]
    BY <1>5 DEF Send, Goto
  <2>2. /\ pc' \in [Workers -> PCs] /\ pc'[w] = "idle"
        /\ \A v \in Workers \ {w} : pc'[v] = pc[v]
    BY <1>2, <2>1 DEF TypeInv, PCs
  <2>3. /\ channel' \in Seq(Results) /\ channel' # <<>>
        /\ Contents(channel)' = Contents(channel) \cup {current[w]}
        /\ Distinct(channel)'
    <3>1. channel \in Seq(Results) /\ Distinct(channel)
      BY DEF Inv, TypeInv, PlaceInv
    <3>2. /\ channel' \in Seq(Results) /\ channel' # <<>>
          /\ Contents(channel') = Contents(channel) \cup {current[w]}
          /\ Distinct(channel')
      BY <1>2, <1>3, <2>1, <3>1, AppendContents
    <3> QED BY <3>2 DEF Contents, Distinct
  <2>4. TypeInv'
    BY <1>1, <1>2, <2>2, <2>3 DEF TypeInv
  <2>5. PlaceInv'
    <3>1. \A v \in Workers : Busy(v)' => Busy(v) /\ v # w
      BY <2>2 DEF Busy
    <3>2. /\ \A v \in Workers : Busy(v)' =>
               /\ v \in Threads /\ current[v] \notin pending
               /\ mainpc \in {"walk", "exit"} /\ args.mode # "hopeless"
               /\ current[v] \notin Contents(channel)'
          /\ \A v, u \in Workers :
               Busy(v)' /\ Busy(u)' /\ current[v] = current[u] => v = u
      BY <1>3, <2>3, <3>1 DEF Inv, PlaceInv
    <3>3. \A q \in Contents(channel)' :
               q \notin pending /\ IsHaystack(q) /\ printed[q] = 0
      BY <1>2, <1>3, <2>3 DEF Inv, PlaceInv
    <3> QED BY <1>1, <1>2, <2>3, <3>2, <3>3, SameInput DEF PlaceInv
  <2>6. \A v \in Workers : StageInv(v)'
    <3>1. ASSUME NEW v \in Workers, v # w PROVE StageInv(v)'
      BY <1>1, <2>2, <3>1, OtherStage DEF Inv
    <3>2. StageInv(w)'
      BY <2>2 DEF StageInv, Unprinted
    <3> QED BY <3>1, <3>2
  <2>7. PrintInv'
    BY <1>1, SameInput DEF Inv, PrintInv
  <2>8. FlagInv'
    <3>1. \A r \in Results : At(w, r, {"search"}) => FALSE
      BY <1>1 DEF At
    <3> QED BY <1>1, <1>2, <2>2, <3>1, SameInput DEF Inv, FlagInv, At
  <2>9. CleanInv'
    <3>1. SUFFICES ASSUME trouble = {} PROVE CleanInv'
      BY <1>1 DEF CleanInv
    <3>2. stopped \/ (\E v \in Workers : pc'[v] = "quit") => matched /\ QuitAfterMatch
      BY <2>2, <3>1 DEF Inv, CleanInv
    <3>3. \A r \in Matches \ pending :
            matched \/ \E v \in Workers : current[v] = r /\ pc'[v] \in {"search", "store", "found"}
      <4>1. SUFFICES ASSUME NEW r \in Matches \ pending, ~matched
                     PROVE  \E v \in Workers : current[v] = r
                                  /\ pc'[v] \in {"search", "store", "found"}
        OBVIOUS
      <4>2. PICK v \in Workers : current[v] = r /\ pc[v] \in {"search", "store", "found"}
        BY <3>1, <4>1 DEF Inv, CleanInv, At
      <4> QED BY <1>1, <2>2, <4>2
    <3>4. ASSUME ~args.quiet, NEW r \in Matches \ pending
          PROVE  \/ printed[r] = 1
                 \/ r \in Contents(channel)'
                 \/ \E v \in Workers : current[v] = r /\ Unprinted(v)'
      <4>1. ASSUME NEW v \in Workers, current[v] = r, Unprinted(v)
            PROVE  r \in Contents(channel)' \/ Unprinted(v)'
        <5>1. CASE v = w
          BY <2>3, <4>1, <5>1
        <5>2. CASE v # w
          BY <1>1, <2>2, <4>1, <5>2, SameInput DEF Unprinted
        <5> QED BY <5>1, <5>2
      <4> QED BY <2>3, <3>1, <3>4, <4>1 DEF Inv, CleanInv
    <3> QED BY <1>1, <3>2, <3>3, <3>4, SameInput DEF CleanInv, At
  <2>10. CountInv'
    BY <1>1, <1>2, SameInput DEF CountInv
  <2>11. MainInv'
    BY <1>1, <1>2, <1>3, <1>5 DEF Inv, MainInv, Alive
  <2> QED BY <2>4, <2>5, <2>6, <2>7, <2>8, <2>9, <2>10, <2>11 DEF Inv
<1> QED BY <1>4, <1>5
-----------------------------------------------------------------------------
(* The steps of the print thread.                                          *)

\* The print thread writes the path that has waited longest, or fails and ends.
LEMMA PrintPathKeeps ==
    ASSUME Inv, PrintPath
    PROVE  Inv'
<1> DEFINE r == Head(channel)
<1>1. /\ Alive /\ printer = "running" /\ channel # <<>> /\ channel' = Tail(channel)
      /\ UNCHANGED <<args, kind, pending, stopped, pc, current, buffer, matched,
                     searched, errored, stats, report, mainpc, status>>
  BY DEF PrintPath, input, walkVars, workerVars, flagVars, mainVars
<1>2. /\ TypeInv /\ args.mode = "files_parallel" /\ FilesMode /\ ~SearchMode
      /\ trouble \subseteq {"BrokenPipe", "Other", "stderr"}
      /\ printed \in [Results -> Nat]
  <2>1. TypeInv /\ args.mode = "files_parallel"
    BY <1>1 DEF Inv, PlaceInv
  <2> QED BY <2>1 DEF FilesMode, SearchMode, TypeInv
<1>3. /\ r \in Results /\ channel' \in Seq(Results)
      /\ Contents(channel) = Contents(channel)' \cup {r}
      /\ Distinct(channel)' /\ r \notin Contents(channel)'
  <2>1. channel \in Seq(Results) /\ Distinct(channel)
    BY DEF Inv, TypeInv, PlaceInv
  <2>2. /\ r \in Results /\ channel' \in Seq(Results)
        /\ Contents(channel) = Contents(channel') \cup {r}
        /\ Distinct(channel') /\ r \notin Contents(channel')
    BY <1>1, <2>1, HeadContents
  <2> QED BY <2>2 DEF Contents, Distinct
<1>4. /\ r \notin pending /\ IsHaystack(r) /\ printed[r] = 0
      /\ \A w \in Workers : Busy(w) => current[w] # r
  BY <1>3 DEF Inv, PlaceInv
<1>5. /\ printed' \in [Results -> Nat]
      /\ \A q \in Results \ {r} : printed'[q] = printed[q]
      /\ trouble \subseteq trouble'
      /\ trouble' \subseteq {"BrokenPipe", "Other", "stderr"}
      /\ \/ printed'[r] = 1 /\ printer' = "running"
         \/ /\ printed'[r] = 0 /\ trouble' # {}
            /\ printer' \in {"BrokenPipe", "Other"} /\ printer' \in trouble'
  <2>1. CASE Write({r}) /\ UNCHANGED printer
    <3>1. printed' = [q \in Results |-> printed[q] + (IF q \in {r} THEN 1 ELSE 0)]
          /\ trouble' = trouble
      BY <2>1 DEF Write
    <3>2. /\ printed' \in [Results -> Nat] /\ printed'[r] = 1
          /\ \A q \in Results \ {r} : printed'[q] = printed[q]
      BY <1>2, <1>3, <1>4, <3>1
    <3> QED BY <1>1, <1>2, <2>1, <3>1, <3>2
  <2>2. ASSUME NEW f \in Failures, WriteFails(f), printer' = f
        PROVE  /\ printed' = printed /\ trouble \subseteq trouble' /\ trouble' # {}
               /\ trouble' \subseteq {"BrokenPipe", "Other", "stderr"}
               /\ printer' \in {"BrokenPipe", "Other"} /\ printer' \in trouble'
    BY <1>2, <2>2, WriteFailsType DEF Failures
  <2> QED BY <1>2, <1>4, <2>1, <2>2 DEF PrintPath
<1> HIDE DEF r
<1>6. TypeInv'
  BY <1>1, <1>2, <1>3, <1>5 DEF TypeInv
<1>7. PlaceInv'
  <2>1. \A w \in Workers : Busy(w)' =>
             /\ w \in Threads /\ current[w] \notin pending
             /\ mainpc \in {"walk", "exit"} /\ args.mode # "hopeless"
             /\ current[w] \notin Contents(channel)'
    BY <1>1, <1>3 DEF Inv, PlaceInv, Busy
  <2>2. \A v, w \in Workers :
             Busy(v)' /\ Busy(w)' /\ current[v] = current[w] => v = w
    BY <1>1 DEF Inv, PlaceInv, Busy
  <2>3. \A q \in Contents(channel)' :
             q \notin pending /\ IsHaystack(q) /\ printed'[q] = 0
    <3>1. Contents(channel) \subseteq Results
      BY <1>2 DEF TypeInv, Contents
    <3> QED BY <1>3, <1>5, <3>1 DEF Inv, PlaceInv
  <2> QED BY <1>1, <1>2, <1>3, <2>1, <2>2, <2>3, SameInput DEF PlaceInv
<1>8. \A w \in Workers : StageInv(w)'
  <2>1. ASSUME NEW w \in Workers PROVE StageInv(w)'
    <3>1. Busy(w) => printed'[current[w]] = printed[current[w]]
      BY <1>2, <1>4, <1>5 DEF TypeInv
    <3> QED BY <1>1, <3>1, OtherStage DEF Inv
  <2> QED BY <2>1
<1>9. PrintInv'
  <2>1. r \in Matches
    BY <1>2, <1>3, <1>4 DEF Matches, Haystacks
  <2>2. ASSUME NEW q \in Results
        PROVE  /\ printed'[q] <= 1
               /\ q \in pending => printed'[q] = 0
               /\ printed'[q] = 1 =>
                    /\ ~args.quiet \/ FilesMode
                    /\ q \in Matches \/ (args.mode = "search" /\ kind[q] = "searcherr")
    <3>1. CASE q = r
      BY <1>2, <1>4, <1>5, <2>1, <3>1
    <3>2. CASE q # r
      BY <1>5, <3>2 DEF Inv, PrintInv
    <3> QED BY <3>1, <3>2
  <2> QED BY <1>1, <2>2, SameInput DEF PrintInv
<1>10. FlagInv'
  BY <1>1, <1>2, <1>5, SameInput DEF Inv, FlagInv, At
<1>11. CleanInv'
  <2>1. SUFFICES ASSUME trouble' = {} PROVE CleanInv'
    BY DEF CleanInv
  <2>2. trouble = {} /\ printed'[r] = 1
    BY <1>5, <2>1
  <2>3. stopped \/ (\E w \in Workers : pc[w] = "quit") => matched /\ QuitAfterMatch
    BY <2>2 DEF Inv, CleanInv
  <2>4. \A q \in Matches \ pending :
          matched \/ \E w \in Workers : At(w, q, {"search", "store", "found"})
    BY <2>2 DEF Inv, CleanInv
  <2>5. ASSUME ~args.quiet, NEW q \in Matches \ pending
        PROVE  \/ printed'[q] = 1
               \/ q \in Contents(channel)'
               \/ \E w \in Workers : current[w] = q /\ Unprinted(w)
    <3>1. q \in Results
      BY DEF Matches, Haystacks
    <3>2. \/ printed[q] = 1
          \/ q \in Contents(channel)
          \/ \E w \in Workers : current[w] = q /\ Unprinted(w)
      BY <2>2, <2>5 DEF Inv, CleanInv
    <3> QED BY <1>3, <1>5, <2>2, <3>1, <3>2
  <2>6. \A w \in Workers : Unprinted(w)' <=> Unprinted(w)
    BY <1>1, SameInput DEF Unprinted
  <2> QED BY <1>1, <2>3, <2>4, <2>5, <2>6, SameInput DEF CleanInv, At
<1>12. CountInv'
  BY <1>1, <1>2, SameInput DEF CountInv
<1>13. MainInv'
  <2>1. status' = NoStatus /\ mainpc' = mainpc /\ mainpc # "exit" /\ status' # 2
    BY <1>1 DEF Alive, Inv, MainInv, NoStatus
  <2>2. /\ mainpc = "failed" => "Other" \in trouble'
        /\ mainpc \notin {"nothing", "report"}
    BY <1>2, <1>5 DEF Inv, MainInv
  <2>3. /\ printer' # "none" /\ printer' # "done"
        /\ printer' \in {"BrokenPipe", "Other"} => printer' \in trouble'
    BY <1>5
  <2>4. trouble' = {} =>
          /\ mainpc # "walk" /\ args.mode # "hopeless" => pending = {} \/ stopped
          /\ mainpc \notin {"status", "exit"}
          /\ mainpc # "walk" => \A w \in Workers : ~Busy(w)
    BY <1>1, <1>2, <1>5 DEF Inv, MainInv
  <2> QED BY <1>1, <1>2, <2>1, <2>2, <2>3, <2>4, SameInput DEF MainInv, Busy
<1> QED BY <1>6, <1>7, <1>8, <1>9, <1>10, <1>11, <1>12, <1>13 DEF Inv

\* It ends when nobody can send it anything any more.
LEMMA PrinterEndsKeeps ==
    ASSUME Inv, PrinterEnds
    PROVE  Inv'
<1>1. /\ Alive /\ printer = "running" /\ channel = <<>> /\ mainpc = "join"
      /\ printer' = "done"
      /\ UNCHANGED <<args, kind, pending, stopped, pc, current, buffer, matched,
                     searched, errored, stats, channel, report, printed, trouble,
                     mainpc, status>>
  BY DEF PrinterEnds, SendersGone, input, walkVars, workerVars, flagVars, outVars,
         mainVars
<1>2. TypeInv'
  BY <1>1 DEF Inv, TypeInv
<1>3. PlaceInv'
  BY <1>1, SameInput DEF Inv, PlaceInv, Busy
<1>4. \A w \in Workers : StageInv(w)'
  BY <1>1, OtherStage DEF Inv
<1>5. PrintInv'
  BY <1>1, SameInput DEF Inv, PrintInv
<1>6. FlagInv'
  BY <1>1, SameInput DEF Inv, FlagInv, At
<1>7. CleanInv'
  <2>1. \A w \in Workers : Unprinted(w)' <=> Unprinted(w)
    BY <1>1, SameInput DEF Unprinted
  <2> QED BY <1>1, <2>1, SameInput DEF Inv, CleanInv, At
<1>8. CountInv'
  <2>1. Counted' = Counted
    BY <1>1, SameInput DEF Counted, At
  <2> QED BY <1>1, <2>1, SameInput DEF Inv, CountInv
<1>9. MainInv'
  <2>1. args.mode = "files_parallel" /\ ~SearchMode
    BY <1>1 DEF Inv, MainInv, SearchMode
  <2> QED BY <1>1, <2>1, SameInput DEF Inv, MainInv, Busy
<1> QED BY <1>2, <1>3, <1>4, <1>5, <1>6, <1>7, <1>8, <1>9 DEF Inv
-----------------------------------------------------------------------------
(* The steps of the main thread.                                           *)

\* They disturb neither the workers nor the print thread.
LEMMA MainKeeps ==
    ASSUME Inv,
           UNCHANGED <<args, kind, pending, stopped, pc, current, buffer, matched,
                       searched, stats, channel, printer, printed>>,
           mainpc # "exit", mainpc' \in MainPCs, mainpc' # "walk",
           \A w \in Workers : Busy(w) => mainpc' = "exit",
           trouble \subseteq trouble', trouble' \subseteq {"BrokenPipe", "Other", "stderr"},
           errored' \in BOOLEAN, errored => errored', errored' => errored \/ Faulty,
           report' \in Nat, status' \in {0, 1, 2, NoStatus},
           MainInv'
    PROVE  Inv'
<1>1. TypeInv'
  BY DEF Inv, TypeInv
<1>2. PlaceInv'
  BY SameInput DEF Inv, PlaceInv, Busy
<1>3. \A w \in Workers : StageInv(w)'
  BY OtherStage DEF Inv
<1>4. PrintInv'
  BY SameInput DEF Inv, PrintInv
<1>5. FlagInv'
  <2>1. errored' => Faulty \/ "Other" \in trouble'
    BY DEF Inv, FlagInv
  <2>2. \A r \in Results \ pending : SearchMode /\ kind[r] = "searcherr" =>
           errored' \/ \E w \in Workers : At(w, r, {"search"})
    BY DEF Inv, FlagInv
  <2>3. \A r \in Results \ pending : kind[r] = "walkerr" => errored'
    BY DEF Inv, FlagInv
  <2> QED BY <2>1, <2>2, <2>3, SameInput DEF Inv, FlagInv, At
<1>6. CleanInv'
  <2>1. trouble' = {} => trouble = {}
    OBVIOUS
  <2>2. \A w \in Workers : Unprinted(w)' <=> Unprinted(w)
    BY SameInput DEF Unprinted
  <2> QED BY <2>1, <2>2, SameInput DEF Inv, CleanInv, At
<1>7. CountInv'
  <2>1. Counted' = Counted
    BY SameInput DEF Counted, At
  <2>2. trouble' = {} => trouble = {}
    OBVIOUS
  <2> QED BY <2>1, <2>2, SameInput DEF Inv, CountInv
<1> QED BY <1>1, <1>2, <1>3, <1>4, <1>5, <1>6, <1>7 DEF Inv

\* Without a pattern that can match there is no search.
LEMMA MatchImpossibleKeeps ==
    ASSUME Inv, MatchImpossible
    PROVE  Inv'
<1>1. /\ Alive /\ mainpc = "walk" /\ args.mode = "hopeless" /\ mainpc' = "status"
      /\ UNCHANGED <<args, kind, pending, stopped, pc, current, buffer, matched,
                     searched, errored, stats, channel, printer, report, printed,
                     trouble, status>>
  BY DEF MatchImpossible, input, walkVars, workerVars, flagVars, outVars
<1>2. \A w \in Workers : ~Busy(w)
  BY <1>1 DEF Inv, PlaceInv
<1>3. ~SearchMode /\ mainpc' \in MainPCs
  BY <1>1 DEF SearchMode, MainPCs
<1>4. MainInv'
  <2>1. status' # 2 /\ status' = NoStatus
    BY <1>1 DEF Alive, NoStatus
  <2> QED BY <1>1, <1>2, <1>3, <2>1, SameInput DEF Inv, MainInv, Busy
<1>5. TypeInv
  BY DEF Inv
<1> QED BY <1>1, <1>2, <1>3, <1>4, <1>5, MainKeeps DEF TypeInv

\* The walk has returned: everything was delivered, or somebody quit.
LEMMA WalkReturnsKeeps ==
    ASSUME Inv, WalkReturns
    PROVE  Inv'
<1>1. /\ Alive /\ mainpc = "walk" /\ args.mode # "hopeless"
      /\ pending = {} \/ stopped
      /\ \A w \in Workers : ~Busy(w)
      /\ UNCHANGED <<args, kind, pending, stopped, pc, current, buffer, matched,
                     searched, stats, channel, printer, report, printed, trouble,
                     status>>
  BY DEF WalkReturns, Busy, input, walkVars, workerVars, outVars
<1>2. /\ TypeInv /\ (SearchMode \/ args.mode \in {"files", "files_parallel"})
      /\ ~(SearchMode /\ args.mode \in {"files", "files_parallel"})
      /\ args.implicit \in BOOLEAN /\ searched \in BOOLEAN
  BY <1>1, InputType DEF Inv, SearchMode, Modes, TypeInv
<1>3. /\ mainpc' \in {"nothing", "report"} <=> SearchMode
      /\ mainpc' \in {"nothing", "report", "status", "join"}
      /\ mainpc' = "status" => args.mode = "files"
      /\ mainpc' = "join" => args.mode = "files_parallel"
  <2>1. mainpc' = CASE SearchMode /\ args.implicit /\ ~searched -> "nothing"
                    [] SearchMode /\ (~args.implicit \/ searched) -> "report"
                    [] args.mode = "files" -> "status"
                    [] args.mode = "files_parallel" -> "join"
    BY DEF WalkReturns
  <2>2. CASE SearchMode /\ args.implicit /\ ~searched
    BY <1>2, <2>1, <2>2
  <2>3. CASE SearchMode /\ (~args.implicit \/ searched)
    BY <1>2, <2>1, <2>3
  <2>4. CASE args.mode = "files"
    BY <1>2, <2>1, <2>4
  <2>5. CASE args.mode = "files_parallel"
    BY <1>2, <2>1, <2>5
  <2> QED BY <1>2, <2>2, <2>3, <2>4, <2>5
<1>4. /\ errored' \in BOOLEAN
      /\ errored => errored'
      /\ errored' => errored \/ Faulty
      /\ SearchMode /\ args.implicit /\ ~searched => errored'
  <2>1. errored' = IF SearchMode /\ args.implicit /\ ~searched THEN TRUE ELSE errored
    BY DEF WalkReturns, SetErrored
  <2>2. SearchMode /\ ~searched => Haystacks = {}
    BY <1>1 DEF Inv, FlagInv, Haystacks
  <2>3. SearchMode /\ args.implicit /\ ~searched => Faulty
    BY <1>1, <2>2 DEF Faulty
  <2>4. errored \in BOOLEAN
    BY <1>2 DEF TypeInv
  <2> QED BY <2>1, <2>3, <2>4
<1>5. MainInv'
  <2>1. /\ status' # 2 /\ status' = NoStatus
        /\ mainpc' # "exit" /\ mainpc' # "failed" /\ mainpc' # "walk"
        /\ mainpc' = "status" => ~SearchMode /\ args.mode # "files_parallel"
    BY <1>1, <1>2, <1>3 DEF Alive, NoStatus
  <2>2. /\ printer = "none" <=> args.mode # "files_parallel"
        /\ printer \in {"BrokenPipe", "Other"} => printer \in trouble
        /\ printer # "done"
    BY <1>1 DEF Inv, MainInv
  <2> QED BY <1>1, <1>3, <1>4, <2>1, <2>2, SameInput DEF MainInv, Busy
<1>6. mainpc' \in MainPCs /\ mainpc' # "walk" /\ mainpc # "exit"
  BY <1>1, <1>3 DEF MainPCs
<1>7. /\ trouble \subseteq trouble' /\ trouble' \subseteq {"BrokenPipe", "Other", "stderr"}
      /\ report' \in Nat /\ status' \in {0, 1, 2, NoStatus}
  BY <1>1, <1>2 DEF TypeInv
<1>8. /\ UNCHANGED <<args, kind, pending, stopped, pc, current, buffer, matched,
                       searched, stats, channel, printer, printed>>
      /\ \A w \in Workers : Busy(w) => mainpc' = "exit"
  BY <1>1
<1>9. (errored => errored') /\ (errored' \in BOOLEAN) /\ (errored' => errored \/ Faulty)
  BY <1>4
<1> QED BY <1>5, <1>6, <1>7, <1>8, <1>9, MainKeeps

\* The complaint that nothing was searched is written, or ends the process.
LEMMA NothingSearchedKeeps ==
    ASSUME Inv, NothingSearched
    PROVE  Inv'
<1>1. /\ Alive /\ mainpc = "nothing"
      /\ UNCHANGED <<args, kind, pending, stopped, pc, current, buffer, matched,
                     searched, errored, stats, channel, printer, report, printed>>
  BY DEF NothingSearched, input, walkVars, workerVars, flagVars
<1>2. TypeInv /\ SearchMode /\ args.mode # "hopeless" /\ args.mode # "files_parallel"
      /\ trouble \subseteq {"BrokenPipe", "Other", "stderr"}
  BY <1>1 DEF Inv, MainInv, SearchMode, TypeInv
<1>3. CASE mainpc' = "report" /\ UNCHANGED <<trouble, status>>
  <2>1. \A w \in Workers : ~Busy(w)
    BY <1>1 DEF Inv, PlaceInv
  <2>2. MainInv'
    <3>1. status' # 2 /\ status' = NoStatus
      BY <1>1, <1>3 DEF Alive, NoStatus
    <3> QED BY <1>1, <1>2, <1>3, <2>1, <3>1, SameInput DEF Inv, MainInv, Busy
  <2> QED BY <1>1, <1>2, <1>3, <2>1, <2>2, MainKeeps DEF TypeInv, MainPCs
<1>4. ASSUME NEW f \in Failures, Complain(f) PROVE Inv'
  <2>1. /\ trouble \subseteq trouble' /\ trouble' # {}
        /\ trouble' \subseteq {"BrokenPipe", "Other", "stderr"}
        /\ mainpc' = "exit" /\ status' \in {0, 2} /\ "stderr" \in trouble'
    BY <1>2, <1>4 DEF Complain, Exit, ComplaintStatus
  <2> QED BY <1>1, <2>1, ExitKeeps DEF input, walkVars, workerVars, flagVars
<1> QED BY <1>3, <1>4 DEF NothingSearched

\* The statistics are written, or not.
LEMMA ReportKeeps ==
    ASSUME Inv, Report
    PROVE  Inv'
<1>1. /\ Alive /\ mainpc = "report" /\ mainpc' = "status"
      /\ UNCHANGED <<args, kind, pending, stopped, pc, current, buffer, matched,
                     searched, errored, stats, channel, printer, status>>
  BY DEF Report, input, walkVars, workerVars, flagVars
<1>2. TypeInv /\ SearchMode /\ args.mode # "hopeless" /\ args.mode # "files_parallel"
      /\ trouble \subseteq {"BrokenPipe", "Other", "stderr"}
  BY <1>1 DEF Inv, MainInv, SearchMode, TypeInv
<1>3. /\ trouble \subseteq trouble' /\ trouble' \subseteq {"BrokenPipe", "Other", "stderr"}
      /\ printed' = printed /\ report' \in Nat
      /\ trouble' = {} /\ args.stats => report' = stats
  <2>1. CASE UNCHANGED outVars /\ report' = IF args.stats THEN stats ELSE NoReport
    BY <1>2, <2>1, CountedFinite DEF outVars, TypeInv
  <2>2. ASSUME NEW f \in Failures, WriteFails(f), UNCHANGED report
        PROVE  /\ trouble \subseteq trouble' /\ trouble' # {} /\ printed' = printed
               /\ trouble' \subseteq {"BrokenPipe", "Other", "stderr"} /\ report' \in Nat
    BY <1>2, <2>2, WriteFailsType DEF TypeInv
  <2> QED BY <2>1, <2>2 DEF Report
<1>4. \A w \in Workers : ~Busy(w)
  BY <1>1 DEF Inv, PlaceInv
<1>5. MainInv'
  <2>1. status' # 2 /\ status' = NoStatus
    BY <1>1 DEF Alive, NoStatus
  <2>2. trouble' = {} => trouble = {}
    BY <1>3
  <2>3. /\ printer' = "none" <=> args'.mode # "files_parallel"
        /\ printer' \in {"BrokenPipe", "Other"} => printer' \in trouble'
        /\ printer' = "done" => channel' = <<>>
    BY <1>1, <1>3 DEF Inv, MainInv
  <2>4. trouble' = {} =>
          /\ pending = {} \/ stopped
          /\ SearchMode /\ args.implicit /\ ~searched => errored
    BY <1>1, <1>2, <2>2 DEF Inv, MainInv
  <2> QED BY <1>1, <1>2, <1>3, <1>4, <2>1, <2>3, <2>4, SameInput DEF MainInv, Busy
<1>6. mainpc' \in MainPCs
  BY <1>1 DEF MainPCs
<1> QED BY <1>1, <1>2, <1>3, <1>4, <1>5, <1>6, MainKeeps DEF TypeInv

\* The print thread has been joined.
LEMMA JoinKeeps ==
    ASSUME Inv, Join
    PROVE  Inv'
<1>1. /\ Alive /\ mainpc = "join" /\ printer # "running"
      /\ mainpc' = IF printer = "Other" THEN "failed" ELSE "status"
      /\ UNCHANGED <<args, kind, pending, stopped, pc, current, buffer, matched,
                     searched, errored, stats, channel, printer, report, printed,
                     trouble, status>>
  BY DEF Join, input, walkVars, workerVars, flagVars, outVars
<1>2. TypeInv /\ args.mode = "files_parallel" /\ ~SearchMode /\ args.mode # "hopeless"
  BY <1>1 DEF Inv, MainInv, SearchMode
<1>3. \A w \in Workers : ~Busy(w)
  BY <1>1 DEF Inv, PlaceInv
<1>4. MainInv'
  <2>1. status' # 2 /\ status' = NoStatus
    BY <1>1 DEF Alive, NoStatus
  <2>2. /\ printer \in {"done", "BrokenPipe", "Other"}
        /\ printer \in {"BrokenPipe", "Other"} => printer \in trouble
        /\ printer = "done" => channel = <<>>
        /\ trouble = {} => pending = {} \/ stopped
    BY <1>1, <1>2 DEF Inv, MainInv, TypeInv
  <2> QED BY <1>1, <1>2, <1>3, <2>1, <2>2, SameInput DEF MainInv, Busy
<1>5. mainpc' \in MainPCs /\ mainpc' # "walk"
  BY <1>1 DEF MainPCs
<1> QED BY <1>1, <1>2, <1>3, <1>4, <1>5, MainKeeps DEF TypeInv

\* main reports the error that run has returned.
LEMMA MainFailsKeeps ==
    ASSUME Inv, MainFails
    PROVE  Inv'
<1>1. /\ Alive /\ mainpc = "failed"
      /\ UNCHANGED <<input, walkVars, workerVars, flagVars, stats, channel, printer,
                     report, printed>>
  BY DEF MainFails
<1>2. "Other" \in trouble /\ trouble \subseteq {"BrokenPipe", "Other", "stderr"}
  BY <1>1 DEF Inv, MainInv, TypeInv
<1>3. CASE Exit(2) /\ UNCHANGED trouble
  BY <1>1, <1>2, <1>3, ExitKeeps DEF Exit
<1>4. ASSUME NEW f \in Failures, Complain(f) PROVE Inv'
  <2>1. /\ trouble \subseteq trouble' /\ trouble' # {}
        /\ trouble' \subseteq {"BrokenPipe", "Other", "stderr"}
        /\ mainpc' = "exit" /\ status' \in {0, 2} /\ "stderr" \in trouble'
    BY <1>2, <1>4 DEF Complain, Exit, ComplaintStatus
  <2> QED BY <1>1, <2>1, ExitKeeps
<1> QED BY <1>3, <1>4 DEF MainFails

\* run has returned a status.
LEMMA RunReturnsKeeps ==
    ASSUME Inv, RunReturns
    PROVE  Inv'
<1>1. /\ Alive /\ mainpc = "status" /\ mainpc' = "exit" /\ status' = ExitStatus
      /\ UNCHANGED <<args, kind, pending, stopped, pc, current, buffer, matched,
                     searched, errored, stats, channel, printer, report, printed,
                     trouble>>
  BY DEF RunReturns, Exit, input, walkVars, workerVars, flagVars, outVars
<1>2. TypeInv
  BY DEF Inv
<1>3. status' \in {0, 1, 2} /\ (status' = 2 => errored) /\ status' # NoStatus
      /\ status' = ExitStatus'
  BY <1>1 DEF ExitStatus, NoStatus
<1>4. MainInv'
  BY <1>1, <1>3, SameInput DEF Inv, MainInv, Busy
<1>5. mainpc' \in MainPCs
  BY <1>1 DEF MainPCs
<1> QED BY <1>1, <1>2, <1>3, <1>4, <1>5, MainKeeps DEF TypeInv

-----------------------------------------------------------------------------
(* The invariant.                                                          *)

\* It holds before the first result is delivered.
LEMMA InitInv ==
    ASSUME Init
    PROVE  Inv
<1> DEFINE r0 == CHOOSE r \in Results : TRUE
<1>1. r0 \in Results
  BY DriverAssumption
<1>2. /\ args \in ArgChoices /\ kind \in KindChoices
      /\ pending = Results /\ stopped = FALSE
      /\ pc = [w \in Workers |-> "idle"] /\ current = [w \in Workers |-> r0]
      /\ buffer = [w \in Workers |-> {}]
      /\ matched = FALSE /\ searched = FALSE /\ errored = FALSE
      /\ stats = 0 /\ channel = <<>>
      /\ printer = IF args.mode = "files_parallel" THEN "running" ELSE "none"
      /\ report = NoReport
      /\ printed = [r \in Results |-> 0] /\ trouble = {}
      /\ mainpc = "walk" /\ status = NoStatus
  BY DEF Init
<1> HIDE DEF r0
<1>3. TypeInv
  <2>1. /\ pc \in [Workers -> PCs] /\ current \in [Workers -> Results]
        /\ buffer \in [Workers -> SUBSET Results] /\ printed \in [Results -> Nat]
    BY <1>1, <1>2 DEF PCs
  <2>2. channel \in Seq(Results) /\ report \in Nat /\ mainpc \in MainPCs
    BY <1>2, CountedFinite DEF MainPCs
  <2> QED BY <1>2, <2>1, <2>2 DEF TypeInv
<1>4. Contents(channel) = {} /\ Distinct(channel)
  BY <1>2 DEF Contents, Distinct
<1>5. \A w \in Workers : pc[w] = "idle" /\ ~Busy(w)
  BY <1>2 DEF Busy
<1>6. PlaceInv
  BY <1>2, <1>4, <1>5 DEF PlaceInv
<1>7. \A w \in Workers : StageInv(w)
  BY <1>5 DEF StageInv, Unprinted
<1>8. PrintInv /\ FlagInv
  BY <1>2, <1>5 DEF PrintInv, FlagInv
<1>9. CleanInv
  <2>1. Matches \subseteq Results
    BY DEF Matches, Haystacks
  <2> QED BY <1>2, <1>5, <2>1 DEF CleanInv
<1>10. CountInv
  <2>1. Counted = {}
    BY <1>2 DEF Counted, Searched
  <2> QED BY <1>2, <2>1, FS_EmptySet DEF CountInv
<1>11. MainInv
  BY <1>2 DEF MainInv, NoStatus
<1> QED BY <1>3, <1>6, <1>7, <1>8, <1>9, <1>10, <1>11 DEF Inv

\* Every step keeps it.
LEMMA StepInv ==
    ASSUME Inv, [Next]_vars
    PROVE  Inv'
<1>1. CASE UNCHANGED vars
  <2>1. UNCHANGED <<args, kind, pending, stopped, pc, current, buffer, matched,
                    searched, errored, stats, channel, printer, report, printed,
                    trouble, mainpc, status>>
    BY <1>1 DEF vars, input, walkVars, workerVars, flagVars, outVars, mainVars
  <2>2. TypeInv' /\ PlaceInv'
    BY <2>1, SameInput DEF Inv, TypeInv, PlaceInv, Busy
  <2>3. \A w \in Workers : StageInv(w)'
    BY <2>1, OtherStage DEF Inv
  <2>4. PrintInv' /\ FlagInv'
    BY <2>1, SameInput DEF Inv, PrintInv, FlagInv, At
  <2>5. CleanInv'
    <3>1. \A w \in Workers : Unprinted(w)' <=> Unprinted(w)
      BY <2>1, SameInput DEF Unprinted
    <3> QED BY <2>1, <3>1, SameInput DEF Inv, CleanInv, At
  <2>6. CountInv'
    <3>1. Counted' = Counted
      BY <2>1, SameInput DEF Counted, At
    <3> QED BY <2>1, <3>1, SameInput DEF Inv, CountInv
  <2>7. MainInv'
    BY <2>1, SameInput DEF Inv, MainInv, Busy, ExitStatus
  <2> QED BY <2>2, <2>3, <2>4, <2>5, <2>6, <2>7 DEF Inv
<1>2. ASSUME NEW w \in Workers, Worker(w) PROVE Inv'
  BY <1>2, DeliverKeeps, MessageKeeps, SearchFailsKeeps, SearchEndsKeeps,
     SearchEndsSeriallyKeeps, StoreMatchedKeeps, AddStatsKeeps, PrintBufferKeeps,
     DecideKeeps, QuitWalkKeeps, FoundKeeps, WritePathKeeps, SendKeeps DEF Worker
<1>3. CASE Main
  BY <1>3, MatchImpossibleKeeps, WalkReturnsKeeps, NothingSearchedKeeps, ReportKeeps,
     JoinKeeps, MainFailsKeeps, RunReturnsKeeps DEF Main
<1> QED BY <1>1, <1>2, <1>3, PrintPathKeeps, PrinterEndsKeeps DEF Next, Gone

\* Inv is an invariant.
LEMMA Invariance == SafeSpec => []Inv
<1>1. Init => Inv
  BY InitInv
<1>2. Inv /\ [Next]_vars => Inv'
  BY StepInv
<1> QED BY <1>1, <1>2, PTL DEF SafeSpec
-----------------------------------------------------------------------------
(* What the drivers promise.                                               *)

\* Once the process is gone, and if stdout and stderr have worked, all results
\* have been dealt with, unless a match was enough.
LEMMA AtTheEnd ==
    ASSUME Inv, ~Alive, trouble = {}
    PROVE  /\ mainpc = "exit" /\ status = ExitStatus
           /\ \A w \in Workers : ~Busy(w)
           /\ args.mode # "hopeless" => pending = {} \/ (matched /\ QuitAfterMatch)
           /\ channel = <<>>
<1>1. mainpc = "exit" /\ status = ExitStatus /\ \A w \in Workers : ~Busy(w)
  BY DEF Inv, MainInv, Alive
<1>2. args.mode # "hopeless" => pending = {} \/ (matched /\ QuitAfterMatch)
  BY <1>1 DEF Inv, MainInv, CleanInv
<1>3. channel = <<>>
  BY <1>1 DEF Inv, MainInv, PlaceInv
<1> QED BY <1>1, <1>2, <1>3

\* The exit status is that of the grep convention, for every schedule: search
\* and files, and search_parallel and files_parallel with any number of
\* threads, agree with ExitStatus computed from the tree alone (main.rs:82).
THEOREM DeterministicExitCorrect == SafeSpec => []DeterministicExit
<1>1. ASSUME Inv PROVE DeterministicExit
  <2>1. SUFFICES ASSUME ~Alive, trouble = {} PROVE status = Expected
    BY DEF DeterministicExit
  <2>2. /\ mainpc = "exit" /\ status = ExitStatus
        /\ \A w \in Workers : pc[w] = "idle"
        /\ args.mode # "hopeless" => pending = {} \/ (matched /\ QuitAfterMatch)
    BY <1>1, <2>1, AtTheEnd DEF Busy
  <2>3. /\ matched => Matches # {} /\ args.mode # "hopeless"
        /\ errored => Faulty
    BY <1>1, <2>1 DEF Inv, FlagInv
  <2>4. CASE args.mode = "hopeless"
    BY <2>2, <2>3, <2>4 DEF ExitStatus, Expected, Faulty
  <2>5. CASE matched /\ QuitAfterMatch
    BY <2>2, <2>3, <2>5 DEF ExitStatus, Expected, QuitAfterMatch
  <2>6. CASE args.mode # "hopeless" /\ pending = {}
    <3>1. Matches # {} => matched
      <4>1. \A r \in Matches \ pending :
               matched \/ \E w \in Workers : At(w, r, {"search", "store", "found"})
        BY <1>1, <2>1 DEF Inv, CleanInv
      <4> QED BY <2>2, <2>6, <4>1 DEF At
    <3>2. Faulty => errored
      <4>1. ASSUME NEW r \in Results, kind[r] = "walkerr" PROVE errored
        BY <1>1, <2>6, <4>1 DEF Inv, FlagInv
      <4>2. ASSUME SearchMode, NEW r \in Results, kind[r] = "searcherr" PROVE errored
        BY <1>1, <2>2, <2>6, <4>2 DEF Inv, FlagInv, At
      <4>3. ASSUME SearchMode, args.implicit, Haystacks = {} PROVE errored
        BY <1>1, <2>1, <2>2, <2>6, <4>3 DEF Inv, FlagInv, MainInv
      <4> QED BY <4>1, <4>2, <4>3 DEF Faulty
    <3> QED BY <2>2, <2>3, <2>6, <3>1, <3>2 DEF ExitStatus, Expected
  <2> QED BY <2>2, <2>4, <2>5, <2>6
<1> QED BY <1>1, Invariance, PTL

\* Nothing is printed twice or by mistake, nothing is forgotten, and --stats
\* counts every search (bufwtr.print, print_stats), for every schedule.
THEOREM OutputExactCorrect == SafeSpec => []OutputExact
<1>1. ASSUME Inv PROVE OutputExact
  <2>1. \A r \in Results :
         /\ printed[r] <= 1
         /\ printed[r] = 1 =>
              /\ ~args.quiet \/ FilesMode
              /\ r \in Matches \/ (args.mode = "search" /\ kind[r] = "searcherr")
    BY <1>1 DEF Inv, PrintInv
  <2>2. ASSUME ~Alive, trouble = {}
        PROVE  /\ ~args.quiet /\ args.mode # "hopeless" =>
                    \A r \in Matches : printed[r] = 1
               /\ SearchMode /\ args.stats =>
                    report = Cardinality({r \in Results : kind[r] \in {"match", "nomatch"}})
    <3>1. /\ mainpc = "exit" /\ \A w \in Workers : pc[w] = "idle"
          /\ args.mode # "hopeless" => pending = {} \/ (matched /\ QuitAfterMatch)
          /\ channel = <<>>
      BY <1>1, <2>2, AtTheEnd DEF Busy
    <3>2. ASSUME ~args.quiet, args.mode # "hopeless", NEW r \in Matches
          PROVE  printed[r] = 1
      <4>1. pending = {}
        BY <3>1, <3>2 DEF QuitAfterMatch
      <4>2. \/ printed[r] = 1
            \/ r \in Contents(channel)
            \/ \E w \in Workers : current[w] = r /\ Unprinted(w)
        BY <1>1, <2>2, <3>2, <4>1 DEF Inv, CleanInv
      <4>3. Contents(channel) = {}
        BY <3>1 DEF Contents
      <4> QED BY <3>1, <4>2, <4>3 DEF Unprinted
    <3>3. ASSUME SearchMode, args.stats
          PROVE  report = Cardinality({r \in Results : kind[r] \in {"match", "nomatch"}})
      <4>1. pending = {}
        BY <3>1, <3>3 DEF QuitAfterMatch, SearchMode
      <4>2. Counted = Searched
        BY <3>1, <4>1 DEF Counted, At
      <4>3. report = stats /\ stats = Cardinality(Counted)
        BY <1>1, <2>2, <3>1, <3>3 DEF Inv, MainInv, CountInv
      <4> QED BY <4>2, <4>3 DEF Searched
    <3> QED BY <3>2, <3>3
  <2> QED BY <2>1, <2>2 DEF OutputExact
<1> QED BY <1>1, Invariance, PTL

\* A reader of stdout that goes away is no error (main.rs: "A broken pipe means
\* graceful termination"), for every schedule.
THEOREM GracefulBrokenPipeCorrect == SafeSpec => []GracefulBrokenPipe
<1>1. ASSUME Inv PROVE GracefulBrokenPipe
  BY <1>1 DEF Inv, MainInv, FlagInv, GracefulBrokenPipe
<1> QED BY <1>1, Invariance, PTL

\* With the column of git blame the drivers do what they do without: looking
\* into the cache and running git change none of their state.
THEOREM BlameChangesNothing == BlamedSpec => SafeSpec
<1>1. BlameInit => Init
  BY DEF BlameInit
<1>2. [BlamedNext]_allVars => [Next]_vars
  <2>1. ASSUME NEW w \in Workers, BlamedWorker(w) PROVE [Next]_vars
    BY <2>1 DEF BlamedWorker, Ask, Fetch, AskAgain, Next
  <2> QED BY <2>1 DEF BlamedNext, Next, allVars
<1> QED BY <1>1, <1>2, PTL DEF BlamedSpec, SafeSpec
-----------------------------------------------------------------------------
(* The cache of git blame.                                                 *)

\* The results with a path, and those of them that git is being asked about.
Of(p) == {r \in Results : PathOf[r] = p}
Askers(p) == {r \in Of(p) : \E w \in Workers : current[w] = r /\ asking[w] = "git"}

BlameType ==
    /\ cache \in [Paths -> {"absent", "blamed", "empty"}]
    /\ asking \in [Workers -> {"nothing", "git", "again"}]
    /\ answers \in [Results -> Seq({"blamed", "none"})]
    /\ git_runs \in [Paths -> Nat]

\* git runs only for a search that is going on, and leaves an entry.
AskInv ==
    /\ \A w \in Workers : asking[w] # "nothing" => pc[w] = "search" /\ Blames
    /\ \A p \in Paths : git_runs[p] = 0 <=> cache[p] = "absent"
    /\ \A w \in Workers : asking[w] = "again" => cache[PathAt(w)] # "absent"
    /\ Serial => \A w \in Workers : asking[w] = "git" => git_runs[PathAt(w)] = 0

\* No search runs it twice, and the first entry is the one that counts.
RunsInv ==
    /\ Serial => \A p \in Paths : git_runs[p] <= 1
    /\ \A p \in Paths : git_runs[p] + Cardinality(Askers(p)) <= Cardinality(Of(p))

AnswersInv ==
    \A r \in Results : \A i \in DOMAIN answers[r] :
        /\ cache[PathOf[r]] # "absent"
        /\ Serial \/ git_runs[PathOf[r]] <= 1 => answers[r][i] = Answer(PathOf[r])

BlameInv == BlameType /\ AskInv /\ RunsInv /\ AnswersInv

\* There are finitely many results with a path.
LEMMA OfFinite ==
    ASSUME NEW p
    PROVE  /\ IsFiniteSet(Of(p)) /\ Cardinality(Of(p)) \in Nat
           /\ IsFiniteSet(Askers(p)) /\ Cardinality(Askers(p)) \in Nat
           /\ Askers(p) \subseteq Of(p)
<1>1. Of(p) \subseteq Results /\ Askers(p) \subseteq Of(p) /\ IsFiniteSet(Results)
  BY DriverAssumption DEF Of, Askers
<1> QED BY <1>1, FS_Subset, FS_CardinalityType

\* The worker's result has a path.
LEMMA PathType ==
    ASSUME TypeInv, NEW w \in Workers
    PROVE  current[w] \in Results /\ PathAt(w) \in Paths /\ current[w] \in Of(PathAt(w))
  BY DEF TypeInv, PathAt, Paths, Of

\* A step of the drivers that leaves the workers which wait for git where they
\* are does not touch what the cache has promised.
LEMMA BlameKept ==
    ASSUME BlameInv, UNCHANGED <<args, kind>>, UNCHANGED blameVars,
           \A w \in Workers : asking[w] # "nothing" =>
                pc'[w] = pc[w] /\ current'[w] = current[w]
    PROVE  BlameInv'
<1> USE DEF BlameInv
<1>1. UNCHANGED <<cache, asking, answers, git_runs>>
  BY DEF blameVars
<1>2. BlameType'
  BY <1>1 DEF BlameType, Paths
<1>3. \A w \in Workers : asking[w] # "nothing" => PathAt(w)' = PathAt(w)
  BY DEF PathAt
<1>4. Blames' <=> Blames
  BY SameInput DEF Blames
<1>5. AskInv'
  <2>1. Paths' = Paths
    BY DEF Paths
  <2> QED BY <1>1, <1>3, <1>4, <2>1, SameInput DEF AskInv
<1>6. RunsInv'
  <2>1. \A p : Askers(p)' = Askers(p)
    BY <1>1 DEF Askers, Of
  <2> QED BY <1>1, <2>1, SameInput DEF RunsInv, Paths, Of
<1>7. AnswersInv'
  BY <1>1, SameInput DEF AnswersInv, Answer
<1> QED BY <1>2, <1>5, <1>6, <1>7

\* Workers move on their own.
LEMMA WorkerMovesAlone ==
    ASSUME TypeInv, NEW w \in Workers, Worker(w)
    PROVE  /\ UNCHANGED <<args, kind>>
           /\ \A v \in Workers \ {w} : pc'[v] = pc[v] /\ current'[v] = current[v]
           /\ pc[w] = "search" => pc'[w] # "search" /\ current'[w] = current[w]
<1> USE DEF TypeInv, Goto, input, workerVars
<1>1. CASE Deliver(w)
  <2>1. PICK r \in pending : current' = [current EXCEPT ![w] = r]
    BY <1>1 DEF Deliver
  <2>2. PICK p : pc' = [pc EXCEPT ![w] = p]
    BY <1>1 DEF Deliver
  <2> QED BY <1>1, <2>1, <2>2 DEF Deliver
<1>2. CASE Message(w)
  BY <1>2 DEF Message
<1>3. CASE SearchFails(w)
  BY <1>3 DEF SearchFails
<1>4. CASE SearchEnds(w)
  BY <1>4 DEF SearchEnds
<1>5. CASE SearchEndsSerially(w)
  BY <1>5 DEF SearchEndsSerially
<1>6. CASE StoreMatched(w) \/ AddStats(w) \/ Decide(w) \/ QuitWalk(w)
  BY <1>6 DEF StoreMatched, AddStats, Decide, QuitWalk
<1>7. CASE PrintBuffer(w)
  BY <1>7 DEF PrintBuffer
<1>8. CASE Found(w) \/ WritePath(w)
  BY <1>8 DEF Found, WritePath
<1>9. CASE Send(w)
  BY <1>9 DEF Send
<1> QED BY <1>1, <1>2, <1>3, <1>4, <1>5, <1>6, <1>7, <1>8, <1>9 DEF Worker

\* One line more has its answer, from an entry of the cache.
LEMMA AnsweredKeeps ==
    ASSUME Inv, BlameInv, NEW w \in Workers, Answered(w), asking[w] # "git",
           cache[PathAt(w)] # "absent",
           UNCHANGED <<args, kind, pc, current, cache, git_runs>>
    PROVE  BlameInv'
<1> USE DEF BlameInv
<1> DEFINE a == Answer(PathAt(w))
<1>1. TypeInv
  BY DEF Inv
<1>2. /\ answers' = [answers EXCEPT ![current[w]] = Append(@, a)]
      /\ asking' = [asking EXCEPT ![w] = "nothing"]
      /\ a \in {"blamed", "none"} /\ current[w] \in Results
  BY <1>1, PathType DEF Answered, Answer
<1> HIDE DEF a
<1>3. \A v \in Workers \ {w} : asking'[v] = asking[v]
  BY <1>2 DEF BlameType
<1>4. /\ asking'[w] = "nothing" /\ asking' \in [Workers -> {"nothing", "git", "again"}]
      /\ answers' \in [Results -> Seq({"blamed", "none"})]
      /\ answers'[current[w]] = Append(answers[current[w]], a)
      /\ \A r \in Results \ {current[w]} : answers'[r] = answers[r]
  BY <1>2 DEF BlameType
<1>5. BlameType'
  BY <1>4 DEF BlameType, Paths
<1>6. \A v \in Workers : PathAt(v)' = PathAt(v)
  BY DEF PathAt
<1>7. Paths' = Paths /\ (Blames' <=> Blames)
  BY SameInput DEF Paths, Blames
<1>8. AskInv'
  BY SMTT(30), <1>3, <1>4, <1>6, <1>7, SameInput DEF AskInv
<1>9. RunsInv'
  <2>1. \A p : Askers(p)' = Askers(p)
    BY <1>3, <1>4 DEF Askers, Of
  <2> QED BY <1>7, <2>1, SameInput DEF RunsInv, Of
<1>10. AnswersInv'
  <2>1. ASSUME NEW r \in Results, NEW i \in DOMAIN answers'[r]
        PROVE  /\ cache[PathOf[r]] # "absent"
               /\ Serial \/ git_runs[PathOf[r]] <= 1 => answers'[r][i] = Answer(PathOf[r])
    <3>1. CASE r # current[w]
      BY <1>4, <2>1, <3>1 DEF AnswersInv
    <3>2. CASE r = current[w]
      <4>1. answers[r] \in Seq({"blamed", "none"}) /\ answers'[r] = Append(answers[r], a)
        BY <1>4, <3>2 DEF BlameType
      <4>2. PathOf[r] = PathAt(w)
        BY <3>2 DEF PathAt
      <4>3. CASE i \in DOMAIN answers[r]
        <5>1. answers'[r][i] = answers[r][i]
          BY <4>1, <4>3
        <5> QED BY <4>3, <5>1 DEF AnswersInv
      <4>4. CASE i = Len(answers[r]) + 1
        <5>1. answers'[r][i] = a
          BY <4>1, <4>4
        <5> QED BY <4>2, <5>1 DEF a
      <4>5. i \in DOMAIN answers[r] \/ i = Len(answers[r]) + 1
        BY <2>1, <4>1
      <4> QED BY <4>3, <4>4, <4>5
    <3> QED BY <3>1, <3>2
  <2>2. \A p : Answer(p)' = Answer(p)
    BY DEF Answer
  <2> QED BY <2>1, <2>2, SameInput DEF AnswersInv
<1> QED BY <1>5, <1>8, <1>9, <1>10

\* A line whose file has no entry makes the worker run git.
LEMMA AskGitKeeps ==
    ASSUME Inv, BlameInv, NEW w \in Workers, pc[w] = "search", Blames,
           cache[PathAt(w)] = "absent",
           asking' = [asking EXCEPT ![w] = "git"],
           UNCHANGED <<args, kind, pc, current, cache, answers, git_runs>>
    PROVE  BlameInv'
<1> USE DEF BlameInv
<1>1. /\ PathAt(w) \in Paths /\ current[w] \in Results
      /\ git_runs[PathAt(w)] = 0 /\ git_runs \in [Paths -> Nat]
  <2>1. TypeInv
    BY DEF Inv
  <2> QED BY <2>1, PathType DEF AskInv, BlameType
<1>2. /\ asking'[w] = "git" /\ asking' \in [Workers -> {"nothing", "git", "again"}]
      /\ \A v \in Workers \ {w} : asking'[v] = asking[v]
  BY DEF BlameType
<1>3. Paths' = Paths /\ (Blames' <=> Blames) /\ \A v \in Workers : PathAt(v)' = PathAt(v)
  BY SameInput DEF Paths, Blames, PathAt
<1>4. BlameType'
  BY <1>2, <1>3 DEF BlameType
<1>5. AskInv'
  BY <1>1, <1>2, <1>3, SameInput DEF AskInv
<1>6. RunsInv'
  <2>1. ASSUME NEW p \in Paths
        PROVE  git_runs[p] + Cardinality(Askers(p)') <= Cardinality(Of(p))
    <3>1. CASE p = PathAt(w)
      <4>1. Askers(p)' \subseteq Of(p)
        BY DEF Askers, Of
      <4>2. Cardinality(Askers(p)') <= Cardinality(Of(p))
        BY <4>1, OfFinite, FS_Subset
      <4>3. Cardinality(Askers(p)') \in Nat
        BY <4>1, OfFinite, FS_Subset, FS_CardinalityType
      <4> QED BY <1>1, <3>1, <4>2, <4>3, OfFinite
    <3>2. CASE p # PathAt(w)
      <4>1. Askers(p)' = Askers(p)
        BY <1>2, <3>2 DEF Askers, Of, PathAt
      <4> QED BY <4>1 DEF RunsInv
    <3> QED BY <3>1, <3>2
  <2>2. \A p : Of(p)' = Of(p) /\ Cardinality(Askers(p))' = Cardinality(Askers(p)')
    BY DEF Of
  <2> QED BY <1>3, <2>1, <2>2, SameInput DEF RunsInv
<1>7. AnswersInv'
  BY SameInput DEF AnswersInv, Answer
<1> QED BY <1>4, <1>5, <1>6, <1>7

\* What git says becomes the entry, and the worker asks about its file no more.
LEMMA FetchKeeps ==
    ASSUME Inv, BlameInv, NEW w \in Workers, Fetch(w)
    PROVE  BlameInv'
<1> USE DEF BlameInv
<1>1. PICK says \in {"blamed", "empty"} :
         cache' = [cache EXCEPT ![PathAt(w)] = says]
  BY DEF Fetch, Entry
<1>2. /\ asking[w] = "git"
      /\ git_runs' = [git_runs EXCEPT ![PathAt(w)] = @ + 1]
      /\ asking' = [asking EXCEPT ![w] = "again"]
      /\ UNCHANGED <<args, kind, pc, current, answers>>
  BY DEF Fetch, vars, input, workerVars
<1>3. TypeInv /\ PathAt(w) \in Paths /\ current[w] \in Results
      /\ current[w] \in Of(PathAt(w))
  <2>1. TypeInv
    BY DEF Inv
  <2> QED BY <2>1, PathType
<1>4. /\ cache' \in [Paths -> {"absent", "blamed", "empty"}]
      /\ cache'[PathAt(w)] = says
      /\ \A p \in Paths \ {PathAt(w)} : cache'[p] = cache[p]
      /\ git_runs' \in [Paths -> Nat]
      /\ git_runs[PathAt(w)] \in Nat /\ git_runs'[PathAt(w)] = git_runs[PathAt(w)] + 1
      /\ \A p \in Paths \ {PathAt(w)} : git_runs'[p] = git_runs[p]
      /\ asking' \in [Workers -> {"nothing", "git", "again"}] /\ asking'[w] = "again"
      /\ \A v \in Workers \ {w} : asking'[v] = asking[v]
  BY <1>1, <1>2, <1>3 DEF BlameType
<1>5. Paths' = Paths /\ (Blames' <=> Blames) /\ \A v \in Workers : PathAt(v)' = PathAt(v)
  BY <1>2, SameInput DEF Paths, Blames, PathAt
<1>6. \A v \in Workers : PathAt(v) \in Paths /\ current[v] \in Results
  BY <1>3, PathType
<1>7. \A v \in Workers \ {w} : asking[v] = "git" => current[v] # current[w] /\ ~Serial
  <2>1. ASSUME NEW v \in Workers \ {w}, asking[v] = "git"
        PROVE  current[v] # current[w] /\ ~Serial
    <3>1. Busy(v) /\ Busy(w)
      BY <1>2, <2>1 DEF AskInv, Busy
    <3> QED BY <2>1, <3>1 DEF Inv, PlaceInv, Threads
  <2> QED BY <2>1
<1>8. BlameType'
  BY <1>2, <1>4, <1>5 DEF BlameType
<1>9. AskInv'
  <2>1. \A v \in Workers : asking'[v] # "nothing" => pc[v] = "search" /\ Blames
    BY <1>2, <1>4 DEF AskInv
  <2>2. \A p \in Paths : git_runs'[p] = 0 <=> cache'[p] = "absent"
    <3>1. ASSUME NEW p \in Paths PROVE git_runs'[p] = 0 <=> cache'[p] = "absent"
      <4>1. CASE p = PathAt(w)
        BY <1>1, <1>4, <4>1
      <4>2. CASE p # PathAt(w)
        BY <1>4, <4>2 DEF AskInv
      <4> QED BY <4>1, <4>2
    <3> QED BY <3>1
  <2>3. \A v \in Workers : asking'[v] = "again" => cache'[PathAt(v)] # "absent"
    <3>1. ASSUME NEW v \in Workers, asking'[v] = "again"
          PROVE  cache'[PathAt(v)] # "absent"
      <4>1. CASE PathAt(v) = PathAt(w)
        BY <1>1, <1>4, <4>1
      <4>2. CASE PathAt(v) # PathAt(w)
        BY <1>4, <1>6, <3>1, <4>2 DEF AskInv
      <4> QED BY <4>1, <4>2
    <3> QED BY <3>1
  <2>4. Serial => \A v \in Workers : asking'[v] # "git"
    BY <1>4, <1>7
  <2> QED BY <1>2, <1>5, <2>1, <2>2, <2>3, <2>4, SameInput DEF AskInv
<1>10. RunsInv'
  <2>1. Serial => \A p \in Paths : git_runs'[p] <= 1
    <3>1. Serial => git_runs[PathAt(w)] = 0
      BY <1>2 DEF AskInv
    <3> QED BY <1>4, <3>1 DEF RunsInv
  <2>2. ASSUME NEW p \in Paths
        PROVE  git_runs'[p] + Cardinality(Askers(p)') <= Cardinality(Of(p))
    <3>1. CASE p = PathAt(w)
      <4>1. current[w] \in Askers(p) /\ Askers(p)' = Askers(p) \ {current[w]}
        BY <1>2, <1>3, <1>4, <1>7, <3>1 DEF Askers, Of
      <4>2. Cardinality(Askers(p)') = Cardinality(Askers(p)) - 1
        BY <4>1, OfFinite, FS_RemoveElement
      <4>3. git_runs[p] + Cardinality(Askers(p)) <= Cardinality(Of(p))
        BY DEF RunsInv
      <4> QED BY <1>4, <3>1, <4>2, <4>3, OfFinite
    <3>2. CASE p # PathAt(w)
      <4>1. Askers(p)' = Askers(p)
        BY <1>2, <1>4, <3>2 DEF Askers, Of, PathAt
      <4> QED BY <1>4, <3>2, <4>1 DEF RunsInv
    <3> QED BY <3>1, <3>2
  <2>3. \A p : Of(p)' = Of(p) /\ Cardinality(Askers(p))' = Cardinality(Askers(p)')
    BY DEF Of
  <2> QED BY <1>2, <1>5, <2>1, <2>2, <2>3, SameInput DEF RunsInv
<1>11. AnswersInv'
  <2>1. ASSUME NEW r \in Results, NEW i \in DOMAIN answers[r]
        PROVE  /\ cache'[PathOf[r]] # "absent"
               /\ Serial \/ git_runs'[PathOf[r]] <= 1 => answers[r][i] = Answer(PathOf[r])'
    <3>1. PathOf[r] \in Paths
      BY DEF Paths
    <3>2. CASE PathOf[r] = PathAt(w)
      <4>1. git_runs[PathAt(w)] # 0
        BY <1>3, <2>1, <3>2 DEF AnswersInv, AskInv
      <4>2. ~Serial /\ ~(git_runs'[PathAt(w)] <= 1)
        BY <1>2, <1>4, <4>1 DEF AskInv
      <4> QED BY <1>1, <1>4, <3>2, <4>2
    <3>3. CASE PathOf[r] # PathAt(w)
      BY <1>4, <2>1, <3>1, <3>3 DEF AnswersInv, Answer
    <3> QED BY <3>2, <3>3
  <2> QED BY <1>2, <2>1, SameInput DEF AnswersInv
<1> QED BY <1>8, <1>9, <1>10, <1>11

\* Every step keeps what the cache has promised.
LEMMA BlameStep ==
    ASSUME Inv, BlameInv, [BlamedNext]_allVars
    PROVE  BlameInv'
<1>1. CASE UNCHANGED allVars \/ ((PrintPath \/ PrinterEnds \/ Main \/ Gone)
                                    /\ UNCHANGED blameVars)
  <2>1. UNCHANGED <<args, kind, pc, current>> /\ UNCHANGED blameVars
    BY <1>1 DEF allVars, vars, input, workerVars, PrintPath, PrinterEnds, Main, Gone,
       MatchImpossible, WalkReturns, NothingSearched, Report, Join, MainFails, RunReturns
  <2> QED BY <2>1, BlameKept
<1>2. ASSUME NEW w \in Workers, BlamedWorker(w) PROVE BlameInv'
  <2>1. CASE Ask(w)
    <3>1. UNCHANGED <<args, kind, pc, current, cache, git_runs>>
          /\ pc[w] = "search" /\ asking[w] = "nothing" /\ Blames
      BY <2>1 DEF Ask, vars, input, workerVars
    <3>2. CASE cache[PathAt(w)] # "absent"
      <4>1. Answered(w)
        BY <2>1, <3>2 DEF Ask
      <4> QED BY <3>1, <3>2, <4>1, AnsweredKeeps
    <3>3. CASE cache[PathAt(w)] = "absent"
      <4>1. asking' = [asking EXCEPT ![w] = "git"] /\ answers' = answers
        BY <2>1, <3>3 DEF Ask
      <4> QED BY <3>1, <3>3, <4>1, AskGitKeeps
    <3> QED BY <3>2, <3>3
  <2>2. CASE Fetch(w)
    BY <2>2, FetchKeeps
  <2>3. CASE AskAgain(w)
    <3>1. UNCHANGED <<args, kind, pc, current, cache, git_runs>>
          /\ asking[w] = "again" /\ Answered(w)
      BY <2>3 DEF AskAgain, vars, input, workerVars
    <3>2. cache[PathAt(w)] # "absent"
      BY <3>1 DEF BlameInv, AskInv
    <3> QED BY <3>1, <3>2, AnsweredKeeps
  <2>4. CASE Worker(w) /\ LinesAnswered(w) /\ UNCHANGED blameVars
    <3>1. asking[w] = "nothing"
      BY <2>4 DEF LinesAnswered, BlameInv, AskInv
    <3>2. TypeInv
      BY DEF Inv
    <3> QED BY <2>4, <3>1, <3>2, WorkerMovesAlone, BlameKept
  <2> QED BY <1>2, <2>1, <2>2, <2>3, <2>4 DEF BlamedWorker
<1> QED BY <1>1, <1>2 DEF BlamedNext

\* It holds at first.
LEMMA BlameInitInv ==
    ASSUME BlameInit
    PROVE  BlameInv
<1>1. /\ cache = [p \in Paths |-> "absent"] /\ asking = [w \in Workers |-> "nothing"]
      /\ answers = [r \in Results |-> <<>>] /\ git_runs = [p \in Paths |-> 0]
  BY DEF BlameInit
<1>2. BlameType
  BY <1>1 DEF BlameType
<1>3. \A p : Askers(p) = {}
  BY <1>1 DEF Askers
<1>4. \A r \in Results : PathOf[r] \in Paths
  BY DEF Paths
<1>5. AskInv
  BY <1>1 DEF AskInv
<1>6. RunsInv
  BY <1>1, <1>3, OfFinite, FS_EmptySet DEF RunsInv
<1>7. AnswersInv
  BY <1>1 DEF AnswersInv
<1> QED BY <1>2, <1>5, <1>6, <1>7 DEF BlameInv

\* git runs at most once for every search of a file, and all lines of a file
\* get the answer of its first run unless two searches of the file have met
\* (get_blame and fetch_file_blame, which lock the cache in turn).
THEOREM BlameConsistentCorrect == BlamedSpec => []BlameConsistent
<1>1. BlameInit => BlameInv
  BY BlameInitInv
<1>2. Inv /\ BlameInv /\ [BlamedNext]_allVars => BlameInv'
  BY BlameStep
<1>3. ASSUME BlameInv PROVE BlameConsistent
  <2>1. ASSUME NEW p \in Paths
        PROVE  git_runs[p] <= IF Serial THEN 1
                              ELSE Cardinality({r \in Results : PathOf[r] = p})
    <3>1. /\ git_runs[p] \in Nat
          /\ git_runs[p] + Cardinality(Askers(p)) <= Cardinality(Of(p))
          /\ Serial => git_runs[p] <= 1
      BY <1>3 DEF BlameInv, BlameType, RunsInv
    <3>2. git_runs[p] <= Cardinality(Of(p))
      BY <3>1, OfFinite
    <3> QED BY <3>1, <3>2 DEF Of
  <2>2. \A r, s \in Results :
          PathOf[r] = PathOf[s] /\ (Serial \/ git_runs[PathOf[r]] <= 1) =>
             \A i \in DOMAIN answers[r], j \in DOMAIN answers[s] :
                answers[r][i] = answers[s][j]
    BY <1>3 DEF BlameInv, AnswersInv
  <2> QED BY <2>1, <2>2 DEF BlameConsistent
<1>4. BlamedSpec => []Inv
  BY BlameChangesNothing, Invariance, PTL
<1> QED BY <1>1, <1>2, <1>3, <1>4, PTL DEF BlamedSpec
=============================================================================
