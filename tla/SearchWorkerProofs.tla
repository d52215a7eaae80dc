------------------------- MODULE SearchWorkerProofs -------------------------
(***************************************************************************)
(* What can be relied on of the search worker and its printers, for every  *)
(* configuration, any files in any number and however much is reported     *)
(* for each: the layout of lines, the bracketing of messages, the          *)
(* statistics, and the agreement of answer and output                      *)
(* (crates/core/search.rs, crates/printer).                                *)
(*                                                                         *)
(* The invariant says where in the output the file of the moment begins -  *)
(* at what the writer's total says - and ties what has been written behind *)
(* that to what the sink has counted and what the searcher has told it.    *)
(***************************************************************************)
EXTENDS SearchWorker, SequenceTheorems, TLAPS

Tokens == [file : Nat, what : What, n : Nat]
Told == [lines : Nat, calls : Nat, found : Nat, matched : Nat, matches : Nat]
Stats == [searches : Nat, withMatch : Nat, printed : Nat, lines : Nat, matches : Nat]
Sinks == [matches : Nat, binary : BOOLEAN, begun : BOOLEAN, stats : Stats]
Returned == [error : BOOLEAN, hasMatch : BOOLEAN, stats : Stats, told : Told,
             refused : BOOLEAN, binary : BOOLEAN, detection : Detections]

TypeInv ==
    /\ cfg \in Configs /\ files \in [1..NumFiles -> Haystacks]
    /\ current \in 1..(NumFiles + 1)
    /\ phase \in {"idle", "begin", "search", "close"}
    /\ phase # "idle" => current \in 1..NumFiles
    /\ detection \in Detections
    /\ refused \in BOOLEAN /\ seenBinary \in BOOLEAN
    /\ owed \in {"nothing", "line", "match"}
    /\ told \in Told /\ sink \in Sinks
    /\ out \in Seq(Tokens) /\ count \in Nat /\ total \in Nat
    /\ results \in Seq(Returned) /\ Len(results) = current - 1

Searching == phase \in {"search", "close"}

\* The tokens of the file of the moment are those behind the writer's total.
WriterInv ==
    /\ total + count = Len(out)
    /\ \A i \in DOMAIN out : out[i].file \in 1..current
    /\ \A i \in DOMAIN out : out[i].file = current <=> (Searching /\ i > total)
    /\ \A i, j \in DOMAIN out : i < j => out[i].file <= out[j].file

\* Each printer has its own sorts of tokens.
Sorts == CASE cfg.printer = "Standard" -> Lines \cup {"separator", "heading", "break", "notice"}
           [] cfg.printer = "Summary" -> {"path", "count"}
           [] cfg.printer = "JSON" -> Lines \cup {"begin", "end"}
SortInv == \A i \in DOMAIN out : out[i].what \in Sorts

\* Binary data has ended a summary's search, which then counts for nothing.
Squashed == cfg.printer = "Summary" /\ seenBinary /\ detection = "quit"

\* The sink has counted what the searcher told it.
TellInv ==
    /\ phase # "idle" => detection = Detection(File)
    /\ phase = "begin" => /\ sink = NewSink /\ told = NothingTold
                          /\ refused = FALSE /\ owed = "nothing"
    /\ told.lines = told.matched
    /\ told.matched > 0 /\ ~cfg.inverted => told.matches > 0
    /\ told.matches > 0 => told.matched > 0
    /\ told.matched > 0 => told.found > 0
    /\ told.found > 0 /\ told.matched = 0 => owed = "match" /\ ~cfg.passthru
    /\ phase = "close" => \/ owed = "nothing" \/ refused
                          \/ seenBinary /\ detection = "quit"
    /\ phase = "search" => sink.matches = told.matched
    /\ phase = "close" => sink.matches = IF Squashed THEN 0 ELSE told.matched
    /\ Searching /\ HasStats =>
         /\ sink.stats.lines = told.lines
         /\ sink.stats.matches = IF cfg.printer = "Summary" /\ cfg.inverted
                                 THEN told.matched ELSE told.matches
         /\ phase = "search" => sink.stats.searches = 0 /\ sink.stats.withMatch = 0
         /\ phase = "close" =>
              /\ sink.stats.searches = 1
              /\ sink.stats.withMatch = IF told.matched > 0 THEN 1 ELSE 0

\* What the standard printer has written for the file of the moment.
StandardInv ==
    cfg.printer = "Standard" =>
        /\ \A f \in 1..NumFiles : Laid(f)
        /\ phase = "search" =>
             /\ Places(current, {"notice"}) = {}
             /\ \A i \in Places(current, Lines) : out[i].n <= told.calls
             /\ ~refused /\ owed # "line" /\ told.calls > 0 =>
                    Len(out) \in Places(current, Lines)
             /\ told.matched > 0 => Places(current, {"match"}) # {} \/ sink.binary
             /\ Places(current, {"match"}) # {} => told.matched > 0
        /\ phase = "close" =>
             (sink.matches > 0 <=> Places(current, {"match", "notice"}) # {})

\* The summary printer writes when it finishes, if the answer is to be shown.
SummaryInv ==
    cfg.printer = "Summary" =>
        /\ phase = "search" => count = 0
        /\ phase = "close" /\ ~Quiet /\ ~Filtered(seenBinary, detection) =>
             (HasMatch(sink) <=> Shown(current))

\* What the JSON printer has written for the file of the moment.
JSONInv ==
    cfg.printer = "JSON" =>
        /\ Searching => (sink.begun <=> count > 0)
        /\ phase = "search" /\ sink.begun => Bracketed(current, FALSE)
        /\ phase = "close" /\ sink.begun => Bracketed(current, TRUE)
        /\ Searching => (told.matched > 0 <=> Places(current, {"match"}) # {})

Inv == /\ TypeInv /\ WriterInv /\ SortInv /\ TellInv /\ StandardInv /\ SummaryInv
       /\ JSONInv /\ JSONMessages /\ StatsExact /\ ResultShown
-----------------------------------------------------------------------------
(* Tokens and sequences of them.                                           *)

LEMMA TokenType ==
    ASSUME TypeInv, NEW w \in What, NEW n \in Nat
    PROVE  /\ Token(w, n) \in Tokens
           /\ Token(w, n).file = current /\ Token(w, n).what = w
           /\ Token(w, n).n = n
<1>1. current \in Nat
  BY WorkerAssumption DEF TypeInv
<1> QED BY <1>1 DEF Token, Tokens

LEMMA OneIfIs ==
    ASSUME NEW c \in BOOLEAN, NEW t \in Tokens
    PROVE  /\ OneIf(c, t) \in Seq(Tokens)
           /\ Len(OneIf(c, t)) = IF c THEN 1 ELSE 0
           /\ \A k \in 1 .. Len(OneIf(c, t)) : c /\ k = 1 /\ OneIf(c, t)[k] = t
<1>1. CASE c
  <2>1. OneIf(c, t) = <<t>>
    BY <1>1 DEF OneIf
  <2>2. <<t>> \in Seq(Tokens) /\ Len(<<t>>) = 1 /\ <<t>>[1] = t
    OBVIOUS
  <2>3. \A k \in 1 .. Len(<<t>>) : k = 1 /\ <<t>>[k] = t
    BY <2>2
  <2>4. Len(<<t>>) = IF c THEN 1 ELSE 0
    BY <1>1, <2>2
  <2> QED BY <1>1, <2>1, <2>2, <2>3, <2>4, Zenon
<1>2. CASE ~c
  <2>1. OneIf(c, t) = <<>>
    BY <1>2 DEF OneIf
  <2>2. <<>> \in Seq(Tokens) /\ Len(<<>>) = 0
    OBVIOUS
  <2> QED BY <1>2, <2>1, <2>2
<1> QED BY <1>1, <1>2

\* Two sequences, one behind the other.
LEMMA Behind ==
    ASSUME NEW S \in Seq(Tokens), NEW T \in Seq(Tokens)
    PROVE  /\ S \o T \in Seq(Tokens)
           /\ Len(S) \in Nat /\ Len(T) \in Nat /\ Len(S \o T) = Len(S) + Len(T)
           /\ DOMAIN S = 1 .. Len(S) /\ DOMAIN (S \o T) = 1 .. (Len(S) + Len(T))
           /\ \A i \in 1 .. Len(S) : (S \o T)[i] = S[i]
           /\ \A i \in (Len(S) + 1) .. (Len(S) + Len(T)) :
                 (S \o T)[i] = T[i - Len(S)]
<1>1. /\ S \o T \in Seq(Tokens) /\ Len(S \o T) = Len(S) + Len(T)
      /\ \A i \in 1 .. Len(S) + Len(T) :
            (S \o T)[i] = IF i <= Len(S) THEN S[i] ELSE T[i - Len(S)]
  BY ConcatProperties
<1>2. Len(S) \in Nat /\ Len(T) \in Nat
  BY LenProperties
<1>3. DOMAIN S = 1 .. Len(S) /\ DOMAIN (S \o T) = 1 .. (Len(S) + Len(T))
  BY <1>1, LenProperties
<1> QED BY <1>1, <1>2, <1>3

\* What a token of the output is.
LEMMA OutType ==
    ASSUME TypeInv
    PROVE  /\ Len(out) \in Nat /\ DOMAIN out = 1 .. Len(out)
           /\ current \in Nat /\ current > 0
           /\ \A i \in DOMAIN out : /\ out[i].file \in Nat /\ out[i].what \in What
                                   /\ out[i].n \in Nat
<1>1. out \in Seq(Tokens) /\ current \in Nat /\ current > 0
  BY WorkerAssumption DEF TypeInv
<1>2. Len(out) \in Nat /\ DOMAIN out = 1 .. Len(out)
  BY <1>1, LenProperties
<1>3. \A i \in 1 .. Len(out) : out[i] \in Tokens
  BY <1>1, ElementOfSeq
<1> QED BY <1>1, <1>2, <1>3 DEF Tokens

\* A file whose tokens stay what they are looks as it did.
LEMMA SameBlock ==
    ASSUME NEW f, cfg' = cfg, Block(f)' = Block(f),
           \A i \in Block(f) : out'[i] = out[i]
    PROVE  /\ \A what : Places(f, what)' = Places(f, what)
           /\ Laid(f)' <=> Laid(f)
           /\ \A closed : Bracketed(f, closed)' <=> Bracketed(f, closed)
           /\ Shown(f)' <=> Shown(f)
<1>1. \A what : Places(f, what)' = Places(f, what)
  BY DEF Places
<1>2. \A what : \A i \in Places(f, what) : out'[i] = out[i]
  BY DEF Places
<1>3. Headed(f)' <=> Headed(f)
  BY <1>1 DEF Headed
<1>4. Laid(f)' <=> Laid(f)
  BY <1>1, <1>2, <1>3 DEF Laid
<1>5. \A closed : Bracketed(f, closed)' <=> Bracketed(f, closed)
  BY <1>1 DEF Bracketed
<1>6. Shown(f)' <=> Shown(f)
  BY DEF Shown, RequiresPath
<1> QED BY <1>1, <1>4, <1>5, <1>6
-----------------------------------------------------------------------------
(* What writing adds to the output.                                        *)

\* The file of the moment is written about while it is searched.
Writes(T) ==
    /\ phase = "search" /\ phase' \in {"search", "close"}
    /\ UNCHANGED <<cfg, files, current, results, total>>
    /\ T \in Seq(Tokens)
    /\ \A k \in 1 .. Len(T) : T[k].file = current /\ T[k].what \in Sorts
    /\ out' = out \o T /\ count' = count + Len(T)

\* The places of new tokens, and of those among them of some sorts.
New(T) == (Len(out) + 1) .. (Len(out) + Len(T))
NewPlaces(T, what) == {i \in New(T) : T[i - Len(out)].what \in what}

LEMMA Written ==
    ASSUME TypeInv, WriterInv, NEW T, Writes(T)
    PROVE  /\ out' \in Seq(Tokens) /\ Len(T) \in Nat /\ Len(out') = Len(out) + Len(T)
           /\ DOMAIN out' = 1 .. Len(out')
           /\ \A i \in DOMAIN out : out'[i] = out[i]
           /\ \A i \in New(T) : i - Len(out) \in 1 .. Len(T)
                                /\ out'[i] = T[i - Len(out)] /\ i \notin DOMAIN out
           /\ \A i : i \in DOMAIN out' <=> i \in DOMAIN out \/ i \in New(T)
<1>1. out \in Seq(Tokens) /\ T \in Seq(Tokens) /\ out' = out \o T
  BY DEF TypeInv, Writes
<1>2. /\ out' \in Seq(Tokens)
      /\ Len(out) \in Nat /\ Len(T) \in Nat /\ Len(out') = Len(out) + Len(T)
      /\ DOMAIN out = 1 .. Len(out) /\ DOMAIN out' = 1 .. (Len(out) + Len(T))
      /\ \A i \in 1 .. Len(out) : out'[i] = out[i]
      /\ \A i \in (Len(out) + 1) .. (Len(out) + Len(T)) : out'[i] = T[i - Len(out)]
  BY <1>1, Behind
<1> QED BY <1>2 DEF New

LEMMA WrittenBlock ==
    ASSUME TypeInv, WriterInv, NEW T, Writes(T)
    PROVE  /\ \A f : f # current => Block(f)' = Block(f)
           /\ Block(current)' = Block(current) \cup New(T)
           /\ \A what : Places(current, what)' = Places(current, what) \cup NewPlaces(T, what)
<1>1. /\ \A i \in DOMAIN out : out'[i] = out[i]
      /\ \A i \in New(T) : out'[i] = T[i - Len(out)] /\ out'[i].file = current
      /\ \A i : i \in DOMAIN out' <=> i \in DOMAIN out \/ i \in New(T)
      /\ current' = current
  BY Written DEF Writes
<1>2. \A f : f # current => Block(f)' = Block(f)
  BY <1>1 DEF Block
<1>3. Block(current)' = Block(current) \cup New(T)
  BY <1>1 DEF Block
<1>4. \A i \in Block(current) : out'[i] = out[i]
  BY <1>1 DEF Block
<1>5. ASSUME NEW what
      PROVE  Places(current, what)' = Places(current, what) \cup NewPlaces(T, what)
  BY <1>1, <1>3, <1>4 DEF Places, NewPlaces
<1> QED BY <1>2, <1>3, <1>5

\* The tokens of the file of the moment are the last.
LEMMA LastBlock ==
    ASSUME TypeInv, WriterInv
    PROVE  /\ Searching => Block(current) = (total + 1) .. Len(out)
           /\ ~Searching => Block(current) = {}
           /\ \A f \in 1 .. NumFiles : f > current => Block(f) = {}
           /\ total \in Nat /\ count \in Nat /\ total <= Len(out)
<1>1. /\ Len(out) \in Nat /\ DOMAIN out = 1 .. Len(out) /\ current \in Nat
      /\ total \in Nat /\ count \in Nat /\ total <= Len(out) /\ NumFiles \in Nat
  BY OutType, WorkerAssumption DEF TypeInv, WriterInv
<1>2. Searching => Block(current) = (total + 1) .. Len(out)
  BY <1>1 DEF WriterInv, Block
<1>3. ~Searching => Block(current) = {}
  BY DEF WriterInv, Block
<1>4. \A f \in 1 .. NumFiles : f > current => Block(f) = {}
  BY <1>1 DEF WriterInv, Block
<1> QED BY <1>1, <1>2, <1>3, <1>4

\* Writing keeps the writer's invariant.
LEMMA WriterKept ==
    ASSUME TypeInv, WriterInv, SortInv, NEW T, Writes(T)
    PROVE  out' \in Seq(Tokens) /\ count' \in Nat /\ WriterInv' /\ SortInv'
<1>1. /\ out' \in Seq(Tokens) /\ Len(T) \in Nat /\ Len(out') = Len(out) + Len(T)
      /\ \A i \in DOMAIN out : out'[i] = out[i]
      /\ \A i \in New(T) : i - Len(out) \in 1 .. Len(T) /\ out'[i] = T[i - Len(out)]
                           /\ i \notin DOMAIN out
      /\ \A i : i \in DOMAIN out' <=> i \in DOMAIN out \/ i \in New(T)
  BY Written
<1>2. \A i \in New(T) : out'[i].file = current /\ out'[i].what \in Sorts
  BY <1>1 DEF Writes
<1>3. /\ Len(out) \in Nat /\ DOMAIN out = 1 .. Len(out) /\ current \in Nat /\ current > 0
      /\ total \in Nat /\ count \in Nat /\ total + count = Len(out)
      /\ total' = total /\ count' = count + Len(T) /\ current' = current
      /\ Searching /\ Searching'
  BY OutType DEF TypeInv, WriterInv, Writes, Searching
<1>4. \A i \in New(T) : i \in Nat /\ i > Len(out) /\ i > total
  BY <1>1, <1>3 DEF New
<1>5. \A i \in DOMAIN out' : out'[i].file \in 1 .. current'
  BY <1>1, <1>2, <1>3 DEF WriterInv
<1>6. \A i \in DOMAIN out' : out'[i].file = current' <=> (Searching' /\ i > total')
  BY <1>1, <1>2, <1>3, <1>4 DEF WriterInv
<1>7. \A i, j \in DOMAIN out' : i < j => out'[i].file <= out'[j].file
  <2>1. ASSUME NEW i \in DOMAIN out', NEW j \in DOMAIN out', i < j
        PROVE  out'[i].file <= out'[j].file
    <3>1. CASE j \in DOMAIN out
      <4>1. i \in DOMAIN out
        BY <1>1, <1>3, <1>4, <2>1, <3>1
      <4> QED BY <1>1, <2>1, <3>1, <4>1 DEF WriterInv
    <3>2. CASE j \in New(T)
      <4>1. out'[j].file = current
        BY <1>2, <3>2
      <4>2. out'[i].file \in 1 .. current
        BY <1>3, <1>5
      <4> QED BY <1>3, <4>1, <4>2
    <3> QED BY <1>1, <3>1, <3>2
  <2> QED BY <2>1
<1>8. SortInv'
  <2>1. Sorts' = Sorts
    BY DEF Sorts, Writes
  <2> QED BY <1>1, <1>2, <2>1 DEF SortInv
<1>9. total' + count' = Len(out') /\ count' \in Nat
  <2>1. /\ Len(out') = Len(out) + Len(T) /\ Len(T) \in Nat
        /\ total' = total /\ count' = count + Len(T)
    BY <1>1, <1>3
  <2>2. Len(out) \in Nat /\ total \in Nat /\ count \in Nat /\ total + count = Len(out)
    BY <1>3
  <2> QED BY ONLY SMTT(30), <2>1, <2>2
<1>10. WriterInv'
  BY <1>5, <1>6, <1>7, <1>9 DEF WriterInv
<1> QED BY <1>1, <1>8, <1>9, <1>10

\* What has been said of files already searched stays said.
LEMMA PastKept ==
    ASSUME TypeInv, cfg' = cfg, files' = files, results' = results,
           JSONMessages, StatsExact, ResultShown,
           \A f \in 1 .. (current - 1) :
              Block(f)' = Block(f) /\ \A i \in Block(f) : out'[i] = out[i]
    PROVE  JSONMessages' /\ StatsExact' /\ ResultShown'
<1>1. DOMAIN results = 1 .. (current - 1)
  BY OutType, LenProperties DEF TypeInv
<1>2. \A f \in DOMAIN results :
         /\ \A closed : Bracketed(f, closed)' <=> Bracketed(f, closed)
         /\ Shown(f)' <=> Shown(f)
         /\ Block(f)' = Block(f)
  BY <1>1, SameBlock
<1>3. JSONMessages'
  BY <1>2 DEF JSONMessages
<1>4. StatsExact'
  BY DEF StatsExact, HasStats, RequiresStats
<1>5. ResultShown'
  <2>1. \A f : NamedKept(f)' <=> NamedKept(f)
    BY DEF NamedKept, CutShort
  <2>2. /\ Quiet' <=> Quiet
        /\ \A b, d : Filtered(b, d)' <=> Filtered(b, d)
    BY DEF Quiet, Filtered
  <2> QED BY <1>2, <2>1, <2>2 DEF ResultShown
<1> QED BY <1>3, <1>4, <1>5

\* Writing about the file of the moment leaves the others as they are.
LEMMA PastWritten ==
    ASSUME TypeInv, WriterInv, JSONMessages, StatsExact, ResultShown, NEW T, Writes(T)
    PROVE  JSONMessages' /\ StatsExact' /\ ResultShown'
<1>1. \A f \in 1 .. (current - 1) : f # current
  BY OutType
<1>2. \A f \in 1 .. (current - 1) :
         Block(f)' = Block(f) /\ \A i \in Block(f) : out'[i] = out[i]
  BY <1>1, Written, WrittenBlock DEF Block
<1> QED BY <1>2, PastKept DEF Writes

\* So does a step that does not write.
LEMMA PastSame ==
    ASSUME TypeInv, cfg' = cfg, files' = files, results' = results, out' = out,
           JSONMessages, StatsExact, ResultShown
    PROVE  JSONMessages' /\ StatsExact' /\ ResultShown'
<1>1. \A f : Block(f)' = Block(f)
  BY DEF Block
<1> QED BY <1>1, PastKept

\* Without writing, the worker goes on to another point of the same search, or
\* to the next file; the count is reset only where nothing has been written yet.
LEMMA WriterMoves ==
    ASSUME TypeInv, WriterInv, SortInv, cfg' = cfg, out' = out,
           \/ /\ UNCHANGED <<count, total>>
              /\ \/ current' = current /\ (Searching' <=> Searching)
                 \/ current' = current + 1 /\ ~Searching'
           \/ /\ current' = current /\ ~Searching
              /\ total' = total + count /\ count' = 0
    PROVE  WriterInv' /\ SortInv'
<1>1. SortInv'
  BY DEF SortInv, Sorts
<1>2. /\ Len(out) \in Nat /\ DOMAIN out = 1 .. Len(out) /\ current \in Nat /\ current > 0
      /\ total \in Nat /\ count \in Nat /\ total + count = Len(out)
      /\ \A i \in DOMAIN out : out[i].file \in 1 .. current
  BY OutType DEF TypeInv, WriterInv
<1>3. total' + count' = Len(out')
  BY <1>2
<1>4. \A i \in DOMAIN out' : out'[i].file \in 1 .. current'
  BY <1>2
<1>5. \A i \in DOMAIN out' : out'[i].file = current' <=> (Searching' /\ i > total')
  <2>1. CASE UNCHANGED <<count, total>> /\ current' = current /\ (Searching' <=> Searching)
    BY <2>1 DEF WriterInv
  <2>2. CASE current' = current + 1 /\ ~Searching'
    BY <1>2, <2>2
  <2>3. CASE current' = current /\ ~Searching /\ total' = total + count
    BY <1>2, <2>3 DEF WriterInv
  <2> QED BY <2>1, <2>2, <2>3
<1>6. \A i, j \in DOMAIN out' : i < j => out'[i].file <= out'[j].file
  BY DEF WriterInv
<1> QED BY <1>1, <1>3, <1>4, <1>5, <1>6 DEF WriterInv
-----------------------------------------------------------------------------
(* What the printers write.                                                *)

\* A line is one token or more of its sort, behind the prelude if nothing has
\* been written about the file: a separator if there is something before it,
\* and the heading.
LEMMA SinkLineIs ==
    ASSUME TypeInv, WriterInv, cfg.printer = "Standard",
           NEW what \in Lines, NEW r \in Nat
    PROVE  LET T == SinkLine(what, r)
               s == IF count = 0 /\ cfg.separator /\ Len(out) > 0 THEN 1 ELSE 0
               h == IF count = 0 /\ cfg.heading /\ cfg.path THEN 1 ELSE 0
           IN  /\ T \in Seq(Tokens) /\ Len(T) \in Nat /\ Len(T) > s + h
               /\ \A k \in 1 .. Len(T) :
                    /\ T[k].file = current
                    /\ T[k].what = IF k <= s THEN "separator"
                                   ELSE IF k <= s + h THEN "heading" ELSE what
                    /\ k > s + h => T[k].n = told.calls + 1
<1>1. /\ cfg.separator \in BOOLEAN /\ cfg.heading \in BOOLEAN /\ cfg.path \in BOOLEAN
      /\ cfg.perMatch \in BOOLEAN /\ told.calls \in Nat /\ count \in Nat
      /\ total + count = Len(out) /\ Len(out) \in Nat
  BY OutType, WorkerAssumption DEF TypeInv, WriterInv, Told, Config
<1> DEFINE s == IF count = 0 /\ cfg.separator /\ Len(out) > 0 THEN 1 ELSE 0
           h == IF count = 0 /\ cfg.heading /\ cfg.path THEN 1 ELSE 0
           P == SearchPrelude
           c == IF r > 0 /\ cfg.perMatch THEN r ELSE 1
           L == [k \in 1 .. c |-> Token(what, told.calls + 1)]
<1>2. /\ Token("separator", 0) \in Tokens /\ Token("separator", 0).file = current
      /\ Token("separator", 0).what = "separator"
      /\ Token("heading", 0) \in Tokens /\ Token("heading", 0).file = current
      /\ Token("heading", 0).what = "heading"
  BY TokenType DEF What
<1>3. /\ P \in Seq(Tokens) /\ Len(P) = s + h
      /\ \A k \in 1 .. Len(P) : /\ P[k].file = current
                               /\ P[k].what = IF k <= s THEN "separator" ELSE "heading"
  <2>1. CASE count > 0
    <3>1. P = <<>> /\ s = 0 /\ h = 0
      BY <1>1, <2>1 DEF SearchPrelude
    <3>2. <<>> \in Seq(Tokens) /\ Len(<<>>) = 0
      OBVIOUS
    <3> QED BY <3>1, <3>2
  <2>2. CASE ~(count > 0)
    <3> DEFINE a == cfg.separator /\ Len(out) > 0
               b == cfg.heading /\ cfg.path
               A == OneIf(a, Token("separator", 0))
               B == OneIf(b, Token("heading", 0))
    <3>1. a \in BOOLEAN /\ b \in BOOLEAN
      BY <1>1
    <3>2. P = A \o B /\ s = (IF a THEN 1 ELSE 0) /\ h = (IF b THEN 1 ELSE 0)
      BY <1>1, <2>2 DEF SearchPrelude
    <3> HIDE DEF a, b, P, s, h
    <3>3. /\ A \in Seq(Tokens) /\ Len(A) = s
          /\ \A k \in 1 .. Len(A) : A[k] = Token("separator", 0)
          /\ B \in Seq(Tokens) /\ Len(B) = h
          /\ \A k \in 1 .. Len(B) : B[k] = Token("heading", 0)
      BY <1>2, <3>1, <3>2, OneIfIs
    <3> HIDE DEF A, B
    <3>4. s \in Nat /\ h \in Nat
      BY <3>2
    <3>5. /\ P \in Seq(Tokens) /\ Len(P) = s + h
          /\ \A k \in 1 .. s : P[k] = A[k]
          /\ \A k \in (s + 1) .. (s + h) : P[k] = B[k - s]
      BY <3>2, <3>3, Behind
    <3>6. ASSUME NEW k \in 1 .. (s + h)
          PROVE  /\ P[k].file = current
                 /\ P[k].what = IF k <= s THEN "separator" ELSE "heading"
      <4>1. CASE k <= s
        <5>1. k \in 1 .. s
          BY <3>4, <4>1
        <5> QED BY <1>2, <3>3, <3>5, <4>1, <5>1
      <4>2. CASE ~(k <= s)
        <5>1. k \in (s + 1) .. (s + h) /\ k - s \in 1 .. h
          BY <3>4, <4>2
        <5> QED BY <1>2, <3>3, <3>5, <4>2, <5>1
      <4> QED BY <4>1, <4>2
    <3> QED BY <3>5, <3>6
  <2> QED BY <2>1, <2>2
<1>4. /\ c \in Nat /\ c > 0
      /\ L \in Seq(Tokens) /\ Len(L) = c
      /\ \A k \in 1 .. c : L[k] = Token(what, told.calls + 1)
  <2>1. c \in Nat /\ c > 0
    BY <1>1
  <2>2. Token(what, told.calls + 1) \in Tokens
    BY <1>1, TokenType DEF What, Lines
  <2> QED BY <2>1, <2>2
<1>5. /\ Token(what, told.calls + 1).file = current
      /\ Token(what, told.calls + 1).what = what
      /\ Token(what, told.calls + 1).n = told.calls + 1
  BY <1>1, TokenType DEF What, Lines
<1>6. SinkLine(what, r) = P \o L
  BY DEF SinkLine
<1>7. s \in Nat /\ h \in Nat
  OBVIOUS
<1> HIDE DEF s, h, P, c, L
<1>8. /\ P \o L \in Seq(Tokens) /\ Len(P \o L) = s + h + c
      /\ \A k \in 1 .. (s + h) : (P \o L)[k] = P[k]
      /\ \A k \in (s + h + 1) .. (s + h + c) : (P \o L)[k] = L[k - (s + h)]
  <2>1. P \in Seq(Tokens) /\ L \in Seq(Tokens)
    BY <1>3, <1>4
  <2>2. Len(P) = s + h /\ Len(L) = c
    BY <1>3, <1>4
  <2>3. /\ P \o L \in Seq(Tokens) /\ Len(P \o L) = Len(P) + Len(L)
        /\ \A k \in 1 .. Len(P) : (P \o L)[k] = P[k]
        /\ \A k \in (Len(P) + 1) .. (Len(P) + Len(L)) : (P \o L)[k] = L[k - Len(P)]
    BY <2>1, Behind
  <2> QED BY <2>2, <2>3
<1>9. ASSUME NEW k \in 1 .. (s + h + c)
      PROVE  /\ (P \o L)[k].file = current
             /\ (P \o L)[k].what = IF k <= s THEN "separator"
                                   ELSE IF k <= s + h THEN "heading" ELSE what
             /\ k > s + h => (P \o L)[k].n = told.calls + 1
  <2>1. CASE k <= s + h
    <3>1. k \in 1 .. (s + h) /\ ~(k > s + h)
      BY <1>7, <2>1
    <3> QED BY <1>3, <1>8, <2>1, <3>1
  <2>2. CASE ~(k <= s + h)
    <3>1. k \in (s + h + 1) .. (s + h + c) /\ k - (s + h) \in 1 .. c /\ ~(k <= s)
      BY <1>4, <1>7, <2>2
    <3> QED BY <1>4, <1>5, <1>8, <2>2, <3>1
  <2> QED BY <2>1, <2>2
<1>10. Len(P \o L) \in Nat /\ Len(P \o L) > s + h
  BY <1>4, <1>7, <1>8
<1>11. \A k \in 1 .. Len(P \o L) : k \in 1 .. (s + h + c)
  BY <1>8
<1> QED BY <1>6, <1>8, <1>9, <1>10, <1>11 DEF s, h
-----------------------------------------------------------------------------
(* What the standard printer adds to a layout.                             *)

\* The first line of a file stands under its heading.
LEMMA LineStarts ==
    ASSUME TypeInv, WriterInv, cfg.printer = "Standard", count = 0,
           NEW what \in Lines, NEW r \in Nat, Writes(SinkLine(what, r))
    PROVE  /\ Laid(current)' /\ Places(current, {"notice"})' = {}
           /\ \A i \in Places(current, Lines)' : out'[i].n = told.calls + 1
           /\ Len(out') \in Places(current, {what})'
           /\ \A w \in {"match", "context"} : w # what => Places(current, {w})' = {}
<1> DEFINE T == SinkLine(what, r)
           s == IF count = 0 /\ cfg.separator /\ Len(out) > 0 THEN 1 ELSE 0
           h == IF count = 0 /\ cfg.heading /\ cfg.path THEN 1 ELSE 0
           o == Len(out)
           n == Len(T)
<1>1. /\ n \in Nat /\ n > s + h
      /\ \A k \in 1 .. n :
            /\ T[k].what = IF k <= s THEN "separator"
                           ELSE IF k <= s + h THEN "heading" ELSE what
            /\ k > s + h => T[k].n = told.calls + 1
  BY SinkLineIs
<1>2. s \in Nat /\ h \in Nat /\ o \in Nat
  BY OutType
<1>3. Block(current) = {} /\ Places(current, Lines) = {}
  <2>1. Block(current) = (total + 1) .. Len(out)
    BY LastBlock DEF Writes, Searching
  <2>2. total = Len(out) /\ total \in Nat
    BY <1>2 DEF WriterInv, TypeInv
  <2>3. (total + 1) .. Len(out) = {}
    BY <2>2
  <2> QED BY <2>1, <2>3 DEF Places
<1>4. current' = current /\ cfg' = cfg
  BY DEF Writes
<1>5. s = (IF cfg.separator /\ o + 1 > 1 THEN 1 ELSE 0)
      /\ h = (IF cfg.heading /\ cfg.path THEN 1 ELSE 0)
  BY <1>2
<1>6. /\ Block(current)' = (o + 1) .. (o + n)
      /\ \A w : Places(current, w)' = {i \in (o + 1) .. (o + n) : T[i - o].what \in w}
      /\ \A i \in (o + 1) .. (o + n) : out'[i] = T[i - o]
      /\ Len(out') = o + n
  <2>1. Block(current)' = New(T) /\ \A w : Places(current, w)' = NewPlaces(T, w)
    BY <1>3, WrittenBlock DEF Places
  <2>2. (\A i \in New(T) : out'[i] = T[i - o]) /\ Len(out') = o + n
    BY Written
  <2> QED BY <2>1, <2>2 DEF New, NewPlaces
<1> HIDE DEF T, s, h, o, n
<1>7. ASSUME NEW i \in (o + 1) .. (o + n)
      PROVE  /\ i <= o + s => T[i - o].what = "separator"
             /\ i > o + s /\ i <= o + s + h => T[i - o].what = "heading"
             /\ i > o + s + h => T[i - o].what = what /\ T[i - o].n = told.calls + 1
  <2>1. i - o \in 1 .. n
    BY <1>1, <1>2
  <2>2. /\ T[i - o].what = IF i - o <= s THEN "separator"
                           ELSE IF i - o <= s + h THEN "heading" ELSE what
        /\ i - o > s + h => T[i - o].n = told.calls + 1
    BY <1>1, <2>1
  <2>3. /\ i <= o + s <=> i - o <= s
        /\ i <= o + s + h <=> i - o <= s + h
        /\ i > o + s + h <=> ~(i - o <= s + h)
        /\ i > o + s <=> ~(i - o <= s)
        /\ i - o > s + h <=> ~(i - o <= s + h)
        /\ i - o <= s => i - o <= s + h
    BY <1>2
  <2> QED BY <2>2, <2>3
<1>8. /\ Places(current, {"separator"})' = (o + 1) .. (o + s)
      /\ Places(current, {"heading"})' = (o + s + 1) .. (o + s + h)
      /\ Places(current, Lines)' = (o + s + h + 1) .. (o + n)
      /\ Places(current, {what})' = (o + s + h + 1) .. (o + n)
      /\ Places(current, {"notice"})' = {}
      /\ Places(current, {"break"})' = {}
      /\ \A w \in {"match", "context"} : w # what => Places(current, {w})' = {}
  <2> DEFINE A == (o + 1) .. (o + s)
             B == (o + s + 1) .. (o + s + h)
             C == (o + s + h + 1) .. (o + n)
             N == (o + 1) .. (o + n)
  <2>1. N = A \cup B \cup C
    BY <1>1, <1>2
  <2>2. /\ \A i \in A : i \in N /\ i <= o + s
        /\ \A i \in B : i \in N /\ i > o + s /\ i <= o + s + h
        /\ \A i \in C : i \in N /\ i > o + s + h
    BY <1>1, <1>2
  <2>3. /\ \A i \in A : T[i - o].what = "separator"
        /\ \A i \in B : T[i - o].what = "heading"
        /\ \A i \in C : T[i - o].what = what
    BY <1>7, <2>2
  <2>4. what = "match" \/ what = "context"
    BY DEF Lines
  <2>5. \A w : Places(current, w)' = {i \in N : T[i - o].what \in w}
    BY <1>6
  <2> HIDE DEF A, B, C, N
  <2>6. /\ Places(current, {"separator"})' = A
        /\ Places(current, {"heading"})' = B
    <3>1. \A i \in N : T[i - o].what = "separator" <=> i \in A
      BY <2>1, <2>3, <2>4
    <3>2. \A i \in N : T[i - o].what = "heading" <=> i \in B
      BY <2>1, <2>3, <2>4
    <3>3. \A i : i \in Places(current, {"separator"})' <=> i \in A
      BY <2>1, <2>5, <3>1
    <3>4. \A i : i \in Places(current, {"heading"})' <=> i \in B
      BY <2>1, <2>5, <3>2
    <3> QED BY <3>3, <3>4, Zenon
  <2>7. Places(current, Lines)' = C /\ Places(current, {what})' = C
    <3>1. \A i \in N : T[i - o].what \in Lines <=> i \in C
      BY <2>1, <2>3, <2>4 DEF Lines
    <3>2. \A i \in N : T[i - o].what = what <=> i \in C
      BY <2>1, <2>3, <2>4
    <3>3. \A i : i \in Places(current, Lines)' <=> i \in C
      BY <2>1, <2>5, <3>1
    <3>4. \A i : i \in Places(current, {what})' <=> i \in C
      BY <2>1, <2>5, <3>2
    <3> QED BY <3>3, <3>4, Zenon
  <2>8. /\ Places(current, {"notice"})' = {}
        /\ Places(current, {"break"})' = {}
    BY <2>1, <2>3, <2>4, <2>5
  <2>9. \A w \in {"match", "context"} : w # what => Places(current, {w})' = {}
    BY <2>1, <2>3, <2>4, <2>5
  <2> QED BY <2>6, <2>7, <2>8, <2>9 DEF A, B, C
<1>9. \A i \in Places(current, Lines)' : out'[i].n = told.calls + 1
  <2>1. \A i \in (o + s + h + 1) .. (o + n) : i \in (o + 1) .. (o + n) /\ i > o + s + h
    BY <1>1, <1>2
  <2> QED BY <1>6, <1>7, <1>8, <2>1
<1>10. Headed(current)'
  <2>1. /\ o + 1 \in (o + 1) .. (o + n)
        /\ \A i \in (o + 1) .. (o + n) : o + 1 <= i
        /\ o + 1 + s - 1 = o + s /\ o + 1 + s = o + s + 1
        /\ o + s + 1 + h - 1 = o + s + h
        /\ o + s + 1 + h \in (o + s + h + 1) .. (o + n)
    BY <1>1, <1>2
  <2>2. /\ o + 1 + s = o + 1 + (IF cfg'.separator /\ o + 1 > 1 THEN 1 ELSE 0)
        /\ o + s + 1 + h = o + s + 1 + (IF cfg'.heading /\ cfg'.path THEN 1 ELSE 0)
    BY <1>4, <1>5
  <2> DEFINE line == o + 1 + (IF cfg'.separator /\ o + 1 > 1 THEN 1 ELSE 0)
             text == line + (IF cfg'.heading /\ cfg'.path THEN 1 ELSE 0)
  <2>3. line = o + s + 1 /\ text = o + s + 1 + h
    BY <2>1, <2>2
  <2>4. line - 1 = o + s /\ text - 1 = o + s + h
    BY <1>2, <2>3
  <2>5. /\ o + 1 \in Block(current)'
        /\ \A i \in Block(current)' : o + 1 <= i
        /\ Places(current, {"separator"})' = (o + 1) .. (line - 1)
        /\ Places(current, {"heading"})' = line .. (text - 1)
        /\ text \in Places(current, Lines)'
    BY <1>6, <1>8, <2>1, <2>3, <2>4
  <2> QED BY <2>5 DEF Headed
<1>11. o + n \in (o + s + h + 1) .. (o + n)
  BY <1>1, <1>2
<1>12. told.calls + 1 <= told.calls + 1
  BY DEF TypeInv, Told
<1>13. Laid(current)'
  BY <1>8, <1>9, <1>10, <1>11, <1>12 DEF Laid
<1> QED BY <1>6, <1>8, <1>9, <1>11, <1>13

\* What is added to a block that has its first line: further lines, or one break
\* behind a line, or the notice, behind which nothing comes.
LEMMA LaidGrows ==
    ASSUME TypeInv, WriterInv, cfg.printer = "Standard", NEW T, Writes(T),
           Laid(current), Places(current, {"notice"}) = {},
           \A i \in Places(current, Lines) : out[i].n <= told.calls + 1,
           \/ /\ Places(current, Lines) # {}
              /\ \A k \in 1 .. Len(T) : T[k].what \in Lines /\ T[k].n = told.calls + 1
           \/ /\ Len(out) \in Places(current, Lines)
              /\ \A k \in 1 .. Len(T) : k = 1 /\ T[k].what = "break"
           \/ \A k \in 1 .. Len(T) : k = Len(T) /\ T[k].what = "notice"
    PROVE  Laid(current)'
<1> DEFINE o == Len(out)
           n == Len(T)
<1>1. /\ n \in Nat /\ o \in Nat /\ DOMAIN out = 1 .. o /\ Len(out') = o + n
      /\ \A i \in DOMAIN out : out'[i] = out[i]
      /\ \A i \in New(T) : i - o \in 1 .. n /\ out'[i] = T[i - o]
      /\ \A i \in New(T) : i \in (o + 1) .. (o + n)
  BY Written, OutType DEF New
<1>2. /\ Block(current)' = Block(current) \cup New(T)
      /\ \A what : Places(current, what)' = Places(current, what) \cup NewPlaces(T, what)
      /\ \A what : Places(current, what) \subseteq Block(current)
      /\ Block(current) \subseteq 1 .. o
  BY <1>1, WrittenBlock DEF Places, Block
<1>3. current' = current /\ cfg' = cfg
  BY DEF Writes
<1>4. /\ NewPlaces(T, {"separator"}) = {} /\ NewPlaces(T, {"heading"}) = {}
  BY <1>1 DEF NewPlaces, Lines
<1>5. ASSUME Places(current, Lines) # {}
      PROVE  Headed(current)' /\ Places(current, Lines)' # {}
  <2>1. Headed(current)
    BY <1>5 DEF Laid
  <2>2. PICK first \in Block(current) :
          LET line == first + (IF cfg.separator /\ first > 1 THEN 1 ELSE 0)
              text == line + (IF cfg.heading /\ cfg.path THEN 1 ELSE 0)
          IN  /\ \A i \in Block(current) : first <= i
              /\ Places(current, {"separator"}) = first..(line - 1)
              /\ Places(current, {"heading"}) = line..(text - 1)
              /\ text \in Places(current, Lines)
    BY <2>1 DEF Headed
  <2> DEFINE line == first + (IF cfg.separator /\ first > 1 THEN 1 ELSE 0)
             text == line + (IF cfg.heading /\ cfg.path THEN 1 ELSE 0)
  <2>3. first \in Block(current)' /\ \A i \in Block(current)' : first <= i
    BY <1>1, <1>2, <2>2
  <2>4. /\ Places(current, {"separator"})' = first..(line - 1)
        /\ Places(current, {"heading"})' = line..(text - 1)
        /\ text \in Places(current, Lines)'
    BY <1>2, <1>4, <2>2
  <2> QED BY <1>3, <2>3, <2>4 DEF Headed
<1>6. ASSUME Places(current, Lines) = {}, Places(current, Lines)' = {}
      PROVE  Places(current, What \ {"notice"})' = {}
  <2>1. NewPlaces(T, What \ {"notice"}) = {}
    BY <1>1, <1>6 DEF NewPlaces
  <2> QED BY <1>2, <1>6, <2>1 DEF Laid
<1>7. ASSUME Places(current, Lines) = {}
      PROVE  Places(current, Lines)' = {}
  <2>1. NewPlaces(T, Lines) = {}
    BY <1>1, <1>7 DEF NewPlaces, Lines
  <2> QED BY <1>2, <1>7, <2>1
<1>8. \A i, j \in Places(current, Lines)' : i < j => out'[i].n <= out'[j].n
  <2>1. ASSUME NEW i \in Places(current, Lines)', NEW j \in Places(current, Lines)', i < j
        PROVE  out'[i].n <= out'[j].n
    <3>1. CASE j \in Places(current, Lines)
      <4>1. i \in Places(current, Lines) /\ out'[i] = out[i] /\ out'[j] = out[j]
        BY <1>1, <1>2, <2>1, <3>1 DEF NewPlaces
      <4> QED BY <2>1, <3>1, <4>1 DEF Laid
    <3>2. CASE j \in NewPlaces(T, Lines)
      <4>1. out'[j].n = told.calls + 1
        BY <1>1, <3>2 DEF NewPlaces, Lines
      <4>2. CASE i \in Places(current, Lines)
        <5>1. out'[i] = out[i]
          BY <1>1, <1>2, <4>2
        <5> QED BY <4>1, <4>2, <5>1
      <4>3. CASE i \in NewPlaces(T, Lines)
        <5>1. out'[i].n = told.calls + 1 /\ told.calls + 1 \in Nat
          BY SMTT(30), <1>1, <4>3 DEF NewPlaces, Lines, TypeInv, Told
        <5> QED BY <4>1, <5>1
      <4> QED BY <1>2, <2>1, <4>2, <4>3
    <3> QED BY <1>2, <2>1, <3>1, <3>2
  <2> QED BY <2>1
<1>9. \A i \in Places(current, {"break"})' : i - 1 \in Places(current, Lines)'
  <2>1. ASSUME NEW i \in NewPlaces(T, {"break"})
        PROVE  i - 1 \in Places(current, Lines)
    <3>1. i \in (o + 1) .. (o + n) /\ T[i - o].what = "break" /\ i - o \in 1 .. n
      BY <1>1 DEF NewPlaces
    <3>2. Len(out) \in Places(current, Lines) /\ i - o = 1
      BY <3>1 DEF Lines
    <3>3. i - 1 = o
      BY <1>1, <3>1, <3>2
    <3> QED BY <3>2, <3>3
  <2> QED BY <1>2, <2>1 DEF Laid
<1>10. \A i \in Places(current, {"notice"})', j \in Block(current)' : j <= i
  <2>1. ASSUME NEW i \in NewPlaces(T, {"notice"}), NEW j \in Block(current)'
        PROVE  j <= i
    <3>1. i \in (o + 1) .. (o + n) /\ T[i - o].what = "notice" /\ i - o \in 1 .. n
      BY <1>1 DEF NewPlaces
    <3>2. i - o = n
      BY <3>1 DEF Lines
    <3>3. j \in 1 .. o \/ j \in (o + 1) .. (o + n)
      BY <1>1, <1>2
    <3> QED BY <1>1, <3>1, <3>2, <3>3
  <2> QED BY <1>2, <2>1
<1> QED BY <1>5, <1>6, <1>7, <1>8, <1>9, <1>10 DEF Laid
-----------------------------------------------------------------------------
(* What the steps have in common.                                          *)

LEMMA InputType ==
    ASSUME TypeInv
    PROVE  /\ cfg \in Config /\ cfg.explicit # "quit"
           /\ files \in [1..NumFiles -> Haystack] /\ NumFiles \in Nat
           /\ HasStats \in BOOLEAN
<1>1. /\ cfg \in Config /\ cfg.explicit # "quit"
      /\ files \in [1..NumFiles -> Haystack] /\ NumFiles \in Nat
  BY WorkerAssumption DEF TypeInv
<1>2. HasStats \in BOOLEAN
  BY <1>1 DEF HasStats, RequiresStats, Config
<1> QED BY <1>1, <1>2

\* The configuration stays what it is.
LEMMA SameInput ==
    ASSUME cfg' = cfg
    PROVE  /\ HasStats' = HasStats
           /\ Quiet' = Quiet /\ \A b, d : Filtered(b, d)' = Filtered(b, d)
           /\ \A s : HasMatch(s)' = HasMatch(s)
<1>1. HasStats' = HasStats
  BY DEF HasStats, RequiresStats
<1>2. Quiet' = Quiet /\ \A b, d : Filtered(b, d)' = Filtered(b, d)
  BY DEF Quiet, Filtered
<1>3. \A s : HasMatch(s)' = HasMatch(s)
  BY DEF HasMatch
<1> QED BY <1>1, <1>2, <1>3

\* A step that writes nothing leaves every block as it is.
LEMMA SameOut ==
    ASSUME cfg' = cfg, out' = out
    PROVE  \A f : /\ Block(f)' = Block(f) /\ (Laid(f)' <=> Laid(f))
                  /\ (Shown(f)' <=> Shown(f))
                  /\ \A closed : Bracketed(f, closed)' <=> Bracketed(f, closed)
                  /\ \A what : Places(f, what)' = Places(f, what)
<1>1. \A f : Block(f)' = Block(f)
  BY DEF Block
<1> QED BY <1>1, SameBlock

\* One that writes about the file of the moment leaves the others laid out.
LEMMA OthersLaid ==
    ASSUME TypeInv, WriterInv, NEW T, Writes(T),
           \A f \in 1 .. NumFiles : Laid(f), Laid(current)'
    PROVE  \A f \in 1 .. NumFiles : Laid(f)'
<1>1. ASSUME NEW f \in 1 .. NumFiles, f # current
      PROVE  Laid(f)'
  <2>1. Block(f)' = Block(f) /\ \A i \in Block(f) : out'[i] = out[i]
    BY <1>1, WrittenBlock, Written DEF Block
  <2> QED BY <2>1, SameBlock DEF Writes
<1> QED BY <1>1 DEF Writes

LEMMA InitInv == Init => Inv
<1> SUFFICES ASSUME Init PROVE Inv
  OBVIOUS
<1>1. out = <<>> /\ <<>> \in Seq(Tokens) /\ Len(<<>>) = 0 /\ DOMAIN <<>> = {}
  BY DEF Init
<1>2. results = <<>> /\ <<>> \in Seq(Returned)
  BY DEF Init
<1>3. \A f : Block(f) = {} /\ \A what : Places(f, what) = {}
  BY <1>1 DEF Block, Places
<1>4. NewSink \in Sinks /\ NothingTold \in Told
  BY DEF NewSink, Sinks, NoStats, Stats, NothingTold, Told
<1>5. TypeInv
  <2>1. /\ cfg \in Configs /\ files \in [1..NumFiles -> Haystacks]
        /\ phase \in {"idle", "begin", "search", "close"} /\ phase = "idle"
        /\ detection \in Detections /\ owed \in {"nothing", "line", "match"}
        /\ refused \in BOOLEAN /\ seenBinary \in BOOLEAN
        /\ told \in Told /\ sink \in Sinks
    BY <1>4 DEF Init, Detections
  <2>2. /\ current \in 1 .. (NumFiles + 1) /\ count \in Nat /\ total \in Nat
        /\ current = 1
    BY WorkerAssumption DEF Init
  <2>3. Len(results) = current - 1
    BY <1>2, <2>2
  <2> QED BY <1>1, <1>2, <2>1, <2>2, <2>3 DEF TypeInv
<1>6. WriterInv /\ SortInv
  BY <1>1 DEF Init, WriterInv, SortInv
<1>7. TellInv
  BY DEF Init, TellInv, Searching, NothingTold
<1>8. StandardInv
  BY <1>3 DEF Init, StandardInv, Laid
<1>9. SummaryInv /\ JSONInv
  BY DEF Init, SummaryInv, JSONInv, Searching
<1>10. JSONMessages /\ StatsExact /\ ResultShown
  BY <1>1, <1>2 DEF JSONMessages, StatsExact, ResultShown
<1> QED BY <1>5, <1>6, <1>7, <1>8, <1>9, <1>10 DEF Inv

\* A step outside a search, or into one, that writes nothing and returns nothing.
LEMMA SearchInv ==
    ASSUME Inv, Search
    PROVE  Inv'
<1> USE DEF Inv
<1>1. /\ cfg' = cfg /\ files' = files /\ current' = current /\ results' = results
      /\ out' = out /\ count' = count /\ total' = total
      /\ phase = "idle" /\ phase' = "begin" /\ current <= NumFiles
  BY DEF Search, input, writerVars
<1>2. TypeInv'
  <2>1. current \in 1 .. NumFiles
    BY <1>1, OutType, InputType DEF TypeInv
  <2>2. detection' \in Detections
    BY <2>1, InputType DEF Search, Detection, File, Config
  <2>3. NewSink \in Sinks /\ NothingTold \in Told
    BY DEF NewSink, Sinks, NoStats, Stats, NothingTold, Told
  <2> QED BY <1>1, <2>1, <2>2, <2>3 DEF TypeInv, Search
<1>3. WriterInv' /\ SortInv'
  BY <1>1, WriterMoves DEF Searching
<1>4. TellInv'
  BY <1>1 DEF TellInv, Search, Searching, Detection, File, NothingTold
<1>5. StandardInv'
  BY <1>1, SameOut DEF StandardInv
<1>6. SummaryInv' /\ JSONInv'
  BY <1>1 DEF SummaryInv, JSONInv, Searching
<1>7. JSONMessages' /\ StatsExact' /\ ResultShown'
  BY <1>1, PastSame
<1> QED BY <1>2, <1>3, <1>4, <1>5, <1>6, <1>7

LEMMA BeginInv ==
    ASSUME Inv, Begin
    PROVE  Inv'
<1> USE DEF Inv
<1>1. /\ cfg' = cfg /\ files' = files /\ current' = current /\ results' = results
      /\ out' = out /\ count' = 0 /\ total' = total + count
      /\ phase = "begin" /\ phase' = "search"
      /\ detection' = detection /\ refused' = refused /\ seenBinary' = seenBinary
      /\ owed' = owed /\ told' = told /\ sink' = sink
  BY DEF Begin, input, ResetCount, searcherVars
<1>2. sink = NewSink /\ told = NothingTold
  BY <1>1 DEF TellInv
<1>3. TypeInv'
  BY <1>1 DEF TypeInv
<1>4. WriterInv' /\ SortInv'
  BY <1>1, WriterMoves DEF Searching
<1>5. TellInv'
  <2>1. Detection(File)' = Detection(File)
    BY <1>1 DEF Detection, File
  <2> QED BY <1>1, <1>2, <2>1 DEF TellInv, Searching, NewSink, NoStats, NothingTold
<1>6. Block(current)' = {} /\ \A what : Places(current, what)' = {}
  <2>1. Block(current) = {}
    BY <1>1, LastBlock DEF Searching
  <2> QED BY <1>1, <2>1, SameOut DEF Places
<1>7. StandardInv'
  <2>1. \A f \in 1 .. NumFiles : cfg.printer = "Standard" => Laid(f)'
    BY <1>1, SameOut DEF StandardInv
  <2> QED BY <1>1, <1>2, <1>6, <2>1 DEF StandardInv, NothingTold
<1>8. SummaryInv'
  BY <1>1 DEF SummaryInv
<1>9. JSONInv'
  BY <1>1, <1>2, <1>6 DEF JSONInv, Searching, NewSink, NothingTold
<1>10. JSONMessages' /\ StatsExact' /\ ResultShown'
  BY <1>1, PastSame
<1> QED BY <1>3, <1>4, <1>5, <1>7, <1>8, <1>9, <1>10

\* The worker returns for a file and goes on to the next.  What it returns may
\* be an error; otherwise it agrees with what was told and written.
LEMMA Advances ==
    ASSUME Inv, phase # "idle", phase' = "idle", current' = current + 1,
           UNCHANGED <<cfg, files, detection, refused, seenBinary, owed, told, sink,
                       out, count, total>>,
           NEW r \in Returned, results' = Append(results, r),
           HasStats /\ ~r.error =>
              /\ r.stats.searches = 1
              /\ r.stats.withMatch = (IF r.told.matched > 0 THEN 1 ELSE 0)
              /\ r.stats.lines = r.told.lines
              /\ r.stats.matches = IF cfg.printer = "Summary" /\ cfg.inverted
                                   THEN r.told.matched ELSE r.told.matches,
           ~r.error =>
              /\ ~Quiet /\ ~Filtered(r.binary, r.detection) => (r.hasMatch <=> Shown(current))
              /\ /\ files[current].explicit /\ ~CutShort(r)
                 /\ ~(cfg.printer = "Summary"
                         /\ cfg.kind \in {"PathWithoutMatch", "QuietWithoutMatch"})
                 => (r.hasMatch <=> r.told.found > 0),
           cfg.printer = "JSON" /\ Block(current) # {} =>
              Bracketed(current, TRUE) \/ (r.error /\ Bracketed(current, FALSE))
    PROVE  Inv'
<1> USE DEF Inv
<1>1. /\ results \in Seq(Returned) /\ Len(results) = current - 1
      /\ current \in 1 .. NumFiles /\ NumFiles \in Nat /\ current \in Nat
  BY InputType, OutType DEF TypeInv
<1>2. /\ results' \in Seq(Returned) /\ Len(results') = current
      /\ DOMAIN results = 1 .. (current - 1) /\ DOMAIN results' = 1 .. current
      /\ \A f \in DOMAIN results : results'[f] = results[f]
      /\ results'[current] = r
  <2>1. /\ results' \in Seq(Returned) /\ Len(results') = Len(results) + 1
        /\ \A f \in 1 .. Len(results) : results'[f] = results[f]
        /\ results'[Len(results) + 1] = r
    BY <1>1
  <2>2. Len(results) + 1 = current
    BY <1>1
  <2>3. DOMAIN results = 1 .. Len(results) /\ DOMAIN results' = 1 .. Len(results')
    BY <1>1, <2>1, LenProperties
  <2> QED BY <1>1, <2>1, <2>2, <2>3
<1>3. \A f \in DOMAIN results' : f \in DOMAIN results \/ f = current
  BY <1>1, <1>2
<1>4. TypeInv'
  <2>1. /\ current' \in 1 .. (NumFiles + 1) /\ Len(results') = current' - 1
    BY <1>1, <1>2
  <2> QED BY <1>2, <2>1 DEF TypeInv
<1>5. WriterInv' /\ SortInv'
  BY WriterMoves DEF Searching
<1>6. TellInv'
  BY DEF TellInv, Searching
<1>7. StandardInv' /\ SummaryInv' /\ JSONInv'
  BY SameOut DEF StandardInv, SummaryInv, JSONInv, Searching
<1>8. JSONMessages'
  <2>1. ASSUME cfg.printer = "JSON", NEW f \in DOMAIN results', Block(f) # {}
        PROVE  Bracketed(f, TRUE) \/ (results'[f].error /\ Bracketed(f, FALSE))
    <3>1. CASE f \in DOMAIN results
      BY <1>2, <2>1, <3>1 DEF JSONMessages
    <3>2. CASE f = current
      BY <1>2, <2>1, <3>2
    <3> QED BY <1>3, <2>1, <3>1, <3>2
  <2> QED BY <2>1, SameOut DEF JSONMessages
<1>9. StatsExact'
  <2>1. HasStats' = HasStats
    BY SameInput
  <2>2. ASSUME HasStats, NEW f \in DOMAIN results', ~results'[f].error
        PROVE  LET s == results'[f].stats
                   t == results'[f].told
               IN  /\ s.searches = 1
                   /\ s.withMatch = (IF t.matched > 0 THEN 1 ELSE 0)
                   /\ s.lines = t.lines
                   /\ s.matches = IF cfg'.printer = "Summary" /\ cfg'.inverted
                                  THEN t.matched ELSE t.matches
    <3>1. CASE f \in DOMAIN results
      BY <1>2, <2>2, <3>1 DEF StatsExact
    <3>2. CASE f = current
      BY <1>2, <2>2, <3>2
    <3> QED BY <1>3, <2>2, <3>1, <3>2
  <2> QED BY <2>1, <2>2 DEF StatsExact
<1>10. ResultShown'
  <2>1. ASSUME NEW f \in DOMAIN results'
        PROVE  /\ ~Quiet /\ ~results'[f].error
                     /\ ~Filtered(results'[f].binary, results'[f].detection)
                  => (results'[f].hasMatch <=> Shown(f))
               /\ NamedKept(f)'
    <3>1. CASE f \in DOMAIN results
      <4>1. results'[f] = results[f]
        BY <1>2, <3>1
      <4>2. NamedKept(f)' <=> NamedKept(f)
        BY <4>1 DEF NamedKept, CutShort
      <4> QED BY <3>1, <4>1, <4>2 DEF ResultShown
    <3>2. CASE f = current
      <4>1. results'[f] = r
        BY <1>2, <3>2
      <4>2. NamedKept(f)'
        BY <3>2, <4>1 DEF NamedKept, CutShort
      <4> QED BY <3>2, <4>1, <4>2
    <3> QED BY <1>3, <2>1, <3>1, <3>2
  <2> QED BY <2>1, SameOut, SameInput DEF ResultShown
<1> QED BY <1>4, <1>5, <1>6, <1>7, <1>8, <1>9, <1>10

LEMMA ErrorType == NoResult \in Returned /\ NoResult.error = TRUE
<1>1. NoStats \in Stats /\ NothingTold \in Told
  BY DEF NoStats, Stats, NothingTold, Told
<1> QED BY <1>1 DEF NoResult, Returned, Detections

LEMMA OpenFailsInv ==
    ASSUME Inv, OpenFails
    PROVE  Inv'
<1>1. Block(current) = {}
  BY LastBlock DEF Inv, OpenFails, Searching
<1> QED BY <1>1, ErrorType, Advances DEF OpenFails, input, searcherVars, writerVars

LEMMA SearchFailsInv ==
    ASSUME Inv, SearchFails
    PROVE  Inv'
<1>1. phase = "search" /\ Searching
  BY DEF SearchFails, Searching
<1>2. cfg.printer = "JSON" /\ Block(current) # {} => Bracketed(current, FALSE)
  <2>1. /\ Block(current) = (total + 1) .. Len(out) /\ total \in Nat /\ count \in Nat
        /\ total + count = Len(out)
    BY <1>1, LastBlock DEF Inv, WriterInv
  <2>2. Block(current) # {} => count > 0
    BY <2>1
  <2> QED BY <1>1, <2>2 DEF Inv, JSONInv
<1> QED BY <1>1, <1>2, ErrorType, Advances DEF SearchFails, input, searcherVars, writerVars

\* An answer is that of the sink, which has finished.
LEMMA ReturnInv ==
    ASSUME Inv, Return
    PROVE  Inv'
<1> USE DEF Inv
<1>1. /\ phase = "close" /\ phase' = "idle" /\ current' = current + 1 /\ Searching
      /\ UNCHANGED <<cfg, files, detection, refused, seenBinary, owed, told, sink,
                     out, count, total>>
  BY DEF Return, input, searcherVars, writerVars, Searching
<1>2. cfg.printer = "JSON" /\ Block(current) # {} => Bracketed(current, TRUE)
  <2>1. /\ Block(current) = (total + 1) .. Len(out) /\ total \in Nat /\ count \in Nat
        /\ total + count = Len(out)
    BY <1>1, LastBlock DEF WriterInv
  <2>2. Block(current) # {} => count > 0
    BY <2>1
  <2> QED BY <1>1, <2>2 DEF JSONInv
<1> DEFINE r == [error |-> FALSE, hasMatch |-> HasMatch(sink), stats |-> sink.stats,
                 told |-> told, refused |-> refused, binary |-> seenBinary,
                 detection |-> detection]
<1>3. CASE results' = Append(results, NoResult)
  BY <1>1, <1>2, <1>3, ErrorType, Advances
<1>4. CASE results' = Append(results, r)
  <2>1. r \in Returned /\ ~r.error
    <3>1. HasMatch(sink) \in BOOLEAN
      <4>1. (sink.matches = 0) \in BOOLEAN /\ (sink.matches > 0) \in BOOLEAN
        BY DEF TypeInv, Sinks
      <4> QED BY <4>1, Zenon DEF HasMatch
    <3>2. sink.stats \in Stats
      BY DEF TypeInv, Sinks
    <3> QED BY <3>1, <3>2 DEF TypeInv, Returned
  <2>2. HasStats =>
           /\ sink.stats.searches = 1
           /\ sink.stats.withMatch = (IF told.matched > 0 THEN 1 ELSE 0)
           /\ sink.stats.lines = told.lines
           /\ sink.stats.matches = IF cfg.printer = "Summary" /\ cfg.inverted
                                   THEN told.matched ELSE told.matches
    BY <1>1 DEF TellInv
  <2>3. sink.matches = IF Squashed THEN 0 ELSE told.matched
    BY <1>1 DEF TellInv
  <2>4. ~Quiet /\ ~Filtered(seenBinary, detection) => (HasMatch(sink) <=> Shown(current))
    <3>1. CASE cfg.printer = "Standard"
      <4>1. sink.matches > 0 <=> Places(current, {"match", "notice"}) # {}
        BY <1>1, <3>1 DEF StandardInv
      <4>2. \A i \in Block(current) : out[i].what # "count" /\ out[i].what # "path"
        BY <3>1 DEF SortInv, Sorts, Lines, Block
      <4>3. Shown(current) <=> Places(current, {"match", "notice"}) # {}
        BY <4>2 DEF Shown, Places
      <4> QED BY <3>1, <4>1, <4>3 DEF HasMatch
    <3>2. CASE cfg.printer = "Summary"
      BY <1>1, <3>2 DEF SummaryInv
    <3>3. CASE cfg.printer = "JSON"
      <4>1. sink.matches > 0 <=> Places(current, {"match"}) # {}
        BY <1>1, <2>3, <3>3 DEF JSONInv, Squashed
      <4>2. \A i \in Block(current) : out[i].what \notin {"count", "path", "notice"}
        BY <3>3 DEF SortInv, Sorts, Lines, Block
      <4>3. Shown(current) <=> Places(current, {"match"}) # {}
        BY <4>2 DEF Shown, Places
      <4> QED BY <3>3, <4>1, <4>3 DEF HasMatch
    <3>4. cfg.printer \in {"Standard", "Summary", "JSON"}
      BY InputType DEF Config
    <3> QED BY <3>1, <3>2, <3>3, <3>4
  <2>5. /\ files[current].explicit /\ ~(refused /\ told.matched = 0)
        /\ ~(cfg.printer = "Summary"
                /\ cfg.kind \in {"PathWithoutMatch", "QuietWithoutMatch"})
        => (HasMatch(sink) <=> told.found > 0)
    <3>1. ASSUME files[current].explicit PROVE ~Squashed /\ detection # "quit"
      <4>1. detection = cfg.explicit
        BY <1>1, <3>1 DEF TellInv, Detection, File
      <4> QED BY <4>1, InputType DEF Squashed
    <3>2. ASSUME files[current].explicit, ~(refused /\ told.matched = 0)
          PROVE  told.found > 0 <=> told.matched > 0
      <4>1. told.found \in Nat /\ told.matched \in Nat
        BY DEF TypeInv, Told
      <4> QED BY <1>1, <3>1, <3>2, <4>1 DEF TellInv
    <3> QED BY <2>3, <3>1, <3>2 DEF HasMatch
  <2> HIDE DEF Inv
  <2>6. /\ r.hasMatch = HasMatch(sink) /\ r.stats = sink.stats /\ r.told = told
        /\ r.refused = refused
        /\ r.binary = seenBinary /\ r.detection = detection
    OBVIOUS
  <2> HIDE DEF r
  <2> QED BY <1>1, <1>2, <1>4, <2>1, <2>2, <2>4, <2>5, <2>6, Advances DEF CutShort
<1> QED BY <1>3, <1>4 DEF Return
-----------------------------------------------------------------------------
(* The searcher's calls.                                                   *)

\* Writing keeps what does not depend on what is written.
LEMMA Writing ==
    ASSUME Inv, NEW T, Writes(T)
    PROVE  /\ out' \in Seq(Tokens) /\ count' \in Nat /\ WriterInv' /\ SortInv'
           /\ JSONMessages' /\ StatsExact' /\ ResultShown'
BY WriterKept, PastWritten DEF Inv

\* Nothing is a thing to write.
LEMMA NothingWrites ==
    ASSUME TypeInv, phase = "search", phase' \in {"search", "close"},
           UNCHANGED <<cfg, files, current, results, writerVars>>
    PROVE  Writes(<<>>)
<1>1. <<>> \in Seq(Tokens) /\ Len(<<>>) = 0 /\ out \o <<>> = out
  BY ConcatEmptySeq DEF TypeInv
<1>2. count + 0 = count
  BY DEF TypeInv
<1> QED BY <1>1, <1>2 DEF Writes, writerVars

LEMMA NothingWritten ==
    ASSUME TypeInv, Writes(<<>>)
    PROVE  UNCHANGED <<out, count, total>>
<1>1. Len(<<>>) = 0 /\ out \o <<>> = out
  BY ConcatEmptySeq DEF TypeInv
<1>2. count + 0 = count
  BY DEF TypeInv
<1> QED BY <1>1, <1>2 DEF Writes

LEMMA BinaryDataInv ==
    ASSUME Inv, BinaryData
    PROVE  Inv'
<1> USE DEF Inv
<1>1. /\ phase = "search" /\ phase' = "search" /\ cfg' = cfg /\ files' = files
      /\ UNCHANGED <<current, detection, refused, owed, told, out, count, total, results>>
      /\ seenBinary' = TRUE /\ owed # "line"
      /\ sink' = [sink EXCEPT !.binary = @ \/ cfg.printer = "Standard"]
  BY DEF BinaryData, input, writerVars
<1>2. /\ sink' \in Sinks /\ sink'.matches = sink.matches /\ sink'.begun = sink.begun
      /\ sink'.stats = sink.stats /\ (sink'.binary <=> sink.binary \/ cfg.printer = "Standard")
  <2>1. sink \in Sinks
    BY DEF TypeInv
  <2>2. (sink.binary \/ cfg.printer = "Standard") \in BOOLEAN
    BY <2>1 DEF Sinks
  <2> QED BY <1>1, <2>1, <2>2 DEF Sinks
<1>3. TypeInv'
  BY <1>1, <1>2 DEF TypeInv
<1>4. WriterInv' /\ SortInv'
  BY <1>1, WriterMoves DEF Searching
<1>5. TellInv'
  <2>1. Detection(File)' = Detection(File)
    BY <1>1 DEF Detection, File
  <2> QED BY <1>1, <1>2, <2>1, SameInput DEF TellInv, Searching
<1>6. StandardInv'
  BY <1>1, <1>2, SameOut DEF StandardInv
<1>7. SummaryInv'
  BY <1>1 DEF SummaryInv
<1>8. JSONInv'
  BY <1>1, <1>2, SameOut DEF JSONInv, Searching
<1>9. JSONMessages' /\ StatsExact' /\ ResultShown'
  BY <1>1, PastSame
<1> QED BY <1>3, <1>4, <1>5, <1>6, <1>7, <1>8, <1>9

\* A line of the standard printer, whether it is the first of its file or not.
LEMMA LineLaid ==
    ASSUME Inv, cfg.printer = "Standard", NEW what \in Lines, NEW r \in Nat,
           Writes(SinkLine(what, r))
    PROVE  /\ Laid(current)' /\ Places(current, {"notice"})' = {}
           /\ \A i \in Places(current, Lines)' : out'[i].n <= told.calls + 1
           /\ Len(out') \in Places(current, Lines)'
           /\ what = "match" => Places(current, {"match"})' # {}
           /\ what = "context" => Places(current, {"match"})' = Places(current, {"match"})
<1> USE DEF Inv
<1> DEFINE T == SinkLine(what, r)
<1>1. phase = "search" /\ Searching /\ current \in 1 .. NumFiles /\ told.calls \in Nat
  BY DEF Writes, Searching, TypeInv, Told
<1>2. /\ Laid(current) /\ Places(current, {"notice"}) = {}
      /\ \A i \in Places(current, Lines) : out[i].n <= told.calls
  BY <1>1 DEF StandardInv
<1>3. /\ Block(current) = (total + 1) .. Len(out) /\ total \in Nat /\ count \in Nat
      /\ total + count = Len(out)
  BY <1>1, LastBlock DEF WriterInv
<1>4. what = "match" \/ what = "context"
  BY DEF Lines
<1>5. CASE count = 0
  <2>1. Places(current, {"match"}) = {}
    <3>1. Block(current) = {}
      BY <1>3, <1>5
    <3> QED BY <3>1 DEF Places
  <2>2. /\ Laid(current)' /\ Places(current, {"notice"})' = {}
        /\ \A i \in Places(current, Lines)' : out'[i].n = told.calls + 1
        /\ Len(out') \in Places(current, {what})'
        /\ \A w \in {"match", "context"} : w # what => Places(current, {w})' = {}
    BY <1>5, LineStarts
  <2>3. Places(current, {what})' \subseteq Places(current, Lines)'
    BY DEF Places, Lines
  <2>4. told.calls + 1 <= told.calls + 1
    BY <1>1
  <2> QED BY <1>4, <2>1, <2>2, <2>3, <2>4
<1>6. CASE count # 0
  <2>1. /\ T \in Seq(Tokens) /\ Len(T) \in Nat /\ Len(T) > 0
        /\ \A k \in 1 .. Len(T) : T[k].what = what /\ T[k].n = told.calls + 1
    <3>1. /\ 0 = IF count = 0 /\ cfg.separator /\ Len(out) > 0 THEN 1 ELSE 0
          /\ 0 = IF count = 0 /\ cfg.heading /\ cfg.path THEN 1 ELSE 0
      BY <1>6
    <3>2. /\ T \in Seq(Tokens) /\ Len(T) \in Nat /\ Len(T) > 0 + 0
          /\ \A k \in 1 .. Len(T) :
               /\ T[k].what = IF k <= 0 THEN "separator"
                              ELSE IF k <= 0 + 0 THEN "heading" ELSE what
               /\ k > 0 + 0 => T[k].n = told.calls + 1
      BY <3>1, SinkLineIs
    <3> QED BY <3>2
  <2>2. Places(current, Lines) # {}
    <3>1. Len(out) \in Block(current)
      BY <1>3, <1>6
    <3>2. out[Len(out)].what \in What
      BY <3>1, OutType DEF Block
    <3>3. CASE out[Len(out)].what = "notice"
      BY <1>2, <3>1, <3>3 DEF Places
    <3>4. CASE out[Len(out)].what # "notice"
      <4>1. Places(current, What \ {"notice"}) # {}
        BY <3>1, <3>2, <3>4 DEF Places
      <4> QED BY <1>2, <4>1 DEF Laid
    <3> QED BY <3>3, <3>4
  <2>3. \A i \in Places(current, Lines) : out[i].n <= told.calls + 1
    <3>1. \A i \in Places(current, Lines) : out[i].n \in Nat
      BY OutType DEF Places, Block
    <3> QED BY <1>1, <1>2, <3>1
  <2>4. Laid(current)'
    BY <1>2, <2>1, <2>2, <2>3, LaidGrows
  <2>5. /\ \A w : Places(current, w)' = Places(current, w) \cup NewPlaces(T, w)
        /\ \A i \in DOMAIN out : out'[i] = out[i]
        /\ \A i \in New(T) : i - Len(out) \in 1 .. Len(T) /\ out'[i] = T[i - Len(out)]
        /\ Len(out') = Len(out) + Len(T)
    BY WrittenBlock, Written
  <2>6. \A w : (what \in w => NewPlaces(T, w) = New(T))
               /\ (what \notin w => NewPlaces(T, w) = {})
    BY <2>1, <2>5 DEF NewPlaces
  <2>7. Places(current, {"notice"})' = {}
    BY <1>2, <1>4, <2>5, <2>6
  <2>8. Len(out') \in New(T)
    BY <1>3, <2>1, <2>5 DEF New
  <2>9. Len(out') \in Places(current, Lines)'
        /\ (what = "match" => Places(current, {"match"})' # {})
    BY <2>5, <2>6, <2>8
  <2>10. what = "context" => Places(current, {"match"})' = Places(current, {"match"})
    BY <2>5, <2>6
  <2>11. \A i \in Places(current, Lines)' : out'[i].n <= told.calls + 1
    <3>1. \A i \in Places(current, Lines) : out'[i] = out[i]
      BY <2>5 DEF Places, Block
    <3>2. \A i \in NewPlaces(T, Lines) : out'[i].n = told.calls + 1
      BY <2>1, <2>5 DEF NewPlaces
    <3>3. told.calls + 1 <= told.calls + 1
      BY <1>1
    <3> QED BY <2>3, <2>5, <3>1, <3>2, <3>3
  <2> QED BY <2>4, <2>7, <2>9, <2>10, <2>11
<1> QED BY <1>5, <1>6

\* What a line of the standard printer leaves, shown or not.
LEMMA StandardLine ==
    ASSUME Inv, cfg.printer = "Standard", NEW what \in Lines, NEW r \in Nat,
           phase = "search", phase' = "search",
           UNCHANGED <<cfg, files, current, results>>,
           Write(IF Suppressed THEN <<>> ELSE SinkLine(what, r)),
           refused' = Suppressed, sink'.binary = sink.binary,
           told'.calls = told.calls + 1,
           told'.matched = IF what = "match" THEN told.matched + 1 ELSE told.matched
    PROVE  /\ out' \in Seq(Tokens) /\ count' \in Nat /\ WriterInv' /\ SortInv'
           /\ JSONMessages' /\ StatsExact' /\ ResultShown' /\ StandardInv'
<1> USE DEF Inv
<1>1. /\ told.calls \in Nat /\ told.matched \in Nat /\ current \in 1 .. NumFiles
      /\ \A f \in 1 .. NumFiles : Laid(f)
      /\ Places(current, {"notice"}) = {}
      /\ \A i \in Places(current, Lines) : out[i].n <= told.calls
      /\ told.matched > 0 => Places(current, {"match"}) # {} \/ sink.binary
      /\ Places(current, {"match"}) # {} => told.matched > 0
  BY DEF TypeInv, Told, StandardInv
<1>2. what = "match" \/ what = "context"
  BY DEF Lines
<1>3. CASE Suppressed
  <2>1. /\ count' = count + Len(<<>>) /\ total' = total /\ out' = out \o <<>>
    BY <1>3 DEF Write
  <2>2. Writes(<<>>)
    BY <2>1 DEF Writes
  <2>3. out' = out
    BY <2>2, NothingWritten
  <2>4. \A i \in Places(current, Lines) : out[i].n <= told'.calls
    <3>1. \A i \in Places(current, Lines) : out[i].n \in Nat
      BY OutType DEF Places, Block
    <3> QED BY <1>1, <3>1
  <2>5. /\ told'.matched > 0 => sink'.binary
        /\ Places(current, {"match"}) # {} => told'.matched > 0
    BY <1>1, <1>2, <1>3 DEF Suppressed
  <2>6. \A f \in 1 .. NumFiles : Laid(f)'
    BY <1>1, <2>3, SameOut
  <2>7. \A w : Places(current, w)' = Places(current, w)
    BY <2>3, SameOut
  <2>8. StandardInv'
    BY <1>1, <1>3, <2>3, <2>4, <2>5, <2>6, <2>7 DEF StandardInv
  <2> QED BY <2>2, <2>8, Writing
<1>4. CASE ~Suppressed
  <2> DEFINE T == SinkLine(what, r)
  <2>1. /\ count' = count + Len(T) /\ total' = total /\ out' = out \o T
    BY <1>4 DEF Write
  <2>2. Writes(T)
    <3>1. /\ T \in Seq(Tokens)
          /\ \A k \in 1 .. Len(T) :
               T[k].file = current /\ T[k].what \in {"separator", "heading", what}
      BY SinkLineIs
    <3>2. \A w \in {"separator", "heading", what} : w \in Sorts
      BY <1>2 DEF Sorts, Lines
    <3> QED BY <2>1, <3>1, <3>2 DEF Writes
  <2>3. /\ Laid(current)' /\ Places(current, {"notice"})' = {}
        /\ \A i \in Places(current, Lines)' : out'[i].n <= told.calls + 1
        /\ Len(out') \in Places(current, Lines)'
        /\ what = "match" => Places(current, {"match"})' # {}
        /\ what = "context" => Places(current, {"match"})' = Places(current, {"match"})
    BY <2>2, LineLaid
  <2>4. \A f \in 1 .. NumFiles : Laid(f)'
    BY <1>1, <2>2, <2>3, OthersLaid
  <2>5. told'.matched > 0 => Places(current, {"match"})' # {} \/ sink'.binary
    BY <1>1, <1>2, <2>3
  <2>6. Places(current, {"match"})' # {} => told'.matched > 0
    BY <1>1, <1>2, <2>3
  <2> HIDE DEF T
  <2>7. StandardInv'
    BY <2>3, <2>4, <2>5, <2>6 DEF StandardInv
  <2> QED BY <2>2, <2>7, Writing
<1> QED BY <1>3, <1>4

LEMMA ContextBreakInv ==
    ASSUME Inv, ContextBreak
    PROVE  Inv'
<1> USE DEF Inv
<1> DEFINE T == OneIf(cfg.printer = "Standard" /\ cfg.breaks, Token("break", 0))
<1>1. /\ phase = "search" /\ phase' = "search" /\ ~refused /\ owed = "nothing"
      /\ told.calls > 0 /\ owed' = "line"
      /\ UNCHANGED <<cfg, files, current, results, detection, refused, seenBinary, told, sink>>
      /\ count' = count + Len(T) /\ total' = total /\ out' = out \o T
  BY DEF ContextBreak, MayReport, input, Write
<1>2. /\ T \in Seq(Tokens) /\ (cfg.printer # "Standard" => T = <<>>)
      /\ \A k \in 1 .. Len(T) : /\ cfg.printer = "Standard" /\ k = 1
                                /\ T[k].file = current /\ T[k].what = "break"
  <2>1. /\ Token("break", 0) \in Tokens /\ Token("break", 0).file = current
        /\ Token("break", 0).what = "break"
    BY TokenType DEF What
  <2>2. /\ T \in Seq(Tokens)
        /\ \A k \in 1 .. Len(T) : cfg.printer = "Standard" /\ k = 1 /\ T[k] = Token("break", 0)
    BY <2>1, OneIfIs
  <2>3. cfg.printer # "Standard" => T = <<>>
    BY DEF OneIf
  <2> QED BY <2>1, <2>2, <2>3
<1> HIDE DEF T
<1>3. Writes(T)
  BY <1>1, <1>2 DEF Writes, Sorts
<1>4. /\ out' \in Seq(Tokens) /\ count' \in Nat /\ WriterInv' /\ SortInv'
      /\ JSONMessages' /\ StatsExact' /\ ResultShown'
  BY <1>3, Writing
<1>5. TypeInv'
  BY <1>1, <1>4 DEF TypeInv
<1>6. TellInv'
  <2>1. Detection(File)' = Detection(File)
    BY <1>1 DEF Detection, File
  <2> QED BY <1>1, <2>1, SameInput DEF TellInv, Searching
<1>7. StandardInv'
  <2> SUFFICES ASSUME cfg.printer = "Standard" PROVE StandardInv'
    BY <1>1 DEF StandardInv
  <2>1. /\ Len(out) \in Places(current, Lines) /\ Places(current, {"notice"}) = {}
        /\ \A i \in Places(current, Lines) : out[i].n <= told.calls
        /\ \A f \in 1 .. NumFiles : Laid(f)
        /\ current \in 1 .. NumFiles /\ told.calls \in Nat
    BY <1>1 DEF StandardInv, TypeInv, Told
  <2>2. \A i \in Places(current, Lines) : out[i].n <= told.calls + 1
    <3>1. \A i \in Places(current, Lines) : out[i].n \in Nat
      BY OutType DEF Places, Block
    <3> QED BY <2>1, <3>1
  <2>3. Laid(current)'
    BY <1>2, <1>3, <2>1, <2>2, LaidGrows
  <2>4. \A f \in 1 .. NumFiles : Laid(f)'
    BY <1>3, <2>1, <2>3, OthersLaid
  <2>5. /\ \A w : Places(current, w)' = Places(current, w) \cup NewPlaces(T, w)
        /\ \A i \in DOMAIN out : out'[i] = out[i]
        /\ \A i \in New(T) : i - Len(out) \in 1 .. Len(T)
    BY <1>3, WrittenBlock, Written
  <2>6. \A w : "break" \notin w => NewPlaces(T, w) = {}
    BY <1>2, <2>5 DEF NewPlaces
  <2>7. /\ Places(current, {"notice"})' = {}
        /\ Places(current, Lines)' = Places(current, Lines)
        /\ Places(current, {"match"})' = Places(current, {"match"})
    <3>1. /\ "break" \notin {"notice"} /\ "break" \notin {"match"} /\ "break" \notin Lines
      BY DEF Lines
    <3>2. /\ NewPlaces(T, {"notice"}) = {} /\ NewPlaces(T, {"match"}) = {}
          /\ NewPlaces(T, Lines) = {}
      BY <2>6, <3>1
    <3> QED BY <2>1, <2>5, <3>2
  <2>8. \A i \in Places(current, Lines) : out'[i] = out[i]
    BY <2>5 DEF Places, Block
  <2> QED BY <1>1, <2>1, <2>4, <2>7, <2>8 DEF StandardInv
<1>8. CASE cfg.printer = "Standard"
  BY <1>1, <1>4, <1>5, <1>6, <1>7, <1>8 DEF SummaryInv, JSONInv
<1>9. CASE cfg.printer # "Standard"
  <2>1. UNCHANGED <<out, count, total>>
    BY <1>2, <1>3, <1>9, NothingWritten
  <2>2. SummaryInv' /\ JSONInv'
    BY <1>1, <2>1, SameOut DEF SummaryInv, JSONInv, Searching
  <2> QED BY <1>4, <1>5, <1>6, <1>7, <2>2
<1> QED BY <1>8, <1>9

\* A message about a line, behind the first message if that is still to come.
LEMMA LineMessage ==
    ASSUME Inv, cfg.printer = "JSON", NEW what \in Lines, phase = "search", phase' = "search",
           UNCHANGED <<cfg, files, current, results>>,
           Write(BeginMessage \o <<Token(what, told.calls + 1)>>)
    PROVE  /\ out' \in Seq(Tokens) /\ count' \in Nat /\ WriterInv' /\ SortInv'
           /\ JSONMessages' /\ StatsExact' /\ ResultShown'
           /\ Bracketed(current, FALSE)' /\ count' > 0
           /\ what = "match" => Places(current, {"match"})' # {}
           /\ what = "context" => Places(current, {"match"})' = Places(current, {"match"})
<1> USE DEF Inv
<1> DEFINE t == Token(what, told.calls + 1)
           b == IF sink.begun THEN 0 ELSE 1
           T == BeginMessage \o <<t>>
           o == Len(out)
<1>1. /\ t \in Tokens /\ t.file = current /\ t.what = what
      /\ Token("begin", 0) \in Tokens /\ Token("begin", 0).file = current
      /\ Token("begin", 0).what = "begin"
  <2>1. told.calls + 1 \in Nat /\ what \in What
    BY DEF TypeInv, Told, What, Lines
  <2> QED BY <2>1, TokenType DEF What
<1>2. /\ T \in Seq(Tokens) /\ Len(T) = b + 1
      /\ T[b + 1].what = what /\ T[b + 1].file = current
      /\ \A k \in 1 .. b : T[k].what = "begin" /\ T[k].file = current
  <2>1. sink.begun \in BOOLEAN
    BY DEF TypeInv, Sinks
  <2>2. /\ BeginMessage \in Seq(Tokens) /\ Len(BeginMessage) = b
        /\ \A k \in 1 .. Len(BeginMessage) : BeginMessage[k] = Token("begin", 0)
    BY <1>1, <2>1, OneIfIs DEF BeginMessage
  <2>3. <<t>> \in Seq(Tokens) /\ Len(<<t>>) = 1 /\ <<t>>[1] = t
    BY <1>1
  <2>4. /\ T \in Seq(Tokens) /\ Len(T) = Len(BeginMessage) + Len(<<t>>)
        /\ \A i \in 1 .. Len(BeginMessage) : T[i] = BeginMessage[i]
        /\ \A i \in (Len(BeginMessage) + 1) .. (Len(BeginMessage) + Len(<<t>>)) :
              T[i] = <<t>>[i - Len(BeginMessage)]
    BY <2>2, <2>3, Behind
  <2>5. b \in Nat /\ b + 1 \in (b + 1) .. (b + 1) /\ (b + 1) - b = 1
    OBVIOUS
  <2>6. T[b + 1] = t
    BY <2>2, <2>3, <2>4, <2>5
  <2> QED BY <1>1, <2>2, <2>3, <2>4, <2>6
<1>3. \A k \in 1 .. (b + 1) : k \in 1 .. b \/ k = b + 1
  OBVIOUS
<1>4. count' = count + Len(T) /\ total' = total /\ out' = out \o T
  BY DEF Write
<1>5. /\ Block(current) = (total + 1) .. o /\ total \in Nat /\ count \in Nat
      /\ total + count = o /\ o \in Nat /\ DOMAIN out = 1 .. o
  BY LastBlock, OutType DEF WriterInv, Searching
<1>6. /\ sink.begun <=> count > 0
      /\ sink.begun => Bracketed(current, FALSE)
  BY DEF JSONInv, Searching
<1>7. b = (IF sink.begun THEN 0 ELSE 1) /\ b \in Nat /\ b + 1 > 0
  OBVIOUS
<1> HIDE DEF t, b, T
<1>8. Writes(T)
  <2>1. \A k \in 1 .. Len(T) : T[k].file = current /\ T[k].what \in {"begin", what}
    BY <1>2, <1>3
  <2>2. \A w \in {"begin", what} : w \in Sorts
    BY DEF Sorts, Lines
  <2> QED BY <1>2, <1>4, <2>1, <2>2 DEF Writes
<1>9. /\ out' \in Seq(Tokens) /\ count' \in Nat /\ WriterInv' /\ SortInv'
      /\ JSONMessages' /\ StatsExact' /\ ResultShown'
  BY <1>8, Writing
<1>10. /\ Block(current)' = Block(current) \cup New(T)
       /\ \A w : Places(current, w)' = Places(current, w) \cup NewPlaces(T, w)
       /\ New(T) = (o + 1) .. (o + b + 1)
  <2>1. (o + 1) .. (o + Len(T)) = (o + 1) .. (o + b + 1)
    BY <1>2, <1>5, <1>7
  <2>2. /\ Block(current)' = Block(current) \cup New(T)
        /\ \A w : Places(current, w)' = Places(current, w) \cup NewPlaces(T, w)
    BY <1>8, WrittenBlock
  <2> QED BY <2>1, <2>2 DEF New
<1>11. /\ \A w : what \in w => o + b + 1 \in NewPlaces(T, w)
       /\ \A w : "begin" \notin w /\ what \notin w => NewPlaces(T, w) = {}
  <2>1. o + b + 1 \in New(T) /\ (o + b + 1) - o = b + 1
    BY <1>5, <1>7, <1>10
  <2>2. \A i \in New(T) : i - o \in 1 .. (b + 1)
    BY <1>5, <1>7, <1>10
  <2>3. \A i \in New(T) : T[i - o].what \in {"begin", what}
    BY <1>2, <1>3, <2>2
  <2> QED BY <1>2, <2>1, <2>3 DEF NewPlaces
<1>12. what \in {"match", "context"} /\ what # "begin" /\ what # "end" /\ what \in Lines
  BY DEF Lines
<1>13. Bracketed(current, FALSE)'
  <2>1. CASE sink.begun
    <3>1. PICK first \in Block(current), last \in Block(current) :
             /\ Block(current) = first..last
             /\ Places(current, {"begin"}) = {first}
             /\ Places(current, Lines) # {}
             /\ Places(current, {"end"}) = {}
      BY <1>6, <2>1 DEF Bracketed
    <3>2. NewPlaces(T, {"begin"}) = {}
      <4>1. \A i \in New(T) : i - o = b + 1
        BY <1>5, <1>7, <1>10, <2>1
      <4> QED BY <1>2, <1>12, <4>1 DEF NewPlaces
    <3>3. Block(current)' = first .. (o + b + 1) /\ o + b + 1 \in Block(current)'
          /\ first \in Block(current)'
      <4>1. first = total + 1 /\ total < o
        <5>1. /\ first \in (total + 1) .. o /\ last \in (total + 1) .. o
              /\ first .. last = (total + 1) .. o
          BY <1>5, <3>1
        <5>2. total + 1 \in (total + 1) .. o
          BY <1>5, <5>1
        <5>3. total + 1 \in first .. last
          BY <5>1, <5>2
        <5> QED BY <1>5, <5>1, <5>3
      <4>2. Block(current)' = ((total + 1) .. o) \cup ((o + 1) .. (o + b + 1))
        BY <1>5, <1>10
      <4>3. ((total + 1) .. o) \cup ((o + 1) .. (o + b + 1)) = (total + 1) .. (o + b + 1)
        BY <1>5, <1>7, <4>1
      <4> QED BY <1>5, <1>7, <4>1, <4>2, <4>3
    <3>4. /\ Places(current, {"begin"})' = {first}
          /\ Places(current, Lines)' # {}
          /\ Places(current, {"end"})' = {}
      BY <1>10, <1>11, <1>12, <3>1, <3>2
    <3> QED BY <3>3, <3>4 DEF Bracketed
  <2>2. CASE ~sink.begun
    <3>1. b = 1 /\ Block(current) = {} /\ \A w : Places(current, w) = {}
      <4>1. Block(current) = {}
        BY <1>5, <1>6, <2>2
      <4> QED BY <1>7, <2>2, <4>1 DEF Places
    <3>2. New(T) = (o + 1) .. (o + 2) /\ o + 1 \in New(T) /\ o + 2 \in New(T)
      BY <1>5, <1>10, <3>1
    <3>3. NewPlaces(T, {"begin"}) = {o + 1}
      <4>1. \A i \in New(T) : i = o + 1 \/ i = o + 2
        BY <1>5, <3>2
      <4>2. (o + 1) - o = 1 /\ (o + 2) - o = 2
        BY <1>5
      <4>3. T[1].what = "begin" /\ T[2].what = what
        BY <1>2, <3>1
      <4> QED BY <1>12, <3>2, <4>1, <4>2, <4>3 DEF NewPlaces
    <3>4. NewPlaces(T, Lines) # {} /\ NewPlaces(T, {"end"}) = {}
      BY <1>11, <1>12
    <3> QED BY <1>10, <3>1, <3>2, <3>3, <3>4 DEF Bracketed
  <2> QED BY <2>1, <2>2
<1>14. count' > 0
  BY <1>2, <1>4, <1>5, <1>7
<1>15. what = "match" => Places(current, {"match"})' # {}
  BY <1>10, <1>11
<1>16. what = "context" => Places(current, {"match"})' = Places(current, {"match"})
  <2>1. what = "context" => NewPlaces(T, {"match"}) = {}
    <3>1. "begin" \notin {"match"} /\ "context" \notin {"match"}
      OBVIOUS
    <3> QED BY <1>11, <3>1
  <2> QED BY <1>10, <2>1
<1> QED BY <1>9, <1>13, <1>14, <1>15, <1>16

\* The records after a matched line, field by field.
LEMMA ToldMore ==
    ASSUME NEW t \in Told, NEW m \in Nat,
           NEW u, u = [t EXCEPT !.calls = @ + 1, !.lines = @ + 1, !.matched = @ + 1,
                                !.found = t.matched + 1, !.matches = @ + m]
    PROVE  /\ u \in Told /\ u.lines = t.lines + 1 /\ u.matched = t.matched + 1
           /\ u.matches = t.matches + m /\ u.calls = t.calls + 1 /\ u.found = t.matched + 1
<1>1. /\ u.lines = t.lines + 1 /\ u.matched = t.matched + 1
      /\ u.matches = t.matches + m /\ u.calls = t.calls + 1 /\ u.found = t.matched + 1
  BY DEF Told
<1>2. /\ t.lines + 1 \in Nat /\ t.matched + 1 \in Nat
      /\ t.matches + m \in Nat /\ t.calls + 1 \in Nat
  BY DEF Told
<1>3. u = [lines |-> t.lines + 1, calls |-> t.calls + 1, found |-> t.matched + 1,
           matched |-> t.matched + 1, matches |-> t.matches + m]
  BY DEF Told
<1> QED BY <1>1, <1>2, <1>3 DEF Told

LEMMA StatsMore ==
    ASSUME NEW t \in Stats, NEW m \in Nat
    PROVE  /\ WithLine(t, m) \in Stats /\ WithLine(t, m).matches = t.matches + m
           /\ WithLine(t, m).lines = t.lines + 1
           /\ WithLine(t, m).searches = t.searches
           /\ WithLine(t, m).withMatch = t.withMatch
<1> DEFINE u == WithLine(t, m)
<1>2. /\ t.matches + m \in Nat /\ t.lines + 1 \in Nat /\ t.searches \in Nat
      /\ t.withMatch \in Nat /\ t.printed \in Nat
  BY DEF Stats
<1>3. u = [searches |-> t.searches, withMatch |-> t.withMatch, printed |-> t.printed,
           lines |-> t.lines + 1, matches |-> t.matches + m]
  <2>1. t = [searches |-> t.searches, withMatch |-> t.withMatch, printed |-> t.printed,
             lines |-> t.lines, matches |-> t.matches]
    BY DEF Stats
  <2> DEFINE v == [t EXCEPT !.matches = t.matches + m]
  <2>2. v = [searches |-> t.searches, withMatch |-> t.withMatch, printed |-> t.printed,
             lines |-> t.lines, matches |-> t.matches + m]
    BY <2>1
  <2>3. u = [v EXCEPT !.lines = t.lines + 1]
    BY DEF Stats, WithLine
  <2> HIDE DEF u, v
  <2> QED BY <2>2, <2>3
<1> HIDE DEF u
<1>1. /\ u.matches = t.matches + m /\ u.lines = t.lines + 1
      /\ u.searches = t.searches /\ u.withMatch = t.withMatch
  BY <1>3
<1>4. u \in Stats
  BY <1>2, <1>3 DEF Stats
<1> QED BY <1>1, <1>4 DEF u

LEMMA SinkIs ==
    ASSUME NEW m \in Nat, NEW a \in BOOLEAN, NEW b \in BOOLEAN, NEW s \in Stats
    PROVE  [matches |-> m, binary |-> a, begun |-> b, stats |-> s] \in Sinks
BY DEF Sinks

\* What the sink has counted stands for what it was told, a matched line more.
LEMMA MatchedTells ==
    ASSUME Inv, NEW m \in 0 .. 2, Matched(m),
           out' \in Seq(Tokens), count' \in Nat, total' \in Nat
    PROVE  TypeInv' /\ TellInv'
<1> USE DEF Inv
<1>1. /\ phase = "search" /\ phase' = phase /\ (m = 0 <=> cfg.inverted)
      /\ cfg' = cfg /\ files' = files /\ current' = current /\ detection' = detection
      /\ seenBinary' = seenBinary /\ results' = results /\ owed' = "nothing"
      /\ told' = [told EXCEPT !.calls = @ + 1, !.lines = @ + 1, !.matched = @ + 1,
                              !.found = told.matched + 1, !.matches = @ + m]
  BY DEF Matched, MayReport, input
<1>2. /\ told \in Told /\ sink \in Sinks /\ sink.stats \in Stats /\ refused \in BOOLEAN
      /\ sink.binary \in BOOLEAN /\ sink.begun \in BOOLEAN
      /\ sink.matches \in Nat /\ sink.stats.lines \in Nat
      /\ sink.stats.matches \in Nat /\ told.lines \in Nat /\ told.matched \in Nat
      /\ told.matches \in Nat /\ told.calls \in Nat /\ m \in Nat
  BY DEF TypeInv, Sinks, Stats, Told
<1>3. /\ told' \in Told /\ told'.lines = told.lines + 1 /\ told'.matched = told.matched + 1
      /\ told'.matches = told.matches + m /\ told'.found = told.matched + 1
  <2>1. told \in Told /\ m \in Nat
    BY <1>2
  <2>2. told' = [told EXCEPT !.calls = @ + 1, !.lines = @ + 1, !.matched = @ + 1,
                             !.found = told.matched + 1, !.matches = @ + m]
    BY <1>1
  <2> QED BY ONLY ZenonT(60), <2>1, <2>2, ToldMore
<1> DEFINE add == IF cfg.printer = "Summary" /\ m = 0 THEN 1 ELSE m
           stats == WithLine(sink.stats, add)
           begun == IF cfg.printer = "JSON" THEN TRUE ELSE sink.begun
<1>4. add \in Nat
  BY <1>2
<1>5. /\ stats \in Stats /\ stats.matches = sink.stats.matches + add
      /\ stats.lines = sink.stats.lines + 1
      /\ stats.searches = sink.stats.searches /\ stats.withMatch = sink.stats.withMatch
  BY <1>2, <1>4, StatsMore
<1>6. /\ sink' \in Sinks /\ sink'.matches = sink.matches + 1 /\ refused' \in BOOLEAN
      /\ sink'.stats = IF HasStats THEN stats ELSE sink.stats
  <2>1. /\ refused' \in BOOLEAN
        /\ HasStats => sink' = [matches |-> sink.matches + 1, binary |-> sink.binary,
                                begun |-> begun, stats |-> stats]
        /\ ~HasStats => sink' = [matches |-> sink.matches + 1, binary |-> sink.binary,
                                 begun |-> begun, stats |-> sink.stats]
    <3>1. CASE cfg.printer = "Standard"
      <4>1. sink' = [sink EXCEPT !.matches = @ + 1,
                        !.stats = IF HasStats THEN WithLine(@, Recorded(m)) ELSE @]
        BY <3>1 DEF Matched
      <4>2. HasStats => Recorded(m) = add
        BY <3>1 DEF HasStats, Recorded, NeedsMatchGranularity
      <4>3. Suppressed \in BOOLEAN
        BY <1>2, Zenon DEF Suppressed
      <4>4. refused' = Suppressed
        BY <3>1 DEF Matched
      <4>5. begun = sink.begun
        BY <3>1
      <4> QED BY <1>2, <4>1, <4>2, <4>3, <4>4, <4>5 DEF Sinks
    <3>2. CASE cfg.printer = "Summary"
      <4>1. /\ sink' = [sink EXCEPT !.matches = @ + 1,
                    !.stats = IF HasStats THEN WithLine(@, IF m = 0 THEN 1 ELSE m) ELSE @]
            /\ refused' = (~HasStats /\ QuitEarly)
        BY <3>2 DEF Matched
      <4>2. (~HasStats /\ QuitEarly) \in BOOLEAN
        BY Zenon
      <4>3. (IF m = 0 THEN 1 ELSE m) = add /\ begun = sink.begun
        BY <3>2
      <4> HIDE DEF add
      <4> QED BY <1>2, <4>1, <4>2, <4>3 DEF Sinks
    <3>3. CASE cfg.printer = "JSON"
      <4>1. /\ sink' = [sink EXCEPT !.matches = @ + 1, !.begun = TRUE,
                                    !.stats = WithLine(@, m)]
            /\ refused' = refused
        BY <3>3 DEF Matched
      <4>2. HasStats /\ begun = TRUE /\ add = m
        BY <3>3 DEF HasStats
      <4>3. sink' = [matches |-> sink.matches + 1, binary |-> sink.binary,
                     begun |-> begun, stats |-> stats]
        BY <1>2, <4>1, <4>2 DEF Sinks
      <4> QED BY <1>2, <4>1, <4>2, <4>3
    <3> QED BY <3>1, <3>2, <3>3, InputType DEF Config
  <2>2. begun \in BOOLEAN /\ sink.matches + 1 \in Nat
    <3>1. begun \in BOOLEAN
      BY <1>2, Zenon
    <3>2. sink.matches + 1 \in Nat
      BY <1>2
    <3> QED BY <3>1, <3>2, Zenon
  <2> HIDE DEF stats, begun
  <2>3. CASE HasStats
    BY <1>2, <1>5, <2>1, <2>2, <2>3, SinkIs
  <2>4. CASE ~HasStats
    BY <1>2, <2>1, <2>2, <2>4, SinkIs
  <2> QED BY <2>3, <2>4
<1>7. TypeInv'
  BY <1>1, <1>3, <1>6 DEF TypeInv
<1>8. TellInv'
  <2>1. /\ Detection(File)' = Detection(File) /\ HasStats' = HasStats
    BY <1>1, SameInput DEF Detection, File
  <2>2. /\ told.lines = told.matched /\ detection = Detection(File)
        /\ sink.matches = told.matched
        /\ HasStats =>
             /\ sink.stats.lines = told.lines
             /\ sink.stats.matches = IF cfg.printer = "Summary" /\ cfg.inverted
                                     THEN told.matched ELSE told.matches
             /\ sink.stats.searches = 0 /\ sink.stats.withMatch = 0
        /\ told.matches > 0 => told.matched > 0
    BY <1>1 DEF TellInv, Searching
  <2>3. /\ told'.lines = told'.matched /\ sink'.matches = told'.matched
        /\ told'.matched > 0 /\ (~cfg.inverted => told'.matches > 0) /\ told'.found > 0
    BY <1>1, <1>2, <1>3, <1>6, <2>2
  <2>4. HasStats =>
             /\ sink'.stats.lines = told'.lines
             /\ sink'.stats.matches = IF cfg.printer = "Summary" /\ cfg.inverted
                                      THEN told'.matched ELSE told'.matches
             /\ sink'.stats.searches = 0 /\ sink'.stats.withMatch = 0
    <3> SUFFICES ASSUME HasStats
                 PROVE  /\ stats.lines = told.lines + 1
                        /\ stats.matches = IF cfg.printer = "Summary" /\ cfg.inverted
                                           THEN told.matched + 1 ELSE told.matches + m
                        /\ stats.searches = 0 /\ stats.withMatch = 0
      BY <1>3, <1>6, <2>2
    <3>1. cfg.printer = "Summary" /\ cfg.inverted => add = 1
      BY <1>1
    <3>2. ~(cfg.printer = "Summary" /\ cfg.inverted) => add = m
      BY <1>1
    <3> HIDE DEF stats, add
    <3> QED BY <1>2, <1>5, <2>2, <3>1, <3>2
  <2> QED BY <1>1, <2>1, <2>2, <2>3, <2>4 DEF TellInv, Searching
<1> QED BY <1>7, <1>8

LEMMA MatchedInv ==
    ASSUME Inv, NEW m \in 0 .. 2, Matched(m)
    PROVE  Inv'
<1> USE DEF Inv
<1>1. /\ phase = "search" /\ phase' = "search" /\ ~refused
      /\ UNCHANGED <<cfg, files, current, detection, seenBinary, results>>
      /\ told'.calls = told.calls + 1 /\ told'.matched = told.matched + 1
      /\ told.matched \in Nat /\ m \in Nat
  BY DEF Matched, MayReport, input, TypeInv, Told
<1>2. total \in Nat
  BY DEF TypeInv
<1>3. CASE cfg.printer = "Standard"
  <2>1. /\ refused' = Suppressed
        /\ Write(IF Suppressed THEN <<>> ELSE SinkLine("match", Recorded(m)))
        /\ sink'.binary = sink.binary
    BY <1>3 DEF Matched, TypeInv, Sinks
  <2>2. "match" \in Lines /\ Recorded(m) \in Nat
    BY <1>1 DEF Lines, Recorded
  <2>3. /\ out' \in Seq(Tokens) /\ count' \in Nat /\ WriterInv' /\ SortInv'
        /\ JSONMessages' /\ StatsExact' /\ ResultShown' /\ StandardInv'
    BY <1>1, <1>3, <2>1, <2>2, StandardLine
  <2>4. total' = total
    BY <2>1 DEF Write
  <2> QED BY <1>1, <1>2, <1>3, <2>3, <2>4, MatchedTells DEF SummaryInv, JSONInv
<1>4. CASE cfg.printer = "Summary"
  <2>1. UNCHANGED <<out, count, total, writerVars>>
    BY <1>4 DEF Matched, writerVars
  <2>2. Writes(<<>>)
    BY <1>1, <2>1, NothingWrites DEF TypeInv
  <2>3. SummaryInv'
    BY <1>1, <2>1 DEF SummaryInv
  <2> QED BY <1>1, <1>2, <1>4, <2>1, <2>2, <2>3, Writing, MatchedTells
          DEF StandardInv, JSONInv
<1>5. CASE cfg.printer = "JSON"
  <2>1. /\ sink'.begun = TRUE
        /\ Write(BeginMessage \o <<Token("match", told.calls + 1)>>)
    BY <1>5 DEF Matched, TypeInv, Sinks
  <2>2. "match" \in Lines
    BY DEF Lines
  <2>3. /\ out' \in Seq(Tokens) /\ count' \in Nat /\ WriterInv' /\ SortInv'
        /\ JSONMessages' /\ StatsExact' /\ ResultShown'
        /\ Bracketed(current, FALSE)' /\ count' > 0
        /\ Places(current, {"match"})' # {}
    BY <1>1, <1>5, <2>1, <2>2, LineMessage
  <2>4. total' = total
    BY <2>1 DEF Write
  <2>5. JSONInv'
    <3>1. told'.matched > 0
      BY <1>1
    <3> QED BY <1>1, <2>1, <2>3, <3>1 DEF JSONInv
  <2> QED BY <1>1, <1>2, <1>5, <2>3, <2>4, <2>5, MatchedTells DEF StandardInv, SummaryInv
<1> QED BY <1>3, <1>4, <1>5, InputType DEF Config

LEMMA ContextInv ==
    ASSUME Inv, NEW m \in 0 .. 2, Context(m)
    PROVE  Inv'
<1> USE DEF Inv
<1>1. /\ phase = "search" /\ phase' = "search" /\ ~refused
      /\ UNCHANGED <<cfg, files, current, detection, seenBinary, results>>
      /\ told' = [told EXCEPT !.calls = @ + 1,
                              !.found = IF owed' = "match" THEN 1 ELSE @]
      /\ owed' = IF told.matched = 0 /\ ~cfg.passthru THEN "match" ELSE "nothing"
      /\ owed' \in {"nothing", "line", "match"} /\ m \in Nat /\ total \in Nat
  BY DEF Context, MayReport, input, TypeInv
<1>2. /\ told' \in Told /\ told'.calls = told.calls + 1 /\ told'.matched = told.matched
      /\ told'.lines = told.lines /\ told'.matches = told.matches
      /\ told'.found = IF owed' = "match" THEN 1 ELSE told.found
  <2>1. told \in Told /\ (IF owed' = "match" THEN 1 ELSE told.found) \in Nat
    BY DEF TypeInv, Told
  <2>2. PICK n \in Nat : n = IF owed' = "match" THEN 1 ELSE told.found
    BY <2>1
  <2>3. told' = [told EXCEPT !.calls = @ + 1, !.found = n]
    BY <1>1, <2>2
  <2>4. /\ told' \in Told /\ told'.lines = told.lines /\ told'.matched = told.matched
        /\ told'.matches = told.matches /\ told'.calls = told.calls + 1 /\ told'.found = n
    <3>1. told \in Told /\ n \in Nat
      BY <2>1
    <3>2. told'.calls = told.calls + 1 /\ told'.found = n
      BY <3>1, <2>3 DEF Told
    <3>4. told.calls + 1 \in Nat
      BY <3>1 DEF Told
    <3>5. told' = [lines |-> told.lines, calls |-> told.calls + 1, found |-> n,
                   matched |-> told.matched, matches |-> told.matches]
      BY <3>1, <2>3 DEF Told
    <3>6. told' \in Told
      BY <3>1, <3>4, <3>5 DEF Told
    <3>3. told'.lines = told.lines /\ told'.matched = told.matched
          /\ told'.matches = told.matches
      BY <3>1, <2>3 DEF Told
    <3> QED BY <3>2, <3>3, <3>6
  <2> QED BY <2>2, <2>4
<1>3. ASSUME out' \in Seq(Tokens), count' \in Nat, total' \in Nat, sink' \in Sinks,
             refused' \in BOOLEAN, sink'.matches = sink.matches, sink'.stats = sink.stats
      PROVE  TypeInv' /\ TellInv'
  <2>1. TypeInv'
    BY <1>1, <1>2, <1>3 DEF TypeInv
  <2>2. /\ Detection(File)' = Detection(File) /\ HasStats' = HasStats
    BY <1>1, SameInput DEF Detection, File
  <2>3. /\ told'.matched > 0 => told'.found > 0
        /\ told'.found > 0 /\ told'.matched = 0 => owed' = "match" /\ ~cfg.passthru
    <3>1. told.matched \in Nat /\ told.found \in Nat
      BY DEF TypeInv, Told
    <3> QED BY <1>1, <1>2, <3>1 DEF TellInv
  <2>4. TellInv'
    BY <1>1, <1>2, <1>3, <2>2, <2>3 DEF TellInv, Searching
  <2> QED BY <2>1, <2>4
<1>4. CASE cfg.printer = "Standard"
  <2>1. /\ refused' = Suppressed /\ sink' = sink
        /\ Write(IF Suppressed THEN <<>> ELSE SinkLine("context", Recorded(m)))
    BY <1>4 DEF Context
  <2>2. "context" \in Lines /\ Recorded(m) \in Nat /\ "context" # "match"
    BY <1>1 DEF Lines, Recorded
  <2>3. /\ out' \in Seq(Tokens) /\ count' \in Nat /\ WriterInv' /\ SortInv'
        /\ JSONMessages' /\ StatsExact' /\ ResultShown' /\ StandardInv'
    BY <1>1, <1>2, <1>4, <2>1, <2>2, StandardLine
  <2>4. total' = total
    BY <2>1 DEF Write
  <2>5. refused' \in BOOLEAN
    <3>1. sink.binary \in BOOLEAN
      BY DEF TypeInv, Sinks
    <3> QED BY <2>1, <3>1, Zenon DEF Suppressed
  <2>6. TypeInv' /\ TellInv'
    BY <1>1, <1>3, <2>1, <2>3, <2>4, <2>5 DEF TypeInv
  <2> QED BY <1>1, <1>4, <2>3, <2>6 DEF SummaryInv, JSONInv
<1>5. CASE cfg.printer = "Summary"
  <2>1. UNCHANGED <<out, count, total, writerVars, sink, refused>>
    BY <1>5 DEF Context, writerVars
  <2>2. Writes(<<>>)
    BY <1>1, <2>1, NothingWrites DEF TypeInv
  <2>3. SummaryInv'
    BY <1>1, <2>1 DEF SummaryInv
  <2>4. TypeInv' /\ TellInv'
    BY <1>3, <2>1 DEF TypeInv
  <2> QED BY <1>1, <1>5, <2>2, <2>3, <2>4, Writing DEF StandardInv, JSONInv
<1>6. CASE cfg.printer = "JSON"
  <2>1. /\ sink' = [sink EXCEPT !.begun = TRUE] /\ refused' = refused
        /\ Write(BeginMessage \o <<Token("context", told.calls + 1)>>)
    BY <1>6 DEF Context
  <2>2. /\ sink' \in Sinks /\ sink'.begun = TRUE /\ sink'.matches = sink.matches
        /\ sink'.stats = sink.stats
    BY <2>1 DEF TypeInv, Sinks
  <2>3. "context" \in Lines /\ "context" # "match"
    BY DEF Lines
  <2>4. /\ out' \in Seq(Tokens) /\ count' \in Nat /\ WriterInv' /\ SortInv'
        /\ JSONMessages' /\ StatsExact' /\ ResultShown'
        /\ Bracketed(current, FALSE)' /\ count' > 0
        /\ Places(current, {"match"})' = Places(current, {"match"})
    BY <1>1, <1>6, <2>1, <2>3, LineMessage
  <2>5. total' = total
    BY <2>1 DEF Write
  <2>6. JSONInv'
    BY <1>1, <1>2, <2>2, <2>4 DEF JSONInv, Searching
  <2>7. TypeInv' /\ TellInv'
    BY <1>1, <1>3, <2>1, <2>2, <2>4, <2>5 DEF TypeInv
  <2> QED BY <1>1, <1>6, <2>4, <2>6, <2>7 DEF StandardInv, SummaryInv
<1> QED BY <1>4, <1>5, <1>6, InputType DEF Config

\* What finishing a search does to the sink.
LEMMA FinishedIs ==
    ASSUME NEW s \in Sinks, NEW p \in Nat
    PROVE  /\ Finished(s, p) \in Sinks /\ Finished(s, p).matches = s.matches
           /\ Finished(s, p).begun = s.begun
           /\ Finished(s, p).stats.searches = s.stats.searches + 1
           /\ Finished(s, p).stats.withMatch
                = s.stats.withMatch + (IF s.matches > 0 THEN 1 ELSE 0)
           /\ Finished(s, p).stats.lines = s.stats.lines
           /\ Finished(s, p).stats.matches = s.stats.matches
<1> DEFINE t == s.stats
           w == t.withMatch + (IF s.matches > 0 THEN 1 ELSE 0)
           n == [searches |-> t.searches + 1, withMatch |-> w, printed |-> t.printed + p,
                 lines |-> t.lines, matches |-> t.matches]
           u == Finished(s, p)
<1>1. /\ t \in Stats /\ s.matches \in Nat /\ s.binary \in BOOLEAN /\ s.begun \in BOOLEAN
  BY DEF Sinks
<1>2. /\ t.searches \in Nat /\ t.withMatch \in Nat /\ t.printed \in Nat /\ t.lines \in Nat
      /\ t.matches \in Nat
  BY <1>1 DEF Stats
<1>3. w \in Nat
  BY <1>1, <1>2
<1>4. s = [matches |-> s.matches, binary |-> s.binary, begun |-> s.begun, stats |-> t]
  BY DEF Sinks
<1>5. t = [searches |-> t.searches, withMatch |-> t.withMatch, printed |-> t.printed,
           lines |-> t.lines, matches |-> t.matches]
  BY <1>1 DEF Stats
<1>6. u = [matches |-> s.matches, binary |-> s.binary, begun |-> s.begun, stats |-> n]
  <2>1. u = [s EXCEPT !.stats.searches = t.searches + 1, !.stats.withMatch = w,
                      !.stats.printed = t.printed + p]
    BY <1>1, <1>4, <1>5 DEF Finished
  <2> DEFINE n1 == [searches |-> t.searches + 1, withMatch |-> t.withMatch,
                    printed |-> t.printed, lines |-> t.lines, matches |-> t.matches]
             n2 == [searches |-> t.searches + 1, withMatch |-> w,
                    printed |-> t.printed, lines |-> t.lines, matches |-> t.matches]
             s1 == [s EXCEPT !.stats.searches = t.searches + 1]
             s2 == [s1 EXCEPT !.stats.withMatch = w]
             s3 == [s2 EXCEPT !.stats.printed = t.printed + p]
  <2>2. u = s3
    BY <2>1
  <2>3. s1 = [matches |-> s.matches, binary |-> s.binary, begun |-> s.begun, stats |-> n1]
    BY <1>4, <1>5
  <2> HIDE DEF w
  <2>4. s2 = [matches |-> s.matches, binary |-> s.binary, begun |-> s.begun, stats |-> n2]
    <3>1. [n1 EXCEPT !.withMatch = w] = n2
      OBVIOUS
    <3> HIDE DEF n1, n2, s1
    <3>2. s2 = [matches |-> s.matches, binary |-> s.binary, begun |-> s.begun,
                stats |-> [n1 EXCEPT !.withMatch = w]]
      BY <2>3
    <3> QED BY <3>1, <3>2
  <2>5. s3 = [matches |-> s.matches, binary |-> s.binary, begun |-> s.begun, stats |-> n]
    <3>1. [n2 EXCEPT !.printed = t.printed + p] = n
      OBVIOUS
    <3> HIDE DEF n2, n, s2
    <3>2. s3 = [matches |-> s.matches, binary |-> s.binary, begun |-> s.begun,
                stats |-> [n2 EXCEPT !.printed = t.printed + p]]
      BY <2>4
    <3> QED BY <3>1, <3>2
  <2> QED BY <2>2, <2>5
<1> HIDE DEF u
<1>7. /\ u.matches = s.matches /\ u.begun = s.begun /\ u.stats = n
  BY <1>6
<1>8. /\ n.searches = t.searches + 1 /\ n.withMatch = w /\ n.lines = t.lines
      /\ n.matches = t.matches
  OBVIOUS
<1>9. n \in Stats
  <2> HIDE DEF w
  <2>1. t.searches + 1 \in Nat /\ t.printed + p \in Nat
    BY <1>2
  <2> QED BY <1>2, <1>3, <2>1 DEF Stats
<1> HIDE DEF n
<1>10. u \in Sinks
  BY <1>1, <1>6, <1>9, SinkIs
<1> QED BY <1>7, <1>8, <1>10 DEF u

\* The search has ended: the sink has counted what it was told, but for binary
\* data that makes a summary count for nothing.
LEMMA FinishTells ==
    ASSUME Inv, Finish, out' \in Seq(Tokens), count' \in Nat, total' \in Nat,
           sink' \in Sinks, sink'.matches = IF Squashed THEN 0 ELSE sink.matches,
           HasStats => /\ sink'.stats.searches = sink.stats.searches + 1
                       /\ sink'.stats.withMatch
                            = sink.stats.withMatch + (IF sink.matches > 0 THEN 1 ELSE 0)
                       /\ sink'.stats.lines = sink.stats.lines
                       /\ sink'.stats.matches = sink.stats.matches
    PROVE  TypeInv' /\ TellInv'
<1> USE DEF Inv
<1>1. /\ phase = "search" /\ phase' = "close"
      /\ UNCHANGED <<cfg, files, current, detection, refused, seenBinary, owed, told, results>>
  BY DEF Finish, input, searcherVars
<1>2. TypeInv'
  BY <1>1 DEF TypeInv
<1>3. /\ Detection(File)' = Detection(File) /\ HasStats' = HasStats
      /\ (Squashed' <=> Squashed)
  BY <1>1, SameInput DEF Detection, File, Squashed
<1>4. sink.matches = told.matched
  BY <1>1 DEF TellInv
<1>5. HasStats =>
         /\ sink'.stats.searches = 1
         /\ sink'.stats.withMatch = IF told.matched > 0 THEN 1 ELSE 0
         /\ sink'.stats.lines = told.lines
         /\ sink'.stats.matches = IF cfg.printer = "Summary" /\ cfg.inverted
                                  THEN told.matched ELSE told.matches
  BY <1>1, <1>4 DEF TellInv, Searching
<1>6. owed = "nothing" \/ refused \/ (seenBinary /\ detection = "quit")
  BY DEF Finish
<1>7. TellInv'
  BY <1>1, <1>3, <1>4, <1>5, <1>6 DEF TellInv, Searching
<1> QED BY <1>2, <1>7

LEMMA FinishStandardInv ==
    ASSUME Inv, Finish, cfg.printer = "Standard", FinishStandard
    PROVE  Inv'
<1> USE DEF Inv
<1> DEFINE T == BinaryMessage
<1>1. /\ phase = "search" /\ phase' = "close"
      /\ UNCHANGED <<cfg, files, current, detection, refused, seenBinary, owed, told, results>>
      /\ count' = count + Len(T) /\ total' = total /\ out' = out \o T
  BY DEF Finish, FinishStandard, input, searcherVars, Write
<1>2. /\ T \in Seq(Tokens) /\ Len(T) \in Nat
      /\ (sink.binary /\ sink.matches > 0 => Len(T) = 1)
      /\ \A k \in 1 .. Len(T) : /\ sink.matches > 0 /\ k = Len(T)
                                /\ T[k].file = current /\ T[k].what = "notice"
  <2>1. /\ Token("notice", 0) \in Tokens /\ Token("notice", 0).file = current
        /\ Token("notice", 0).what = "notice"
    BY TokenType DEF What
  <2>2. (sink.binary /\ sink.matches > 0) \in BOOLEAN
    BY Zenon
  <2>3. /\ T \in Seq(Tokens)
        /\ Len(T) = IF sink.binary /\ sink.matches > 0 THEN 1 ELSE 0
        /\ \A k \in 1 .. Len(T) : /\ sink.binary /\ sink.matches > 0
                                  /\ k = 1 /\ T[k] = Token("notice", 0)
    BY <2>1, <2>2, OneIfIs DEF BinaryMessage
  <2> HIDE DEF T
  <2>4. Len(T) \in Nat
    BY <2>3
  <2> QED BY <2>1, <2>3, <2>4
<1> HIDE DEF T
<1>3. Writes(T)
  BY <1>1, <1>2 DEF Writes, Sorts
<1>4. /\ out' \in Seq(Tokens) /\ count' \in Nat /\ WriterInv' /\ SortInv'
      /\ JSONMessages' /\ StatsExact' /\ ResultShown' /\ total' \in Nat
  BY <1>1, <1>3, Writing DEF TypeInv
<1>5. /\ sink' \in Sinks /\ sink'.matches = sink.matches
      /\ HasStats => /\ sink'.stats.searches = sink.stats.searches + 1
                     /\ sink'.stats.withMatch
                          = sink.stats.withMatch + (IF sink.matches > 0 THEN 1 ELSE 0)
                     /\ sink'.stats.lines = sink.stats.lines
                     /\ sink'.stats.matches = sink.stats.matches
  <2>1. sink' = IF HasStats THEN Finished(sink, count + Len(T)) ELSE sink
    BY DEF FinishStandard, T
  <2>2. sink \in Sinks /\ count + Len(T) \in Nat
    BY <1>2 DEF TypeInv
  <2>3. CASE HasStats
    BY <2>1, <2>2, <2>3, FinishedIs
  <2>4. CASE ~HasStats
    BY <2>1, <2>2, <2>4
  <2> QED BY <2>3, <2>4
<1>6. TypeInv' /\ TellInv'
  BY <1>4, <1>5, FinishTells DEF Squashed
<1>7. /\ \A f \in 1 .. NumFiles : Laid(f)
      /\ Places(current, {"notice"}) = {} /\ told.calls \in Nat
      /\ \A i \in Places(current, Lines) : out[i].n <= told.calls
      /\ told.matched > 0 => Places(current, {"match"}) # {} \/ sink.binary
      /\ Places(current, {"match"}) # {} => told.matched > 0
      /\ sink.matches = told.matched /\ current \in 1 .. NumFiles
  BY <1>1 DEF StandardInv, TellInv, TypeInv, Told
<1>8. \A i \in Places(current, Lines) : out[i].n <= told.calls + 1
  <2>1. \A i \in Places(current, Lines) : out[i].n \in Nat
    BY OutType DEF Places, Block
  <2> QED BY <1>7, <2>1
<1>9. Laid(current)'
  BY <1>2, <1>3, <1>7, <1>8, LaidGrows
<1>10. \A f \in 1 .. NumFiles : Laid(f)'
  BY <1>3, <1>7, <1>9, OthersLaid
<1>11. sink.matches > 0 <=> Places(current, {"match", "notice"})' # {}
  <2>1. /\ \A w : Places(current, w)' = Places(current, w) \cup NewPlaces(T, w)
        /\ \A i \in New(T) : i - Len(out) \in 1 .. Len(T)
        /\ Len(out) \in Nat
    BY <1>3, WrittenBlock, Written, OutType
  <2>2. \A w : NewPlaces(T, w) # {} => sink.matches > 0
    BY <1>2, <2>1 DEF NewPlaces
  <2>3. ASSUME sink.binary, sink.matches > 0
        PROVE  NewPlaces(T, {"match", "notice"}) # {}
    <3>1. Len(T) = 1 /\ 1 \in 1 .. Len(T)
      BY <1>2, <2>3
    <3>2. Len(out) + 1 \in New(T) /\ (Len(out) + 1) - Len(out) = 1
      BY <2>1, <3>1 DEF New
    <3>3. T[1].what = "notice"
      BY <1>2, <3>1
    <3> QED BY <3>2, <3>3 DEF NewPlaces
  <2>4. Places(current, {"match", "notice"})
          = Places(current, {"match"}) \cup Places(current, {"notice"})
    BY DEF Places
  <2> QED BY <1>7, <2>1, <2>2, <2>3, <2>4
<1>12. StandardInv'
  BY <1>1, <1>5, <1>10, <1>11 DEF StandardInv
<1> QED BY <1>1, <1>4, <1>6, <1>12 DEF SummaryInv, JSONInv

LEMMA FinishJSONInv ==
    ASSUME Inv, Finish, cfg.printer = "JSON", FinishJSON
    PROVE  Inv'
<1> USE DEF Inv
<1> DEFINE T == OneIf(sink.begun, Token("end", 0))
           o == Len(out)
<1>1. /\ phase = "search" /\ phase' = "close"
      /\ UNCHANGED <<cfg, files, current, detection, refused, seenBinary, owed, told, results>>
      /\ count' = count + Len(T) /\ total' = total /\ out' = out \o T
  BY DEF Finish, FinishJSON, input, searcherVars, Write
<1>2. /\ T \in Seq(Tokens) /\ Len(T) = (IF sink.begun THEN 1 ELSE 0)
      /\ \A k \in 1 .. Len(T) : /\ k = 1 /\ T[k].file = current /\ T[k].what = "end"
  <2>1. /\ Token("end", 0) \in Tokens /\ Token("end", 0).file = current
        /\ Token("end", 0).what = "end"
    BY TokenType DEF What
  <2>2. sink.begun \in BOOLEAN
    BY DEF TypeInv, Sinks
  <2>3. /\ T \in Seq(Tokens) /\ Len(T) = IF sink.begun THEN 1 ELSE 0
        /\ \A k \in 1 .. Len(T) : sink.begun /\ k = 1 /\ T[k] = Token("end", 0)
    BY <2>1, <2>2, OneIfIs
  <2> HIDE DEF T
  <2> QED BY <2>1, <2>3
<1> HIDE DEF T
<1>3. Writes(T)
  BY <1>1, <1>2 DEF Writes, Sorts
<1>4. /\ out' \in Seq(Tokens) /\ count' \in Nat /\ WriterInv' /\ SortInv'
      /\ JSONMessages' /\ StatsExact' /\ ResultShown' /\ total' \in Nat
  BY <1>1, <1>3, Writing DEF TypeInv
<1>5. /\ sink' \in Sinks /\ sink'.matches = sink.matches /\ sink'.begun = sink.begun
      /\ HasStats => /\ sink'.stats.searches = sink.stats.searches + 1
                     /\ sink'.stats.withMatch
                          = sink.stats.withMatch + (IF sink.matches > 0 THEN 1 ELSE 0)
                     /\ sink'.stats.lines = sink.stats.lines
                     /\ sink'.stats.matches = sink.stats.matches
  <2> DEFINE u == Finished(sink, count)
  <2>1. sink' = [u EXCEPT !.binary = seenBinary]
    BY DEF FinishJSON
  <2>2. /\ u \in Sinks /\ u.matches = sink.matches /\ u.begun = sink.begun
        /\ u.stats.searches = sink.stats.searches + 1
        /\ u.stats.withMatch = sink.stats.withMatch + (IF sink.matches > 0 THEN 1 ELSE 0)
        /\ u.stats.lines = sink.stats.lines
        /\ u.stats.matches = sink.stats.matches
    BY FinishedIs DEF TypeInv
  <2>3. seenBinary \in BOOLEAN
    BY DEF TypeInv
  <2> HIDE DEF u
  <2>4. sink' \in Sinks /\ sink'.matches = u.matches /\ sink'.begun = u.begun
        /\ sink'.stats = u.stats
    BY <2>1, <2>2, <2>3 DEF Sinks
  <2> QED BY <2>2, <2>4
<1>6. TypeInv' /\ TellInv'
  BY <1>4, <1>5, FinishTells DEF Squashed
<1>7. /\ Block(current) = (total + 1) .. o /\ total \in Nat /\ count \in Nat
      /\ total + count = o /\ o \in Nat /\ DOMAIN out = 1 .. o
      /\ Searching
  BY <1>1, LastBlock, OutType DEF WriterInv, Searching
<1>8. /\ sink.begun <=> count > 0
      /\ sink.begun => Bracketed(current, FALSE)
      /\ told.matched > 0 <=> Places(current, {"match"}) # {}
  BY <1>1, <1>7 DEF JSONInv
<1>9. /\ Block(current)' = Block(current) \cup New(T)
      /\ \A w : Places(current, w)' = Places(current, w) \cup NewPlaces(T, w)
      /\ \A i \in New(T) : i - o \in 1 .. Len(T)
  BY <1>3, WrittenBlock, Written
<1>10. \A w : "end" \notin w => NewPlaces(T, w) = {}
  BY <1>2, <1>9 DEF NewPlaces
<1>11. /\ Places(current, {"match"})' = Places(current, {"match"})
       /\ Places(current, {"begin"})' = Places(current, {"begin"})
       /\ Places(current, Lines)' = Places(current, Lines)
  <2>1. "end" \notin {"match"} /\ "end" \notin {"begin"} /\ "end" \notin Lines
    BY DEF Lines
  <2> QED BY <1>9, <1>10, <2>1
<1>12. sink.begun => Bracketed(current, TRUE)'
  <2> SUFFICES ASSUME sink.begun PROVE Bracketed(current, TRUE)'
    OBVIOUS
  <2>1. PICK first \in Block(current), last \in Block(current) :
           /\ Block(current) = first..last
           /\ Places(current, {"begin"}) = {first}
           /\ Places(current, Lines) # {}
           /\ Places(current, {"end"}) = {}
    BY <1>8 DEF Bracketed
  <2>2. New(T) = {o + 1}
    <3>1. Len(T) = 1
      BY <1>2
    <3>2. New(T) = (o + 1) .. (o + 1)
      BY <3>1 DEF New
    <3> QED BY <1>7, <3>2
  <2>3. NewPlaces(T, {"end"}) = {o + 1}
    <3>1. T[1].what = "end" /\ (o + 1) - o = 1
      BY <1>2, <1>7
    <3> QED BY <2>2, <3>1 DEF NewPlaces
  <2>4. first = total + 1 /\ total < o
    <3>1. /\ first \in (total + 1) .. o /\ last \in (total + 1) .. o
          /\ first .. last = (total + 1) .. o
      BY <1>7, <2>1
    <3>2. total + 1 \in (total + 1) .. o
      BY <1>7, <3>1
    <3>3. total + 1 \in first .. last
      BY <3>1, <3>2
    <3> QED BY <1>7, <3>1, <3>3
  <2>5. Block(current)' = first .. (o + 1)
    <3>1. ((total + 1) .. o) \cup {o + 1} = (total + 1) .. (o + 1)
      BY <1>7, <2>4
    <3> QED BY <1>7, <1>9, <2>2, <2>4, <3>1
  <2>6. first \in Block(current)' /\ o + 1 \in Block(current)'
    BY <1>9, <2>1, <2>2
  <2>7. /\ Places(current, {"begin"})' = {first} /\ Places(current, Lines)' # {}
        /\ Places(current, {"end"})' = {o + 1}
    BY <1>9, <1>11, <2>1, <2>3
  <2> QED BY <2>5, <2>6, <2>7 DEF Bracketed
<1>13. count' > 0 <=> count > 0
  <2>1. Len(T) = (IF count > 0 THEN 1 ELSE 0)
    BY <1>2, <1>8
  <2> QED BY <1>1, <1>7, <2>1
<1>14. JSONInv'
  BY <1>1, <1>5, <1>8, <1>11, <1>12, <1>13 DEF JSONInv, Searching
<1> QED BY <1>1, <1>4, <1>6, <1>14 DEF StandardInv, SummaryInv

\* What in a summary says that the file is to be shown.
Tells(T) ==
    \E k \in 1 .. Len(T) : \/ T[k].what = "count" /\ T[k].n > 0
                           \/ T[k].what = "path" /\ RequiresPath

\* A count is written behind the path or alone, and tells if it is not zero.
LEMMA CountedIs ==
    ASSUME TypeInv, ~RequiresPath, NEW c \in Nat
    PROVE  LET T == OneIf(cfg.path, Token("path", 0)) \o <<Token("count", c)>>
           IN  /\ T \in Seq(Tokens)
               /\ \A k \in 1 .. Len(T) : T[k].file = current /\ T[k].what \in {"path", "count"}
               /\ Tells(T) <=> c > 0
<1> DEFINE p == Token("path", 0)
           t == Token("count", c)
           P == OneIf(cfg.path, p)
           T == P \o <<t>>
<1>1. /\ p \in Tokens /\ p.file = current /\ p.what = "path"
      /\ t \in Tokens /\ t.file = current /\ t.what = "count" /\ t.n = c
  BY TokenType DEF What
<1>2. cfg.path \in BOOLEAN
  BY InputType DEF Config
<1> HIDE DEF p, t
<1>3. P \in Seq(Tokens) /\ Len(P) \in Nat /\ \A k \in 1 .. Len(P) : P[k] = p
  <2>1. P \in Seq(Tokens) /\ Len(P) = IF cfg.path THEN 1 ELSE 0
    BY <1>1, <1>2, OneIfIs
  <2>2. \A k \in 1 .. Len(P) : P[k] = p
    BY <1>1, <1>2, OneIfIs
  <2> HIDE DEF P
  <2> QED BY <2>1, <2>2
<1> HIDE DEF P
<1>4. <<t>> \in Seq(Tokens) /\ Len(<<t>>) = 1 /\ <<t>>[1] = t
  BY <1>1
<1>5. /\ T \in Seq(Tokens) /\ Len(T) = Len(P) + 1
      /\ \A i \in 1 .. Len(P) : T[i] = P[i]
      /\ T[Len(P) + 1] = t
  <2>1. /\ T \in Seq(Tokens) /\ Len(T) = Len(P) + Len(<<t>>)
        /\ \A i \in 1 .. Len(P) : T[i] = P[i]
        /\ \A i \in (Len(P) + 1) .. (Len(P) + Len(<<t>>)) : T[i] = <<t>>[i - Len(P)]
    BY <1>3, <1>4, Behind
  <2>2. Len(P) + 1 \in (Len(P) + 1) .. (Len(P) + 1) /\ (Len(P) + 1) - Len(P) = 1
    BY <1>3
  <2> QED BY <1>4, <2>1, <2>2
<1> HIDE DEF T
<1>6. \A k \in 1 .. Len(T) : k \in 1 .. Len(P) \/ k = Len(P) + 1
  BY <1>3, <1>5
<1>7. \A k \in 1 .. Len(T) : T[k] = p \/ T[k] = t
  BY <1>3, <1>5, <1>6
<1>8. Len(P) + 1 \in 1 .. Len(T)
  BY <1>3, <1>5
<1>9. Tells(T) <=> c > 0
  BY <1>1, <1>5, <1>7, <1>8 DEF Tells
<1>10. \A k \in 1 .. Len(T) : T[k].file = current /\ T[k].what \in {"path", "count"}
  BY <1>1, <1>7
<1> QED BY <1>5, <1>9, <1>10 DEF T, P, p, t

LEMMA EmptyTells ==
    /\ <<>> \in Seq(Tokens) /\ Len(<<>>) = 0
    /\ ~Tells(<<>>)
    /\ \A k \in 1 .. Len(<<>>) : FALSE
<1>1. <<>> \in Seq(Tokens) /\ Len(<<>>) = 0
  OBVIOUS
<1>2. \A k \in 1 .. Len(<<>>) : FALSE
  BY <1>1
<1> QED BY <1>1, <1>2 DEF Tells

LEMMA PathIs ==
    ASSUME TypeInv, RequiresPath, NEW c \in BOOLEAN
    PROVE  LET T == OneIf(c, Token("path", 0))
           IN  /\ T \in Seq(Tokens)
               /\ \A k \in 1 .. Len(T) : T[k].file = current /\ T[k].what \in {"path", "count"}
               /\ Tells(T) <=> c
<1> DEFINE p == Token("path", 0)
           T == OneIf(c, p)
<1>1. p \in Tokens /\ p.file = current /\ p.what = "path"
  BY TokenType DEF What
<1> HIDE DEF p
<1>2. /\ T \in Seq(Tokens) /\ Len(T) = (IF c THEN 1 ELSE 0)
      /\ \A k \in 1 .. Len(T) : c /\ k = 1 /\ T[k] = p
  BY <1>1, OneIfIs
<1> HIDE DEF T
<1>3. c => 1 \in 1 .. Len(T)
  BY <1>2
<1>4. Tells(T) <=> c
  BY <1>1, <1>2, <1>3 DEF Tells
<1>5. \A k \in 1 .. Len(T) : T[k].file = current /\ T[k].what \in {"path", "count"}
  BY <1>1, <1>2
<1> QED BY <1>2, <1>4, <1>5 DEF T, p

\* What a summary tells agrees with what it has counted.
LEMMA SummaryLineIs ==
    ASSUME TypeInv, NEW n \in Nat,
           cfg.kind = "CountMatches" => (n > 0 <=> sink.stats.matches > 0)
    PROVE  LET T == SummaryLine(n)
           IN  /\ T \in Seq(Tokens)
               /\ \A k \in 1 .. Len(T) : T[k].file = current /\ T[k].what \in {"path", "count"}
               /\ cfg.kind = "PathWithoutMatch" => (Tells(T) <=> n = 0)
               /\ cfg.kind \in {"Count", "CountMatches", "PathWithMatch"} => (Tells(T) <=> n > 0)
<1>1. cfg.kind \in Kinds /\ cfg.path \in BOOLEAN /\ cfg.excludeZero \in BOOLEAN
  BY InputType DEF Config
<1>2. sink.stats.matches \in Nat
  BY DEF TypeInv, Sinks, Stats
<1>3. (n > 0) \in BOOLEAN /\ (n = 0) \in BOOLEAN /\ (n = 0 <=> ~(n > 0))
  OBVIOUS
<1> DEFINE counted(c) == OneIf(cfg.path, Token("path", 0)) \o <<Token("count", c)>>
<1>4. CASE cfg.kind \in {"Count", "CountMatches"}
  <2>1. ~RequiresPath
    BY <1>4 DEF RequiresPath
  <2>2. \/ SummaryLine(n) = <<>> /\ n = 0
        \/ SummaryLine(n) = counted(n)
        \/ SummaryLine(n) = counted(sink.stats.matches) /\ cfg.kind = "CountMatches"
    BY <1>4 DEF SummaryLine
  <2>3. CASE SummaryLine(n) = <<>> /\ n = 0
    BY <1>3, <1>4, <2>3, EmptyTells
  <2>4. CASE SummaryLine(n) = counted(n)
    <3>1. /\ counted(n) \in Seq(Tokens)
          /\ \A k \in 1 .. Len(counted(n)) :
                /\ counted(n)[k].file = current
                /\ counted(n)[k].what \in {"path", "count"}
          /\ Tells(counted(n)) <=> n > 0
      BY <2>1, CountedIs
    <3> HIDE DEF counted
    <3> QED BY <1>4, <2>4, <3>1
  <2>5. CASE SummaryLine(n) = counted(sink.stats.matches) /\ cfg.kind = "CountMatches"
    <3> DEFINE c == sink.stats.matches
    <3>1. /\ counted(c) \in Seq(Tokens)
          /\ \A k \in 1 .. Len(counted(c)) :
                /\ counted(c)[k].file = current
                /\ counted(c)[k].what \in {"path", "count"}
          /\ Tells(counted(c)) <=> c > 0
      BY <1>2, <2>1, CountedIs
    <3>2. n > 0 <=> c > 0
      BY <2>5
    <3>3. SummaryLine(n) = counted(c)
      BY <2>5
    <3> HIDE DEF counted, c
    <3> QED BY <1>4, <3>1, <3>2, <3>3
  <2> QED BY <2>2, <2>3, <2>4, <2>5
<1>5. CASE cfg.kind = "PathWithMatch"
  <2>1. RequiresPath /\ SummaryLine(n) = OneIf(n > 0, Token("path", 0))
    BY <1>5 DEF RequiresPath, SummaryLine
  <2> QED BY <1>3, <1>5, <2>1, PathIs
<1>6. CASE cfg.kind = "PathWithoutMatch"
  <2>1. RequiresPath /\ SummaryLine(n) = OneIf(n = 0, Token("path", 0))
    BY <1>6 DEF RequiresPath, SummaryLine
  <2> QED BY <1>3, <1>6, <2>1, PathIs
<1>7. CASE cfg.kind \in {"QuietWithMatch", "QuietWithoutMatch"}
  <2>1. SummaryLine(n) = <<>>
    BY <1>7 DEF SummaryLine
  <2> QED BY <1>7, <2>1, EmptyTells
<1> QED BY <1>1, <1>4, <1>5, <1>6, <1>7 DEF Kinds

LEMMA FinishSummaryInv ==
    ASSUME Inv, Finish, cfg.printer = "Summary", FinishSummary
    PROVE  Inv'
<1> USE DEF Inv
<1>1. /\ phase = "search" /\ phase' = "close" /\ Searching
      /\ UNCHANGED <<cfg, files, current, detection, refused, seenBinary, owed, told, results>>
  BY DEF Finish, input, searcherVars, Searching
<1> DEFINE u == IF HasStats THEN Finished(sink, count) ELSE sink
           found == [u EXCEPT !.binary = seenBinary]
<1>2. \/ Squashed /\ sink' = [found EXCEPT !.matches = 0] /\ UNCHANGED writerVars
      \/ ~Squashed /\ sink' = found /\ Write(SummaryLine(sink.matches))
  BY DEF FinishSummary, Squashed
<1>3. /\ u \in Sinks /\ u.matches = sink.matches
      /\ HasStats => /\ u.stats.searches = sink.stats.searches + 1
                     /\ u.stats.withMatch
                          = sink.stats.withMatch + (IF sink.matches > 0 THEN 1 ELSE 0)
                     /\ u.stats.lines = sink.stats.lines
                     /\ u.stats.matches = sink.stats.matches
  <2>1. sink \in Sinks /\ count \in Nat
    BY DEF TypeInv
  <2>2. CASE HasStats
    BY <2>1, <2>2, FinishedIs
  <2>3. CASE ~HasStats
    BY <2>1, <2>3
  <2> QED BY <2>2, <2>3
<1> HIDE DEF u
<1>4. found \in Sinks /\ found.matches = u.matches /\ found.stats = u.stats
  <2>1. seenBinary \in BOOLEAN
    BY DEF TypeInv
  <2> QED BY <1>3, <2>1 DEF Sinks
<1> HIDE DEF found
<1>5. /\ sink' \in Sinks /\ sink'.matches = (IF Squashed THEN 0 ELSE sink.matches)
      /\ sink'.stats = u.stats
  <2>1. CASE Squashed
    <3>1. sink' = [found EXCEPT !.matches = 0]
      BY <1>2, <2>1
    <3>2. sink' \in Sinks /\ sink'.matches = 0 /\ sink'.stats = found.stats
      BY <1>4, <3>1 DEF Sinks
    <3> QED BY <1>4, <2>1, <3>2
  <2>2. CASE ~Squashed
    BY <1>2, <1>3, <1>4, <2>2
  <2> QED BY <2>1, <2>2
<1>6. count = 0 /\ Block(current) = {} /\ sink.matches \in Nat
  <2>1. count = 0
    BY <1>1 DEF SummaryInv
  <2>2. /\ Block(current) = (total + 1) .. Len(out) /\ total + count = Len(out)
        /\ total \in Nat
    BY <1>1, LastBlock DEF WriterInv
  <2>3. Block(current) = {}
    BY <2>1, <2>2
  <2> QED BY <2>1, <2>3 DEF TypeInv, Sinks
<1>7. cfg.kind = "CountMatches" => (sink.matches > 0 <=> sink.stats.matches > 0)
  <2> SUFFICES ASSUME cfg.kind = "CountMatches"
               PROVE  sink.matches > 0 <=> sink.stats.matches > 0
    OBVIOUS
  <2>1. HasStats
    BY DEF HasStats, RequiresStats
  <2>2. /\ sink.stats.matches = (IF cfg.inverted THEN told.matched ELSE told.matches)
        /\ sink.matches = told.matched
    BY <1>1, <2>1 DEF TellInv
  <2>3. /\ told.matched > 0 /\ ~cfg.inverted => told.matches > 0
        /\ told.matches > 0 => told.matched > 0
    BY DEF TellInv
  <2> QED BY <2>2, <2>3
<1>8. PICK T : /\ Writes(T)
               /\ Squashed => T = <<>>
               /\ ~Squashed => T = SummaryLine(sink.matches)
  <2>1. CASE Squashed
    <3>1. UNCHANGED writerVars
      BY <1>2, <2>1
    <3>2. Writes(<<>>)
      BY <1>1, <3>1, NothingWrites
    <3> QED BY <2>1, <3>2
  <2>2. CASE ~Squashed
    <3> DEFINE S == SummaryLine(sink.matches)
    <3>1. count' = count + Len(S) /\ total' = total /\ out' = out \o S
      BY <1>2, <2>2 DEF Write
    <3>2. /\ S \in Seq(Tokens)
          /\ \A k \in 1 .. Len(S) : S[k].file = current /\ S[k].what \in {"path", "count"}
      BY <1>6, <1>7, SummaryLineIs
    <3> HIDE DEF S
    <3>3. Writes(S)
      BY <1>1, <3>1, <3>2 DEF Writes, Sorts
    <3> QED BY <2>2, <3>3 DEF S
  <2> QED BY <2>1, <2>2
<1>9. /\ out' \in Seq(Tokens) /\ count' \in Nat /\ WriterInv' /\ SortInv'
      /\ JSONMessages' /\ StatsExact' /\ ResultShown' /\ total' \in Nat
  BY <1>8, Writing DEF Writes, TypeInv
<1>10. TypeInv' /\ TellInv'
  BY <1>3, <1>5, <1>9, FinishTells
<1>11. Shown(current)' <=> Tells(T)
  <2>1. /\ Block(current)' = New(T) /\ Len(out) \in Nat /\ Len(T) \in Nat
        /\ \A i \in New(T) : i - Len(out) \in 1 .. Len(T) /\ out'[i] = T[i - Len(out)]
    BY <1>6, <1>8, WrittenBlock, Written, OutType
  <2>2. \A k \in 1 .. Len(T) : Len(out) + k \in New(T) /\ (Len(out) + k) - Len(out) = k
    BY <2>1 DEF New
  <2>3. \A k \in 1 .. Len(T) : T[k].what \in {"path", "count"}
    BY <1>8 DEF Writes, Sorts
  <2>4. \A k \in 1 .. Len(T) : Len(out) + k \in Block(current)' /\ out'[Len(out) + k] = T[k]
    BY <2>1, <2>2
  <2>5. RequiresPath' <=> RequiresPath
    BY <1>1 DEF RequiresPath
  <2>6. ASSUME Shown(current)' PROVE Tells(T)
    <3>1. PICK i \in New(T) :
             \/ out'[i].what \in {"match", "notice"}
             \/ out'[i].what = "count" /\ out'[i].n > 0
             \/ out'[i].what = "path" /\ RequiresPath
      BY <2>1, <2>5, <2>6 DEF Shown
    <3> QED BY <2>1, <2>3, <3>1 DEF Tells
  <2>7. ASSUME Tells(T) PROVE Shown(current)'
    <3>1. PICK k \in 1 .. Len(T) : \/ T[k].what = "count" /\ T[k].n > 0
                                   \/ T[k].what = "path" /\ RequiresPath
      BY <2>7 DEF Tells
    <3> QED BY <2>4, <2>5, <3>1 DEF Shown
  <2> QED BY <2>6, <2>7
<1>12. SummaryInv'
  <2> SUFFICES ASSUME ~Quiet, ~Filtered(seenBinary, detection)
               PROVE  HasMatch(sink)' <=> Tells(T)
    BY <1>1, <1>11, SameInput DEF SummaryInv
  <2>1. cfg.kind \in Kinds /\ cfg.kind \notin {"QuietWithMatch", "QuietWithoutMatch"}
    BY InputType DEF Config, Quiet
  <2>2. HasMatch(sink)' <=> (IF cfg.kind = "PathWithoutMatch" THEN sink'.matches = 0
                             ELSE sink'.matches > 0)
    BY <1>1, <2>1 DEF HasMatch
  <2>3. CASE Squashed
    <3>1. cfg.kind # "PathWithoutMatch"
      BY <2>3 DEF Filtered, Squashed
    <3> QED BY <1>5, <1>8, <2>2, <2>3, <3>1, EmptyTells
  <2>4. CASE ~Squashed
    <3>1. /\ cfg.kind = "PathWithoutMatch" => (Tells(T) <=> sink.matches = 0)
          /\ cfg.kind \in {"Count", "CountMatches", "PathWithMatch"}
                => (Tells(T) <=> sink.matches > 0)
      BY <1>6, <1>7, <1>8, <2>4, SummaryLineIs
    <3>2. sink'.matches = sink.matches
      BY <1>5, <2>4
    <3> QED BY <2>1, <2>2, <3>1, <3>2 DEF Kinds
  <2> QED BY <2>3, <2>4
<1> QED BY <1>1, <1>9, <1>10, <1>12 DEF StandardInv, JSONInv
-----------------------------------------------------------------------------
(* The theorems.                                                           *)

LEMMA FinishInv ==
    ASSUME Inv, Finish
    PROVE  Inv'
<1>1. CASE FinishStandard
  BY <1>1, FinishStandardInv DEF FinishStandard
<1>2. CASE FinishSummary
  BY <1>2, FinishSummaryInv DEF FinishSummary
<1>3. CASE FinishJSON
  BY <1>3, FinishJSONInv DEF FinishJSON
<1> QED BY <1>1, <1>2, <1>3 DEF Finish

LEMMA StutterInv ==
    ASSUME Inv, UNCHANGED vars
    PROVE  Inv'
<1> USE DEF Inv
<1>1. /\ UNCHANGED <<cfg, files, current, phase, detection, refused, seenBinary, owed, told,
                     sink, out, count, total, results>>
  BY DEF vars, input, searcherVars, writerVars
<1>2. TypeInv' /\ WriterInv' /\ SortInv'
  BY <1>1 DEF TypeInv, WriterInv, SortInv, Sorts, Searching
<1>3. TellInv'
  BY <1>1, SameInput DEF TellInv, Searching, Detection, File, Squashed
<1>4. StandardInv' /\ SummaryInv' /\ JSONInv'
  BY <1>1, SameOut, SameInput DEF StandardInv, SummaryInv, JSONInv, Searching
<1>5. JSONMessages' /\ StatsExact' /\ ResultShown'
  BY <1>1, PastSame
<1> QED BY <1>2, <1>3, <1>4, <1>5

\* The invariant is inductive.
LEMMA InvCorrect == Spec => []Inv
<1>1. ASSUME Inv, [Next]_vars
      PROVE  Inv'
  <2>1. CASE Search
    BY <1>1, <2>1, SearchInv
  <2>2. CASE OpenFails
    BY <1>1, <2>2, OpenFailsInv
  <2>3. CASE Begin
    BY <1>1, <2>3, BeginInv
  <2>4. ASSUME NEW m \in 0 .. 2, Matched(m)
        PROVE  Inv'
    BY <1>1, <2>4, MatchedInv
  <2>5. ASSUME NEW m \in 0 .. 2, Context(m)
        PROVE  Inv'
    BY <1>1, <2>5, ContextInv
  <2>6. CASE ContextBreak
    BY <1>1, <2>6, ContextBreakInv
  <2>7. CASE BinaryData
    BY <1>1, <2>7, BinaryDataInv
  <2>8. CASE SearchFails
    BY <1>1, <2>8, SearchFailsInv
  <2>9. CASE Finish
    BY <1>1, <2>9, FinishInv
  <2>10. CASE Return
    BY <1>1, <2>10, ReturnInv
  <2>11. CASE Done \/ UNCHANGED vars
    BY <1>1, <2>11, StutterInv DEF Done
  <2> QED BY <1>1, <2>1, <2>2, <2>3, <2>4, <2>5, <2>6, <2>7, <2>8, <2>9, <2>10, <2>11
          DEF Next
<1> QED BY <1>1, InitInv, PTL DEF Spec

(* What the standard printer writes is readable: lines of a file stand       *)
(* together and in order, under one heading, set apart by one separator, and *)
(* the writer's two counters are all that was ever written                   *)
(* (write_search_prelude, CounterWriter).                                    *)
THEOREM StandardLayoutCorrect == Spec => []StandardLayout
<1>1. Inv => StandardLayout
  BY DEF Inv, WriterInv, StandardInv, StandardLayout
<1> QED BY <1>1, InvCorrect, PTL

(* The JSON messages about a file are bracketed by one begin message and,    *)
(* unless the search failed, one end message (JSONSink).                     *)
THEOREM JSONMessagesCorrect == Spec => []JSONMessages
<1>1. Inv => JSONMessages
  BY DEF Inv
<1> QED BY <1>1, InvCorrect, PTL

(* The statistics returned for a file are what the searcher reported of it   *)
(* (Stats).                                                                  *)
THEOREM StatsExactCorrect == Spec => []StatsExact
<1>1. Inv => StatsExact
  BY DEF Inv
<1> QED BY <1>1, InvCorrect, PTL

(* The answer about a file agrees with what was written about it, and a file *)
(* that the user named is never dropped for its binary data (has_match).     *)
THEOREM ResultShownCorrect == Spec => []ResultShown
<1>1. Inv => ResultShown
  BY DEF Inv
<1> QED BY <1>1, InvCorrect, PTL
=============================================================================
