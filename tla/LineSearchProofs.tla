-------------------------- MODULE LineSearchProofs --------------------------
(***************************************************************************)
(* What the sink of a search can rely on, for every input, every           *)
(* configuration and each of the three strategies: positions and line      *)
(* numbers are right, binary data is told of once and in time, a refusal   *)
(* is obeyed, and the number of bytes searched covers what was shown       *)
(* (crates/searcher/src/searcher/core.rs, glue.rs).                        *)
(*                                                                         *)
(* The invariant is about the calls that Core is about to make: where      *)
(* their lines lie in the buffer, how many may be after context, and where *)
(* the search goes after them.                                             *)
(***************************************************************************)
EXTENDS MultiLine, FiniteSetTheorems, SequenceTheorems, WellFoundedInduction, TLAPS

Stages == {"begin", "fill", "match", "more", "slow", "fast", "fastEnd", "fastDone",
           "sink", "multi", "trail", "stop", "finish", "done"}
Entry == Kinds \X Nat \X Nat
Events == [kind : Kinds \cup {"break", "binary"}, line : Nat, last : Nat,
           number : Nat, offset : Nat]
After == {"after", "again"}

\* What the caller chose, and the matches of a text that is searched as a whole.
InputInv ==
    /\ input \in Seq(Line) /\ config \in Config
    /\ config.multi =>
         /\ config.slice /\ ~config.stop_on_nonmatch
         /\ TextEnd \in Nat
         /\ \A h \in DOMAIN hits : h \in Nat /\ hits[h] \in Nat /\ h <= hits[h]
                                   /\ hits[h] <= TextEnd

TypeInv ==
    /\ base \in Nat /\ len \in Nat /\ base + len <= Len(input)
    /\ config.slice => base = 0 /\ len = Len(input)
    /\ pos \in Nat /\ absolute_byte_offset \in Nat
    /\ line_number \in Nat /\ last_line_counted \in Nat /\ last_line_visited \in Nat
    /\ after_context_left \in 0 .. config.after
    /\ has_sunk \in BOOLEAN /\ has_matched \in BOOLEAN /\ count \in Nat
    /\ binary_byte_offset \in -1 .. Len(input)
    /\ pc \in Stages /\ plan \in Seq(Entry)
    /\ events \in Seq(Events) /\ refused \in BOOLEAN
    /\ byte_count \in -1 .. StartOf(Len(input))
    /\ last_match \in [start : Int, end : Int]
    /\ last_match # NoMatch => last_match.start \in 0 .. Len(input) /\ last_match.end \in 0 .. Len(input)

\* Each strategy has stages of its own.
ByLine == {"slow", "fast", "fastEnd", "fastDone", "more", "match", "fill", "stop", "finish"}
Whole == {"multi", "trail", "finish"}
Goals == IF config.multi THEN Whole ELSE ByLine
StopGoals == IF config.multi THEN {"trail", "finish"} ELSE {"stop", "fastEnd"}
StageInv ==
    /\ pc \in Goals \cup {"begin", "sink", "done"}
    /\ pc = "sink" => /\ next \in Goals \ {"more", "match", "fill"}
                      /\ onstop \in StopGoals
    /\ pc = "begin" /\ ~config.slice => pos = len
    /\ pc = "fill" => ~config.slice
    /\ pc \in {"fill", "more"} /\ ~config.slice => pos = len

\* The positions lie in the buffer, and the counters count from its beginning.
PosInv ==
    /\ config.slice => pos <= StartOf(len)
    /\ pc \notin {"finish", "done"} =>
         /\ last_line_counted <= len /\ last_line_visited <= len
         /\ pos <= StartOf(len)
         /\ absolute_byte_offset = base
         /\ line_number = base + last_line_counted + 1

\* The planned calls are about lines of the buffer; those of the context after
\* a match come first, and are no more than are left.
Sinkable(q) ==
    \A i \in 1 .. Len(q) :
        /\ q[i][2] < q[i][3] /\ q[i][3] <= len
        /\ q[i][1] \in After =>
             i <= after_context_left /\ \A j \in 1 .. i : q[j][1] \in After
PlanInv == pc = "sink" => plan # <<>> /\ Sinkable(plan)

Shape == InputInv /\ TypeInv /\ StageInv /\ PosInv /\ PlanInv
-----------------------------------------------------------------------------
(* Facts about the operators.                                              *)

\* A set of numbers has a least one.
LEMMA LeastIn ==
    ASSUME NEW S \in SUBSET Nat, S # {}
    PROVE  \E x \in S : \A y \in S : x <= y
<1>1. IsWellFoundedOn(OpToRel(<, Nat), Nat)
  BY NatLessThanWellFounded
<1>2. PICK x \in S : \A y \in S : ~(<<y, x>> \in OpToRel(<, Nat))
  BY <1>1, WFMin
<1>3. \A y \in Nat, z \in Nat : y < z => <<y, z>> \in OpToRel(<, Nat)
  BY DEF OpToRel
<1>4. ASSUME NEW y \in S PROVE x <= y
  <2>1. ~(y < x)
    BY <1>2, <1>3
  <2> QED BY <2>1
<1> QED BY <1>4

\* Two sequences, one behind the other.
LEMMA Joined ==
    ASSUME NEW S, NEW s \in Seq(S), NEW t \in Seq(S)
    PROVE  /\ s \o t \in Seq(S) /\ Len(s \o t) = Len(s) + Len(t)
           /\ \A i \in 1 .. Len(s) : (s \o t)[i] = s[i]
           /\ \A i \in (Len(s) + 1) .. (Len(s) + Len(t)) : (s \o t)[i] = t[i - Len(s)]
           /\ \A i \in 1 .. Len(t) : (s \o t)[Len(s) + i] = t[i]
  OBVIOUS

\* A sequence that is given as a function.
LEMMA Listed ==
    ASSUME NEW S, NEW n \in Nat, NEW f \in [1 .. n -> S]
    PROVE  f \in Seq(S) /\ Len(f) = n
<1>1. f \in Seq(S)
  BY SeqDef
<1> QED BY <1>1, LenProperties

\* Where a line starts.
LEMMA StartIs ==
    ASSUME InputInv, NEW p \in Nat
    PROVE  /\ StartOf(p) \in Nat
           /\ ~config.multi => StartOf(p) = p
           /\ config.multi => StartOf(p) = (IF 2 * p > TextEnd THEN TextEnd ELSE 2 * p)
           /\ \A q \in Nat : p <= q => StartOf(p) <= StartOf(q)
           /\ config.multi /\ p = Len(input) => StartOf(p) = TextEnd
<1>1. config.multi \in BOOLEAN /\ config.terminated \in BOOLEAN /\ Len(input) \in Nat
  BY DEF InputInv, Config
<1>2. CASE config.multi
  <2>1. TextEnd \in Nat
    BY <1>2 DEF InputInv
  <2>2. \A q \in Nat : StartOf(q) = IF 2 * q > TextEnd THEN TextEnd ELSE 2 * q
    BY <1>2, <2>1 DEF StartOf, Lesser
  <2>3. TextEnd <= 2 * Len(input)
    BY <1>1 DEF TextEnd
  <2> QED BY <1>1, <1>2, <2>1, <2>2, <2>3
<1>3. CASE ~config.multi
  BY <1>1, <1>3 DEF StartOf
<1> QED BY <1>2, <1>3

\* Lines as calls of one kind.
LEMMA SpanIs ==
    ASSUME NEW kind \in Kinds, NEW p \in Nat, NEW q \in Nat
    PROVE  /\ Span(kind, p, q) \in Seq(Entry)
           /\ Len(Span(kind, p, q)) = Greater(q - p, 0)
           /\ \A i \in 1 .. Len(Span(kind, p, q)) :
                /\ Span(kind, p, q)[i] = <<kind, p + i - 1, p + i>>
                /\ p + i <= q
<1> DEFINE n == Greater(q - p, 0)
<1>1. n \in Nat /\ \A i \in 1 .. n : p + i <= q
  BY DEF Greater
<1>2. Span(kind, p, q) = [i \in 1 .. n |-> <<kind, p + i - 1, p + i>>]
  BY DEF Span
<1>3. Span(kind, p, q) \in [1 .. n -> Entry]
  BY <1>1, <1>2 DEF Entry
<1>4. Span(kind, p, q) \in Seq(Entry) /\ Len(Span(kind, p, q)) = n
  BY <1>1, <1>3, Listed
<1> QED BY <1>1, <1>2, <1>4

LEMMA AfterIs ==
    ASSUME InputInv, TypeInv, NEW upto \in Nat, NEW n
    PROVE  /\ AfterContext(upto, n) \in Seq(Entry)
           /\ Len(AfterContext(upto, n)) <= after_context_left
           /\ last_line_visited + Len(AfterContext(upto, n))
                = Greater(last_line_visited, AfterEnd(upto))
           /\ after_context_left = 0 => AfterContext(upto, n) = <<>>
           /\ \A i \in 1 .. Len(AfterContext(upto, n)) :
                /\ AfterContext(upto, n)[i][1] \in After
                /\ AfterContext(upto, n)[i][1] = "again" => Exceeded(n)
                /\ AfterContext(upto, n)[i][2] = last_line_visited + i - 1
                /\ AfterContext(upto, n)[i][3] = last_line_visited + i
                /\ last_line_visited + i <= upto
<1> DEFINE k == Greater(AfterEnd(upto) - last_line_visited, 0)
<1> DEFINE s == AfterContext(upto, n)
<1>0. after_context_left \in Nat /\ last_line_visited \in Nat
  BY DEF InputInv, TypeInv, Config
<1>1. /\ AfterEnd(upto) \in Nat /\ k \in Nat
      /\ k <= after_context_left
      /\ last_line_visited + k = Greater(last_line_visited, AfterEnd(upto))
      /\ \A i \in 1 .. k : last_line_visited + i <= upto
  BY <1>0 DEF AfterEnd, Greater, Lesser
<1> DEFINE f(i) == IF Exceeded(n) /\ Matching(last_line_visited + i - 1) # config.invert
                   THEN "again" ELSE "after"
<1>2. s = [i \in 1 .. k |-> <<f(i), last_line_visited + i - 1, last_line_visited + i - 1 + 1>>]
  BY DEF AfterContext
<1>3. \A i \in 1 .. k : f(i) \in After /\ (f(i) = "again" => Exceeded(n))
  BY DEF After
<1> HIDE DEF f, k
<1>4. \A i \in 1 .. k : s[i] = <<f(i), last_line_visited + i - 1, last_line_visited + i>>
  BY <1>0, <1>1, <1>2
<1>5. s \in [1 .. k -> Entry]
  BY <1>0, <1>1, <1>2, <1>3 DEF Entry, After, Kinds
<1>6. s \in Seq(Entry) /\ Len(s) = k
  BY <1>1, <1>5, Listed
<1>7. after_context_left = 0 => s = <<>>
  BY <1>0, <1>1, <1>6
<1> QED BY <1>0, <1>1, <1>3, <1>4, <1>6, <1>7

LEMMA BeforeIs ==
    ASSUME InputInv, NEW upto \in Nat, NEW v \in Nat
    PROVE  /\ BeforeContext(upto, v) \in Seq(Entry)
           /\ \A i \in 1 .. Len(BeforeContext(upto, v)) :
                /\ BeforeContext(upto, v)[i][1] = "before"
                /\ BeforeContext(upto, v)[i][2] = BeforeContext(upto, v)[1][2] + i - 1
                /\ BeforeContext(upto, v)[i][3] = BeforeContext(upto, v)[i][2] + 1
                /\ v <= BeforeContext(upto, v)[i][2] /\ BeforeContext(upto, v)[i][3] <= upto
<1>1. config.before \in Nat
  BY DEF InputInv, Config
<1>2. CASE config.before = 0
  BY <1>2 DEF BeforeContext
<1>3. CASE config.before # 0
  <2>1. BeforeFrom(upto, v) \in Nat /\ v <= BeforeFrom(upto, v)
    BY <1>1 DEF BeforeFrom, Greater
  <2>2. BeforeContext(upto, v) = Span("before", BeforeFrom(upto, v), upto)
    BY <1>3 DEF BeforeContext
  <2> DEFINE b == BeforeFrom(upto, v)
  <2> HIDE DEF b
  <2>3. "before" \in Kinds
    BY DEF Kinds
  <2>4. /\ Span("before", b, upto) \in Seq(Entry)
        /\ \A i \in 1 .. Len(Span("before", b, upto)) :
             Span("before", b, upto)[i] = <<"before", b + i - 1, b + i>> /\ b + i <= upto
    BY <2>1, <2>3, SpanIs DEF b
  <2>5. BeforeContext(upto, v) = Span("before", b, upto)
    BY <2>2 DEF b
  <2>6. b \in Nat /\ v <= b
    BY <2>1 DEF b
  <2> DEFINE s == Span("before", b, upto)
  <2>7. s \in Seq(Entry) /\ Len(s) \in Nat
    BY <2>4
  <2>8. \A i \in 1 .. Len(s) : s[i] = <<"before", b + i - 1, b + i>> /\ b + i <= upto
    BY <2>4
  <2>9. BeforeContext(upto, v) = s
    BY <2>5
  <2> HIDE DEF s
  <2>10. ASSUME NEW i \in 1 .. Len(s)
         PROVE  /\ s[i][1] = "before" /\ s[i][2] = s[1][2] + i - 1
                /\ s[i][3] = s[i][2] + 1 /\ v <= s[i][2] /\ s[i][3] <= upto
    <3>1. 1 \in 1 .. Len(s) /\ i \in Nat /\ 1 <= i
      BY <2>7
    <3>2. s[1][2] = b /\ s[i][1] = "before" /\ s[i][2] = b + i - 1 /\ s[i][3] = b + i
      BY <2>6, <2>8, <3>1
    <3> QED BY <2>6, <2>8, <3>1, <3>2
  <2> QED BY <2>7, <2>9, <2>10
<1> QED BY <1>2, <1>3
-----------------------------------------------------------------------------
(* The steps between calls: Core finds out what to call next.              *)

Thinks == UNCHANGED <<input, config, bufVars, absolute_byte_offset, lineVars, ctxVars,
                      binary_byte_offset, sinkVars, hits>>

\* The primed operators, when nothing they depend on has changed.
LEMMA ThinkSame ==
    ASSUME Thinks
    PROVE  /\ InputInv => InputInv'
           /\ Goals' = Goals /\ StopGoals' = StopGoals
           /\ \A p : StartOf(p)' = StartOf(p)
           /\ \A q : Sinkable(q)' = Sinkable(q)
<1>1. /\ input' = input /\ config' = config /\ hits' = hits
      /\ len' = len /\ after_context_left' = after_context_left
  BY DEF Thinks, bufVars, ctxVars
<1>2. TextEnd' = TextEnd
  BY <1>1 DEF TextEnd
<1>3. \A p : StartOf(p)' = StartOf(p)
  BY <1>1, <1>2 DEF StartOf
<1>4. \A q : Sinkable(q)' = Sinkable(q)
  BY <1>1 DEF Sinkable
<1>5. InputInv => InputInv'
  BY <1>1, <1>2 DEF InputInv
<1> QED BY <1>1, <1>3, <1>4, <1>5 DEF Goals, StopGoals

\* A step that plans the calls q and is to go on at n afterwards.
LEMMA ThinkShape ==
    ASSUME Shape, Thinks, pc \notin {"finish", "done"},
           pos' \in Nat, pos' <= StartOf(len), count' \in Nat, has_matched' \in BOOLEAN,
           last_match' \in [start : Int, end : Int],
           last_match' # NoMatch => /\ last_match'.start \in 0 .. Len(input)
                                    /\ last_match'.end \in 0 .. Len(input),
           NEW q \in Seq(Entry), NEW n, NEW s, Planned(q, n, s), Sinkable(q), n \in Goals,
           q # <<>> => n \notin {"more", "match", "fill"} /\ s \in StopGoals,
           n = "fill" => ~config.slice,
           n \in {"fill", "more"} /\ ~config.slice => pos' = len
    PROVE  Shape'
<1>1. /\ InputInv' /\ Goals' = Goals /\ StopGoals' = StopGoals
      /\ StartOf(len)' = StartOf(len) /\ StartOf(Len(input))' = StartOf(Len(input))
      /\ Sinkable(q)' = Sinkable(q) /\ Sinkable(plan)' = (Sinkable(plan'))
  <2>1. /\ input' = input /\ len' = len /\ after_context_left' = after_context_left
    BY DEF Thinks, bufVars, ctxVars
  <2>2. Sinkable(plan)' = (Sinkable(plan'))
    BY <2>1 DEF Sinkable
  <2>3. StartOf(len)' = StartOf(len) /\ StartOf(Len(input))' = StartOf(Len(input))
    <3>1. TextEnd' = TextEnd /\ config' = config
      BY <2>1 DEF TextEnd, Thinks
    <3> QED BY <2>1, <3>1 DEF StartOf
  <2> QED BY <2>2, <2>3, ThinkSame DEF Shape
<1>2. IF q = <<>> THEN pc' = n /\ plan' = plan /\ next' = next /\ onstop' = onstop
      ELSE pc' = "sink" /\ plan' = q /\ next' = n /\ onstop' = s
  BY DEF Planned, planVars
<1>3. Goals \subseteq Stages \ {"begin", "sink", "done"}
  BY DEF Goals, Whole, ByLine, Stages
<1>4. TypeInv'
  <2>1. /\ pc' \in Stages /\ plan' \in Seq(Entry)
    BY <1>2, <1>3 DEF Shape, TypeInv, Stages
  <2>2. /\ UNCHANGED <<input, config, base, len, absolute_byte_offset, line_number,
                       last_line_counted, last_line_visited, after_context_left, has_sunk,
                       binary_byte_offset, events, refused, byte_count>>
    BY DEF Thinks, bufVars, ctxVars, lineVars, sinkVars
  <2> QED BY <1>1, <2>1, <2>2 DEF Shape, TypeInv, NoMatch
<1>5. StageInv'
  <2>1. config' = config /\ len' = len
    BY DEF Thinks, bufVars
  <2>2. n \notin {"begin", "sink", "done"}
    BY <1>3
  <2> QED BY <1>1, <1>2, <2>1, <2>2 DEF StageInv
<1>6. PosInv'
  <2>1. UNCHANGED <<config, base, len, absolute_byte_offset, line_number, last_line_counted,
                    last_line_visited>>
    BY DEF Thinks, bufVars, ctxVars, lineVars
  <2> QED BY <1>1, <2>1 DEF Shape, PosInv
<1>7. PlanInv'
  <2>1. n # "sink"
    BY <1>3
  <2> QED BY <1>1, <1>2, <2>1 DEF PlanInv
<1> QED BY <1>1, <1>4, <1>5, <1>6, <1>7 DEF Shape

\* A step that goes on at n without a call.
LEMMA GoShape ==
    ASSUME Shape, Thinks, UNCHANGED planVars, UNCHANGED <<count, has_matched, last_match>>,
           pos' \in Nat, pos' <= StartOf(len),
           pc \notin {"finish", "done"}, pc' \in Goals,
           pc' = "fill" => ~config.slice,
           pc' \in {"fill", "more"} /\ ~config.slice => pos' = len
    PROVE  Shape'
<1>1. Planned(<<>>, pc', pc')
  BY DEF Planned
<1>2. Sinkable(<<>>) /\ <<>> \in Seq(Entry)
  BY DEF Sinkable
<1>3. /\ count' \in Nat /\ has_matched' \in BOOLEAN
      /\ last_match' \in [start : Int, end : Int]
      /\ last_match' # NoMatch => /\ last_match'.start \in 0 .. Len(input)
                                  /\ last_match'.end \in 0 .. Len(input)
  BY DEF Shape, TypeInv
<1> DEFINE n == pc'
<1>4. n = pc'
  OBVIOUS
<1> HIDE DEF n
<1> QED BY <1>1, <1>2, <1>3, <1>4, ThinkShape

\* The calls of the context after a match, and then others that are not of it.
LEMMA AfterFirst ==
    ASSUME InputInv, TypeInv, NEW upto \in 0 .. len, NEW n, NEW t \in Seq(Entry),
           \A i \in 1 .. Len(t) : /\ t[i][1] \notin After
                                  /\ t[i][2] < t[i][3] /\ t[i][3] <= len
    PROVE  /\ AfterContext(upto, n) \o t \in Seq(Entry)
           /\ Sinkable(AfterContext(upto, n) \o t)
<1> DEFINE s == AfterContext(upto, n)
<1>0. upto \in Nat /\ upto <= len /\ last_line_visited \in Nat /\ after_context_left \in Nat
      /\ len \in Nat
  BY DEF TypeInv, InputInv, Config
<1>1. /\ s \in Seq(Entry) /\ Len(s) <= after_context_left
      /\ \A i \in 1 .. Len(s) :
           /\ s[i][1] \in After /\ s[i][2] < s[i][3] /\ s[i][3] <= len
  <2>1. /\ s \in Seq(Entry) /\ Len(s) <= after_context_left
        /\ \A i \in 1 .. Len(s) :
             /\ s[i][1] \in After
             /\ s[i][2] = last_line_visited + i - 1
             /\ s[i][3] = last_line_visited + i
             /\ last_line_visited + i <= upto
    BY <1>0, AfterIs
  <2>2. Len(s) \in Nat
    BY <2>1
  <2> QED BY <1>0, <2>1, <2>2
<1> HIDE DEF s
<1> DEFINE r == s \o t
<1>2. /\ r \in Seq(Entry) /\ Len(r) = Len(s) + Len(t)
      /\ \A i \in 1 .. Len(s) : r[i] = s[i]
      /\ \A i \in (Len(s) + 1) .. (Len(s) + Len(t)) : r[i] = t[i - Len(s)]
  BY <1>1, Joined
<1> HIDE DEF r
<1>3. Len(s) \in Nat /\ Len(t) \in Nat /\ Len(r) \in Nat
  BY <1>1, <1>2
<1>4. ASSUME NEW i \in 1 .. Len(r)
      PROVE  /\ r[i][2] < r[i][3] /\ r[i][3] <= len
             /\ r[i][1] \in After => i <= after_context_left /\ \A j \in 1 .. i : r[j][1] \in After
  <2>1. CASE i <= Len(s)
    <3>1. i \in 1 .. Len(s) /\ i <= after_context_left
      BY <1>0, <1>1, <1>3, <2>1
    <3>2. \A j \in 1 .. i : j \in 1 .. Len(s)
      BY <1>3, <2>1
    <3> QED BY <1>1, <1>2, <3>1, <3>2
  <2>2. CASE i > Len(s)
    <3>1. i \in (Len(s) + 1) .. (Len(s) + Len(t)) /\ i - Len(s) \in 1 .. Len(t)
      BY <1>2, <1>3, <2>2
    <3> QED BY <1>2, <3>1
  <2> QED BY <1>3, <2>1, <2>2
<1>5. Sinkable(r)
  BY <1>4 DEF Sinkable
<1> QED BY <1>2, <1>5 DEF r, s

\* Calls about lines of the buffer that are no context after a match.
Plain(t) ==
    \A i \in 1 .. Len(t) : t[i][1] \notin After /\ t[i][2] < t[i][3] /\ t[i][3] <= len

LEMMA PlainJoined ==
    ASSUME NEW s \in Seq(Entry), NEW t \in Seq(Entry), Plain(s), Plain(t)
    PROVE  s \o t \in Seq(Entry) /\ Plain(s \o t)
<1>1. Len(s) \in Nat /\ Len(t) \in Nat
  OBVIOUS
<1> DEFINE r == s \o t
<1>2. /\ r \in Seq(Entry) /\ Len(r) = Len(s) + Len(t)
      /\ \A i \in 1 .. Len(s) : r[i] = s[i]
      /\ \A i \in (Len(s) + 1) .. (Len(s) + Len(t)) : r[i] = t[i - Len(s)]
  BY Joined
<1> HIDE DEF r
<1>3. ASSUME NEW i \in 1 .. Len(r)
      PROVE  r[i][1] \notin After /\ r[i][2] < r[i][3] /\ r[i][3] <= len
  <2>1. CASE i <= Len(s)
    <3>1. i \in 1 .. Len(s)
      BY <1>1, <1>2, <2>1
    <3> QED BY <1>2, <3>1 DEF Plain
  <2>2. CASE i > Len(s)
    <3>1. i \in (Len(s) + 1) .. (Len(s) + Len(t)) /\ i - Len(s) \in 1 .. Len(t)
      BY <1>1, <1>2, <2>2
    <3> QED BY <1>2, <3>1 DEF Plain
  <2> QED BY <1>1, <1>2, <2>1, <2>2
<1>4. Plain(r)
  BY <1>3 DEF Plain
<1> QED BY <1>2, <1>4 DEF r

LEMMA PlainSinkable ==
    ASSUME NEW t, Plain(t)
    PROVE  Sinkable(t)
  BY DEF Plain, Sinkable

LEMMA PlainOne ==
    ASSUME NEW kind \in Kinds \ After, NEW p \in Nat, NEW q \in Nat, p < q, q <= len
    PROVE  <<<<kind, p, q>>>> \in Seq(Entry) /\ Plain(<<<<kind, p, q>>>>)
<1>1. <<kind, p, q>> \in Entry
  BY DEF Entry
<1> QED BY <1>1 DEF Plain

LEMMA PlainSpan ==
    ASSUME NEW kind \in Kinds \ After, NEW p \in Nat, NEW q \in Nat, q <= len, len \in Nat
    PROVE  Span(kind, p, q) \in Seq(Entry) /\ Plain(Span(kind, p, q))
<1> DEFINE s == Span(kind, p, q)
<1>1. /\ s \in Seq(Entry)
      /\ \A i \in 1 .. Len(s) : s[i] = <<kind, p + i - 1, p + i>> /\ p + i <= q
  BY SpanIs
<1> HIDE DEF s
<1>2. Len(s) \in Nat
  BY <1>1
<1>3. ASSUME NEW i \in 1 .. Len(s)
      PROVE  s[i][1] \notin After /\ s[i][2] < s[i][3] /\ s[i][3] <= len
  <2>1. s[i][1] = kind /\ s[i][2] = p + i - 1 /\ s[i][3] = p + i /\ p + i <= q
    BY <1>1
  <2> QED BY <1>2, <2>1
<1>4. Plain(s)
  BY <1>3 DEF Plain
<1> QED BY <1>1, <1>4 DEF s

LEMMA PlainBefore ==
    ASSUME InputInv, NEW upto \in Nat, NEW v \in Nat, upto <= len, len \in Nat
    PROVE  BeforeContext(upto, v) \in Seq(Entry) /\ Plain(BeforeContext(upto, v))
<1> DEFINE s == BeforeContext(upto, v)
<1>1. /\ s \in Seq(Entry)
      /\ \A i \in 1 .. Len(s) :
           /\ s[i][1] = "before"
           /\ s[i][3] = s[i][2] + 1
           /\ s[i][3] <= upto
  BY BeforeIs
<1> HIDE DEF s
<1>2. ASSUME NEW i \in 1 .. Len(s)
      PROVE  s[i][1] \notin After /\ s[i][2] < s[i][3] /\ s[i][3] <= len
  <2>1. s[i] \in Entry
    BY <1>1
  <2>2. s[i][2] \in Nat /\ s[i][3] \in Nat
    BY <2>1 DEF Entry
  <2> QED BY <1>1, <2>2 DEF After
<1>3. Plain(s)
  BY <1>2 DEF Plain
<1> QED BY <1>1, <1>3 DEF s

\* The context after a match, the context before the next, and the next.
LEMMA AroundShape ==
    ASSUME InputInv, TypeInv, NEW p \in Nat, p <= len, NEW n, NEW t \in Seq(Entry), Plain(t)
    PROVE  LET v == Greater(last_line_visited, AfterEnd(p))
               q == AfterContext(p, n) \o BeforeContext(p, v) \o t
           IN  q \in Seq(Entry) /\ Sinkable(q) /\ (t # <<>> => q # <<>>)
<1> DEFINE v == Greater(last_line_visited, AfterEnd(p))
<1>1. len \in Nat /\ last_line_visited \in Nat /\ after_context_left \in Nat /\ v \in Nat
  BY DEF TypeInv, InputInv, Config, Greater, AfterEnd, Lesser
<1> HIDE DEF v
<1> DEFINE s == AfterContext(p, n)
           b == BeforeContext(p, v)
<1>2. b \in Seq(Entry) /\ Plain(b)
  BY <1>1, PlainBefore
<1>3. b \o t \in Seq(Entry) /\ Plain(b \o t)
  BY <1>2, PlainJoined
<1>4. s \in Seq(Entry)
  BY AfterIs
<1>5. s \o (b \o t) \in Seq(Entry) /\ Sinkable(s \o (b \o t))
  <2> DEFINE r == b \o t
  <2>1. p \in 0 .. len
    BY <1>1
  <2>2. /\ r \in Seq(Entry)
        /\ \A i \in 1 .. Len(r) : r[i][1] \notin After /\ r[i][2] < r[i][3] /\ r[i][3] <= len
    BY <1>3 DEF Plain
  <2> HIDE DEF r
  <2>3. s \o r \in Seq(Entry) /\ Sinkable(s \o r)
    BY <2>1, <2>2, AfterFirst
  <2> QED BY <2>3 DEF r
<1>6. s \o (b \o t) = (s \o b) \o t
  BY <1>2, <1>4, ConcatAssociative
<1>7. t # <<>> => Len((s \o b) \o t) # 0
  BY <1>2, <1>4
<1> QED BY <1>5, <1>6, <1>7 DEF v

LEMMA AfterShape ==
    ASSUME InputInv, TypeInv, NEW upto \in Nat, upto <= len, NEW n
    PROVE  AfterContext(upto, n) \in Seq(Entry) /\ Sinkable(AfterContext(upto, n))
<1>1. AfterContext(upto, n) \o <<>> = AfterContext(upto, n)
  BY AfterIs, ConcatEmptySeq
<1>2. <<>> \in Seq(Entry) /\ upto \in 0 .. len
  BY DEF TypeInv
<1>3. \A i \in 1 .. Len(<<>>) : FALSE
  OBVIOUS
<1>4. /\ AfterContext(upto, n) \o <<>> \in Seq(Entry)
      /\ Sinkable(AfterContext(upto, n) \o <<>>)
  BY <1>2, <1>3, AfterFirst
<1> QED BY <1>1, <1>4

\* The numbers the steps reckon with.
LEMMA Numbers ==
    ASSUME Shape
    PROVE  /\ pos \in Nat /\ len \in Nat /\ base \in Nat /\ count \in Nat
           /\ last_line_visited \in Nat /\ after_context_left \in Nat
           /\ config.multi \in BOOLEAN /\ config.slice \in BOOLEAN
           /\ ~config.multi => StartOf(len) = len
           /\ config.before \in Nat /\ config.after \in Nat /\ config.limit \in Nat
           /\ has_matched \in BOOLEAN
           /\ \A n \in Nat : AfterEnd(n) \in Nat
  BY StartIs DEF Shape, InputInv, TypeInv, Config, AfterEnd, Lesser

LEMMA ByLineStage ==
    ASSUME Shape, pc \in {"match", "more", "slow", "fast", "fastEnd", "fastDone"}
    PROVE  ~config.multi /\ pos <= len
<1>1. ~config.multi
  BY DEF Shape, StageInv, Goals, Whole, ByLine
<1> QED BY <1>1, StartIs, Numbers DEF Shape, PosInv

LEMMA SlowShape ==
    ASSUME Shape, Slow, UNCHANGED multiVars
    PROVE  Shape'
<1>1. Thinks
  BY DEF Slow, SlowStops, SlowEnds, SlowLine, Thinks, multiVars
<1>2. pc = "slow" /\ ~config.multi /\ pos <= len
  BY ByLineStage DEF Slow, SlowStops, SlowEnds, SlowLine
<1>3. Goals = ByLine /\ StopGoals = {"stop", "fastEnd"}
  BY <1>2 DEF Goals, StopGoals
<1>4. /\ last_match' \in [start : Int, end : Int]
      /\ last_match' # NoMatch => /\ last_match'.start \in 0 .. Len(input)
                                  /\ last_match'.end \in 0 .. Len(input)
  BY DEF Shape, TypeInv, multiVars
<1>5. CASE SlowStops \/ SlowEnds
  <2>1. pc' \in Goals /\ pc' # "fill" /\ (pc' = "more" => pos' = len)
    BY <1>3, <1>5 DEF SlowStops, SlowEnds, ByLine
  <2>2. UNCHANGED planVars /\ UNCHANGED <<pos, count, has_matched, last_match>>
    BY <1>5 DEF SlowStops, SlowEnds, multiVars
  <2> QED BY <1>1, <1>2, <2>1, <2>2, GoShape, Numbers
<1>6. CASE SlowLine
  <2> DEFINE q == IF SlowSuccess THEN SlowPlanMatch ELSE SlowPlanMiss
             n == IF config.stop_on_nonmatch /\ ~SlowSuccess /\ has_matched
                  THEN "stop" ELSE "slow"
  <2>0. pos \in Nat /\ len \in Nat /\ count \in Nat /\ last_line_visited \in Nat
        /\ StartOf(len) = len /\ after_context_left \in Nat
    BY <1>2, Numbers
  <2>1. /\ pos < len /\ pos' = pos + 1 /\ has_matched' \in BOOLEAN /\ count' \in Nat
        /\ Planned(q, n, "stop")
    BY <1>6, <2>0 DEF SlowLine
  <2>2. q \in Seq(Entry) /\ Sinkable(q)
    <3>1. CASE SlowSuccess
      <4>1. <<<<"match", pos, pos + 1>>>> \in Seq(Entry) /\ Plain(<<<<"match", pos, pos + 1>>>>)
        BY <2>0, <2>1, PlainOne DEF Kinds, After
      <4>2. /\ BeforeContext(pos, last_line_visited) \in Seq(Entry)
            /\ Plain(BeforeContext(pos, last_line_visited))
        BY <1>2, <2>0, PlainBefore DEF Shape
      <4>3. SlowPlanMatch \in Seq(Entry) /\ Plain(SlowPlanMatch)
        BY <4>1, <4>2, PlainJoined DEF SlowPlanMatch
      <4> QED BY <3>1, <4>3, PlainSinkable
    <3>2. CASE ~SlowSuccess
      <4>0. q = SlowPlanMiss
        BY <3>2
      <4> HIDE DEF q
      <4>1. CASE after_context_left >= 1
        <5>1. q = <<<<"after", pos, pos + 1>>>>
          BY <4>0, <4>1 DEF SlowPlanMiss
        <5>2. <<"after", pos, pos + 1>> \in Entry
          BY <2>0 DEF Entry, Kinds
        <5>3. q \in Seq(Entry) /\ Len(q) = 1 /\ q[1] = <<"after", pos, pos + 1>>
          BY <5>1, <5>2
        <5>4. Sinkable(q)
          BY <2>0, <2>1, <4>1, <5>3 DEF Sinkable, After
        <5> QED BY <5>3, <5>4
      <4>2. CASE after_context_left = 0 /\ config.passthru
        <5>1. q = <<<<"other", pos, pos + 1>>>>
          BY <4>0, <4>2 DEF SlowPlanMiss
        <5>2. "other" \in Kinds \ After /\ pos + 1 \in Nat /\ pos < pos + 1 /\ pos + 1 <= len
          BY <2>0, <2>1 DEF Kinds, After
        <5>3. q \in Seq(Entry) /\ Plain(q)
          BY <2>0, <5>1, <5>2, PlainOne
        <5> QED BY <5>3, PlainSinkable
      <4>3. CASE after_context_left = 0 /\ ~config.passthru
        <5>1. q = <<>>
          BY <4>0, <4>3 DEF SlowPlanMiss
        <5>2. \A i \in 1 .. Len(<<>>) : FALSE
          OBVIOUS
        <5> QED BY <5>1, <5>2 DEF Sinkable
      <4> QED BY <2>0, <4>1, <4>2, <4>3
    <3> QED BY <3>1, <3>2
  <2>3. /\ n \in Goals \ {"more", "match", "fill"} /\ "stop" \in StopGoals
    BY <1>3 DEF ByLine
  <2>4. pos' \in Nat /\ pos' <= StartOf(len)
    BY <2>0, <2>1
  <2> HIDE DEF q, n
  <2> QED BY <1>1, <1>2, <1>4, <2>1, <2>2, <2>3, <2>4, ThinkShape
<1> QED BY <1>5, <1>6 DEF Slow

\* The first line at which the matcher finds something.
LEMMA FirstHitIs ==
    ASSUME Shape, Hits # {}
    PROVE  /\ FirstHit \in Nat /\ pos <= FirstHit /\ FirstHit < len
           /\ Matching(FirstHit) /\ ~Exceeded(count)
           /\ \A p \in pos .. (FirstHit - 1) : ~Matching(p)
<1>1. pos \in Nat /\ len \in Nat
  BY Numbers
<1>2. ~Exceeded(count) /\ Hits = {p \in pos .. len - 1 : Matching(p)}
  BY DEF Hits
<1>3. Hits \in SUBSET Nat
  BY <1>1, <1>2
<1>4. FirstHit \in Hits /\ \A q \in Hits : FirstHit <= q
  <2>1. \E x \in Hits : \A y \in Hits : x <= y
    BY <1>3, LeastIn
  <2> QED BY <2>1 DEF FirstHit
<1>5. ASSUME NEW p \in pos .. (FirstHit - 1) PROVE ~Matching(p)
  BY <1>1, <1>2, <1>3, <1>4
<1> QED BY <1>1, <1>2, <1>3, <1>4, <1>5

LEMMA FastShape ==
    ASSUME Shape, Fast, UNCHANGED multiVars
    PROVE  Shape'
<1>1. Thinks
  BY DEF Fast, FastSwitches, FastMatch, FastInverted, FastLoopEnds, FastContext, FastDone,
     Thinks, multiVars
<1>2. /\ pc \in {"fast", "fastEnd", "fastDone"} /\ ~config.multi /\ pos <= len
      /\ pc \notin {"finish", "done"}
  BY ByLineStage DEF Fast, FastSwitches, FastMatch, FastInverted, FastLoopEnds, FastContext,
     FastDone
<1>3. Goals = ByLine /\ StopGoals = {"stop", "fastEnd"}
  BY <1>2 DEF Goals, StopGoals
<1>4. /\ last_match' \in [start : Int, end : Int]
      /\ last_match' # NoMatch => /\ last_match'.start \in 0 .. Len(input)
                                  /\ last_match'.end \in 0 .. Len(input)
  BY DEF Shape, TypeInv, multiVars
<1>0. /\ pos \in Nat /\ len \in Nat /\ count \in Nat /\ last_line_visited \in Nat
      /\ StartOf(len) = len /\ after_context_left \in Nat /\ has_matched \in BOOLEAN
      /\ InputInv /\ TypeInv /\ config.limit \in Nat
  BY <1>2, Numbers DEF Shape
<1>5. CASE FastSwitches \/ FastLoopEnds
  <2>1. /\ pc' \in Goals \ {"fill", "more"} /\ UNCHANGED planVars
        /\ UNCHANGED <<pos, count, has_matched, last_match>>
    BY <1>3, <1>5 DEF FastSwitches, FastLoopEnds, ByLine, multiVars
  <2> QED BY <1>0, <1>1, <1>2, <2>1, GoShape
<1>6. CASE FastDone
  <2>1. /\ pc' \in Goals \ {"fill"} /\ UNCHANGED planVars
        /\ UNCHANGED <<count, has_matched, last_match>>
        /\ pos' \in {pos, len} /\ (pc' = "more" => pos' = len)
    BY <1>3, <1>6 DEF FastDone, ByLine, multiVars
  <2> QED BY <1>0, <1>1, <1>2, <2>1, GoShape
<1>7. CASE FastContext
  <2>1. /\ Planned(AfterContext(len, count), "fastDone", "stop")
        /\ UNCHANGED <<pos, count, has_matched>>
    BY <1>7 DEF FastContext
  <2>2. AfterContext(len, count) \in Seq(Entry) /\ Sinkable(AfterContext(len, count))
    BY <1>0, AfterShape
  <2>3. "fastDone" \in Goals /\ "stop" \in StopGoals
    BY <1>3 DEF ByLine
  <2> DEFINE q == AfterContext(len, count)
  <2> HIDE DEF q
  <2>4. q \in Seq(Entry) /\ Sinkable(q) /\ Planned(q, "fastDone", "stop")
    BY <2>1, <2>2 DEF q
  <2> QED BY <1>0, <1>1, <1>2, <1>4, <2>1, <2>3, <2>4, ThinkShape
<1>8. CASE FastMatch
  <2> DEFINE p == FirstHit
             t == <<<<"match", p, p + 1>>>>
             q == (IF AnyContext
                   THEN AfterContext(p, count + 1)
                        \o BeforeContext(p, Greater(last_line_visited, AfterEnd(p)))
                   ELSE <<>>) \o t
  <2>1. /\ Hits # {} /\ has_matched' = TRUE /\ count' = count + 1 /\ pos' = pos
        /\ Planned(q, "fast", "stop")
    BY <1>8 DEF FastMatch
  <2>2. p \in Nat /\ p < len
    BY <2>1, FirstHitIs
  <2>3. t \in Seq(Entry) /\ Plain(t)
    BY <1>0, <2>2, PlainOne DEF Kinds, After
  <2>4. q \in Seq(Entry) /\ Sinkable(q)
    <3>1. CASE AnyContext
      <4>1. q = AfterContext(p, count + 1)
                \o BeforeContext(p, Greater(last_line_visited, AfterEnd(p))) \o t
        BY <3>1
      <4> HIDE DEF q, t, p
      <4> QED BY <1>0, <2>2, <2>3, <4>1, AroundShape
    <3>2. CASE ~AnyContext
      <4>1. q = t
        BY <3>2, <2>3, ConcatEmptySeq
      <4> QED BY <2>3, <4>1, PlainSinkable
    <3> QED BY <3>1, <3>2
  <2>5. "fast" \in Goals /\ "stop" \in StopGoals
    BY <1>3 DEF ByLine
  <2> HIDE DEF q
  <2> QED BY <1>0, <1>1, <1>2, <1>4, <2>1, <2>4, <2>5, ThinkShape
<1>9. CASE FastInverted
  <2> DEFINE end == IF Hits = {} THEN len ELSE FirstHit
             room == IF HasLimit THEN Greater(config.limit - count, 1) ELSE len
             upto == Lesser(end, pos + room)
             t == Span("inverted", pos, upto)
             q == AfterContext(pos, count)
                  \o BeforeContext(pos, Greater(last_line_visited, AfterEnd(pos))) \o t
             n == IF Exceeded(count + (upto - pos)) THEN "fastEnd" ELSE "fast"
  <2>1. /\ pos' = (IF Hits = {} THEN len ELSE end + 1)
        /\ has_matched' = (has_matched \/ pos < end)
        /\ IF pos = end THEN pc' = "fast" /\ UNCHANGED planVars
           ELSE Planned(q, n, "fastEnd")
        /\ count' = count
    BY <1>9 DEF FastInverted
  <2>2. end \in Nat /\ pos <= end /\ end <= len /\ (Hits # {} => end < len)
    BY <1>0, <1>2, FirstHitIs
  <2>3. upto \in Nat /\ upto <= end
    BY <1>0, <2>2 DEF Lesser, Greater
  <2>4. pos' \in Nat /\ pos' <= len /\ has_matched' \in BOOLEAN
    BY <1>0, <2>1, <2>2
  <2>5. t \in Seq(Entry) /\ Plain(t)
    <3>1. "inverted" \in Kinds \ After /\ upto <= len
      BY <1>0, <2>2, <2>3 DEF Kinds, After
    <3> HIDE DEF upto
    <3> QED BY <1>0, <2>3, <3>1, PlainSpan
  <2>6. q \in Seq(Entry) /\ Sinkable(q)
    <3> HIDE DEF t
    <3> QED BY <1>0, <1>2, <2>5, AroundShape
  <2>7. n \in Goals \ {"more", "match", "fill"} /\ "fastEnd" \in StopGoals /\ "fast" \in Goals
    BY <1>3 DEF ByLine
  <2>8. Sinkable(<<>>) /\ <<>> \in Seq(Entry)
    BY DEF Sinkable
  <2>9. Planned(q, n, "fastEnd") \/ Planned(<<>>, "fast", "fastEnd")
    BY <2>1 DEF Planned
  <2> HIDE DEF q, n, upto, end
  <2> QED BY <1>0, <1>1, <1>2, <1>4, <2>1, <2>4, <2>6, <2>7, <2>8, <2>9, ThinkShape
<1> QED BY <1>5, <1>6, <1>7, <1>8, <1>9 DEF Fast

\* The text that is searched as a whole.
LEMMA WholeText ==
    ASSUME Shape, config.multi
    PROVE  /\ config.slice /\ base = 0 /\ len = Len(input) /\ TextEnd \in Nat
           /\ TextEnd \in {2 * len, 2 * len - 1} /\ StartOf(len) = TextEnd /\ pos <= TextEnd
           /\ ~config.stop_on_nonmatch
<1>1. /\ config.slice /\ base = 0 /\ len = Len(input) /\ TextEnd \in Nat /\ len \in Nat
      /\ ~config.stop_on_nonmatch
  BY DEF Shape, InputInv, TypeInv
<1>2. TextEnd \in {2 * len, 2 * len - 1}
  BY <1>1 DEF TextEnd
<1>3. StartOf(len) = TextEnd
  BY <1>1, StartIs DEF Shape
<1> QED BY <1>1, <1>2, <1>3 DEF Shape, PosInv

\* The lines of a match.
LEMMA LocateIs ==
    ASSUME NEW s \in Nat, NEW e \in Nat, s <= e, e <= 2 * len, len \in Nat
    PROVE  /\ Locate(s, e).start \in 0 .. len /\ Locate(s, e).end \in 0 .. len
           /\ Locate(s, e) \in [start : Int, end : Int]
           /\ Locate(s, e).start = s \div 2
           /\ 2 * Locate(s, e).start <= s /\ s <= 2 * Locate(s, e).start + 1
           /\ Locate(s, e).start >= Locate(s, e).end => Locate(s, e).end = len
<1> DEFINE a == s \div 2
           b == e \div 2
<1>1. /\ a \in Nat /\ b \in Nat /\ 2 * a <= s /\ s <= 2 * a + 1
      /\ 2 * b <= e /\ e <= 2 * b + 1 /\ (e % 2 = 0 => e = 2 * b)
  OBVIOUS
<1>2. Locate(s, e) = [start |-> a, end |-> IF e > 2 * a /\ e % 2 = 0 THEN b
                                           ELSE Lesser(len, b + 1)]
  BY DEF Locate
<1> HIDE DEF a, b
<1>3. a <= len /\ b <= len /\ a <= b
  BY <1>1
<1>4. /\ Locate(s, e).start = a
      /\ Locate(s, e).end = IF e > 2 * a /\ e % 2 = 0 THEN b ELSE Lesser(len, b + 1)
  BY <1>2
<1>5. Lesser(len, b + 1) \in {len, b + 1} /\ Lesser(len, b + 1) <= len
  BY <1>1 DEF Lesser
<1>6. Locate(s, e).end \in 0 .. len /\ (a >= Locate(s, e).end => Locate(s, e).end = len)
  BY <1>1, <1>3, <1>4, <1>5
<1>7. Locate(s, e) \in [start : Int, end : Int]
  BY <1>1, <1>2, <1>4, <1>6
<1>8. a \in 0 .. len /\ a = s \div 2
  BY <1>1, <1>3 DEF a
<1> QED BY <1>1, <1>4, <1>6, <1>7, <1>8

\* The next match.
LEMMA FirstFoundIs ==
    ASSUME Shape, config.multi, Found # {}
    PROVE  /\ FirstFound \in Nat /\ pos <= FirstFound /\ ~Exceeded(count)
           /\ hits[FirstFound] \in Nat /\ FirstFound <= hits[FirstFound]
           /\ hits[FirstFound] <= TextEnd
<1>1. ~Exceeded(count) /\ Found = {h \in DOMAIN hits : h >= pos}
  BY DEF Found
<1>2. Found \in SUBSET Nat
  BY <1>1 DEF Shape, InputInv
<1>3. FirstFound \in Found
  <2>1. \E x \in Found : \A y \in Found : x <= y
    BY <1>2, LeastIn
  <2> QED BY <2>1 DEF FirstFound
<1>4. FirstFound \in DOMAIN hits /\ FirstFound >= pos /\ FirstFound \in Nat /\ pos \in Nat
  BY <1>1, <1>2, <1>3, Numbers
<1> QED BY <1>1, <1>4 DEF Shape, InputInv

\* The context before a block of lines, and the block.
LEMMA ContextShape ==
    ASSUME InputInv, TypeInv, NEW p \in Nat, p <= len, NEW t \in Seq(Entry), Plain(t)
    PROVE  /\ ContextUpto(p) \o t \in Seq(Entry) /\ Sinkable(ContextUpto(p) \o t)
           /\ t # <<>> => ContextUpto(p) \o t # <<>>
<1>1. len \in Nat /\ last_line_visited \in Nat
  BY DEF TypeInv
<1>2. CASE config.passthru
  <2> DEFINE s == Span("other", last_line_visited, p)
  <2>1. ContextUpto(p) = s
    BY <1>2 DEF ContextUpto
  <2>2. s \in Seq(Entry) /\ Plain(s)
    BY <1>1, PlainSpan DEF Kinds, After
  <2> HIDE DEF s
  <2>3. s \o t \in Seq(Entry) /\ Plain(s \o t) /\ Len(s \o t) = Len(s) + Len(t)
    BY <2>2, PlainJoined, Joined
  <2>4. t # <<>> => Len(t) # 0 /\ Len(t) \in Nat /\ Len(s) \in Nat
    BY <2>2
  <2>5. t # <<>> => s \o t # <<>>
    BY <2>2, <2>3, <2>4
  <2> QED BY <2>1, <2>3, <2>5, PlainSinkable
<1>3. CASE ~config.passthru
  <2>1. ContextUpto(p) = AfterContext(p, count')
                         \o BeforeContext(p, Greater(last_line_visited, AfterEnd(p)))
    BY <1>3 DEF ContextUpto
  <2> QED BY <2>1, AroundShape
<1> QED BY <1>2, <1>3

LEMMA BlockShape ==
    ASSUME NEW r, r.start \in 0 .. len, r.end \in 0 .. len, len \in Nat
    PROVE  /\ Block(r) \in Seq(Entry) /\ Plain(Block(r))
           /\ Block(r) = <<>> => Empty(r)
<1>1. CASE Empty(r)
  <2>1. Block(r) = <<>> /\ \A i \in 1 .. Len(<<>>) : FALSE
    BY <1>1 DEF Block
  <2> QED BY <1>1, <2>1 DEF Plain
<1>2. CASE ~Empty(r)
  <2>1. Block(r) = <<<<"block", r.start, r.end>>>> /\ r.start < r.end
    BY <1>2 DEF Block, Empty
  <2>2. "block" \in Kinds \ After /\ r.start \in Nat /\ r.end \in Nat /\ r.end <= len
    BY DEF Kinds, After
  <2>3. <<<<"block", r.start, r.end>>>> # <<>>
    OBVIOUS
  <2> QED BY <2>1, <2>2, <2>3, PlainOne
<1> QED BY <1>1, <1>2

LEMMA MultiShape ==
    ASSUME Shape, MultiNext
    PROVE  Shape'
<1>1. Thinks
  BY DEF MultiNext, FindNone, FindMatch, FindInverted, LastMatch, Trail, Thinks, coreVars,
     multiVars
<1>2. pc \in {"multi", "trail"} /\ config.multi
  BY DEF MultiNext, FindNone, FindMatch, FindInverted, LastMatch, Trail, Shape, StageInv,
     Goals, ByLine
<1>3. Goals = Whole /\ StopGoals = {"trail", "finish"}
  BY <1>2 DEF Goals, StopGoals
<1>0. /\ pos \in Nat /\ len \in Nat /\ count \in Nat /\ last_line_visited \in Nat
      /\ config.slice /\ len = Len(input) /\ TextEnd \in Nat /\ StartOf(len) = TextEnd
      /\ TextEnd \in {2 * len, 2 * len - 1} /\ pos <= TextEnd
      /\ has_matched \in BOOLEAN /\ InputInv /\ TypeInv
  BY <1>2, Numbers, WholeText DEF Shape
<1>4. /\ last_match \in [start : Int, end : Int]
      /\ last_match # NoMatch => /\ last_match.start \in 0 .. len
                                 /\ last_match.end \in 0 .. len
  BY <1>0 DEF TypeInv
<1>5. has_matched' \in BOOLEAN
  BY <1>0 DEF MultiNext, FindNone, FindMatch, FindInverted, LastMatch, Trail, coreVars
<1>6. \A n \in Whole : n \in Goals /\ n \notin {"more", "match", "fill"}
  BY <1>3 DEF Whole
<1>7. Sinkable(<<>>) /\ <<>> \in Seq(Entry)
  <2>1. \A i \in 1 .. Len(<<>>) : FALSE
    OBVIOUS
  <2> QED BY <2>1 DEF Sinkable
<1>8. CASE FindNone
  <2>1. /\ pos' = TextEnd /\ pc' = "multi" /\ UNCHANGED planVars
        /\ UNCHANGED <<count, has_matched, last_match>>
    BY <1>8 DEF FindNone, coreVars, multiVars
  <2>2. pc' \in Goals /\ pc' \notin {"fill", "more"}
    BY <1>6, <2>1 DEF Whole
  <2> QED BY <1>0, <1>1, <1>2, <2>1, <2>2, GoShape
<1>9. CASE FindMatch
  <2> DEFINE s == FirstFound
             line == Locate(s, hits[s])
             q == ContextUpto(last_match.start) \o Block(last_match)
             n == IF Empty(last_match) THEN "finish" ELSE "multi"
  <2>1. /\ Found # {} /\ pc = "multi" /\ pos' = Advanced(s, hits[s]) /\ count' = count + 1
        /\ IF last_match = NoMatch
           THEN last_match' = line /\ pc' = pc /\ UNCHANGED planVars
           ELSE IF Touches(last_match, line)
           THEN /\ last_match' = [last_match EXCEPT !.end = line.end]
                /\ pc' = pc /\ UNCHANGED planVars
           ELSE last_match' = line /\ Planned(q, n, "finish")
    BY <1>9 DEF FindMatch
  <2>2. s \in Nat /\ hits[s] \in Nat /\ s <= hits[s] /\ hits[s] <= TextEnd
    BY <1>2, <2>1, FirstFoundIs
  <2>3. pos' \in Nat /\ pos' <= StartOf(len)
    BY <1>0, <2>1, <2>2 DEF Advanced
  <2>4. /\ line \in [start : Int, end : Int]
        /\ line.start \in 0 .. len /\ line.end \in 0 .. len
    <3> DEFINE e == hits[s]
    <3>1. s \in Nat /\ e \in Nat /\ s <= e /\ e <= 2 * len
      BY <1>0, <2>2
    <3> HIDE DEF s, e
    <3>2. /\ Locate(s, e) \in [start : Int, end : Int]
          /\ Locate(s, e).start \in 0 .. len /\ Locate(s, e).end \in 0 .. len
      BY <1>0, <3>1, LocateIs
    <3> QED BY <3>2 DEF e
  <2>5. /\ last_match' \in [start : Int, end : Int]
        /\ last_match' # NoMatch => /\ last_match'.start \in 0 .. Len(input)
                                    /\ last_match'.end \in 0 .. Len(input)
    <3> HIDE DEF line, q, n
    <3> QED BY <1>0, <1>4, <2>1, <2>4
  <2>6. \/ Planned(<<>>, "multi", "multi")
        \/ last_match # NoMatch /\ Planned(q, n, "finish")
    BY <2>1 DEF Planned
  <2>7. n \in Whole /\ "multi" \in Whole
    BY DEF Whole
  <2>8. CASE Planned(<<>>, "multi", "multi")
    <3>1. /\ count' \in Nat /\ pos' \in Nat /\ pos' <= StartOf(len)
          /\ pc \notin {"finish", "done"}
          /\ "multi" \in Goals /\ "multi" \notin {"fill", "more"}
      BY <1>0, <1>2, <1>6, <2>1, <2>3, <2>7
    <3> HIDE DEF line, s, q, n
    <3> QED BY <1>1, <1>5, <1>7, <2>5, <2>8, <3>1, ThinkShape
  <2>9. CASE last_match # NoMatch /\ Planned(q, n, "finish")
    <3>1. /\ Block(last_match) \in Seq(Entry) /\ Plain(Block(last_match))
          /\ last_match.start \in Nat /\ last_match.start <= len
      BY <1>0, <1>4, <2>9, BlockShape
    <3>2. q \in Seq(Entry) /\ Sinkable(q)
      BY <1>0, <3>1, ContextShape
    <3> HIDE DEF q, n
    <3> QED BY <1>0, <1>1, <1>2, <1>3, <1>5, <1>6, <2>1, <2>3, <2>5, <2>7, <2>9, <3>2, ThinkShape
  <2> QED BY <2>6, <2>8, <2>9
<1>10. CASE FindInverted
  <2> DEFINE line == IF Found = {} THEN [start |-> len, end |-> len]
                     ELSE Locate(FirstFound, hits[FirstFound])
             from == pos \div 2
             q == ContextUpto(from) \o Uncovered(from, line.start)
  <2>1. /\ pc = "multi" /\ pos < TextEnd
        /\ pos' = (IF Found = {} THEN TextEnd
                    ELSE Advanced(StartOf(line.start), StartOf(line.end)))
        /\ count' = (IF Found = {} THEN count ELSE count + 1)
        /\ IF from = line.start THEN pc' = pc /\ UNCHANGED planVars
           ELSE Planned(q, "multi", "finish")
        /\ last_match' = last_match
    BY <1>10 DEF FindInverted, multiVars
  <2>2. line.start \in 0 .. len /\ line.end \in 0 .. len
    <3>1. CASE Found = {}
      BY <1>0, <3>1
    <3>2. CASE Found # {}
      <4> DEFINE s == FirstFound
                 e == hits[s]
      <4>1. s \in Nat /\ e \in Nat /\ s <= e /\ e <= 2 * len
        <5>1. s \in Nat /\ e \in Nat /\ s <= e /\ e <= TextEnd
          BY <1>2, <3>2, FirstFoundIs
        <5> QED BY <1>0, <5>1
      <4>2. line = Locate(s, e)
        BY <3>2
      <4> HIDE DEF s, e, line
      <4> QED BY <1>0, <4>1, <4>2, LocateIs
    <3> QED BY <3>1, <3>2
  <2>3. from \in Nat /\ from <= len
    BY <1>0
  <2> HIDE DEF line, from
  <2>4. /\ StartOf(line.start) \in Nat /\ StartOf(line.end) \in Nat
        /\ StartOf(line.end) <= TextEnd
    <3>1. line.start \in Nat /\ line.end \in Nat /\ line.end <= len
      BY <1>0, <2>2
    <3>2. StartOf(line.start) \in Nat /\ StartOf(line.end) \in Nat
      BY <1>0, <3>1, StartIs
    <3>3. StartOf(line.end) <= StartOf(len)
      BY <1>0, <3>1, StartIs
    <3> QED BY <1>0, <3>2, <3>3
  <2>5. pos' \in Nat /\ pos' <= StartOf(len) /\ count' \in Nat
    BY <1>0, <2>1, <2>4 DEF Advanced
  <2>6. Uncovered(from, line.start) = Span("block", from, line.start)
    BY DEF Uncovered, Span
  <2>7. Uncovered(from, line.start) \in Seq(Entry) /\ Plain(Uncovered(from, line.start))
    <3>1. /\ "block" \in Kinds \ After /\ line.start \in Nat /\ line.start <= len
      BY <1>0, <2>2 DEF Kinds, After
    <3> QED BY <1>0, <2>3, <2>6, <3>1, PlainSpan
  <2>8. q \in Seq(Entry) /\ Sinkable(q)
    BY <1>0, <2>3, <2>7, ContextShape
  <2> HIDE DEF q
  <2>9. Planned(<<>>, "multi", "multi") \/ Planned(q, "multi", "finish")
    BY <2>1 DEF Planned
  <2>10. "multi" \in Whole
    BY DEF Whole
  <2>11. CASE Planned(<<>>, "multi", "multi")
    BY <1>0, <1>1, <1>2, <1>4, <1>5, <1>6, <1>7, <2>1, <2>5, <2>10, <2>11, ThinkShape
  <2>12. CASE Planned(q, "multi", "finish")
    BY <1>0, <1>1, <1>2, <1>3, <1>4, <1>5, <1>6, <2>1, <2>5, <2>8, <2>10, <2>12, ThinkShape
  <2> QED BY <2>9, <2>11, <2>12
<1>11. CASE LastMatch
  <2> DEFINE q == ContextUpto(last_match.start) \o Block(last_match)
  <2>1. /\ last_match' = NoMatch /\ count' = count /\ pos' = pos
        /\ IF last_match = NoMatch THEN pc' = "trail" /\ UNCHANGED planVars
           ELSE Planned(q, "trail", "trail")
    BY <1>11 DEF LastMatch
  <2>2. NoMatch \in [start : Int, end : Int]
    BY DEF NoMatch
  <2>3. \/ Planned(<<>>, "trail", "trail")
        \/ last_match # NoMatch /\ Planned(q, "trail", "trail")
    <3> HIDE DEF q
    <3> QED BY <2>1 DEF Planned
  <2>4. "trail" \in Whole
    BY DEF Whole
  <2>5. CASE Planned(<<>>, "trail", "trail")
    BY <1>0, <1>1, <1>2, <1>5, <1>6, <1>7, <2>1, <2>2, <2>4, <2>5, ThinkShape
  <2>6. CASE last_match # NoMatch /\ Planned(q, "trail", "trail")
    <3>1. /\ Block(last_match) \in Seq(Entry) /\ Plain(Block(last_match))
          /\ last_match.start \in Nat /\ last_match.start <= len
      BY <1>0, <1>4, <2>6, BlockShape
    <3>2. q \in Seq(Entry) /\ Sinkable(q)
      BY <1>0, <3>1, ContextShape
    <3> HIDE DEF q
    <3> QED BY <1>0, <1>1, <1>2, <1>3, <1>5, <1>6, <2>1, <2>2, <2>4, <2>6, <3>2, ThinkShape
  <2> QED BY <2>3, <2>5, <2>6
<1>12. CASE Trail
  <2> DEFINE q == IF config.passthru THEN Span("other", last_line_visited, len)
                  ELSE AfterContext(len, count)
  <2>1. /\ Planned(q, "finish", "finish") /\ UNCHANGED <<pos, count, last_match>>
    BY <1>12 DEF Trail, multiVars
  <2>2. q \in Seq(Entry) /\ Sinkable(q)
    <3>1. Span("other", last_line_visited, len) \in Seq(Entry)
          /\ Plain(Span("other", last_line_visited, len))
      BY <1>0, PlainSpan DEF Kinds, After
    <3> QED BY <1>0, <3>1, PlainSinkable, AfterShape
  <2>3. "finish" \in Whole
    BY DEF Whole
  <2> HIDE DEF q
  <2> QED BY <1>0, <1>1, <1>2, <1>3, <1>4, <1>5, <1>6, <2>1, <2>2, <2>3, ThinkShape
<1> QED BY <1>8, <1>9, <1>10, <1>11, <1>12 DEF MultiNext

\* The set-up of a search, and the steps that only choose where to go on.
LEMMA RunShape ==
    ASSUME Shape, MatchByLine \/ More, UNCHANGED multiVars
    PROVE  Shape'
<1>1. Thinks /\ UNCHANGED planVars /\ UNCHANGED <<pos, count, has_matched, last_match>>
  BY DEF MatchByLine, More, Thinks, multiVars
<1>2. pc \in {"match", "more"} /\ ~config.multi /\ pos <= len
  BY ByLineStage DEF MatchByLine, More
<1>3. /\ pc' \in {"fast", "slow", "fill", "match", "finish"}
      /\ pc' = "fill" => ~config.slice /\ pos = len
  <2>1. config.slice \in BOOLEAN /\ pos \in Nat /\ len \in Nat
    BY Numbers
  <2> QED BY <1>2, <2>1 DEF MatchByLine, More, Shape, StageInv
<1>4. pos' \in Nat /\ pos' <= StartOf(len) /\ pc' \in Goals
  BY <1>1, <1>2, <1>3, Numbers DEF Goals, ByLine
<1> QED BY <1>1, <1>2, <1>3, <1>4, GoShape

\* What stays the same when a step leaves the search's set-up alone.
LEMMA SetUpSame ==
    ASSUME UNCHANGED <<input, config, hits>>
    PROVE  /\ InputInv => InputInv'
           /\ Goals' = Goals /\ StopGoals' = StopGoals /\ TextEnd' = TextEnd
           /\ StartOf(Len(input))' = StartOf(Len(input))
           /\ \A p : StartOf(p)' = StartOf(p)
<1>1. TextEnd' = TextEnd
  BY DEF TextEnd
<1>2. \A p : StartOf(p)' = StartOf(p)
  BY <1>1 DEF StartOf
<1>3. StartOf(Len(input))' = StartOf(Len(input))
  BY <1>1 DEF StartOf
<1>4. InputInv => InputInv'
  BY <1>1 DEF InputInv
<1> QED BY <1>1, <1>2, <1>3, <1>4 DEF Goals, StopGoals

LEMMA EventsOf ==
    /\ BinaryEvent \in Events /\ BreakEvent \in Events
    /\ BinaryEvent.kind = "binary" /\ BreakEvent.kind = "break"
    /\ BinaryEvent.last = 0 /\ BreakEvent.last = 0
    /\ BinaryEvent.line = 0 /\ BreakEvent.line = 0
    /\ \A k : NoLine(k) = [kind |-> k, line |-> 0, last |-> 0, number |-> 0, offset |-> 0]
  BY DEF BinaryEvent, BreakEvent, NoLine, Events

LEMMA BeginShape ==
    ASSUME Shape, Begin, UNCHANGED multiVars
    PROVE  Shape'
<1>1. /\ UNCHANGED <<input, config, hits, last_match, base, len, pos, absolute_byte_offset,
                     line_number, last_line_counted, last_line_visited, after_context_left,
                     has_sunk, has_matched, count, plan, next, onstop, byte_count>>
      /\ pc = "begin"
  BY DEF Begin, multiVars, bufVars, lineVars, ctxVars, planVars
<1>2. /\ InputInv' /\ Goals' = Goals /\ StartOf(len)' = StartOf(len)
      /\ StartOf(Len(input))' = StartOf(Len(input))
  <2>1. StartOf(len)' = StartOf(len)
    BY <1>1 DEF StartOf, TextEnd
  <2> QED BY <1>1, <2>1, SetUpSame DEF Shape
<1>3. PICK ok \in Answers, heard \in Answers :
        LET found == ok /\ config.slice /\ config.detection # "none" /\ BinaryHead # {}
        IN  /\ binary_byte_offset' =
                 IF found THEN (CHOOSE i \in BinaryHead :
                                   \A j \in BinaryHead : i <= j) - 1 ELSE -1
            /\ events' = IF found THEN <<BinaryEvent>> ELSE <<>>
            /\ refused' = (~ok \/ (found /\ ~heard))
            /\ pc' = CASE ~ok \/ (found /\ (Quits \/ ~heard)) -> "finish"
                       [] ok /\ (found => ~Quits /\ heard) /\ config.slice ->
                             IF config.multi THEN "multi" ELSE "more"
                       [] ok /\ ~config.slice -> "fill"
  BY DEF Begin
<1>4. ok \in BOOLEAN /\ heard \in BOOLEAN
  BY DEF Answers
<1>5. config.slice \in BOOLEAN /\ config.multi \in BOOLEAN /\ (config.multi => config.slice)
  BY DEF Shape, InputInv, Config
<1>6. /\ pc' \in Goals
      /\ pc' \in {"finish", "multi", "more", "fill"}
      /\ pc' = "fill" => ~config.slice
      /\ pc' = "more" => config.slice
  <2>1. /\ pc' \in {"finish", "multi", "more", "fill"}
        /\ pc' = "multi" => config.multi
        /\ pc' \in {"more", "fill"} => ~config.multi
        /\ pc' = "fill" => ~config.slice
        /\ pc' = "more" => config.slice
    BY <1>3, <1>4, <1>5 DEF Quits
  <2> QED BY <2>1 DEF Goals, ByLine, Whole
<1>7. binary_byte_offset' \in -1 .. Len(input) /\ events' \in Seq(Events) /\ refused' \in BOOLEAN
  <2>1. refused' \in BOOLEAN /\ events' \in Seq(Events)
    BY <1>3, <1>4, EventsOf
  <2>2. CASE BinaryHead = {}
    BY <1>3, <2>1, <2>2 DEF Shape, InputInv
  <2>3. CASE BinaryHead # {}
    <3> DEFINE m == CHOOSE i \in BinaryHead : \A j \in BinaryHead : i <= j
    <3>1. len \in Nat /\ len <= Len(input) /\ Len(input) \in Nat
      BY DEF Shape, InputInv, TypeInv
    <3>2. \A i \in BinaryHead : i \in Nat /\ 1 <= i /\ i <= len
      BY <3>1, CasesAssumption DEF BinaryHead, Lesser
    <3>3. m \in BinaryHead
      <4>1. BinaryHead \in SUBSET Nat
        BY <3>2
      <4>2. \E i \in BinaryHead : \A j \in BinaryHead : i <= j
        BY <2>3, <4>1, LeastIn
      <4> QED BY <4>2
    <3> HIDE DEF m
    <3>4. m - 1 \in -1 .. Len(input)
      BY <3>1, <3>2, <3>3
    <3>5. binary_byte_offset' = m - 1 \/ binary_byte_offset' = -1
      BY <1>3 DEF m
    <3> QED BY <2>1, <3>1, <3>4, <3>5
  <2> QED BY <2>2, <2>3
<1>8. TypeInv'
  BY <1>1, <1>2, <1>6, <1>7 DEF Shape, TypeInv, Stages, NoMatch
<1>9. StageInv'
  BY <1>1, <1>2, <1>6 DEF Shape, StageInv
<1>10. PosInv'
  BY <1>1, <1>2, <1>6 DEF Shape, PosInv
<1>11. PlanInv'
  BY <1>6 DEF PlanInv
<1> QED BY <1>2, <1>8, <1>9, <1>10, <1>11 DEF Shape

LEMMA EndShape ==
    ASSUME Shape, Stop \/ Finish, UNCHANGED multiVars
    PROVE  Shape'
<1>1. /\ UNCHANGED <<input, config, hits, last_match, pos, absolute_byte_offset,
                     line_number, last_line_counted, last_line_visited, after_context_left,
                     has_sunk, has_matched, count, binary_byte_offset, plan, next, onstop,
                     events, refused>>
      /\ pc' \in {"finish", "done"}
  BY DEF Stop, Finish, multiVars, bufVars, lineVars, ctxVars, planVars, sinkVars
<1>2. /\ InputInv' /\ Goals' = Goals /\ "finish" \in Goals
      /\ StartOf(Len(input))' = StartOf(Len(input))
  BY <1>1, SetUpSame DEF Shape, Goals, ByLine, Whole
<1>0. /\ base \in Nat /\ len \in Nat /\ pos \in Nat /\ base + len <= Len(input)
      /\ config.slice => base = 0 /\ len = Len(input)
      /\ config.slice \in BOOLEAN /\ Len(input) \in Nat
      /\ binary_byte_offset \in -1 .. Len(input)
      /\ config.multi => config.slice
  <2>1. base \in Nat /\ len \in Nat /\ pos \in Nat /\ config.slice \in BOOLEAN
    BY Numbers
  <2> QED BY <2>1 DEF Shape, TypeInv, InputInv
<1>3. /\ base' \in Nat /\ len' \in Nat /\ base' + len' <= Len(input)
      /\ config.slice => base' = 0 /\ len' = Len(input)
      /\ byte_count' \in -1 .. StartOf(Len(input))
  <2>0. StartOf(Len(input)) \in Nat /\ \A p \in Nat : p <= Len(input) => StartOf(p) <= StartOf(Len(input))
    BY <1>0, StartIs DEF Shape
  <2>1. CASE Stop
    <3>1. ~config.slice => pos <= len
      BY <1>0, <2>1, StartIs DEF Stop, Shape, PosInv
    <3> QED BY <1>0, <2>1, <3>1 DEF Stop, sinkVars, Shape, TypeInv
  <2>2. CASE Finish
    <3>1. base' = base /\ len' = len /\ byte_count' = SearchedBytes
      BY <2>2 DEF Finish, bufVars
    <3>2. CASE ~config.slice
      <4>1. ~config.multi /\ StartOf(Len(input)) = Len(input)
        BY <1>0, <3>2, StartIs DEF Shape
      <4> QED BY <1>0, <3>1, <3>2, <4>1 DEF SearchedBytes
    <3>3. CASE config.slice
      <4>1. pos <= StartOf(Len(input))
        BY <1>0, <3>3 DEF Shape, PosInv
      <4>2. CASE IsBinary /\ StartOf(binary_byte_offset) < pos
        <5>1. binary_byte_offset \in Nat /\ StartOf(binary_byte_offset) \in Nat
          BY <1>0, <4>2, StartIs DEF IsBinary, Shape
        <5> QED BY <1>0, <2>0, <3>1, <3>3, <4>1, <4>2, <5>1 DEF SearchedBytes
      <4>3. CASE ~(IsBinary /\ StartOf(binary_byte_offset) < pos)
        BY <1>0, <2>0, <3>1, <3>3, <4>1, <4>3 DEF SearchedBytes
      <4> QED BY <4>2, <4>3
    <3> QED BY <3>2, <3>3
  <2> QED BY <2>1, <2>2
<1>4. TypeInv'
  <2>1. last_match' # NoMatch => /\ last_match'.start \in 0 .. Len(input)
                                 /\ last_match'.end \in 0 .. Len(input)
    BY <1>1 DEF Shape, TypeInv
  <2> QED BY <1>1, <1>2, <1>3, <2>1 DEF Shape, TypeInv, Stages, NoMatch
<1>5. StageInv'
  BY <1>1, <1>2 DEF Shape, StageInv
<1>6. PosInv'
  <2>1. config.slice => pos <= StartOf(len)'
    <3>1. config.slice => len' = len
      BY <1>0, <1>3
    <3>2. TextEnd' = TextEnd
      BY <1>1 DEF TextEnd
    <3> QED BY <1>1, <3>1, <3>2 DEF Shape, PosInv, StartOf
  <2> QED BY <1>1, <2>1 DEF PosInv
<1>7. PlanInv'
  BY <1>1 DEF PlanInv
<1> QED BY <1>2, <1>4, <1>5, <1>6, <1>7 DEF Shape
-----------------------------------------------------------------------------
(* A call of the sink.                                                     *)

\* The call that is next, and those that are left after it.
LEMMA HeadIs ==
    ASSUME Shape, pc = "sink",
           NEW kind, NEW p, NEW q,
           kind = Head(plan)[1], p = Head(plan)[2], q = Head(plan)[3]
    PROVE  /\ plan \in Seq(Entry) /\ plan # <<>> /\ Len(plan) \in Nat /\ 1 \in 1 .. Len(plan)
           /\ Head(plan) = plan[1] /\ kind \in Kinds /\ p \in Nat /\ q \in Nat
           /\ p < q /\ q <= len /\ base + q <= Len(input)
           /\ kind \in After => 1 <= after_context_left
           /\ Tail(plan) \in Seq(Entry) /\ Len(Tail(plan)) = Len(plan) - 1
           /\ \A i \in 1 .. Len(plan) - 1 : Tail(plan)[i] = plan[i + 1]
<1>1. plan \in Seq(Entry) /\ plan # <<>> /\ Sinkable(plan)
  BY DEF Shape, TypeInv, PlanInv
<1>2. Len(plan) \in Nat /\ 1 \in 1 .. Len(plan) /\ Head(plan) = plan[1] /\ plan[1] \in Entry
  BY <1>1
<1>3. kind \in Kinds /\ p \in Nat /\ q \in Nat
  BY <1>2 DEF Entry
<1>4. p < q /\ q <= len /\ (kind \in After => 1 <= after_context_left)
  BY <1>1, <1>2 DEF Sinkable
<1>5. base + q <= Len(input)
  BY <1>3, <1>4 DEF Shape, TypeInv, InputInv
<1>6. /\ Tail(plan) \in Seq(Entry) /\ Len(Tail(plan)) = Len(plan) - 1
      /\ \A i \in 1 .. Len(plan) - 1 : Tail(plan)[i] = plan[i + 1]
  BY <1>1
<1> QED BY <1>1, <1>2, <1>3, <1>4, <1>5, <1>6

\* The call about the lines themselves.
NameOf(kind) == IF kind \in MatchKinds THEN "match" ELSE kind

LEMMA EventIs ==
    ASSUME Shape, pc \notin {"finish", "done"},
           NEW kind \in Kinds, NEW p \in Nat, NEW q \in Nat, p < q, q <= len
    PROVE  /\ Counted(p) \in Nat
           /\ Counted(p) = base + Greater(last_line_counted, p) + 1
           /\ Event(NameOf(kind), p, q) \in Events
           /\ Event(NameOf(kind), p, q).kind = NameOf(kind)
           /\ Event(NameOf(kind), p, q).line = base + p + 1
           /\ Event(NameOf(kind), p, q).last = base + q
           /\ NameOf(kind) \in Kinds /\ NameOf(kind) \notin {"break", "binary"}
<1>1. /\ base \in Nat /\ last_line_counted \in Nat /\ absolute_byte_offset \in Nat
      /\ line_number = base + last_line_counted + 1
  BY DEF Shape, TypeInv, PosInv
<1>2. Counted(p) = base + Greater(last_line_counted, p) + 1 /\ Counted(p) \in Nat
  BY <1>1 DEF Counted, Greater
<1>3. NameOf(kind) \in Kinds /\ NameOf(kind) \notin {"break", "binary"}
  BY DEF NameOf, Kinds, MatchKinds
<1>4. StartOf(p) \in Nat
  BY StartIs DEF Shape
<1> DEFINE k == NameOf(kind)
<1> HIDE DEF k
<1>5. Event(k, p, q) = [kind |-> k, line |-> base + p + 1, last |-> base + q,
                        number |-> Counted(p), offset |-> absolute_byte_offset + StartOf(p)]
  BY DEF Event
<1>6. /\ Event(k, p, q).kind = k /\ Event(k, p, q).line = base + p + 1
      /\ Event(k, p, q).last = base + q
  BY <1>5
<1>7. k \in Kinds /\ base + p + 1 \in Nat /\ base + q \in Nat
      /\ absolute_byte_offset + StartOf(p) \in Nat
  BY <1>1, <1>3, <1>4 DEF k
<1>8. Event(k, p, q) \in Events
  BY <1>2, <1>5, <1>7 DEF Events
<1> QED BY <1>2, <1>3, <1>6, <1>8 DEF k

\* Short sequences, one behind the other.
LEMMA Glued ==
    ASSUME NEW S, NEW a \in S, NEW b \in S, NEW c \in S
    PROVE  /\ <<>> \o <<>> = <<>> /\ <<>> \o <<a>> = <<a>> /\ <<a>> \o <<>> = <<a>>
           /\ <<a>> \o <<b>> = <<a, b>> /\ <<a, b>> \o <<>> = <<a, b>>
           /\ <<a, b>> \o <<c>> = <<a, b, c>>
<1>1. /\ <<>> \in Seq(S) /\ <<a>> \in Seq(S) /\ <<b>> \in Seq(S) /\ <<c>> \in Seq(S)
      /\ <<a, b>> \in Seq(S) /\ <<a, b, c>> \in Seq(S)
  OBVIOUS
<1>2. <<a>> \o <<b>> = <<a, b>>
  <2>1. <<a>> \o <<b>> \in Seq(S) /\ Len(<<a>> \o <<b>>) = 2
    BY <1>1
  <2>2. \A i \in 1 .. 2 : (<<a>> \o <<b>>)[i] = <<a, b>>[i]
    BY <1>1
  <2> QED BY <1>1, <2>1, <2>2, SeqEqual
<1>3. <<a, b>> \o <<c>> = <<a, b, c>>
  <2>1. <<a, b>> \o <<c>> \in Seq(S) /\ Len(<<a, b>> \o <<c>>) = 3
    BY <1>1
  <2>2. \A i \in 1 .. 3 : (<<a, b>> \o <<c>>)[i] = <<a, b, c>>[i]
    BY <1>1
  <2> QED BY <1>1, <2>1, <2>2, SeqEqual
<1>4. <<>> \o <<>> = <<>> /\ <<>> \o <<a>> = <<a>> /\ <<a>> \o <<>> = <<a>>
      /\ <<a, b>> \o <<>> = <<a, b>>
  BY <1>1, ConcatEmptySeq
<1> QED BY <1>2, <1>3, <1>4

\* At most a break, a notice and a line, and nothing after a notice of the
\* data for which the file is given up.
LEMMA CallsIs ==
    ASSUME Shape, pc \notin {"finish", "done"},
           NEW kind \in Kinds, NEW p \in Nat, NEW q \in Nat, p < q, q <= len
    PROVE  LET calls == Calls(kind, p, q)
               line == Event(NameOf(kind), p, q)
           IN  /\ calls \in Seq(Events)
               /\ \A i \in 1 .. Len(calls) :
                    /\ calls[i] \in {BreakEvent, BinaryEvent, line}
                    /\ calls[i] = BinaryEvent =>
                          /\ Detected(p, q)
                          /\ Quits => i = Len(calls)
                          /\ \A j \in 1 .. Len(calls) :
                                calls[j] = BinaryEvent => j = i
                    /\ calls[i] = line =>
                          /\ ~Spoilt(p, q)
                          /\ Detected(p, q) => \E j \in 1 .. (i - 1) : calls[j] = BinaryEvent
<1> DEFINE name == NameOf(kind)
           e == Event(name, p, q)
           line == IF Spoilt(p, q) THEN <<>> ELSE <<e>>
           break == IF kind \in MatchKinds /\ Spoilt(p, q) THEN <<>> ELSE Break(p)
           notice == Notice(p, q)
<1>1. Calls(kind, p, q) = CASE kind = "before" -> break \o notice \o line
                            [] kind \in MatchKinds -> notice \o break \o line
                            [] OTHER -> notice \o line
  BY DEF Calls, NameOf
<1>2. /\ e \in Events /\ BreakEvent \in Events /\ BinaryEvent \in Events
      /\ e # BreakEvent /\ e # BinaryEvent /\ BreakEvent # BinaryEvent
  BY EventIs, EventsOf
<1>3. line = (IF Spoilt(p, q) THEN <<>> ELSE <<e>>)
  OBVIOUS
<1>4. notice = (IF Detected(p, q) THEN <<BinaryEvent>> ELSE <<>>)
  BY DEF Notice
<1>5. break \in {<<>>, <<BreakEvent>>}
  BY DEF Break
<1>6. Detected(p, q) /\ Quits => Spoilt(p, q)
  BY DEF Detected, Spoilt
<1>7. kind \in MatchKinds /\ Spoilt(p, q) => break = <<>>
  OBVIOUS
<1>8. \/ Calls(kind, p, q) = break \o notice \o line
      \/ kind \in MatchKinds /\ Calls(kind, p, q) = notice \o break \o line
      \/ Calls(kind, p, q) = notice \o line
  BY <1>1
<1> HIDE DEF name, line, break, notice
<1>20. /\ <<>> \o <<>> = <<>> /\ <<>> \o <<e>> = <<e>> /\ <<BreakEvent>> \o <<>> = <<BreakEvent>>
       /\ <<>> \o <<BinaryEvent>> = <<BinaryEvent>>
       /\ <<BinaryEvent>> \o <<>> = <<BinaryEvent>>
       /\ <<BreakEvent>> \o <<e>> = <<BreakEvent, e>>
       /\ <<BinaryEvent>> \o <<e>> = <<BinaryEvent, e>>
       /\ <<BreakEvent>> \o <<BinaryEvent>> = <<BreakEvent, BinaryEvent>>
       /\ <<BinaryEvent>> \o <<BreakEvent>> = <<BinaryEvent, BreakEvent>>
       /\ <<BreakEvent, BinaryEvent>> \o <<>> = <<BreakEvent, BinaryEvent>>
       /\ <<BreakEvent, BinaryEvent>> \o <<e>> = <<BreakEvent, BinaryEvent, e>>
       /\ <<BinaryEvent, BreakEvent>> \o <<e>> = <<BinaryEvent, BreakEvent, e>>
  <2> HIDE DEF e
  <2> QED BY <1>2, Glued
<1> DEFINE calls == Calls(kind, p, q)
<1>9. \/ calls = <<>> /\ ~Detected(p, q)
      \/ calls = <<BreakEvent>> /\ ~Detected(p, q)
      \/ calls = <<e>> /\ ~Spoilt(p, q) /\ ~Detected(p, q)
      \/ calls = <<BreakEvent, e>> /\ ~Spoilt(p, q) /\ ~Detected(p, q)
      \/ calls = <<BinaryEvent>> /\ Detected(p, q)
      \/ calls = <<BreakEvent, BinaryEvent>> /\ Detected(p, q)
      \/ calls = <<BinaryEvent, e>> /\ Detected(p, q) /\ ~Spoilt(p, q) /\ ~Quits
      \/ calls = <<BreakEvent, BinaryEvent, e>> /\ Detected(p, q) /\ ~Spoilt(p, q) /\ ~Quits
      \/ calls = <<BinaryEvent, BreakEvent, e>> /\ Detected(p, q) /\ ~Spoilt(p, q) /\ ~Quits
  <2> HIDE DEF e, calls
  <2>0. calls = Calls(kind, p, q)
    BY DEF calls
  <2>1. CASE Detected(p, q)
    <3>1. notice = <<BinaryEvent>>
      BY <1>4, <2>1
    <3>2. CASE Spoilt(p, q)
      <4>1. line = <<>>
        BY <1>3, <3>2
      <4> QED BY <1>5, <1>7, <1>8, <1>20, <2>0, <2>1, <3>1, <3>2, <4>1
    <3>3. CASE ~Spoilt(p, q)
      <4>1. line = <<e>> /\ ~Quits
        BY <1>3, <1>6, <2>1, <3>3
      <4>2. CASE break = <<>>
        BY <1>8, <2>0, <2>1, <3>1, <3>3, <4>1, <4>2, <1>20
      <4>3. CASE break = <<BreakEvent>>
        BY <1>8, <2>0, <2>1, <3>1, <3>3, <4>1, <4>3, <1>20
      <4> QED BY <1>5, <4>2, <4>3
    <3> QED BY <3>2, <3>3
  <2>2. CASE ~Detected(p, q)
    <3>1. notice = <<>>
      BY <1>4, <2>2
    <3>2. CASE Spoilt(p, q)
      <4>1. line = <<>>
        BY <1>3, <3>2
      <4> QED BY <1>5, <1>8, <1>20, <2>0, <2>2, <3>1, <4>1
    <3>3. CASE ~Spoilt(p, q)
      <4>1. line = <<e>>
        BY <1>3, <3>3
      <4>2. CASE break = <<>>
        BY <1>8, <2>0, <2>2, <3>1, <3>3, <4>1, <4>2, <1>20
      <4>3. CASE break = <<BreakEvent>>
        BY <1>8, <2>0, <2>2, <3>1, <3>3, <4>1, <4>3, <1>20
      <4> QED BY <1>5, <4>2, <4>3
    <3> QED BY <3>2, <3>3
  <2> QED BY <2>1, <2>2
<1> HIDE DEF e, calls
<1> DEFINE Fits == \A i \in 1 .. Len(calls) :
          /\ calls[i] \in {BreakEvent, BinaryEvent, e}
          /\ calls[i] = BinaryEvent =>
                /\ Detected(p, q)
                /\ Quits => i = Len(calls)
                /\ \A j \in 1 .. Len(calls) : calls[j] = BinaryEvent => j = i
          /\ calls[i] = e =>
                /\ ~Spoilt(p, q)
                /\ Detected(p, q) => \E j \in 1 .. (i - 1) : calls[j] = BinaryEvent
<1>10. ASSUME calls = <<>> /\ ~Detected(p, q)
       PROVE  calls \in Seq(Events) /\ Fits
  <2>1. calls \in Seq(Events)
    BY <1>2, <1>10
  <2>2. Fits
    BY <1>2, <1>10
  <2> QED BY <2>1, <2>2
<1>11. ASSUME calls = <<BreakEvent>> /\ ~Detected(p, q)
       PROVE  calls \in Seq(Events) /\ Fits
  <2>1. calls \in Seq(Events)
    BY <1>2, <1>11
  <2>2. Fits
    BY <1>2, <1>11
  <2> QED BY <2>1, <2>2
<1>12. ASSUME calls = <<e>> /\ ~Spoilt(p, q) /\ ~Detected(p, q)
       PROVE  calls \in Seq(Events) /\ Fits
  <2>1. calls \in Seq(Events)
    BY <1>2, <1>12
  <2>2. Fits
    BY <1>2, <1>12
  <2> QED BY <2>1, <2>2
<1>13. ASSUME calls = <<BreakEvent, e>> /\ ~Spoilt(p, q) /\ ~Detected(p, q)
       PROVE  calls \in Seq(Events) /\ Fits
  <2>1. calls \in Seq(Events)
    BY <1>2, <1>13
  <2>2. Fits
    BY <1>2, <1>13
  <2> QED BY <2>1, <2>2
<1>14. ASSUME calls = <<BinaryEvent>> /\ Detected(p, q)
       PROVE  calls \in Seq(Events) /\ Fits
  <2>1. calls \in Seq(Events)
    BY <1>2, <1>14
  <2>2. Fits
    BY <1>2, <1>14
  <2> QED BY <2>1, <2>2
<1>15. ASSUME calls = <<BreakEvent, BinaryEvent>> /\ Detected(p, q)
       PROVE  calls \in Seq(Events) /\ Fits
  <2>1. calls \in Seq(Events)
    BY <1>2, <1>15
  <2>2. Fits
    BY <1>2, <1>15
  <2> QED BY <2>1, <2>2
<1>16. ASSUME calls = <<BinaryEvent, e>> /\ Detected(p, q) /\ ~Spoilt(p, q) /\ ~Quits
       PROVE  calls \in Seq(Events) /\ Fits
  <2>1. calls \in Seq(Events)
    BY <1>2, <1>16
  <2>2. Fits
    BY <1>2, <1>16
  <2> QED BY <2>1, <2>2
<1>17. ASSUME calls = <<BreakEvent, BinaryEvent, e>> /\ Detected(p, q) /\ ~Spoilt(p, q) /\ ~Quits
       PROVE  calls \in Seq(Events) /\ Fits
  <2>1. calls \in Seq(Events)
    BY <1>2, <1>17
  <2>2. Fits
    BY <1>2, <1>17
  <2> QED BY <2>1, <2>2
<1>18. ASSUME calls = <<BinaryEvent, BreakEvent, e>> /\ Detected(p, q) /\ ~Spoilt(p, q) /\ ~Quits
       PROVE  calls \in Seq(Events) /\ Fits
  <2>1. calls \in Seq(Events)
    BY <1>2, <1>18
  <2>2. Fits
    BY <1>2, <1>18
  <2> QED BY <2>1, <2>2
<1>19. calls \in Seq(Events) /\ Fits
  BY <1>9, <1>10, <1>11, <1>12, <1>13, <1>14, <1>15, <1>16, <1>17, <1>18
<1> QED BY <1>19 DEF e, calls, name

\* The first line with binary data among those of a call.
LEMMA BinaryIs ==
    ASSUME Shape, NEW p \in Nat, NEW q \in Nat, q <= len, Binary(p, q) # {}
    PROVE  LET b == CHOOSE i \in Binary(p, q) : \A j \in Binary(p, q) : i <= j
           IN  /\ b \in p .. q - 1 /\ b \in 0 .. Len(input) /\ At(b).bin
               /\ \A i \in p .. b - 1 : ~At(i).bin
<1> DEFINE b == CHOOSE i \in Binary(p, q) : \A j \in Binary(p, q) : i <= j
<1>1. Binary(p, q) = {i \in p .. q - 1 : At(i).bin}
  BY DEF Binary
<1>2. Binary(p, q) \in SUBSET Nat
  BY <1>1
<1>3. b \in Binary(p, q) /\ \A j \in Binary(p, q) : b <= j
  <2>1. \E i \in Binary(p, q) : \A j \in Binary(p, q) : i <= j
    BY <1>2, LeastIn
  <2> QED BY <2>1
<1> HIDE DEF b
<1>4. b \in p .. q - 1 /\ At(b).bin
  BY <1>1, <1>3
<1>5. base \in Nat /\ len \in Nat /\ Len(input) \in Nat /\ base + len <= Len(input)
  BY DEF Shape, TypeInv, InputInv
<1>6. b \in 0 .. Len(input)
  BY <1>4, <1>5
<1>7. ASSUME NEW i \in p .. b - 1 PROVE ~At(i).bin
  <2>1. i \in p .. q - 1 /\ ~(b <= i)
    BY <1>4
  <2> QED BY <1>1, <1>3, <2>1
<1> QED BY <1>4, <1>6, <1>7 DEF b

\* Where the numbers go in a call.
LEMMA SinkShape ==
    ASSUME Shape, Sink, UNCHANGED multiVars
    PROVE  Shape'
<1> DEFINE kind == Head(plan)[1]
           p == Head(plan)[2]
           q == Head(plan)[3]
           calls == Calls(kind, p, q)
           least == CHOOSE i \in Binary(p, q) : \A j \in Binary(p, q) : i <= j
<1>1. pc = "sink"
  BY DEF Sink
<1>2. PICK n \in 0 .. Len(calls), ok \in Answers :
        /\ events' = events \o SubSeq(calls, 1, n)
        /\ refused' = ~ok
        /\ binary_byte_offset' =
              IF Detected(p, q) /\ BinaryEvent \in {calls[i] : i \in 1 .. n}
              THEN least ELSE binary_byte_offset
        /\ count' = IF kind = "inverted" THEN count + 1 ELSE count
        /\ pos' = IF kind \in {"match", "again"} THEN StartOf(q) ELSE pos
        /\ IF Spoilt(p, q) \/ n < Len(calls)
           THEN UNCHANGED lineVars
           ELSE /\ line_number' = Counted(p)
                /\ last_line_counted' = Greater(last_line_counted, p)
        /\ IF ok /\ ~Spoilt(p, q)
           THEN /\ last_line_visited' = q
                /\ after_context_left' = LeftAfter(kind)
                /\ has_sunk' = TRUE
                /\ plan' = Tail(plan)
                /\ pc' = IF plan' = <<>> THEN next ELSE "sink"
           ELSE UNCHANGED ctxVars /\ plan' = <<>> /\ pc' = onstop
  BY DEF Sink
<1>3. /\ UNCHANGED <<input, config, hits, last_match, base, len, absolute_byte_offset,
                     has_matched, next, onstop, byte_count>>
  BY DEF Sink, multiVars, bufVars
<1>4. /\ plan \in Seq(Entry) /\ plan # <<>> /\ Len(plan) \in Nat
      /\ kind \in Kinds /\ p \in Nat /\ q \in Nat
      /\ p < q /\ q <= len /\ base + q <= Len(input)
      /\ kind \in After => 1 <= after_context_left
      /\ Tail(plan) \in Seq(Entry) /\ Len(Tail(plan)) = Len(plan) - 1
      /\ \A i \in 1 .. Len(plan) - 1 : Tail(plan)[i] = plan[i + 1]
  <2> DEFINE kk == kind
             pp == p
             qq == q
  <2>1. kk = Head(plan)[1] /\ pp = Head(plan)[2] /\ qq = Head(plan)[3]
    OBVIOUS
  <2> HIDE DEF kk, pp, qq
  <2>2. /\ plan \in Seq(Entry) /\ plan # <<>> /\ Len(plan) \in Nat
        /\ kk \in Kinds /\ pp \in Nat /\ qq \in Nat
        /\ pp < qq /\ qq <= len /\ base + qq <= Len(input)
        /\ kk \in After => 1 <= after_context_left
        /\ Tail(plan) \in Seq(Entry) /\ Len(Tail(plan)) = Len(plan) - 1
        /\ \A i \in 1 .. Len(plan) - 1 : Tail(plan)[i] = plan[i + 1]
    BY <1>1, <2>1, HeadIs
  <2> QED BY <2>2 DEF kk, pp, qq
<1>5. Sinkable(plan) /\ plan[1] = Head(plan)
  BY <1>1, <1>4 DEF Shape, PlanInv
<1> HIDE DEF kind, p, q
<1>6. calls \in Seq(Events)
  BY <1>1, <1>4, CallsIs
<1>7. Detected(p, q) => least \in 0 .. Len(input)
  BY <1>4, BinaryIs DEF Detected
<1>8. /\ Counted(p) \in Nat
      /\ Counted(p) = base + Greater(last_line_counted, p) + 1
  BY <1>1, <1>4, EventIs
<1>9. StartOf(q) \in Nat /\ StartOf(q) <= StartOf(len)
  BY <1>4, StartIs, Numbers DEF Shape
<1> HIDE DEF calls, least
<1>10. /\ InputInv' /\ Goals' = Goals /\ StopGoals' = StopGoals
       /\ StartOf(len)' = StartOf(len) /\ StartOf(Len(input))' = StartOf(Len(input))
  <2>1. StartOf(len)' = StartOf(len)
    BY <1>3 DEF StartOf, TextEnd
  <2> QED BY <1>3, <2>1, SetUpSame DEF Shape
<1>11. /\ config.after \in Nat /\ after_context_left \in 0 .. config.after
       /\ base \in Nat /\ len \in Nat /\ last_line_counted \in Nat /\ last_line_visited \in Nat
       /\ last_line_counted <= len /\ last_line_visited <= len
       /\ line_number = base + last_line_counted + 1
       /\ absolute_byte_offset = base /\ pos \in Nat /\ pos <= StartOf(len)
       /\ line_number \in Nat
  BY <1>1, Numbers DEF Shape, TypeInv, PosInv
<1>22. /\ count' \in {count, count + 1} /\ pos' \in {pos, StartOf(q)}
       /\ plan' \in {<<>>, Tail(plan)}
  BY <1>2
<1>23. \/ line_number' = line_number /\ last_line_counted' = last_line_counted
       \/ line_number' = Counted(p) /\ last_line_counted' = Greater(last_line_counted, p)
  BY <1>2 DEF lineVars
<1>12. events' \in Seq(Events)
  <2>1. SubSeq(calls, 1, n) \in Seq(Events)
    BY <1>2, <1>6
  <2> QED BY <1>2, <2>1, Joined DEF Shape, TypeInv
<1>13. /\ refused' \in BOOLEAN /\ count' \in Nat /\ has_sunk' \in BOOLEAN
       /\ binary_byte_offset' \in -1 .. Len(input) /\ pos' \in Nat /\ pos' <= StartOf(len)
  <2>1. ok \in BOOLEAN
    BY DEF Answers
  <2>2. binary_byte_offset' \in -1 .. Len(input)
    <3>1. binary_byte_offset \in -1 .. Len(input)
      BY DEF Shape, TypeInv
    <3> QED BY <1>2, <1>7, <3>1
  <2>3. count' \in Nat /\ pos' \in Nat /\ pos' <= StartOf(len)
    <3>1. count \in Nat
      BY Numbers
    <3>2. pos \in Nat /\ pos <= StartOf(len)
      BY <1>11
    <3> QED BY <1>9, <1>22, <3>1, <3>2
  <2>4. has_sunk' \in BOOLEAN
    BY <1>2 DEF ctxVars, Shape, TypeInv
  <2> QED BY <1>2, <2>1, <2>2, <2>3, <2>4
<1>14. /\ last_line_counted' \in Nat /\ last_line_counted' <= len /\ line_number' \in Nat
       /\ line_number' = base + last_line_counted' + 1
  <2>1. Greater(last_line_counted, p) \in Nat /\ Greater(last_line_counted, p) <= len
    BY <1>4, <1>11 DEF Greater
  <2> QED BY <1>8, <1>11, <1>23, <2>1
<1>15. /\ last_line_visited' \in Nat /\ last_line_visited' <= len
       /\ after_context_left' \in 0 .. config.after
  <2>1. LeftAfter(kind) \in 0 .. config.after
    BY SMTT(30), <1>4, <1>11 DEF LeftAfter, After
  <2> QED BY <1>2, <1>4, <1>11, <2>1 DEF ctxVars
<1>16. plan' \in Seq(Entry)
  <2>1. <<>> \in Seq(Entry) /\ Tail(plan) \in Seq(Entry)
    BY <1>4
  <2>2. plan' = <<>> \/ plan' = Tail(plan)
    BY <1>22
  <2> QED BY <2>1, <2>2
<1>17. /\ pc' \in {next, onstop, "sink"} /\ pc' \in Stages /\ pc' \in Goals \cup {"sink"}
       /\ pc' \notin {"begin", "fill", "more", "match", "done"}
       /\ pc' = "sink" => plan' # <<>> /\ plan' = Tail(plan) /\ after_context_left' = LeftAfter(kind)
  <2>1. next \in Goals \ {"more", "match", "fill"} /\ onstop \in StopGoals
    BY <1>1 DEF Shape, StageInv
  <2>2. /\ next \in Stages \ {"begin", "fill", "more", "match", "done", "sink"}
        /\ onstop \in Stages \ {"begin", "fill", "more", "match", "done", "sink"}
        /\ onstop \in Goals
    BY <2>1 DEF Goals, StopGoals, ByLine, Whole, Stages
  <2> QED BY <1>2, <2>1, <2>2 DEF Stages
<1>18. TypeInv'
  BY <1>3, <1>10, <1>11, <1>12, <1>13, <1>14, <1>15, <1>16, <1>17 DEF Shape, TypeInv, NoMatch
<1>19. StageInv'
  BY <1>1, <1>3, <1>10, <1>17 DEF Shape, StageInv
<1>20. PosInv'
  BY <1>3, <1>10, <1>11, <1>13, <1>14, <1>15 DEF Shape, PosInv
<1>21. PlanInv'
  <2> SUFFICES ASSUME pc' = "sink" PROVE Sinkable(plan)'
    BY <1>17 DEF PlanInv
  <2>1. plan' = Tail(plan) /\ after_context_left' = LeftAfter(kind) /\ len' = len
    BY <1>3, <1>17
  <2>2. ASSUME NEW i \in 1 .. Len(plan')
        PROVE  /\ plan'[i][2] < plan'[i][3] /\ plan'[i][3] <= len
               /\ plan'[i][1] \in After =>
                    i <= after_context_left' /\ \A j \in 1 .. i : plan'[j][1] \in After
    <3>1. i + 1 \in 1 .. Len(plan) /\ plan'[i] = plan[i + 1] /\ i \in Nat
      BY <1>4, <2>1
    <3>2. plan[i + 1][2] < plan[i + 1][3] /\ plan[i + 1][3] <= len
      BY <1>5, <3>1 DEF Sinkable
    <3>3. ASSUME plan'[i][1] \in After
          PROVE  i <= after_context_left' /\ \A j \in 1 .. i : plan'[j][1] \in After
      <4>1. i + 1 <= after_context_left /\ \A j \in 1 .. i + 1 : plan[j][1] \in After
        BY <1>5, <3>1, <3>3 DEF Sinkable
      <4>2. kind \in After
        BY <1>5, <3>1, <4>1 DEF kind
      <4>3. after_context_left' = after_context_left - 1
        BY <2>1, <4>2 DEF LeftAfter, After
      <4>4. \A j \in 1 .. i : plan'[j] = plan[j + 1] /\ j + 1 \in 1 .. i + 1
        BY <1>4, <2>1, <3>1
      <4> QED BY SMTT(30), <1>11, <3>1, <4>1, <4>3, <4>4
    <3> QED BY <3>1, <3>2, <3>3
  <2> QED BY <2>1, <2>2 DEF Sinkable
<1> QED BY <1>10, <1>18, <1>19, <1>20, <1>21 DEF Shape
-----------------------------------------------------------------------------
(* The lines are called about in their order.  Line numbers are counted    *)
(* from the last line that was called about, so a buffer may be rolled     *)
(* only as far as that line has been counted.                              *)

\* Calls in the order of their lines, from line a on.  If the search goes on
\* even when one is refused, then none of them is far ahead of the one before:
\* the lines that roll would keep lie behind it.
Chain(q, a, near) ==
    \A i \in 1 .. Len(q) :
        LET from == IF i = 1 THEN a ELSE q[i - 1][3]
        IN  /\ from <= q[i][2] /\ q[i][2] < q[i][3]
            /\ near => q[i][2] <= Greater(from, len - 1 - config.before)
EndOf(q, a) == IF q = <<>> THEN a ELSE q[Len(q)][3]

\* The search goes on behind the lines of these calls.
Ahead(q) ==
    \/ q[Len(q)][1] = "match"
    \/ q[Len(q)][3] <= pos /\ \A i \in 1 .. Len(q) : q[i][1] \notin {"match", "again"}

OrderInv ==
    ~config.multi =>
        /\ pc \notin {"stop", "finish", "done"} =>
              last_line_counted <= Greater(last_line_visited, len - 1 - config.before)
        /\ pc \in {"begin", "fill", "match", "more", "slow", "fast"} => last_line_visited <= pos
        /\ pc = "sink" => /\ Chain(plan, last_line_visited, onstop = "fastEnd")
                          /\ next \in {"slow", "fast"} => Ahead(plan)

LEMMA FillShape ==
    ASSUME Shape, OrderInv, Fill, UNCHANGED multiVars
    PROVE  Shape' /\ OrderInv'
<1>1. PICK k \in Nat : /\ base + len + k <= Len(input)
                       /\ Refill(k)
  <2>1. base \in Nat /\ len \in Nat /\ base + len <= Len(input) /\ Len(input) \in Nat
    BY DEF Shape, TypeInv, InputInv
  <2>2. \E k \in (IF Len(input) - (base + len) = 0 THEN {0}
                  ELSE 1 .. Len(input) - (base + len)) : Refill(k)
    BY DEF Fill
  <2> QED BY <2>1, <2>2
<1>2. /\ UNCHANGED <<input, config, hits, last_match, after_context_left, has_sunk,
                     has_matched, count, plan, next, onstop, byte_count>>
      /\ pc = "fill"
  BY DEF Fill, multiVars, planVars
<1>3. ~config.slice /\ ~config.multi
  BY <1>2 DEF Shape, StageInv, InputInv
<1>4. /\ base \in Nat /\ len \in Nat /\ Len(input) \in Nat /\ config.before \in Nat
      /\ last_line_counted \in Nat /\ last_line_visited \in Nat /\ line_number \in Nat
      /\ last_line_counted <= len /\ last_line_visited <= len
      /\ line_number = base + last_line_counted + 1 /\ absolute_byte_offset = base
      /\ last_line_counted <= Greater(last_line_visited, len - 1 - config.before)
      /\ binary_byte_offset \in -1 .. Len(input) /\ events \in Seq(Events)
  BY <1>2, <1>3, Numbers DEF Shape, TypeInv, PosInv, OrderInv
<1> DEFINE kept == len - Consumed
           over == kept + k = 0 \/ NothingNew(k)
           found == config.detection # "none" /\ ~IsBinary
                      /\ \E i \in 1 .. k : input[base + len + i].bin
<1>5. Consumed \in Nat /\ last_line_counted <= Consumed /\ Consumed <= len
  BY <1>4 DEF Consumed, Greater
<1>6. /\ line_number' = Counted(Consumed)
      /\ absolute_byte_offset' = absolute_byte_offset + Consumed
      /\ last_line_counted' = 0 /\ last_line_visited' = 0
      /\ pos' = kept
      /\ base' = base + Consumed + (IF over THEN kept ELSE 0)
      /\ len' = IF over THEN 0 ELSE kept + k
      /\ binary_byte_offset' = IF found THEN base + len ELSE binary_byte_offset
      /\ events' = IF found THEN Append(events, BinaryEvent) ELSE events
      /\ refused' \in (IF found THEN {~a : a \in Answers} ELSE {FALSE})
      /\ pc' = IF refused' \/ over \/ (found /\ Quits) THEN "finish" ELSE "match"
  BY <1>1 DEF Refill
<1>7. kept \in Nat
  BY <1>4, <1>5
<1>8. Counted(Consumed) = base + Consumed + 1
  BY <1>4, <1>5 DEF Counted
<1> HIDE DEF kept, over, found
<1>9. base' \in Nat /\ len' \in Nat /\ base' + len' <= Len(input)
  BY <1>1, <1>4, <1>5, <1>6, <1>7 DEF kept
<1>10. /\ pos' \in Nat /\ line_number' \in Nat /\ absolute_byte_offset' \in Nat
       /\ pc' \in {"finish", "match"}
       /\ pc' = "match" => /\ ~over /\ base' = base + Consumed /\ pos' <= len'
                           /\ absolute_byte_offset' = base'
                           /\ line_number' = base' + last_line_counted' + 1
  BY <1>1, <1>4, <1>5, <1>6, <1>7, <1>8
<1>11. events' \in Seq(Events) /\ refused' \in BOOLEAN /\ binary_byte_offset' \in -1 .. Len(input)
  <2>1. events' \in Seq(Events)
    BY <1>4, <1>6, EventsOf
  <2>2. refused' \in BOOLEAN
    BY <1>6 DEF Answers
  <2>3. binary_byte_offset' \in -1 .. Len(input)
    BY <1>1, <1>4, <1>6
  <2> QED BY <2>1, <2>2, <2>3
<1>12. /\ InputInv' /\ Goals' = Goals /\ pc' \in Goals
       /\ StartOf(Len(input))' = StartOf(Len(input))
  <2>1. pc' \in Goals
    BY <1>3, <1>10 DEF Goals, ByLine
  <2> QED BY <1>2, <2>1, SetUpSame DEF Shape
<1>13. TypeInv'
  <2>1. config' = config /\ ~config.slice /\ last_line_counted' = 0 /\ last_line_visited' = 0
    BY <1>2, <1>3, <1>6
  <2>2. pc' \in Stages
    BY <1>10 DEF Stages
  <2> QED BY <1>2, <1>9, <1>10, <1>11, <1>12, <2>1, <2>2 DEF Shape, TypeInv, NoMatch
<1>14. StageInv'
  BY <1>10, <1>12 DEF StageInv
<1>15. PosInv'
  <2>1. config' = config /\ last_line_counted' = 0 /\ last_line_visited' = 0
    BY <1>2, <1>6
  <2>2. StartOf(len)' = len'
    BY <1>2, <1>3 DEF StartOf
  <2>3. pc' \notin {"finish", "done"} =>
          /\ last_line_counted' <= len' /\ last_line_visited' <= len'
          /\ pos' <= StartOf(len)' /\ absolute_byte_offset' = base'
          /\ line_number' = base' + last_line_counted' + 1
    <3>1. 0 <= len'
      BY <1>9
    <3>2. pc' \notin {"finish", "done"} => pc' = "match"
      BY <1>10
    <3> QED BY <1>10, <2>1, <2>2, <3>1, <3>2
  <2> QED BY <1>3, <2>1, <2>3 DEF PosInv
<1>16. PlanInv'
  BY <1>10 DEF PlanInv
<1>17. OrderInv'
  <2>1. config' = config /\ last_line_counted' = 0 /\ last_line_visited' = 0
    BY <1>2, <1>6
  <2>2. 0 <= Greater(0, len' - 1 - config.before)
    BY <1>4, <1>9 DEF Greater
  <2>3. (Greater(last_line_visited, len - 1 - config.before))' = Greater(0, len' - 1 - config.before)
    BY <2>1 DEF Greater
  <2> QED BY <1>10, <2>1, <2>2, <2>3 DEF OrderInv
<1> QED BY <1>12, <1>13, <1>14, <1>15, <1>16, <1>17 DEF Shape

\* One chain behind the other.
LEMMA ChainJoined ==
    ASSUME NEW s \in Seq(Entry), NEW t \in Seq(Entry), NEW a \in Nat, NEW b \in Nat,
           NEW near \in BOOLEAN, len \in Nat, config.before \in Nat,
           Chain(s, a, near), Chain(t, b, near), EndOf(s, a) <= b,
           near => b = EndOf(s, a) \/ b <= len - 1 - config.before
    PROVE  /\ s \o t \in Seq(Entry) /\ Chain(s \o t, a, near)
           /\ EndOf(s \o t, a) = IF t = <<>> THEN EndOf(s, a) ELSE EndOf(t, b)
<1>1. Len(s) \in Nat /\ Len(t) \in Nat
  OBVIOUS
<1> DEFINE r == s \o t
<1>2. /\ r \in Seq(Entry) /\ Len(r) = Len(s) + Len(t)
      /\ \A i \in 1 .. Len(s) : r[i] = s[i]
      /\ \A i \in (Len(s) + 1) .. (Len(s) + Len(t)) : r[i] = t[i - Len(s)]
  BY Joined
<1> HIDE DEF r
<1> DEFINE L == len - 1 - config.before
           From(q, c, i) == IF i = 1 THEN c ELSE q[i - 1][3]
           Good(q, c, i) == /\ From(q, c, i) <= q[i][2] /\ q[i][2] < q[i][3]
                            /\ near => q[i][2] <= Greater(From(q, c, i), L)
<1>3. \A q, c : Chain(q, c, near) <=> \A i \in 1 .. Len(q) : Good(q, c, i)
  BY DEF Chain
<1>4. ASSUME NEW i \in 1 .. Len(s) PROVE Good(r, a, i)
  <2>1. Good(s, a, i)
    BY <1>3
  <2>2. r[i] = s[i] /\ (i # 1 => r[i - 1] = s[i - 1])
    BY <1>1, <1>2
  <2> QED BY <2>1, <2>2
<1>5. ASSUME NEW i \in 2 .. Len(t) PROVE Good(r, a, Len(s) + i)
  <2>1. Good(t, b, i)
    BY SMTT(30), <1>1, <1>3
  <2>2. r[Len(s) + i] = t[i] /\ r[Len(s) + i - 1] = t[i - 1] /\ Len(s) + i # 1 /\ i # 1
    <3>1. /\ Len(s) + i \in (Len(s) + 1) .. (Len(s) + Len(t)) /\ (Len(s) + i) - Len(s) = i
          /\ Len(s) + i - 1 \in (Len(s) + 1) .. (Len(s) + Len(t))
          /\ (Len(s) + i - 1) - Len(s) = i - 1
          /\ Len(s) + i # 1 /\ i # 1
      BY <1>1
    <3> HIDE DEF r
    <3> QED BY <1>2, <3>1
  <2> QED BY <2>1, <2>2
<1>6. ASSUME Len(t) >= 1 PROVE Good(r, a, Len(s) + 1)
  <2>1. Good(t, b, 1)
    BY <1>1, <1>3, <1>6
  <2>2. r[Len(s) + 1] = t[1]
    BY SMTT(30), <1>1, <1>2, <1>6
  <2>3. From(r, a, Len(s) + 1) = EndOf(s, a)
    <3>1. CASE s = <<>>
      BY <3>1 DEF EndOf
    <3>2. CASE s # <<>>
      <4>1. Len(s) >= 1
        BY <1>1, <3>2
      <4>2. r[Len(s)] = s[Len(s)]
        BY <1>1, <1>2, <4>1
      <4> QED BY <1>1, <3>2, <4>1, <4>2 DEF EndOf
    <3> QED BY <3>1, <3>2
  <2>4. /\ EndOf(s, a) \in Nat
    <3>1. CASE s = <<>>
      BY <3>1 DEF EndOf
    <3>2. CASE s # <<>>
      <4>1. s[Len(s)] \in Entry
        BY <3>2
      <4> QED BY <3>2, <4>1 DEF EndOf, Entry
    <3> QED BY <3>1, <3>2
  <2>5. t[1][2] \in Nat /\ t[1][3] \in Nat
    <3>1. t[1] \in Entry
      BY <1>1, <1>6
    <3> QED BY <3>1 DEF Entry
  <2> HIDE DEF From
  <2>6. b <= t[1][2] /\ t[1][2] < t[1][3] /\ (near => t[1][2] <= Greater(b, L))
    BY <2>1 DEF From
  <2> DEFINE c == EndOf(s, a)
             p == t[1][2]
  <2> HIDE DEF c, p
  <2>7. c <= p /\ (near => p <= Greater(c, L))
    BY <2>4, <2>5, <2>6 DEF Greater, c, p
  <2> QED BY <2>2, <2>3, <2>6, <2>7 DEF c, p
<1>7. ASSUME NEW i \in 1 .. Len(r) PROVE Good(r, a, i)
  <2>1. CASE i <= Len(s)
    BY <1>1, <1>4, <2>1
  <2>2. CASE i = Len(s) + 1
    BY <1>1, <1>2, <1>6, <2>2
  <2>3. CASE i > Len(s) + 1
    <3>1. i - Len(s) \in 2 .. Len(t) /\ Len(s) + (i - Len(s)) = i
      BY <1>1, <1>2, <2>3
    <3> QED BY <1>5, <3>1
  <2> QED BY <1>1, <2>1, <2>2, <2>3
<1>8. Chain(r, a, near)
  BY <1>3, <1>7
<1>9. EndOf(r, a) = IF t = <<>> THEN EndOf(s, a) ELSE EndOf(t, b)
  <2>1. CASE t = <<>>
    <3>1. r = s
      BY <2>1, ConcatEmptySeq DEF r
    <3> QED BY <2>1, <3>1
  <2>2. CASE t # <<>>
    <3>1. Len(t) >= 1 /\ Len(r) # 0 /\ r # <<>>
      BY <1>1, <1>2, <2>2
    <3>2. r[Len(r)] = t[Len(t)]
      BY <1>1, <1>2, <3>1
    <3> QED BY <2>2, <3>1, <3>2 DEF EndOf
  <2> QED BY <2>1, <2>2
<1> QED BY <1>2, <1>8, <1>9 DEF r

LEMMA ChainSpan ==
    ASSUME NEW kind \in Kinds, NEW p \in Nat, NEW q \in Nat, NEW a \in Nat, NEW near \in BOOLEAN,
           a <= p, len \in Nat, config.before \in Nat,
           near => p <= Greater(a, len - 1 - config.before)
    PROVE  /\ Chain(Span(kind, p, q), a, near)
           /\ EndOf(Span(kind, p, q), a) = IF p < q THEN q ELSE a
<1> DEFINE s == Span(kind, p, q)
<1>1. /\ s \in Seq(Entry) /\ Len(s) = Greater(q - p, 0)
      /\ \A i \in 1 .. Len(s) : s[i] = <<kind, p + i - 1, p + i>>
  BY SpanIs
<1> HIDE DEF s
<1>2. Len(s) \in Nat
  BY <1>1
<1>3. ASSUME NEW i \in 1 .. Len(s)
      PROVE  LET from == IF i = 1 THEN a ELSE s[i - 1][3]
             IN  /\ from <= s[i][2] /\ s[i][2] < s[i][3]
                 /\ near => s[i][2] <= Greater(from, len - 1 - config.before)
  <2>1. s[i][2] = p + i - 1 /\ s[i][3] = p + i
    BY <1>1
  <2>2. CASE i = 1
    BY <2>1, <2>2
  <2>3. CASE i # 1
    <3>1. s[i - 1][3] = p + (i - 1)
      <4>1. i - 1 \in 1 .. Len(s)
        BY <1>2, <2>3
      <4> HIDE DEF Entry
      <4>2. s[i - 1] = <<kind, p + (i - 1) - 1, p + (i - 1)>>
        BY <1>1, <4>1
      <4> QED BY <4>2
    <3> QED BY <1>2, <2>1, <2>3, <3>1 DEF Greater
  <2> QED BY <2>2, <2>3
<1>4. Chain(s, a, near)
  BY <1>3 DEF Chain
<1>5. EndOf(s, a) = IF p < q THEN q ELSE a
  <2>1. CASE p < q
    <3>1. Len(s) = q - p /\ Len(s) \in 1 .. Len(s) /\ s # <<>>
      BY <1>1, <2>1 DEF Greater
    <3>2. s[Len(s)] = <<kind, p + Len(s) - 1, p + Len(s)>>
      BY <1>1, <3>1
    <3> QED BY <2>1, <3>1, <3>2 DEF EndOf
  <2>2. CASE ~(p < q)
    <3>1. Len(s) = 0
      BY <1>1, <2>2 DEF Greater
    <3>2. s = <<>>
      BY <1>1, <3>1
    <3> QED BY <2>2, <3>2 DEF EndOf
  <2> QED BY <2>1, <2>2
<1> QED BY <1>4, <1>5 DEF s

LEMMA ChainAfter ==
    ASSUME InputInv, TypeInv, NEW upto \in Nat, NEW n, NEW near \in BOOLEAN
    PROVE  /\ Chain(AfterContext(upto, n), last_line_visited, near)
           /\ EndOf(AfterContext(upto, n), last_line_visited)
                = Greater(last_line_visited, AfterEnd(upto))
<1> DEFINE s == AfterContext(upto, n)
           v == last_line_visited
<1>1. /\ s \in Seq(Entry)
      /\ v + Len(s) = Greater(v, AfterEnd(upto))
      /\ \A i \in 1 .. Len(s) : s[i][2] = v + i - 1 /\ s[i][3] = v + i
  BY AfterIs
<1>2. v \in Nat /\ Len(s) \in Nat /\ len \in Nat /\ config.before \in Nat
  BY <1>1 DEF TypeInv, InputInv, Config
<1> HIDE DEF s, v
<1>3. ASSUME NEW i \in 1 .. Len(s)
      PROVE  LET from == IF i = 1 THEN v ELSE s[i - 1][3]
             IN  /\ from <= s[i][2] /\ s[i][2] < s[i][3]
                 /\ near => s[i][2] <= Greater(from, len - 1 - config.before)
  <2>1. s[i][2] = v + i - 1 /\ s[i][3] = v + i /\ i \in Nat
    BY <1>1, <1>2
  <2>2. CASE i = 1
    BY <1>2, <2>1, <2>2 DEF Greater
  <2>3. CASE i # 1
    <3>1. i - 1 \in 1 .. Len(s)
      BY <1>2, <2>3
    <3>2. s[i - 1][3] = v + (i - 1)
      BY <1>1, <3>1
    <3> QED BY <1>2, <2>1, <2>3, <3>2 DEF Greater
  <2> QED BY <2>2, <2>3
<1>4. Chain(s, v, near)
  BY <1>3 DEF Chain
<1>5. EndOf(s, v) = v + Len(s)
  <2>1. CASE s = <<>>
    BY <1>2, <2>1 DEF EndOf
  <2>2. CASE s # <<>>
    <3>1. Len(s) \in 1 .. Len(s)
      BY <1>1, <1>2, <2>2
    <3> QED BY <1>1, <2>2, <3>1 DEF EndOf
  <2> QED BY <2>1, <2>2
<1> QED BY <1>1, <1>4, <1>5 DEF s, v

LEMMA ChainAround ==
    ASSUME InputInv, TypeInv, NEW p \in Nat, p < len, last_line_visited <= p, NEW n,
           NEW near \in BOOLEAN, NEW t \in Seq(Entry), Chain(t, p, near)
    PROVE  Chain(AfterContext(p, n) \o BeforeContext(p, Greater(last_line_visited, AfterEnd(p))) \o t,
                 last_line_visited, near)
<1> DEFINE v == Greater(last_line_visited, AfterEnd(p))
           s == AfterContext(p, n)
           b == BeforeContext(p, v)
           L == len - 1 - config.before
<1>1. /\ len \in Nat /\ last_line_visited \in Nat /\ after_context_left \in Nat
      /\ config.before \in Nat
  BY DEF TypeInv, InputInv, Config
<1>2. v \in Nat /\ v <= p
  BY <1>1 DEF Greater, AfterEnd, Lesser
<1>3. s \in Seq(Entry) /\ Chain(s, last_line_visited, near) /\ EndOf(s, last_line_visited) = v
  BY ChainAfter, AfterIs
<1> HIDE DEF v, s
<1>4. /\ b \in Seq(Entry) /\ Chain(b, v, near) /\ EndOf(b, v) <= p
      /\ EndOf(b, v) \in Nat
      /\ near => p = EndOf(b, v) \/ p <= L
  <2>1. CASE config.before = 0
    <3>1. b = <<>> /\ b \in Seq(Entry)
      BY <2>1 DEF BeforeContext
    <3>2. Chain(b, v, near) /\ EndOf(b, v) = v
      BY <3>1 DEF Chain, EndOf
    <3> QED BY <1>1, <1>2, <2>1, <3>1, <3>2
  <2>2. CASE config.before # 0
    <3> DEFINE f == BeforeFrom(p, v)
    <3>1. f \in Nat /\ v <= f /\ f <= Greater(v, L) /\ (f < p \/ v = p)
      BY <1>1, <1>2, <2>2 DEF BeforeFrom, Greater
    <3>2. b = Span("before", f, p)
      BY <2>2 DEF BeforeContext
    <3>3. "before" \in Kinds
      BY DEF Kinds
    <3> HIDE DEF f
    <3>4. b \in Seq(Entry)
      BY <3>1, <3>2, <3>3, SpanIs
    <3>5. Chain(b, v, near) /\ EndOf(b, v) = IF f < p THEN p ELSE v
      BY <1>1, <1>2, <3>1, <3>2, <3>3, ChainSpan
    <3> QED BY <1>2, <3>1, <3>4, <3>5
  <2> QED BY <2>1, <2>2
<1> HIDE DEF b
<1> DEFINE c == s \o b
<1>5. /\ c \in Seq(Entry) /\ Chain(c, last_line_visited, near)
      /\ EndOf(c, last_line_visited) = IF b = <<>> THEN v ELSE EndOf(b, v)
  <2>1. v <= v
    BY <1>2
  <2> QED BY <1>1, <1>2, <1>3, <1>4, <2>1, ChainJoined
<1>6. EndOf(c, last_line_visited) = EndOf(b, v)
  BY <1>5 DEF EndOf
<1> HIDE DEF c
<1>7. Chain(c \o t, last_line_visited, near)
  BY <1>1, <1>4, <1>5, <1>6, ChainJoined
<1> QED BY <1>7 DEF c, s, b, v

\* A step that plans calls in their order.
LEMMA ThinkOrder ==
    ASSUME OrderInv, Thinks, ~config.multi, pc \notin {"stop", "finish", "done"},
           NEW q, NEW n, NEW s, Planned(q, n, s), n # "sink",
           Chain(q, last_line_visited, s = "fastEnd"),
           q # <<>> /\ n \in {"slow", "fast"} =>
             \/ q[Len(q)][1] = "match"
             \/ q[Len(q)][3] <= pos' /\ \A i \in 1 .. Len(q) : q[i][1] \notin {"match", "again"},
           q = <<>> /\ n \in {"begin", "fill", "match", "more", "slow", "fast"} =>
             last_line_visited <= pos'
    PROVE  OrderInv'
<1>1. /\ config' = config /\ len' = len /\ last_line_visited' = last_line_visited
      /\ last_line_counted' = last_line_counted
  BY DEF Thinks, bufVars, ctxVars, lineVars
<1>2. last_line_counted <= Greater(last_line_visited, len - 1 - config.before)
  BY DEF OrderInv
<1>3. (Greater(last_line_visited, len - 1 - config.before))'
        = Greater(last_line_visited, len - 1 - config.before)
  BY <1>1 DEF Greater
<1>4. CASE q = <<>>
  <2>1. pc' = n
    BY <1>4 DEF Planned
  <2> QED BY <1>1, <1>2, <1>3, <1>4, <2>1 DEF OrderInv
<1>5. CASE q # <<>>
  <2>1. pc' = "sink" /\ plan' = q /\ next' = n /\ onstop' = s
    BY <1>5 DEF Planned
  <2>2. Chain(plan, last_line_visited, onstop = "fastEnd")'
    BY <1>1, <2>1 DEF Chain, Greater
  <2>3. next' \in {"slow", "fast"} => Ahead(plan)'
    BY <1>5, <2>1 DEF Ahead
  <2> QED BY <1>1, <1>2, <1>3, <2>1, <2>2, <2>3 DEF OrderInv
<1> QED BY <1>4, <1>5

\* A step that only goes on.
LEMMA GoOrder ==
    ASSUME OrderInv, Thinks, ~config.multi, pc \notin {"stop", "finish", "done"},
           UNCHANGED planVars, pc' # "sink",
           pc' \in {"begin", "fill", "match", "more", "slow", "fast"} => last_line_visited <= pos'
    PROVE  OrderInv'
<1> DEFINE n == pc'
<1>1. Planned(<<>>, n, n) /\ n = pc'
  BY DEF Planned
<1>2. Chain(<<>>, last_line_visited, n = "fastEnd")
  BY DEF Chain
<1> HIDE DEF n
<1> QED BY <1>1, <1>2, ThinkOrder

LEMMA SlowOrder ==
    ASSUME Shape, OrderInv, Slow, UNCHANGED multiVars
    PROVE  OrderInv'
<1>1. Thinks
  BY DEF Slow, SlowStops, SlowEnds, SlowLine, Thinks, multiVars
<1>2. pc = "slow" /\ ~config.multi /\ pos <= len
  BY ByLineStage DEF Slow, SlowStops, SlowEnds, SlowLine
<1>3. /\ pos \in Nat /\ len \in Nat /\ last_line_visited \in Nat /\ last_line_visited <= pos
      /\ after_context_left \in Nat /\ config.before \in Nat /\ InputInv /\ TypeInv
  BY <1>2, Numbers DEF OrderInv, Shape
<1>4. CASE SlowStops \/ SlowEnds
  <2>1. UNCHANGED planVars /\ pc' # "sink" /\ pos' = pos
    BY <1>4 DEF SlowStops, SlowEnds
  <2> QED BY <1>1, <1>2, <1>3, <2>1, GoOrder
<1>5. CASE SlowLine
  <2> DEFINE q == IF SlowSuccess THEN SlowPlanMatch ELSE SlowPlanMiss
             n == IF config.stop_on_nonmatch /\ ~SlowSuccess /\ has_matched
                  THEN "stop" ELSE "slow"
             v == last_line_visited
             b == BeforeContext(pos, v)
             m == <<<<"match", pos, pos + 1>>>>
  <2>1. pos < len /\ pos' = pos + 1 /\ Planned(q, n, "stop") /\ n \in {"stop", "slow"}
    BY <1>5 DEF SlowLine
  <2>2. /\ Chain(q, v, FALSE)
        /\ q # <<>> => \/ q[Len(q)][1] = "match"
                       \/ /\ q[Len(q)][3] <= pos'
                          /\ \A i \in 1 .. Len(q) : q[i][1] \notin {"match", "again"}
    <3>1. CASE SlowSuccess
      <4>1. b \in Seq(Entry) /\ Chain(b, v, FALSE) /\ EndOf(b, v) <= pos /\ EndOf(b, v) \in Nat
        <5>1. CASE config.before = 0
          <6>1. b = <<>>
            BY <5>1 DEF BeforeContext
          <6> QED BY <1>3, <6>1 DEF Chain, EndOf
        <5>2. CASE config.before # 0
          <6> DEFINE f == BeforeFrom(pos, v)
          <6>1. f \in Nat /\ v <= f
            BY <1>3 DEF BeforeFrom, Greater
          <6>2. b = Span("before", f, pos) /\ "before" \in Kinds
            BY <5>2 DEF BeforeContext, Kinds
          <6>0. v \in Nat /\ v <= pos
            BY <1>3
          <6> HIDE DEF f, b, v
          <6>3. b \in Seq(Entry)
            BY <1>3, <6>1, <6>2, SpanIs
          <6>4. /\ Chain(Span("before", f, pos), v, FALSE)
                /\ EndOf(Span("before", f, pos), v) = IF f < pos THEN pos ELSE v
            <7> DEFINE near == FALSE
            <7>1. near \in BOOLEAN /\ ~near
              OBVIOUS
            <7> HIDE DEF near
            <7>2. /\ Chain(Span("before", f, pos), v, near)
                  /\ EndOf(Span("before", f, pos), v) = IF f < pos THEN pos ELSE v
              BY <1>3, <6>0, <6>1, <6>2, <7>1, ChainSpan
            <7> QED BY <7>2 DEF near
          <6>5. Chain(b, v, FALSE) /\ EndOf(b, v) \in {pos, v}
            BY <6>2, <6>4
          <6>6. EndOf(b, v) <= pos /\ EndOf(b, v) \in Nat
            BY <1>3, <6>0, <6>5
          <6> QED BY <6>3, <6>5, <6>6
        <5> QED BY <5>1, <5>2
      <4>2. m \in Seq(Entry) /\ Chain(m, pos, FALSE) /\ m # <<>> /\ Len(m) = 1
        BY <1>3 DEF Chain, Entry, Kinds
      <4>3. q = b \o m
        BY <3>1 DEF SlowPlanMatch
      <4>4. m[1] = <<"match", pos, pos + 1>>
        OBVIOUS
      <4> HIDE DEF q, b, m, v
      <4>5. Chain(b \o m, v, FALSE)
        BY <1>3, <4>1, <4>2, ChainJoined DEF v
      <4>6. (b \o m)[Len(b \o m)][1] = "match"
        <5>1. Len(b \o m) = Len(b) + 1 /\ (b \o m)[Len(b) + 1] = m[1]
          <6>1. 1 \in 1 .. Len(m)
            BY <4>2
          <6> QED BY <4>1, <4>2, <6>1, Joined
        <5> QED BY <4>4, <5>1
      <4> QED BY <4>3, <4>5, <4>6
    <3>2. CASE ~SlowSuccess
      <4>1. q \in {<<>>, <<<<"after", pos, pos + 1>>>>, <<<<"other", pos, pos + 1>>>>}
        BY <3>2 DEF SlowPlanMiss
      <4>2. CASE q = <<>>
        BY <4>2 DEF Chain
      <4>3. CASE q # <<>>
        <5>1. /\ Len(q) = 1 /\ q[1][1] \notin {"match", "again"}
              /\ q[1][2] = pos /\ q[1][3] = pos + 1
          BY <4>1, <4>3
        <5> HIDE DEF q
        <5> QED BY <1>3, <2>1, <5>1 DEF Chain
      <4> HIDE DEF q
      <4> QED BY <4>2, <4>3
    <3> QED BY <3>1, <3>2
  <2>3. n # "sink" /\ ("stop" = "fastEnd") = FALSE /\ v <= pos' /\ v = last_line_visited
    BY <1>3, <2>1
  <2> HIDE DEF q, n, v
  <2> QED BY <1>1, <1>2, <2>1, <2>2, <2>3, ThinkOrder
<1> QED BY <1>4, <1>5 DEF Slow

\* The calls of two sequences, one behind the other.
LEMMA JoinedKinds ==
    ASSUME NEW s \in Seq(Entry), NEW t \in Seq(Entry), NEW K,
           \A i \in 1 .. Len(s) : s[i][1] \in K, \A i \in 1 .. Len(t) : t[i][1] \in K
    PROVE  /\ s \o t \in Seq(Entry)
           /\ \A i \in 1 .. Len(s \o t) : (s \o t)[i][1] \in K
           /\ t # <<>> => (s \o t)[Len(s \o t)] = t[Len(t)] /\ s \o t # <<>>
<1> DEFINE r == s \o t
<1>1. /\ r \in Seq(Entry) /\ Len(r) = Len(s) + Len(t)
      /\ \A i \in 1 .. Len(s) : r[i] = s[i]
      /\ \A i \in (Len(s) + 1) .. (Len(s) + Len(t)) : r[i] = t[i - Len(s)]
  BY Joined
<1>2. Len(s) \in Nat /\ Len(t) \in Nat
  OBVIOUS
<1> HIDE DEF r
<1>3. ASSUME NEW i \in 1 .. Len(r) PROVE r[i][1] \in K
  <2>1. CASE i <= Len(s)
    <3>1. i \in 1 .. Len(s)
      BY <1>1, <1>2, <2>1
    <3> QED BY <1>1, <3>1
  <2>2. CASE i > Len(s)
    <3>1. i \in (Len(s) + 1) .. (Len(s) + Len(t)) /\ i - Len(s) \in 1 .. Len(t)
      BY <1>1, <1>2, <2>2
    <3> QED BY <1>1, <3>1
  <2> QED BY <1>1, <1>2, <2>1, <2>2
<1>4. ASSUME t # <<>> PROVE r[Len(r)] = t[Len(t)] /\ r # <<>>
  <2>1. Len(t) >= 1
    BY <1>2, <1>4
  <2>2. Len(r) \in (Len(s) + 1) .. (Len(s) + Len(t)) /\ Len(r) - Len(s) = Len(t) /\ Len(r) # 0
    BY <1>1, <1>2, <2>1
  <2>3. r[Len(r)] = t[Len(t)]
    BY <1>1, <2>2
  <2> QED BY <2>2, <2>3
<1> QED BY <1>1, <1>3, <1>4 DEF r

\* The context before the next match, and the context after the last.
LEMMA AroundKinds ==
    ASSUME InputInv, TypeInv, NEW p \in Nat, NEW n, NEW t \in Seq(Entry), NEW v \in Nat, NEW K,
           "after" \in K, "before" \in K, Exceeded(n) => "again" \in K,
           \A i \in 1 .. Len(t) : t[i][1] \in K
    PROVE  LET q == AfterContext(p, n) \o BeforeContext(p, v) \o t
           IN  /\ q \in Seq(Entry)
               /\ \A i \in 1 .. Len(q) : q[i][1] \in K
               /\ t # <<>> => q[Len(q)] = t[Len(t)] /\ q # <<>>
<1> DEFINE s == AfterContext(p, n)
           b == BeforeContext(p, v)
<1>1. s \in Seq(Entry) /\ \A i \in 1 .. Len(s) : s[i][1] \in K
  <2>1. s \in Seq(Entry)
        /\ \A i \in 1 .. Len(s) : s[i][1] \in After /\ (s[i][1] = "again" => Exceeded(n))
    BY AfterIs
  <2> HIDE DEF s
  <2> QED BY <2>1 DEF After
<1>2. b \in Seq(Entry) /\ \A i \in 1 .. Len(b) : b[i][1] \in K
  <2>1. b \in Seq(Entry) /\ \A i \in 1 .. Len(b) : b[i][1] = "before"
    BY BeforeIs
  <2> HIDE DEF b
  <2> QED BY <2>1
<1> HIDE DEF s, b
<1>3. s \o b \in Seq(Entry) /\ \A i \in 1 .. Len(s \o b) : (s \o b)[i][1] \in K
  BY <1>1, <1>2, JoinedKinds
<1> DEFINE c == s \o b
<1>4. c \in Seq(Entry) /\ \A i \in 1 .. Len(c) : c[i][1] \in K
  BY <1>3
<1> HIDE DEF c
<1>5. /\ c \o t \in Seq(Entry)
      /\ \A i \in 1 .. Len(c \o t) : (c \o t)[i][1] \in K
      /\ t # <<>> => (c \o t)[Len(c \o t)] = t[Len(t)] /\ c \o t # <<>>
  BY <1>4, JoinedKinds
<1> QED BY <1>5 DEF c, s, b

LEMMA FastOrder ==
    ASSUME Shape, OrderInv, Fast, UNCHANGED multiVars
    PROVE  OrderInv'
<1>1. Thinks
  BY DEF Fast, FastSwitches, FastMatch, FastInverted, FastLoopEnds, FastContext, FastDone,
     Thinks, multiVars
<1>2. /\ pc \in {"fast", "fastEnd", "fastDone"} /\ ~config.multi /\ pos <= len
      /\ pc \notin {"stop", "finish", "done"}
  BY ByLineStage DEF Fast, FastSwitches, FastMatch, FastInverted, FastLoopEnds, FastContext,
     FastDone
<1>0. /\ pos \in Nat /\ len \in Nat /\ count \in Nat /\ last_line_visited \in Nat
      /\ after_context_left \in Nat /\ InputInv /\ TypeInv /\ config.limit \in Nat
      /\ config.before \in Nat
      /\ pc = "fast" => last_line_visited <= pos
      /\ last_line_visited <= len
  BY <1>2, Numbers DEF Shape, OrderInv, PosInv
<1>3. CASE FastSwitches \/ FastLoopEnds
  <2>1. pc = "fast" /\ UNCHANGED planVars /\ pc' # "sink" /\ pos' = pos
    BY <1>3 DEF FastSwitches, FastLoopEnds
  <2> QED BY <1>0, <1>1, <1>2, <2>1, GoOrder
<1>4. CASE FastDone
  <2>1. /\ UNCHANGED planVars /\ pc' \in {"stop", "more"}
        /\ pc' = "more" => pos' = len
    BY <1>4 DEF FastDone
  <2> QED BY <1>0, <1>1, <1>2, <2>1, GoOrder
<1>5. CASE FastContext
  <2> DEFINE q == AfterContext(len, count)
             near == "stop" = "fastEnd"
  <2>1. Planned(q, "fastDone", "stop")
    BY <1>5 DEF FastContext
  <2>2. near \in BOOLEAN
    OBVIOUS
  <2> HIDE DEF near
  <2>3. Chain(q, last_line_visited, near)
    BY <1>0, <2>2, ChainAfter
  <2> HIDE DEF q
  <2> QED BY <1>1, <1>2, <2>1, <2>3, ThinkOrder DEF near
<1>6. CASE FastMatch
  <2> DEFINE p == FirstHit
             t == <<<<"match", p, p + 1>>>>
             v == Greater(last_line_visited, AfterEnd(p))
             q == (IF AnyContext
                   THEN AfterContext(p, count + 1) \o BeforeContext(p, v)
                   ELSE <<>>) \o t
             near == "stop" = "fastEnd"
  <2>1. Hits # {} /\ Planned(q, "fast", "stop") /\ pc = "fast"
    BY <1>6 DEF FastMatch
  <2>2. p \in Nat /\ pos <= p /\ p < len /\ last_line_visited <= p
    BY <1>0, <2>1, FirstHitIs
  <2>3. /\ t \in Seq(Entry) /\ Len(t) = 1 /\ t # <<>> /\ t[1] = <<"match", p, p + 1>>
        /\ ~near /\ near \in BOOLEAN
    <3>1. <<"match", p, p + 1>> \in Entry
      BY <2>2 DEF Entry, Kinds
    <3> QED BY <3>1
  <2>4. v \in Nat
    BY <1>0, <2>2 DEF Greater, AfterEnd, Lesser
  <2> HIDE DEF near, t, p, v
  <2>5. Chain(t, p, near) /\ Chain(t, last_line_visited, near)
    BY <2>2, <2>3 DEF Chain
  <2>6. Chain(q, last_line_visited, near) /\ q[Len(q)][1] = "match" /\ q # <<>>
    <3>1. CASE AnyContext
      <4> DEFINE r == AfterContext(p, count + 1) \o BeforeContext(p, v) \o t
      <4>1. q = r
        BY <3>1
      <4>2. Chain(r, last_line_visited, near)
        BY <1>0, <2>2, <2>3, <2>5, ChainAround DEF v
      <4>3. r[Len(r)] = t[Len(t)] /\ r # <<>>
        <5>1. \A i \in 1 .. Len(t) : t[i][1] \in Kinds
          BY <2>3 DEF Kinds
        <5>2. "after" \in Kinds /\ "before" \in Kinds /\ "again" \in Kinds
          BY DEF Kinds
        <5> DEFINE K == Kinds
        <5>3. /\ "after" \in K /\ "before" \in K /\ (Exceeded(count + 1) => "again" \in K)
              /\ \A i \in 1 .. Len(t) : t[i][1] \in K
          BY <5>1, <5>2
        <5> HIDE DEF K
        <5>4. /\ r \in Seq(Entry)
              /\ \A i \in 1 .. Len(r) : r[i][1] \in K
              /\ t # <<>> => r[Len(r)] = t[Len(t)] /\ r # <<>>
          <6> DEFINE c == count + 1
          <6>1. /\ InputInv /\ TypeInv /\ p \in Nat /\ t \in Seq(Entry) /\ v \in Nat
                /\ Exceeded(c) => "again" \in K
            BY <1>0, <2>2, <2>3, <2>4, <5>3
          <6> HIDE DEF c
          <6> DEFINE u == AfterContext(p, c) \o BeforeContext(p, v) \o t
          <6>2. /\ u \in Seq(Entry)
                /\ \A i \in 1 .. Len(u) : u[i][1] \in K
                /\ t # <<>> => u[Len(u)] = t[Len(t)] /\ u # <<>>
            BY <5>3, <6>1, AroundKinds
          <6> QED BY <6>2 DEF c
        <5> QED BY <2>3, <5>4
      <4> HIDE DEF r, q
      <4> QED BY <2>3, <4>1, <4>2, <4>3
    <3>2. CASE ~AnyContext
      <4>1. q = t
        BY <2>3, <3>2, ConcatEmptySeq
      <4> HIDE DEF q
      <4>2. t[Len(t)] = t[1] /\ t[1][1] = "match"
        BY <2>3
      <4> QED BY <2>3, <2>5, <4>1, <4>2
    <3> QED BY <3>1, <3>2
  <2> HIDE DEF q
  <2> QED BY <1>1, <1>2, <2>1, <2>6, ThinkOrder DEF near
<1>7. CASE FastInverted
  <2> DEFINE end == IF Hits = {} THEN len ELSE FirstHit
             room == IF HasLimit THEN Greater(config.limit - count, 1) ELSE len
             upto == Lesser(end, pos + room)
             t == Span("inverted", pos, upto)
             v == Greater(last_line_visited, AfterEnd(pos))
             q == AfterContext(pos, count) \o BeforeContext(pos, v) \o t
             n == IF Exceeded(count + (upto - pos)) THEN "fastEnd" ELSE "fast"
  <2>1. /\ pos' = (IF Hits = {} THEN len ELSE end + 1)
        /\ IF pos = end THEN pc' = "fast" /\ UNCHANGED planVars
           ELSE Planned(q, n, "fastEnd")
        /\ pc = "fast" /\ pos < len
    BY <1>7 DEF FastInverted
  <2>2. end \in Nat /\ pos <= end /\ end <= len
    BY <1>0, <1>2, FirstHitIs
  <2>3. upto \in Nat /\ upto <= end /\ (pos < end => pos < upto) /\ pos <= upto
    BY <1>0, <2>1, <2>2 DEF Lesser, Greater
  <2>4. pos' \in Nat /\ upto <= pos' /\ last_line_visited <= pos'
    BY <1>0, <1>2, <2>1, <2>2, <2>3
  <2>5. v \in Nat
    BY <1>0 DEF Greater, AfterEnd, Lesser
  <2>6. CASE pos = end
    <3>1. pc' = "fast" /\ UNCHANGED planVars
      BY <2>1, <2>6
    <3> QED BY <1>1, <1>2, <2>4, <3>1, GoOrder
  <2>7. CASE pos # end
    <3>1. Planned(q, n, "fastEnd")
      BY <2>1, <2>7
    <3> HIDE DEF end, v, room
    <3>2. pos < upto
      BY <1>0, <2>2, <2>3, <2>7
    <3> HIDE DEF upto
    <3> DEFINE near == "fastEnd" = "fastEnd"
    <3>3. "inverted" \in Kinds /\ near \in BOOLEAN
      BY DEF Kinds
    <3> HIDE DEF near
    <3>4. /\ t \in Seq(Entry) /\ Len(t) \in Nat /\ t # <<>>
          /\ \A i \in 1 .. Len(t) : t[i][1] = "inverted"
          /\ Chain(t, pos, near)
          /\ t[Len(t)][3] = upto
      <4>1. pos <= Greater(pos, len - 1 - config.before)
        BY <1>0 DEF Greater
      <4>2. /\ Chain(t, pos, near) /\ EndOf(t, pos) = upto
        BY <1>0, <2>3, <3>2, <3>3, <4>1, ChainSpan
      <4>3. /\ t \in Seq(Entry) /\ Len(t) = Greater(upto - pos, 0)
            /\ \A i \in 1 .. Len(t) : t[i] = <<"inverted", pos + i - 1, pos + i>>
        BY <1>0, <2>3, <3>3, SpanIs
      <4> HIDE DEF t
      <4>4. Len(t) \in Nat /\ Len(t) # 0 /\ t # <<>>
        BY <1>0, <2>3, <3>2, <4>3 DEF Greater
      <4>5. t[Len(t)][3] = upto
        BY <4>2, <4>4 DEF EndOf
      <4> QED BY <4>2, <4>3, <4>4, <4>5
    <3> HIDE DEF t
    <3>5. Chain(q, last_line_visited, near)
      BY <1>0, <2>1, <3>3, <3>4, ChainAround DEF v
    <3> DEFINE K == {"after", "before", "inverted"} \cup (IF Exceeded(count) THEN {"again"} ELSE {})
    <3>6. /\ \A i \in 1 .. Len(q) : q[i][1] \in K
          /\ q[Len(q)] = t[Len(t)] /\ q # <<>>
      <4>1. /\ "after" \in K /\ "before" \in K /\ (Exceeded(count) => "again" \in K)
            /\ \A i \in 1 .. Len(t) : t[i][1] \in K
        BY <3>4
      <4> HIDE DEF K
      <4>2. /\ q \in Seq(Entry)
            /\ \A i \in 1 .. Len(q) : q[i][1] \in K
            /\ t # <<>> => q[Len(q)] = t[Len(t)] /\ q # <<>>
        BY <1>0, <2>5, <3>4, <4>1, AroundKinds
      <4> QED BY <3>4, <4>2
    <3>7. n = "fast" => ~Exceeded(count)
      <4>1. Exceeded(count) => Exceeded(count + (upto - pos))
        BY <1>0, <2>3 DEF Exceeded
      <4> QED BY <4>1
    <3> HIDE DEF q
    <3>8. n = "fast" => \A i \in 1 .. Len(q) : q[i][1] \notin {"match", "again"}
      BY <3>6, <3>7
    <3>9. n \in {"fast", "fastEnd"} /\ q[Len(q)][3] = upto
      BY <3>4, <3>6
    <3> HIDE DEF n
    <3> QED BY <1>1, <1>2, <2>4, <3>1, <3>5, <3>6, <3>8, <3>9, ThinkOrder DEF near
  <2> QED BY <2>6, <2>7
<1> QED BY <1>3, <1>4, <1>5, <1>6, <1>7 DEF Fast

LEMMA RunOrder ==
    ASSUME Shape, OrderInv, MatchByLine \/ More \/ Begin \/ Stop \/ Finish, UNCHANGED multiVars
    PROVE  OrderInv'
<1>1. CASE MatchByLine \/ More
  <2>1. Thinks /\ UNCHANGED planVars /\ pos' = pos /\ pc \in {"match", "more"}
    BY <1>1 DEF MatchByLine, More, Thinks, multiVars
  <2>2. ~config.multi /\ last_line_visited <= pos
    BY <2>1, ByLineStage DEF OrderInv
  <2>3. pc' # "sink"
    <3>1. pos \in Nat /\ len \in Nat /\ pos <= len /\ config.slice \in BOOLEAN
      BY <2>1, ByLineStage, Numbers
    <3>2. pos < len \/ pos = len
      BY <3>1
    <3> QED BY <1>1, <3>1, <3>2 DEF MatchByLine, More
  <2> QED BY <2>1, <2>2, <2>3, GoOrder
<1>2. CASE Begin
  <2>1. /\ UNCHANGED <<config, len, pos, last_line_counted, last_line_visited>>
        /\ pc = "begin"
    BY <1>2 DEF Begin, bufVars, lineVars, ctxVars
  <2>2. pc' # "sink"
    <3>1. Shape'
      BY <1>2, BeginShape
    <3>2. pc' = "sink" => FALSE
      BY <1>2 DEF Begin, Answers, Shape, InputInv, Config
    <3> QED BY <3>2
  <2>3. (Greater(last_line_visited, len - 1 - config.before))'
          = Greater(last_line_visited, len - 1 - config.before)
    BY <2>1 DEF Greater
  <2> QED BY <2>1, <2>2, <2>3 DEF OrderInv
<1>3. CASE Stop \/ Finish
  <2>1. pc' \in {"finish", "done"}
    BY <1>3 DEF Stop, Finish
  <2> QED BY <2>1 DEF OrderInv
<1> QED BY <1>1, <1>2, <1>3

LEMMA SinkOrder ==
    ASSUME Shape, OrderInv, Sink, UNCHANGED multiVars
    PROVE  OrderInv'
<1> SUFFICES ASSUME ~config.multi PROVE OrderInv'
  BY DEF OrderInv, Sink
<1> DEFINE kind == Head(plan)[1]
           p == Head(plan)[2]
           q == Head(plan)[3]
           L == len - 1 - config.before
           near == onstop = "fastEnd"
<1>1. pc = "sink"
  BY DEF Sink
<1>2. /\ \/ last_line_counted' = last_line_counted
         \/ last_line_counted' = Greater(last_line_counted, p)
      /\ \/ /\ last_line_visited' = q
            /\ plan' = Tail(plan)
            /\ pc' = IF plan' = <<>> THEN next ELSE "sink"
         \/ last_line_visited' = last_line_visited /\ plan' = <<>> /\ pc' = onstop
      /\ pos' = IF kind \in {"match", "again"} THEN StartOf(q) ELSE pos
  BY DEF Sink, lineVars, ctxVars
<1>3. UNCHANGED <<config, len, next, onstop>>
  BY DEF Sink, bufVars
<1>4. /\ plan \in Seq(Entry) /\ plan # <<>> /\ Len(plan) \in Nat /\ 1 \in 1 .. Len(plan)
      /\ Head(plan) = plan[1]
      /\ kind \in Kinds /\ p \in Nat /\ q \in Nat /\ p < q
      /\ Tail(plan) \in Seq(Entry) /\ Len(Tail(plan)) = Len(plan) - 1
      /\ \A i \in 1 .. Len(plan) - 1 : Tail(plan)[i] = plan[i + 1]
  <2> DEFINE kk == kind
             pp == p
             qq == q
  <2>1. kk = Head(plan)[1] /\ pp = Head(plan)[2] /\ qq = Head(plan)[3]
    OBVIOUS
  <2> HIDE DEF kk, pp, qq
  <2>2. /\ plan \in Seq(Entry) /\ plan # <<>> /\ Len(plan) \in Nat /\ 1 \in 1 .. Len(plan)
        /\ Head(plan) = plan[1] /\ kk \in Kinds /\ pp \in Nat /\ qq \in Nat /\ pp < qq
        /\ Tail(plan) \in Seq(Entry) /\ Len(Tail(plan)) = Len(plan) - 1
        /\ \A i \in 1 .. Len(plan) - 1 : Tail(plan)[i] = plan[i + 1]
    BY <1>1, <2>1, HeadIs
  <2> QED BY <2>2 DEF kk, pp, qq
<1>5. /\ Chain(plan, last_line_visited, near)
      /\ next \in {"slow", "fast"} => Ahead(plan)
      /\ last_line_counted <= Greater(last_line_visited, L)
  BY <1>1 DEF OrderInv
<1>6. /\ last_line_counted \in Nat /\ last_line_visited \in Nat /\ len \in Nat
      /\ config.before \in Nat /\ pos \in Nat /\ StartOf(q) = q
      /\ next \notin {"sink", "begin", "fill", "match", "more"} /\ onstop \in {"stop", "fastEnd"}
  <2>1. StartOf(q) = q
    BY <1>4, StartIs DEF Shape
  <2>2. next \notin {"sink", "begin", "fill", "match", "more"} /\ onstop \in {"stop", "fastEnd"}
    BY <1>1 DEF Shape, StageInv, Goals, StopGoals, ByLine
  <2> QED BY <2>1, <2>2, Numbers DEF Shape, TypeInv
<1>7. plan[1][1] = kind /\ plan[1][2] = p /\ plan[1][3] = q
  BY <1>4
<1> HIDE DEF kind, p, q
<1>8. /\ last_line_visited <= p
      /\ near => p <= Greater(last_line_visited, L)
  BY <1>4, <1>5, <1>7 DEF Chain
<1>9. (Greater(last_line_visited, len - 1 - config.before))' = Greater(last_line_visited', L)
  BY <1>3 DEF Greater
<1>10. CASE /\ last_line_visited' = last_line_visited /\ plan' = <<>> /\ pc' = onstop
  <2>1. pc' = "fastEnd" => last_line_counted' <= Greater(last_line_visited', L)
    <3> SUFFICES ASSUME pc' = "fastEnd" PROVE last_line_counted' <= Greater(last_line_visited', L)
      OBVIOUS
    <3>1. p <= Greater(last_line_visited, L)
      BY <1>8, <1>10
    <3>2. last_line_counted' = last_line_counted \/ last_line_counted' = p
      BY <1>2, <1>4, <1>6 DEF Greater
    <3> QED BY <1>5, <1>10, <3>1, <3>2
  <2> QED BY <1>6, <1>9, <1>10, <2>1 DEF OrderInv
<1>11. CASE /\ last_line_visited' = q
            /\ plan' = Tail(plan)
            /\ pc' = IF plan' = <<>> THEN next ELSE "sink"
  <2>1. last_line_counted' <= Greater(last_line_visited', L)
    <3>1. last_line_counted' = last_line_counted \/ last_line_counted' = p
      BY <1>2, <1>4, <1>6 DEF Greater
    <3>2. last_line_counted <= Greater(q, L)
      BY <1>4, <1>5, <1>6, <1>8 DEF Greater
    <3>3. p <= Greater(q, L)
      BY <1>4, <1>6 DEF Greater
    <3> QED BY <1>11, <3>1, <3>2, <3>3
  <2>2. CASE plan' = <<>>
    <3>1. Len(plan) = 1 /\ pc' = next
      <4>1. Len(plan') = 0
        BY <2>2
      <4> QED BY <1>4, <1>11, <2>2, <4>1
    <3>2. next \in {"slow", "fast"} => last_line_visited' <= pos'
      <4> SUFFICES ASSUME next \in {"slow", "fast"} PROVE last_line_visited' <= pos'
        OBVIOUS
      <4>1. \/ kind = "match"
            \/ q <= pos /\ kind \notin {"match", "again"}
        BY <1>4, <1>5, <1>7, <3>1 DEF Ahead
      <4>2. pos' = q \/ (pos' = pos /\ kind \notin {"match", "again"})
        BY <1>2, <1>6
      <4>3. kind = "match" => pos' = q
        BY <1>2, <1>6
      <4> QED BY <1>4, <1>11, <4>1, <4>2, <4>3
    <3> QED BY <1>6, <1>9, <2>1, <3>1, <3>2 DEF OrderInv
  <2>3. CASE plan' # <<>>
    <3>1. pc' = "sink" /\ Len(plan) >= 2 /\ Len(plan') = Len(plan) - 1
      <4>1. Len(plan') # 0
        BY <1>4, <1>11, <2>3
      <4> QED BY <1>4, <1>11, <2>3, <4>1
    <3>2. Chain(plan', q, near)
      <4>1. ASSUME NEW i \in 1 .. Len(plan')
            PROVE  LET from == IF i = 1 THEN q ELSE plan'[i - 1][3]
                   IN  /\ from <= plan'[i][2] /\ plan'[i][2] < plan'[i][3]
                       /\ near => plan'[i][2] <= Greater(from, len - 1 - config.before)
        <5>1. i + 1 \in 1 .. Len(plan) /\ i + 1 # 1 /\ (i + 1) - 1 = i /\ plan'[i] = plan[i + 1]
          BY <1>4, <1>11, <3>1
        <5>2. (IF i = 1 THEN q ELSE plan'[i - 1][3]) = plan[i][3]
          <6>1. CASE i = 1
            BY <1>7, <6>1
          <6>2. CASE i # 1
            <7>1. i - 1 \in 1 .. Len(plan) - 1 /\ (i - 1) + 1 = i
              BY <1>4, <3>1, <6>2
            <7> QED BY <1>4, <1>11, <6>2, <7>1
          <6> QED BY <6>1, <6>2
        <5>3. /\ plan[i][3] <= plan[i + 1][2] /\ plan[i + 1][2] < plan[i + 1][3]
              /\ near => plan[i + 1][2] <= Greater(plan[i][3], len - 1 - config.before)
          BY <1>5, <5>1 DEF Chain
        <5> QED BY <5>1, <5>2, <5>3
      <4> QED BY <4>1 DEF Chain
    <3>3. Chain(plan, last_line_visited, onstop = "fastEnd")'
      BY <1>3, <1>11, <3>2 DEF Chain, Greater
    <3>4. next \in {"slow", "fast"} => Ahead(plan)'
      <4> SUFFICES ASSUME next \in {"slow", "fast"} PROVE Ahead(plan)'
        OBVIOUS
      <4>1. Ahead(plan)
        BY <1>5
      <4>2. plan'[Len(plan')] = plan[Len(plan)]
        <5>1. Len(plan') \in 1 .. Len(plan) - 1 /\ Len(plan') + 1 = Len(plan)
          BY <1>4, <3>1
        <5> QED BY <1>4, <1>11, <5>1
      <4>3. CASE plan[Len(plan)][1] = "match"
        BY <4>2, <4>3 DEF Ahead
      <4>4. CASE plan[Len(plan)][1] # "match"
        <5>1. plan[Len(plan)][3] <= pos /\ \A i \in 1 .. Len(plan) : plan[i][1] \notin {"match", "again"}
          BY <4>1, <4>4 DEF Ahead
        <5>2. pos' = pos
          BY <1>2, <1>4, <1>7, <5>1
        <5>3. \A i \in 1 .. Len(plan') : plan'[i][1] \notin {"match", "again"}
          <6>1. \A i \in 1 .. Len(plan') : plan'[i] = plan[i + 1] /\ i + 1 \in 1 .. Len(plan)
            BY <1>4, <1>11, <3>1
          <6> QED BY <5>1, <6>1
        <5> QED BY <4>2, <5>1, <5>2, <5>3 DEF Ahead
      <4> QED BY <4>3, <4>4
    <3>5. next' = next
      BY <1>3
    <3> QED BY <1>9, <2>1, <3>1, <3>3, <3>4, <3>5 DEF OrderInv
  <2> QED BY <2>2, <2>3
<1> QED BY <1>2, <1>10, <1>11
-----------------------------------------------------------------------------
(* The invariant.                                                          *)

LEMMA ShapeInit ==
    ASSUME MultiInit
    PROVE  Shape /\ OrderInv
<1>1. PICK x \in Cases : InitWith(x) /\ hits = x.hits
  BY DEF MultiInit
<1>2. /\ input = x.input /\ config = x.config /\ base = 0
      /\ len = (IF config.slice THEN Len(input) ELSE 0)
      /\ pos = 0 /\ absolute_byte_offset = 0
      /\ line_number = 1 /\ last_line_counted = 0
      /\ last_line_visited = 0 /\ after_context_left = 0
      /\ has_sunk = FALSE /\ has_matched = FALSE /\ count = 0
      /\ binary_byte_offset = -1
      /\ pc = "begin"
      /\ plan = <<>>
      /\ events = <<>> /\ refused = FALSE /\ byte_count = -1
      /\ hits = x.hits
  BY <1>1 DEF InitWith
<1>3. input \in Seq(Line) /\ config \in Config /\ Len(input) \in Nat
  BY <1>2, CasesAssumption
<1>4. config.multi => /\ config.slice /\ ~config.stop_on_nonmatch
                      /\ input = <<>> => config.terminated
                      /\ \A h \in DOMAIN hits :
                            /\ h \in Nat /\ hits[h] \in Nat /\ hits[h] >= h
                            /\ hits[h] <= 2 * Len(input) - (IF config.terminated THEN 0 ELSE 1)
  BY <1>2, MultiAssumption
<1>5. InputInv
  <2>1. config.multi => TextEnd \in Nat
    <3>1. CASE input = <<>>
      BY <1>3, <1>4, <3>1 DEF TextEnd
    <3>2. CASE input # <<>>
      <4>1. Len(input) >= 1
        BY <1>3, <3>2
      <4>2. TextEnd = 2 * Len(input) \/ TextEnd = 2 * Len(input) - 1
        BY <1>3 DEF TextEnd
      <4> QED BY <1>3, <4>1, <4>2
    <3> QED BY <3>1, <3>2
  <2>2. config.multi => \A h \in DOMAIN hits : h \in Nat /\ hits[h] \in Nat /\ h <= hits[h]
                                               /\ hits[h] <= TextEnd
    BY <1>3, <1>4 DEF TextEnd
  <2> QED BY <1>3, <1>4, <2>1, <2>2 DEF InputInv
<1>6. /\ config.after \in Nat /\ config.before \in Nat /\ config.slice \in BOOLEAN
      /\ StartOf(Len(input)) \in Nat /\ len \in Nat
      /\ StartOf(len) \in Nat
  <2>1. config.after \in Nat /\ config.before \in Nat /\ config.slice \in BOOLEAN
    BY <1>3 DEF Config
  <2>2. len \in Nat
    BY <1>2, <1>3
  <2> QED BY <1>3, <1>5, <2>1, <2>2, StartIs
<1>7. TypeInv
  <2>1. last_match = NoMatch
    BY DEF MultiInit
  <2>2. last_match \in [start : Int, end : Int]
    BY <2>1 DEF NoMatch
  <2>3. plan \in Seq(Entry) /\ events \in Seq(Events) /\ pc \in Stages
    BY <1>2 DEF Stages
  <2>4. base \in Nat /\ len \in Nat /\ base + len <= Len(input)
    BY <1>2, <1>3, <1>6
  <2>5. /\ after_context_left \in 0 .. config.after
        /\ binary_byte_offset \in -1 .. Len(input)
        /\ byte_count \in -1 .. StartOf(Len(input))
    BY <1>2, <1>3, <1>6
  <2> QED BY <1>2, <1>3, <1>6, <2>1, <2>2, <2>3, <2>4, <2>5 DEF TypeInv
<1>8. StageInv /\ PlanInv
  BY <1>2, <1>6 DEF StageInv, PlanInv
<1>9. PosInv
  BY <1>2, <1>6 DEF PosInv
<1>10. OrderInv
  BY <1>2, <1>6 DEF OrderInv, Greater
<1> QED BY <1>5, <1>7, <1>8, <1>9, <1>10 DEF Shape

LEMMA ShapeStep ==
    ASSUME Shape, OrderInv, [SearcherNext]_allVars
    PROVE  Shape' /\ OrderInv'
<1>1. CASE UNCHANGED allVars
  <2>1. UNCHANGED <<input, config, base, len, pos, absolute_byte_offset, line_number,
                    last_line_counted, last_line_visited, after_context_left, has_sunk,
                    has_matched, count, binary_byte_offset, pc, plan, next, onstop, events,
                    refused, byte_count, hits, last_match>>
    BY <1>1 DEF allVars, vars, multiVars, bufVars, lineVars, ctxVars, planVars, sinkVars
  <2>2. /\ InputInv' /\ Goals' = Goals /\ StopGoals' = StopGoals
        /\ StartOf(Len(input))' = StartOf(Len(input))
    BY <2>1, SetUpSame DEF Shape
  <2>3. StartOf(len)' = StartOf(len)
    BY <2>1 DEF StartOf, TextEnd
  <2>4. TypeInv'
    BY <2>1, <2>2 DEF Shape, TypeInv, NoMatch
  <2>5. StageInv' /\ PosInv'
    BY <2>1, <2>2, <2>3 DEF Shape, StageInv, PosInv
  <2>6. PlanInv'
    BY <2>1 DEF Shape, PlanInv, Sinkable
  <2>7. OrderInv'
    BY <2>1 DEF OrderInv, Chain, Ahead, Greater
  <2> QED BY <2>2, <2>4, <2>5, <2>6, <2>7 DEF Shape
<1>2. CASE MultiNext
  <2>1. Shape'
    BY <1>2, MultiShape
  <2>2. config.multi /\ config' = config
    BY <1>2 DEF MultiNext, FindNone, FindMatch, FindInverted, LastMatch, Trail, Shape, StageInv,
       Goals, ByLine
  <2> QED BY <2>1, <2>2 DEF OrderInv
<1>3. CASE Next /\ UNCHANGED multiVars
  <2>1. CASE Sink
    BY <1>3, <2>1, SinkShape, SinkOrder
  <2>2. CASE Slow
    BY <1>3, <2>2, SlowShape, SlowOrder
  <2>3. CASE Fast
    BY <1>3, <2>3, FastShape, FastOrder
  <2>4. CASE Begin
    BY <1>3, <2>4, BeginShape, RunOrder
  <2>5. CASE Fill
    BY <1>3, <2>5, FillShape
  <2>6. CASE MatchByLine \/ More
    BY <1>3, <2>6, RunShape, RunOrder
  <2>7. CASE Stop \/ Finish
    BY <1>3, <2>7, EndShape, RunOrder
  <2>8. CASE Done
    BY <1>1, <1>3, <2>8 DEF Done, allVars
  <2> QED BY <1>3, <2>1, <2>2, <2>3, <2>4, <2>5, <2>6, <2>7, <2>8 DEF Next, Run
<1> QED BY <1>1, <1>2, <1>3 DEF SearcherNext

LEMMA ShapeCorrect == SearcherSpec => [](Shape /\ OrderInv)
<1>1. MultiInit => Shape /\ OrderInv
  BY ShapeInit
<1>2. (Shape /\ OrderInv) /\ [SearcherNext]_allVars => (Shape /\ OrderInv)'
  BY ShapeStep
<1> QED BY <1>1, <1>2, PTL DEF SearcherSpec

\* Types; every position lies within the buffer, the offsets are those of the
\* buffer in the input, and the asserts of the code hold: the buffer is filled
\* only when all of it has been searched, and a line is sunk as after context
\* only while there is some left to show.
THEOREM TypeOKCorrect == SearcherSpec => []TypeOK
<1>1. Shape => TypeOK
  <2> SUFFICES ASSUME Shape PROVE TypeOK
    OBVIOUS
  <2>1. pc = "fill" => pos = len
    BY DEF Shape, StageInv
  <2>2. pc = "sink" /\ Head(plan)[1] \in {"after", "again"} => after_context_left >= 1
    <3> DEFINE kind == Head(plan)[1]
               p == Head(plan)[2]
               q == Head(plan)[3]
    <3>1. kind = Head(plan)[1] /\ p = Head(plan)[2] /\ q = Head(plan)[3]
      OBVIOUS
    <3> HIDE DEF kind, p, q
    <3>2. pc = "sink" /\ kind \in After => 1 <= after_context_left
      BY <3>1, HeadIs
    <3>3. after_context_left \in Nat
      BY Numbers
    <3> QED BY <3>1, <3>2, <3>3 DEF After
  <2>3. pc \notin {"finish", "done"} =>
          /\ {last_line_counted, last_line_visited} \subseteq 0 .. len
          /\ pos \in 0 .. StartOf(len)
          /\ absolute_byte_offset = base
          /\ line_number = base + last_line_counted + 1
    BY StartIs DEF Shape, TypeInv, PosInv
  <2> QED BY <2>1, <2>2, <2>3 DEF Shape, InputInv, TypeInv, TypeOK
<1> QED BY <1>1, ShapeCorrect, PTL
-----------------------------------------------------------------------------
(* Binary data.                                                            *)

Told == {i \in 1 .. Len(events) : events[i].kind = "binary"}
HasBinary(e) == \E j \in e.line .. e.last : j > 0 /\ input[j].bin

\* The offset is there when the sink has been told, which it is once; a reader
\* has inspected all the lines of its buffer.
ToldInv ==
    /\ \A i, j \in Told : i = j
    /\ IsBinary <=> Told # {}
    /\ config.detection # "none" =>
          /\ ~config.slice /\ ~IsBinary => \A j \in 1 .. base + len : ~input[j].bin
          /\ \A i \in 1 .. Len(events) : HasBinary(events[i]) => \E t \in Told : t < i
    /\ Quits => Told \subseteq {Len(events)}

\* Once the file has been given up there is nothing left to call the sink for:
\* what is still planned are lines that are spoilt, without a break.
SilentInv ==
    /\ pc = "begin" => events = <<>> /\ ~IsBinary
    /\ Quits /\ IsBinary =>
          \/ pc \in {"finish", "done"}
          \/ config.slice /\ pc \in {"stop", "trail", "fastEnd", "fastDone"}
          \/ config.slice /\ pc = "more" /\ pos = len
          \/ /\ config.slice /\ pc = "sink" /\ onstop \in {"stop", "finish"}
             /\ \A i \in 1 .. Len(plan) : plan[i][1] \in {"after", "again", "other"}

\* A step without a call of the sink.
LEMMA ToldKept ==
    ASSUME ToldInv, UNCHANGED <<events, input, config, binary_byte_offset>>,
           config.slice \/ base' + len' = base + len
    PROVE  ToldInv'
<1>1. Told' = Told /\ IsBinary' = IsBinary /\ Quits' = Quits
  BY DEF Told, IsBinary, Quits
<1>2. \A e : HasBinary(e)' = HasBinary(e)
  BY DEF HasBinary
<1>3. Told \subseteq {Len(events)} => (Told \subseteq {Len(events)})'
  BY <1>1
<1>4. config.detection # "none" =>
          /\ ~config.slice /\ ~IsBinary => \A j \in 1 .. base' + len' : ~input[j].bin
          /\ \A i \in 1 .. Len(events) : HasBinary(events[i]) => \E t \in Told : t < i
  BY DEF ToldInv
<1>5. config.detection' # "none" =>
          /\ ~config'.slice /\ ~IsBinary' => \A j \in 1 .. base' + len' : ~input'[j].bin
          /\ \A i \in 1 .. Len(events') : HasBinary(events[i])' => \E t \in Told' : t < i
  <2>1. \A i \in 1 .. Len(events') : HasBinary(events[i])' = HasBinary(events[i])
    BY DEF HasBinary
  <2> QED BY <1>1, <1>4, <2>1
<1> QED BY <1>1, <1>3, <1>5 DEF ToldInv

\* A step with calls of the sink.
LEMMA ToldMore ==
    ASSUME Shape, ToldInv, UNCHANGED <<input, config>>,
           NEW s \in Seq(Events), events' = events \o s,
           \A i \in 1 .. Len(s) : s[i].kind = "binary" =>
              /\ ~IsBinary /\ (Quits => i = Len(s))
              /\ \A j \in 1 .. Len(s) : s[j].kind = "binary" => j = i,
           IsBinary' <=> IsBinary \/ \E i \in 1 .. Len(s) : s[i].kind = "binary",
           config.detection # "none" =>
              \A i \in 1 .. Len(s) : HasBinary(s[i]) =>
                  IsBinary \/ \E j \in 1 .. i - 1 : s[j].kind = "binary",
           Quits /\ IsBinary => s = <<>>,
           config.detection # "none" /\ ~config.slice /\ ~IsBinary' =>
              \A j \in 1 .. base' + len' : ~input[j].bin
    PROVE  ToldInv'
<1> DEFINE m == Len(events)
<1>1. /\ events \in Seq(Events) /\ m \in Nat /\ Len(s) \in Nat
      /\ Len(events') = m + Len(s)
      /\ \A i \in 1 .. m : events'[i] = events[i]
      /\ \A i \in (m + 1) .. (m + Len(s)) : events'[i] = s[i - m]
      /\ \A i \in 1 .. Len(s) : events'[m + i] = s[i]
  <2>1. events \in Seq(Events)
    BY DEF Shape, TypeInv
  <2> QED BY <2>1, Joined
<1> HIDE DEF m
<1>2. Told = {i \in 1 .. m : events[i].kind = "binary"}
  BY DEF Told, m
<1>3. Told' = {i \in 1 .. m + Len(s) : events'[i].kind = "binary"}
  BY <1>1 DEF Told
<1>4. /\ \A i \in Told : i \in Told' /\ i <= m
      /\ \A i \in 1 .. Len(s) : s[i].kind = "binary" => m + i \in Told'
      /\ \A i \in Told' : i \in Told \/ (i > m /\ i - m \in 1 .. Len(s) /\ s[i - m].kind = "binary")
  BY <1>1, <1>2, <1>3
<1>5. IsBinary <=> Told # {}
  BY DEF ToldInv
<1>6. \A i, j \in Told' : i = j
  <2> SUFFICES ASSUME NEW i \in Told', NEW j \in Told' PROVE i = j
    OBVIOUS
  <2>1. i \in Nat /\ j \in Nat
    BY <1>1, <1>3
  <2>2. CASE IsBinary
    <3>1. i \in Told /\ j \in Told
      BY <1>4, <2>2
    <3> QED BY <3>1 DEF ToldInv
  <2>3. CASE ~IsBinary
    <3>1. /\ i - m \in 1 .. Len(s) /\ s[i - m].kind = "binary"
          /\ j - m \in 1 .. Len(s) /\ s[j - m].kind = "binary"
      BY <1>4, <1>5, <2>3
    <3>2. i - m = j - m
      BY <3>1
    <3> QED BY <1>1, <2>1, <3>2
  <2> QED BY <2>2, <2>3
<1>7. IsBinary' <=> Told' # {}
  <2>1. CASE IsBinary
    BY <1>4, <1>5, <2>1
  <2>2. CASE ~IsBinary
    <3>1. (\E i \in 1 .. Len(s) : s[i].kind = "binary") <=> Told' # {}
      BY <1>4, <1>5, <2>2
    <3> QED BY <2>2, <3>1
  <2> QED BY <2>1, <2>2
<1>8. Quits' => Told' \subseteq {m + Len(s)}
  <2> SUFFICES ASSUME Quits, NEW i \in Told' PROVE i = m + Len(s)
    BY DEF Quits
  <2>1. CASE IsBinary
    <3>1. s = <<>> /\ i \in Told /\ i = m
      BY <1>4, <2>1 DEF ToldInv, m
    <3> QED BY <1>1, <3>1
  <2>2. CASE ~IsBinary
    <3>1. i > m /\ i - m \in 1 .. Len(s) /\ s[i - m].kind = "binary"
      BY <1>4, <1>5, <2>2
    <3>2. i - m = Len(s) /\ i \in Nat
      BY <1>1, <1>3, <3>1
    <3> QED BY <1>1, <3>2
  <2> QED BY <2>1, <2>2
<1>9. ASSUME config.detection # "none", NEW i \in 1 .. m + Len(s), HasBinary(events'[i])
      PROVE  \E t \in Told' : t < i
  <2>1. CASE i <= m
    <3>1. i \in 1 .. m /\ HasBinary(events[i])
      BY <1>1, <1>9, <2>1
    <3>2. \E t \in Told : t < i
      BY <1>9, <3>1 DEF ToldInv, m
    <3> QED BY <1>4, <3>2
  <2>2. CASE i > m
    <3>1. i - m \in 1 .. Len(s) /\ events'[i] = s[i - m]
      BY <1>1, <2>2
    <3>2. IsBinary \/ \E j \in 1 .. (i - m) - 1 : s[j].kind = "binary"
      BY <1>9, <3>1
    <3>3. CASE IsBinary
      <4>1. PICK t \in Told : TRUE
        BY <1>5, <3>3
      <4>2. t \in Told' /\ t <= m
        BY <1>4
      <4>3. t \in Nat
        BY <1>1, <1>2
      <4> QED BY <1>1, <2>2, <4>2, <4>3
    <3>4. CASE \E j \in 1 .. (i - m) - 1 : s[j].kind = "binary"
      <4>1. PICK j \in 1 .. (i - m) - 1 : s[j].kind = "binary"
        BY <3>4
      <4>2. j \in 1 .. Len(s) /\ m + j < i
        BY <1>1, <3>1
      <4> QED BY <1>4, <4>1, <4>2
    <3> QED BY <3>2, <3>3, <3>4
  <2> QED BY <1>1, <2>1, <2>2
<1>10. \A e : HasBinary(e)' <=> HasBinary(e)
  BY DEF HasBinary
<1>11. config'.detection # "none" =>
          /\ ~config'.slice /\ ~IsBinary' => \A j \in 1 .. base' + len' : ~input'[j].bin
          /\ \A i \in 1 .. Len(events') : HasBinary(events[i])' => \E t \in Told' : t < i
  <2>1. \A i \in 1 .. Len(events') : HasBinary(events[i])' <=> HasBinary(events'[i])
    BY DEF HasBinary
  <2> QED BY <1>1, <1>9, <2>1
<1>12. Quits' => Told' \subseteq {Len(events')}
  BY <1>1, <1>8
<1> QED BY <1>6, <1>7, <1>11, <1>12 DEF ToldInv

LEMMA ThinkTold ==
    ASSUME ToldInv, Thinks
    PROVE  ToldInv'
<1>1. /\ UNCHANGED <<events, input, config, binary_byte_offset>>
      /\ base' + len' = base + len
  BY DEF Thinks, sinkVars, bufVars
<1> QED BY <1>1, ToldKept

LEMMA ByLineSilent ==
    ASSUME Shape, SilentInv, Slow \/ Fast \/ MatchByLine \/ More, UNCHANGED multiVars
    PROVE  Thinks /\ SilentInv'
<1>1. Thinks
  BY DEF Slow, SlowStops, SlowEnds, SlowLine, Fast, FastSwitches, FastMatch, FastInverted,
     FastLoopEnds, FastContext, FastDone, MatchByLine, More, Thinks, multiVars
<1>2. IsBinary' = IsBinary /\ Quits' = Quits /\ config' = config /\ len' = len
  BY <1>1 DEF Thinks, IsBinary, Quits, bufVars
<1>3. pc \in {"slow", "fast", "fastEnd", "fastDone", "match", "more"}
  BY DEF Slow, SlowStops, SlowEnds, SlowLine, Fast, FastSwitches, FastMatch, FastInverted,
     FastLoopEnds, FastContext, FastDone, MatchByLine, More
<1>4. pos \in Nat /\ len \in Nat /\ pos <= len /\ config.slice \in BOOLEAN
  BY <1>3, ByLineStage, Numbers
<1>5. pc' # "begin"
  <2>1. CASE Slow
    BY <2>1 DEF Slow, SlowStops, SlowEnds, SlowLine, Planned
  <2>2. CASE Fast
    BY <2>2 DEF Fast, FastSwitches, FastMatch, FastInverted, FastLoopEnds, FastContext, FastDone,
       Planned
  <2>3. CASE MatchByLine
    BY <2>3 DEF MatchByLine
  <2>4. CASE More
    <3>1. pos < len \/ pos = len
      BY <1>4
    <3> QED BY <1>4, <2>4, <3>1 DEF More
  <2> QED BY <2>1, <2>2, <2>3, <2>4
<1>6. ASSUME Quits, IsBinary
      PROVE  /\ config.slice
             /\ \/ pc' \in {"finish", "stop", "fastDone"}
                \/ pc' = "more" /\ pos' = len
                \/ /\ pc' = "sink" /\ onstop' \in {"stop", "finish"}
                   /\ \A i \in 1 .. Len(plan') : plan'[i][1] \in {"after", "again", "other"}
  <2>1. config.slice /\ (pc \in {"fastEnd", "fastDone"} \/ (pc = "more" /\ pos = len))
    BY <1>3, <1>6 DEF SilentInv
  <2>2. CASE pc = "fastEnd"
    <3>1. FastContext
      BY <2>2 DEF Slow, SlowStops, SlowEnds, SlowLine, Fast, FastSwitches, FastMatch, FastInverted,
         FastLoopEnds, FastContext, FastDone, MatchByLine, More
    <3> DEFINE q == AfterContext(len, count)
    <3>2. \A i \in 1 .. Len(q) : q[i][1] \in After
      BY <1>4, AfterIs DEF Shape
    <3>3. Planned(q, "fastDone", "stop")
      BY <3>1 DEF FastContext
    <3> HIDE DEF q
    <3> QED BY <2>1, <3>2, <3>3 DEF Planned, After
  <2>3. CASE pc = "fastDone"
    <3>1. FastDone
      BY <2>3 DEF Slow, SlowStops, SlowEnds, SlowLine, Fast, FastSwitches, FastMatch, FastInverted,
         FastLoopEnds, FastContext, FastDone, MatchByLine, More
    <3> QED BY <2>1, <3>1 DEF FastDone
  <2>4. CASE pc = "more" /\ pos = len
    <3>1. More
      BY <2>4 DEF Slow, SlowStops, SlowEnds, SlowLine, Fast, FastSwitches, FastMatch, FastInverted,
         FastLoopEnds, FastContext, FastDone, MatchByLine, More
    <3> QED BY <1>4, <2>1, <2>4, <3>1 DEF More
  <2> QED BY <2>1, <2>2, <2>3, <2>4
<1>7. SilentInv'
  BY <1>2, <1>5, <1>6 DEF SilentInv
<1> QED BY <1>1, <1>7

LEMMA MultiSilent ==
    ASSUME Shape, SilentInv, MultiNext
    PROVE  Thinks /\ SilentInv'
<1>1. Thinks
  BY DEF MultiNext, FindNone, FindMatch, FindInverted, LastMatch, Trail, Thinks, coreVars,
     multiVars
<1>2. IsBinary' = IsBinary /\ Quits' = Quits /\ config' = config
  BY <1>1 DEF Thinks, IsBinary, Quits
<1>3. pc \in {"multi", "trail"} /\ len \in Nat /\ last_line_visited \in Nat
  BY Numbers DEF MultiNext, FindNone, FindMatch, FindInverted, LastMatch, Trail
<1>4. pc' # "begin"
  <2>1. CASE FindNone
    BY <2>1 DEF FindNone
  <2>2. CASE FindMatch
    BY <2>2 DEF FindMatch, Planned
  <2>3. CASE FindInverted
    BY <2>3 DEF FindInverted, Planned
  <2>4. CASE LastMatch
    BY <2>4 DEF LastMatch, Planned
  <2>5. CASE Trail
    BY <2>5 DEF Trail, Planned
  <2> QED BY <2>1, <2>2, <2>3, <2>4, <2>5 DEF MultiNext
<1>5. ASSUME Quits, IsBinary
      PROVE  /\ config.slice
             /\ \/ pc' = "finish"
                \/ /\ pc' = "sink" /\ onstop' \in {"stop", "finish"}
                   /\ \A i \in 1 .. Len(plan') : plan'[i][1] \in {"after", "again", "other"}
  <2>1. config.slice /\ pc = "trail"
    BY <1>3, <1>5 DEF SilentInv
  <2>2. Trail
    BY <2>1 DEF MultiNext, FindNone, FindMatch, FindInverted, LastMatch
  <2> DEFINE q == IF config.passthru THEN Span("other", last_line_visited, len)
                  ELSE AfterContext(len, count)
  <2>3. Planned(q, "finish", "finish")
    BY <2>2 DEF Trail
  <2>4. \A i \in 1 .. Len(q) : q[i][1] \in {"after", "again", "other"}
    <3>1. CASE config.passthru
      <4>1. q = Span("other", last_line_visited, len) /\ "other" \in Kinds
        BY <3>1 DEF Kinds
      <4>2. \A i \in 1 .. Len(Span("other", last_line_visited, len)) :
               Span("other", last_line_visited, len)[i] =
                 <<"other", last_line_visited + i - 1, last_line_visited + i>>
        BY <1>3, <4>1, SpanIs
      <4> DEFINE s == Span("other", last_line_visited, len)
      <4>3. \A i \in 1 .. Len(s) : s[i][1] = "other"
        BY <4>2
      <4> HIDE DEF q, s
      <4> QED BY <4>1, <4>3 DEF s
    <3>2. CASE ~config.passthru
      <4>1. \A i \in 1 .. Len(AfterContext(len, count)) :
              AfterContext(len, count)[i][1] \in After
        BY <1>3, AfterIs DEF Shape
      <4> QED BY <3>2, <4>1 DEF After
    <3> QED BY <3>1, <3>2
  <2> HIDE DEF q
  <2> QED BY <2>1, <2>3, <2>4 DEF Planned
<1>6. SilentInv'
  BY <1>2, <1>4, <1>5 DEF SilentInv
<1> QED BY <1>1, <1>6

LEMMA EndTold ==
    ASSUME Shape, ToldInv, SilentInv, Stop \/ Finish
    PROVE  ToldInv' /\ SilentInv'
<1>1. /\ UNCHANGED <<events, input, config, binary_byte_offset>>
      /\ pc' \in {"finish", "done"}
      /\ config.slice \/ base' + len' = base + len
  <2>1. CASE Stop
    BY <2>1, Numbers DEF Stop, sinkVars
  <2>2. CASE Finish
    BY <2>2 DEF Finish, bufVars
  <2> QED BY <2>1, <2>2
<1>2. ToldInv'
  BY <1>1, ToldKept
<1>3. SilentInv'
  BY <1>1 DEF SilentInv
<1> QED BY <1>2, <1>3

\* The sink is told of binary data, or is not.
LEMMA Noticed ==
    ASSUME NEW s, s = <<>> \/ s = <<BinaryEvent>>
    PROVE  /\ s \in Seq(Events)
           /\ s = <<>> => /\ Len(s) = 0
                          /\ ~ \E i \in 1 .. Len(s) : s[i].kind = "binary"
           /\ s # <<>> => /\ Len(s) = 1 /\ s[1].kind = "binary"
                          /\ \E i \in 1 .. Len(s) : s[i].kind = "binary"
           /\ \A i \in 1 .. Len(s) : i = Len(s) /\ ~HasBinary(s[i])
<1>1. CASE s = <<>>
  BY <1>1
<1>2. CASE s = <<BinaryEvent>>
  <2>1. s \in Seq(Events) /\ Len(s) = 1 /\ s[1] = BinaryEvent /\ s # <<>>
    BY <1>2, EventsOf
  <2>2. ~HasBinary(BinaryEvent)
    BY EventsOf DEF HasBinary
  <2> HIDE DEF Events
  <2>3. \A i \in 1 .. Len(s) : i = 1
    BY <2>1
  <2>4. 1 \in 1 .. Len(s)
    BY <2>1
  <2> QED BY <2>1, <2>2, <2>3, <2>4, EventsOf
<1> QED BY <1>1, <1>2

LEMMA BeginTold ==
    ASSUME Shape, ToldInv, SilentInv, Begin
    PROVE  ToldInv' /\ SilentInv'
<1>1. /\ UNCHANGED <<input, config, base, len, pos>>
      /\ pc = "begin" /\ events = <<>> /\ ~IsBinary
  BY DEF Begin, bufVars, SilentInv
<1>2. PICK ok \in Answers, heard \in Answers :
        LET found == ok /\ config.slice /\ config.detection # "none" /\ BinaryHead # {}
        IN  /\ binary_byte_offset' =
                 IF found THEN (CHOOSE i \in BinaryHead :
                                   \A j \in BinaryHead : i <= j) - 1 ELSE -1
            /\ events' = IF found THEN <<BinaryEvent>> ELSE <<>>
            /\ refused' = (~ok \/ (found /\ ~heard))
            /\ pc' = CASE ~ok \/ (found /\ (Quits \/ ~heard)) -> "finish"
                       [] ok /\ (found => ~Quits /\ heard) /\ config.slice ->
                             IF config.multi THEN "multi" ELSE "more"
                       [] ok /\ ~config.slice -> "fill"
  BY DEF Begin
<1> DEFINE found == ok /\ config.slice /\ config.detection # "none" /\ BinaryHead # {}
           s == IF found THEN <<BinaryEvent>> ELSE <<>>
           least == CHOOSE i \in BinaryHead : \A j \in BinaryHead : i <= j
<1>3. /\ binary_byte_offset' = (IF found THEN least - 1 ELSE -1)
      /\ events' = s
      /\ found /\ Quits => pc' = "finish"
      /\ pc' # "begin"
  <2>1. /\ binary_byte_offset' = (IF found THEN least - 1 ELSE -1)
        /\ events' = s
    BY <1>2
  <2>2. ok \in BOOLEAN /\ heard \in BOOLEAN /\ config.slice \in BOOLEAN
    BY Numbers DEF Answers
  <2>3. found /\ Quits => pc' = "finish"
    BY <1>2
  <2>4. pc' # "begin"
    BY <1>2, <2>2
  <2> QED BY <2>1, <2>3, <2>4
<1>4. found => least - 1 >= 0
  <2> SUFFICES ASSUME BinaryHead # {} PROVE least - 1 >= 0
    OBVIOUS
  <2>1. \A i \in BinaryHead : i \in Nat /\ 1 <= i
    BY CasesAssumption, Numbers DEF BinaryHead, Lesser
  <2>2. BinaryHead \in SUBSET Nat
    BY <2>1
  <2>3. \E i \in BinaryHead : \A j \in BinaryHead : i <= j
    BY <2>2, LeastIn
  <2>4. least \in BinaryHead
    BY <2>3
  <2> HIDE DEF least
  <2> QED BY <2>1, <2>4
<1>5. IsBinary' <=> found
  BY <1>3, <1>4 DEF IsBinary
<1>6. /\ s = <<>> \/ s = <<BinaryEvent>>
      /\ found <=> s # <<>>
  <2>1. <<BinaryEvent>> # <<>>
    OBVIOUS
  <2> QED BY <2>1
<1>7. events' = events \o s
  <2>1. s \in Seq(Events)
    BY <1>6, Noticed
  <2> HIDE DEF s
  <2> QED BY <1>1, <1>3, <2>1, ConcatEmptySeq
<1> HIDE DEF found, least, s
<1>8. ToldInv'
  <2>1. config.detection # "none" /\ ~config.slice /\ ~IsBinary' =>
          \A j \in 1 .. base' + len' : ~input[j].bin
    BY <1>1 DEF ToldInv
  <2>2. /\ s \in Seq(Events)
        /\ \A i \in 1 .. Len(s) : i = Len(s) /\ ~HasBinary(s[i])
        /\ IsBinary' <=> IsBinary \/ \E i \in 1 .. Len(s) : s[i].kind = "binary"
    BY <1>1, <1>5, <1>6, Noticed
  <2>3. /\ input' = input /\ config' = config
        /\ \A i \in 1 .. Len(s) : s[i].kind = "binary" =>
              /\ ~IsBinary /\ (Quits => i = Len(s))
              /\ \A j \in 1 .. Len(s) : s[j].kind = "binary" => j = i
        /\ config.detection # "none" =>
              \A i \in 1 .. Len(s) : HasBinary(s[i]) =>
                  IsBinary \/ \E j \in 1 .. i - 1 : s[j].kind = "binary"
        /\ Quits /\ IsBinary => s = <<>>
    BY <1>1, <2>2
  <2> QED BY <1>7, <2>1, <2>2, <2>3, ToldMore
<1>9. SilentInv'
  <2>1. Quits' = Quits
    BY <1>1 DEF Quits
  <2> QED BY <1>3, <1>5, <2>1 DEF SilentInv
<1> QED BY <1>8, <1>9

LEMMA FillTold ==
    ASSUME Shape, ToldInv, SilentInv, Fill
    PROVE  ToldInv' /\ SilentInv'
<1>1. PICK k \in Nat : Refill(k)
  <2>1. base \in Nat /\ len \in Nat /\ base + len <= Len(input) /\ Len(input) \in Nat
    BY DEF Shape, TypeInv, InputInv
  <2>2. \E k \in (IF Len(input) - (base + len) = 0 THEN {0}
                  ELSE 1 .. Len(input) - (base + len)) : Refill(k)
    BY DEF Fill
  <2> QED BY <2>1, <2>2
<1>2. UNCHANGED <<input, config>> /\ pc = "fill" /\ ~config.slice
  BY DEF Fill, Shape, StageInv
<1>3. ~(Quits /\ IsBinary)
  BY <1>2 DEF SilentInv
<1> DEFINE kept == len - Consumed
           over == kept + k = 0 \/ NothingNew(k)
           found == config.detection # "none" /\ ~IsBinary
                      /\ \E i \in 1 .. k : input[base + len + i].bin
           s == IF found THEN <<BinaryEvent>> ELSE <<>>
<1>4. /\ base' = base + Consumed + (IF over THEN kept ELSE 0)
      /\ len' = IF over THEN 0 ELSE kept + k
      /\ binary_byte_offset' = IF found THEN base + len ELSE binary_byte_offset
      /\ events' = IF found THEN Append(events, BinaryEvent) ELSE events
      /\ pc' = IF refused' \/ over \/ (found /\ Quits) THEN "finish" ELSE "match"
  BY <1>1 DEF Refill
<1>5. base \in Nat /\ len \in Nat /\ Consumed \in Nat /\ events \in Seq(Events)
  <2>1. /\ base \in Nat /\ len \in Nat /\ config.before \in Nat /\ last_line_visited \in Nat
        /\ events \in Seq(Events)
    BY Numbers DEF Shape, TypeInv
  <2> QED BY <2>1 DEF Consumed, Greater
<1>6. /\ s = <<>> \/ s = <<BinaryEvent>>
      /\ found <=> s # <<>>
  <2>1. <<BinaryEvent>> # <<>>
    OBVIOUS
  <2> QED BY <2>1
<1>7. events' = events \o s
  <2>1. CASE found
    BY <1>4, <1>5, <2>1, EventsOf, AppendIsConcat
  <2>2. CASE ~found
    BY <1>4, <1>5, <2>2, ConcatEmptySeq
  <2> QED BY <2>1, <2>2
<1>9. base' + len' \in Int /\ base' + len' <= base + len + k
  <2>1. kept \in Int /\ Consumed + kept = len
    BY <1>5
  <2> HIDE DEF kept, over
  <2> QED BY <1>4, <1>5, <2>1
<1>10. found <=> config.detection # "none" /\ ~IsBinary
                   /\ \E i \in 1 .. k : input[base + len + i].bin
  OBVIOUS
<1> HIDE DEF kept, over, found, s
<1>8. IsBinary' <=> IsBinary \/ found
  <2>1. base + len >= 0
    BY <1>5
  <2> QED BY <1>4, <2>1 DEF IsBinary
<1>11. config.detection # "none" /\ ~config.slice /\ ~IsBinary' =>
          \A j \in 1 .. base' + len' : ~input[j].bin
  <2> SUFFICES ASSUME config.detection # "none", ~IsBinary', NEW j \in 1 .. base' + len'
               PROVE  ~input[j].bin
    OBVIOUS
  <2>1. ~IsBinary /\ ~found
    BY <1>8
  <2>2. j \in Nat /\ 1 <= j /\ j <= base + len + k
    BY <1>5, <1>9
  <2>3. CASE j <= base + len
    BY <1>2, <1>5, <2>1, <2>2, <2>3 DEF ToldInv
  <2>4. CASE j > base + len
    <3>1. j - (base + len) \in 1 .. k /\ base + len + (j - (base + len)) = j
      BY <1>5, <2>2, <2>4
    <3> QED BY <1>10, <2>1, <3>1
  <2> QED BY <1>5, <2>2, <2>3, <2>4
<1>12. ToldInv'
  <2>2. /\ s \in Seq(Events)
        /\ \A i \in 1 .. Len(s) : i = Len(s) /\ ~HasBinary(s[i])
        /\ (\E i \in 1 .. Len(s) : s[i].kind = "binary") <=> found
        /\ s # <<>> => ~IsBinary
        /\ s = <<>> => Len(s) = 0
    BY <1>6, <1>10, Noticed
  <2>3. /\ input' = input /\ config' = config
        /\ \A i \in 1 .. Len(s) : s[i].kind = "binary" =>
              /\ ~IsBinary /\ (Quits => i = Len(s))
              /\ \A j \in 1 .. Len(s) : s[j].kind = "binary" => j = i
        /\ config.detection # "none" =>
              \A i \in 1 .. Len(s) : HasBinary(s[i]) =>
                  IsBinary \/ \E j \in 1 .. i - 1 : s[j].kind = "binary"
        /\ Quits /\ IsBinary => s = <<>>
    BY <1>2, <1>3, <2>2
  <2>4. IsBinary' <=> IsBinary \/ \E i \in 1 .. Len(s) : s[i].kind = "binary"
    BY <1>8, <2>2
  <2> QED BY <1>7, <1>11, <2>2, <2>3, <2>4, ToldMore
<1>13. SilentInv'
  <2>1. Quits' = Quits /\ pc' \in {"finish", "match"}
    BY <1>2, <1>4 DEF Quits
  <2>2. Quits /\ IsBinary' => pc' = "finish"
    BY <1>3, <1>4, <1>8
  <2> QED BY <2>1, <2>2 DEF SilentInv
<1> QED BY <1>12, <1>13

\* The binary data of the lines of a call: the notice comes before them.
LEMMA CallTold ==
    ASSUME Shape, ToldInv, pc \notin {"finish", "done"}, config.detection # "none",
           NEW kind \in Kinds, NEW p \in Nat, NEW q \in Nat, p < q, q <= len,
           NEW i \in 1 .. Len(Calls(kind, p, q)), HasBinary(Calls(kind, p, q)[i])
    PROVE  IsBinary \/ \E j \in 1 .. (i - 1) : Calls(kind, p, q)[j] = BinaryEvent
<1> DEFINE calls == Calls(kind, p, q)
           e == Event(NameOf(kind), p, q)
<1>1. /\ calls[i] \in {BreakEvent, BinaryEvent, e}
      /\ calls[i] = e => (Detected(p, q) => \E j \in 1 .. (i - 1) : calls[j] = BinaryEvent)
  BY CallsIs
<1>2. e.line = base + p + 1 /\ e.last = base + q
  BY EventIs
<1>3. /\ base \in Nat /\ len \in Nat
      /\ config.slice \in BOOLEAN /\ (config.slice => base = 0)
  <2>1. config.slice => base = 0
    BY DEF Shape, TypeInv
  <2> QED BY <2>1, Numbers
<1> HIDE DEF calls, e
<1>4. HasBinary(calls[i])
  BY DEF calls
<1>5. calls[i] = e
  <2>1. ~HasBinary(BreakEvent) /\ ~HasBinary(BinaryEvent)
    BY EventsOf DEF HasBinary
  <2> QED BY <1>1, <1>4, <2>1
<1>6. PICK j \in (base + p + 1) .. (base + q) : input[j].bin
  BY <1>2, <1>4, <1>5 DEF HasBinary
<1>7. CASE config.slice
  <2>1. j - 1 \in p .. q - 1 /\ base + (j - 1) + 1 = j
    BY <1>3, <1>6, <1>7
  <2>2. j - 1 \in Binary(p, q)
    BY <1>6, <2>1 DEF Binary, At
  <2>3. IsBinary \/ Detected(p, q)
    BY <1>7, <2>2 DEF Detected
  <2> QED BY <1>1, <1>5, <2>3 DEF calls
<1>8. CASE ~config.slice
  <2>1. j \in 1 .. base + len
    BY <1>3, <1>6
  <2> QED BY <1>6, <1>8, <2>1 DEF ToldInv
<1> QED BY <1>7, <1>8

LEMMA SinkTold ==
    ASSUME Shape, ToldInv, SilentInv, Sink
    PROVE  ToldInv' /\ SilentInv'
<1> DEFINE kind == Head(plan)[1]
           p == Head(plan)[2]
           q == Head(plan)[3]
           calls == Calls(kind, p, q)
           least == CHOOSE i \in Binary(p, q) : \A j \in Binary(p, q) : i <= j
<1>1. pc = "sink" /\ UNCHANGED <<input, config, base, len, onstop, next>>
  BY DEF Sink, bufVars
<1>2. PICK n \in 0 .. Len(calls), ok \in Answers :
        /\ IF ok THEN n = Len(calls) ELSE n > 0
        /\ events' = events \o SubSeq(calls, 1, n)
        /\ binary_byte_offset' =
              IF Detected(p, q) /\ BinaryEvent \in {calls[i] : i \in 1 .. n}
              THEN least ELSE binary_byte_offset
        /\ IF ok /\ ~Spoilt(p, q)
           THEN /\ plan' = Tail(plan)
                /\ pc' = IF plan' = <<>> THEN next ELSE "sink"
           ELSE plan' = <<>> /\ pc' = onstop
  BY DEF Sink
<1>3. /\ plan \in Seq(Entry) /\ plan # <<>> /\ Len(plan) \in Nat /\ 1 \in 1 .. Len(plan)
      /\ Head(plan) = plan[1]
      /\ kind \in Kinds /\ p \in Nat /\ q \in Nat
      /\ p < q /\ q <= len
  <2> DEFINE kk == kind
             pp == p
             qq == q
  <2>1. kk = Head(plan)[1] /\ pp = Head(plan)[2] /\ qq = Head(plan)[3]
    OBVIOUS
  <2> HIDE DEF kk, pp, qq
  <2>2. /\ plan \in Seq(Entry) /\ plan # <<>> /\ Len(plan) \in Nat /\ 1 \in 1 .. Len(plan)
        /\ Head(plan) = plan[1]
        /\ kk \in Kinds /\ pp \in Nat /\ qq \in Nat /\ pp < qq /\ qq <= len
    BY <1>1, <2>1, HeadIs
  <2> QED BY <2>2 DEF kk, pp, qq
<1>4. plan[1][1] = kind
  BY <1>3
<1> HIDE DEF kind, p, q
<1>5. /\ calls \in Seq(Events)
      /\ \A i \in 1 .. Len(calls) :
            calls[i] = BinaryEvent =>
                  /\ Detected(p, q)
                  /\ Quits => i = Len(calls)
                  /\ \A j \in 1 .. Len(calls) : calls[j] = BinaryEvent => j = i
      /\ \A i \in 1 .. Len(calls) : calls[i].kind = "binary" => calls[i] = BinaryEvent
  <2> DEFINE e == Event(NameOf(kind), p, q)
  <2>1. /\ calls \in Seq(Events)
        /\ \A i \in 1 .. Len(calls) :
              /\ calls[i] \in {BreakEvent, BinaryEvent, e}
              /\ calls[i] = BinaryEvent =>
                    /\ Detected(p, q)
                    /\ Quits => i = Len(calls)
                    /\ \A j \in 1 .. Len(calls) : calls[j] = BinaryEvent => j = i
              /\ calls[i] = e =>
                    /\ ~Spoilt(p, q)
                    /\ Detected(p, q) => \E j \in 1 .. (i - 1) : calls[j] = BinaryEvent
    BY <1>1, <1>3, CallsIs
  <2>2. BreakEvent.kind # "binary" /\ e.kind # "binary"
    BY <1>1, <1>3, EventIs, EventsOf
  <2> HIDE DEF e, calls
  <2> QED BY <2>1, <2>2
<1>6. \A i \in 1 .. Len(calls) : config.detection # "none" /\ HasBinary(calls[i]) =>
          IsBinary \/ \E j \in 1 .. (i - 1) : calls[j] = BinaryEvent
  BY <1>1, <1>3, CallTold
<1>7. Detected(p, q) => least >= 0 /\ config.slice /\ ~IsBinary
  <2>1. Detected(p, q) => Binary(p, q) # {} /\ config.slice /\ ~IsBinary
    BY DEF Detected
  <2>2. Binary(p, q) # {} => least \in 0 .. Len(input)
    BY <1>3, BinaryIs
  <2> HIDE DEF least
  <2> QED BY <2>1, <2>2
<1>8. Quits /\ IsBinary => calls = <<>> /\ Spoilt(p, q) /\ onstop \in {"stop", "finish"}
  <2> SUFFICES ASSUME Quits, IsBinary
               PROVE  calls = <<>> /\ Spoilt(p, q) /\ onstop \in {"stop", "finish"}
    OBVIOUS
  <2>1. /\ config.slice /\ onstop \in {"stop", "finish"}
        /\ kind \in {"after", "again", "other"}
    BY <1>1, <1>3, <1>4 DEF SilentInv
  <2>2. Spoilt(p, q) /\ ~Detected(p, q)
    BY <2>1 DEF Spoilt, Detected
  <2>3. Notice(p, q) = <<>>
    BY <2>2 DEF Notice
  <2>4. <<>> \o <<>> = <<>>
    <3>1. <<>> \in Seq(Events)
      OBVIOUS
    <3> QED BY <3>1, ConcatEmptySeq
  <2>5. calls = <<>>
    BY <2>1, <2>2, <2>3, <2>4 DEF Calls, MatchKinds
  <2> QED BY <2>1, <2>2, <2>5
<1> HIDE DEF calls, least
<1> DEFINE s == SubSeq(calls, 1, n)
<1>9. s \in Seq(Events) /\ Len(s) = n /\ \A i \in 1 .. n : s[i] = calls[i]
  BY <1>5
<1>10. n \in Nat /\ n <= Len(calls) /\ Len(calls) \in Nat /\ events' = events \o s
  BY <1>2, <1>5
<1> HIDE DEF s
<1>11. (\E i \in 1 .. Len(s) : s[i].kind = "binary")
         <=> BinaryEvent \in {calls[i] : i \in 1 .. n}
  <2>1. \A i \in 1 .. n : s[i].kind = "binary" <=> calls[i] = BinaryEvent
    BY <1>5, <1>9, <1>10, EventsOf
  <2> QED BY <1>9, <2>1
<1> DEFINE heard == BinaryEvent \in {calls[i] : i \in 1 .. n}
<1>12. heard => Detected(p, q) /\ (Quits => n = Len(calls))
  BY <1>5, <1>10
<1>13. IsBinary' <=> IsBinary \/ heard
  <2>1. CASE heard
    BY <1>2, <1>7, <1>12, <2>1 DEF IsBinary
  <2>2. CASE ~heard
    BY <1>2, <2>2 DEF IsBinary
  <2> QED BY <2>1, <2>2
<1> HIDE DEF heard
<1>14. ToldInv'
  <2>1. \A i \in 1 .. Len(s) : s[i].kind = "binary" =>
              /\ ~IsBinary /\ (Quits => i = Len(s))
              /\ \A j \in 1 .. Len(s) : s[j].kind = "binary" => j = i
    <3> SUFFICES ASSUME NEW i \in 1 .. Len(s), s[i].kind = "binary"
                 PROVE  /\ ~IsBinary /\ (Quits => i = Len(s))
                        /\ \A j \in 1 .. Len(s) : s[j].kind = "binary" => j = i
      OBVIOUS
    <3>1. i \in 1 .. n /\ i \in 1 .. Len(calls) /\ calls[i] = BinaryEvent
      BY <1>5, <1>9, <1>10
    <3>2. ~IsBinary /\ (Quits => i = Len(calls))
      BY <1>5, <1>7, <3>1
    <3>3. Quits => i = Len(s)
      BY <1>9, <1>10, <3>1, <3>2
    <3>4. \A j \in 1 .. Len(s) : s[j].kind = "binary" => j \in 1 .. Len(calls) /\ calls[j] = BinaryEvent
      BY <1>5, <1>9, <1>10
    <3> QED BY <1>5, <3>1, <3>2, <3>3, <3>4
  <2>2. config.detection # "none" =>
              \A i \in 1 .. Len(s) : HasBinary(s[i]) =>
                  IsBinary \/ \E j \in 1 .. i - 1 : s[j].kind = "binary"
    <3> SUFFICES ASSUME config.detection # "none", NEW i \in 1 .. Len(s), HasBinary(s[i]), ~IsBinary
                 PROVE  \E j \in 1 .. i - 1 : s[j].kind = "binary"
      OBVIOUS
    <3>1. i \in 1 .. n /\ i \in 1 .. Len(calls) /\ s[i] = calls[i]
      BY <1>9, <1>10
    <3>2. PICK j \in 1 .. (i - 1) : calls[j] = BinaryEvent
      BY <1>6, <3>1
    <3>3. j \in 1 .. n /\ s[j] = BinaryEvent
      BY <1>9, <1>10, <3>1, <3>2
    <3> QED BY <3>3, EventsOf
  <2>3. Quits /\ IsBinary => s = <<>>
    <3>1. Quits /\ IsBinary => n = 0
      BY <1>8, <1>10
    <3> QED BY <1>9, <3>1
  <2>4. config.detection # "none" /\ ~config.slice /\ ~IsBinary' =>
              \A j \in 1 .. base' + len' : ~input[j].bin
    BY <1>1, <1>13 DEF ToldInv
  <2>5. IsBinary' <=> IsBinary \/ \E i \in 1 .. Len(s) : s[i].kind = "binary"
    BY <1>11, <1>13 DEF heard
  <2>6. input' = input /\ config' = config
    BY <1>1
  <2> QED BY <1>9, <1>10, <2>1, <2>2, <2>3, <2>4, <2>5, <2>6, ToldMore
<1>15. SilentInv'
  <2>1. Quits' = Quits /\ config' = config
    BY <1>1 DEF Quits
  <2>2. next # "begin" /\ onstop # "begin" /\ onstop \in {"stop", "fastEnd", "trail", "finish"}
    BY <1>1 DEF Shape, StageInv, Goals, StopGoals, ByLine, Whole
  <2>3. pc' # "begin"
    <3>1. pc' \in {next, onstop, "sink"}
      BY <1>2
    <3> QED BY <2>2, <3>1
  <2>4. ASSUME Quits, IsBinary' PROVE config.slice /\ pc' \in {"stop", "fastEnd", "trail", "finish"}
    <3>1. Spoilt(p, q) /\ config.slice
      BY <1>7, <1>8, <1>12, <1>13, <2>4 DEF Spoilt
    <3>2. pc' = onstop
      BY <1>2, <3>1
    <3> QED BY <2>2, <3>1, <3>2
  <2> QED BY <2>1, <2>3, <2>4 DEF SilentInv
<1> QED BY <1>14, <1>15

LEMMA BinaryStep ==
    ASSUME Shape, ToldInv, SilentInv, [SearcherNext]_allVars
    PROVE  ToldInv' /\ SilentInv'
<1>1. CASE UNCHANGED allVars
  <2>1. UNCHANGED <<input, config, base, len, pos, binary_byte_offset, pc, plan, onstop, events>>
    BY <1>1 DEF allVars, vars, bufVars, planVars, sinkVars
  <2>2. ToldInv'
    BY <2>1, ToldKept
  <2>3. SilentInv'
    BY <2>1 DEF SilentInv, IsBinary, Quits
  <2> QED BY <2>2, <2>3
<1>2. CASE MultiNext
  BY <1>2, MultiSilent, ThinkTold
<1>3. CASE Next /\ UNCHANGED multiVars
  <2>1. CASE Sink
    BY <2>1, SinkTold
  <2>2. CASE Slow \/ Fast \/ MatchByLine \/ More
    BY <1>3, <2>2, ByLineSilent, ThinkTold
  <2>3. CASE Begin
    BY <2>3, BeginTold
  <2>4. CASE Fill
    BY <2>4, FillTold
  <2>5. CASE Stop \/ Finish
    BY <2>5, EndTold
  <2>6. CASE Done
    BY <1>1, <1>3, <2>6 DEF Done, allVars
  <2> QED BY <1>3, <2>1, <2>2, <2>3, <2>4, <2>5, <2>6 DEF Next, Run
<1> QED BY <1>1, <1>2, <1>3 DEF SearcherNext

LEMMA BinaryInit ==
    ASSUME MultiInit
    PROVE  ToldInv /\ SilentInv
<1>1. PICK x \in Cases : InitWith(x)
  BY DEF MultiInit
<1>2. /\ base = 0 /\ events = <<>> /\ binary_byte_offset = -1 /\ pc = "begin"
      /\ len = IF config.slice THEN Len(input) ELSE 0
  BY <1>1 DEF InitWith
<1>3. Told = {} /\ ~IsBinary
  BY <1>2 DEF Told, IsBinary
<1>4. ~config.slice => \A j \in 1 .. base + len : ~input[j].bin
  BY <1>2
<1>5. ToldInv
  BY <1>2, <1>3, <1>4 DEF ToldInv
<1>6. SilentInv
  BY <1>2, <1>3 DEF SilentInv
<1> QED BY <1>5, <1>6

\* The sink is told of binary data once, and before it is shown any of it; if
\* the file is given up for it, that is the last the sink hears.
THEOREM BinaryToldCorrect == SearcherSpec => []BinaryTold
<1>1. Shape /\ ToldInv => BinaryTold
  <2> SUFFICES ASSUME Shape, ToldInv PROVE BinaryTold
    OBVIOUS
  <2>1. Cardinality(Told) <= 1
    <3>1. CASE Told = {}
      BY <3>1, FS_EmptySet
    <3>2. CASE Told # {}
      <4>1. PICK t \in Told : TRUE
        BY <3>2
      <4>2. Told = {t}
        BY <4>1 DEF ToldInv
      <4> QED BY <4>2, FS_Singleton
    <3> QED BY <3>1, <3>2
  <2>2. BinaryTold <=>
          /\ Cardinality(Told) <= 1
          /\ config.detection # "none" =>
                \A i \in 1 .. Len(events) : HasBinary(events[i]) => \E t \in Told : t < i
          /\ Quits => Told \subseteq {Len(events)}
    BY DEF BinaryTold, Told, HasBinary
  <2> QED BY <2>1, <2>2 DEF ToldInv
<1>2. MultiInit => Shape /\ OrderInv /\ ToldInv /\ SilentInv
  BY ShapeInit, BinaryInit
<1>3. (Shape /\ OrderInv /\ ToldInv /\ SilentInv) /\ [SearcherNext]_allVars
        => (Shape /\ OrderInv /\ ToldInv /\ SilentInv)'
  BY ShapeStep, BinaryStep
<1> QED BY <1>1, <1>2, <1>3, PTL DEF SearcherSpec
-----------------------------------------------------------------------------
(* Refusals.                                                               *)

\* The sinks that refuse calls are those of searches that can be stopped: an
\* inverted search on the fast path goes on to the context after the refusal,
\* and so does a multi-line search whose last match is refused.
Stoppable(c) == c.refusing => /\ ~(c.invert /\ c.fast)
                              /\ c.multi => c.after = 0 /\ ~c.passthru

\* After a refusal the search is at its end.
RefusalInv ==
    /\ Stoppable(config)
    /\ pc = "fast" => config.fast
    /\ pc = "sink" => /\ next = "fast" => config.fast
                      /\ onstop = "fastEnd" => config.invert /\ config.fast
    /\ refused => config.refusing /\ pc \in {"stop", "trail", "finish", "done"}

\* Steps in which Core finds out what to call next.
LEMMA ThinkRefusal ==
    ASSUME Shape, RefusalInv, Slow \/ Fast \/ MatchByLine \/ More
    PROVE  RefusalInv' /\ events' = events
<1>1. /\ config' = config /\ refused' = refused /\ events' = events
      /\ pc \in {"slow", "fast", "fastEnd", "fastDone", "match", "more"}
  BY DEF Slow, SlowStops, SlowEnds, SlowLine, Fast, FastSwitches, FastMatch, FastInverted,
     FastLoopEnds, FastContext, FastDone, MatchByLine, More, sinkVars
<1>2. /\ pc' = "fast" => config.fast
      /\ pc' = "sink" => /\ next' = "fast" => config.fast
                         /\ onstop' = "fastEnd" => config.invert /\ config.fast
  <2>1. CASE Slow
    BY <2>1 DEF Slow, SlowStops, SlowEnds, SlowLine, Planned
  <2>2. CASE FastSwitches \/ FastMatch \/ FastLoopEnds \/ FastContext \/ FastDone
    <3>1. pc \in {"fast", "fastEnd", "fastDone"}
      BY <2>2 DEF FastSwitches, FastMatch, FastLoopEnds, FastContext, FastDone
    <3>2. \/ pc' \in {"slow", "fastEnd", "stop", "more", "fastDone"}
          \/ pc' = "sink" /\ onstop' = "stop" /\ next' \in {"fast", "fastDone"}
             /\ (next' = "fast" => pc = "fast")
          \/ pc' = "fast" /\ pc = "fast"
      BY <2>2 DEF FastSwitches, FastMatch, FastLoopEnds, FastContext, FastDone, Planned
    <3> QED BY <3>1, <3>2 DEF RefusalInv
  <2>3. CASE FastInverted
    <3>1. pc = "fast" /\ config.invert
      BY <2>3 DEF FastInverted
    <3> QED BY <3>1 DEF RefusalInv
  <2>4. CASE MatchByLine
    BY <2>4 DEF MatchByLine, IsFast
  <2>5. CASE More
    BY <2>5, Numbers, ByLineStage DEF More
  <2> QED BY <2>1, <2>2, <2>3, <2>4, <2>5 DEF Fast
<1> QED BY <1>1, <1>2 DEF RefusalInv, Stoppable

\* A multi-line search; after a refusal there is no context left to show.
LEMMA MultiRefusal ==
    ASSUME Shape, RefusalInv, MultiNext
    PROVE  RefusalInv' /\ events' = events
<1>1. /\ config' = config /\ refused' = refused /\ events' = events
      /\ config.multi /\ pc \in {"multi", "trail"}
  BY DEF MultiNext, FindNone, FindMatch, FindInverted, LastMatch, Trail, sinkVars, Shape,
     StageInv, Goals, ByLine
<1>2. \/ pc' \in {"multi", "trail", "finish"}
      \/ pc' = "sink" /\ next' \in {"multi", "trail", "finish"} /\ onstop' \in {"trail", "finish"}
  <2>1. CASE FindNone
    BY <1>1, <2>1 DEF FindNone
  <2>2. CASE FindMatch
    BY <1>1, <2>2 DEF FindMatch, Planned
  <2>3. CASE FindInverted
    BY <1>1, <2>3 DEF FindInverted, Planned
  <2>4. CASE LastMatch
    BY <2>4 DEF LastMatch, Planned
  <2>5. CASE Trail
    BY <2>5 DEF Trail, Planned
  <2> QED BY <2>1, <2>2, <2>3, <2>4, <2>5 DEF MultiNext
<1>3. ASSUME refused PROVE pc' = "finish"
  <2>1. pc = "trail" /\ config.refusing
    BY <1>1, <1>3 DEF RefusalInv
  <2>2. config.after = 0 /\ ~config.passthru
    BY <1>1, <2>1 DEF RefusalInv, Stoppable
  <2>3. after_context_left = 0
    BY <2>2 DEF Shape, TypeInv
  <2>4. AfterContext(len, count) = <<>>
    BY <2>3, AfterIs, Numbers DEF Shape
  <2>5. Planned(AfterContext(len, count), "finish", "finish")
    BY <2>1, <2>2 DEF MultiNext, FindNone, FindMatch, FindInverted, LastMatch, Trail
  <2> QED BY <2>4, <2>5 DEF Planned
<1> QED BY <1>1, <1>2, <1>3 DEF RefusalInv, Stoppable

\* The calls themselves.
LEMMA CallRefusal ==
    ASSUME Shape, RefusalInv, Sink \/ Begin \/ Fill \/ Stop \/ Finish
    PROVE  RefusalInv' /\ (refused => events' = events)
<1>1. config' = config /\ (refused => pc \in {"stop", "trail", "finish", "done"})
  BY DEF Sink, Begin, Fill, Stop, Finish, RefusalInv
<1>2. ASSUME Sink PROVE RefusalInv' /\ ~refused
  <2>1. PICK ok \in Answers :
          /\ refused' = ~ok
          /\ \/ ok /\ pc' \in {next, "sink"}
             \/ pc' = onstop
    BY <1>2 DEF Sink
  <2>2. pc = "sink" /\ next' = next /\ onstop' = onstop
    BY <1>2 DEF Sink
  <2>3. onstop \in {"stop", "fastEnd", "trail", "finish"} /\ next # "sink"
    BY <2>2 DEF Shape, StageInv, StopGoals, Goals, ByLine, Whole
  <2>4. refused' => config.refusing
    BY <2>1, Zenon DEF Answers
  <2>5. ASSUME refused' PROVE pc' \in {"stop", "trail", "finish"}
    <3>1. pc' = onstop
      BY <2>1, <2>5
    <3>2. onstop # "fastEnd"
      BY <2>2, <2>4, <2>5 DEF RefusalInv, Stoppable
    <3> QED BY <2>3, <3>1, <3>2
  <2>6. pc' = "fast" => config.fast
    BY <2>1, <2>2, <2>3 DEF RefusalInv
  <2>7. pc' = "sink" => /\ next' = "fast" => config.fast
                        /\ onstop' = "fastEnd" => config.invert /\ config.fast
    BY <2>2 DEF RefusalInv
  <2>8. RefusalInv'
    BY <1>1, <2>4, <2>5, <2>6, <2>7 DEF RefusalInv, Stoppable
  <2> QED BY <1>1, <2>2, <2>8
<1>3. ASSUME Begin PROVE RefusalInv' /\ ~refused
  <2>1. PICK ok \in Answers, heard \in Answers :
          LET found == ok /\ config.slice /\ config.detection # "none" /\ BinaryHead # {}
          IN  /\ refused' = (~ok \/ (found /\ ~heard))
              /\ pc' = CASE ~ok \/ (found /\ (Quits \/ ~heard)) -> "finish"
                         [] ok /\ (found => ~Quits /\ heard) /\ config.slice ->
                               IF config.multi THEN "multi" ELSE "more"
                         [] ok /\ ~config.slice -> "fill"
    BY <1>3 DEF Begin
  <2>2. refused' => config.refusing
    BY <2>1, Zenon DEF Answers
  <2>3. ok \in BOOLEAN /\ heard \in BOOLEAN /\ config.slice \in BOOLEAN
    BY Numbers DEF Answers
  <2>4. refused' => pc' = "finish"
    BY <2>1, <2>3
  <2>5. pc' \in {"finish", "multi", "more", "fill"}
    BY <2>1, <2>3
  <2>6. RefusalInv'
    BY <1>1, <2>2, <2>4, <2>5 DEF RefusalInv, Stoppable
  <2>7. pc = "begin"
    BY <1>3 DEF Begin
  <2> QED BY <1>1, <2>6, <2>7
<1>4. ASSUME Fill PROVE RefusalInv' /\ ~refused
  <2>1. PICK k : Refill(k)
    BY <1>4 DEF Fill
  <2>2. /\ refused' \in {~a : a \in Answers} \cup {FALSE}
        /\ pc' \in {"finish", "match"} /\ (refused' => pc' = "finish")
    BY <2>1 DEF Refill
  <2>3. refused' => config.refusing
    BY <2>2, Zenon DEF Answers
  <2>4. RefusalInv'
    BY <1>1, <2>2, <2>3 DEF RefusalInv, Stoppable
  <2>5. pc = "fill"
    BY <1>4 DEF Fill
  <2> QED BY <1>1, <2>4, <2>5
<1>5. ASSUME Stop \/ Finish PROVE RefusalInv' /\ events' = events
  <2>1. refused' = refused /\ events' = events /\ pc' \in {"finish", "done"}
    BY <1>5 DEF Stop, Finish, sinkVars
  <2> QED BY <1>1, <2>1 DEF RefusalInv, Stoppable
<1> QED BY <1>2, <1>3, <1>4, <1>5

\* A sink that has answered false is called no more: only what the search has
\* counted is told to finish.
THEOREM RefusalHonouredCorrect ==
    ASSUME \A x \in Cases : Stoppable(x.config)
    PROVE  SearcherSpec => RefusalHonoured
<1>1. MultiInit => Shape /\ OrderInv /\ RefusalInv
  <2> SUFFICES ASSUME MultiInit PROVE RefusalInv
    BY ShapeInit
  <2>1. PICK x \in Cases : InitWith(x)
    BY DEF MultiInit
  <2>2. config = x.config /\ pc = "begin" /\ refused = FALSE
    BY <2>1 DEF InitWith
  <2> QED BY <2>2 DEF RefusalInv
<1>2. Shape /\ RefusalInv /\ [SearcherNext]_allVars
        => RefusalInv' /\ (refused => events' = events)
  <2> SUFFICES ASSUME Shape, RefusalInv, [SearcherNext]_allVars
               PROVE  RefusalInv' /\ (refused => events' = events)
    OBVIOUS
  <2>1. CASE UNCHANGED allVars
    BY <2>1 DEF allVars, vars, planVars, sinkVars, RefusalInv, Stoppable
  <2>2. CASE MultiNext
    BY <2>2, MultiRefusal
  <2>3. CASE Next /\ UNCHANGED multiVars
    <3>1. CASE Slow \/ Fast \/ MatchByLine \/ More
      BY <3>1, ThinkRefusal
    <3>2. CASE Sink \/ Begin \/ Fill \/ Stop \/ Finish
      BY <3>2, CallRefusal
    <3>3. CASE Done
      BY <2>1, <2>3, <3>3 DEF Done, allVars
    <3> QED BY <2>3, <3>1, <3>2, <3>3 DEF Next, Run
  <2> QED BY <2>1, <2>2, <2>3 DEF SearcherNext
<1>3. Shape /\ OrderInv /\ RefusalInv /\ [SearcherNext]_allVars
        => /\ (Shape /\ OrderInv /\ RefusalInv)'
           /\ [refused => events' = events]_vars
  BY <1>2, ShapeStep
<1> QED BY <1>1, <1>3, PTL DEF SearcherSpec, RefusalHonoured
-----------------------------------------------------------------------------
(* The context after the last match that the limit allows.  An inverted    *)
(* search of the fast path plans it only when it has no match left to      *)
(* show; otherwise a line met again would take the position back.          *)

Inverted == ~config.multi /\ config.invert /\ config.fast

\* There is no context left to show before the position.
Spent == after_context_left = 0 \/ pos <= last_line_visited

\* The calls show all the context there is left, up to the end of the buffer.
Exhausts(q) == /\ \A i \in 1 .. Len(q) : q[i][1] \in After
               /\ Len(q) = after_context_left \/ q[Len(q)][3] = len

\* The calls end with matches, and do not reach the limit.
Allowed(q) == /\ q[Len(q)][1] = "inverted"
              /\ HasLimit => \A i \in 1 .. Len(q) :
                    q[i][1] = "inverted" => count + (Len(q) - i + 1) < config.limit

SpentInv ==
    Inverted =>
      /\ pc \in {"begin", "fill", "match", "more", "fast"} /\ IsFast /\ Exceeded(count) => Spent
      /\ pc = "slow" => ~IsFast
      /\ pc = "fast" => ~config.passthru
      /\ pc = "fastDone" => after_context_left = 0 \/ last_line_visited = len
      /\ pc = "sink" => /\ next = "slow" => ~IsFast
                        /\ next = "fast" => ~config.passthru /\ Allowed(plan)
                        /\ next = "fastDone" => Exhausts(plan)

LEMMA ThinkSpent ==
    ASSUME Thinks, Inverted, NEW q, NEW n, NEW s, Planned(q, n, s), n # "sink",
           n = "slow" => ~IsFast',
           n = "fast" => ~config.passthru,
           q = <<>> =>
             /\ n \in {"begin", "fill", "match", "more", "fast"} /\ IsFast' /\ Exceeded(count')
                   => Spent'
             /\ n = "fastDone" => after_context_left = 0 \/ last_line_visited = len,
           q # <<>> => /\ n = "fast" => count' = count /\ Allowed(q)
                       /\ n = "fastDone" => Exhausts(q)
    PROVE  SpentInv'
<1>1. UNCHANGED <<config, len, last_line_visited, after_context_left>>
  BY DEF Thinks, bufVars, ctxVars
<1>2. Exceeded(count)' = Exceeded(count') /\ HasLimit' = HasLimit
  BY <1>1 DEF Exceeded, HasLimit
<1>3. CASE q = <<>>
  <2>1. pc' = n
    BY <1>3 DEF Planned
  <2> QED BY <1>1, <1>2, <1>3, <2>1 DEF SpentInv
<1>4. CASE q # <<>>
  <2>1. pc' = "sink" /\ plan' = q /\ next' = n
    BY <1>4 DEF Planned
  <2>2. n = "fast" => Allowed(plan)'
    BY <1>1, <1>2, <1>4, <2>1 DEF Allowed
  <2>3. n = "fastDone" => Exhausts(plan)'
    BY <1>1, <1>4, <2>1 DEF Exhausts
  <2> QED BY <1>1, <2>1, <2>2, <2>3 DEF SpentInv
<1> QED BY <1>3, <1>4

\* A step that only goes on.
LEMMA GoSpent ==
    ASSUME Thinks, Inverted, UNCHANGED planVars, pc' # "sink",
           pc' = "slow" => ~IsFast',
           pc' = "fast" => ~config.passthru,
           pc' \in {"begin", "fill", "match", "more", "fast"} /\ IsFast' /\ Exceeded(count')
              => Spent',
           pc' = "fastDone" => after_context_left = 0 \/ last_line_visited = len
    PROVE  SpentInv'
<1> DEFINE n == pc'
<1>1. Planned(<<>>, n, n) /\ n = pc'
  BY DEF Planned
<1> HIDE DEF n
<1> QED BY <1>1, ThinkSpent

LEMMA SlowSpent ==
    ASSUME Shape, SpentInv, Inverted, Slow, UNCHANGED multiVars
    PROVE  SpentInv'
<1>1. Thinks /\ pc = "slow" /\ ~IsFast /\ config' = config
  BY DEF Slow, SlowStops, SlowEnds, SlowLine, Thinks, multiVars, SpentInv
<1>2. ~IsFast'
  <2>1. has_matched => has_matched'
    BY DEF Slow, SlowStops, SlowEnds, SlowLine
  <2> QED BY <1>1, <2>1 DEF IsFast
<1>3. CASE SlowStops \/ SlowEnds
  <2>1. UNCHANGED planVars /\ pc' \in {"stop", "more"}
    BY <1>3 DEF SlowStops, SlowEnds
  <2> QED BY <1>1, <1>2, <2>1, GoSpent
<1>4. CASE SlowLine
  <2> DEFINE q == IF SlowSuccess THEN SlowPlanMatch ELSE SlowPlanMiss
             n == IF config.stop_on_nonmatch /\ ~SlowSuccess /\ has_matched
                  THEN "stop" ELSE "slow"
  <2>1. Planned(q, n, "stop") /\ n \in {"stop", "slow"}
    BY <1>4 DEF SlowLine
  <2> HIDE DEF q, n
  <2> QED BY <1>1, <1>2, <2>1, ThinkSpent
<1> QED BY <1>3, <1>4 DEF Slow

LEMMA FastSpent ==
    ASSUME Shape, SpentInv, Inverted, Fast, UNCHANGED multiVars
    PROVE  SpentInv'
<1>1. Thinks /\ config' = config
  BY DEF Fast, FastSwitches, FastMatch, FastInverted, FastLoopEnds, FastContext, FastDone,
     Thinks, multiVars
<1>2. pc \in {"fast", "fastEnd", "fastDone"} /\ pos <= len
  BY ByLineStage DEF Fast, FastSwitches, FastMatch, FastInverted, FastLoopEnds, FastContext,
     FastDone
<1>3. /\ pos \in Nat /\ len \in Nat /\ count \in Nat /\ last_line_visited \in Nat
      /\ after_context_left \in Nat /\ InputInv /\ TypeInv /\ config.limit \in Nat
      /\ last_line_visited <= len
      /\ \A n \in Nat : AfterEnd(n) \in Nat
  BY <1>2, Numbers DEF Shape, PosInv
<1>4. ~FastMatch
  BY DEF FastMatch, Inverted
<1>5. CASE FastSwitches \/ FastLoopEnds
  <2>1. UNCHANGED planVars /\ pc' \in {"slow", "fastEnd"} /\ (pc' = "slow" => ~IsFast')
    BY <1>1, <1>5 DEF FastSwitches, FastLoopEnds, SwitchToSlow, IsFast
  <2> QED BY <1>1, <2>1, GoSpent
<1>6. CASE FastDone
  <2>1. /\ UNCHANGED planVars /\ pc' \in {"stop", "more"} /\ (pc' = "more" => pos' = len)
        /\ after_context_left' = after_context_left /\ last_line_visited' = last_line_visited
        /\ pc = "fastDone"
    BY <1>6 DEF FastDone, ctxVars
  <2>2. pc' = "more" => Spent'
    BY <1>3, <2>1 DEF SpentInv, Spent
  <2> QED BY <1>1, <2>1, <2>2, GoSpent
<1>7. CASE FastContext
  <2> DEFINE q == AfterContext(len, count)
  <2>1. Planned(q, "fastDone", "stop")
    BY <1>7 DEF FastContext
  <2>2. /\ q \in Seq(Entry) /\ Len(q) \in Nat
        /\ last_line_visited + Len(q) = Greater(last_line_visited, AfterEnd(len))
        /\ \A i \in 1 .. Len(q) : q[i][1] \in After /\ q[i][3] = last_line_visited + i
    BY <1>3, AfterIs
  <2> HIDE DEF q
  <2>3. q = <<>> => after_context_left = 0 \/ last_line_visited = len
    <3> SUFFICES ASSUME q = <<>>, after_context_left >= 1 PROVE last_line_visited = len
      BY <1>3
    <3>1. Len(q) = 0
      OBVIOUS
    <3>2. AfterEnd(len) <= last_line_visited
      BY <1>3, <2>2, <3>1 DEF Greater
    <3> QED BY <1>3, <3>2 DEF AfterEnd, Lesser
  <2>4. q # <<>> => Exhausts(q)
    <3> SUFFICES ASSUME q # <<>> PROVE Len(q) = after_context_left \/ q[Len(q)][3] = len
      BY <2>2 DEF Exhausts
    <3>1. Len(q) \in 1 .. Len(q)
      BY <2>2
    <3>2. q[Len(q)][3] = last_line_visited + Len(q)
      BY <2>2, <3>1
    <3>3. last_line_visited + Len(q) = AfterEnd(len)
      BY <1>3, <2>2, <3>1 DEF Greater
    <3> QED BY <1>3, <2>2, <3>2, <3>3 DEF AfterEnd, Lesser
  <2> QED BY <1>1, <2>1, <2>3, <2>4, ThinkSpent
<1>8. CASE FastInverted
  <2> DEFINE end == IF Hits = {} THEN len ELSE FirstHit
             room == IF HasLimit THEN Greater(config.limit - count, 1) ELSE len
             upto == Lesser(end, pos + room)
             t == Span("inverted", pos, upto)
             v == Greater(last_line_visited, AfterEnd(pos))
             a == AfterContext(pos, count)
             b == BeforeContext(pos, v)
             q == a \o b \o t
             n == IF Exceeded(count + (upto - pos)) THEN "fastEnd" ELSE "fast"
  <2>1. /\ IF pos = end THEN pc' = "fast" /\ UNCHANGED planVars
           ELSE Planned(q, n, "fastEnd")
        /\ pc = "fast" /\ pos < len /\ count' = count
    BY <1>8 DEF FastInverted
  <2>2. ~config.passthru
    BY <2>1 DEF SpentInv
  <2>3. end \in Nat /\ pos <= end /\ end <= len
    BY <1>2, <1>3, FirstHitIs
  <2>4. CASE pos = end
    <3>1. ~Exceeded(count)
      BY <1>3, <2>1, <2>4 DEF Hits
    <3>2. ~Exceeded(count')
      BY <2>1, <3>1
    <3> HIDE DEF end, q
    <3> QED BY <1>1, <2>1, <2>2, <2>4, <3>2, GoSpent DEF Exceeded, HasLimit
  <2>5. CASE pos # end
    <3>1. upto \in Nat /\ pos < upto
      <4>1. room \in Nat /\ 1 <= room
        BY <1>3, <2>1 DEF Greater
      <4>2. pos < end
        BY <1>3, <2>3, <2>5
      <4> HIDE DEF room, end
      <4>3. upto = end \/ upto = pos + room
        BY DEF Lesser
      <4> QED BY <1>3, <2>3, <4>1, <4>2, <4>3
    <3>2. Planned(q, n, "fastEnd")
      BY <2>1, <2>5
    <3>3. v \in Nat
      BY <1>3 DEF Greater
    <3>4. n \in {"fast", "fastEnd"} /\ (n = "fast" /\ HasLimit => count + (upto - pos) < config.limit)
      <4>1. ~Exceeded(count + (upto - pos)) /\ HasLimit => count + (upto - pos) < config.limit
        BY <1>3, <3>1 DEF Exceeded
      <4> QED BY <4>1
    <3> HIDE DEF end, v, room, upto, n
    <3>5. "inverted" \in Kinds
      BY DEF Kinds
    <3>6. /\ t \in Seq(Entry) /\ Len(t) = upto - pos
          /\ \A i \in 1 .. Len(t) : t[i] = <<"inverted", pos + i - 1, pos + i>>
      <4>1. /\ t \in Seq(Entry) /\ Len(t) = Greater(upto - pos, 0)
            /\ \A i \in 1 .. Len(t) :
                 t[i] = <<"inverted", pos + i - 1, pos + i>> /\ pos + i <= upto
        BY <1>3, <3>1, <3>5, SpanIs
      <4>2. Greater(upto - pos, 0) = upto - pos
        BY <1>3, <3>1 DEF Greater
      <4> HIDE DEF t
      <4> QED BY <4>1, <4>2
    <3> HIDE DEF t
    <3>7. /\ a \in Seq(Entry) /\ b \in Seq(Entry)
          /\ \A i \in 1 .. Len(a) : a[i][1] \in After
          /\ \A i \in 1 .. Len(b) : b[i][1] = "before"
      <4>1. a \in Seq(Entry) /\ \A i \in 1 .. Len(a) : a[i][1] \in After
        BY <1>3, AfterIs
      <4>2. InputInv /\ pos \in Nat /\ v \in Nat
        BY <1>3, <3>3
      <4>3. b \in Seq(Entry) /\ \A i \in 1 .. Len(b) : b[i][1] = "before"
        BY <4>2, BeforeIs
      <4> HIDE DEF a, b
      <4> QED BY <4>1, <4>3
    <3> DEFINE c == a \o b
    <3>8. q = c \o t
      OBVIOUS
    <3> HIDE DEF a, b, q
    <3> DEFINE K == After \cup {"before"}
    <3>9. c \in Seq(Entry) /\ \A i \in 1 .. Len(c) : c[i][1] # "inverted"
      <4>1. (\A i \in 1 .. Len(a) : a[i][1] \in K) /\ (\A i \in 1 .. Len(b) : b[i][1] \in K)
        BY <3>7
      <4> HIDE DEF K
      <4>2. c \in Seq(Entry) /\ \A i \in 1 .. Len(c) : c[i][1] \in K
        BY <3>7, <4>1, JoinedKinds
      <4> HIDE DEF c
      <4> QED BY <4>2 DEF K, After
    <3> HIDE DEF c
    <3>10. /\ Len(q) = Len(c) + Len(t) /\ Len(c) \in Nat /\ Len(t) \in Nat
           /\ \A i \in 1 .. Len(c) : q[i] = c[i]
           /\ \A i \in (Len(c) + 1) .. (Len(c) + Len(t)) : q[i] = t[i - Len(c)]
      <4> DEFINE E == Entry
      <4>1. c \in Seq(E) /\ t \in Seq(E)
        BY <3>6, <3>9
      <4> HIDE DEF E
      <4>2. /\ Len(c \o t) = Len(c) + Len(t)
            /\ \A i \in 1 .. Len(c) : (c \o t)[i] = c[i]
            /\ \A i \in (Len(c) + 1) .. (Len(c) + Len(t)) : (c \o t)[i] = t[i - Len(c)]
        BY <4>1, Joined
      <4>3. Len(c) \in Nat /\ Len(t) \in Nat
        BY <4>1
      <4> QED BY <3>8, <4>2, <4>3
    <3>11. Len(t) >= 1
      BY <1>3, <3>1, <3>6
    <3>12. q[Len(q)][1] = "inverted"
      <4>1. q[Len(q)] = t[Len(t)]
        BY <3>10, <3>11
      <4> QED BY <3>6, <3>10, <3>11, <4>1
    <3>13. ASSUME NEW i \in 1 .. Len(q), q[i][1] = "inverted", HasLimit, n = "fast"
           PROVE  count + (Len(q) - i + 1) < config.limit
      <4>1. i \in Nat /\ i > Len(c)
        BY <3>9, <3>10, <3>13
      <4>2. count + (upto - pos) < config.limit
        BY <3>4, <3>13
      <4>3. Len(q) = Len(c) + (upto - pos)
        BY <3>6, <3>10
      <4> DEFINE L == Len(q)
                 C == Len(c)
      <4>4. L = C + (upto - pos) /\ i \in Nat /\ i > C /\ C \in Nat
        BY <3>10, <4>1, <4>3
      <4> HIDE DEF L, C
      <4>5. count + (L - i + 1) < config.limit
        BY SMTT(30), <1>3, <3>1, <4>2, <4>4
      <4> QED BY <4>5 DEF L
    <3>14. n = "fast" => Allowed(q)
      BY <3>12, <3>13 DEF Allowed
    <3>15. q # <<>> /\ n # "sink" /\ n # "slow" /\ n # "fastDone"
      <4>1. Len(q) # 0
        BY <3>10, <3>11
      <4> QED BY <3>4, <4>1
    <3> QED BY <1>1, <2>1, <2>2, <3>2, <3>14, <3>15, ThinkSpent
  <2> QED BY <2>4, <2>5
<1> QED BY <1>4, <1>5, <1>6, <1>7, <1>8 DEF Fast

\* A step that leaves the context and the counts as they are, and calls nothing.
LEMMA IdleSpent ==
    ASSUME SpentInv, Inverted,
           UNCHANGED <<config, pos, count, has_matched, last_line_visited, after_context_left>>,
           pc \in {"begin", "match", "more", "stop", "finish", "done"},
           pc' \in {"fill", "match", "more", "slow", "fast", "stop", "finish", "done", "multi"},
           pc' \in {"fill", "match", "more", "slow", "fast"} => pc \in {"begin", "match", "more"},
           pc' = "slow" => ~IsFast, pc' = "fast" => IsFast
    PROVE  SpentInv'
<1>1. IsFast' = IsFast /\ Exceeded(count)' = Exceeded(count) /\ Spent' = Spent
  BY DEF IsFast, Exceeded, HasLimit, Spent
<1>2. pc' = "fast" => ~config'.passthru
  BY DEF IsFast
<1>3. pc' \in {"begin", "fill", "match", "more", "fast"} /\ IsFast /\ Exceeded(count) => Spent
  BY DEF SpentInv
<1> QED BY <1>1, <1>2, <1>3 DEF SpentInv

LEMMA RunSpent ==
    ASSUME Shape, SpentInv, Inverted, Begin \/ MatchByLine \/ More \/ Stop \/ Finish
    PROVE  SpentInv'
<1>1. UNCHANGED <<config, pos, count, has_matched, last_line_visited, after_context_left>>
  BY DEF Begin, MatchByLine, More, Stop, Finish, ctxVars
<1>2. CASE Begin
  <2>1. PICK ok \in Answers, heard \in Answers :
          LET found == ok /\ config.slice /\ config.detection # "none" /\ BinaryHead # {}
          IN  pc' = CASE ~ok \/ (found /\ (Quits \/ ~heard)) -> "finish"
                      [] ok /\ (found => ~Quits /\ heard) /\ config.slice ->
                            IF config.multi THEN "multi" ELSE "more"
                      [] ok /\ ~config.slice -> "fill"
    BY <1>2 DEF Begin
  <2>2. ok \in BOOLEAN /\ heard \in BOOLEAN /\ config.slice \in BOOLEAN
    BY Numbers DEF Answers
  <2>3. pc = "begin" /\ pc' \in {"finish", "multi", "more", "fill"}
    BY <1>2, <2>1, <2>2 DEF Begin
  <2> QED BY <1>1, <2>3, IdleSpent
<1>3. CASE MatchByLine
  <2>1. pc = "match" /\ pc' = IF IsFast THEN "fast" ELSE "slow"
    BY <1>3 DEF MatchByLine
  <2> QED BY <1>1, <2>1, IdleSpent
<1>4. CASE Stop \/ Finish
  <2>1. pc \in {"stop", "finish"} /\ pc' \in {"finish", "done"}
    BY <1>4 DEF Stop, Finish
  <2> QED BY <1>1, <2>1, IdleSpent
<1>5. CASE More
  <2>1. /\ pos <= len /\ pos \in Nat /\ len \in Nat /\ config.slice \in BOOLEAN
        /\ pc = "more"
    BY <1>5, ByLineStage, Numbers DEF More
  <2>2. pc' \in {"fill", "match", "finish"}
    <3>1. pos < len \/ pos = len
      BY <2>1
    <3> QED BY <1>5, <2>1, <3>1 DEF More
  <2> QED BY <1>1, <2>1, <2>2, IdleSpent
<1> QED BY <1>2, <1>3, <1>4, <1>5

\* When the buffer is refilled, it has been searched to its end.
LEMMA FillSpent ==
    ASSUME Shape, SpentInv, Inverted, Fill
    PROVE  SpentInv'
<1>1. PICK k \in Nat : Refill(k)
  <2>1. base \in Nat /\ len \in Nat /\ base + len <= Len(input) /\ Len(input) \in Nat
    BY DEF Shape, TypeInv, InputInv
  <2>2. \E k \in (IF Len(input) - (base + len) = 0 THEN {0}
                  ELSE 1 .. Len(input) - (base + len)) : Refill(k)
    BY DEF Fill
  <2> QED BY <2>1, <2>2
<1>2. /\ UNCHANGED <<config, count, has_matched, after_context_left>> /\ pc = "fill"
      /\ last_line_visited' = 0 /\ pos' = len - Consumed /\ pc' \in {"finish", "match"}
  BY <1>1 DEF Fill, Refill
<1>3. /\ len \in Nat /\ last_line_visited \in Nat /\ last_line_visited <= len
      /\ config.before \in Nat /\ pos = len
  BY <1>2, Numbers DEF Shape, StageInv, PosInv
<1>4. IsFast' = IsFast /\ Exceeded(count)' = Exceeded(count)
  BY <1>2 DEF IsFast, Exceeded, HasLimit
<1>5. Spent => Spent'
  <2> SUFFICES ASSUME pos <= last_line_visited PROVE Spent'
    BY <1>2 DEF Spent
  <2>1. last_line_visited = len
    BY <1>3
  <2>2. Consumed = len
    BY <1>3, <2>1 DEF Consumed, Greater
  <2> QED BY <1>2, <1>3, <2>2 DEF Spent
<1>6. IsFast /\ Exceeded(count) => Spent
  BY <1>2 DEF SpentInv
<1> QED BY <1>2, <1>4, <1>5, <1>6 DEF SpentInv

LEMMA SinkSpent ==
    ASSUME Shape, SpentInv, Inverted, Sink, UNCHANGED multiVars
    PROVE  SpentInv'
<1> DEFINE kind == Head(plan)[1]
           p == Head(plan)[2]
           q == Head(plan)[3]
<1>1. pc = "sink" /\ UNCHANGED <<config, len, has_matched, next, onstop>>
  BY DEF Sink, bufVars
<1>2. /\ \/ /\ last_line_visited' = q
            /\ after_context_left' = LeftAfter(kind)
            /\ plan' = Tail(plan)
            /\ pc' = IF plan' = <<>> THEN next ELSE "sink"
         \/ plan' = <<>> /\ pc' = onstop
      /\ count' = IF kind = "inverted" THEN count + 1 ELSE count
  BY DEF Sink, ctxVars
<1>3. /\ plan \in Seq(Entry) /\ Len(plan) \in Nat /\ 1 \in 1 .. Len(plan)
      /\ plan[1][1] = kind /\ plan[1][3] = q /\ kind \in Kinds
      /\ Tail(plan) \in Seq(Entry) /\ Len(Tail(plan)) = Len(plan) - 1
      /\ \A i \in 1 .. Len(plan) - 1 : Tail(plan)[i] = plan[i + 1]
  <2> DEFINE kk == kind
             pp == p
             qq == q
  <2>1. kk = Head(plan)[1] /\ pp = Head(plan)[2] /\ qq = Head(plan)[3]
    OBVIOUS
  <2> HIDE DEF kk, pp, qq
  <2>2. /\ plan \in Seq(Entry) /\ Len(plan) \in Nat /\ 1 \in 1 .. Len(plan)
        /\ Head(plan) = plan[1] /\ kk \in Kinds
        /\ Tail(plan) \in Seq(Entry) /\ Len(Tail(plan)) = Len(plan) - 1
        /\ \A i \in 1 .. Len(plan) - 1 : Tail(plan)[i] = plan[i + 1]
    BY <1>1, <2>1, HeadIs
  <2> QED BY <2>1, <2>2 DEF kk, qq
<1> HIDE DEF kind, p, q
<1>4. /\ next \in {"slow", "fast", "fastEnd", "fastDone", "stop", "finish"}
      /\ onstop \in {"stop", "fastEnd"}
  BY <1>1 DEF Shape, StageInv, Goals, StopGoals, ByLine, Inverted
<1>5. /\ count \in Nat /\ config.limit \in Nat /\ after_context_left \in Nat /\ len \in Nat
  BY Numbers
<1>6. IsFast' = IsFast /\ HasLimit' = HasLimit
      /\ Exceeded(count)' = (HasLimit /\ count' >= config.limit)
  BY <1>1 DEF IsFast, HasLimit, Exceeded
<1>7. /\ next = "slow" => ~IsFast
      /\ next = "fast" => ~config.passthru /\ Allowed(plan)
      /\ next = "fastDone" => Exhausts(plan)
  BY <1>1 DEF SpentInv
<1>8. CASE plan' = <<>> /\ pc' = onstop
  BY <1>1, <1>4, <1>8 DEF SpentInv
<1>9. CASE /\ last_line_visited' = q
           /\ after_context_left' = LeftAfter(kind)
           /\ plan' = Tail(plan)
           /\ pc' = IF plan' = <<>> THEN next ELSE "sink"
  <2>1. CASE plan' = <<>>
    <3>1. Len(plan) = 1 /\ pc' = next
      <4> DEFINE T == Tail(plan)
                 L == Len(plan)
      <4>1. T = <<>> /\ Len(T) = L - 1 /\ L \in Nat /\ pc' = next
        BY <1>3, <1>9, <2>1
      <4> HIDE DEF T, L
      <4>2. L = 1
        BY <4>1
      <4> QED BY <4>1, <4>2 DEF L
    <3>2. next = "fast" => ~Exceeded(count)'
      <4>0. count' \in Nat
        BY <1>2, <1>5
      <4> SUFFICES ASSUME next = "fast", HasLimit PROVE count' < config.limit
        <5>1. count' < config.limit => ~(count' >= config.limit)
          BY <1>5, <4>0
        <5> QED BY <1>6, <5>1
      <4>1. kind = "inverted"
        BY <1>3, <1>7, <3>1 DEF Allowed
      <4>2. count + (1 - 1 + 1) < config.limit
        BY <1>3, <1>7, <3>1, <4>1 DEF Allowed
      <4> QED BY <1>2, <1>5, <4>1, <4>2
    <3>3. next = "fastDone" => after_context_left' = 0 \/ last_line_visited' = len
      <4> SUFFICES ASSUME next = "fastDone"
                   PROVE  after_context_left' = 0 \/ last_line_visited' = len
        OBVIOUS
      <4>1. kind \in After /\ (after_context_left = 1 \/ q = len)
        BY <1>3, <1>7, <3>1 DEF Exhausts
      <4>2. kind \in After => after_context_left' = after_context_left - 1
        BY <1>9 DEF After, LeftAfter
      <4> QED BY <1>5, <1>9, <4>1, <4>2
    <3> QED BY <1>1, <1>4, <1>6, <1>7, <3>1, <3>2, <3>3 DEF SpentInv
  <2>2. CASE plan' # <<>>
    <3>1. pc' = "sink" /\ Len(plan) >= 2 /\ Len(plan') = Len(plan) - 1
      <4>1. Len(plan') # 0
        BY <1>3, <1>9, <2>2
      <4> QED BY <1>3, <1>9, <2>2, <4>1
    <3>2. \A i \in 1 .. Len(plan') : plan'[i] = plan[i + 1] /\ i + 1 \in 1 .. Len(plan)
      BY <1>3, <1>9, <3>1
    <3>3. plan'[Len(plan')] = plan[Len(plan)]
      <4>1. Len(plan') \in 1 .. Len(plan') /\ Len(plan') + 1 = Len(plan)
        BY <1>3, <3>1
      <4> QED BY <3>2, <4>1
    <3>4. next = "fast" => Allowed(plan)'
      <4> SUFFICES ASSUME next = "fast" PROVE Allowed(plan)'
        OBVIOUS
      <4>1. plan'[Len(plan')][1] = "inverted"
        BY <1>7, <3>3 DEF Allowed
      <4>2. ASSUME HasLimit, NEW i \in 1 .. Len(plan'), plan'[i][1] = "inverted"
            PROVE  count' + (Len(plan') - i + 1) < config.limit
        <5>1. plan'[i] = plan[i + 1] /\ i + 1 \in 1 .. Len(plan)
          BY <3>2
        <5>2. count + (Len(plan) - (i + 1) + 1) < config.limit
          BY <1>7, <4>2, <5>1 DEF Allowed
        <5>3. kind = "inverted" => count + (Len(plan) - 1 + 1) < config.limit
          BY <1>3, <1>7, <4>2 DEF Allowed
        <5> DEFINE L == Len(plan)
                   M == Len(plan')
        <5>4. /\ L \in Nat /\ M = L - 1 /\ i \in Nat /\ i >= 1
              /\ count + (L - (i + 1) + 1) < config.limit
              /\ kind = "inverted" => count + (L - 1 + 1) < config.limit
          BY <1>3, <3>1, <5>2, <5>3
        <5> HIDE DEF L, M
        <5>5. count' + (M - i + 1) < config.limit
          BY <1>2, <1>5, <5>4
        <5> QED BY <5>5 DEF M
      <4> QED BY <1>1, <1>6, <4>1, <4>2 DEF Allowed
    <3>5. next = "fastDone" => Exhausts(plan)'
      <4> SUFFICES ASSUME next = "fastDone" PROVE Exhausts(plan)'
        OBVIOUS
      <4>1. /\ \A i \in 1 .. Len(plan) : plan[i][1] \in After
            /\ Len(plan) = after_context_left \/ plan[Len(plan)][3] = len
        BY <1>7 DEF Exhausts
      <4>2. \A i \in 1 .. Len(plan') : plan'[i][1] \in After
        BY <3>2, <4>1
      <4>3. kind \in After
        BY <1>3, <4>1
      <4>4. after_context_left' = after_context_left - 1
        BY <1>9, <4>3 DEF After, LeftAfter
      <4>5. Len(plan') = after_context_left' \/ plan'[Len(plan')][3] = len
        BY <3>1, <3>3, <4>1, <4>4
      <4> QED BY <1>1, <4>2, <4>5 DEF Exhausts
    <3> QED BY <1>1, <1>6, <1>7, <3>1, <3>4, <3>5 DEF SpentInv
  <2> QED BY <2>1, <2>2
<1> QED BY <1>2, <1>8, <1>9

LEMMA SpentInit ==
    ASSUME MultiInit
    PROVE  SpentInv
<1>1. PICK x \in Cases : InitWith(x)
  BY DEF MultiInit
<1>2. pc = "begin" /\ after_context_left = 0
  BY <1>1 DEF InitWith
<1> QED BY <1>2 DEF SpentInv, Spent

LEMMA ConfigKept ==
    ASSUME [SearcherNext]_allVars
    PROVE  config' = config
<1>1. CASE UNCHANGED allVars
  BY <1>1 DEF allVars, vars
<1>2. CASE MultiNext
  BY <1>2 DEF MultiNext, FindNone, FindMatch, FindInverted, LastMatch, Trail
<1>3. CASE Next
  BY <1>3 DEF Next, Sink, Slow, SlowStops, SlowEnds, SlowLine, Fast, FastSwitches, FastMatch,
     FastInverted, FastLoopEnds, FastContext, FastDone, Run, Begin, Fill, MatchByLine, More,
     Stop, Finish, Done, vars
<1> QED BY <1>1, <1>2, <1>3 DEF SearcherNext

LEMMA SpentStep ==
    ASSUME Shape, SpentInv, [SearcherNext]_allVars
    PROVE  SpentInv'
<1>1. config' = config
  BY ConfigKept
<1>2. CASE ~Inverted
  BY <1>1, <1>2 DEF SpentInv, Inverted
<1>3. CASE Inverted
  <2>1. CASE UNCHANGED allVars
    <3>1. UNCHANGED <<config, len, pos, last_line_visited, after_context_left, has_matched,
                      count, pc, plan, next>>
      BY <2>1 DEF allVars, vars, bufVars, ctxVars, planVars
    <3>2. IsFast' = IsFast /\ Exceeded(count)' = Exceeded(count) /\ Spent' = Spent
      BY <3>1 DEF IsFast, Exceeded, HasLimit, Spent
    <3>3. Allowed(plan)' = Allowed(plan) /\ Exhausts(plan)' = Exhausts(plan)
      BY <3>1 DEF Allowed, Exhausts, HasLimit
    <3> QED BY <1>3, <3>1, <3>2, <3>3 DEF SpentInv
  <2>2. CASE MultiNext
    <3>1. config.multi
      BY <2>2 DEF MultiNext, FindNone, FindMatch, FindInverted, LastMatch, Trail, Shape,
         StageInv, Goals, ByLine
    <3> QED BY <1>3, <3>1 DEF Inverted
  <2>3. CASE Next /\ UNCHANGED multiVars
    <3>1. CASE Sink
      BY <1>3, <2>3, <3>1, SinkSpent
    <3>2. CASE Slow
      BY <1>3, <2>3, <3>2, SlowSpent
    <3>3. CASE Fast
      BY <1>3, <2>3, <3>3, FastSpent
    <3>4. CASE Begin \/ MatchByLine \/ More \/ Stop \/ Finish
      BY <1>3, <3>4, RunSpent
    <3>5. CASE Fill
      BY <1>3, <3>5, FillSpent
    <3>6. CASE Done
      BY <2>1, <2>3, <3>6 DEF Done, allVars
    <3> QED BY <2>3, <3>1, <3>2, <3>3, <3>4, <3>5, <3>6 DEF Next, Run
  <2> QED BY <2>1, <2>2, <2>3 DEF SearcherNext
<1> QED BY <1>2, <1>3
-----------------------------------------------------------------------------
(* The number of bytes searched.                                           *)

\* The searches that the proof is about.  An inverted search of the fast path
\* goes on after a refusal, to the context and, if that is accepted, to the next
\* buffer.  In a multi-line search with a limit a line of the context that matches
\* on its own is met again and moves the position back, behind a match that is
\* shown later.
Covered(c) == /\ ~(c.invert /\ c.fast /\ c.refusing)
              /\ ~(c.multi /\ c.limit # NoLimit /\ c.after > 0)

\* Something has cut the search short.
Cut == refused \/ IsBinary \/ HasLimit \/ config.stop_on_nonmatch

\* What has been shown lies before the position, which Core moves along the
\* lines or, in an inverted or a multi-line search, in one step; and before the
\* lines that the next buffer starts with.
ShownInv ==
    \A i \in 1 .. Len(events) : events[i].kind = "match" =>
        /\ config.slice \/ pc \notin {"finish", "done"} => StartOf(events[i].last) <= base + pos
        /\ ~config.slice /\ pc \in {"finish", "done"} => events[i].last <= base
        /\ ~config.multi /\ pc \notin {"stop", "finish", "done"} =>
              events[i].last <= base + last_line_visited

\* The planned calls move the position along, or are about lines behind it.
Along == {"before", "after", "other", "match", "again"}
Behind == {"before", "after", "other", "inverted", "block"}
Moving(s) == ~config.multi /\ \A i \in 1 .. Len(s) : s[i][1] \in Along
Passed(s, at) == \A i \in 1 .. Len(s) :
    s[i][1] \in Behind /\ (s[i][1] \in {"inverted", "block"} => StartOf(s[i][3]) <= at)

CallInv ==
    pc = "sink" => /\ Moving(plan) \/ Passed(plan, pos)
                   /\ onstop = "fastEnd" => config.invert /\ config.fast
                   /\ next = "fast" => config.fast

\* A search that nothing has cut short ends at the end of the text.
EndInv ==
    /\ pc = "stop" => Cut
    /\ pc = "fast" => config.fast
    /\ pc = "sink" =>
         /\ next = "stop" => config.stop_on_nonmatch
         /\ next \in {"trail", "finish"} \/ onstop = "trail" => config.multi /\ pos = TextEnd
    /\ pc = "trail" => pos = TextEnd
    /\ pc \in {"finish", "done"} =>
         \/ Cut
         \/ config.slice /\ pos = StartOf(len)
         \/ ~config.slice /\ base = Len(input)
    /\ pc = "done" => byte_count = SearchedBytes

\* A match kept back is behind the position, and has lines unless it is at the end.
KeptInv ==
    config.multi /\ last_match # NoMatch =>
         /\ 2 * last_match.start <= pos
         /\ Empty(last_match) => pos = TextEnd

ByteInv == Covered(config) /\ ShownInv /\ CallInv /\ EndInv /\ KeptInv

\* A step between calls, after which the calls s are planned, or none.
LEMMA ThinkBytes ==
    ASSUME Shape, ByteInv, Thinks, pc \notin {"stop", "finish", "done", "sink"},
           pos' \in Nat, pos <= pos',
           NEW s \in Seq(Entry), NEW n, NEW o, Planned(s, n, o),
           s # <<>> =>
             /\ Moving(s) \/ Passed(s, pos')
             /\ o = "fastEnd" => config.invert /\ config.fast
             /\ n = "fast" => config.fast
             /\ n = "stop" => config.stop_on_nonmatch
             /\ n \in {"trail", "finish"} \/ o = "trail" => config.multi /\ pos' = TextEnd,
           s = <<>> =>
             /\ n \notin {"sink", "done"}
             /\ n = "stop" => Cut
             /\ n = "fast" => config.fast
             /\ n = "trail" => pos' = TextEnd
             /\ n = "finish" => config.slice /\ pos' = StartOf(len),
           KeptInv'
    PROVE  ByteInv'
<1>1. /\ UNCHANGED <<input, config, base, len, last_line_visited, binary_byte_offset,
                     events, refused, hits>>
  BY DEF Thinks, bufVars, ctxVars, sinkVars
<1>2. /\ TextEnd' = TextEnd /\ Cut' = Cut /\ \A p : StartOf(p)' = StartOf(p)
  <2>1. TextEnd' = TextEnd
    BY <1>1 DEF TextEnd
  <2>2. Cut' = Cut
    BY <1>1 DEF Cut, IsBinary, HasLimit
  <2> QED BY <1>1, <2>1, <2>2 DEF StartOf
<1>3. \/ s = <<>> /\ pc' = n
      \/ s # <<>> /\ pc' = "sink" /\ plan' = s /\ next' = n /\ onstop' = o
  BY DEF Planned
<1>4. base \in Nat /\ pos \in Nat /\ config.slice \in BOOLEAN
  BY Numbers
<1>5. ShownInv'
  <2>1. pc' \in {"finish", "done"} => config.slice
    BY <1>3
  <2>2. ASSUME NEW i \in 1 .. Len(events), events[i].kind = "match"
        PROVE  /\ StartOf(events[i].last) <= base + pos'
               /\ ~config.multi => events[i].last <= base + last_line_visited
    <3>1. /\ StartOf(events[i].last) <= base + pos
          /\ ~config.multi => events[i].last <= base + last_line_visited
      BY <2>2 DEF ByteInv, ShownInv
    <3>2. events[i].last \in Nat
      <4>1. events \in Seq(Events)
        BY DEF Shape, TypeInv
      <4>2. events[i] \in Events
        BY <4>1
      <4> QED BY <4>2 DEF Events
    <3>3. StartOf(events[i].last) \in Nat
      BY <3>2, StartIs DEF Shape
    <3> QED BY <1>4, <3>1, <3>3
  <2>3. \A i \in 1 .. Len(events') : StartOf(events[i].last)' = StartOf(events[i].last)
    BY <1>1, <1>2 DEF StartOf
  <2> QED BY <1>1, <2>1, <2>2, <2>3 DEF ShownInv
<1>6. CallInv'
  <2>1. Moving(s)' = Moving(s)
    BY <1>1 DEF Moving
  <2>2. Passed(s, pos') => Passed(plan, pos)' \/ plan' # s
    <3> SUFFICES ASSUME Passed(s, pos'), plan' = s PROVE Passed(plan, pos)'
      OBVIOUS
    <3>1. \A i \in 1 .. Len(s) : StartOf(plan[i][3])' = StartOf(s[i][3])
      BY <1>1, <1>2 DEF StartOf
    <3> QED BY <3>1 DEF Passed
  <2>3. Moving(s) /\ plan' = s => Moving(plan)'
    BY <1>1 DEF Moving
  <2>4. s = <<>> => pc' # "sink"
    BY <1>3
  <2> QED BY <1>1, <1>3, <2>2, <2>3, <2>4 DEF CallInv
<1>7. EndInv'
  <2>1. StartOf(len)' = StartOf(len)
    BY <1>1, <1>2 DEF StartOf
  <2>2. CASE s = <<>>
    BY <1>1, <1>2, <1>3, <2>1, <2>2 DEF EndInv
  <2>3. CASE s # <<>>
    BY <1>1, <1>2, <1>3, <2>3 DEF EndInv
  <2> QED BY <2>2, <2>3
<1>8. Covered(config)'
  BY <1>1 DEF ByteInv, Covered
<1> QED BY <1>5, <1>6, <1>7, <1>8 DEF ByteInv

\* Calls about lines behind a position, one behind the other.
LEMMA PassedJoined ==
    ASSUME NEW at, NEW a \in Seq(Entry), NEW b \in Seq(Entry), NEW c \in Seq(Entry),
           Passed(a, at), Passed(b, at), Passed(c, at)
    PROVE  a \o b \o c \in Seq(Entry) /\ Passed(a \o b \o c, at)
<1>1. ASSUME NEW s \in Seq(Entry), NEW t \in Seq(Entry), Passed(s, at), Passed(t, at)
      PROVE  s \o t \in Seq(Entry) /\ Passed(s \o t, at)
  <2>1. /\ s \o t \in Seq(Entry) /\ Len(s \o t) = Len(s) + Len(t)
        /\ Len(s) \in Nat /\ Len(t) \in Nat
        /\ \A i \in 1 .. Len(s) : (s \o t)[i] = s[i]
        /\ \A i \in (Len(s) + 1) .. (Len(s) + Len(t)) : (s \o t)[i] = t[i - Len(s)]
    BY Joined
  <2>2. ASSUME NEW i \in 1 .. Len(s \o t)
        PROVE  \/ \E j \in 1 .. Len(s) : (s \o t)[i] = s[j]
               \/ \E j \in 1 .. Len(t) : (s \o t)[i] = t[j]
    <3>0. i \in 1 .. Len(s) + Len(t) /\ i \in Nat
      BY <2>1
    <3>1. CASE i <= Len(s)
      BY <2>1, <3>0, <3>1
    <3>2. CASE i > Len(s)
      <4>1. i - Len(s) \in 1 .. Len(t)
        BY <2>1, <3>0, <3>2
      <4>2. (s \o t)[i] = t[i - Len(s)]
        BY <2>1, <3>0, <3>2
      <4> QED BY <4>1, <4>2
    <3>3. i <= Len(s) \/ i > Len(s)
      BY <2>1, <3>0
    <3> QED BY <3>1, <3>2, <3>3
  <2> DEFINE u == s \o t
  <2> HIDE DEF u
  <2>3. ASSUME NEW i \in 1 .. Len(u)
        PROVE  u[i][1] \in Behind /\ (u[i][1] \in {"inverted", "block"} => StartOf(u[i][3]) <= at)
    BY <1>1, <2>2 DEF Passed, u
  <2>4. Passed(u, at)
    BY <2>3 DEF Passed
  <2> QED BY <2>1, <2>4 DEF u
<1>2. a \o b \in Seq(Entry) /\ Passed(a \o b, at)
  BY <1>1
<1> DEFINE d == a \o b
<1>3. d \in Seq(Entry) /\ Passed(d, at)
  BY <1>2
<1> HIDE DEF d
<1>4. d \o c \in Seq(Entry) /\ Passed(d \o c, at)
  BY <1>1, <1>3
<1> QED BY <1>4 DEF d

LEMMA SlowBytes ==
    ASSUME Shape, OrderInv, ByteInv, Slow, UNCHANGED multiVars
    PROVE  ByteInv'
<1>1. Thinks
  BY DEF Slow, SlowStops, SlowEnds, SlowLine, Thinks, multiVars
<1>2. pc = "slow" /\ ~config.multi /\ pos <= len
  BY ByLineStage DEF Slow, SlowStops, SlowEnds, SlowLine
<1>3. /\ pos \in Nat /\ len \in Nat /\ last_line_visited \in Nat /\ config.before \in Nat
      /\ InputInv /\ TypeInv
  BY Numbers DEF Shape
<1>4. KeptInv' /\ <<>> \in Seq(Entry)
  <2>1. config' = config
    BY <1>1 DEF Thinks
  <2> QED BY <1>2, <2>1 DEF KeptInv
<1>5. CASE SlowStops \/ SlowEnds
  <2>1. /\ UNCHANGED planVars /\ pos' = pos /\ pc' \in {"stop", "more"}
        /\ pc' = "stop" => Cut
    BY <1>5 DEF SlowStops, SlowEnds, Cut, Exceeded
  <2>2. Planned(<<>>, pc', "stop")
    BY <2>1 DEF Planned
  <2> DEFINE n == pc'
  <2>3. Planned(<<>>, n, "stop") /\ n \in {"stop", "more"} /\ (n = "stop" => Cut)
    BY <2>1, <2>2
  <2> HIDE DEF n
  <2>4. pos' \in Nat /\ pos <= pos'
    BY <1>3, <2>1
  <2> QED BY <1>1, <1>2, <1>4, <2>3, <2>4, ThinkBytes
<1>6. CASE SlowLine
  <2> DEFINE s == IF SlowSuccess THEN SlowPlanMatch ELSE SlowPlanMiss
             n == IF config.stop_on_nonmatch /\ ~SlowSuccess /\ has_matched
                  THEN "stop" ELSE "slow"
  <2>1. pos' = pos + 1 /\ Planned(s, n, "stop")
    BY <1>6 DEF SlowLine
  <2>2. n \in {"stop", "slow"} /\ (n = "stop" => config.stop_on_nonmatch)
    OBVIOUS
  <2>3. s \in Seq(Entry) /\ \A i \in 1 .. Len(s) : s[i][1] \in Along
    <3>1. CASE SlowSuccess
      <4> DEFINE b == BeforeContext(pos, last_line_visited)
                 m == <<<<"match", pos, pos + 1>>>>
                 K == Along
      <4>1. b \in Seq(Entry) /\ \A i \in 1 .. Len(b) : b[i][1] \in K
        BY <1>3, BeforeIs DEF Along
      <4>2. m \in Seq(Entry) /\ \A i \in 1 .. Len(m) : m[i][1] \in K
        BY <1>3 DEF Entry, Kinds, Along
      <4>3. s = b \o m
        BY <3>1 DEF SlowPlanMatch
      <4> HIDE DEF s, b, m, K
      <4>4. s \in Seq(Entry) /\ \A i \in 1 .. Len(s) : s[i][1] \in K
        BY <4>1, <4>2, <4>3, JoinedKinds
      <4> QED BY <4>4 DEF K
    <3>2. CASE ~SlowSuccess
      <4>1. \/ s = <<>>
            \/ \E k \in {"after", "other"} : s = <<<<k, pos, pos + 1>>>>
        BY <3>2 DEF SlowPlanMiss
      <4> HIDE DEF s
      <4>2. ASSUME NEW k \in {"after", "other"}, s = <<<<k, pos, pos + 1>>>>
            PROVE  s \in Seq(Entry) /\ Len(s) = 1 /\ s[1][1] = k
        <5>1. <<k, pos, pos + 1>> \in Entry
          BY <1>3 DEF Entry, Kinds
        <5> QED BY <4>2, <5>1
      <4>3. CASE s = <<>>
        BY <1>4, <4>3
      <4>4. CASE \E k \in {"after", "other"} : s = <<<<k, pos, pos + 1>>>>
        <5>1. PICK k \in {"after", "other"} : s \in Seq(Entry) /\ Len(s) = 1 /\ s[1][1] = k
          BY <4>2, <4>4
        <5>2. \A i \in 1 .. Len(s) : i = 1
          BY <5>1
        <5> QED BY <5>1, <5>2 DEF Along
      <4> QED BY <4>1, <4>3, <4>4
    <3> QED BY <3>1, <3>2
  <2> HIDE DEF s, n
  <2>4. Moving(s)
    BY <1>2, <2>3 DEF Moving
  <2>5. pos' \in Nat /\ pos <= pos'
    BY <1>3, <2>1
  <2>6. s = <<>> => n # "stop" \/ Cut
    BY <2>2 DEF Cut
  <2> QED BY <1>1, <1>2, <1>4, <2>1, <2>2, <2>3, <2>4, <2>5, <2>6, ThinkBytes
<1> QED BY <1>5, <1>6 DEF Slow

LEMMA FastBytes ==
    ASSUME Shape, OrderInv, SpentInv, ByteInv, Fast, UNCHANGED multiVars
    PROVE  ByteInv'
<1>1. Thinks
  BY DEF Fast, FastSwitches, FastMatch, FastInverted, FastLoopEnds, FastContext, FastDone,
     Thinks, multiVars
<1>2. /\ pc \in {"fast", "fastEnd", "fastDone"} /\ ~config.multi /\ pos <= len
  BY ByLineStage DEF Fast, FastSwitches, FastMatch, FastInverted, FastLoopEnds, FastContext,
     FastDone
<1>3. /\ pos \in Nat /\ len \in Nat /\ count \in Nat /\ last_line_visited \in Nat
      /\ after_context_left \in Nat /\ config.limit \in Nat
      /\ InputInv /\ TypeInv
  BY Numbers DEF Shape
<1>4. KeptInv' /\ <<>> \in Seq(Entry)
  <2>1. config' = config
    BY <1>1 DEF Thinks
  <2> QED BY <1>2, <2>1 DEF KeptInv
<1>5. pc = "fast" => config.fast
  BY DEF ByteInv, EndInv
<1>6. CASE FastSwitches \/ FastLoopEnds \/ FastDone
  <2> DEFINE n == pc'
  <2>1. /\ UNCHANGED planVars /\ pos' \in {pos, len} /\ n \in {"slow", "fastEnd", "stop", "more"}
        /\ n = "stop" => Cut
    BY <1>6 DEF FastSwitches, FastLoopEnds, FastDone, Cut, Exceeded
  <2>2. Planned(<<>>, n, "stop")
    BY <2>1 DEF Planned
  <2>3. n \notin {"sink", "done", "fast", "trail", "finish"} /\ (n = "stop" => Cut)
    BY <2>1
  <2>4. pos' \in Nat /\ pos <= pos'
    BY <1>2, <1>3, <2>1
  <2> HIDE DEF n
  <2> QED BY <1>1, <1>2, <1>4, <2>2, <2>3, <2>4, ThinkBytes
<1>7. CASE FastContext
  <2> DEFINE s == AfterContext(len, count)
  <2>1. Planned(s, "fastDone", "stop") /\ pos' = pos
    BY <1>7 DEF FastContext
  <2>2. s \in Seq(Entry) /\ \A i \in 1 .. Len(s) : s[i][1] \in After
    BY <1>3, AfterIs
  <2> HIDE DEF s
  <2>3. Moving(s)
    BY <1>2, <2>2 DEF Moving, After, Along
  <2>4. pos' \in Nat /\ pos <= pos'
    BY <1>3, <2>1
  <2> QED BY <1>1, <1>2, <1>4, <2>1, <2>2, <2>3, <2>4, ThinkBytes
<1>8. CASE FastMatch
  <2> DEFINE p == FirstHit
             t == <<<<"match", p, p + 1>>>>
             v == Greater(last_line_visited, AfterEnd(p))
             c == count + 1
             K == Along
             r == AfterContext(p, c) \o BeforeContext(p, v) \o t
             s == (IF AnyContext
                   THEN AfterContext(p, c) \o BeforeContext(p, v)
                   ELSE <<>>) \o t
  <2>1. Hits # {} /\ Planned(s, "fast", "stop") /\ pc = "fast" /\ pos' = pos
    BY <1>8 DEF FastMatch
  <2>2. p \in Nat
    BY <2>1, FirstHitIs
  <2>3. t \in Seq(Entry) /\ \A i \in 1 .. Len(t) : t[i][1] \in K
    BY <2>2 DEF Entry, Kinds, Along
  <2>4. v \in Nat
    BY <1>3, <2>2 DEF Greater, AfterEnd, Lesser
  <2>5. "after" \in K /\ "before" \in K /\ (Exceeded(c) => "again" \in K)
    BY DEF Along
  <2>9. s = (IF AnyContext THEN r ELSE <<>> \o t)
    OBVIOUS
  <2> HIDE DEF t, p, v, c, K
  <2>6. r \in Seq(Entry) /\ \A i \in 1 .. Len(r) : r[i][1] \in K
    BY <1>3, <2>2, <2>3, <2>4, <2>5, AroundKinds
  <2>7. s \in Seq(Entry) /\ \A i \in 1 .. Len(s) : s[i][1] \in K
    <3>1. <<>> \o t = t
      BY <2>3, ConcatEmptySeq
    <3> HIDE DEF r, s
    <3> QED BY <2>3, <2>6, <2>9, <3>1
  <2> HIDE DEF s
  <2>8. Moving(s)
    BY <1>2, <2>7 DEF Moving, K
  <2>10. pos' \in Nat /\ pos <= pos'
    BY <1>3, <2>1
  <2> QED BY <1>1, <1>2, <1>4, <1>5, <2>1, <2>7, <2>8, <2>10, ThinkBytes
<1>9. CASE FastInverted
  <2> DEFINE end == IF Hits = {} THEN len ELSE FirstHit
             room == IF HasLimit THEN Greater(config.limit - count, 1) ELSE len
             upto == Lesser(end, pos + room)
             t == Span("inverted", pos, upto)
             v == Greater(last_line_visited, AfterEnd(pos))
             K == {"after", "before", "inverted"}
             s == AfterContext(pos, count) \o BeforeContext(pos, v) \o t
             n == IF Exceeded(count + (upto - pos)) THEN "fastEnd" ELSE "fast"
  <2>1. /\ pos' = (IF Hits = {} THEN len ELSE end + 1)
        /\ IF pos = end THEN pc' = "fast" /\ UNCHANGED planVars
           ELSE Planned(s, n, "fastEnd")
        /\ pc = "fast" /\ config.invert
    BY <1>9 DEF FastInverted
  <2>2. end \in Nat /\ pos <= end /\ end <= len
    BY <1>2, <1>3, FirstHitIs
  <2>3. upto \in Nat /\ upto <= end
    BY <1>3, <2>2 DEF Lesser, Greater
  <2>4. pos' \in Nat /\ pos <= pos' /\ upto <= pos'
    BY <1>2, <1>3, <2>1, <2>2, <2>3
  <2>5. v \in Nat
    BY <1>3 DEF Greater, AfterEnd, Lesser
  <2>6. ~Exceeded(count) \/ AfterContext(pos, count) = <<>>
    <3> SUFFICES ASSUME Exceeded(count) PROVE AfterContext(pos, count) = <<>>
      OBVIOUS
    <3>1. Inverted
      BY <1>2, <1>5, <2>1 DEF Inverted
    <3>2. ~SwitchToSlow
      BY <1>9 DEF FastInverted
    <3>3. IsFast
      BY <1>5, <2>1, <3>1, <3>2 DEF SpentInv, IsFast, SwitchToSlow
    <3>4. Spent
      BY <2>1, <3>1, <3>3 DEF SpentInv
    <3> DEFINE a == AfterContext(pos, count)
    <3>5. /\ a \in Seq(Entry) /\ Len(a) \in Nat
          /\ last_line_visited + Len(a) = Greater(last_line_visited, AfterEnd(pos))
          /\ after_context_left = 0 => a = <<>>
      <4>1. /\ a \in Seq(Entry)
            /\ last_line_visited + Len(a) = Greater(last_line_visited, AfterEnd(pos))
            /\ after_context_left = 0 => a = <<>>
        BY <1>3, AfterIs
      <4> HIDE DEF a
      <4>2. Len(a) \in Nat
        BY <4>1
      <4> QED BY <4>1, <4>2
    <3> HIDE DEF a
    <3>6. ASSUME pos <= last_line_visited PROVE a = <<>>
      <4>1. Greater(last_line_visited, AfterEnd(pos)) = last_line_visited
        BY <1>3, <3>6 DEF AfterEnd, Lesser, Greater
      <4>2. Len(a) = 0
        BY <1>3, <3>5, <4>1
      <4> QED BY <3>5, <4>2
    <3>7. a = <<>>
      BY <3>4, <3>5, <3>6 DEF Spent
    <3> QED BY <3>7 DEF a
  <2>7. CASE pos = end
    <3>1. Planned(<<>>, "fast", "stop")
      BY <2>1, <2>7 DEF Planned
    <3> QED BY <1>1, <1>2, <1>4, <1>5, <2>1, <2>4, <3>1, ThinkBytes
  <2>8. CASE pos # end
    <3>1. Planned(s, n, "fastEnd") /\ n \in {"fast", "fastEnd"}
      BY <2>1, <2>8
    <3> HIDE DEF end, v, room, upto, n
    <3>2. "inverted" \in Kinds
      BY DEF Kinds
    <3>3. /\ t \in Seq(Entry) /\ Len(t) \in Nat
          /\ \A i \in 1 .. Len(t) :
               t[i] = <<"inverted", pos + i - 1, pos + i>> /\ pos + i <= upto
      BY <1>3, <2>3, <3>2, SpanIs
    <3> HIDE DEF t
    <3> DEFINE a == AfterContext(pos, count)
               b == BeforeContext(pos, v)
    <3>4. /\ a \in Seq(Entry) /\ b \in Seq(Entry)
          /\ \A i \in 1 .. Len(a) : a[i][1] = "after"
          /\ \A i \in 1 .. Len(b) : b[i][1] = "before"
      <4>1. a \in Seq(Entry) /\ \A i \in 1 .. Len(a) : a[i][1] \in After /\ a[i][1] # "again"
        <5>1. /\ a \in Seq(Entry)
              /\ \A i \in 1 .. Len(a) :
                   a[i][1] \in After /\ (a[i][1] = "again" => Exceeded(count))
          BY <1>3, AfterIs
        <5>2. ~Exceeded(count) \/ a = <<>>
          BY <2>6
        <5> HIDE DEF a
        <5>3. a = <<>> => Len(a) = 0
          OBVIOUS
        <5> QED BY <5>1, <5>2, <5>3
      <4>2. b \in Seq(Entry) /\ \A i \in 1 .. Len(b) : b[i][1] = "before"
        BY <1>3, <2>5, BeforeIs
      <4> HIDE DEF a, b
      <4> QED BY <4>1, <4>2 DEF After
    <3>5. s = a \o b \o t
      OBVIOUS
    <3> HIDE DEF a, b, s
    <3>6. Passed(a, pos') /\ Passed(b, pos')
      BY <3>4 DEF Passed, Behind
    <3>7. Passed(t, pos')
      <4>1. ASSUME NEW i \in 1 .. Len(t) PROVE t[i][1] = "inverted" /\ StartOf(t[i][3]) <= pos'
        <5>1. t[i][1] = "inverted" /\ t[i][3] = pos + i /\ pos + i <= upto /\ i \in Nat
          BY <1>3, <3>3
        <5>2. StartOf(pos + i) = pos + i
          BY <1>2, <1>3, <5>1, StartIs
        <5> QED BY <1>3, <2>3, <2>4, <5>1, <5>2
      <4> QED BY <4>1 DEF Passed, Behind
    <3>8. s \in Seq(Entry) /\ Passed(s, pos')
      BY <3>3, <3>4, <3>5, <3>6, <3>7, PassedJoined
    <3>9. s = <<>> => n \notin {"sink", "done", "stop", "trail", "finish"}
      BY <3>1
    <3> QED BY <1>1, <1>2, <1>4, <1>5, <2>1, <2>4, <3>1, <3>8, <3>9, ThinkBytes
  <2> QED BY <2>7, <2>8
<1> QED BY <1>6, <1>7, <1>8, <1>9 DEF Fast

\* The context around a match, where none of it can be a match met again.
LEMMA AroundPassed ==
    ASSUME InputInv, TypeInv, ~HasLimit \/ config.after = 0, NEW p \in Nat, NEW n, NEW v \in Nat, NEW at
    PROVE  /\ AfterContext(p, n) \in Seq(Entry) /\ Passed(AfterContext(p, n), at)
           /\ BeforeContext(p, v) \in Seq(Entry) /\ Passed(BeforeContext(p, v), at)
<1> DEFINE a == AfterContext(p, n)
           b == BeforeContext(p, v)
<1>1. ~Exceeded(n) \/ a = <<>>
  <2>1. config.after = 0 => after_context_left = 0
    BY DEF InputInv, TypeInv, Config
  <2> QED BY <2>1, AfterIs DEF Exceeded
<1>2. a \in Seq(Entry) /\ \A i \in 1 .. Len(a) : a[i][1] \in After /\ a[i][1] # "again"
  <2>1. /\ a \in Seq(Entry)
        /\ \A i \in 1 .. Len(a) : a[i][1] \in After /\ (a[i][1] = "again" => Exceeded(n))
    BY AfterIs
  <2> HIDE DEF a
  <2>2. a = <<>> => Len(a) = 0
    OBVIOUS
  <2> QED BY <1>1, <2>1, <2>2
<1>3. b \in Seq(Entry) /\ \A i \in 1 .. Len(b) : b[i][1] = "before"
  BY BeforeIs
<1> HIDE DEF a, b
<1>4. Passed(a, at)
  BY <1>2 DEF Passed, After, Behind
<1>5. Passed(b, at)
  BY <1>3 DEF Passed, Behind
<1> QED BY <1>2, <1>3, <1>4, <1>5 DEF a, b

\* Lines as calls of one kind that are not about matches.
LEMMA OthersPassed ==
    ASSUME NEW p \in Nat, NEW q \in Nat, NEW at
    PROVE  Span("other", p, q) \in Seq(Entry) /\ Passed(Span("other", p, q), at)
<1> DEFINE s == Span("other", p, q)
<1>1. "other" \in Kinds
  BY DEF Kinds
<1>2. s \in Seq(Entry) /\ \A i \in 1 .. Len(s) : s[i] = <<"other", p + i - 1, p + i>>
  BY <1>1, SpanIs
<1> HIDE DEF s
<1>3. Passed(s, at)
  BY <1>2 DEF Passed, Behind
<1> QED BY <1>2, <1>3 DEF s

LEMMA ContextPassed ==
    ASSUME InputInv, TypeInv, ~HasLimit \/ config.after = 0,
           NEW p \in Nat, NEW t \in Seq(Entry), NEW at, Passed(t, at)
    PROVE  ContextUpto(p) \o t \in Seq(Entry) /\ Passed(ContextUpto(p) \o t, at)
<1>1. last_line_visited \in Nat /\ after_context_left \in Nat
  BY DEF InputInv, TypeInv, Config
<1>2. CASE config.passthru
  <2> DEFINE o == Span("other", last_line_visited, p)
  <2>1. ContextUpto(p) = o
    BY <1>2 DEF ContextUpto
  <2>2. o \in Seq(Entry) /\ Passed(o, at)
    BY <1>1, OthersPassed
  <2> HIDE DEF o
  <2> DEFINE z == <<>>
  <2>3. z \in Seq(Entry) /\ Passed(z, at)
    BY DEF Passed
  <2>4. z \o o = o
    BY <2>2, ConcatEmptySeq
  <2> HIDE DEF z
  <2>5. z \o o \o t \in Seq(Entry) /\ Passed(z \o o \o t, at)
    BY <2>2, <2>3, PassedJoined
  <2> QED BY <2>1, <2>4, <2>5
<1>3. CASE ~config.passthru
  <2> DEFINE v == Greater(last_line_visited, AfterEnd(p))
             n == count'
             a == AfterContext(p, n)
             b == BeforeContext(p, v)
  <2>1. ContextUpto(p) = a \o b
    BY <1>3 DEF ContextUpto
  <2>2. v \in Nat
    BY <1>1 DEF Greater, AfterEnd, Lesser
  <2> HIDE DEF v, n
  <2>3. a \in Seq(Entry) /\ Passed(a, at) /\ b \in Seq(Entry) /\ Passed(b, at)
    BY <2>2, AroundPassed
  <2> HIDE DEF a, b
  <2>4. a \o b \o t \in Seq(Entry) /\ Passed(a \o b \o t, at)
    BY <2>3, PassedJoined
  <2> QED BY <2>1, <2>4
<1> QED BY <1>2, <1>3

\* A match's lines end behind it; one that has none is at the end of the text.
LEMMA LocateEnds ==
    ASSUME Shape, config.multi, NEW s \in Nat, NEW e \in Nat, s <= e, e <= TextEnd
    PROVE  /\ e <= StartOf(Locate(s, e).end)
           /\ StartOf(Locate(s, e).start) <= s
           /\ Locate(s, e).start >= Locate(s, e).end => s = TextEnd /\ e = TextEnd
<1> DEFINE from == Locate(s, e).start
           to == Locate(s, e).end
<1>1. /\ TextEnd \in Nat /\ len \in Nat /\ TextEnd \in {2 * len, 2 * len - 1}
  BY WholeText, Numbers
<1>2. /\ from \in 0 .. len /\ to \in 0 .. len
      /\ 2 * from <= s
      /\ from >= to => to = len
  <2>1. e <= 2 * len
    BY <1>1
  <2> QED BY <1>1, <2>1, LocateIs
<1>3. 2 * to >= e \/ to = len
  <2>1. to = (IF e > 2 * (s \div 2) /\ e % 2 = 0 THEN e \div 2 ELSE Lesser(len, e \div 2 + 1))
    BY DEF Locate
  <2>2. CASE e > 2 * (s \div 2) /\ e % 2 = 0
    BY <2>1, <2>2
  <2>3. CASE ~(e > 2 * (s \div 2) /\ e % 2 = 0)
    <3>1. to = Lesser(len, e \div 2 + 1) /\ 2 * (e \div 2 + 1) >= e
      BY <2>1, <2>3
    <3> QED BY <1>1, <3>1 DEF Lesser
  <2> QED BY <2>2, <2>3
<1> HIDE DEF from, to
<1>4. /\ StartOf(to) = (IF 2 * to > TextEnd THEN TextEnd ELSE 2 * to)
      /\ StartOf(from) = (IF 2 * from > TextEnd THEN TextEnd ELSE 2 * from)
  BY <1>1, <1>2, StartIs DEF Shape
<1>5. e <= StartOf(to)
  BY <1>1, <1>2, <1>3, <1>4
<1>6. StartOf(from) <= s
  BY <1>1, <1>2, <1>4
<1>7. from >= to => s = TextEnd /\ e = TextEnd
  BY <1>1, <1>2
<1> QED BY <1>5, <1>6, <1>7 DEF from, to

\* The lines of a match that has been kept back.
LEMMA BlockPassed ==
    ASSUME NEW r, r.start \in 0 .. len, r.end \in 0 .. len, len \in Nat,
           NEW at, StartOf(r.end) <= at
    PROVE  Block(r) \in Seq(Entry) /\ Passed(Block(r), at)
<1>1. CASE Empty(r)
  BY <1>1 DEF Block, Passed
<1>2. CASE ~Empty(r)
  <2> DEFINE b == Block(r)
  <2>1. b = <<<<"block", r.start, r.end>>>>
    BY <1>2 DEF Block
  <2>2. <<"block", r.start, r.end>> \in Entry
    BY DEF Entry, Kinds
  <2>3. b \in Seq(Entry) /\ Len(b) = 1 /\ b[1][1] = "block" /\ b[1][3] = r.end
    BY <2>1, <2>2
  <2> HIDE DEF b
  <2>4. \A i \in 1 .. Len(b) : i = 1
    BY <2>3
  <2>5. Passed(b, at)
    BY <2>3, <2>4 DEF Passed, Behind
  <2> QED BY <2>3, <2>5 DEF b
<1> QED BY <1>1, <1>2

LEMMA MultiBytes ==
    ASSUME Shape, ByteInv, MultiNext
    PROVE  ByteInv'
<1>1. Thinks
  BY DEF MultiNext, FindNone, FindMatch, FindInverted, LastMatch, Trail, Thinks, coreVars,
     multiVars
<1>2. pc \in {"multi", "trail"} /\ config.multi
  BY DEF MultiNext, FindNone, FindMatch, FindInverted, LastMatch, Trail, Shape, StageInv,
     Goals, ByLine
<1>3. /\ pos \in Nat /\ len \in Nat /\ last_line_visited \in Nat
      /\ config.slice /\ TextEnd \in Nat /\ StartOf(len) = TextEnd
      /\ TextEnd \in {2 * len, 2 * len - 1} /\ pos <= TextEnd
      /\ InputInv /\ TypeInv /\ len = Len(input)
  BY <1>2, Numbers, WholeText DEF Shape
<1>4. (~HasLimit \/ config.after = 0) /\ config' = config /\ TextEnd' = TextEnd
  <2>1. config.after \in Nat
    BY Numbers
  <2> QED BY <1>1, <1>2, <2>1 DEF ByteInv, Covered, HasLimit, Thinks, TextEnd
<1>5. /\ last_match # NoMatch => /\ last_match.start \in 0 .. len
                                 /\ last_match.end \in 0 .. len
                                 /\ 2 * last_match.start <= pos
                                 /\ last_match.start >= last_match.end => pos = TextEnd
  BY <1>2, <1>3 DEF TypeInv, ByteInv, KeptInv, Empty
<1>6. <<>> \in Seq(Entry)
  OBVIOUS
<1>7. CASE FindNone
  <2>1. /\ pos' = TextEnd /\ Planned(<<>>, "multi", "multi") /\ last_match' = last_match
    <3>1. pc' = "multi"
      BY <1>7 DEF FindNone
    <3> QED BY <1>7, <3>1 DEF FindNone, multiVars, Planned
  <2>2. KeptInv'
    BY <1>3, <1>4, <1>5, <2>1 DEF KeptInv, Empty, NoMatch
  <2>3. pos' \in Nat /\ pos <= pos'
    BY <1>3, <2>1
  <2> QED BY <1>1, <1>2, <1>6, <2>1, <2>2, <2>3, ThinkBytes
<1>8. CASE FindMatch
  <2> DEFINE s == FirstFound
             e == hits[s]
             line == Locate(s, e)
             q == ContextUpto(last_match.start) \o Block(last_match)
             n == IF Empty(last_match) THEN "finish" ELSE "multi"
  <2>1. /\ Found # {} /\ pc = "multi" /\ pos < TextEnd /\ pos' = Advanced(s, e)
        /\ IF last_match = NoMatch
           THEN last_match' = line /\ pc' = pc /\ UNCHANGED planVars
           ELSE IF Touches(last_match, line)
           THEN /\ last_match' = [last_match EXCEPT !.end = line.end]
                /\ pc' = pc /\ UNCHANGED planVars
           ELSE last_match' = line /\ Planned(q, n, "finish")
    BY <1>8 DEF FindMatch
  <2>2. s \in Nat /\ e \in Nat /\ s <= e /\ e <= TextEnd /\ pos <= s
    BY <1>2, <2>1, FirstFoundIs
  <2>3. pos' \in Nat /\ s <= pos' /\ pos <= pos' /\ (e = TextEnd => pos' = TextEnd)
    BY <1>3, <2>1, <2>2 DEF Advanced
  <2> HIDE DEF s, e
  <2>4. /\ line.start \in 0 .. len /\ line.end \in 0 .. len
        /\ 2 * line.start <= s /\ s <= 2 * line.start + 1
        /\ line.start >= line.end => pos' = TextEnd
    <3>1. e <= 2 * len
      BY <1>3, <2>2
    <3>2. /\ line.start \in 0 .. len /\ line.end \in 0 .. len
          /\ 2 * line.start <= s /\ s <= 2 * line.start + 1
      BY <1>3, <2>2, <3>1, LocateIs
    <3>3. line.start >= line.end => e = TextEnd
      BY <1>2, <2>2, LocateEnds
    <3> QED BY <2>3, <3>2, <3>3
  <2> HIDE DEF line
  <2>5. \/ Planned(<<>>, "multi", "multi")
        \/ /\ last_match # NoMatch /\ ~Touches(last_match, line) /\ last_match' = line
           /\ Planned(q, n, "finish")
    <3> HIDE DEF q, n
    <3> QED BY <2>1 DEF Planned
  <2>6. last_match'.start >= last_match'.end => pos' = TextEnd
    <3>1. CASE last_match' = line
      BY <2>4, <3>1
    <3>2. CASE /\ last_match # NoMatch
               /\ last_match' = [last_match EXCEPT !.end = line.end]
      <4>1. last_match'.start = last_match.start /\ last_match'.end = line.end
        BY <1>3, <3>2 DEF TypeInv
      <4>2. last_match.start <= line.start
        BY SMTT(30), <1>3, <1>5, <2>2, <2>4, <3>2
      <4> QED BY SMTT(30), <1>3, <1>5, <2>4, <3>2, <4>1, <4>2
    <3> HIDE DEF q, n
    <3> QED BY <2>1, <3>1, <3>2
  <2>7. 2 * last_match'.start <= pos'
    <3>1. CASE last_match' = line
      BY <1>3, <2>2, <2>3, <2>4, <3>1
    <3>2. CASE /\ last_match # NoMatch
               /\ last_match' = [last_match EXCEPT !.end = line.end]
      <4>1. last_match'.start = last_match.start
        BY <1>3, <3>2 DEF TypeInv
      <4> QED BY <1>3, <1>5, <2>3, <3>2, <4>1
    <3> HIDE DEF q, n
    <3> QED BY <2>1, <3>1, <3>2
  <2>8. KeptInv'
    BY <1>4, <2>6, <2>7 DEF KeptInv, Empty
  <2>9. CASE Planned(<<>>, "multi", "multi")
    BY <1>1, <1>2, <1>6, <2>3, <2>8, <2>9, ThinkBytes
  <2>10. CASE /\ last_match # NoMatch /\ ~Touches(last_match, line)
              /\ Planned(q, n, "finish")
    <3>1. last_match.end < line.start
      BY <1>5, <2>4, <2>10 DEF Touches
    <3>2. StartOf(last_match.end) <= pos'
      <4>1. last_match.end \in Nat
        BY <1>5, <2>10
      <4>2. StartOf(last_match.end) <= 2 * last_match.end
        <5> DEFINE m == last_match.end
                   st == StartOf(m)
        <5>1. m \in Nat
          BY <4>1
        <5> HIDE DEF m
        <5>2. st = IF 2 * m > TextEnd THEN TextEnd ELSE 2 * m
          BY <1>2, <1>3, <5>1, StartIs
        <5> HIDE DEF st
        <5>3. st <= 2 * m
          BY <1>3, <5>1, <5>2
        <5> QED BY <5>3 DEF st, m
      <4>3. StartOf(last_match.end) \in Nat
        BY <1>3, <4>1, StartIs
      <4> QED BY <1>3, <2>2, <2>3, <2>4, <3>1, <4>1, <4>2, <4>3
    <3>3. Block(last_match) \in Seq(Entry) /\ Passed(Block(last_match), pos')
      BY <1>3, <1>5, <2>10, <3>2, BlockPassed
    <3>4. q \in Seq(Entry) /\ Passed(q, pos')
      BY SMTT(30), <1>3, <1>4, <1>5, <2>10, <3>3, ContextPassed
    <3>5. n = "multi"
      <4>1. ~Empty(last_match)
        BY <1>3, <1>5, <2>1, <2>10 DEF Empty
      <4> QED BY <4>1
    <3> HIDE DEF q, n
    <3> QED BY <1>1, <1>2, <2>3, <2>8, <2>10, <3>4, <3>5, ThinkBytes
  <2> QED BY <2>5, <2>9, <2>10
<1>9. CASE FindInverted
  <2> DEFINE line == IF Found = {} THEN [start |-> len, end |-> len]
                     ELSE Locate(FirstFound, hits[FirstFound])
             from == pos \div 2
             t == Span("block", from, line.start)
             q == ContextUpto(from) \o t
  <2>1. /\ pc = "multi" /\ pos < TextEnd
        /\ pos' = (IF Found = {} THEN TextEnd
                    ELSE Advanced(StartOf(line.start), StartOf(line.end)))
        /\ last_match' = last_match
        /\ \/ Planned(<<>>, "multi", "multi")
           \/ Planned(q, "multi", "finish")
    BY <1>9 DEF FindInverted, multiVars, Uncovered, Span, Planned
  <2>2. /\ line.start \in Nat /\ pos' \in Nat /\ pos <= pos' /\ StartOf(line.start) <= pos'
    <3>1. CASE Found = {}
      BY <1>3, <2>1, <3>1
    <3>2. CASE Found # {}
      <4> DEFINE s == FirstFound
                 e == hits[s]
      <4>1. s \in Nat /\ e \in Nat /\ s <= e /\ e <= TextEnd /\ pos <= s
        BY <1>2, <3>2, FirstFoundIs
      <4>2. line = Locate(s, e)
        BY <3>2
      <4>3. pos' = Advanced(StartOf(line.start), StartOf(line.end))
        BY <2>1, <3>2
      <4> HIDE DEF s, e, line
      <4>4. line.start \in Nat /\ line.end \in Nat
        <5>1. e <= 2 * len
          BY <1>3, <4>1
        <5> QED BY <1>3, <4>1, <4>2, <5>1, LocateIs
      <4>5. e <= StartOf(line.end) /\ StartOf(line.start) <= s
        BY <1>2, <4>1, <4>2, LocateEnds
      <4>6. StartOf(line.start) \in Nat /\ StartOf(line.end) \in Nat
        BY <1>3, <4>4, StartIs
      <4>7. pos' \in Nat /\ StartOf(line.end) <= pos'
        BY <1>3, <4>3, <4>6 DEF Advanced
      <4> QED BY <1>3, <4>1, <4>4, <4>5, <4>6, <4>7
    <3> QED BY <3>1, <3>2
  <2>3. from \in Nat
    BY <1>3
  <2> HIDE DEF line, from
  <2>4. KeptInv'
    BY <1>3, <1>4, <1>5, <2>1, <2>2 DEF KeptInv, Empty, NoMatch
  <2>5. t \in Seq(Entry) /\ Passed(t, pos')
    <3>1. "block" \in Kinds
      BY DEF Kinds
    <3>2. /\ t \in Seq(Entry) /\ Len(t) \in Nat
          /\ \A i \in 1 .. Len(t) : t[i] = <<"block", from + i - 1, from + i>>
                                    /\ from + i <= line.start
      BY <2>2, <2>3, <3>1, SpanIs
    <3> HIDE DEF t
    <3>3. ASSUME NEW i \in 1 .. Len(t) PROVE t[i][1] = "block" /\ StartOf(t[i][3]) <= pos'
      <4>1. t[i][1] = "block" /\ t[i][3] = from + i /\ from + i <= line.start /\ from + i \in Nat
        BY <2>3, <3>2
      <4>2. StartOf(from + i) <= StartOf(line.start) /\ StartOf(from + i) \in Nat
            /\ StartOf(line.start) \in Nat
        BY <1>3, <2>2, <4>1, StartIs
      <4> QED BY <2>2, <4>1, <4>2
    <3> QED BY <3>2, <3>3 DEF Passed, Behind
  <2> HIDE DEF t
  <2>6. q \in Seq(Entry) /\ Passed(q, pos')
    BY <1>3, <1>4, <2>3, <2>5, ContextPassed
  <2> HIDE DEF q
  <2>7. CASE Planned(<<>>, "multi", "multi")
    BY <1>1, <1>2, <1>6, <2>2, <2>4, <2>7, ThinkBytes
  <2>8. CASE Planned(q, "multi", "finish")
    BY <1>1, <1>2, <2>2, <2>4, <2>6, <2>8, ThinkBytes
  <2> QED BY <2>1, <2>7, <2>8
<1>10. CASE LastMatch
  <2> DEFINE q == ContextUpto(last_match.start) \o Block(last_match)
  <2>1. /\ last_match' = NoMatch /\ pos' = pos /\ pos = TextEnd
        /\ \/ Planned(<<>>, "trail", "trail")
           \/ last_match # NoMatch /\ Planned(q, "trail", "trail")
    BY <1>10 DEF LastMatch, Planned
  <2>2. KeptInv' /\ pos' \in Nat /\ pos <= pos' /\ pos' = TextEnd
    BY <1>3, <2>1 DEF KeptInv
  <2>3. CASE Planned(<<>>, "trail", "trail")
    BY <1>1, <1>2, <1>6, <2>2, <2>3, ThinkBytes
  <2>4. CASE last_match # NoMatch /\ Planned(q, "trail", "trail")
    <3>1. StartOf(last_match.end) <= pos'
      <4>1. last_match.end \in Nat /\ last_match.end <= len
        BY <1>3, <1>5, <2>4
      <4>2. StartOf(last_match.end) <= StartOf(len)
        BY <1>3, <4>1, StartIs
      <4> QED BY <1>3, <2>2, <4>2
    <3>2. Block(last_match) \in Seq(Entry) /\ Passed(Block(last_match), pos')
      BY <1>3, <1>5, <2>4, <3>1, BlockPassed
    <3>3. q \in Seq(Entry) /\ Passed(q, pos')
      BY SMTT(30), <1>3, <1>4, <1>5, <2>4, <3>2, ContextPassed
    <3> HIDE DEF q
    <3> QED BY <1>1, <1>2, <2>2, <2>4, <3>3, ThinkBytes
  <2> QED BY <2>1, <2>3, <2>4
<1>11. CASE Trail
  <2> DEFINE q == IF config.passthru THEN Span("other", last_line_visited, len)
                  ELSE AfterContext(len, count)
  <2>1. Planned(q, "finish", "finish") /\ pos' = pos /\ last_match' = last_match /\ pc = "trail"
    BY <1>11 DEF Trail, multiVars
  <2>2. pos' = TextEnd /\ pos' \in Nat /\ pos <= pos' /\ pos' = StartOf(len)
    BY <1>3, <2>1 DEF ByteInv, EndInv
  <2>3. q \in Seq(Entry) /\ Passed(q, pos')
    <3>1. CASE config.passthru
      BY <1>3, <3>1, OthersPassed
    <3>2. CASE ~config.passthru
      <4> DEFINE at == pos'
      <4> HIDE DEF at
      <4>1. AfterContext(len, count) \in Seq(Entry) /\ Passed(AfterContext(len, count), at)
        <5>1. 0 \in Nat
          OBVIOUS
        <5> QED BY <1>3, <1>4, <5>1, AroundPassed
      <4> QED BY <3>2, <4>1 DEF at
    <3> QED BY <3>1, <3>2
  <2>4. KeptInv'
    BY <1>4, <2>1 DEF KeptInv, Empty, ByteInv
  <2> HIDE DEF q
  <2> QED BY <1>1, <1>2, <1>3, <2>1, <2>2, <2>3, <2>4, ThinkBytes
<1> QED BY <1>7, <1>8, <1>9, <1>10, <1>11 DEF MultiNext

\* The offsets of what is shown are those of its lines.
LEMMA ShownEvents ==
    ASSUME Shape, NEW i \in 1 .. Len(events)
    PROVE  events[i].last \in Nat /\ StartOf(events[i].last) \in Nat
<1>1. events \in Seq(Events)
  BY DEF Shape, TypeInv
<1>2. events[i] \in Events
  BY <1>1
<1>3. events[i].last \in Nat
  BY <1>2 DEF Events
<1> QED BY <1>3, StartIs DEF Shape

LEMMA RunBytes ==
    ASSUME Shape, ByteInv, MatchByLine \/ More, UNCHANGED multiVars
    PROVE  ByteInv'
<1>1. Thinks
  BY DEF MatchByLine, More, Thinks, multiVars
<1>2. pc \in {"match", "more"} /\ ~config.multi /\ pos \in Nat /\ pos' = pos /\ UNCHANGED planVars
      /\ config.slice \in BOOLEAN /\ len \in Nat /\ pos <= len /\ StartOf(len) = len
  BY ByLineStage, Numbers DEF MatchByLine, More
<1> DEFINE n == pc'
<1>3. /\ n \in {"fast", "slow", "match", "fill", "finish"}
      /\ n = "fast" => config.fast
      /\ n = "finish" => config.slice /\ pos = len
  <2>1. CASE MatchByLine
    BY <2>1 DEF MatchByLine, IsFast
  <2>2. CASE More
    <3>1. pos < len \/ pos = len
      BY <1>2
    <3> QED BY <1>2, <2>2, <3>1 DEF More
  <2> QED BY <2>1, <2>2
<1>4. KeptInv' /\ <<>> \in Seq(Entry)
  <2>1. config' = config
    BY <1>1 DEF Thinks
  <2> QED BY <1>2, <2>1 DEF KeptInv
<1>5. Planned(<<>>, n, "stop")
  BY <1>2 DEF Planned
<1>6. n \notin {"sink", "done", "stop", "trail"} /\ pos' \in Nat /\ pos <= pos'
      /\ (n = "finish" => config.slice /\ pos' = StartOf(len))
  BY <1>2, <1>3
<1> HIDE DEF n
<1> QED BY <1>1, <1>2, <1>3, <1>4, <1>5, <1>6, ThinkBytes

LEMMA BeginBytes ==
    ASSUME Shape, ByteInv, SilentInv, Begin, UNCHANGED multiVars
    PROVE  ByteInv'
<1>1. /\ UNCHANGED <<input, config, base, len, pos, last_match>>
      /\ pc = "begin" /\ events = <<>>
  BY DEF Begin, bufVars, multiVars, SilentInv
<1>2. PICK ok \in Answers, heard \in Answers :
        LET found == ok /\ config.slice /\ config.detection # "none" /\ BinaryHead # {}
        IN  /\ binary_byte_offset' =
                 IF found THEN (CHOOSE i \in BinaryHead :
                                   \A j \in BinaryHead : i <= j) - 1 ELSE -1
            /\ events' = IF found THEN <<BinaryEvent>> ELSE <<>>
            /\ refused' = (~ok \/ (found /\ ~heard))
            /\ pc' = CASE ~ok \/ (found /\ (Quits \/ ~heard)) -> "finish"
                       [] ok /\ (found => ~Quits /\ heard) /\ config.slice ->
                             IF config.multi THEN "multi" ELSE "more"
                       [] ok /\ ~config.slice -> "fill"
  BY DEF Begin
<1> DEFINE found == ok /\ config.slice /\ config.detection # "none" /\ BinaryHead # {}
           least == CHOOSE i \in BinaryHead : \A j \in BinaryHead : i <= j
<1>3. /\ binary_byte_offset' = (IF found THEN least - 1 ELSE -1)
      /\ events' \in {<<>>, <<BinaryEvent>>}
  BY <1>2
<1>4. found => least - 1 >= 0
  <2> SUFFICES ASSUME BinaryHead # {} PROVE least - 1 >= 0
    OBVIOUS
  <2>1. \A i \in BinaryHead : i \in Nat /\ 1 <= i
    BY CasesAssumption, Numbers DEF BinaryHead, Lesser
  <2>2. BinaryHead \in SUBSET Nat
    BY <2>1
  <2>3. \E i \in BinaryHead : \A j \in BinaryHead : i <= j
    BY <2>2, LeastIn
  <2>4. least \in BinaryHead
    BY <2>3
  <2> HIDE DEF least
  <2> QED BY <2>1, <2>4
<1>5. pc' \in {"finish", "multi", "more", "fill"} /\ (pc' = "finish" => refused' \/ found)
  <2>1. ok \in BOOLEAN /\ heard \in BOOLEAN /\ config.slice \in BOOLEAN
    BY Numbers DEF Answers
  <2>2. refused' = (~ok \/ (found /\ ~heard))
    BY <1>2
  <2>3. pc' \in {"finish", "multi", "more", "fill"}
    BY <1>2, <2>1
  <2>4. ok /\ ~found => pc' # "finish"
    BY <1>2, <2>1
  <2> QED BY <2>1, <2>2, <2>3, <2>4
<1>6. pc' = "finish" => Cut'
  BY <1>3, <1>4, <1>5 DEF Cut, IsBinary
<1> HIDE DEF found, least
<1>7. ShownInv'
  <2>1. \A i \in 1 .. Len(events') : events'[i].kind # "match"
    <3>1. \A s : s = <<>> \/ s = <<BinaryEvent>> =>
                   \A i \in 1 .. Len(s) : s[i].kind # "match"
      BY EventsOf
    <3> QED BY <1>3, <3>1
  <2> QED BY <2>1 DEF ShownInv
<1>8. CallInv' /\ EndInv'
  BY <1>5, <1>6 DEF CallInv, EndInv
<1>9. KeptInv'
  BY <1>1 DEF ByteInv, KeptInv, Empty, TextEnd
<1> QED BY <1>1, <1>7, <1>8, <1>9 DEF ByteInv, Covered

LEMMA EndBytes ==
    ASSUME Shape, ByteInv, Stop \/ Finish, UNCHANGED multiVars
    PROVE  ByteInv'
<1>1. /\ UNCHANGED <<input, config, pos, binary_byte_offset, events, refused, last_match>>
      /\ pc' \in {"finish", "done"} /\ pc \in {"stop", "finish"}
  BY DEF Stop, Finish, multiVars, sinkVars
<1>2. /\ TextEnd' = TextEnd /\ Cut' = Cut /\ \A p : StartOf(p)' = StartOf(p)
  <2>1. TextEnd' = TextEnd
    BY <1>1 DEF TextEnd
  <2>2. Cut' = Cut
    BY <1>1 DEF Cut, IsBinary, HasLimit
  <2> QED BY <1>1, <2>1, <2>2 DEF StartOf
<1>3. CallInv'
  BY <1>1 DEF CallInv
<1>4. KeptInv' /\ Covered(config)'
  BY <1>1, <1>2 DEF ByteInv, KeptInv, Empty, Covered
<1>5. base \in Nat /\ pos \in Nat /\ len \in Nat /\ config.slice \in BOOLEAN
      /\ config.multi \in BOOLEAN /\ (config.multi => config.slice)
  BY Numbers DEF Shape, InputInv
<1>6. CASE Stop
  <2>1. /\ pc = "stop" /\ pc' = "finish"
        /\ base' = IF config.slice THEN base ELSE base + pos
    BY <1>6 DEF Stop
  <2>2. ShownInv'
    <3>1. ASSUME NEW i \in 1 .. Len(events), events[i].kind = "match"
          PROVE  /\ config.slice => StartOf(events[i].last) <= base' + pos
                 /\ ~config.slice => events[i].last <= base'
      <4>1. StartOf(events[i].last) <= base + pos
        BY <2>1, <3>1 DEF ByteInv, ShownInv
      <4>2. events[i].last \in Nat
        BY ShownEvents
      <4>3. ~config.multi => StartOf(events[i].last) = events[i].last
        BY <4>2, StartIs DEF Shape
      <4> QED BY <1>5, <2>1, <4>1, <4>3
    <3>2. \A i \in 1 .. Len(events) : StartOf(events[i].last)' = StartOf(events[i].last)
      BY <1>1, <1>2 DEF StartOf
    <3> QED BY <1>1, <2>1, <3>1, <3>2 DEF ShownInv
  <2>3. EndInv'
    BY <1>2, <2>1 DEF ByteInv, EndInv
  <2> QED BY <1>3, <1>4, <2>2, <2>3 DEF ByteInv
<1>7. CASE Finish
  <2>1. /\ pc = "finish" /\ pc' = "done" /\ base' = base /\ len' = len
        /\ byte_count' = SearchedBytes
    BY <1>7 DEF Finish, bufVars
  <2>2. SearchedBytes' = SearchedBytes
    <3>1. StartOf(binary_byte_offset)' = StartOf(binary_byte_offset)
      BY <1>1, <1>2 DEF StartOf
    <3> QED BY <1>1, <2>1, <3>1 DEF SearchedBytes, IsBinary
  <2>3. StartOf(len)' = StartOf(len)
    BY <1>1, <1>2, <2>1 DEF StartOf
  <2>4. EndInv'
    BY <1>1, <1>2, <2>1, <2>2, <2>3 DEF ByteInv, EndInv
  <2>5. ShownInv'
    <3>1. \A i \in 1 .. Len(events) : StartOf(events[i].last)' = StartOf(events[i].last)
      BY <1>1, <1>2 DEF StartOf
    <3> QED BY <1>1, <2>1, <3>1 DEF ByteInv, ShownInv
  <2> QED BY <1>3, <1>4, <2>4, <2>5 DEF ByteInv
<1> QED BY <1>6, <1>7

LEMMA FillBytes ==
    ASSUME Shape, OrderInv, ByteInv, Fill, UNCHANGED multiVars
    PROVE  ByteInv'
<1>1. PICK k \in Nat : /\ Refill(k)
                       /\ k = 0 => Len(input) = base + len
  <2>1. base \in Nat /\ len \in Nat /\ base + len <= Len(input) /\ Len(input) \in Nat
    BY DEF Shape, TypeInv, InputInv
  <2>2. \E k \in (IF Len(input) - (base + len) = 0 THEN {0}
                  ELSE 1 .. Len(input) - (base + len)) : Refill(k)
    BY DEF Fill
  <2> QED BY <2>1, <2>2
<1>2. UNCHANGED <<input, config>> /\ pc = "fill" /\ ~config.slice /\ ~config.multi /\ pos = len
  <2>1. UNCHANGED <<input, config>> /\ pc = "fill"
    BY DEF Fill
  <2> QED BY <2>1 DEF Shape, StageInv, InputInv
<1>3. /\ base \in Nat /\ len \in Nat /\ last_line_visited \in Nat /\ last_line_visited <= len
      /\ config.before \in Nat /\ events \in Seq(Events) /\ Len(events) \in Nat
  BY <1>2, Numbers DEF Shape, TypeInv, PosInv
<1> DEFINE kept == len - Consumed
           over == kept + k = 0 \/ NothingNew(k)
           found == config.detection # "none" /\ ~IsBinary
                      /\ \E i \in 1 .. k : input[base + len + i].bin
<1>4. /\ pos' = kept /\ last_line_visited' = 0
      /\ base' = base + Consumed + (IF over THEN kept ELSE 0)
      /\ binary_byte_offset' = IF found THEN base + len ELSE binary_byte_offset
      /\ events' = IF found THEN Append(events, BinaryEvent) ELSE events
      /\ pc' = IF refused' \/ over \/ (found /\ Quits) THEN "finish" ELSE "match"
  BY <1>1 DEF Refill
<1>5. /\ Consumed \in Nat /\ Consumed <= len /\ last_line_visited <= Consumed
      /\ ~AnyContext => Consumed = len
  BY <1>3 DEF Consumed, Greater
<1>6. kept \in Nat /\ (over => k = 0)
  BY <1>3, <1>5 DEF NothingNew
<1>7. /\ over => base' = base + len
      /\ ~over => base' = base + Consumed
      /\ base' \in Nat /\ base + len <= base' + kept /\ base + last_line_visited <= base'
  BY <1>3, <1>4, <1>5, <1>6
<1> HIDE DEF kept, over, found
<1>8. found => IsBinary'
  BY <1>3, <1>4 DEF IsBinary
<1>9. pc' \in {"finish", "match"} /\ (pc' = "finish" => Cut' \/ base' = Len(input))
  <2>1. pc' = "finish" => refused' \/ over \/ found
    BY <1>4
  <2>2. over => base' = Len(input)
    BY <1>1, <1>6, <1>7
  <2> QED BY <1>4, <1>8, <2>1, <2>2 DEF Cut
<1>10. ASSUME NEW i \in 1 .. Len(events'), events'[i].kind = "match"
       PROVE  events'[i].last \in Nat /\ events'[i].last <= base'
  <2>1. i \in 1 .. Len(events) /\ events'[i] = events[i]
    <3>1. CASE found
      <4>1. /\ Len(events') = Len(events) + 1 /\ events'[Len(events) + 1] = BinaryEvent
            /\ \A j \in 1 .. Len(events) : events'[j] = events[j]
        BY <1>3, <1>4, <3>1, EventsOf
      <4>2. i # Len(events) + 1
        BY <1>10, <4>1, EventsOf
      <4> QED BY <1>3, <4>1, <4>2
    <3>2. CASE ~found
      BY <1>4, <3>2
    <3> QED BY <3>1, <3>2
  <2>2. events[i].last \in Nat /\ events[i].last <= base + last_line_visited
    BY <1>2, <1>10, <2>1, ShownEvents DEF ByteInv, ShownInv
  <2> QED BY <1>3, <1>7, <2>1, <2>2
<1>11. ShownInv'
  <2>1. ASSUME NEW i \in 1 .. Len(events'), events'[i].kind = "match"
        PROVE  StartOf(events[i].last)' = events'[i].last
    <3>1. (StartOf(events[i].last) = events[i].last)'
      BY <1>2 DEF StartOf
    <3> QED BY <3>1
  <2> QED BY <1>2, <1>4, <1>6, <1>7, <1>10, <2>1 DEF ShownInv
<1>12. CallInv' /\ EndInv' /\ KeptInv'
  BY <1>2, <1>9 DEF CallInv, EndInv, KeptInv
<1> QED BY <1>2, <1>11, <1>12 DEF ByteInv, Covered

\* The sink is told of binary data that is detected among the lines of a call.
LEMMA NoticeGiven ==
    ASSUME Shape, pc \notin {"finish", "done"},
           NEW kind \in Kinds, NEW p \in Nat, NEW q \in Nat, p < q, q <= len, Detected(p, q)
    PROVE  \E i \in 1 .. Len(Calls(kind, p, q)) : Calls(kind, p, q)[i] = BinaryEvent
<1> DEFINE e == Event(NameOf(kind), p, q)
           line == IF Spoilt(p, q) THEN <<>> ELSE <<e>>
           break == IF kind \in MatchKinds /\ Spoilt(p, q) THEN <<>> ELSE Break(p)
           calls == Calls(kind, p, q)
           Has(s) == \E i \in 1 .. Len(s) : s[i] = BinaryEvent
<1>1. \/ calls = break \o Notice(p, q) \o line
      \/ calls = Notice(p, q) \o break \o line
      \/ calls = Notice(p, q) \o line
  <2>1. calls = CASE kind = "before" -> break \o Notice(p, q) \o line
                  [] kind \in MatchKinds -> Notice(p, q) \o break \o line
                  [] OTHER -> Notice(p, q) \o line
    BY DEF Calls, NameOf
  <2> HIDE DEF calls, break, line
  <2> QED BY <2>1
<1>2. Notice(p, q) = <<BinaryEvent>>
  BY DEF Notice
<1>3. e \in Events /\ BreakEvent \in Events /\ BinaryEvent \in Events
  BY EventIs, EventsOf
<1> HIDE DEF e
<1>4. line \in Seq(Events) /\ break \in Seq(Events) /\ Notice(p, q) \in Seq(Events)
  <2>1. <<>> \in Seq(Events) /\ <<e>> \in Seq(Events) /\ <<BreakEvent>> \in Seq(Events)
        /\ <<BinaryEvent>> \in Seq(Events)
    BY <1>3
  <2>2. line \in {<<>>, <<e>>} /\ break \in {<<>>, <<BreakEvent>>}
    BY DEF Break
  <2> HIDE DEF line, break
  <2> QED BY <1>2, <2>1, <2>2
<1>5. Has(Notice(p, q))
  <2>1. Len(<<BinaryEvent>>) = 1 /\ <<BinaryEvent>>[1] = BinaryEvent
    OBVIOUS
  <2> QED BY <1>2, <2>1
<1> HIDE DEF line, break, calls
<1>6. ASSUME NEW s \in Seq(Events), NEW t \in Seq(Events), Has(s) \/ Has(t)
      PROVE  s \o t \in Seq(Events) /\ Has(s \o t)
  <2>1. /\ s \o t \in Seq(Events) /\ Len(s \o t) = Len(s) + Len(t)
        /\ Len(s) \in Nat /\ Len(t) \in Nat
        /\ \A i \in 1 .. Len(s) : (s \o t)[i] = s[i]
        /\ \A i \in 1 .. Len(t) : (s \o t)[Len(s) + i] = t[i]
    BY Joined
  <2> DEFINE u == s \o t
  <2> HIDE DEF u
  <2>2. CASE Has(s)
    <3>1. PICK i \in 1 .. Len(s) : s[i] = BinaryEvent
      BY <2>2
    <3>2. i \in 1 .. Len(u) /\ u[i] = BinaryEvent
      BY <2>1, <3>1 DEF u
    <3>3. Has(u)
      BY <3>2
    <3> QED BY <2>1, <3>3 DEF u
  <2>3. CASE Has(t)
    <3>1. PICK i \in 1 .. Len(t) : t[i] = BinaryEvent
      BY <2>3
    <3>2. Len(s) + i \in 1 .. Len(u) /\ u[Len(s) + i] = BinaryEvent
      BY <2>1, <3>1 DEF u
    <3>3. Has(u)
      BY <3>2
    <3> QED BY <2>1, <3>3 DEF u
  <2> QED BY <1>6, <2>2, <2>3
<1> DEFINE notice == Notice(p, q)
<1>7. notice \in Seq(Events) /\ Has(notice)
  BY <1>4, <1>5
<1>8. /\ calls = (break \o notice) \o line \/ calls = (notice \o break) \o line
         \/ calls = notice \o line
  BY <1>1
<1> HIDE DEF notice, Has
<1>9. break \o notice \in Seq(Events) /\ Has(break \o notice)
  BY <1>4, <1>6, <1>7
<1>10. notice \o break \in Seq(Events) /\ Has(notice \o break)
  BY <1>4, <1>6, <1>7
<1>11. /\ Has((break \o notice) \o line) /\ Has((notice \o break) \o line)
       /\ Has(notice \o line)
  BY <1>4, <1>6, <1>7, <1>9, <1>10
<1>12. Has(calls)
  BY <1>8, <1>11
<1> QED BY <1>12 DEF Has, calls

\* A call moves the position along with the line that it shows, or shows lines
\* behind it; after a false nothing else is shown.
LEMMA SinkBytes ==
    ASSUME Shape, OrderInv, ByteInv, Sink, UNCHANGED multiVars
    PROVE  ByteInv'
<1> DEFINE kind == Head(plan)[1]
           p == Head(plan)[2]
           q == Head(plan)[3]
           calls == Calls(kind, p, q)
           least == CHOOSE i \in Binary(p, q) : \A j \in Binary(p, q) : i <= j
<1>1. /\ pc = "sink"
      /\ UNCHANGED <<input, config, base, len, next, onstop, last_match>>
  BY DEF Sink, bufVars, multiVars
<1>2. PICK n \in 0 .. Len(calls), ok \in Answers :
        /\ IF ok THEN n = Len(calls) ELSE n > 0
        /\ events' = events \o SubSeq(calls, 1, n)
        /\ refused' = ~ok
        /\ binary_byte_offset' =
              IF Detected(p, q) /\ BinaryEvent \in {calls[i] : i \in 1 .. n}
              THEN least ELSE binary_byte_offset
        /\ pos' = IF kind \in {"match", "again"} THEN StartOf(q) ELSE pos
        /\ IF ok /\ ~Spoilt(p, q)
           THEN /\ last_line_visited' = q
                /\ plan' = Tail(plan)
                /\ pc' = IF plan' = <<>> THEN next ELSE "sink"
           ELSE last_line_visited' = last_line_visited /\ plan' = <<>> /\ pc' = onstop
  BY DEF Sink, ctxVars
<1>3. /\ plan \in Seq(Entry) /\ plan # <<>> /\ Len(plan) \in Nat /\ 1 \in 1 .. Len(plan)
      /\ Head(plan) = plan[1]
      /\ kind \in Kinds /\ p \in Nat /\ q \in Nat
      /\ p < q /\ q <= len /\ base + q <= Len(input)
      /\ Tail(plan) \in Seq(Entry) /\ Len(Tail(plan)) = Len(plan) - 1
      /\ \A i \in 1 .. Len(plan) - 1 : Tail(plan)[i] = plan[i + 1]
  <2> DEFINE kk == kind
             pp == p
             qq == q
  <2>1. kk = Head(plan)[1] /\ pp = Head(plan)[2] /\ qq = Head(plan)[3]
    OBVIOUS
  <2> HIDE DEF kk, pp, qq
  <2>2. /\ plan \in Seq(Entry) /\ plan # <<>> /\ Len(plan) \in Nat /\ 1 \in 1 .. Len(plan)
        /\ Head(plan) = plan[1]
        /\ kk \in Kinds /\ pp \in Nat /\ qq \in Nat
        /\ pp < qq /\ qq <= len /\ base + qq <= Len(input)
        /\ Tail(plan) \in Seq(Entry) /\ Len(Tail(plan)) = Len(plan) - 1
        /\ \A i \in 1 .. Len(plan) - 1 : Tail(plan)[i] = plan[i + 1]
    BY <1>1, <2>1, HeadIs
  <2> QED BY <2>2 DEF kk, pp, qq
<1>4. plan[1][1] = kind /\ plan[1][2] = p /\ plan[1][3] = q
  BY <1>3
<1> HIDE DEF kind, p, q
<1>5. /\ calls \in Seq(Events)
      /\ \A i \in 1 .. Len(calls) : calls[i].kind = "match" =>
            kind \in MatchKinds /\ ~Spoilt(p, q) /\ calls[i].last = base + q
  <2> DEFINE e == Event(NameOf(kind), p, q)
  <2>1. /\ calls \in Seq(Events)
        /\ \A i \in 1 .. Len(calls) :
              /\ calls[i] \in {BreakEvent, BinaryEvent, e}
              /\ calls[i] = BinaryEvent =>
                    /\ Detected(p, q)
                    /\ Quits => i = Len(calls)
                    /\ \A j \in 1 .. Len(calls) : calls[j] = BinaryEvent => j = i
              /\ calls[i] = e =>
                    /\ ~Spoilt(p, q)
                    /\ Detected(p, q) => \E j \in 1 .. (i - 1) : calls[j] = BinaryEvent
    BY <1>1, <1>3, CallsIs
  <2>2. BreakEvent.kind # "match" /\ BinaryEvent.kind # "match"
    BY EventsOf
  <2>3. e.kind = NameOf(kind) /\ e.last = base + q
    BY <1>1, <1>3, EventIs
  <2>4. e.kind = "match" => kind \in MatchKinds
    BY <2>3 DEF NameOf, MatchKinds
  <2> HIDE DEF e, calls
  <2> QED BY <2>1, <2>2, <2>3, <2>4
<1>6. Detected(p, q) => /\ least >= 0
                        /\ \E i \in 1 .. Len(calls) : calls[i] = BinaryEvent
  <2>1. Detected(p, q) => Binary(p, q) # {}
    BY DEF Detected
  <2>2. Binary(p, q) # {} => least \in 0 .. Len(input)
    BY <1>3, BinaryIs
  <2>3. Detected(p, q) => \E i \in 1 .. Len(calls) : calls[i] = BinaryEvent
    BY <1>1, <1>3, NoticeGiven
  <2> HIDE DEF least, calls
  <2> QED BY <2>1, <2>2, <2>3
<1> HIDE DEF calls, least
<1>7. /\ base \in Nat /\ pos \in Nat /\ len \in Nat /\ last_line_visited \in Nat
      /\ config.slice \in BOOLEAN /\ config.multi \in BOOLEAN
      /\ config.multi => config.slice /\ base = 0 /\ len = Len(input)
      /\ ok \in BOOLEAN /\ (~config.refusing => ok)
  <2>1. ok \in BOOLEAN /\ (~config.refusing => ok)
    BY DEF Answers
  <2>2. config.multi => config.slice /\ base = 0 /\ len = Len(input)
    BY DEF Shape, InputInv, TypeInv
  <2> QED BY <2>1, <2>2, Numbers
<1>8. /\ TextEnd' = TextEnd /\ \A r : StartOf(r)' = StartOf(r)
  <2>1. TextEnd' = TextEnd
    BY <1>1 DEF TextEnd
  <2> QED BY <1>1, <2>1 DEF StartOf
<1>9. /\ next \in Goals \ {"more", "match", "fill"} /\ onstop \in StopGoals
  BY <1>1 DEF Shape, StageInv
<1>10. /\ Moving(plan) \/ Passed(plan, pos)
       /\ onstop = "fastEnd" => config.invert /\ config.fast /\ ok
       /\ next = "fast" => config.fast
       /\ next = "stop" => config.stop_on_nonmatch
       /\ next \in {"trail", "finish"} \/ onstop = "trail" => config.multi /\ pos = TextEnd
  <2>1. onstop = "fastEnd" => config.invert /\ config.fast
    BY <1>1 DEF ByteInv, CallInv
  <2>2. config.invert /\ config.fast => ok
    BY <1>7 DEF ByteInv, Covered
  <2> QED BY <1>1, <2>1, <2>2 DEF ByteInv, CallInv, EndInv
\* Where the position goes.
<1>11. \/ ~config.multi /\ kind \in Along /\ pos' \in {pos, q}
          /\ (kind \in {"match", "again"} => pos' = q)
       \/ kind \in Behind /\ pos' = pos /\ (kind \in {"inverted", "block"} => StartOf(q) <= pos)
  <2>1. CASE Moving(plan)
    <3>1. ~config.multi /\ kind \in Along
      BY <1>3, <1>4, <2>1 DEF Moving
    <3>2. StartOf(q) = q
      BY <1>3, <3>1, StartIs DEF Shape
    <3> QED BY <1>2, <3>1, <3>2
  <2>2. CASE Passed(plan, pos)
    <3>1. kind \in Behind /\ (kind \in {"inverted", "block"} => StartOf(q) <= pos)
      BY <1>3, <1>4, <2>2 DEF Passed
    <3> QED BY <1>2, <3>1 DEF Behind
  <2> QED BY <1>10, <2>1, <2>2
<1>12. ~config.multi => last_line_visited <= p
  BY <1>1, <1>3, <1>4 DEF OrderInv, Chain
\* Where the search goes.
<1>13. \/ ok /\ ~Spoilt(p, q) /\ last_line_visited' = q /\ plan' = Tail(plan)
          /\ pc' = IF plan' = <<>> THEN next ELSE "sink"
       \/ (~ok \/ Spoilt(p, q)) /\ last_line_visited' = last_line_visited /\ plan' = <<>>
          /\ pc' = onstop
  BY <1>2
<1>14. ASSUME ~ok \/ Spoilt(p, q) PROVE Cut'
  <2>1. CASE ~ok
    BY <1>2, <2>1 DEF Cut
  <2>2. CASE ok /\ Spoilt(p, q)
    <3>1. CASE Detected(p, q)
      <4>1. n = Len(calls)
        BY <1>2, <2>2
      <4>2. BinaryEvent \in {calls[i] : i \in 1 .. n}
        BY <1>6, <3>1, <4>1
      <4>3. binary_byte_offset' = least
        BY <1>2, <3>1, <4>2
      <4> QED BY <1>6, <3>1, <4>3 DEF Cut, IsBinary
    <3>2. CASE ~Detected(p, q)
      <4>1. IsBinary
        BY <2>2, <3>2 DEF Spoilt
      <4>2. binary_byte_offset' = binary_byte_offset
        BY <1>2, <3>2
      <4> QED BY <4>1, <4>2 DEF Cut, IsBinary
    <3> QED BY <3>1, <3>2
  <2> QED BY <1>7, <1>14, <2>1, <2>2
<1>15. pc' \notin {"done", "begin"}
       /\ (pc' = "finish" => config.multi)
       /\ (pc' \notin {"stop", "finish", "sink", "trail"} => pc' # onstop \/ onstop = "fastEnd")
  <2>1. /\ next \notin {"done", "begin"} /\ onstop \in {"trail", "finish", "stop", "fastEnd"}
        /\ onstop = "finish" => config.multi
    BY <1>9 DEF Goals, StopGoals, ByLine, Whole
  <2> QED BY <1>10, <1>13, <2>1
<1> DEFINE s == SubSeq(calls, 1, n)
<1>16. s \in Seq(Events) /\ Len(s) = n /\ \A i \in 1 .. n : s[i] = calls[i]
  BY <1>5
<1>17. n \in Nat /\ n <= Len(calls) /\ Len(calls) \in Nat /\ events' = events \o s
  BY <1>2, <1>5
<1> HIDE DEF s
<1>18. /\ Len(events') = Len(events) + n /\ Len(events) \in Nat
       /\ \A i \in 1 .. Len(events) : events'[i] = events[i]
       /\ \A i \in Len(events) + 1 .. Len(events) + n : events'[i] = s[i - Len(events)]
  <2>1. events \in Seq(Events) /\ Len(events) \in Nat
    BY DEF Shape, TypeInv
  <2>2. /\ Len(events \o s) = Len(events) + Len(s)
        /\ \A i \in 1 .. Len(events) : (events \o s)[i] = events[i]
        /\ \A i \in (Len(events) + 1) .. (Len(events) + Len(s)) : (events \o s)[i] = s[i - Len(events)]
    <3>1. s \in Seq(Events)
      BY <1>16
    <3> DEFINE t == events
               E == Events
    <3>2. t \in Seq(E) /\ s \in Seq(E)
      BY <2>1, <3>1
    <3> HIDE DEF t, E
    <3>3. /\ Len(t \o s) = Len(t) + Len(s)
          /\ \A i \in 1 .. Len(t) : (t \o s)[i] = t[i]
          /\ \A i \in (Len(t) + 1) .. (Len(t) + Len(s)) : (t \o s)[i] = s[i - Len(t)]
      BY <3>2, Joined
    <3> QED BY <3>3 DEF t
  <2> QED BY <1>16, <1>17, <2>1, <2>2
\* What has been shown, before this step and in it.
<1>19. ASSUME NEW i \in 1 .. Len(events'), events'[i].kind = "match"
       PROVE  \/ /\ events'[i].last \in Nat
                 /\ StartOf(events'[i].last) <= base + pos
                 /\ ~config.multi => events'[i].last <= base + last_line_visited
              \/ /\ kind \in MatchKinds /\ ~Spoilt(p, q) /\ events'[i].last = base + q
  <2>1. CASE i \in 1 .. Len(events)
    <3>1. events'[i] = events[i]
      BY <1>18, <2>1
    <3>2. events[i].last \in Nat
      BY <2>1, ShownEvents
    <3> QED BY <1>1, <1>19, <2>1, <3>1, <3>2 DEF ByteInv, ShownInv
  <2>2. CASE i \notin 1 .. Len(events)
    <3>1. i \in Len(events) + 1 .. Len(events) + n /\ i - Len(events) \in 1 .. n
          /\ i - Len(events) \in 1 .. Len(calls)
      BY <1>17, <1>18, <2>2
    <3>2. events'[i] = calls[i - Len(events)]
      BY <1>16, <1>18, <3>1
    <3> QED BY <1>5, <1>19, <3>1, <3>2
  <2> QED BY <2>1, <2>2
<1>20. ShownInv'
  <2>1. ASSUME NEW i \in 1 .. Len(events'), events'[i].kind = "match"
        PROVE  /\ StartOf(events'[i].last) <= base + pos'
               /\ ~config.multi /\ pc' \notin {"stop", "finish", "done"} =>
                     events'[i].last <= base + last_line_visited'
    <3>1. CASE /\ events'[i].last \in Nat
               /\ StartOf(events'[i].last) <= base + pos
               /\ ~config.multi => events'[i].last <= base + last_line_visited
      <4>1. last_line_visited' \in {last_line_visited, q}
        BY <1>13
      <4>2. ~config.multi => StartOf(events'[i].last) = events'[i].last
        BY <3>1, StartIs DEF Shape
      <4>3. ~config.multi => last_line_visited <= q
        BY <1>3, <1>7, <1>12
      <4> QED BY <1>3, <1>7, <1>11, <3>1, <4>1, <4>2, <4>3
    <3>2. CASE kind \in MatchKinds /\ ~Spoilt(p, q) /\ events'[i].last = base + q
      <4>1. StartOf(q) <= pos'
        <5>1. CASE kind \in {"match", "again"}
          <6>1. ~config.multi /\ pos' = q
            BY <1>11, <5>1 DEF Behind
          <6>2. StartOf(q) = q
            BY <1>3, <6>1, StartIs DEF Shape
          <6> QED BY <1>3, <6>1, <6>2
        <5>2. CASE kind \in {"inverted", "block"}
          BY <1>11, <5>2 DEF Along
        <5> QED BY <3>2, <5>1, <5>2 DEF MatchKinds
      <4>2. StartOf(base + q) <= base + pos'
        <5>1. CASE config.multi
          <6>1. base = 0 /\ q \in Nat /\ pos' \in Nat
            BY <1>3, <1>7, <1>11, <5>1
          <6>2. \A x \in Nat : base + x = x
            BY <6>1
          <6>3. base + q = q /\ base + pos' = pos'
            BY <6>1, <6>2
          <6> QED BY <4>1, <6>3
        <5>2. CASE ~config.multi
          <6>1. StartOf(q) = q /\ StartOf(base + q) = base + q
            <7>1. base + q \in Nat
              BY <1>3, <1>7
            <7> QED BY <1>3, <5>2, <7>1, StartIs DEF Shape
          <6>2. pos' \in Nat
            BY <1>3, <1>7, <1>11
          <6> QED BY <1>3, <1>7, <4>1, <6>1, <6>2
        <5> QED BY <5>1, <5>2
      <4>3. ~config.multi /\ pc' \notin {"stop", "finish", "done"} => last_line_visited' = q
        <5>1. onstop = "fastEnd" => ok
          BY <1>10
        <5>2. ok => last_line_visited' = q
          BY <1>13, <3>2
        <5>3. ~config.multi => onstop \in {"stop", "fastEnd"}
          BY <1>9 DEF StopGoals
        <5>4. ~ok => pc' = onstop
          BY <1>13
        <5> QED BY <1>7, <5>1, <5>2, <5>3, <5>4
      <4>4. StartOf(events'[i].last) <= base + pos'
        BY <3>2, <4>2
      <4>5. ~config.multi /\ pc' \notin {"stop", "finish", "done"} =>
               events'[i].last <= base + last_line_visited'
        BY <1>3, <1>7, <3>2, <4>3
      <4> QED BY <4>4, <4>5
    <3> QED BY <1>19, <2>1, <3>1, <3>2
  <2>2. config.slice' \/ pc' \notin {"finish", "done"}
    BY <1>1, <1>7, <1>15
  <2>3. \A i \in 1 .. Len(events') : StartOf(events[i].last)' = StartOf(events'[i].last)
    BY <1>1, <1>8 DEF StartOf
  <2> QED BY <1>1, <2>1, <2>2, <2>3 DEF ShownInv
<1>21. CallInv'
  <2> SUFFICES ASSUME pc' = "sink" PROVE CallInv'
    BY DEF CallInv
  <2>1. plan' = Tail(plan)
    <3>1. next # "sink" /\ onstop # "sink"
      BY <1>9 DEF Goals, StopGoals, ByLine, Whole
    <3> QED BY <1>13, <3>1
  <2>2. /\ Len(plan') = Len(plan) - 1
        /\ \A i \in 1 .. Len(plan') : plan'[i] = plan[i + 1] /\ i + 1 \in 1 .. Len(plan)
    BY <1>3, <2>1
  <2>3. CASE Moving(plan)
    <3>1. Moving(plan')
      BY <2>2, <2>3 DEF Moving
    <3>2. Moving(plan)'
      BY <1>1, <3>1 DEF Moving
    <3> QED BY <1>1, <1>10, <3>2 DEF CallInv
  <2>4. CASE Passed(plan, pos)
    <3>1. pos' = pos
      BY <1>2, <1>3, <1>4, <2>4 DEF Passed, Behind
    <3>2. Passed(plan', pos')
      BY <2>2, <2>4, <3>1 DEF Passed
    <3>3. \A i \in 1 .. Len(plan') : StartOf(plan[i][3])' = StartOf(plan'[i][3])
      BY <1>1, <1>8 DEF StartOf
    <3>4. Passed(plan, pos)'
      BY <3>2, <3>3 DEF Passed
    <3> QED BY <1>1, <1>10, <3>4 DEF CallInv
  <2> QED BY <1>10, <2>3, <2>4
<1>22. config.multi => pos' = pos
  BY <1>11
<1>23. EndInv'
  <2>1. pc' \in {"sink", next, onstop} /\ (pc' = "sink" => pc' # next /\ pc' # onstop)
    <3>1. next # "sink" /\ onstop # "sink"
      BY <1>9 DEF Goals, StopGoals, ByLine, Whole
    <3> QED BY <1>13, <3>1
  <2>2. pc' = onstop /\ pc' # next => Cut'
    BY <1>13, <1>14, <2>1
  <2>3. pc' = "stop" => Cut'
    <3>1. next = "stop" => Cut'
      BY <1>1, <1>10 DEF Cut
    <3> QED BY <2>1, <2>2, <3>1
  <2>4. pc' = "fast" => config.fast
    <3>1. onstop # "fast"
      BY <1>9 DEF StopGoals
    <3> QED BY <1>10, <2>1, <3>1
  <2>5. pc' = "trail" => pos' = TextEnd
    BY <1>10, <1>22, <2>1
  <2>6. pc' = "finish" => Cut' \/ (config.slice /\ pos' = StartOf(len))
    <3>1. next = "finish" => config.slice /\ pos' = StartOf(len)
      <4> SUFFICES ASSUME next = "finish" PROVE config.slice /\ pos' = StartOf(len)
        OBVIOUS
      <4>1. config.multi /\ pos = TextEnd
        BY <1>10
      <4>2. StartOf(len) = TextEnd
        BY <1>7, <4>1, StartIs DEF Shape
      <4> QED BY <1>7, <1>22, <4>1, <4>2
    <3> QED BY <2>1, <2>2, <3>1
  <2>7. StartOf(len)' = StartOf(len)
    BY <1>1, <1>8 DEF StartOf
  <2>8. pc' = "sink" =>
         /\ next' = "stop" => config'.stop_on_nonmatch
         /\ next' \in {"trail", "finish"} \/ onstop' = "trail" => config'.multi /\ pos' = TextEnd'
    BY <1>1, <1>8, <1>10, <1>22
  <2>9. pc' # "done"
    BY <1>15
  <2> QED BY <1>1, <1>8, <2>3, <2>4, <2>5, <2>6, <2>7, <2>8, <2>9 DEF EndInv
<1>24. KeptInv'
  BY <1>1, <1>8, <1>22 DEF ByteInv, KeptInv, Empty
<1> QED BY <1>1, <1>20, <1>21, <1>23, <1>24 DEF ByteInv, Covered

LEMMA BytesStep ==
    ASSUME Shape, OrderInv, SpentInv, SilentInv, ByteInv, [SearcherNext]_allVars
    PROVE  ByteInv'
<1>1. CASE UNCHANGED allVars
  <2>1. UNCHANGED <<input, config, base, len, pos, last_line_visited, binary_byte_offset,
                    pc, plan, next, onstop, events, refused, byte_count, last_match>>
    BY <1>1 DEF allVars, vars, multiVars, bufVars, ctxVars, planVars, sinkVars
  <2>2. TextEnd' = TextEnd
    BY <2>1 DEF TextEnd
  <2>3. \A r : StartOf(r)' = StartOf(r)
    BY <2>1, <2>2 DEF StartOf
  <2>4. StartOf(len)' = StartOf(len) /\ StartOf(binary_byte_offset)' = StartOf(binary_byte_offset)
    BY <2>1, <2>3 DEF StartOf
  <2>5. ShownInv'
    <3>1. \A i \in 1 .. Len(events) : StartOf(events[i].last)' = StartOf(events[i].last)
      BY <2>1, <2>3 DEF StartOf
    <3> QED BY <2>1, <3>1 DEF ByteInv, ShownInv
  <2>6. CallInv'
    <3>1. \A i \in 1 .. Len(plan) : StartOf(plan[i][3])' = StartOf(plan[i][3])
      BY <2>1, <2>3 DEF StartOf
    <3>2. Moving(plan)' = Moving(plan)
      BY <2>1 DEF Moving
    <3>3. Passed(plan, pos) => Passed(plan, pos)'
      BY <2>1, <3>1 DEF Passed
    <3> QED BY <2>1, <3>2, <3>3 DEF ByteInv, CallInv
  <2>7. EndInv'
    <3>1. Cut' = Cut /\ SearchedBytes' = SearchedBytes
      BY <2>1, <2>4 DEF Cut, IsBinary, HasLimit, SearchedBytes
    <3> QED BY <2>1, <2>2, <2>4, <3>1 DEF ByteInv, EndInv
  <2>8. KeptInv' /\ Covered(config)'
    BY <2>1, <2>2 DEF ByteInv, KeptInv, Empty, Covered
  <2> QED BY <2>5, <2>6, <2>7, <2>8 DEF ByteInv
<1>2. CASE MultiNext
  BY <1>2, MultiBytes
<1>3. CASE Next /\ UNCHANGED multiVars
  <2>1. CASE Sink
    BY <1>3, <2>1, SinkBytes
  <2>2. CASE Slow
    BY <1>3, <2>2, SlowBytes
  <2>3. CASE Fast
    BY <1>3, <2>3, FastBytes
  <2>4. CASE Begin
    BY <1>3, <2>4, BeginBytes
  <2>5. CASE Fill
    BY <1>3, <2>5, FillBytes
  <2>6. CASE MatchByLine \/ More
    BY <1>3, <2>6, RunBytes
  <2>7. CASE Stop \/ Finish
    BY <1>3, <2>7, EndBytes
  <2>8. CASE Done
    BY <1>1, <1>3, <2>8 DEF Done, allVars
  <2> QED BY <1>3, <2>1, <2>2, <2>3, <2>4, <2>5, <2>6, <2>7, <2>8 DEF Next, Run
<1> QED BY <1>1, <1>2, <1>3 DEF SearcherNext

LEMMA BytesInit ==
    ASSUME MultiInit, Covered(config)
    PROVE  ByteInv
<1>1. PICK x \in Cases : InitWith(x)
  BY DEF MultiInit
<1>2. events = <<>> /\ pc = "begin" /\ last_match = NoMatch
  BY <1>1 DEF InitWith, MultiInit
<1>3. ShownInv
  BY <1>2 DEF ShownInv
<1>4. CallInv /\ EndInv /\ KeptInv
  BY <1>2 DEF CallInv, EndInv, KeptInv
<1> QED BY <1>3, <1>4 DEF ByteInv

\* What finish reports.
LEMMA BytesReported ==
    ASSUME Shape, ByteInv
    PROVE  BytesSearched
<1> SUFFICES ASSUME pc = "done", ~(config.slice /\ IsBinary)
             PROVE  /\ \A i \in 1 .. Len(events) :
                          events[i].kind = "match" => StartOf(events[i].last) <= byte_count
                    /\ ~refused /\ ~IsBinary /\ ~HasLimit /\ ~config.stop_on_nonmatch
                          => byte_count = StartOf(Len(input))
  BY DEF BytesSearched
<1>1. /\ base \in Nat /\ pos \in Nat /\ Len(input) \in Nat
      /\ config.slice => base = 0 /\ len = Len(input)
      /\ config.multi => config.slice
  <2>1. input \in Seq(Line) /\ (config.multi => config.slice)
    BY DEF Shape, InputInv
  <2>2. config.slice => base = 0 /\ len = Len(input)
    BY DEF Shape, TypeInv
  <2> QED BY <2>1, <2>2, Numbers
<1>2. byte_count = IF config.slice THEN pos ELSE base
  BY DEF ByteInv, EndInv, SearchedBytes
<1>3. \A n \in Nat : ~config.slice => StartOf(n) = n
  BY <1>1, StartIs DEF Shape
<1>4. ASSUME NEW i \in 1 .. Len(events), events[i].kind = "match"
      PROVE  StartOf(events[i].last) <= byte_count
  <2>1. events[i].last \in Nat /\ StartOf(events[i].last) \in Nat
    BY ShownEvents
  <2>2. CASE config.slice
    <3>1. StartOf(events[i].last) <= base + pos
      BY <1>4, <2>2 DEF ByteInv, ShownInv
    <3> QED BY <1>1, <1>2, <2>2, <3>1
  <2>3. CASE ~config.slice
    <3>1. events[i].last <= base
      BY <1>4, <2>3 DEF ByteInv, ShownInv
    <3> QED BY <1>2, <1>3, <2>1, <2>3, <3>1
  <2> QED BY <2>2, <2>3
<1>5. ASSUME ~refused, ~IsBinary, ~HasLimit, ~config.stop_on_nonmatch
      PROVE  byte_count = StartOf(Len(input))
  <2>1. \/ config.slice /\ pos = StartOf(len)
        \/ ~config.slice /\ base = Len(input)
    BY <1>5 DEF ByteInv, EndInv, Cut
  <2> QED BY <1>1, <1>2, <1>3, <2>1
<1> QED BY <1>4, <1>5

\* The number of bytes that finish reports covers every match that was shown,
\* and the whole input if nothing has cut the search short (regression test
\* r2944).  Every search has it but the inverted ones of the fast path whose sink
\* may refuse, and the multi-line ones with a limit and context after it.
THEOREM BytesSearchedCorrect == SearcherSpec => [](Covered(config) => BytesSearched)
<1>1. MultiInit => /\ Shape /\ OrderInv /\ SpentInv /\ ToldInv /\ SilentInv
                   /\ Covered(config) => ByteInv
  BY ShapeInit, SpentInit, BinaryInit, BytesInit
<1>2. /\ Shape /\ OrderInv /\ SpentInv /\ ToldInv /\ SilentInv
      /\ Covered(config) => ByteInv
      /\ [SearcherNext]_allVars
      => (/\ Shape /\ OrderInv /\ SpentInv /\ ToldInv /\ SilentInv
          /\ Covered(config) => ByteInv)'
  <2> SUFFICES ASSUME Shape, OrderInv, SpentInv, ToldInv, SilentInv,
                      Covered(config) => ByteInv, [SearcherNext]_allVars
               PROVE  (/\ Shape /\ OrderInv /\ SpentInv /\ ToldInv /\ SilentInv
                       /\ Covered(config) => ByteInv)'
    OBVIOUS
  <2>1. Covered(config)' = Covered(config)
    BY ConfigKept DEF Covered
  <2>2. Covered(config)' => ByteInv'
    BY <2>1, BytesStep
  <2> QED BY <2>2, ShapeStep, SpentStep, BinaryStep
<1>3. Shape /\ (Covered(config) => ByteInv) => (Covered(config) => BytesSearched)
  BY BytesReported
<1> QED BY <1>1, <1>2, <1>3, PTL DEF SearcherSpec
=============================================================================
