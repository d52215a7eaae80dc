----------------------------- MODULE MultiLine -----------------------------
(***************************************************************************)
(* The strategy MultiLine of crates/searcher (searcher/glue.rs): the whole *)
(* input is one slice, a match may begin and end anywhere in it and span   *)
(* several lines.  It drives the same Core as the line oriented search, so *)
(* the module extends LineSearch: the calls of the sink, the context, the  *)
(* detection of binary data are Core's.                                    *)
(*                                                                         *)
(* A position of Core is here half a line: 2p is where line p begins, 2p+1 *)
(* is in front of its terminator, which the last line may lack.  What the  *)
(* matcher finds from a position on is the first of the input's hits.      *)
(***************************************************************************)
EXTENDS LineSearch

VARIABLES
    hits,          \* from the positions at which a match starts to their ends
    last_match     \* the lines of matches that have not been sunk

multiVars == <<hits, last_match>>
allVars == <<vars, multiVars>>
coreVars == <<absolute_byte_offset, lineVars, ctxVars, has_matched,
              binary_byte_offset>>

NoMatch == [start |-> -1, end |-> -1]

\* A match is a range of the text, and a text of no lines lacks no terminator.
ASSUME MultiAssumption ==
    \A x \in Cases : x.config.multi =>
        /\ x.config.slice /\ ~x.config.stop_on_nonmatch
        /\ x.input = <<>> => x.config.terminated
        /\ \A h \in DOMAIN x.hits :
              /\ h \in Nat /\ x.hits[h] \in Nat /\ x.hits[h] >= h
              /\ x.hits[h] <= 2 * Len(x.input) - (IF x.config.terminated THEN 0 ELSE 1)

MultiInit ==
    /\ \E x \in Cases : InitWith(x) /\ hits = x.hits
    /\ last_match = NoMatch

\* lines::locate: the lines from start up to end that the range s .. e touches.
LocateBeyond(s, e) ==    \* mutant: a match up to the terminator takes the next line too
    [start |-> s \div 2, end |-> Lesser(len, e \div 2 + 1)]
Locate(s, e) ==
    [start |-> s \div 2,
     end |-> IF e > 2 * (s \div 2) /\ e % 2 = 0 THEN e \div 2
             ELSE Lesser(len, e \div 2 + 1)]

\* Core::find, which finds nothing once the limit is reached.
Found == IF Exceeded(count) THEN {} ELSE {h \in DOMAIN hits : h >= pos}
FirstFound == CHOOSE h \in Found : \A k \in Found : h <= k

\* advance: one step further after an empty match.
Advanced(s, e) == IF s = e /\ e < TextEnd THEN e + 1 ELSE e

\* sink_context, before the lines that start at p.
ContextUpto(p) ==
    IF config.passthru THEN Span("other", last_line_visited, p)
    ELSE AfterContext(p, count')
         \o BeforeContext(p, Greater(last_line_visited, AfterEnd(p)))

Empty(r) == r.start >= r.end
Block(r) == IF Empty(r) THEN <<>> ELSE <<<<"block", r.start, r.end>>>>

\* sink: a match is kept back until one is found that does not touch its lines.
TouchesOverlap(r, line) == r.end > line.start    \* mutant: only if they overlap
Touches(r, line) == r.end >= line.start

FindNone ==
    /\ pc = "multi" /\ ~config.invert /\ pos < TextEnd /\ Found = {}
    /\ pos' = TextEnd
    /\ UNCHANGED <<input, config, bufVars, coreVars, count, pc, planVars,
                   sinkVars, multiVars>>

FindMatch ==
    /\ pc = "multi" /\ ~config.invert /\ pos < TextEnd /\ Found # {}
    /\ LET s == FirstFound
           line == Locate(s, hits[s])
       IN  /\ pos' = Advanced(s, hits[s])
           /\ count' = count + 1
           /\ IF last_match = NoMatch
              THEN last_match' = line /\ pc' = pc /\ UNCHANGED planVars
              ELSE IF Touches(last_match, line)
              THEN /\ last_match' = [last_match EXCEPT !.end = line.end]
                   /\ pc' = pc /\ UNCHANGED planVars
              ELSE /\ last_match' = line
                   /\ Planned(ContextUpto(last_match.start) \o Block(last_match),
                              IF Empty(last_match) THEN "finish" ELSE "multi",
                              "finish")
    /\ UNCHANGED <<input, config, bufVars, coreVars, sinkVars, hits>>

\* sink_matched_inverted: the lines up to those of the next match, one by one.
Uncovered(from, upto) == [i \in 1 .. Greater(upto - from, 0) |->
                              <<"block", from + i - 1, from + i>>]

FindInverted ==
    /\ pc = "multi" /\ config.invert /\ pos < TextEnd
    /\ LET line == IF Found = {} THEN [start |-> len, end |-> len]
                   ELSE Locate(FirstFound, hits[FirstFound])
           from == pos \div 2
       IN  /\ pos' = IF Found = {} THEN TextEnd
                     ELSE Advanced(StartOf(line.start), StartOf(line.end))
           /\ count' = IF Found = {} THEN count ELSE count + 1
           /\ IF from = line.start THEN pc' = pc /\ UNCHANGED planVars
              ELSE Planned(ContextUpto(from) \o Uncovered(from, line.start),
                           "multi", "finish")
    /\ UNCHANGED <<input, config, bufVars, coreVars, sinkVars, multiVars>>

\* run: the match that was kept back is sunk at the end of the slice, whatever
\* the sink answers, ...
LastMatch ==
    /\ pc = "multi" /\ pos = TextEnd
    /\ last_match' = NoMatch
    /\ count' = count
    /\ IF last_match = NoMatch THEN pc' = "trail" /\ UNCHANGED planVars
       ELSE Planned(ContextUpto(last_match.start) \o Block(last_match),
                    "trail", "trail")
    /\ UNCHANGED <<input, config, bufVars, pos, coreVars, sinkVars, hits>>

\* ... and then the context after it.
Trail ==
    /\ pc = "trail"
    /\ Planned(IF config.passthru THEN Span("other", last_line_visited, len)
               ELSE AfterContext(len, count),
               "finish", "finish")
    /\ UNCHANGED <<input, config, bufVars, pos, coreVars, count, sinkVars, multiVars>>

MultiNext == FindNone \/ FindMatch \/ FindInverted \/ LastMatch \/ Trail

SearcherNext == (Next /\ UNCHANGED multiVars) \/ MultiNext
SearcherSpec == MultiInit /\ [][SearcherNext]_allVars /\ WF_allVars(SearcherNext)

-----------------------------------------------------------------------------
(* What the hits call for.                                                 *)

\* The hits that an iteration over all the matches from p on comes upon, of
\* which each starts behind the one before; an inverted search goes on at the
\* end of the lines of a match.
Resume(s) == IF config.invert THEN StartOf(Locate(s, hits[s]).end)
             ELSE hits[s]
Iteration ==
    LET f[p \in 0 .. TextEnd + 1] ==
            LET ahead == {h \in DOMAIN hits : h >= p}
                s == CHOOSE h \in ahead : \A k \in ahead : h <= k
            IN  IF p >= TextEnd \/ ahead = {} THEN <<>>
                ELSE <<s>> \o f[IF Resume(s) > s THEN Resume(s) ELSE s + 1]
    IN  f[0]

\* The lines in which a hit has a byte; an empty one takes the line it is in.
LinesOf(s) ==
    {i \in Lines : LET from == StartOf(i - 1)
                       upto == StartOf(i)
                   IN  IF hits[s] > s THEN from < hits[s] /\ s < upto
                       ELSE from <= s /\ (s < upto \/ (i = Len(input) /\ s = upto
                                                        /\ ~config.terminated))}

MatchedLines ==
    UNION {LinesOf(Iteration[k]) : k \in {j \in 1 .. Len(Iteration) : ~Exceeded(j - 1)}}
MultiSelected == IF config.invert THEN Lines \ MatchedLines ELSE MatchedLines

\* Matches that span, share or adjoin lines are shown as one block of lines,
\* once, with the context around it; an inverted search shows all the other
\* lines (regression test r1311; no line is sunk more than once).
MultiExact ==
    config.multi =>
        Conforms(ExpectedOf(RolesOf(Lines, MultiSelected),
                            IF config.invert THEN {}
                            ELSE {i \in MultiSelected : i - 1 \in MultiSelected}))
=============================================================================
